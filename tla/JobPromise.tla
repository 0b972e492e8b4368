----------------------------- MODULE JobPromise -----------------------------
(***************************************************************************)
(* What the service promises to whoever submits a list, without queues,    *)
(* workers or keys: the job goes from queued to processing to the right    *)
(* answer, never back, and gets there.                                     *)
(***************************************************************************)
EXTENDS JobTypes

VARIABLES
  right,  \* per job: the right answer to what was submitted
  view    \* per job: what the service says of it
promiseVars == <<right, view>>

Init == right = [x \in Once |-> NoReport] /\ view = [x \in Once |-> NoReport]

Submit(id) ==
  /\ right[id] = NoReport
  /\ \E answer \in {Done(TRUE), Done(FALSE), Failed("parse")} :
       right' = [right EXCEPT ![id] = answer]
  /\ UNCHANGED view

Say(id, from, r) == view[id] = from /\ view' = [view EXCEPT ![id] = r] /\ UNCHANGED right

Accept(id) == right[id] # NoReport /\ Say(id, NoReport, Plain("queued"))
Begin(id)  == Say(id, Plain("queued"), Plain("processing"))
Finish(id) == Say(id, Plain("processing"), right[id])

Next == \E id \in Once : Submit(id) \/ Accept(id) \/ Begin(id) \/ Finish(id)

Spec ==
  /\ Init /\ [][Next]_promiseVars
  /\ \A id \in Once : WF_promiseVars(Accept(id) \/ Begin(id) \/ Finish(id))
=============================================================================
