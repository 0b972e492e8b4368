------------------------------ MODULE JobStream ------------------------------
(***************************************************************************)
(* What the job service promises to whoever reads the event streams of     *)
(* jobs, without keys, subscriptions or timers: statuses, and then one     *)
(* ending, after which nothing comes.  A relay may build on no more.       *)
(***************************************************************************)
EXTENDS StreamEvents

CONSTANT Streams
VARIABLES
  phase,  \* per stream: "new", nothing is written; "loop", statuses; "ended"
  told    \* per stream: the events that were written last
jobStreamVars == <<phase, told>>

Init == phase = [s \in Streams |-> "new"] /\ told = [s \in Streams |-> <<>>]

Write(s, turn) ==
  /\ phase' = [phase EXCEPT ![s] = turn.next]
  /\ told' = [told EXCEPT ![s] = turn.events]

Next == \E s \in Streams : \E turn \in Turns(phase[s]) : Write(s, turn)

Spec == Init /\ [][Next]_jobStreamVars
=============================================================================
