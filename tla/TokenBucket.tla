----------------------------- MODULE TokenBucket -----------------------------
(***************************************************************************)
(* What the rate limiter of the gateway promises: every address has one    *)
(* bucket, full at first, that is never thrown away; a request is let      *)
(* through if and only if its bucket can pay for it.                       *)
(***************************************************************************)
EXTENDS Integers

CONSTANTS
  Addresses,
  Capacity,  \* of a bucket, in the units of time that it takes to fill it
  Cost,      \* of a request, in the same units
  NoAddress

VARIABLES
  level,    \* per address: what its bucket holds
  spent,    \* per address: what its requests have cost since the window opened
  elapsed,  \* time since the window opened
  answer    \* the last answer: to whom, and whether the request was let through
vars == <<level, spent, elapsed, answer>>

Init ==
  /\ level = [a \in Addresses |-> Capacity]
  /\ spent = [a \in Addresses |-> 0] /\ elapsed = 0
  /\ answer = [from |-> NoAddress, allowed |-> FALSE]

Refill ==
  /\ level' = [a \in Addresses |-> IF level[a] < Capacity THEN level[a] + 1 ELSE Capacity]
  /\ elapsed' = elapsed + 1
  /\ UNCHANGED <<spent, answer>>

Admit(a) ==
  /\ level[a] >= Cost
  /\ level' = [level EXCEPT ![a] = @ - Cost]
  /\ spent' = [spent EXCEPT ![a] = @ + Cost]
  /\ answer' = [from |-> a, allowed |-> TRUE]
  /\ UNCHANGED elapsed

Refuse(a) ==
  /\ level[a] < Cost
  /\ answer' = [from |-> a, allowed |-> FALSE]
  /\ UNCHANGED <<level, spent, elapsed>>

\* Accounts are opened anew, to look at any window of time.
OpenWindow ==
  /\ spent' = [a \in Addresses |-> 0] /\ elapsed' = 0
  /\ UNCHANGED <<level, answer>>

Next == Refill \/ OpenWindow \/ \E a \in Addresses : Admit(a) \/ Refuse(a)

Spec == Init /\ [][Next]_vars
=============================================================================
