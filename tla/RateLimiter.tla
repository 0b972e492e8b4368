----------------------------- MODULE RateLimiter -----------------------------
(***************************************************************************)
(* cmd/gateway/ratelimit.go: a table of rate.Limiter objects, one per      *)
(* address that has been seen lately.  The table is behind a mutex; the    *)
(* limiter that a request finds there is used after the mutex is released, *)
(* and a loop of its own throws entries out.                               *)
(*                                                                         *)
(* Time is counted in units of which a token takes Cost; a whole bucket is *)
(* Capacity, which is one minute (limit = burst / minute).                 *)
(***************************************************************************)
EXTENDS Integers

CONSTANTS
  Addresses, Requests, Limiters,
  Capacity, Cost,
  Idle,      \* how long an address may be idle before it is thrown out
  Stall,     \* how long at most a request takes from the table to its answer
  MaxTime,   \* bound on the clock
  NoAddress, NoLimiter

\* An idle entry has had the time to fill up, and nobody still holds it.  In
\* the code Idle is five minutes, Capacity one: Stall may be four minutes.
ASSUME LimitsAssumption ==
  /\ Capacity \in Nat /\ Cost \in Nat \ {0} /\ Stall \in Nat /\ MaxTime \in Nat
  /\ Idle \in Nat /\ Idle >= Capacity + Stall
ASSUME NamesAssumption == NoAddress \notin Addresses /\ NoLimiter \notin Limiters

VARIABLES
  now,
  ips,      \* per address: its limiter in the table, or none
  seen,     \* per address: lastSeen
  bucket,   \* per limiter: its tokens when it was last used, and that time
  call,     \* per request: between getLimiter and Allow, what it holds
  spent, elapsed, answer  \* accounts of a window of time, kept for TokenBucket
tableVars == <<ips, seen, bucket>>
accountVars == <<spent, elapsed, answer>>
vars == <<now, tableVars, call, accountVars>>

Call == [pc : {"idle", "allow"}, from : Addresses \cup {NoAddress},
         limiter : Limiters \cup {NoLimiter}, since : Nat]
NoCall == [pc |-> "idle", from |-> NoAddress, limiter |-> NoLimiter, since |-> 0]

TypeOK ==
  /\ now \in Nat
  /\ ips \in [Addresses -> Limiters \cup {NoLimiter}]
  /\ seen \in [Addresses -> 0..now]
  /\ bucket \in [Limiters -> [tokens : 0..Capacity, last : 0..now]]
  /\ call \in [Requests -> Call]
  /\ spent \in [Addresses -> Nat] /\ elapsed \in Nat
  /\ answer \in [from : Addresses \cup {NoAddress}, allowed : BOOLEAN]

Init ==
  /\ now = 0
  /\ ips = [a \in Addresses |-> NoLimiter] /\ seen = [a \in Addresses |-> 0]
  /\ bucket = [l \in Limiters |-> [tokens |-> Capacity, last |-> 0]]
  /\ call = [r \in Requests |-> NoCall]
  /\ spent = [a \in Addresses |-> 0] /\ elapsed = 0
  /\ answer = [from |-> NoAddress, allowed |-> FALSE]

-----------------------------------------------------------------------------
\* A limiter that neither the table nor a request refers to: a new object.
Unused(l) ==
  /\ \A a \in Addresses : ips[a] # l
  /\ \A r \in Requests : call[r].limiter # l

Hold(r, a, l) ==
  /\ call' = [call EXCEPT ![r] = [pc |-> "allow", from |-> a, limiter |-> l, since |-> now]]
  /\ seen' = [seen EXCEPT ![a] = now]

\* A new limiter for each request.
GetLimiterMutant(r) ==
  /\ call[r].pc = "idle"
  /\ \E a \in Addresses, l \in Limiters :
       /\ Unused(l)
       /\ ips' = [ips EXCEPT ![a] = l]
       /\ bucket' = [bucket EXCEPT ![l] = [tokens |-> Capacity, last |-> now]]
       /\ Hold(r, a, l)
  /\ UNCHANGED <<now, accountVars>>
\* getLimiter, under the mutex.  A new limiter is full.
GetLimiter(r) ==
  /\ call[r].pc = "idle"
  /\ \E a \in Addresses :
       \/ ips[a] # NoLimiter /\ Hold(r, a, ips[a]) /\ UNCHANGED <<ips, bucket>>
       \/ /\ ips[a] = NoLimiter
          /\ \E l \in Limiters :
               /\ Unused(l)
               /\ ips' = [ips EXCEPT ![a] = l]
               /\ bucket' = [bucket EXCEPT ![l] = [tokens |-> Capacity, last |-> now]]
               /\ Hold(r, a, l)
  /\ UNCHANGED <<now, accountVars>>

\* A bucket that overflows.
LevelMutant(l) == bucket[l].tokens + (now - bucket[l].last)
\* What a rate.Limiter holds now.
Level(l) ==
  LET filled == bucket[l].tokens + (now - bucket[l].last)
  IN IF filled < Capacity THEN filled ELSE Capacity

\* Allow of the limiter, and the answer to the request.
Allow(r) ==
  /\ call[r].pc = "allow"
  /\ LET l == call[r].limiter
         a == call[r].from
     IN \/ /\ Level(l) >= Cost
           /\ bucket' = [bucket EXCEPT ![l] = [tokens |-> Level(l) - Cost, last |-> now]]
           /\ spent' = [spent EXCEPT ![a] = @ + Cost]
           /\ answer' = [from |-> a, allowed |-> TRUE]
        \/ /\ Level(l) < Cost
           /\ answer' = [from |-> a, allowed |-> FALSE]
           /\ UNCHANGED <<bucket, spent>>
  /\ call' = [call EXCEPT ![r] = NoCall]
  /\ UNCHANGED <<now, ips, seen, elapsed>>

\* The entries are thrown out as soon as they have been idle for a moment.
EvictMutant ==
  /\ \E a \in Addresses : ips[a] # NoLimiter /\ seen[a] < now
  /\ ips' = [a \in Addresses |-> IF seen[a] < now THEN NoLimiter ELSE ips[a]]
  /\ UNCHANGED <<now, seen, bucket, call, accountVars>>
\* One round of evictLoop, under the mutex.
Evict ==
  /\ \E a \in Addresses : ips[a] # NoLimiter /\ seen[a] < now - Idle
  /\ ips' = [a \in Addresses |-> IF seen[a] < now - Idle THEN NoLimiter ELSE ips[a]]
  /\ UNCHANGED <<now, seen, bucket, call, accountVars>>

\* No request is held up for more than Stall.
Tick ==
  /\ now < MaxTime
  /\ \A r \in Requests : call[r].pc = "allow" => now - call[r].since < Stall
  /\ now' = now + 1 /\ elapsed' = elapsed + 1
  /\ UNCHANGED <<tableVars, call, spent, answer>>

OpenWindow ==
  /\ spent' = [a \in Addresses |-> 0] /\ elapsed' = 0
  /\ UNCHANGED <<now, tableVars, call, answer>>

Next ==
  \/ \E r \in Requests : GetLimiter(r) \/ Allow(r)
  \/ Evict \/ Tick \/ OpenWindow

Spec == Init /\ [][Next]_vars

-----------------------------------------------------------------------------
Bucket == INSTANCE TokenBucket WITH
  level <- [a \in Addresses |-> IF ips[a] = NoLimiter THEN Capacity ELSE Level(ips[a])]

\* The table, its eviction and the requests that use a limiter outside the
\* mutex cannot be told from one bucket per address that is kept for ever: no
\* token is lost or gained, and a request is refused only by an empty bucket
\* (ratelimit.go:38-67).
IsTokenBucket == Bucket!Spec

\* In every window of time, what an address is let through is bounded by one
\* burst and the refill of that time, although its limiter may be thrown out
\* and made anew on the way (ratelimit.go:38-67).
BurstBound ==
  \A a \in Addresses :
    spent[a] + (IF ips[a] = NoLimiter THEN Capacity ELSE Level(ips[a])) <= Capacity + elapsed
=============================================================================
