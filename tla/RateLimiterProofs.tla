-------------------------- MODULE RateLimiterProofs --------------------------
(***************************************************************************)
(* The table of limiters implements one bucket per address, for any number *)
(* of addresses and requests, any burst and any clock, as long as an idle  *)
(* entry has had the time to fill up and nobody still holds its limiter.   *)
(***************************************************************************)
EXTENDS RateLimiter, TLAPS

\* No two addresses share a limiter.
Injective == \A a, b \in Addresses : ips[a] = ips[b] /\ ips[a] # NoLimiter => a = b

\* What a request holds is in the table, and was looked up lately.
Held ==
  \A r \in Requests : call[r].pc = "allow" =>
    /\ call[r].from \in Addresses /\ call[r].limiter \in Limiters
    /\ ips[call[r].from] = call[r].limiter
    /\ call[r].since <= seen[call[r].from] /\ now <= call[r].since + Stall

\* A limiter is last used little after its address was last seen.
Recent == \A a \in Addresses : ips[a] # NoLimiter => bucket[ips[a]].last <= seen[a] + Stall

Inv == TypeOK /\ Injective /\ Held /\ Recent

-----------------------------------------------------------------------------
LEMMA LevelRange ==
  ASSUME TypeOK, NEW l \in Limiters
  PROVE  Level(l) \in 0..Capacity
BY LimitsAssumption DEF TypeOK, Level

LEMMA InitInv == Init => Inv
BY LimitsAssumption, NamesAssumption
   DEF Init, Inv, TypeOK, Injective, Held, Recent, Call, NoCall

\* A request takes hold of the limiter l of the address a: what all the ways
\* through getLimiter have in common.
LEMMA HoldInv ==
  ASSUME Inv, NEW r \in Requests, NEW a \in Addresses, NEW l \in Limiters, Hold(r, a, l),
         ips' \in [Addresses -> Limiters \cup {NoLimiter}],
         ips'[a] = l, \A b \in Addresses : b # a => ips'[b] = ips[b] /\ ips[b] # l,
         ips[a] = NoLimiter \/ ips[a] = l,
         bucket' \in [Limiters -> [tokens : 0..Capacity, last : 0..now]],
         bucket'[l].last <= now + Stall,
         \A k \in Limiters : k # l => bucket'[k] = bucket[k],
         UNCHANGED <<now, accountVars>>
  PROVE  Inv'
<1> USE LimitsAssumption, NamesAssumption
<1> DEFINE new == [pc |-> "allow", from |-> a, limiter |-> l, since |-> now]
<1>1. new \in Call
  BY DEF Inv, TypeOK, Call
<1>2. call' = [call EXCEPT ![r] = new] /\ seen' = [seen EXCEPT ![a] = now]
  BY DEF Hold
<1>3. TypeOK'
  BY <1>1, <1>2 DEF Inv, TypeOK, accountVars
<1>4. Injective'
  BY DEF Inv, Injective, TypeOK
<1>5. Held'
  <2> SUFFICES ASSUME NEW q \in Requests, call'[q].pc = "allow"
               PROVE  /\ call'[q].from \in Addresses /\ call'[q].limiter \in Limiters
                      /\ ips'[call'[q].from] = call'[q].limiter
                      /\ call'[q].since <= seen'[call'[q].from]
                      /\ now <= call'[q].since + Stall
    BY DEF Held
  <2>1. CASE q = r
    BY <1>2, <2>1 DEF Inv, TypeOK
  <2>2. CASE q # r
    <3>1. call'[q] = call[q]
      BY <1>2, <2>2 DEF Inv, TypeOK
    <3>2. /\ call[q].from \in Addresses /\ call[q].limiter \in Limiters
          /\ ips[call[q].from] = call[q].limiter
          /\ call[q].since <= seen[call[q].from] /\ now <= call[q].since + Stall
      BY <3>1 DEF Inv, Held
    <3>3. call[q].since \in Nat /\ seen[call[q].from] \in 0..now /\ now \in Nat
      BY <3>2 DEF Inv, TypeOK, Call
    <3>4. seen[call[q].from] <= seen'[call[q].from]
      BY <1>2, <3>2, <3>3 DEF Inv, TypeOK
    <3>5. seen'[call[q].from] \in Nat
      BY <1>3, <3>2 DEF TypeOK
    <3> QED BY <3>1, <3>2, <3>3, <3>4, <3>5
  <2> QED BY <2>1, <2>2
<1>6. Recent'
  <2> SUFFICES ASSUME NEW b \in Addresses, ips'[b] # NoLimiter
               PROVE  bucket'[ips'[b]].last <= seen'[b] + Stall
    BY DEF Recent
  <2>1. CASE b = a
    BY <1>2, <2>1 DEF Inv, TypeOK
  <2>2. CASE b # a
    BY <1>2, <2>2 DEF Inv, TypeOK, Recent
  <2> QED BY <2>1, <2>2
<1> QED BY <1>3, <1>4, <1>5, <1>6 DEF Inv

LEMMA GetLimiterInv ==
  ASSUME Inv, NEW r \in Requests, GetLimiter(r)
  PROVE  Inv'
<1> USE LimitsAssumption, NamesAssumption
<1>1. UNCHANGED <<now, accountVars>>
  BY DEF GetLimiter
<1>2. ASSUME NEW a \in Addresses, ips[a] # NoLimiter, Hold(r, a, ips[a]), UNCHANGED <<ips, bucket>>
      PROVE  Inv'
  <2>1. ips[a] \in Limiters
    BY <1>2 DEF Inv, TypeOK
  <2>2. \A b \in Addresses : b # a => ips[b] # ips[a]
    BY <1>2 DEF Inv, Injective
  <2>3. bucket[ips[a]].last <= now + Stall
    BY <2>1 DEF Inv, TypeOK
  <2> QED BY <1>1, <1>2, <2>1, <2>2, <2>3, HoldInv DEF Inv, TypeOK
<1>3. ASSUME NEW a \in Addresses, NEW l \in Limiters, ips[a] = NoLimiter, Unused(l),
             ips' = [ips EXCEPT ![a] = l],
             bucket' = [bucket EXCEPT ![l] = [tokens |-> Capacity, last |-> now]],
             Hold(r, a, l)
      PROVE  Inv'
  <2>1. /\ ips' \in [Addresses -> Limiters \cup {NoLimiter}] /\ ips'[a] = l
        /\ \A b \in Addresses : b # a => ips'[b] = ips[b] /\ ips[b] # l
    BY <1>3 DEF Inv, TypeOK, Unused
  <2>2. [tokens |-> Capacity, last |-> now] \in [tokens : 0..Capacity, last : 0..now]
    BY DEF Inv, TypeOK
  <2>3. /\ bucket' \in [Limiters -> [tokens : 0..Capacity, last : 0..now]]
        /\ bucket'[l].last <= now + Stall
        /\ \A k \in Limiters : k # l => bucket'[k] = bucket[k]
    BY <1>3, <2>2 DEF Inv, TypeOK
  <2> QED BY <1>1, <1>3, <2>1, <2>3, HoldInv
<1> QED BY <1>2, <1>3 DEF GetLimiter

LEMMA AllowInv ==
  ASSUME Inv, NEW r \in Requests, Allow(r)
  PROVE  Inv'
<1> USE LimitsAssumption, NamesAssumption
<1> DEFINE l == call[r].limiter
           a == call[r].from
<1>1. a \in Addresses /\ l \in Limiters /\ ips[a] = l
  BY DEF Inv, Held, Allow
<1>2. call' = [call EXCEPT ![r] = NoCall] /\ UNCHANGED <<now, ips, seen, elapsed>>
  BY DEF Allow
<1>3. NoCall \in Call
  BY DEF NoCall, Call
<1>4. Held'
  BY <1>2 DEF Inv, TypeOK, Held, NoCall
<1>5. CASE /\ Level(l) >= Cost
           /\ bucket' = [bucket EXCEPT ![l] = [tokens |-> Level(l) - Cost, last |-> now]]
           /\ spent' = [spent EXCEPT ![a] = @ + Cost]
           /\ answer' = [from |-> a, allowed |-> TRUE]
  <2>1. Level(l) - Cost \in 0..Capacity
    BY <1>1, <1>5, LevelRange DEF Inv
  <2>2. [tokens |-> Level(l) - Cost, last |-> now] \in [tokens : 0..Capacity, last : 0..now]
    BY <2>1 DEF Inv, TypeOK
  <2>3. bucket' \in [Limiters -> [tokens : 0..Capacity, last : 0..now]] /\ bucket'[l].last = now
    BY <1>1, <1>5, <2>2 DEF Inv, TypeOK
  <2>4. TypeOK'
    BY <1>1, <1>2, <1>3, <1>5, <2>3 DEF Inv, TypeOK
  <2>5. now <= seen[a] + Stall
    BY <1>1 DEF Inv, Held, Allow, TypeOK, Call
  <2>6. \A k \in Limiters : k # l => bucket'[k] = bucket[k]
    BY <1>5 DEF Inv, TypeOK
  <2>7. Recent'
    <3> SUFFICES ASSUME NEW b \in Addresses, ips[b] # NoLimiter
                 PROVE  bucket'[ips[b]].last <= seen[b] + Stall
      BY <1>2 DEF Recent
    <3>1. CASE b = a
      BY <1>1, <2>3, <2>5, <3>1
    <3>2. CASE b # a
      <4>1. ips[b] # l /\ ips[b] \in Limiters
        BY <1>1, <3>2 DEF Inv, Injective, TypeOK
      <4> QED BY <2>6, <4>1 DEF Inv, Recent
    <3> QED BY <3>1, <3>2
  <2> QED BY <1>2, <1>4, <2>4, <2>7 DEF Inv, Injective
<1>6. CASE answer' = [from |-> a, allowed |-> FALSE] /\ UNCHANGED <<bucket, spent>>
  BY <1>1, <1>2, <1>3, <1>4, <1>6 DEF Inv, TypeOK, Injective, Recent
<1> QED BY <1>5, <1>6 DEF Allow

\* An entry that has a request under way was seen too lately to be evicted.
LEMMA EvictInv ==
  ASSUME Inv, Evict
  PROVE  Inv'
<1> USE LimitsAssumption, NamesAssumption
<1>1. /\ ips' = [a \in Addresses |-> IF seen[a] < now - Idle THEN NoLimiter ELSE ips[a]]
      /\ UNCHANGED <<now, seen, bucket, call, accountVars>>
  BY DEF Evict
<1>2. TypeOK'
  BY <1>1 DEF Inv, TypeOK, accountVars
<1>3. Injective' /\ Recent'
  BY <1>1 DEF Inv, TypeOK, Injective, Recent
<1>4. Held'
  <2> SUFFICES ASSUME NEW r \in Requests, call[r].pc = "allow"
               PROVE  ips'[call[r].from] = ips[call[r].from]
    BY <1>1 DEF Inv, Held
  <2>1. /\ call[r].from \in Addresses /\ call[r].since \in Nat
        /\ call[r].since <= seen[call[r].from] /\ now <= call[r].since + Stall
    BY DEF Inv, Held, TypeOK, Call
  <2>2. ~(seen[call[r].from] < now - Idle)
    BY <2>1 DEF Inv, TypeOK
  <2> QED BY <1>1, <2>1, <2>2
<1> QED BY <1>2, <1>3, <1>4 DEF Inv

LEMMA TickInv ==
  ASSUME Inv, Tick
  PROVE  Inv'
<1> USE LimitsAssumption, NamesAssumption
<1>1. /\ now' = now + 1 /\ elapsed' = elapsed + 1
      /\ UNCHANGED <<ips, seen, bucket, call, spent, answer>>
  BY DEF Tick, tableVars
<1>2. TypeOK'
  <2>1. 0..now \subseteq 0..(now + 1)
    BY DEF Inv, TypeOK
  <2>2. seen \in [Addresses -> 0..(now + 1)]
    BY <2>1 DEF Inv, TypeOK
  <2>3. bucket \in [Limiters -> [tokens : 0..Capacity, last : 0..(now + 1)]]
    BY <2>1 DEF Inv, TypeOK
  <2> QED BY <1>1, <2>2, <2>3 DEF Inv, TypeOK
<1>3. Injective' /\ Recent'
  BY <1>1 DEF Inv, Injective, Recent
<1>4. Held'
  <2> SUFFICES ASSUME NEW r \in Requests, call[r].pc = "allow"
               PROVE  now + 1 <= call[r].since + Stall
    BY <1>1 DEF Inv, Held
  <2>1. now - call[r].since < Stall /\ call[r].since \in Nat /\ now \in Nat
    BY DEF Tick, Inv, TypeOK, Call
  <2> QED BY <2>1
<1> QED BY <1>2, <1>3, <1>4 DEF Inv

LEMMA NextInv == Inv /\ [Next]_vars => Inv'
<1> SUFFICES ASSUME Inv, [Next]_vars PROVE Inv'
  OBVIOUS
<1>1. CASE OpenWindow
  BY <1>1 DEF OpenWindow, tableVars, Inv, TypeOK, Injective, Held, Recent
<1>2. CASE UNCHANGED vars
  BY <1>2 DEF vars, tableVars, accountVars, Inv, TypeOK, Injective, Held, Recent
<1> QED BY <1>1, <1>2, GetLimiterInv, AllowInv, EvictInv, TickInv DEF Next
-----------------------------------------------------------------------------
(* The refinement: what the bucket of an address holds. *)

Filled(a) == IF ips[a] = NoLimiter THEN Capacity ELSE Level(ips[a])

LEMMA FilledRange == Inv => \A a \in Addresses : Filled(a) \in 0..Capacity
BY LevelRange, LimitsAssumption DEF Inv, TypeOK, Filled

\* What holds of every bucket, when a limiter is looked up: nothing changes.
LEMMA GetLimiterSame ==
  ASSUME Inv, NEW r \in Requests, GetLimiter(r), NEW b \in Addresses
  PROVE  Filled(b)' = Filled(b)
<1> USE LimitsAssumption, NamesAssumption
<1>1. PICK a \in Addresses :
        \/ UNCHANGED <<ips, bucket>>
        \/ /\ ips[a] = NoLimiter
           /\ \E l \in Limiters :
                /\ Unused(l)
                /\ ips' = [ips EXCEPT ![a] = l]
                /\ bucket' = [bucket EXCEPT ![l] = [tokens |-> Capacity, last |-> now]]
  BY DEF GetLimiter
<1>2. now' = now /\ now \in Nat
  BY DEF GetLimiter, Inv, TypeOK
<1>3. CASE UNCHANGED <<ips, bucket>>
  BY <1>2, <1>3 DEF Filled, Level
<1>4. ASSUME NEW l \in Limiters, ips[a] = NoLimiter, Unused(l), ips' = [ips EXCEPT ![a] = l],
             bucket' = [bucket EXCEPT ![l] = [tokens |-> Capacity, last |-> now]]
      PROVE  Filled(b)' = Filled(b)
  <2>1. CASE b = a
    <3>1. ips'[b] = l /\ l # NoLimiter /\ Filled(b) = Capacity
      BY <1>4, <2>1 DEF Inv, TypeOK, Filled
    <3>2. bucket'[l] = [tokens |-> Capacity, last |-> now]
      BY <1>4 DEF Inv, TypeOK
    <3>3. Level(l)' = Capacity
      BY <1>2, <3>2 DEF Level
    <3> QED BY <3>1, <3>3 DEF Filled
  <2>2. CASE b # a
    <3>1. ips'[b] = ips[b] /\ ips[b] # l
      BY <1>4, <2>2 DEF Unused, Inv, TypeOK
    <3>2. ips[b] # NoLimiter => bucket'[ips[b]] = bucket[ips[b]]
      BY <1>4, <3>1 DEF Inv, TypeOK
    <3> QED BY <1>2, <3>1, <3>2 DEF Filled, Level
  <2> QED BY <2>1, <2>2
<1> QED BY <1>1, <1>3, <1>4

\* An entry is idle for so long that its bucket is full when it is evicted.
LEMMA EvictSame ==
  ASSUME Inv, Evict, NEW b \in Addresses
  PROVE  Filled(b)' = Filled(b)
<1> USE LimitsAssumption, NamesAssumption
<1>1. /\ ips'[b] = IF seen[b] < now - Idle THEN NoLimiter ELSE ips[b]
      /\ UNCHANGED <<now, bucket>>
  BY DEF Evict
<1>2. CASE ips[b] # NoLimiter /\ seen[b] < now - Idle
  <2>1. /\ ips[b] \in Limiters /\ bucket[ips[b]].last <= seen[b] + Stall
        /\ bucket[ips[b]].last \in 0..now /\ bucket[ips[b]].tokens \in 0..Capacity
        /\ seen[b] \in 0..now /\ now \in Nat
    BY <1>2 DEF Inv, TypeOK, Recent
  <2>2. Level(ips[b]) = Capacity
    BY <1>2, <2>1 DEF Level
  <2> QED BY <1>1, <1>2, <2>2 DEF Filled
<1>3. CASE ~(ips[b] # NoLimiter /\ seen[b] < now - Idle)
  BY <1>1, <1>3 DEF Filled, Level
<1> QED BY <1>2, <1>3

LEMMA TickFills ==
  ASSUME Inv, Tick, NEW b \in Addresses
  PROVE  Filled(b)' = IF Filled(b) < Capacity THEN Filled(b) + 1 ELSE Capacity
<1> USE LimitsAssumption, NamesAssumption
<1>1. now' = now + 1 /\ UNCHANGED <<ips, bucket>>
  BY DEF Tick, tableVars
<1>2. CASE ips[b] = NoLimiter
  BY <1>1, <1>2 DEF Filled
<1>3. CASE ips[b] # NoLimiter
  <2>1. bucket[ips[b]].tokens \in 0..Capacity /\ bucket[ips[b]].last \in 0..now /\ now \in Nat
    BY <1>3 DEF Inv, TypeOK
  <2> QED BY <1>1, <1>3, <2>1 DEF Filled, Level
<1> QED BY <1>2, <1>3

\* An answer takes from the bucket of its address, and from no other.
Pays(a) ==
  /\ UNCHANGED elapsed
  /\ \/ /\ Filled(a) >= Cost /\ Filled(a)' = Filled(a) - Cost
        /\ \A b \in Addresses : b # a => Filled(b)' = Filled(b)
        /\ spent' = [spent EXCEPT ![a] = @ + Cost]
        /\ answer' = [from |-> a, allowed |-> TRUE]
     \/ /\ Filled(a) < Cost /\ \A b \in Addresses : Filled(b)' = Filled(b)
        /\ answer' = [from |-> a, allowed |-> FALSE] /\ UNCHANGED spent

LEMMA AllowPays ==
  ASSUME Inv, NEW r \in Requests, Allow(r)
  PROVE  \E a \in Addresses : Pays(a)
<1> USE LimitsAssumption, NamesAssumption
<1>1. PICK a \in Addresses, l \in Limiters :
        call[r].from = a /\ call[r].limiter = l /\ ips[a] = l
  BY DEF Inv, Held, Allow
<1>2. UNCHANGED <<now, ips, elapsed>> /\ now \in Nat /\ Filled(a) = Level(l) /\ l # NoLimiter
  BY <1>1 DEF Allow, Inv, TypeOK, Filled
<1>3. CASE /\ Level(l) >= Cost
           /\ bucket' = [bucket EXCEPT ![l] = [tokens |-> Level(l) - Cost, last |-> now]]
           /\ spent' = [spent EXCEPT ![a] = @ + Cost]
           /\ answer' = [from |-> a, allowed |-> TRUE]
  <2>1. bucket'[l].tokens = Level(l) - Cost /\ bucket'[l].last = now
    BY <1>1, <1>3 DEF Inv, TypeOK
  <2>2. Level(l) \in 0..Capacity
    BY <1>1, LevelRange DEF Inv
  <2>3. Level(l)' = Level(l) - Cost
    <3> DEFINE rest == Level(l) - Cost
    <3>1. rest \in Int /\ rest < Capacity
      BY <2>2
    <3>2. Level(l)' = IF rest + (now - now) < Capacity THEN rest + (now - now) ELSE Capacity
      BY <1>2, <2>1 DEF Level
    <3> HIDE DEF rest
    <3>3. Level(l)' = rest
      BY <1>2, <3>1, <3>2
    <3> QED BY <3>3 DEF rest
  <2>4. Filled(a)' = Filled(a) - Cost
    <3>1. ips'[a] = l
      BY <1>1, <1>2
    <3>2. Filled(a)' = Level(l)'
      BY <1>2, <3>1 DEF Filled
    <3> QED BY <1>2, <2>3, <3>2
  <2>5. ASSUME NEW b \in Addresses, b # a PROVE Filled(b)' = Filled(b)
    <3>1. ips[b] # NoLimiter => ips[b] # l /\ bucket'[ips[b]] = bucket[ips[b]]
      BY <1>1, <1>3, <2>5 DEF Inv, Injective, TypeOK
    <3> QED BY <1>2, <3>1 DEF Filled, Level
  <2> QED BY <1>1, <1>2, <1>3, <2>4, <2>5 DEF Pays
<1>4. CASE /\ Level(l) < Cost /\ answer' = [from |-> a, allowed |-> FALSE]
           /\ UNCHANGED <<bucket, spent>>
  <2>1. \A b \in Addresses : Filled(b)' = Filled(b)
    BY <1>2, <1>4 DEF Filled, Level
  <2> QED BY <1>1, <1>2, <1>4, <2>1 DEF Pays
<1> QED BY <1>1, <1>3, <1>4 DEF Allow

-----------------------------------------------------------------------------
\* Each step of the limiter is a step of the buckets, or none.
LEMMA StepRefines == Inv /\ [Next]_vars => [Bucket!Next]_(Bucket!vars)
<1> SUFFICES ASSUME Inv, [Next]_vars PROVE [Bucket!Next]_(Bucket!vars)
  OBVIOUS
<1> DEFINE level == [a \in Addresses |-> Filled(a)]
<1>1. level = [a \in Addresses |-> IF ips[a] = NoLimiter THEN Capacity ELSE Level(ips[a])]
  BY DEF Filled
<1>2. level' = [a \in Addresses |-> Filled(a)']
  OBVIOUS
<1>3. ASSUME \A b \in Addresses : Filled(b)' = Filled(b), UNCHANGED accountVars
      PROVE  UNCHANGED Bucket!vars
  BY <1>1, <1>2, <1>3 DEF Bucket!vars, accountVars, Filled
<1>4. ASSUME NEW r \in Requests, GetLimiter(r) PROVE UNCHANGED Bucket!vars
  BY <1>3, <1>4, GetLimiterSame DEF GetLimiter
<1>5. CASE Evict
  BY <1>3, <1>5, EvictSame DEF Evict
<1>6. CASE Tick
  <2>1. level' = [a \in Addresses |-> IF level[a] < Capacity THEN level[a] + 1 ELSE Capacity]
    BY <1>6, TickFills
  <2>2. Bucket!Refill
    BY <1>6, <2>1 DEF Bucket!Refill, Tick, Filled
  <2> QED BY <2>2 DEF Bucket!Next
<1>7. CASE OpenWindow
  <2>1. \A b \in Addresses : Filled(b)' = Filled(b)
    BY <1>7 DEF OpenWindow, tableVars, Filled, Level
  <2>2. Bucket!OpenWindow
    BY <1>7, <2>1 DEF Bucket!OpenWindow, OpenWindow, Filled
  <2> QED BY <2>2 DEF Bucket!Next
<1>8. ASSUME NEW r \in Requests, Allow(r) PROVE Bucket!Next
  <2>1. PICK a \in Addresses : Pays(a)
    BY <1>8, AllowPays
  <2>2. level[a] = Filled(a) /\ level \in [Addresses -> 0..Capacity]
    BY FilledRange
  <2>3. CASE answer' = [from |-> a, allowed |-> TRUE]
    <3>1. /\ Filled(a) >= Cost /\ Filled(a)' = Filled(a) - Cost
          /\ \A b \in Addresses : b # a => Filled(b)' = Filled(b)
          /\ spent' = [spent EXCEPT ![a] = @ + Cost] /\ UNCHANGED elapsed
      BY <2>1, <2>3 DEF Pays
    <3>2. level' = [level EXCEPT ![a] = @ - Cost]
      BY <3>1
    <3>3. Bucket!Admit(a)
      BY <2>2, <2>3, <3>1, <3>2 DEF Bucket!Admit, Filled
    <3> QED BY <3>3 DEF Bucket!Next
  <2>4. CASE answer' = [from |-> a, allowed |-> FALSE]
    <3>1. /\ Filled(a) < Cost /\ \A b \in Addresses : Filled(b)' = Filled(b)
          /\ UNCHANGED <<elapsed, spent>>
      BY <2>1, <2>4 DEF Pays
    <3>2. level' = level
      BY <3>1
    <3>3. Bucket!Refuse(a)
      BY <2>2, <2>4, <3>1, <3>2 DEF Bucket!Refuse, Filled
    <3> QED BY <3>3 DEF Bucket!Next
  <2> QED BY <2>1, <2>3, <2>4 DEF Pays
<1>9. CASE UNCHANGED vars
  BY <1>3, <1>9 DEF vars, tableVars, Filled, Level
<1> QED BY <1>4, <1>5, <1>6, <1>7, <1>8, <1>9 DEF Next

\* The limiter, with its table, its eviction and the use of a limiter outside
\* the mutex, is one token bucket per address that is kept for ever.
THEOREM LimiterIsTokenBucket == Spec => IsTokenBucket
<1>1. Init => Bucket!Init
  BY DEF Init, Bucket!Init
<1> QED BY <1>1, InitInv, NextInv, StepRefines, PTL DEF Spec, IsTokenBucket, Bucket!Spec

-----------------------------------------------------------------------------
\* In every window of time, what an address is let through costs no more than
\* one burst and the refill of that time.
THEOREM BurstIsBounded == Spec => []BurstBound
<1>1. Init => BurstBound
  <2> SUFFICES ASSUME Init, NEW a \in Addresses PROVE spent[a] + Filled(a) <= Capacity + elapsed
    BY DEF BurstBound, Filled
  <2>1. spent[a] = 0 /\ elapsed = 0 /\ Filled(a) = Capacity
    BY DEF Init, Filled
  <2> QED BY <2>1, LimitsAssumption
<1>2. BurstBound <=> \A a \in Addresses : spent[a] + Filled(a) <= Capacity + elapsed
  BY DEF BurstBound, Filled
<1>3. Inv /\ BurstBound /\ [Next]_vars => BurstBound'
  <2> SUFFICES ASSUME Inv, BurstBound, [Next]_vars, NEW a \in Addresses
               PROVE  (spent[a] + Filled(a) <= Capacity + elapsed)'
    BY DEF BurstBound, Filled
  <2>1. /\ spent[a] + Filled(a) <= Capacity + elapsed /\ Filled(a) \in 0..Capacity
        /\ spent[a] \in Nat /\ elapsed \in Nat /\ Capacity \in Nat /\ Cost \in Nat
    BY <1>2, FilledRange, LimitsAssumption DEF Inv, TypeOK
  <2>2. ASSUME NEW r \in Requests, GetLimiter(r) PROVE (spent[a] + Filled(a) <= Capacity + elapsed)'
    BY <2>1, <2>2, GetLimiterSame DEF GetLimiter, accountVars
  <2>3. ASSUME NEW r \in Requests, Allow(r) PROVE (spent[a] + Filled(a) <= Capacity + elapsed)'
    <3>1. PICK b \in Addresses : Pays(b)
      BY <2>3, AllowPays
    <3>2. CASE Filled(a)' = Filled(a) /\ spent'[a] = spent[a]
      BY <2>1, <3>1, <3>2 DEF Pays
    <3>3. CASE Filled(a)' = Filled(a) - Cost /\ spent'[a] = spent[a] + Cost
      BY <2>1, <3>1, <3>3 DEF Pays
    <3> QED BY <3>1, <3>2, <3>3 DEF Pays, Inv, TypeOK
  <2>4. CASE Evict
    BY <2>1, <2>4, EvictSame DEF Evict, accountVars
  <2>5. CASE Tick
    <3>1. Filled(a)' <= Filled(a) + 1 /\ Filled(a)' \in Nat
      BY <2>1, <2>5, TickFills
    <3>2. elapsed' = elapsed + 1 /\ spent' = spent
      BY <2>5 DEF Tick
    <3> QED BY <2>1, <3>1, <3>2
  <2>6. CASE OpenWindow
    <3>1. spent'[a] = 0 /\ elapsed' = 0 /\ Filled(a)' = Filled(a)
      BY <2>6 DEF OpenWindow, tableVars, Filled, Level
    <3> QED BY <2>1, <3>1
  <2>7. CASE UNCHANGED vars
    BY <2>1, <2>7 DEF vars, tableVars, accountVars, Filled, Level
  <2> QED BY <2>2, <2>3, <2>4, <2>5, <2>6, <2>7 DEF Next
<1> QED BY <1>1, <1>3, InitInv, NextInv, PTL DEF Spec
-----------------------------------------------------------------------------
\* Every address of the table has a limiter, every request the one it was handed,
\* and every limiter a level within its burst, for any numbers of them
\* (ratelimit.go:14-98).
THEOREM LimiterTyped == Spec => []TypeOK
<1>1. Inv => TypeOK
  BY DEF Inv
<1> QED BY <1>1, InitInv, NextInv, PTL DEF Spec
=============================================================================
