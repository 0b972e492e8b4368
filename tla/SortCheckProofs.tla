--------------------------- MODULE SortCheckProofs ---------------------------
(***************************************************************************)
(* Check answers as its declarative meaning does, for every list of        *)
(* well-formed values and both orders.  The argument: the reference `prev` *)
(* is reached by some reading of the elements passed so far (Reached), and *)
(* no reading of them ends before it (Least), so what does not fit after   *)
(* it fits after no reading.                                               *)
(***************************************************************************)
EXTENDS SortCheck, TLAPS

\* TypeOK without the index of the scan, of which ScanInv says more.
Typed ==
  /\ list \in Lists /\ order \in Orders
  /\ pc \in {"start", "loop", "scan", "end"}
  /\ i \in 1..Len(list) + 1 /\ j \in Int
  /\ prev \in Ext
  /\ verdict \in {"none", "yes", "no"}

InLoop == pc \in {"loop", "scan"}

\* r reads the first n elements in order and its last reading ends at p.
EndsAt(l, o, r, n, p) ==
  /\ InOrder(l, o, r, n)
  /\ p \in r[n] /\ \A x \in r[n] : Before(o, x, p)

Reached(l, o, n, p) == \E r \in Selections(l) : EndsAt(l, o, r, n, p)
Least(l, o, n, p) ==
  \A r \in Selections(l) :
    InOrder(l, o, r, n) => \E x \in r[n] : Before(o, p, x)

\* The points the scan has left behind are those that do not fit.
LeftBehind(k) == IF order = "asc" THEN k < j ELSE k > j
ScanInv ==
  pc = "scan" =>
    /\ i <= Len(list) /\ list[i].inf = 0 /\ list[i].points # <<>>
    /\ \A k \in 1..Len(list[i].points) :
         LeftBehind(k) => ~Fits(Finite(list[i].points[k]))
    /\ order = "asc" => j \in 1..Len(list[i].points) + 1
    /\ order # "asc" => j \in 0..Len(list[i].points)

LoopInv ==
  InLoop => /\ i >= 2
            /\ Reached(list, order, i - 1, prev)
            /\ Least(list, order, i - 1, prev)

Answered ==
  /\ pc = "end" <=> verdict # "none"
  /\ verdict = "yes" => Sortable(list, order)
  /\ verdict = "no" => ~Sortable(list, order)

IInv == Typed /\ LoopInv /\ ScanInv /\ Answered

-----------------------------------------------------------------------------
(* The order on the extended line. *)

LEMMA ExtPoints ==
  /\ \A x \in Int : Finite(x) \in Ext
  /\ \A s \in {-1, 0, 1} : Infinite(s) \in Ext
BY DEF Finite, Infinite, Ext

\* Before is transitive.
LEMMA BeforeTransitive ==
  ASSUME NEW a \in Ext, NEW b \in Ext, NEW c \in Ext, Before(order, a, b), Before(order, b, c)
  PROVE  Before(order, a, c)
BY DEF Ext, Before, InfCmp

\* Before is total.
LEMMA BeforeTotal ==
  ASSUME NEW a \in Ext, NEW b \in Ext, order \in Orders
  PROVE  Before(order, a, b) \/ Before(order, b, a)
BY DEF Ext, Before, InfCmp, Orders

\* The comparison of the code is the order.
LEMMA FitsIsBefore ==
  ASSUME NEW x \in Ext, prev \in Ext, order \in Orders
  PROVE  Fits(x) <=> Before(order, prev, x)
BY DEF Ext, Before, Fits, InfCmp, Orders

LEMMA FiniteOrder ==
  ASSUME NEW x \in Int, NEW y \in Int, order \in Orders
  PROVE  Before(order, Finite(x), Finite(y)) <=> (IF order = "asc" THEN x <= y ELSE y <= x)
BY DEF Finite, Before, InfCmp, Orders

-----------------------------------------------------------------------------
(* The readings of a value. *)

LEMMA ReadingsInExt ==
  ASSUME NEW v, WellFormed(v), NEW S \in Readings(v)
  PROVE  S \subseteq Ext
<1>1. CASE v.inf # 0
  BY <1>1, ExtPoints DEF Readings, WellFormed, Value
<1>2. CASE v.inf = 0 /\ v.points # <<>>
  BY <1>2, ExtPoints DEF Readings, WellFormed, Value
<1>3. CASE v.inf = 0 /\ v.points = <<>>
  <2>1. S = {Finite(x) : x \in v.min..v.max}
    BY <1>3 DEF Readings
  <2>2. v.min..v.max \subseteq Int
    BY DEF WellFormed, Value
  <2> QED BY <2>1, <2>2, ExtPoints
<1> QED BY <1>1, <1>2, <1>3

LEMMA ListTypes ==
  ASSUME list \in Lists
  PROVE  /\ Len(list) \in Nat
         /\ \A k \in 1..Len(list) : WellFormed(list[k]) /\ list[k] \in Value
         /\ list \in Seq(Value)
BY ListsAssumption DEF WellFormed

-----------------------------------------------------------------------------
(* One turn of the loop, for element n + 1 and the reference p. *)

\* A reading of the next element that starts after p extends what was reached.
LEMMA ExtendReached ==
  ASSUME list \in Lists, NEW n \in Nat, n >= 1, n < Len(list),
         NEW p, Reached(list, order, n, p),
         NEW S \in Readings(list[n + 1]), \A y \in S : Before(order, p, y),
         NEW q \in S, \A y \in S : Before(order, y, q),
         p \in Ext
  PROVE  Reached(list, order, n + 1, q)
<1>1. PICK r \in Selections(list) : EndsAt(list, order, r, n, p)
  BY DEF Reached
<1>2. S \in UNION {Readings(list[k]) : k \in 1..Len(list)}
  BY ListTypes DEF Selections
<1> DEFINE r2 == [r EXCEPT ![n + 1] = S]
<1>3. r2 \in Selections(list) /\ r2[n + 1] = S /\ \A k \in 1..n : r2[k] = r[k]
  <2> DEFINE U == UNION {Readings(list[k]) : k \in 1..Len(list)}
  <2>1. n + 1 \in 1..Len(list) /\ n \in Nat /\ Len(list) \in Nat
    BY ListTypes
  <2>2. r \in [1..Len(list) -> U] /\ S \in U
    BY <1>1, <1>2 DEF Selections
  <2> HIDE DEF U
  <2>3. r2 \in [1..Len(list) -> U] /\ r2[n + 1] = S /\ \A k \in 1..n : r2[k] = r[k]
    BY <2>1, <2>2
  <2> QED BY <2>3 DEF Selections, U
<1>4. r[n] \subseteq Ext
  BY <1>1, ReadingsInExt, ListTypes DEF EndsAt, InOrder
<1>5. \A x \in r[n], y \in S : Before(order, x, y)
  <2>1. S \subseteq Ext
    BY ReadingsInExt, ListTypes
  <2> QED BY <1>1, <1>4, <2>1, BeforeTransitive DEF EndsAt
<1>6. InOrder(list, order, r2, n + 1)
  <2>1. \A k \in 1..n + 1 : r2[k] \in Readings(list[k])
    BY <1>1, <1>3 DEF EndsAt, InOrder
  <2>2. \A k \in 1..n : \A x \in r2[k], y \in r2[k + 1] : Before(order, x, y)
    <3> SUFFICES ASSUME NEW k \in 1..n PROVE \A x \in r2[k], y \in r2[k + 1] : Before(order, x, y)
      OBVIOUS
    <3>1. CASE k = n
      BY <3>1, <1>3, <1>5
    <3>2. CASE k # n
      <4>1. k \in 1..n - 1 /\ k + 1 \in 1..n
        BY <3>2
      <4> HIDE DEF r2
      <4> QED BY <4>1, <1>1, <1>3 DEF EndsAt, InOrder
    <3> QED BY <3>1, <3>2
  <2> HIDE DEF r2
  <2> QED BY <2>1, <2>2 DEF InOrder
<1> HIDE DEF r2
<1> QED BY <1>3, <1>6 DEF Reached, EndsAt

\* If every reading of the next element that starts after p has a point at or
\* after q, then so has every reading of the list that far.
LEMMA ExtendLeast ==
  ASSUME list \in Lists, NEW n \in Nat, n >= 1, n < Len(list),
         NEW p \in Ext, Least(list, order, n, p), NEW q,
         \A S \in Readings(list[n + 1]) :
            (\A y \in S : Before(order, p, y)) => \E y \in S : Before(order, q, y)
  PROVE  Least(list, order, n + 1, q)
<1> SUFFICES ASSUME NEW r \in Selections(list), InOrder(list, order, r, n + 1)
             PROVE  \E y \in r[n + 1] : Before(order, q, y)
  BY DEF Least
<1>1. InOrder(list, order, r, n)
  BY DEF InOrder
<1>2. PICK x \in r[n] : Before(order, p, x)
  BY <1>1 DEF Least
<1>3. /\ r[n] \subseteq Ext /\ r[n + 1] \subseteq Ext
      /\ r[n + 1] \in Readings(list[n + 1])
  BY ReadingsInExt, ListTypes DEF InOrder
<1>4. \A y \in r[n + 1] : Before(order, x, y)
  BY DEF InOrder
<1>5. \A y \in r[n + 1] : Before(order, p, y)
  BY <1>2, <1>3, <1>4, BeforeTransitive
<1> QED BY <1>3, <1>5

\* If no reading of the next element starts after p, no reading of the list is
\* in order.
LEMMA Stuck ==
  ASSUME list \in Lists, NEW n \in Nat, n >= 1, n < Len(list),
         NEW p \in Ext, Least(list, order, n, p),
         \A S \in Readings(list[n + 1]) : \E y \in S : ~Before(order, p, y)
  PROVE  ~Sortable(list, order)
<1> SUFFICES ASSUME NEW r \in Selections(list), InOrder(list, order, r, Len(list)) PROVE FALSE
  BY DEF Sortable, Selections
<1>1. InOrder(list, order, r, n) /\ InOrder(list, order, r, n + 1)
  BY ListTypes DEF InOrder
<1>2. PICK x \in r[n] : Before(order, p, x)
  BY <1>1 DEF Least
<1>3. /\ r[n] \subseteq Ext /\ r[n + 1] \subseteq Ext
      /\ r[n + 1] \in Readings(list[n + 1])
  BY <1>1, ReadingsInExt, ListTypes DEF InOrder
<1>4. \A y \in r[n + 1] : Before(order, x, y)
  BY <1>1 DEF InOrder
<1>5. \A y \in r[n + 1] : Before(order, p, y)
  BY <1>2, <1>3, <1>4, BeforeTransitive
<1> QED BY <1>3, <1>5

-----------------------------------------------------------------------------
(* The invariant. *)

\* The first reference is reached by a reading of the first element, and is
\* the least that one may end at.
LEMMA FirstElement ==
  ASSUME list \in Lists, Len(list) > 1, order \in Orders
  PROVE  LET p == FirstReference(list[1]) IN
           p \in Ext /\ Reached(list, order, 1, p) /\ Least(list, order, 1, p)
<1> DEFINE v == list[1]
           p == FirstReference(v)
<1>1. WellFormed(v) /\ v \in Value /\ 1 \in 1..Len(list)
  BY ListTypes
<1>2. /\ p \in Ext
      /\ \E S \in Readings(v) : p \in S /\ \A y \in S : Before(order, y, p)
      /\ \A S \in Readings(v) : \E y \in S : Before(order, p, y)
  <2>1. CASE v.inf # 0
    <3>1. p = Infinite(v.inf) /\ Readings(v) = {{p}} /\ p \in Ext
      BY <1>1, <2>1, ExtPoints DEF FirstReference, Readings, Value
    <3> QED BY <3>1, BeforeTotal
  <2>2. CASE v.inf = 0 /\ v.points # <<>>
    <3> DEFINE m == ScanStart(v)
    <3>1. v.points \in Seq(Int) /\ Len(v.points) \in Nat /\ m \in 1..Len(v.points)
      BY <1>1, <2>2 DEF Value, ScanStart, Orders
    <3>2. p = Finite(v.points[m]) /\ p \in Ext
      BY <1>1, <2>2, <3>1, ExtPoints DEF FirstReference
    <3>3. Readings(v) = {{Finite(v.points[k])} : k \in 1..Len(v.points)}
      BY <2>2 DEF Readings
    <3>4. \A k \in 1..Len(v.points) : Before(order, p, Finite(v.points[k]))
      <4> SUFFICES ASSUME NEW k \in 1..Len(v.points)
                   PROVE  Before(order, p, Finite(v.points[k]))
        OBVIOUS
      <4>1. IF order = "asc" THEN v.points[m] <= v.points[k]
                             ELSE v.points[k] <= v.points[m]
        BY <1>1, <2>2, <3>1 DEF WellFormed, ScanStart
      <4>2. v.points[m] \in Int /\ v.points[k] \in Int
        BY <3>1
      <4> QED BY <3>2, <4>1, <4>2, FiniteOrder
    <3>5. {p} \in Readings(v) /\ Before(order, p, p)
      BY <3>1, <3>2, <3>3, <3>4
    <3> HIDE DEF p
    <3> QED BY <3>2, <3>3, <3>4, <3>5
  <2>3. CASE v.inf = 0 /\ v.points = <<>>
    <3>1. v.min \in Int /\ v.max \in Int /\ v.min <= v.max
      BY <1>1, <2>3 DEF WellFormed, Value
    <3>2. Readings(v) = {{Finite(x) : x \in v.min..v.max}} /\ p = Far(v)
      BY <2>3 DEF Readings, FirstReference
    <3>3. /\ p \in Ext /\ p \in {Finite(x) : x \in v.min..v.max}
          /\ \A x \in v.min..v.max : Before(order, Finite(x), p)
      BY <3>1, <3>2, ExtPoints, FiniteOrder DEF Far
    <3>4. Before(order, p, p)
      BY <3>3, BeforeTotal
    <3> HIDE DEF p
    <3> QED BY <3>2, <3>3, <3>4
  <2> QED BY <2>1, <2>2, <2>3
<1>3. PICK S \in Readings(v) : p \in S /\ \A y \in S : Before(order, y, p)
  BY <1>2
<1>4. S \in UNION {Readings(list[k]) : k \in 1..Len(list)}
  BY <1>1 DEF Selections
<1> DEFINE r == [k \in 1..Len(list) |-> S]
<1>5. r \in Selections(list) /\ r[1] = S
  BY <1>1, <1>4 DEF Selections
<1>6. Reached(list, order, 1, p)
  <2> HIDE DEF r, p
  <2>1. InOrder(list, order, r, 1)
    BY <1>3, <1>5 DEF InOrder
  <2> QED BY <1>3, <1>5, <2>1 DEF Reached, EndsAt
<1>7. Least(list, order, 1, p)
  <2> HIDE DEF r, p
  <2> QED BY <1>2 DEF Least, InOrder
<1> QED BY <1>2, <1>6, <1>7

LEMMA InitInvariant == Init => IInv
<1> SUFFICES ASSUME Init PROVE IInv
  OBVIOUS
<1>1. Typed
  BY ListTypes DEF Init, Typed, Infinite, Ext
<1> QED BY <1>1 DEF Init, IInv, LoopInv, InLoop, ScanInv, Answered

\* The reference moves past element i = n + 1 to q.
LEMMA AdvanceInvariant ==
  ASSUME IInv, InLoop, i <= Len(list), NEW q \in Ext,
         Reached(list, order, i, q), Least(list, order, i, q), Advance(q), j' \in Int,
         UNCHANGED <<list, order>>
  PROVE  IInv'
<1>1. pc' = "loop" /\ i' = i + 1 /\ prev' = q /\ verdict' = verdict
  BY DEF Advance
<1>2. i \in Nat /\ i >= 2 /\ i' - 1 = i
  BY <1>1, ListTypes DEF IInv, Typed, LoopInv
<1>3. Typed'
  BY <1>1, <1>2, ListTypes DEF IInv, Typed
<1>4. Reached(list, order, i - 1, prev)' /\ Least(list, order, i - 1, prev)'
  BY <1>1, <1>2
<1>5. LoopInv'
  BY <1>1, <1>2, <1>4 DEF LoopInv, InLoop
<1>6. Answered'
  BY <1>1 DEF IInv, InLoop, Answered
<1> QED BY <1>1, <1>3, <1>5, <1>6 DEF IInv, ScanInv

LEMMA RejectInvariant ==
  ASSUME IInv, InLoop, i <= Len(list), ~Sortable(list, order), Reject, j' \in Int,
         UNCHANGED <<list, order>>
  PROVE  IInv'
<1>1. pc' = "end" /\ verdict' = "no" /\ i' = i /\ prev' = prev
  BY DEF Reject, Return
<1>2. Sortable(list, order)' <=> Sortable(list, order)
  OBVIOUS
<1>3. Typed'
  BY <1>1 DEF IInv, Typed
<1> QED BY <1>1, <1>2, <1>3 DEF IInv, LoopInv, InLoop, ScanInv, Answered

LEMMA StepInvariant == IInv /\ [Next]_vars => IInv'
<1> SUFFICES ASSUME IInv, [Next]_vars PROVE IInv'
  OBVIOUS
<1>1. CASE Start
  <2>1. order \in Orders /\ list \in Lists /\ Len(list) \in Nat /\ pc = "start"
    BY <1>1, ListTypes DEF Start, IInv, Typed
  <2>2. CASE Len(list) <= 1 /\ Return("yes") /\ UNCHANGED <<list, order, i, j, prev>>
    <3>1. \E r \in Selections(list) : InOrder(list, order, r, Len(list))
      <4>1. CASE Len(list) = 0
        <5>1. Selections(list) # {}
          <6> DEFINE r == [k \in 1..Len(list) |-> {}]
          <6>1. r \in Selections(list)
            BY <4>1 DEF Selections
          <6> QED BY <6>1
        <5> QED BY <4>1, <5>1 DEF InOrder
      <4>2. CASE Len(list) = 1
        <5>1. PICK S \in Readings(list[1]) : TRUE
          <6>1. WellFormed(list[1]) /\ list[1] \in Value
            BY <2>1, <4>2, ListTypes
          <6>2. CASE list[1].inf # 0
            BY <6>2 DEF Readings
          <6>3. CASE list[1].inf = 0 /\ list[1].points # <<>>
            <7>1. 1 \in 1..Len(list[1].points)
              BY <6>1, <6>3 DEF Value
            <7> QED BY <6>3, <7>1 DEF Readings
          <6>4. CASE list[1].inf = 0 /\ list[1].points = <<>>
            BY <6>4 DEF Readings
          <6> QED BY <6>2, <6>3, <6>4
        <5> DEFINE r == [k \in 1..Len(list) |-> S]
        <5>2. r \in Selections(list) /\ r[1] = S
          BY <4>2, <5>1 DEF Selections
        <5> HIDE DEF r
        <5>3. InOrder(list, order, r, 1)
          BY <5>1, <5>2, <4>2 DEF InOrder
        <5> QED BY <4>2, <5>2, <5>3
      <4> QED BY <2>1, <2>2, <4>1, <4>2
    <3>2. Sortable(list, order)
      BY <3>1 DEF Sortable, Selections
    <3>3. Sortable(list, order)'
      BY <2>2, <3>2
    <3>4. Typed'
      BY <2>2 DEF IInv, Typed, Return
    <3> QED BY <2>2, <3>3, <3>4 DEF IInv, Return, LoopInv, InLoop, ScanInv, Answered
  <2>3. CASE /\ Len(list) > 1 /\ prev' = FirstReference(list[1])
             /\ pc' = "loop" /\ i' = 2 /\ UNCHANGED <<list, order, j, verdict>>
    <3>1. prev' \in Ext /\ Reached(list, order, 1, prev') /\ Least(list, order, 1, prev')
      BY <2>1, <2>3, FirstElement
    <3>2. Reached(list, order, i - 1, prev)' /\ Least(list, order, i - 1, prev)'
      <4>1. (i - 1)' = 1
        BY <2>3
      <4> QED BY <2>3, <3>1, <4>1
    <3>3. Typed'
      BY <2>1, <2>3, <3>1 DEF IInv, Typed
    <3> QED BY <2>1, <2>3, <3>2, <3>3 DEF IInv, LoopInv, InLoop, ScanInv, Answered
  <2> QED BY <1>1, <2>2, <2>3 DEF Start
<1> DEFINE v == list[i]
<1>2. ASSUME InLoop, i <= Len(list)
      PROVE  /\ i - 1 \in Nat /\ i - 1 >= 1 /\ i - 1 < Len(list) /\ (i - 1) + 1 = i
             /\ list \in Lists /\ order \in Orders /\ prev \in Ext /\ j \in Int
             /\ WellFormed(v) /\ v \in Value
             /\ Reached(list, order, i - 1, prev) /\ Least(list, order, i - 1, prev)
  BY <1>2, ListTypes DEF IInv, Typed, LoopInv
<1>3. CASE StepInf
  <2>1. InLoop /\ i <= Len(list) /\ v.inf # 0 /\ UNCHANGED <<list, order, j>>
    BY <1>3 DEF StepInf, InLoop
  <2> DEFINE x == Infinite(v.inf)
  <2>2. x \in Ext /\ Readings(v) = {{x}} /\ Before(order, x, x)
    BY <1>2, <2>1, ExtPoints, BeforeTotal DEF Readings, Value
  <2> HIDE DEF x
  <2>3. CASE Fits(x) /\ Advance(x)
    <3>1. Before(order, prev, x)
      BY <1>2, <2>1, <2>2, <2>3, FitsIsBefore
    <3>2. Reached(list, order, i, x)
      <4> DEFINE n == i - 1
      <4> DEFINE S == {x}
      <4>1. S \in Readings(list[n + 1])
        BY <1>2, <2>1, <2>2
      <4>2. x \in S /\ \A y \in S : Before(order, prev, y) /\ Before(order, y, x)
        BY <2>2, <3>1
      <4>3. list \in Lists /\ n \in Nat /\ n >= 1 /\ n < Len(list) /\ prev \in Ext
            /\ Reached(list, order, n, prev)
        BY <1>2, <2>1
      <4> HIDE DEF S, n
      <4>4. Reached(list, order, n + 1, x)
        BY <4>1, <4>2, <4>3, ExtendReached
      <4> QED BY <1>2, <2>1, <4>4 DEF n
    <3>3. Least(list, order, i, x)
      <4> DEFINE n == i - 1
      <4>1. Least(list, order, n + 1, x)
        BY <1>2, <2>1, <2>2, ExtendLeast
      <4> QED BY <1>2, <2>1, <4>1
    <3> QED BY <1>2, <2>1, <2>2, <2>3, <3>2, <3>3, AdvanceInvariant
  <2>4. CASE ~Fits(x) /\ Reject
    <3>1. ~Before(order, prev, x)
      BY <1>2, <2>1, <2>2, <2>4, FitsIsBefore
    <3>2. ~Sortable(list, order)
      <4> DEFINE n == i - 1
      <4>1. Readings(list[n + 1]) = {{x}}
        BY <1>2, <2>1, <2>2
      <4> QED BY <1>2, <2>1, <3>1, <4>1, Stuck
    <3> QED BY <1>2, <2>1, <2>4, <3>2, RejectInvariant
  <2> QED BY <1>3, <2>3, <2>4 DEF StepInf, x
<1>4. CASE StepRange
  <2>1. /\ InLoop /\ i <= Len(list) /\ v.inf = 0 /\ v.points = <<>>
        /\ UNCHANGED <<list, order, j>>
    BY <1>4 DEF StepRange, InLoop
  <2> DEFINE S == {Finite(x) : x \in v.min..v.max}
  <2>2. v.min \in Int /\ v.max \in Int /\ v.min <= v.max /\ Readings(v) = {S}
    BY <1>2, <2>1 DEF WellFormed, Value, Readings
  <2>3. /\ Near(v) \in Ext /\ Far(v) \in Ext /\ S \subseteq Ext
        /\ Near(v) \in S /\ Far(v) \in S /\ Before(order, Far(v), Far(v))
        /\ \A y \in S : Before(order, Near(v), y) /\ Before(order, y, Far(v))
    BY <1>2, <2>1, <2>2, ExtPoints, FiniteOrder DEF Near, Far
  <2> HIDE DEF S
  <2>4. CASE Fits(Near(v)) /\ Advance(Far(v))
    <3>1. \A y \in S : Before(order, prev, y)
      <4>1. Before(order, prev, Near(v))
        BY <1>2, <2>1, <2>3, <2>4, FitsIsBefore
      <4> QED BY <1>2, <2>1, <2>3, <4>1, BeforeTransitive
    <3> DEFINE n == i - 1
    <3>2. Readings(list[n + 1]) = {S}
      BY <1>2, <2>1, <2>2
    <3>3. Reached(list, order, n + 1, Far(v))
      BY <1>2, <2>1, <2>3, <3>1, <3>2, ExtendReached
    <3>4. Least(list, order, n + 1, Far(v))
      BY <1>2, <2>1, <2>3, <3>2, ExtendLeast
    <3>5. Reached(list, order, i, Far(v)) /\ Least(list, order, i, Far(v))
      BY <1>2, <2>1, <3>3, <3>4
    <3> QED BY <1>2, <2>1, <2>3, <2>4, <3>5, AdvanceInvariant
  <2>5. CASE ~Fits(Near(v)) /\ Reject
    <3>1. ~Before(order, prev, Near(v))
      BY <1>2, <2>1, <2>3, <2>5, FitsIsBefore
    <3> DEFINE n == i - 1
    <3>2. Readings(list[n + 1]) = {S}
      BY <1>2, <2>1, <2>2
    <3>3. ~Sortable(list, order)
      BY <1>2, <2>1, <2>3, <3>1, <3>2, Stuck
    <3> QED BY <1>2, <2>1, <2>5, <3>3, RejectInvariant
  <2> QED BY <1>4, <2>4, <2>5 DEF StepRange
<1>5. CASE EnterScan
  <2>1. /\ InLoop /\ i <= Len(list) /\ v.inf = 0 /\ v.points # <<>>
        /\ pc' = "scan" /\ pc = "loop" /\ j' = ScanStart(v)
        /\ UNCHANGED <<list, order, i, prev, verdict>>
    BY <1>5 DEF EnterScan, InLoop
  <2>2. Len(v.points) \in Nat /\ Len(v.points) >= 1
    BY <1>2, <2>1 DEF Value
  <2>3. j' \in 1..Len(v.points)
    BY <2>1, <2>2 DEF ScanStart
  <2>4. Typed'
    BY <2>1, <2>3 DEF IInv, Typed
  <2>5. LoopInv'
    <3>1. Reached(list, order, i - 1, prev)' /\ Least(list, order, i - 1, prev)'
      BY <1>2, <2>1
    <3> QED BY <2>1, <3>1 DEF IInv, LoopInv, InLoop
  <2>6. ScanInv'
    BY <2>1, <2>2, <2>3 DEF ScanInv, LeftBehind, ScanStart, Fits
  <2>7. Answered'
    BY <2>1 DEF IInv, Answered
  <2> QED BY <2>4, <2>5, <2>6, <2>7 DEF IInv
<1>6. CASE ScanStep
  <2>1. /\ InLoop /\ pc = "scan" /\ i <= Len(list) /\ v.inf = 0 /\ v.points # <<>>
        /\ UNCHANGED <<list, order>>
        /\ order = "asc" => j \in 1..Len(v.points) + 1
        /\ order # "asc" => j \in 0..Len(v.points)
        /\ \A k \in 1..Len(v.points) : LeftBehind(k) => ~Fits(Finite(v.points[k]))
    BY <1>6 DEF ScanStep, InLoop, IInv, ScanInv
  <2>2. /\ Len(v.points) \in Nat
        /\ \A k \in 1..Len(v.points) : v.points[k] \in Int /\ Finite(v.points[k]) \in Ext
    BY <1>2, <2>1, ExtPoints DEF Value
  <2> DEFINE n == i - 1
  <2>3. Readings(list[n + 1]) = {{Finite(v.points[k])} : k \in 1..Len(v.points)}
    BY <1>2, <2>1 DEF Readings
  <2>4. CASE j \notin 1..Len(v.points) /\ Reject /\ UNCHANGED j
    <3>1. \A k \in 1..Len(v.points) : ~Before(order, prev, Finite(v.points[k]))
      <4> SUFFICES ASSUME NEW k \in 1..Len(v.points)
                   PROVE  ~Before(order, prev, Finite(v.points[k]))
        OBVIOUS
      <4>0. LeftBehind(k) \/ ~Fits(Finite(v.points[k]))
        BY <2>1, <2>2, <2>4 DEF LeftBehind
      <4>1. ~Fits(Finite(v.points[k]))
        BY <2>1, <4>0
      <4> QED BY <1>2, <2>1, <2>2, <4>1, FitsIsBefore
    <3>2. ~Sortable(list, order)
      BY <1>2, <2>1, <2>3, <3>1, Stuck
    <3> QED BY <1>2, <2>1, <2>4, <3>2, RejectInvariant
  <2>5. CASE /\ j \in 1..Len(v.points) /\ Fits(Finite(v.points[j]))
             /\ Advance(Finite(v.points[j])) /\ UNCHANGED j
    <3> DEFINE q == Finite(v.points[j])
    <3>1. q \in Ext /\ Before(order, prev, q) /\ Before(order, q, q)
      BY <1>2, <2>1, <2>2, <2>5, FitsIsBefore, BeforeTotal
    <3>2. Reached(list, order, n + 1, q)
      <4>1. {q} \in Readings(list[n + 1])
        BY <2>3, <2>5
      <4> HIDE DEF q
      <4> QED BY <1>2, <2>1, <3>1, <4>1, ExtendReached
    <3>3. \A k \in 1..Len(v.points) :
             Before(order, prev, Finite(v.points[k])) => Before(order, q, Finite(v.points[k]))
      <4> SUFFICES ASSUME NEW k \in 1..Len(v.points), Before(order, prev, Finite(v.points[k]))
                   PROVE  Before(order, q, Finite(v.points[k]))
        OBVIOUS
      <4>1. Fits(Finite(v.points[k]))
        BY <1>2, <2>1, <2>2, FitsIsBefore
      <4>2. ~LeftBehind(k)
        BY <2>1, <4>1
      <4>3. IF order = "asc" THEN v.points[j] <= v.points[k]
                             ELSE v.points[k] <= v.points[j]
        <5>1. \A a, b \in 1..Len(v.points) : a < b => v.points[a] < v.points[b]
          BY <1>2, <2>1 DEF WellFormed
        <5> QED BY <2>2, <2>5, <4>2, <5>1 DEF LeftBehind
      <4> QED BY <1>2, <2>1, <2>2, <2>5, <4>3, FiniteOrder
    <3>4. Least(list, order, n + 1, q)
      <4> HIDE DEF q
      <4>1. ASSUME NEW S \in Readings(list[n + 1]), \A y \in S : Before(order, prev, y)
            PROVE  \E y \in S : Before(order, q, y)
        <5>1. PICK k \in 1..Len(v.points) : S = {Finite(v.points[k])}
          BY <2>3
        <5> QED BY <3>3, <4>1, <5>1
      <4> QED BY <1>2, <2>1, <4>1, ExtendLeast
    <3>5. Reached(list, order, i, q) /\ Least(list, order, i, q)
      BY <1>2, <2>1, <3>2, <3>4
    <3> QED BY <1>2, <2>1, <2>5, <3>1, <3>5, AdvanceInvariant
  <2>6. CASE /\ j \in 1..Len(v.points) /\ ~Fits(Finite(v.points[j]))
             /\ j' = ScanNext /\ UNCHANGED <<pc, i, prev, verdict>>
    <3>1. Typed'
      BY <1>2, <2>1, <2>6 DEF IInv, Typed, ScanNext
    <3>2. LoopInv'
      <4>1. Reached(list, order, i - 1, prev)' /\ Least(list, order, i - 1, prev)'
        BY <1>2, <2>1, <2>6
      <4> QED BY <2>1, <2>6, <4>1 DEF IInv, LoopInv, InLoop
    <3>3. \A k \in 1..Len(v.points) : LeftBehind(k)' => ~Fits(Finite(v.points[k]))
      <4> SUFFICES ASSUME NEW k \in 1..Len(v.points), LeftBehind(k)'
                   PROVE  ~Fits(Finite(v.points[k]))
        OBVIOUS
      <4>1. LeftBehind(k) \/ k = j
        BY <1>2, <2>1, <2>2, <2>6 DEF LeftBehind, ScanNext
      <4> QED BY <2>1, <2>6, <4>1
    <3>4. ScanInv'
      BY <2>1, <2>2, <2>6, <3>3 DEF ScanInv, ScanNext, Fits
    <3>5. Answered'
      <4>1. Sortable(list, order)' <=> Sortable(list, order)
        BY <2>1
      <4> QED BY <2>6, <4>1 DEF IInv, Answered
    <3> QED BY <3>1, <3>2, <3>4, <3>5 DEF IInv
  <2> QED BY <1>6, <2>4, <2>5, <2>6 DEF ScanStep
<1>7. CASE Finish
  <2>1. /\ pc = "loop" /\ i = Len(list) + 1 /\ pc' = "end" /\ verdict' = "yes"
        /\ UNCHANGED <<list, order, i, j, prev>>
    BY <1>7, ListTypes DEF Finish, Return, IInv, Typed
  <2>2. Reached(list, order, Len(list), prev)
    BY <2>1, ListTypes DEF IInv, Typed, LoopInv, InLoop
  <2>3. Sortable(list, order)
    BY <2>2 DEF Reached, EndsAt, Sortable, Selections
  <2>4. Sortable(list, order)'
    BY <2>1, <2>3
  <2>5. Typed'
    BY <2>1 DEF IInv, Typed
  <2> QED BY <2>1, <2>4, <2>5 DEF IInv, LoopInv, InLoop, ScanInv, Answered
<1>8. CASE Returned \/ UNCHANGED vars
  <2>1. UNCHANGED <<list, order, pc, i, j, prev, verdict>>
    BY <1>8 DEF Returned, vars
  <2>2. Typed' /\ ScanInv'
    BY <2>1 DEF IInv, Typed, ScanInv, LeftBehind, Fits
  <2>3. LoopInv'
    BY <2>1 DEF IInv, LoopInv, InLoop
  <2>4. Answered'
    BY <2>1 DEF IInv, Answered
  <2> QED BY <2>2, <2>3, <2>4 DEF IInv
<1> QED BY <1>1, <1>3, <1>4, <1>5, <1>6, <1>7, <1>8 DEF Next

\* The invariant holds in every state of a call of Check.
THEOREM CheckInvariant == Spec => []IInv
BY InitInvariant, StepInvariant, PTL DEF Spec

\* Check keeps its variables in their types, its loop index in the list, and the
\* index of its scan at one of the points of the element or next to them.
THEOREM CheckTypeOK == Spec => []TypeOK
<1>1. ASSUME IInv  PROVE TypeOK
  <2>1. pc = "scan" => i <= Len(list) /\ j \in 0..Len(list[i].points) + 1
    <3>1. SUFFICES ASSUME pc = "scan"
                   PROVE  i <= Len(list) /\ j \in 0..Len(list[i].points) + 1
      OBVIOUS
    <3>2. i <= Len(list) /\ list[i] \in Value
      BY <1>1, <3>1, ListTypes DEF IInv, Typed, ScanInv
    <3>3. Len(list[i].points) \in Nat
      BY <3>2 DEF Value
    <3> QED BY <1>1, <3>1, <3>2, <3>3 DEF IInv, Typed, ScanInv
  <2> QED BY <1>1, <2>1 DEF IInv, Typed, TypeOK
<1> QED BY <1>1, CheckInvariant, PTL

\* Check returns true exactly for the lists that can be read in order
\* (sortcheck.go:35-121), whatever the list.
THEOREM CheckVerdictCorrect == Spec => []VerdictCorrect
<1>1. IInv => VerdictCorrect
  BY DEF IInv, Answered, Typed, VerdictCorrect
<1> QED BY <1>1, CheckInvariant, PTL
=============================================================================
