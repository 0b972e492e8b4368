------------------------------ MODULE SortCheck ------------------------------
(***************************************************************************)
(* The algorithm of cmd/worker/sortcheck.go: Check walks a parsed list     *)
(* once, keeping one reference `prev`, and scans the points of a discrete  *)
(* set for the first one that fits.                                        *)
(*                                                                         *)
(* Numbers are integers instead of big.Rat: Check only compares them.  A   *)
(* Go nil (the rational of an infinity, the points of a range) is 0 or     *)
(* <<>>, which the code never reads.                                       *)
(***************************************************************************)
EXTENDS Integers, Sequences

CONSTANT Lists  \* the parsed lists that Check may be called with

Orders == {"asc", "desc"}

\* A point of the extended line: a finite number, or an infinity.
Ext == [inf : {-1, 0, 1}, rat : Int]
Finite(x) == [inf |-> 0, rat |-> x]
Infinite(s) == [inf |-> s, rat |-> 0]

\* What the parser returns: an infinity, a discrete set (at least two points,
\* strictly increasing, as DiscreteValue leaves them), or a range.
Value == [inf : {-1, 0, 1}, min : Int, max : Int, points : Seq(Int)]
WellFormed(v) ==
  /\ v \in Value
  /\ v.inf = 0 => v.min <= v.max
  /\ v.points # <<>> =>
       /\ v.inf = 0
       /\ \A a, b \in 1..Len(v.points) : a < b => v.points[a] < v.points[b]

ASSUME ListsAssumption ==
  \A l \in Lists : l \in Seq(Value) /\ \A k \in 1..Len(l) : WellFormed(l[k])

VARIABLES
  list, order,  \* the arguments
  pc,           \* "start", "loop", "scan" (inside the loop over v.Points), "end"
  i, j,         \* the index of the loop, and of the scan
  prev,         \* prevInf and prevRat
  verdict       \* what Check returns: "yes", "no", or "none" while it runs
vars == <<list, order, pc, i, j, prev, verdict>>

-----------------------------------------------------------------------------
InfCmp(a, b) ==
  IF (a.inf < 0 /\ b.inf < 0) \/ (a.inf > 0 /\ b.inf > 0) THEN 0
  ELSE IF a.inf < 0 \/ b.inf > 0 THEN -1
  ELSE IF a.inf > 0 \/ b.inf < 0 THEN 1
  ELSE IF a.rat < b.rat THEN -1
  ELSE IF a.rat > b.rat THEN 1
  ELSE 0

\* The end of a range that is met first, and the one that is left behind.
Near(v) == Finite(IF order = "asc" THEN v.min ELSE v.max)
Far(v)  == Finite(IF order = "asc" THEN v.max ELSE v.min)

\* (A definition named ...Mutant is the next one with a plausible slip in it:
\* the run named in the README shows that a property of the model notices.)
\* The points are scanned from the end that comes first in the order.
ScanStartMutant(v) == 1
ScanStart(v) == IF order = "asc" THEN 1 ELSE Len(v.points)
ScanNext     == IF order = "asc" THEN j + 1 ELSE j - 1

Fits(x) == IF order = "asc" THEN InfCmp(x, prev) >= 0 ELSE InfCmp(x, prev) <= 0

FirstReference(v) ==
  IF v.inf # 0 THEN Infinite(v.inf)
  ELSE IF v.points # <<>> THEN Finite(v.points[ScanStart(v)])
  ELSE Far(v)

-----------------------------------------------------------------------------
Init ==
  /\ list \in Lists /\ order \in Orders
  /\ pc = "start" /\ i = 1 /\ j = 0
  /\ prev = Infinite(0) /\ verdict = "none"

Return(answer) == pc' = "end" /\ verdict' = answer

Start ==
  /\ pc = "start"
  /\ \/ /\ Len(list) <= 1
        /\ Return("yes")
        /\ UNCHANGED <<i, prev>>
     \/ /\ Len(list) > 1
        /\ prev' = FirstReference(list[1])
        /\ pc' = "loop" /\ i' = 2
        /\ UNCHANGED verdict
  /\ UNCHANGED <<list, order, j>>

\* The reference moves past element i, and the loop goes on.
AdvanceMutant(reference) ==
  /\ prev' = reference
  /\ i' = i + 2 /\ pc' = "loop"
  /\ UNCHANGED verdict
Advance(reference) ==
  /\ prev' = reference
  /\ i' = i + 1 /\ pc' = "loop"
  /\ UNCHANGED verdict

Reject == Return("no") /\ UNCHANGED <<i, prev>>

StepInf ==
  /\ pc = "loop" /\ i <= Len(list) /\ list[i].inf # 0
  /\ LET x == Infinite(list[i].inf) IN
       \/ Fits(x) /\ Advance(x)
       \/ ~Fits(x) /\ Reject
  /\ UNCHANGED <<list, order, j>>

StepRange ==
  /\ pc = "loop" /\ i <= Len(list)
  /\ list[i].inf = 0 /\ list[i].points = <<>>
  /\ \/ Fits(Near(list[i])) /\ Advance(Far(list[i]))
     \/ ~Fits(Near(list[i])) /\ Reject
  /\ UNCHANGED <<list, order, j>>

EnterScan ==
  /\ pc = "loop" /\ i <= Len(list)
  /\ list[i].inf = 0 /\ list[i].points # <<>>
  /\ pc' = "scan" /\ j' = ScanStart(list[i])
  /\ UNCHANGED <<list, order, i, prev, verdict>>

ScanStep ==
  /\ pc = "scan"
  /\ LET points == list[i].points IN
       \/ /\ j \notin 1..Len(points)
          /\ Reject /\ UNCHANGED j
       \/ /\ j \in 1..Len(points) /\ Fits(Finite(points[j]))
          /\ Advance(Finite(points[j])) /\ UNCHANGED j
       \/ /\ j \in 1..Len(points) /\ ~Fits(Finite(points[j]))
          /\ j' = ScanNext
          /\ UNCHANGED <<pc, i, prev, verdict>>
  /\ UNCHANGED <<list, order>>

Finish ==
  /\ pc = "loop" /\ i > Len(list)
  /\ Return("yes")
  /\ UNCHANGED <<list, order, i, j, prev>>

Returned == pc = "end" /\ UNCHANGED vars

Next ==
  Start \/ StepInf \/ StepRange \/ EnterScan \/ ScanStep \/ Finish \/ Returned

Spec == Init /\ [][Next]_vars

-----------------------------------------------------------------------------
(***************************************************************************)
(* What Check promises, said without its loop: a reading of a value is the *)
(* set of points that must all be in order.  A range has one reading, all  *)
(* its points ("forall"); a discrete set has one per point ("exists").     *)
(***************************************************************************)
Readings(v) ==
  IF v.inf # 0 THEN {{Infinite(v.inf)}}
  ELSE IF v.points # <<>> THEN {{Finite(v.points[k])} : k \in 1..Len(v.points)}
  ELSE {{Finite(x) : x \in v.min..v.max}}

Before(o, a, b) ==
  \/ o = "asc" /\ InfCmp(a, b) <= 0
  \/ o = "desc" /\ InfCmp(b, a) <= 0

\* r reads the first n elements of the list, each neighbour after the other.
InOrder(l, o, r, n) ==
  /\ \A k \in 1..n : r[k] \in Readings(l[k])
  /\ \A k \in 1..n - 1 : \A x \in r[k], y \in r[k + 1] : Before(o, x, y)

Selections(l) == [1..Len(l) -> UNION {Readings(l[k]) : k \in 1..Len(l)}]
Sortable(l, o) == \E r \in Selections(l) : InOrder(l, o, r, Len(l))

TypeOK ==
  /\ list \in Lists /\ order \in Orders
  /\ pc \in {"start", "loop", "scan", "end"}
  /\ i \in 1..Len(list) + 1 /\ j \in Int
  /\ pc = "scan" => i <= Len(list) /\ j \in 0..Len(list[i].points) + 1
  /\ prev \in Ext
  /\ verdict \in {"none", "yes", "no"}

\* Check's answer is that of the declarative reading: the single greedy pass,
\* which keeps one reference and never revisits a choice, misses no way to
\* order the list and accepts none that is not one (sortcheck.go:35).
VerdictCorrect ==
  pc = "end" => (verdict = "yes" <=> Sortable(list, order)) /\ verdict \in {"yes", "no"}
=============================================================================
