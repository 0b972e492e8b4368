------------------------------ MODULE ValueArith ------------------------------
(***************************************************************************)
(* The values of the parser and their arithmetic: parser/parse.go,         *)
(* parser/expr.go and parser/set.go.  A value is an infinity, a point, a   *)
(* set of points, or a range; a set of points that becomes too large turns *)
(* into the range around it.                                               *)
(***************************************************************************)
EXTENDS Rational, FiniteSets

CONSTANTS
  MaxDiscretePoints,  \* maxDiscretePoints
  MaxFactorial,       \* maxFactorialInput
  MinInt, MaxInt      \* the least and the greatest int64

ASSUME ParserAssumption ==
  /\ MaxDiscretePoints \in Nat \ {0} /\ MaxFactorial \in Nat
  /\ MaxInt \in Nat /\ MinInt = -MaxInt - 1

\* kind is "error" for an error returned, "panic" for one that is thrown.
\* points is {} for a nil slice; its order is that of the numbers.
MakeValue(inf, min, max, points) ==
  [kind |-> "value", inf |-> inf, min |-> min, max |-> max, points |-> points]
NoValue(kind) == [MakeValue(0, Nil, Nil, {}) EXCEPT !.kind = kind]
Error == NoValue("error")
Panic == NoValue("panic")

PointValue(x)    == MakeValue(0, x, x, {})
InfValue(sign)   == MakeValue(sign, Nil, Nil, {})
RangeValue(x, y) == MakeValue(0, x, y, {})

\* The last point is left out.
DiscreteValueMutant(pts) ==
  IF Cardinality(pts) = 1 THEN PointValue(CHOOSE x \in pts : TRUE)
  ELSE MakeValue(0, Least(pts), Least(pts \ {Least(pts)}), pts)
DiscreteValue(pts) ==
  IF Cardinality(pts) = 1 THEN PointValue(CHOOSE x \in pts : TRUE)
  ELSE MakeValue(0, Least(pts), Greatest(pts), pts)

IsPoint(v) == v.inf # 0 \/ v.min = v.max
DiscretePoints(v) ==
  IF v.points # {} THEN v.points ELSE IF IsPoint(v) THEN {v.min} ELSE {}
SpansZero(v) == Leq(v.min, Zero) /\ Leq(Zero, v.max)

\* Both are discrete, and so is what comes of `each` number for every pair.
BothDiscrete(a, b, each) ==
  LET n == Cardinality(DiscretePoints(a)) * Cardinality(DiscretePoints(b))
  IN n > 0 /\ each * n <= MaxDiscretePoints
Pairwise(Op(_, _), a, b) == {Op(x, y) : x \in DiscretePoints(a), y \in DiscretePoints(b)}

-----------------------------------------------------------------------------
valPlusMinus(a, b) ==
  IF BothDiscrete(a, b, 2)
  THEN DiscreteValue(Pairwise(Sub, a, b) \cup Pairwise(Add, a, b))
  ELSE RangeValue(Sub(a.min, b.max), Add(a.max, b.max))

valAdd(a, b) ==
  IF BothDiscrete(a, b, 1) THEN DiscreteValue(Pairwise(Add, a, b))
  ELSE RangeValue(Add(a.min, b.min), Add(a.max, b.max))

valSub(a, b) ==
  IF BothDiscrete(a, b, 1) THEN DiscreteValue(Pairwise(Sub, a, b))
  ELSE RangeValue(Sub(a.min, b.max), Sub(a.max, b.min))

valNeg(a) ==
  IF a.points # {} THEN DiscreteValue({Neg(x) : x \in a.points})
  ELSE RangeValue(Neg(a.max), Neg(a.min))

valMul(a, b) ==
  LET products == {Mul(x, y) : x \in {a.min, a.max}, y \in {b.min, b.max}}
  IN IF BothDiscrete(a, b, 1) THEN DiscreteValue(Pairwise(Mul, a, b))
     ELSE RangeValue(Least(products), Greatest(products))

\* parseMulDiv refuses a right side around zero before valDiv looks at it.  In a
\* range that is turned around, zero may be an end: big.Rat.Inv panics.
valDiv(a, b) ==
  IF SpansZero(b) THEN Error
  ELSE IF BothDiscrete(a, b, 1) THEN DiscreteValue(Pairwise(Quo, a, b))
  ELSE IF Zero \in {b.min, b.max} THEN Panic
  ELSE valMul(a, RangeValue(Inv(b.max), Inv(b.min)))

\* -n of an int64: the least one is its own negation.
Negate(n) == IF n = MinInt THEN MinInt ELSE -n

\* A loop that multiplies abs(n) times, not at all when the negation overflows.
ratPow(x, n) ==
  LET k == IF n < 0 THEN Negate(n) ELSE n
      product == IF k < 0 THEN One ELSE Power(x, k)
  IN IF n < 0 THEN Inv(product) ELSE product

valPow(v, n) ==
  LET k  == IF n < 0 THEN Negate(n) ELSE n
      lo == ratPow(v.min, k)
      hi == ratPow(v.max, k)
      up == IF k % 2 = 0 /\ Less(v.min, Zero) /\ Less(Zero, v.max)
            THEN RangeValue(Zero, Greatest({lo, hi}))
            ELSE RangeValue(Least({lo, hi}), Greatest({lo, hi}))
      pointsUp == {ratPow(x, k) : x \in v.points}
  IN IF n = 0 THEN PointValue(One)
     ELSE IF v.points # {} THEN
       (IF n > 0 THEN DiscreteValue(pointsUp)
        ELSE IF Zero \in pointsUp THEN Error
        ELSE DiscreteValue({Inv(x) : x \in pointsUp}))
     ELSE IF n > 0 THEN up
     ELSE IF SpansZero(up) THEN Error
     ELSE RangeValue(Inv(up.max), Inv(up.min))

\* A range that spans zero is raised to an even power end by end.
parsePowMutant(v, exp) ==
  IF ~IsPoint(exp) \/ ~IsInt(exp.min) \/ exp.min[1] \notin MinInt..MaxInt THEN Error
  ELSE IF v.points # {} \/ exp.min[1] <= 0 THEN valPow(v, exp.min[1])
  ELSE RangeValue(Least({Power(v.min, exp.min[1]), Power(v.max, exp.min[1])}),
                  Greatest({Power(v.min, exp.min[1]), Power(v.max, exp.min[1])}))
parsePow(v, exp) ==
  IF ~IsPoint(exp) \/ ~IsInt(exp.min) \/ exp.min[1] \notin MinInt..MaxInt THEN Error
  ELSE valPow(v, exp.min[1])

Factorial(n) == LET f[k \in Nat] == IF k = 0 THEN 1 ELSE k * f[k - 1] IN f[n]
parsePostfix(v) ==
  IF ~IsPoint(v) \/ ~IsInt(v.min) \/ v.min[1] < 0 \/ v.min[1] > MaxFactorial THEN Error
  ELSE PointValue(Rat(Factorial(v.min[1])))

\* tryFiniteSet: an infinity counts as a point, and its number is nil.  A
\* single nil is wrapped; wherever numbers are compared, a nil panics, which
\* takes in a point without a number: IsPoint compares its two ends.
tryFiniteSet(values) ==
  LET V == {values[i] : i \in DOMAIN values}
      numbers == UNION {DiscretePoints(v) : v \in V}
  IN IF (\A v \in V : v.inf # 0) /\ DOMAIN values = {1} THEN PointValue(Nil)
     ELSE IF \E v \in V : v.min = Nil THEN Panic
     ELSE IF \A v \in V : DiscretePoints(v) # {} THEN DiscreteValue(numbers)
     ELSE RangeValue(Least({v.min : v \in V}), Greatest({v.max : v \in V}))
=============================================================================
