------------------------------ MODULE Expression ------------------------------
(***************************************************************************)
(* The parsing of one value of a list: parser/parse.go, parser/expr.go,    *)
(* parser/set.go and parser/interval.go.  An expression is evaluated while *)
(* it is parsed; parentheses let every tree of operators occur, and the    *)
(* calls on values come in the order in which a stack evaluates the tree.  *)
(* What is in braces is a list of values, each parsed in the same way.     *)
(*                                                                         *)
(* With every value goes the set of numbers that it is written for, and    *)
(* whether what was written is regular.  It is not when a plus-minus has a *)
(* negative right side, an exponent is the least int64, an infinity is in  *)
(* braces, or an infinity has a plus sign: the parser accepts these, and   *)
(* what it makes of them is not what they stand for.                       *)
(***************************************************************************)
EXTENDS ValueArith, SequencesExt

CONSTANTS
  Atoms,     \* the literals and constants, as integers
  MaxDepth,  \* bound on the stack and the values in braces
  MaxOps     \* bound on the operators of an input

ASSUME InputAssumption == Atoms \subseteq Nat /\ MaxDepth \in Nat /\ MaxOps \in Nat

VARIABLES
  stack,     \* the open calls of the expression parser: their values
  elements,  \* the values of the braces that are open
  ops,       \* the operators so far
  pc         \* "parse", or "error" or "panic"
exprVars == <<stack, elements, ops, pc>>

Entry(value, exact, regular) ==
  [value |-> value, exact |-> IF regular THEN exact ELSE {}, regular |-> regular]
PairwiseExact(Op(_, _), a, b) == {Op(x, y) : x \in a.exact, y \in b.exact}

InitExpression == stack = <<>> /\ elements = <<>> /\ ops = 0 /\ pc = "parse"

-----------------------------------------------------------------------------
Top == Last(stack)
Below == stack[Len(stack) - 1]

\* The operator takes `arity` values and leaves one, or parsing ends.
Apply(arity, entry) ==
  /\ ops < MaxOps /\ ops' = ops + 1
  /\ IF entry.value.kind = "value"
     THEN /\ stack' = Append(SubSeq(stack, 1, Len(stack) - arity), entry)
          /\ UNCHANGED pc
     ELSE pc' = entry.value.kind /\ UNCHANGED stack
  /\ UNCHANGED elements

\* parseAtom.
Atom ==
  /\ pc = "parse" /\ Len(stack) + Len(elements) < MaxDepth
  /\ \E n \in Atoms : stack' = Append(stack, Entry(PointValue(Rat(n)), {Rat(n)}, TRUE))
  /\ UNCHANGED <<elements, ops, pc>>

\* parseUnary; a plus leaves the value as it is.
Unary ==
  /\ pc = "parse" /\ Len(stack) > 0
  /\ Apply(1, Entry(valNeg(Top.value), {Neg(x) : x \in Top.exact}, Top.regular))

\* parsePostfix.
Postfix ==
  /\ pc = "parse" /\ Len(stack) > 0
  /\ Apply(1, Entry(parsePostfix(Top.value),
       IF parsePostfix(Top.value).kind = "error" THEN {}
       ELSE {Rat(Factorial(x[1])) : x \in Top.exact}, Top.regular))

Both == Below.regular /\ Top.regular

\* parseAddSub.
AddSub ==
  /\ pc = "parse" /\ Len(stack) > 1
  /\ LET a == Below  b == Top IN
       \/ Apply(2, Entry(valAdd(a.value, b.value), PairwiseExact(Add, a, b), Both))
       \/ Apply(2, Entry(valSub(a.value, b.value), PairwiseExact(Sub, a, b), Both))
       \/ Apply(2, Entry(valPlusMinus(a.value, b.value),
                         PairwiseExact(Add, a, b) \cup PairwiseExact(Sub, a, b),
                         Both /\ Leq(Zero, b.value.min)))

\* parseMulDiv.
MulDiv ==
  /\ pc = "parse" /\ Len(stack) > 1
  /\ LET a == Below  b == Top IN
       \/ Apply(2, Entry(valMul(a.value, b.value), PairwiseExact(Mul, a, b), Both))
       \/ Apply(2, Entry(valDiv(a.value, b.value),
            IF Zero \in b.exact THEN {} ELSE PairwiseExact(Quo, a, b), Both))

\* parsePow.  The numbers of a point exponent are the point.
Pow ==
  /\ pc = "parse" /\ Len(stack) > 1
  /\ LET a == Below  b == Top  power == parsePow(a.value, b.value) IN
       Apply(2, Entry(power,
         IF power.kind = "error" THEN {}
         ELSE {Power(x, b.value.min[1]) : x \in a.exact},
         Both /\ b.value.min # Rat(MinInt)))

\* The end of an expression, which is the whole value or one of the braces.
EndOfExpression ==
  /\ pc = "parse" /\ Len(stack) = 1
  /\ elements' = Append(elements, Top) /\ stack' = <<>>
  /\ UNCHANGED <<ops, pc>>

\* parseNumberLiteral: big.Float also reads "inf", with a sign or without, and
\* has no number for it.
Literals == {Rat(n) : n \in Atoms} \cup {Nil}

\* parseInterval: it denotes all that is between its ends.
Interval ==
  /\ pc = "parse" /\ stack = <<>> /\ Len(elements) < MaxDepth
  /\ \E lo, hi \in Literals :
       \/ Nil \in {lo, hi} /\ pc' = "panic" /\ UNCHANGED elements
       \/ Nil \notin {lo, hi} /\ Less(hi, lo) /\ pc' = "error" /\ UNCHANGED elements
       \/ /\ Nil \notin {lo, hi} /\ Leq(lo, hi)
          /\ elements' = Append(elements, Entry(RangeValue(lo, hi), {lo, hi}, TRUE))
          /\ UNCHANGED pc
  /\ UNCHANGED <<stack, ops>>

\* parseInfinity.
Infinity ==
  /\ pc = "parse" /\ stack = <<>> /\ Len(elements) < MaxDepth
  /\ \E sign \in {-1, 1} : elements' = Append(elements, Entry(InfValue(sign), {}, TRUE))
  /\ UNCHANGED <<stack, ops, pc>>

\* "+inf" is no word of parseInfinity, which knows of a minus only, and neither
\* Rat nor Int reads it; big.Float does, and has no number for it.
PlusInfinity ==
  /\ pc = "parse" /\ stack = <<>> /\ Len(elements) < MaxDepth
  /\ elements' = Append(elements, Entry(PointValue(Nil), {}, FALSE))
  /\ UNCHANGED <<stack, ops, pc>>

\* parseSet: the closing brace.
FiniteSet ==
  /\ pc = "parse" /\ stack = <<>> /\ elements # <<>>
  /\ ops < MaxOps /\ ops' = ops + 1
  /\ LET v == tryFiniteSet([i \in DOMAIN elements |-> elements[i].value])
         exact == UNION {elements[i].exact : i \in DOMAIN elements}
         regular == \A i \in DOMAIN elements : elements[i].regular /\ elements[i].value.inf = 0
     IN IF v.kind = "value" THEN elements' = <<Entry(v, exact, regular)>> /\ UNCHANGED pc
        ELSE pc' = v.kind /\ UNCHANGED elements
  /\ UNCHANGED stack

ExpressionStep ==
  \/ Atom \/ Unary \/ Postfix \/ AddSub \/ MulDiv \/ Pow
  \/ EndOfExpression \/ Interval \/ Infinity \/ PlusInfinity \/ FiniteSet

-----------------------------------------------------------------------------
Parsed == Range(stack) \cup Range(elements)

\* A finite value that a regular input stands for has numbers, its ends are the
\* extremes of its points, and a set of points has at least two: what Check takes
\* for granted of every value (parse.go:60-101, expr.go:308-506).
WellFormedValue(v) ==
  /\ v.inf = 0 => Nil \notin {v.min, v.max} /\ Leq(v.min, v.max)
  /\ v.points # {} =>
       v.inf = 0 /\ Cardinality(v.points) >= 2 /\ v.min = Least(v.points) /\ v.max = Greatest(v.points)
ValuesAreWellFormed == \A e \in Parsed : e.regular => WellFormedValue(e.value)

\* A point or a set of points is exactly what a regular input stands for; a
\* range, also one that took the place of too many points, has all of it inside
\* (expr.go:308-506).
ValuesEnclose ==
  \A e \in Parsed : e.regular /\ e.value.inf = 0 =>
    \/ DiscretePoints(e.value) = e.exact
    \/ /\ e.value.points = {}
       /\ \A x \in e.exact : Leq(e.value.min, x) /\ Leq(x, e.value.max)
=============================================================================
