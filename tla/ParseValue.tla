------------------------------ MODULE ParseValue ------------------------------
(***************************************************************************)
(* ParseValue of parser/parse.go: a value of a list is a numeral, or an    *)
(* expression, set or interval.  What is in braces goes through ParseValue *)
(* again, so a numeral may also be an element of a set; it is read to its  *)
(* end before the set goes on.                                             *)
(***************************************************************************)
EXTENDS Expression, NumberWords

CONSTANT InBraces   \* bound: the numerals that may be in braces

ASSUME NumeralAssumption ==
  \A n \in Numerals \cup InBraces :
    n.tokens \in Seq(Seq(STRING)) /\ n.meant \in Fractions \cup {Nil}

vars == <<stack, elements, ops, pc, numeral, stage, lang, rest, sum, value>>

Init == InitExpression /\ InitNumeral

\* A numeral is the whole value, or the next one in braces; bound: before the
\* operators of the input.
BeginNumeral ==
  /\ pc = "parse" /\ stack = <<>> /\ Len(elements) < MaxDepth /\ ops = 0
  /\ Begin(IF elements = <<>> THEN Numerals ELSE InBraces)
  /\ UNCHANGED exprVars

ReadNumeral == pc = "parse" /\ NumeralStep /\ UNCHANGED exprVars

\* In braces, ParseValue returns the number to parseSet, or its error.
NumeralElement ==
  /\ pc = "parse" /\ numeral \in InBraces /\ stage \in {"read", "refused"}
  /\ IF stage = "read"
     THEN /\ elements' = Append(elements, Entry(PointValue(value), {numeral.meant}, TRUE))
          /\ UNCHANGED pc
     ELSE pc' = "error" /\ UNCHANGED elements
  /\ numeral' = NoNumeral /\ stage' = "none" /\ lang' = 1
  /\ rest' = <<>> /\ sum' = Nothing /\ value' = Nil
  /\ UNCHANGED <<stack, ops>>

Next ==
  \/ BeginNumeral \/ ReadNumeral \/ NumeralElement
  \/ stage = "none" /\ ExpressionStep /\ UNCHANGED numeralVars

Spec == Init /\ [][Next]_vars
=============================================================================
