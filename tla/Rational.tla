------------------------------- MODULE Rational -------------------------------
(***************************************************************************)
(* Exact fractions, as math/big has them: <<numerator, denominator>> in    *)
(* lowest terms, the denominator positive.  Nil is a missing *big.Rat.     *)
(***************************************************************************)
EXTENDS Integers

gcd[p \in Nat \X Nat] == IF p[2] = 0 THEN p[1] ELSE gcd[<<p[2], p[1] % p[2]>>]
Abs(n) == IF n < 0 THEN -n ELSE n

Nil == <<0, 0>>
Rat(n) == <<n, 1>>
Zero == Rat(0)
One == Rat(1)
Fractions == {x \in Int \X (Nat \ {0}) : gcd[<<Abs(x[1]), x[2]>>] = 1}

Fraction(n, d) ==
  LET g == gcd[<<Abs(n), Abs(d)>>]
      s == IF d < 0 THEN -1 ELSE 1
  IN <<(s * n) \div g, (s * d) \div g>>

Add(x, y) == Fraction(x[1] * y[2] + y[1] * x[2], x[2] * y[2])
Neg(x)    == <<-x[1], x[2]>>
Sub(x, y) == Add(x, Neg(y))
Mul(x, y) == Fraction(x[1] * y[1], x[2] * y[2])
Inv(x)    == Fraction(x[2], x[1])
Quo(x, y) == Mul(x, Inv(y))

Leq(x, y)  == x[1] * y[2] <= y[1] * x[2]
Less(x, y) == x[1] * y[2] < y[1] * x[2]
Least(S)    == CHOOSE x \in S : \A y \in S : Leq(x, y)
Greatest(S) == CHOOSE x \in S : \A y \in S : Leq(y, x)

IsInt(x) == x[2] = 1

\* x to the n, for every integer n.
Power(x, n) ==
  LET up[k \in Nat] == IF k = 0 THEN One ELSE Mul(x, up[k - 1])
  IN IF n >= 0 THEN up[n] ELSE Inv(up[-n])
=============================================================================
