----------------------------- MODULE ParserProofs -----------------------------
(***************************************************************************)
(* The values that the parser makes of an expression, an interval or a     *)
(* set, for inputs of any length and depth over any numbers: every value   *)
(* is well formed and has inside what was written.  The arithmetic of      *)
(* fractions comes first: integers and their greatest common divisors,     *)
(* fractions in lowest terms, their order, and sums, products, inverses    *)
(* and powers in it.                                                       *)
(***************************************************************************)
EXTENDS ParseValue, InductionProofs

-----------------------------------------------------------------------------
(* Products of integers. *)

LEMMA Product ==
  ASSUME NEW a \in Int, NEW b \in Int
  PROVE  a * b \in Int /\ a * b = b * a /\ (a \in Nat /\ b \in Nat => a * b \in Nat)
OBVIOUS

LEMMA Distributes ==
  ASSUME NEW u \in Int, NEW a \in Int, NEW v \in Int, NEW b \in Int, NEW c \in Int
  PROVE  (u * a + v * b) * c = u * (a * c) + v * (b * c)
OBVIOUS

LEMMA PositiveProduct ==
  ASSUME NEW a \in Int, NEW b \in Int, a > 0, b > 0
  PROVE  a * b > 0 /\ a * b >= a /\ a * b >= b
OBVIOUS

LEMMA TimesKeepsOrder ==
  ASSUME NEW a \in Int, NEW b \in Int, NEW c \in Int, c >= 0, a <= b
  PROVE  a * c <= b * c
OBVIOUS

LEMMA Cancels ==
  ASSUME NEW a \in Int, NEW b \in Int, NEW c \in Int, c > 0, a * c <= b * c
  PROVE  a <= b
OBVIOUS

LEMMA CancelsEqual ==
  ASSUME NEW a \in Int, NEW b \in Int, NEW c \in Int, c # 0, a * c = b * c
  PROVE  a = b
OBVIOUS

LEMMA DivExact ==
  ASSUME NEW g \in Int, g > 0, NEW k \in Int
  PROVE  (g * k) \div g = k
OBVIOUS

LEMMA Division ==
  ASSUME NEW a \in Int, NEW b \in Int, b > 0
  PROVE  a = b * (a \div b) + (a % b)
OBVIOUS

\* What % and \div say of natural numbers.
LEMMA Remainder ==
  ASSUME NEW a \in Nat, NEW b \in Nat, b # 0
  PROVE  /\ a % b \in Nat /\ a % b < b /\ a \div b \in Int
         /\ a = b * (a \div b) + (a % b)
<1>1. a % b \in Nat /\ a % b < b /\ a \div b \in Int
  OBVIOUS
<1>2. a \in Int /\ b \in Int /\ b > 0
  OBVIOUS
<1> QED BY <1>1, <1>2, Division
-----------------------------------------------------------------------------
(***************************************************************************)
(* The greatest common divisor, by what Euclid's algorithm keeps: it       *)
(* divides both numbers and is a combination of them.                      *)
(***************************************************************************)
Divides(d, a) == \E k \in Int : a = d * k
Combines(d, a, b) == \E u, v \in Int : d = u * a + v * b
Common(d, a, b) == d \in Nat /\ Divides(d, a) /\ Divides(d, b) /\ Combines(d, a, b)

LEMMA CommonStep ==
  ASSUME NEW a \in Nat, NEW b \in Nat, b # 0, NEW d, Common(d, b, a % b)
  PROVE  Common(d, a, b)
<1> DEFINE r == a % b
           q == a \div b
<1>1. r \in Nat /\ q \in Int /\ a = b * q + r
  BY Remainder
<1> HIDE DEF r, q
<1>2. PICK k \in Int, l \in Int, u \in Int, v \in Int : d \in Nat /\ b = d * k /\ r = d * l /\ d = u * b + v * r
  BY DEF r, Common, Divides, Combines
<1>3. Divides(d, a)
  <2>1. k * q \in Int /\ k * q + l \in Int
    BY <1>1, <1>2
  <2>2. (d * k) * q = d * (k * q) /\ d * (k * q) + d * l = d * (k * q + l)
    BY <1>1, <1>2
  <2>3. a = d * (k * q + l)
    BY <1>1, <1>2, <2>2
  <2> QED BY <2>1, <2>3 DEF Divides
<1>4. Combines(d, a, b)
  <2>1. u - v * q \in Int
    BY <1>1, <1>2
  <2>2. v * r = v * a - v * (b * q)
    <3>1. r = a - b * q
      BY <1>1
    <3>2. v * (a - b * q) = v * a - v * (b * q)
      BY <1>1, <1>2
    <3> QED BY <3>1, <3>2
  <2>3. v * a + (u - v * q) * b = v * a + (u * b - v * (b * q))
    BY <1>1, <1>2
  <2>4. d = v * a + (u - v * q) * b
    BY <1>1, <1>2, <2>2, <2>3
  <2> QED BY <1>2, <2>1, <2>4 DEF Combines
<1> QED BY <1>2, <1>3, <1>4 DEF Common, Divides

\* Two such numbers divide each other.
LEMMA CommonUnique ==
  ASSUME NEW a \in Nat, NEW b \in Nat, NEW d, NEW e, Common(d, a, b), Common(e, a, b)
  PROVE  d = e
<1>1. ASSUME NEW x, NEW y, Common(x, a, b), Common(y, a, b) PROVE \E m \in Int : y = x * m
  <2>1. PICK k \in Int, l \in Int : x \in Nat /\ a = x * k /\ b = x * l
    BY <1>1 DEF Common, Divides
  <2>2. PICK u \in Int, v \in Int : y = u * a + v * b
    BY <1>1 DEF Common, Combines
  <2>3. u * (x * k) + v * (x * l) = x * (u * k + v * l) /\ u * k + v * l \in Int
    BY <2>1, <2>2
  <2> QED BY <2>1, <2>2, <2>3
<1>2. PICK m \in Int : e = d * m
  BY <1>1
<1>3. PICK n \in Int : d = e * n
  BY <1>1
<1>4. d \in Nat /\ e \in Nat
  BY DEF Common
<1>5. CASE d = 0
  BY <1>2, <1>5
<1>6. CASE d # 0 /\ e # 0
  <2>1. m > 0 /\ n > 0
    BY <1>2, <1>3, <1>4, <1>6
  <2>2. e >= d /\ d >= e
    BY <1>2, <1>3, <1>4, <1>6, <2>1, PositiveProduct
  <2> QED BY <1>4, <2>2
<1>7. CASE e = 0
  BY <1>3, <1>7
<1> QED BY <1>5, <1>6, <1>7

LEMMA CommonLast ==
  ASSUME NEW a \in Nat
  PROVE  Common(a, a, 0)
<1>1. a = a * 1 /\ 0 = a * 0 /\ a = 1 * a + 0 * 0 /\ 1 \in Int /\ 0 \in Int
  OBVIOUS
<1> QED BY <1>1 DEF Common, Divides, Combines

\* By induction over the second number: the remainder is smaller.
LEMMA CommonExists ==
  ASSUME NEW a \in Nat, NEW b \in Nat
  PROVE  \E d : Common(d, a, b)
<1> DEFINE T == {m \in Nat : \E x \in Nat : ~(\E d : Common(d, x, m))}
<1> SUFFICES ASSUME T # {} PROVE FALSE
  OBVIOUS
<1>1. PICK m \in T : \A n \in T : ~(n < m)
  <2> HIDE DEF T
  <2>1. T \subseteq Nat
    BY DEF T
  <2> QED BY <2>1, LeastExists
<1>2. PICK x \in Nat : ~(\E d : Common(d, x, m))
  OBVIOUS
<1>3. m # 0
  BY <1>2, CommonLast
<1>4. x % m \in Nat /\ x % m < m /\ m \in Nat
  BY <1>3, Remainder
<1>5. x % m \notin T
  BY <1>1, <1>4
<1>6. PICK d : Common(d, m, x % m)
  BY <1>4, <1>5
<1>7. Common(d, x, m)
  BY <1>3, <1>4, <1>6, CommonStep
<1> QED BY <1>2, <1>7

\* Euclid's algorithm is a function, which has to be shown of a recursive definition.
LEMMA Euclid ==
  ASSUME NEW a \in Nat, NEW b \in Nat
  PROVE  gcd[<<a, b>>] = IF b = 0 THEN a ELSE gcd[<<b, a % b>>]
<1> DEFINE G == [p \in Nat \X Nat |-> CHOOSE d : Common(d, p[1], p[2])]
           F(g) == [p \in Nat \X Nat |-> IF p[2] = 0 THEN p[1] ELSE g[<<p[2], p[1] % p[2]>>]]
<1>1. ASSUME NEW x \in Nat, NEW y \in Nat PROVE Common(G[<<x, y>>], x, y)
  <2>1. Common(CHOOSE d : Common(d, x, y), x, y)
    BY CommonExists
  <2>2. <<x, y>> \in Nat \X Nat /\ <<x, y>>[1] = x /\ <<x, y>>[2] = y
    OBVIOUS
  <2> QED BY <2>1, <2>2
<1>2. ASSUME NEW p \in Nat \X Nat PROVE G[p] = F(G)[p]
  <2>1. PICK x \in Nat, y \in Nat : p = <<x, y>> /\ p[1] = x /\ p[2] = y
    OBVIOUS
  <2>2. Common(G[p], x, y)
    BY <1>1, <2>1
  <2>3. F(G)[p] = IF y = 0 THEN x ELSE G[<<y, x % y>>]
    <3> HIDE DEF G
    <3> QED BY <2>1
  <2>4. Common(F(G)[p], x, y)
    <3>1. CASE y = 0
      BY <2>3, <3>1, CommonLast
    <3>2. CASE y # 0
      <4>1. x % y \in Nat
        BY <3>2, Remainder
      <4>2. Common(G[<<y, x % y>>], y, x % y)
        BY <1>1, <4>1
      <4> QED BY <2>3, <3>2, <4>2, CommonStep
    <3> QED BY <3>1, <3>2
  <2> HIDE DEF G, F
  <2> QED BY <2>2, <2>4, CommonUnique
<1>3. G = F(G)
  <2>1. F(G) = [p \in Nat \X Nat |-> F(G)[p]] /\ G = [p \in Nat \X Nat |-> G[p]]
    OBVIOUS
  <2> HIDE DEF F, G
  <2> QED BY <1>2, <2>1
<1> HIDE DEF G
<1>4. gcd = F(gcd)
  BY <1>3 DEF gcd
<1>5. <<a, b>> \in Nat \X Nat /\ <<a, b>>[1] = a /\ <<a, b>>[2] = b
  OBVIOUS
<1>6. F(gcd)[<<a, b>>] = IF b = 0 THEN a ELSE gcd[<<b, a % b>>]
  BY <1>5
<1> HIDE DEF F
<1> QED BY <1>4, <1>6

\* What Euclid's algorithm computes is the greatest common divisor.
LEMMA GcdIsCommon ==
  ASSUME NEW a \in Nat, NEW b \in Nat
  PROVE  Common(gcd[<<a, b>>], a, b)
<1> DEFINE T == {m \in Nat : \E x \in Nat : ~Common(gcd[<<x, m>>], x, m)}
<1> SUFFICES ASSUME T # {} PROVE FALSE
  OBVIOUS
<1>1. PICK m \in T : \A n \in T : ~(n < m)
  <2> HIDE DEF T
  <2>1. T \subseteq Nat
    BY DEF T
  <2> QED BY <2>1, LeastExists
<1>2. PICK x \in Nat : ~Common(gcd[<<x, m>>], x, m)
  OBVIOUS
<1>3. m # 0
  BY <1>2, CommonLast, Euclid
<1>4. x % m \in Nat /\ x % m < m /\ m \in Nat
  BY <1>3, Remainder
<1>5. x % m \notin T
  BY <1>1, <1>4
<1>6. Common(gcd[<<m, x % m>>], m, x % m)
  BY <1>4, <1>5
<1>7. gcd[<<x, m>>] = gcd[<<m, x % m>>]
  BY <1>3, <1>4, Euclid
<1> QED BY <1>2, <1>3, <1>4, <1>6, <1>7, CommonStep
-----------------------------------------------------------------------------
(***************************************************************************)
(* Fractions are in lowest terms, so that equal numbers are equal pairs.   *)
(***************************************************************************)
Ratio(x, n, d) == x[1] * d = n * x[2]

\* Numbers that have 1 as a combination are in lowest terms.
LEMMA Lowest ==
  ASSUME NEW p \in Nat, NEW q \in Nat, Combines(1, p, q)
  PROVE  gcd[<<p, q>>] = 1
<1>1. Common(gcd[<<p, q>>], p, q)
  BY GcdIsCommon
<1>2. 1 = 1 * 1 /\ p = 1 * p /\ q = 1 * q /\ 1 \in Nat /\ 1 \in Int /\ p \in Int /\ q \in Int
  OBVIOUS
<1>3. Common(1, p, q)
  BY <1>2 DEF Common, Divides
<1> QED BY <1>1, <1>3, CommonUnique

LEMMA FractionType ==
  ASSUME NEW x \in Fractions
  PROVE  /\ x = <<x[1], x[2]>> /\ x[1] \in Int /\ x[2] \in Int /\ x[2] > 0
         /\ Abs(x[1]) \in Nat /\ x[2] \in Nat /\ Combines(1, x[1], x[2])
<1>1. x = <<x[1], x[2]>> /\ x[1] \in Int /\ x[2] \in Nat \ {0} /\ gcd[<<Abs(x[1]), x[2]>>] = 1
  BY DEF Fractions
<1>2. Abs(x[1]) \in Nat /\ (Abs(x[1]) = x[1] \/ Abs(x[1]) = -x[1])
  BY <1>1 DEF Abs
<1>3. PICK u \in Int, v \in Int : 1 = u * Abs(x[1]) + v * x[2]
  BY <1>1, <1>2, GcdIsCommon DEF Common, Combines
<1>4. CASE Abs(x[1]) = x[1]
  BY <1>1, <1>2, <1>3, <1>4 DEF Combines
<1>5. CASE Abs(x[1]) = -x[1]
  <2>1. u * (-x[1]) = (-u) * x[1] /\ -u \in Int
    BY <1>1
  <2>2. 1 = (-u) * x[1] + v * x[2]
    BY <1>3, <1>5, <2>1
  <2> QED BY <1>1, <1>2, <2>1, <2>2 DEF Combines
<1> QED BY <1>2, <1>4, <1>5

\* big.NewRat: whatever the numerator and the denominator, the pair is in lowest terms
\* and stands for their ratio.
LEMMA FractionIs ==
  ASSUME NEW n \in Int, NEW d \in Int, d # 0
  PROVE  Fraction(n, d) \in Fractions /\ Ratio(Fraction(n, d), n, d)
<1> DEFINE g == gcd[<<Abs(n), Abs(d)>>]
           s == IF d < 0 THEN -1 ELSE 1
<1>1. /\ Abs(n) \in Nat /\ Abs(d) \in Nat /\ (Abs(n) = n \/ Abs(n) = -n)
      /\ Abs(d) = s * d /\ Abs(d) > 0 /\ s \in {-1, 1}
  BY DEF Abs
<1>2. Common(g, Abs(n), Abs(d))
  BY <1>1, GcdIsCommon
<1>3. Fraction(n, d) = <<(s * n) \div g, (s * d) \div g>>
  BY DEF Fraction
<1> HIDE DEF g, s
<1>4. PICK k \in Int, q \in Int, u \in Int, v \in Int :
        g \in Nat /\ Abs(n) = g * k /\ Abs(d) = g * q /\ g = u * Abs(n) + v * Abs(d)
  BY <1>2 DEF Common, Divides, Combines
<1>5. g > 0
  BY <1>1, <1>4
<1>6. q > 0
  BY <1>1, <1>4, <1>5
<1>7. PICK p \in Int : s * n = g * p /\ (p = k \/ p = -k)
  <2>1. s * n = Abs(n) \/ s * n = -Abs(n)
    BY <1>1
  <2>2. g * (-k) = -(g * k) /\ -k \in Int
    BY <1>4
  <2> QED BY <1>4, <2>1, <2>2
<1>8. (s * n) \div g = p /\ (s * d) \div g = q
  <2>1. g \in Int /\ s * n = g * p /\ s * d = g * q
    BY <1>1, <1>4, <1>7
  <2>2. (g * p) \div g = p
    BY <1>5, <1>7, <2>1, DivExact
  <2>3. (g * q) \div g = q
    BY <1>4, <1>5, <2>1, DivExact
  <2> QED BY <2>1, <2>2, <2>3
<1>9. Fraction(n, d) = <<p, q>>
  BY <1>3, <1>8
<1>10. k \in Nat /\ Abs(p) = k
  <2>1. k >= 0
    BY <1>1, <1>4, <1>5
  <2> QED BY <1>7, <2>1 DEF Abs
<1>11. Combines(1, k, q)
  <2>1. g = g * (u * k + v * q) /\ u * k + v * q \in Int
    <3>1. u * (g * k) + v * (g * q) = g * (u * k + v * q) /\ u * k + v * q \in Int
      BY <1>4
    <3> QED BY <1>4, <3>1
  <2>2. 1 * g = (u * k + v * q) * g
    BY <1>4, <2>1
  <2>3. 1 = u * k + v * q
    BY <1>4, <1>5, <2>1, <2>2, CancelsEqual
  <2> QED BY <2>3 DEF Combines
<1>12. <<p, q>> \in Fractions
  <2>1. gcd[<<k, q>>] = 1
    BY <1>6, <1>10, <1>11, Lowest
  <2> QED BY <1>6, <1>10, <2>1 DEF Fractions
<1>13. p * d = n * q
  <2>1. s * (p * d) = p * (s * d) /\ p * (s * d) = p * (g * q) /\ p * (g * q) = (g * p) * q
    BY <1>1, <1>4, <1>7
  <2>2. (g * p) * q = (s * n) * q /\ (s * n) * q = s * (n * q)
    BY <1>1, <1>4, <1>7
  <2>3. s * (p * d) = s * (n * q) /\ p * d \in Int /\ n * q \in Int
    BY <1>1, <1>7, <2>1, <2>2
  <2> QED BY <1>1, <2>3
<1> QED BY <1>9, <1>12, <1>13 DEF Ratio

\* Fractions that are equal as numbers are the same pair.
LEMMA Canonical ==
  ASSUME NEW x \in Fractions, NEW y \in Fractions, x[1] * y[2] = y[1] * x[2]
  PROVE  x = y
<1>1. ASSUME NEW a \in Fractions, NEW b \in Fractions, a[1] * b[2] = b[1] * a[2]
      PROVE  b[2] >= a[2]
  <2>1. /\ a[1] \in Int /\ a[2] \in Int /\ a[2] > 0 /\ b[1] \in Int /\ b[2] \in Int /\ b[2] > 0
    BY FractionType
  <2>2. PICK u \in Int, v \in Int : 1 = u * a[1] + v * a[2]
    BY FractionType DEF Combines
  <2>3. (u * a[1] + v * a[2]) * b[2] = u * (a[1] * b[2]) + v * (a[2] * b[2])
    <3> DEFINE i == a[1]
               j == a[2]
               k == b[2]
    <3>1. i \in Int /\ j \in Int /\ k \in Int
      BY <2>1
    <3> HIDE DEF i, j, k
    <3>2. (u * i + v * j) * k = u * (i * k) + v * (j * k)
      BY <3>1, Distributes
    <3> QED BY <3>2 DEF i, j, k
  <2>4. u * (b[1] * a[2]) + v * (a[2] * b[2]) = a[2] * (u * b[1] + v * b[2])
        /\ u * b[1] + v * b[2] \in Int
    BY <2>1, <2>2
  <2>5. b[2] = a[2] * (u * b[1] + v * b[2])
    <3>1. u * (a[1] * b[2]) = u * (b[1] * a[2])
      BY <1>1
    <3> QED BY <2>1, <2>2, <2>3, <2>4, <3>1
  <2> DEFINE m == u * b[1] + v * b[2]
  <2>6. m \in Int /\ b[2] = a[2] * m
    BY <2>4, <2>5
  <2> HIDE DEF m
  <2>7. m > 0
    BY <2>1, <2>6
  <2> QED BY <2>1, <2>6, <2>7, PositiveProduct
<1>2. /\ x = <<x[1], x[2]>> /\ y = <<y[1], y[2]>> /\ x[1] \in Int /\ y[1] \in Int
      /\ x[2] \in Int /\ y[2] \in Int /\ x[2] > 0
  BY FractionType
<1>3. x[2] = y[2]
  BY <1>1, <1>2
<1>4. x[1] = y[1]
  BY <1>2, <1>3, CancelsEqual
<1> QED BY <1>2, <1>3, <1>4
-----------------------------------------------------------------------------
(* The order of fractions. *)

\* Fractions compare as any numerators and denominators of theirs do.
LEMMA RatioOrder ==
  ASSUME NEW x \in Fractions, NEW y \in Fractions,
         NEW n \in Int, NEW d \in Int, NEW m \in Int, NEW e \in Int, d > 0, e > 0,
         Ratio(x, n, d), Ratio(y, m, e)
  PROVE  Leq(x, y) <=> n * e <= m * d
<1> DEFINE x1 == x[1]
           x2 == x[2]
           y1 == y[1]
           y2 == y[2]
<1>1. /\ x1 \in Int /\ x2 \in Int /\ x2 > 0 /\ y1 \in Int /\ y2 \in Int /\ y2 > 0
      /\ x1 * d = n * x2 /\ y1 * e = m * y2
  BY FractionType DEF Ratio
<1>2. Leq(x, y) <=> x1 * y2 <= y1 * x2
  BY DEF Leq
<1> HIDE DEF x1, x2, y1, y2
<1>3. (x1 * y2) * (d * e) = (n * e) * (x2 * y2)
  <2>1. (x1 * y2) * (d * e) = (x1 * d) * (y2 * e)
    BY <1>1
  <2>2. (n * x2) * (y2 * e) = (n * e) * (x2 * y2)
    BY <1>1
  <2> QED BY <1>1, <2>1, <2>2
<1>4. (y1 * x2) * (d * e) = (m * d) * (x2 * y2)
  <2>1. (y1 * x2) * (d * e) = (y1 * e) * (x2 * d)
    BY <1>1
  <2>2. (m * y2) * (x2 * d) = (m * d) * (x2 * y2)
    BY <1>1
  <2> QED BY <1>1, <2>1, <2>2
<1>5. d * e > 0 /\ x2 * y2 > 0 /\ d * e \in Int /\ x2 * y2 \in Int
  BY <1>1, PositiveProduct
<1>6. x1 * y2 \in Int /\ y1 * x2 \in Int /\ n * e \in Int /\ m * d \in Int
  BY <1>1
<1> DEFINE A == x1 * y2
           B == y1 * x2
           C == n * e
           D == m * d
           P == d * e
           R == x2 * y2
<1>7. /\ A \in Int /\ B \in Int /\ C \in Int /\ D \in Int /\ P \in Int /\ R \in Int
      /\ P > 0 /\ R > 0 /\ P >= 0 /\ R >= 0 /\ A * P = C * R /\ B * P = D * R
  BY <1>3, <1>4, <1>5, <1>6
<1> HIDE DEF A, B, C, D, P, R
<1>8. A <= B => C <= D
  <2> SUFFICES ASSUME A <= B PROVE C <= D
    BY <1>1
  <2>1. A * P <= B * P
    BY <1>7, TimesKeepsOrder
  <2>2. C * R <= D * R
    BY <1>7, <2>1
  <2> QED BY <1>7, <2>2, Cancels
<1>9. C <= D => A <= B
  <2> SUFFICES ASSUME C <= D PROVE A <= B
    BY <1>1
  <2>1. C * R <= D * R
    BY <1>7, TimesKeepsOrder
  <2>2. A * P <= B * P
    BY <1>7, <2>1
  <2> QED BY <1>7, <2>2, Cancels
<1> QED BY <1>2, <1>8, <1>9 DEF A, B, C, D

LEMMA CrossTransitive ==
  ASSUME NEW x1 \in Int, NEW x2 \in Int, NEW y1 \in Int, NEW y2 \in Int,
         NEW z1 \in Int, NEW z2 \in Int, x2 > 0, y2 > 0, z2 > 0,
         x1 * y2 <= y1 * x2, y1 * z2 <= z1 * y2
  PROVE  x1 * z2 <= z1 * x2
<1>1. (x1 * y2) * z2 <= (y1 * x2) * z2 /\ (y1 * z2) * x2 <= (z1 * y2) * x2
  <2>1. /\ x1 * y2 \in Int /\ y1 * x2 \in Int /\ y1 * z2 \in Int /\ z1 * y2 \in Int
        /\ x2 >= 0 /\ z2 >= 0
    OBVIOUS
  <2> QED BY <2>1, TimesKeepsOrder
<1>2. /\ (x1 * y2) * z2 = (x1 * z2) * y2 /\ (y1 * x2) * z2 = (y1 * z2) * x2
      /\ (z1 * y2) * x2 = (z1 * x2) * y2
  OBVIOUS
<1>3. x1 * z2 \in Int /\ z1 * x2 \in Int /\ (x1 * z2) * y2 <= (z1 * x2) * y2
  BY <1>1, <1>2
<1> QED BY <1>3, Cancels

\* The order is total and transitive.
LEMMA Ordered ==
  /\ \A x \in Fractions : Leq(x, x)
  /\ \A x, y \in Fractions : Leq(x, y) \/ Leq(y, x)
  /\ \A x, y \in Fractions : Leq(x, y) /\ Leq(y, x) => x = y
  /\ \A x, y, z \in Fractions : Leq(x, y) /\ Leq(y, z) => Leq(x, z)
  /\ \A x, y \in Fractions : Less(x, y) <=> ~Leq(y, x)
<1>1. ASSUME NEW x \in Fractions, NEW y \in Fractions
      PROVE  /\ x[1] * y[2] \in Int /\ y[1] * x[2] \in Int
  BY FractionType
<1>2. \A x, y \in Fractions : Leq(x, y) \/ Leq(y, x)
  BY <1>1 DEF Leq
<1>3. \A x, y \in Fractions : Leq(x, y) /\ Leq(y, x) => x = y
  BY <1>1, Canonical DEF Leq
<1>4. ASSUME NEW x \in Fractions, NEW y \in Fractions, NEW z \in Fractions, Leq(x, y), Leq(y, z)
      PROVE  Leq(x, z)
  <2> DEFINE x1 == x[1]
             x2 == x[2]
             y1 == y[1]
             y2 == y[2]
             z1 == z[1]
             z2 == z[2]
  <2>1. /\ x1 \in Int /\ x2 \in Int /\ x2 > 0 /\ y1 \in Int /\ y2 \in Int /\ y2 > 0
        /\ z1 \in Int /\ z2 \in Int /\ z2 > 0 /\ x1 * y2 <= y1 * x2 /\ y1 * z2 <= z1 * y2
    BY <1>4, FractionType DEF Leq
  <2>2. Leq(x, z) <=> x1 * z2 <= z1 * x2
    BY DEF Leq
  <2> HIDE DEF x1, x2, y1, y2, z1, z2
  <2> QED BY <2>1, <2>2, CrossTransitive
<1>5. \A x, y \in Fractions : Less(x, y) <=> ~Leq(y, x)
  BY <1>1 DEF Leq, Less
<1> QED BY <1>2, <1>3, <1>4, <1>5

LEMMA Whole ==
  ASSUME NEW n \in Int
  PROVE  Rat(n) \in Fractions /\ Rat(n)[1] = n /\ Rat(n)[2] = 1
<1>1. Abs(n) \in Nat /\ 1 \in Nat /\ 1 = 0 * Abs(n) + 1 * 1 /\ 0 \in Int /\ 1 \in Int
  BY DEF Abs
<1>2. gcd[<<Abs(n), 1>>] = 1
  BY <1>1, Lowest DEF Combines
<1> QED BY <1>2 DEF Rat, Fractions

LEMMA ZeroIs ==
  /\ Zero \in Fractions /\ One \in Fractions
  /\ \A x \in Fractions : /\ Leq(Zero, x) <=> x[1] >= 0
                          /\ Leq(x, Zero) <=> x[1] <= 0
                          /\ x = Zero <=> x[1] = 0
  /\ Leq(Zero, One)
<1>1. Zero \in Fractions /\ One \in Fractions /\ Zero[1] = 0 /\ Zero[2] = 1 /\ One[1] = 1 /\ One[2] = 1
  BY Whole DEF Zero, One
<1>2. ASSUME NEW x \in Fractions
      PROVE  (Leq(Zero, x) <=> x[1] >= 0) /\ (Leq(x, Zero) <=> x[1] <= 0)
  <2>1. x[1] \in Int /\ x[2] \in Int /\ 0 * x[2] = 0 /\ x[1] * 1 = x[1]
    BY FractionType
  <2> QED BY <1>1, <2>1 DEF Leq
<1>3. ASSUME NEW x \in Fractions PROVE x = Zero <=> x[1] = 0
  <2>1. x[1] \in Int
    BY FractionType
  <2> QED BY <1>1, <1>2, <2>1, Ordered
<1> QED BY <1>1, <1>2, <1>3
-----------------------------------------------------------------------------
(* Arithmetic keeps fractions, and their order. *)

LEMMA AddIs ==
  ASSUME NEW x \in Fractions, NEW y \in Fractions
  PROVE  /\ Add(x, y) \in Fractions
         /\ Ratio(Add(x, y), x[1] * y[2] + y[1] * x[2], x[2] * y[2])
<1>1. /\ x[1] * y[2] + y[1] * x[2] \in Int /\ x[2] * y[2] \in Int /\ x[2] * y[2] > 0
  BY FractionType, PositiveProduct
<1> QED BY <1>1, FractionIs DEF Add

LEMMA NegIs ==
  /\ \A x \in Fractions : Neg(x) \in Fractions
  /\ \A x, y \in Fractions : Leq(x, y) => Leq(Neg(y), Neg(x))
  /\ \A x \in Fractions : Leq(Zero, x) => Leq(Neg(x), x)
<1>1. ASSUME NEW x \in Fractions
      PROVE  Neg(x) \in Fractions /\ Neg(x)[1] = -x[1] /\ Neg(x)[2] = x[2]
  <2>1. Abs(-x[1]) = Abs(x[1]) /\ -x[1] \in Int
    BY FractionType DEF Abs
  <2>2. Neg(x) = <<-x[1], x[2]>>
    BY DEF Neg
  <2> QED BY <2>1, <2>2 DEF Fractions
<1>2. ASSUME NEW x \in Fractions, NEW y \in Fractions, Leq(x, y)
      PROVE  Leq(Neg(y), Neg(x))
  <2> DEFINE x1 == x[1]
             x2 == x[2]
             y1 == y[1]
             y2 == y[2]
  <2>1. /\ x1 \in Int /\ x2 \in Int /\ y1 \in Int /\ y2 \in Int
        /\ x1 * y2 <= y1 * x2
    BY <1>2, FractionType DEF Leq
  <2>2. Leq(Neg(y), Neg(x)) <=> (-y1) * x2 <= (-x1) * y2
    BY <1>1 DEF Leq
  <2> HIDE DEF x1, x2, y1, y2
  <2>3. (-y1) * x2 = -(y1 * x2) /\ (-x1) * y2 = -(x1 * y2) /\ y1 * x2 \in Int /\ x1 * y2 \in Int
    BY <2>1
  <2> QED BY <2>1, <2>2, <2>3
<1>3. ASSUME NEW x \in Fractions, Leq(Zero, x) PROVE Leq(Neg(x), x)
  <2>1. x[1] >= 0 /\ x[1] \in Int
    BY <1>3, ZeroIs, FractionType
  <2>2. Leq(Neg(x), Zero)
    BY <1>1, <2>1, ZeroIs
  <2> QED BY <1>1, <1>3, <2>2, Ordered, ZeroIs
<1> QED BY <1>1, <1>2, <1>3

\* Sums of what is less are less.
LEMMA AddKeepsOrder ==
  ASSUME NEW a \in Fractions, NEW x \in Fractions, NEW c \in Fractions, NEW y \in Fractions,
         Leq(a, x), Leq(c, y)
  PROVE  Leq(Add(a, c), Add(x, y))
<1> DEFINE a1 == a[1]
           a2 == a[2]
           c1 == c[1]
           c2 == c[2]
           x1 == x[1]
           x2 == x[2]
           y1 == y[1]
           y2 == y[2]
<1>1. /\ a1 \in Int /\ a2 \in Int /\ c1 \in Int /\ c2 \in Int /\ a2 > 0 /\ c2 > 0
      /\ x1 \in Int /\ x2 \in Int /\ y1 \in Int /\ y2 \in Int /\ x2 > 0 /\ y2 > 0
  BY FractionType
<1>2. a1 * x2 <= x1 * a2 /\ c1 * y2 <= y1 * c2
  BY DEF Leq
<1>3. /\ Add(a, c) \in Fractions /\ Ratio(Add(a, c), a1 * c2 + c1 * a2, a2 * c2)
      /\ Add(x, y) \in Fractions /\ Ratio(Add(x, y), x1 * y2 + y1 * x2, x2 * y2)
  BY AddIs
<1> HIDE DEF a1, a2, c1, c2, x1, x2, y1, y2
<1>4. /\ a1 * c2 + c1 * a2 \in Int /\ a2 * c2 \in Int /\ a2 * c2 > 0
      /\ x1 * y2 + y1 * x2 \in Int /\ x2 * y2 \in Int /\ x2 * y2 > 0
  BY <1>1, PositiveProduct
<1>5. Leq(Add(a, c), Add(x, y)) <=>
        (a1 * c2 + c1 * a2) * (x2 * y2) <= (x1 * y2 + y1 * x2) * (a2 * c2)
  BY <1>3, <1>4, RatioOrder
<1>6. (a1 * x2) * (c2 * y2) <= (x1 * a2) * (c2 * y2)
  <2>1. /\ a1 * x2 \in Int /\ x1 * a2 \in Int /\ c2 * y2 \in Int /\ c2 * y2 >= 0
    BY <1>1, PositiveProduct
  <2> QED BY <1>2, <2>1, TimesKeepsOrder
<1>7. (c1 * y2) * (a2 * x2) <= (y1 * c2) * (a2 * x2)
  <2>1. /\ c1 * y2 \in Int /\ y1 * c2 \in Int /\ a2 * x2 \in Int /\ a2 * x2 >= 0
    BY <1>1, PositiveProduct
  <2> QED BY <1>2, <2>1, TimesKeepsOrder
<1>8. /\ (a1 * c2 + c1 * a2) * (x2 * y2) = (a1 * x2) * (c2 * y2) + (c1 * y2) * (a2 * x2)
      /\ (x1 * y2 + y1 * x2) * (a2 * c2) = (x1 * a2) * (c2 * y2) + (y1 * c2) * (a2 * x2)
  BY <1>1
<1>9. /\ (a1 * x2) * (c2 * y2) \in Int /\ (x1 * a2) * (c2 * y2) \in Int
      /\ (c1 * y2) * (a2 * x2) \in Int /\ (y1 * c2) * (a2 * x2) \in Int
  BY <1>1
<1> QED BY <1>5, <1>6, <1>7, <1>8, <1>9

LEMMA SubIs ==
  /\ \A x, y \in Fractions : Sub(x, y) \in Fractions
  /\ \A a, x, c, y \in Fractions : Leq(a, x) /\ Leq(y, c) => Leq(Sub(a, c), Sub(x, y))
BY AddIs, NegIs, AddKeepsOrder DEF Sub

LEMMA MulIs ==
  ASSUME NEW x \in Fractions, NEW y \in Fractions
  PROVE  /\ Mul(x, y) \in Fractions /\ Mul(x, y) = Mul(y, x)
         /\ Ratio(Mul(x, y), x[1] * y[1], x[2] * y[2])
<1>1. /\ x[1] * y[1] \in Int /\ x[2] * y[2] \in Int /\ x[2] * y[2] > 0
      /\ x[1] * y[1] = y[1] * x[1] /\ x[2] * y[2] = y[2] * x[2]
  BY FractionType, PositiveProduct
<1> QED BY <1>1, FractionIs DEF Mul

\* A factor keeps the order, or turns it around when it is negative.
LEMMA MulKeepsOrder ==
  ASSUME NEW a \in Fractions, NEW x \in Fractions, NEW y \in Fractions, Leq(a, x)
  PROVE  /\ Leq(Zero, y) => Leq(Mul(a, y), Mul(x, y))
         /\ Leq(y, Zero) => Leq(Mul(x, y), Mul(a, y))
<1> DEFINE a1 == a[1]
           a2 == a[2]
           x1 == x[1]
           x2 == x[2]
           y1 == y[1]
           y2 == y[2]
<1>1. /\ a1 \in Int /\ a2 \in Int /\ a2 > 0 /\ x1 \in Int /\ x2 \in Int /\ x2 > 0
      /\ y1 \in Int /\ y2 \in Int /\ y2 > 0
  BY FractionType
<1>2. a1 * x2 <= x1 * a2 /\ (Leq(Zero, y) <=> y1 >= 0) /\ (Leq(y, Zero) <=> y1 <= 0)
  BY ZeroIs DEF Leq
<1>3. /\ Mul(a, y) \in Fractions /\ Ratio(Mul(a, y), a1 * y1, a2 * y2)
      /\ Mul(x, y) \in Fractions /\ Ratio(Mul(x, y), x1 * y1, x2 * y2)
  BY MulIs
<1> HIDE DEF a1, a2, x1, x2, y1, y2
<1>4. /\ a1 * y1 \in Int /\ a2 * y2 \in Int /\ a2 * y2 > 0
      /\ x1 * y1 \in Int /\ x2 * y2 \in Int /\ x2 * y2 > 0
  BY <1>1, PositiveProduct
<1>5. /\ Leq(Mul(a, y), Mul(x, y)) <=> (a1 * y1) * (x2 * y2) <= (x1 * y1) * (a2 * y2)
      /\ Leq(Mul(x, y), Mul(a, y)) <=> (x1 * y1) * (a2 * y2) <= (a1 * y1) * (x2 * y2)
  BY <1>3, <1>4, RatioOrder
<1>6. /\ (a1 * y1) * (x2 * y2) = (a1 * x2) * (y1 * y2)
      /\ (x1 * y1) * (a2 * y2) = (x1 * a2) * (y1 * y2)
  BY <1>1
<1>7. a1 * x2 \in Int /\ x1 * a2 \in Int /\ y1 * y2 \in Int
  BY <1>1
<1>8. CASE y1 >= 0
  <2>1. y1 * y2 >= 0
    BY <1>1, <1>8, Product
  <2>2. (a1 * x2) * (y1 * y2) <= (x1 * a2) * (y1 * y2)
    BY <1>2, <1>7, <2>1, TimesKeepsOrder
  <2>3. Leq(Mul(a, y), Mul(x, y))
    BY <1>5, <1>6, <2>2
  <2>4. CASE y1 # 0
    BY <1>1, <1>2, <1>8, <2>3, <2>4
  <2>5. CASE y1 = 0
    <3>1. y1 * y2 = 0 /\ (a1 * x2) * 0 = 0 /\ (x1 * a2) * 0 = 0
      BY <1>1, <1>7, <2>5
    <3>2. (x1 * y1) * (a2 * y2) <= (a1 * y1) * (x2 * y2)
      BY <1>6, <3>1
    <3> QED BY <1>5, <2>3, <3>2
  <2> QED BY <2>4, <2>5
<1>9. CASE y1 <= 0 /\ y1 # 0
  <2>1. (-y1) * y2 \in Int /\ (-y1) * y2 >= 0
    BY <1>1, <1>9, Product
  <2>2. (a1 * x2) * ((-y1) * y2) <= (x1 * a2) * ((-y1) * y2)
    BY <1>2, <1>7, <2>1, TimesKeepsOrder
  <2>3. /\ (a1 * x2) * ((-y1) * y2) = -((a1 * x2) * (y1 * y2))
        /\ (x1 * a2) * ((-y1) * y2) = -((x1 * a2) * (y1 * y2))
        /\ (a1 * x2) * (y1 * y2) \in Int /\ (x1 * a2) * (y1 * y2) \in Int
    BY <1>1
  <2>4. (x1 * a2) * (y1 * y2) <= (a1 * x2) * (y1 * y2)
    BY <2>2, <2>3
  <2>5. Leq(Mul(x, y), Mul(a, y))
    BY <1>5, <1>6, <2>4
  <2> QED BY <1>1, <1>2, <1>9, <2>5
<1> QED BY <1>1, <1>8, <1>9

LEMMA MulSign ==
  ASSUME NEW x \in Fractions, NEW y \in Fractions
  PROVE  /\ Leq(Zero, x) /\ Leq(Zero, y) => Leq(Zero, Mul(x, y))
         /\ Leq(x, Zero) /\ Leq(y, Zero) => Leq(Zero, Mul(x, y))
         /\ Leq(x, Zero) /\ Leq(Zero, y) => Leq(Mul(x, y), Zero)
<1>1. /\ x[1] \in Int /\ y[1] \in Int /\ x[2] \in Int /\ y[2] \in Int
      /\ x[1] * y[1] \in Int /\ x[2] * y[2] \in Int /\ x[2] * y[2] > 0
  BY FractionType, PositiveProduct
<1>2. Zero \in Fractions /\ Ratio(Zero, 0, 1)
  BY Whole, ZeroIs DEF Zero, Ratio
<1>3. /\ Leq(Zero, Mul(x, y)) <=> x[1] * y[1] >= 0
      /\ Leq(Mul(x, y), Zero) <=> x[1] * y[1] <= 0
  <2> DEFINE n == x[1] * y[1]
             d == x[2] * y[2]
             m == Mul(x, y)
  <2>1. m \in Fractions /\ Ratio(m, n, d) /\ n \in Int /\ d \in Int /\ d > 0
    BY <1>1, MulIs
  <2> HIDE DEF n, d, m
  <2>2. 0 \in Int /\ 1 \in Int /\ 1 > 0 /\ 0 * d = 0 /\ n * 1 = n
    BY <2>1
  <2>3. Leq(Zero, m) <=> 0 * d <= n * 1
    BY <1>2, <2>1, <2>2, RatioOrder
  <2>4. Leq(m, Zero) <=> n * 1 <= 0 * d
    BY <1>2, <2>1, <2>2, RatioOrder
  <2> QED BY <2>1, <2>2, <2>3, <2>4 DEF n, m
<1>4. /\ (Leq(Zero, x) <=> x[1] >= 0) /\ (Leq(Zero, y) <=> y[1] >= 0)
      /\ (Leq(x, Zero) <=> x[1] <= 0) /\ (Leq(y, Zero) <=> y[1] <= 0)
  BY ZeroIs
<1> DEFINE i == x[1]
           j == y[1]
<1>5. /\ i \in Int /\ j \in Int
      /\ (Leq(Zero, Mul(x, y)) <=> i * j >= 0) /\ (Leq(Mul(x, y), Zero) <=> i * j <= 0)
      /\ (Leq(Zero, x) <=> i >= 0) /\ (Leq(Zero, y) <=> j >= 0)
      /\ (Leq(x, Zero) <=> i <= 0) /\ (Leq(y, Zero) <=> j <= 0)
  BY <1>1, <1>3, <1>4
<1> HIDE DEF i, j
<1>6. /\ i >= 0 /\ j >= 0 => i * j >= 0
      /\ i <= 0 /\ j <= 0 => i * j >= 0
      /\ i <= 0 /\ j >= 0 => i * j <= 0
  BY <1>5
<1> QED BY <1>5, <1>6

LEMMA InvIs ==
  ASSUME NEW x \in Fractions, x # Zero
  PROVE  /\ Inv(x) \in Fractions /\ Inv(x) # Zero
         /\ Leq(Zero, Inv(x)) <=> Leq(Zero, x)
         /\ Leq(Inv(x), Zero) <=> Leq(x, Zero)
         /\ Ratio(Inv(x), x[2], x[1])
<1>1. x[1] \in Int /\ x[2] \in Int /\ x[2] > 0 /\ x[1] # 0
  BY FractionType, ZeroIs
<1>2. Inv(x) \in Fractions /\ Ratio(Inv(x), x[2], x[1])
  BY <1>1, FractionIs DEF Inv
<1> DEFINE i1 == Inv(x)[1]
           i2 == Inv(x)[2]
           x1 == x[1]
           x2 == x[2]
<1>3. /\ i1 \in Int /\ i2 \in Int /\ i2 > 0 /\ i1 * x1 = x2 * i2
      /\ x1 \in Int /\ x2 \in Int /\ x2 > 0 /\ x1 # 0
  BY <1>1, <1>2, FractionType DEF Ratio
<1>4. /\ (Leq(Zero, Inv(x)) <=> i1 >= 0) /\ (Leq(Inv(x), Zero) <=> i1 <= 0)
      /\ (Leq(Zero, x) <=> x1 >= 0) /\ (Leq(x, Zero) <=> x1 <= 0) /\ (Inv(x) = Zero <=> i1 = 0)
  BY <1>2, ZeroIs
<1> HIDE DEF i1, i2, x1, x2
<1>5. i1 * x1 > 0
  BY <1>3, PositiveProduct
<1>6. i1 # 0 /\ (i1 > 0 <=> x1 > 0)
  BY <1>3, <1>5
<1> QED BY <1>2, <1>3, <1>4, <1>6

\* Inverses on one side of zero turn the order around.
LEMMA InvFlips ==
  ASSUME NEW x \in Fractions, NEW y \in Fractions, Leq(x, y), ~Leq(x, Zero) \/ ~Leq(Zero, y)
  PROVE  Leq(Inv(y), Inv(x))
<1> DEFINE x1 == x[1]
           x2 == x[2]
           y1 == y[1]
           y2 == y[2]
<1>1. /\ x1 \in Int /\ x2 \in Int /\ x2 > 0 /\ y1 \in Int /\ y2 \in Int /\ y2 > 0
      /\ x1 * y2 <= y1 * x2
  BY FractionType DEF Leq
<1>2. /\ (Leq(x, Zero) <=> x1 <= 0) /\ (Leq(Zero, y) <=> y1 >= 0)
      /\ (x = Zero <=> x1 = 0) /\ (y = Zero <=> y1 = 0)
      /\ (Leq(Zero, x) <=> x1 >= 0) /\ (Leq(y, Zero) <=> y1 <= 0)
  BY ZeroIs
<1>3. (x1 > 0 /\ y1 > 0) \/ (x1 < 0 /\ y1 < 0)
  <2>1. CASE x1 > 0
    <3>1. Leq(Zero, y) /\ y # Zero
      <4>1. Leq(Zero, x) /\ x # Zero
        BY <1>1, <1>2, <2>1
      <4> QED BY <4>1, Ordered, ZeroIs
    <3> QED BY <1>1, <1>2, <2>1, <3>1
  <2>2. CASE y1 < 0
    <3>1. Leq(x, Zero) /\ x # Zero
      <4>1. Leq(y, Zero) /\ y # Zero
        BY <1>1, <1>2, <2>2
      <4> QED BY <4>1, Ordered, ZeroIs
    <3> QED BY <1>1, <1>2, <2>2, <3>1
  <2> QED BY <1>1, <1>2, <2>1, <2>2
<1>4. /\ Inv(x) \in Fractions /\ Inv(x)[1] * x1 = x2 * Inv(x)[2]
      /\ Inv(y) \in Fractions /\ Inv(y)[1] * y1 = y2 * Inv(y)[2]
  <2>1. x # Zero /\ y # Zero
    BY <1>1, <1>2, <1>3
  <2> QED BY <2>1, InvIs DEF Ratio
<1> DEFINE i1 == Inv(x)[1]
           i2 == Inv(x)[2]
           j1 == Inv(y)[1]
           j2 == Inv(y)[2]
<1>5. i1 \in Int /\ i2 \in Int /\ j1 \in Int /\ j2 \in Int /\ i1 * x1 = x2 * i2 /\ j1 * y1 = y2 * j2
  BY <1>4, FractionType
<1>6. /\ \A n, d \in Int : i1 * d = n * i2 => Ratio(Inv(x), n, d)
      /\ \A n, d \in Int : j1 * d = n * j2 => Ratio(Inv(y), n, d)
  BY DEF Ratio
<1> HIDE DEF x1, x2, y1, y2, i1, i2, j1, j2
<1>7. CASE x1 > 0 /\ y1 > 0
  <2>1. Ratio(Inv(x), x2, x1) /\ Ratio(Inv(y), y2, y1)
    BY <1>1, <1>5, <1>6
  <2>2. Leq(Inv(y), Inv(x)) <=> y2 * x1 <= x2 * y1
    BY <1>1, <1>4, <1>7, <2>1, RatioOrder
  <2>3. y2 * x1 = x1 * y2 /\ x2 * y1 = y1 * x2
    BY <1>1
  <2> QED BY <1>1, <2>2, <2>3
<1>8. CASE x1 < 0 /\ y1 < 0
  <2>1. i1 * (-x1) = (-x2) * i2 /\ j1 * (-y1) = (-y2) * j2
    <3>1. /\ i1 * (-x1) = -(i1 * x1) /\ (-x2) * i2 = -(x2 * i2)
          /\ j1 * (-y1) = -(j1 * y1) /\ (-y2) * j2 = -(y2 * j2)
      BY <1>1, <1>5
    <3> QED BY <1>5, <3>1
  <2>2. Ratio(Inv(x), -x2, -x1) /\ Ratio(Inv(y), -y2, -y1)
    BY <1>1, <1>6, <2>1
  <2>3. -x2 \in Int /\ -x1 \in Int /\ -y2 \in Int /\ -y1 \in Int /\ -x1 > 0 /\ -y1 > 0
    BY <1>1, <1>8
  <2>4. Leq(Inv(y), Inv(x)) <=> (-y2) * (-x1) <= (-x2) * (-y1)
    BY <1>4, <2>2, <2>3, RatioOrder
  <2>5. (-y2) * (-x1) = x1 * y2 /\ (-x2) * (-y1) = y1 * x2
    BY <1>1
  <2> QED BY <1>1, <2>4, <2>5
<1> QED BY <1>3, <1>7, <1>8

\* Powers are products, since the recursive function of Power exists.
LEMMA PowerIs ==
  ASSUME NEW x \in Fractions
  PROVE  /\ Power(x, 0) = One
         /\ \A n \in Nat : /\ Power(x, n) \in Fractions
                           /\ Power(x, n + 1) = Mul(x, Power(x, n))
                           /\ n # 0 => Power(x, -n) = Inv(Power(x, n))
<1> DEFINE G(f) == [k \in Nat |-> IF k = 0 THEN One ELSE Mul(x, f[k - 1])]
           up == CHOOSE f : f = G(f)
           h == [p \in Nat \X Fractions |-> Mul(x, p[2])]
<1>1. h \in [Nat \X Fractions -> Fractions] /\ One \in Fractions
  BY MulIs, ZeroIs
<1>2. \A k \in Nat, y \in Fractions : h[<<k, y>>] = Mul(x, y)
  OBVIOUS
<1> HIDE DEF h
<1>3. PICK f : Recurs(f, Fractions, One, h)
  BY <1>1, RecursionWorks
<1>4. f = G(f)
  <2>1. ASSUME NEW k \in Nat PROVE f[k] = G(f)[k]
    <3>1. f[k] = IF k = 0 THEN One ELSE h[<<k, f[k - 1]>>]
      BY <1>3 DEF Recurs
    <3>2. k # 0 => k - 1 \in Nat /\ f[k - 1] \in Fractions
      BY <1>3 DEF Recurs
    <3> QED BY <1>2, <3>1, <3>2
  <2>2. f = [k \in Nat |-> f[k]] /\ G(f) = [k \in Nat |-> G(f)[k]]
    BY <1>3 DEF Recurs
  <2> HIDE DEF G
  <2> QED BY <2>1, <2>2
<1>5. up = G(up)
  BY <1>4
<1> HIDE DEF up
<1>6. /\ up[0] = One
      /\ \A n \in Nat : up[n + 1] = Mul(x, up[n])
  <2>1. \A k \in Nat : G(up)[k] = IF k = 0 THEN One ELSE Mul(x, up[k - 1])
    OBVIOUS
  <2>2. ASSUME NEW n \in Nat PROVE n + 1 \in Nat /\ n + 1 # 0 /\ (n + 1) - 1 = n
    OBVIOUS
  <2> HIDE DEF G
  <2> QED BY <1>5, <2>1, <2>2
<1>7. \A n \in Nat : up[n] \in Fractions
  <2> DEFINE T == {n \in Nat : up[n] \in Fractions}
  <2>1. 0 \in T
    BY <1>1, <1>6
  <2>2. ASSUME NEW n \in Nat, n \in T PROVE n + 1 \in T
    <3>1. Mul(x, up[n]) \in Fractions
      BY <2>2, MulIs
    <3> QED BY <1>6, <3>1
  <2> HIDE DEF T
  <2>3. Nat \subseteq T
    BY <2>1, <2>2, Induction
  <2> QED BY <2>3 DEF T
<1>8. \A n \in Int : Power(x, n) = IF n >= 0 THEN up[n] ELSE Inv(up[-n])
  BY DEF Power, up
<1>9. ASSUME NEW n \in Nat
      PROVE  /\ Power(x, n) = up[n] /\ Power(x, n + 1) = up[n + 1]
             /\ n # 0 => Power(x, -n) = Inv(up[n])
  <2>1. n \in Int /\ n >= 0 /\ n + 1 \in Int /\ n + 1 >= 0 /\ -n \in Int /\ -(-n) = n
        /\ (n # 0 => ~(-n >= 0))
    OBVIOUS
  <2> QED BY <1>8, <2>1
<1>10. Power(x, 0) = up[0]
  BY <1>9
<1> QED BY <1>6, <1>7, <1>9, <1>10

LEMMA FactorialType ==
  ASSUME NEW n \in Nat
  PROVE  Factorial(n) \in Nat
<1> DEFINE G(f) == [k \in Nat |-> IF k = 0 THEN 1 ELSE k * f[k - 1]]
           all == CHOOSE f : f = G(f)
           h == [p \in Nat \X Nat |-> p[1] * p[2]]
<1>1. h \in [Nat \X Nat -> Nat] /\ 1 \in Nat
  BY Product
<1>2. \A k, y \in Nat : h[<<k, y>>] = k * y
  OBVIOUS
<1> HIDE DEF h
<1>3. PICK f : Recurs(f, Nat, 1, h)
  BY <1>1, RecursionWorks
<1>4. f = G(f)
  <2>1. ASSUME NEW k \in Nat PROVE f[k] = G(f)[k]
    <3>1. f[k] = IF k = 0 THEN 1 ELSE h[<<k, f[k - 1]>>]
      BY <1>3 DEF Recurs
    <3>2. k # 0 => k - 1 \in Nat /\ f[k - 1] \in Nat
      BY <1>3 DEF Recurs
    <3>3. k # 0 => h[<<k, f[k - 1]>>] = k * f[k - 1]
      BY <1>2, <3>2
    <3> QED BY <3>1, <3>3
  <2>2. f = [k \in Nat |-> f[k]] /\ G(f) = [k \in Nat |-> G(f)[k]]
    BY <1>3 DEF Recurs
  <2> HIDE DEF G
  <2> QED BY <2>1, <2>2
<1>5. all = G(all)
  BY <1>4
<1> HIDE DEF all
<1>6. \A k \in Nat : all[k] = IF k = 0 THEN 1 ELSE k * all[k - 1]
  <2>1. \A k \in Nat : G(all)[k] = IF k = 0 THEN 1 ELSE k * all[k - 1]
    OBVIOUS
  <2> HIDE DEF G
  <2> QED BY <1>5, <2>1
<1>7. n \in {k \in Nat : all[k] \in Nat}
  <2> DEFINE T == {k \in Nat : all[k] \in Nat}
  <2>1. 0 \in T
    BY <1>6
  <2>2. ASSUME NEW k \in Nat, k \in T PROVE k + 1 \in T
    <3>1. all[k + 1] = (k + 1) * all[k]
      <4>1. k + 1 \in Nat /\ k + 1 # 0 /\ (k + 1) - 1 = k
        OBVIOUS
      <4> QED BY <1>6, <4>1
    <3>2. all[k] \in Nat
      BY <2>2
    <3> HIDE DEF T
    <3>3. (k + 1) * all[k] \in Nat
      BY <3>2, Product
    <3> QED BY <3>1, <3>3 DEF T
  <2> HIDE DEF T
  <2>3. Nat \subseteq T
    BY <2>1, <2>2, Induction
  <2> QED BY <2>3 DEF T
<1>8. Factorial(n) = all[n]
  BY DEF Factorial, all
<1> QED BY <1>7, <1>8

\* Powers of numbers on one side of zero are ordered as the exponent is odd or even.
LEMMA PowerOrder ==
  ASSUME NEW x \in Fractions, NEW y \in Fractions, Leq(x, y), NEW n \in Nat
  PROVE  /\ Leq(Zero, x) => Leq(Zero, Power(x, n)) /\ Leq(Power(x, n), Power(y, n))
         /\ Leq(y, Zero) => IF n % 2 = 0
                            THEN Leq(Zero, Power(y, n)) /\ Leq(Power(y, n), Power(x, n))
                            ELSE Leq(Power(x, n), Power(y, n)) /\ Leq(Power(y, n), Zero)
<1> DEFINE Q(k) == /\ Leq(Zero, x) => Leq(Zero, Power(x, k)) /\ Leq(Power(x, k), Power(y, k))
                   /\ Leq(y, Zero) => IF k % 2 = 0
                                      THEN Leq(Zero, Power(y, k)) /\ Leq(Power(y, k), Power(x, k))
                                      ELSE Leq(Power(x, k), Power(y, k)) /\ Leq(Power(y, k), Zero)
           T == {k \in Nat : Q(k)}
<1>1. 0 \in T
  <2>1. Power(x, 0) = One /\ Power(y, 0) = One /\ 0 % 2 = 0
    BY PowerIs
  <2>2. Leq(Zero, One) /\ Leq(One, One)
    BY ZeroIs, Ordered
  <2> QED BY <2>1, <2>2
<1>2. ASSUME NEW k \in Nat, k \in T PROVE k + 1 \in T
  <2> DEFINE p == Power(x, k)
             q == Power(y, k)
  <2>1. /\ p \in Fractions /\ q \in Fractions
        /\ Power(x, k + 1) = Mul(x, p) /\ Power(y, k + 1) = Mul(y, q)
    BY PowerIs
  <2>2. Q(k)
    BY <1>2
  <2> HIDE DEF p, q
  <2>3. /\ Mul(x, p) \in Fractions /\ Mul(y, p) \in Fractions /\ Mul(y, q) \in Fractions
        /\ Mul(y, p) = Mul(p, y) /\ Mul(y, q) = Mul(q, y)
    BY <2>1, MulIs
  <2>4. ASSUME Leq(Zero, x)
        PROVE  Leq(Zero, Mul(x, p)) /\ Leq(Mul(x, p), Mul(y, q))
    <3>1. Leq(Zero, p) /\ Leq(p, q) /\ Leq(Zero, y)
      BY <2>2, <2>4, ZeroIs, Ordered DEF p, q
    <3>2. Leq(Mul(x, p), Mul(y, p))
      BY <2>1, <3>1, MulKeepsOrder
    <3>3. Leq(Mul(p, y), Mul(q, y))
      BY <2>1, <3>1, MulKeepsOrder
    <3>4. Leq(Zero, Mul(x, p))
      BY <2>1, <2>4, <3>1, MulSign
    <3> QED BY <2>3, <3>2, <3>3, <3>4, Ordered
  <2>5. ASSUME Leq(y, Zero), k % 2 = 0
        PROVE  Leq(Mul(x, p), Mul(y, q)) /\ Leq(Mul(y, q), Zero)
    <3>1. Leq(Zero, q) /\ Leq(q, p) /\ Leq(Zero, p)
      <4>1. Leq(Zero, q) /\ Leq(q, p)
        BY <2>2, <2>5 DEF p, q
      <4> QED BY <2>1, <4>1, ZeroIs, Ordered
    <3>2. Leq(Mul(x, p), Mul(y, p))
      BY <2>1, <3>1, MulKeepsOrder
    <3>3. Leq(Mul(p, y), Mul(q, y))
      BY <2>1, <2>5, <3>1, MulKeepsOrder
    <3>4. Leq(Mul(y, q), Zero)
      BY <2>1, <2>5, <3>1, MulSign
    <3> QED BY <2>3, <3>2, <3>3, <3>4, Ordered
  <2>6. ASSUME Leq(y, Zero), k % 2 # 0
        PROVE  Leq(Zero, Mul(y, q)) /\ Leq(Mul(y, q), Mul(x, p))
    <3>1. Leq(p, q) /\ Leq(q, Zero) /\ Leq(p, Zero)
      <4>1. Leq(p, q) /\ Leq(q, Zero)
        BY <2>2, <2>6 DEF p, q
      <4> QED BY <2>1, <4>1, ZeroIs, Ordered
    <3>2. Leq(Mul(y, p), Mul(x, p))
      BY <2>1, <3>1, MulKeepsOrder
    <3>3. Leq(Mul(q, y), Mul(p, y))
      BY <2>1, <2>6, <3>1, MulKeepsOrder
    <3>4. Leq(Zero, Mul(y, q))
      BY <2>1, <2>6, <3>1, MulSign
    <3> QED BY <2>3, <3>2, <3>3, <3>4, Ordered
  <2>7. k + 1 \in Nat /\ ((k + 1) % 2 = 0 <=> k % 2 # 0)
    OBVIOUS
  <2>8. Q(k + 1)
    BY <2>1, <2>4, <2>5, <2>6, <2>7
  <2> HIDE DEF Q
  <2> QED BY <2>7, <2>8
<1> HIDE DEF T
<1>3. n \in T
  BY <1>1, <1>2, Induction
<1> QED BY <1>3 DEF T

\* An even power of numbers on both sides of zero goes down to zero; any other
\* power of a range is between those of its ends.
LEMMA PowerBetween ==
  ASSUME NEW lo \in Fractions, NEW hi \in Fractions, NEW x \in Fractions, Leq(lo, x), Leq(x, hi),
         NEW n \in Nat
  PROVE  IF n % 2 = 0 /\ Less(lo, Zero) /\ Less(Zero, hi)
         THEN Leq(Zero, Power(x, n)) /\ (Leq(Power(x, n), Power(lo, n)) \/ Leq(Power(x, n), Power(hi, n)))
         ELSE \/ Leq(Power(lo, n), Power(x, n)) /\ Leq(Power(x, n), Power(hi, n))
              \/ Leq(Power(hi, n), Power(x, n)) /\ Leq(Power(x, n), Power(lo, n))
<1>1. /\ Power(lo, n) \in Fractions /\ Power(hi, n) \in Fractions /\ Power(x, n) \in Fractions
      /\ Leq(lo, lo) /\ Leq(hi, hi) /\ Leq(x, x) /\ Zero \in Fractions
      /\ (Less(lo, Zero) <=> ~Leq(Zero, lo)) /\ (Less(Zero, hi) <=> ~Leq(hi, Zero))
      /\ (Leq(Zero, x) \/ Leq(x, Zero))
  BY PowerIs, Ordered, ZeroIs
<1>2. CASE Leq(Zero, lo)
  <2>1. Leq(Zero, x)
    BY <1>1, <1>2, Ordered
  <2> QED BY <1>1, <1>2, <2>1, PowerOrder
<1>3. CASE Leq(hi, Zero)
  <2>1. Leq(x, Zero)
    BY <1>1, <1>3, Ordered
  <2> QED BY <1>1, <1>3, <2>1, PowerOrder
<1>4. CASE ~Leq(Zero, lo) /\ ~Leq(hi, Zero)
  <2>1. Leq(lo, Zero) /\ Leq(Zero, hi)
    BY <1>1, <1>4, Ordered
  <2>2. CASE n % 2 = 0
    <3>1. CASE Leq(Zero, x)
      BY <1>1, <1>4, <2>2, <3>1, PowerOrder
    <3>2. CASE Leq(x, Zero)
      BY <1>1, <1>4, <2>2, <3>2, PowerOrder
    <3> QED BY <1>1, <3>1, <3>2
  <2>3. CASE n % 2 # 0
    <3>1. Leq(Power(lo, n), Zero) /\ Leq(Zero, Power(hi, n))
      BY <1>1, <2>1, <2>3, PowerOrder
    <3>2. CASE Leq(Zero, x)
      <4>1. Leq(Zero, Power(x, n)) /\ Leq(Power(x, n), Power(hi, n))
        BY <1>1, <3>2, PowerOrder
      <4> QED BY <1>1, <2>3, <3>1, <4>1, Ordered
    <3>3. CASE Leq(x, Zero)
      <4>1. Leq(Power(lo, n), Power(x, n)) /\ Leq(Power(x, n), Zero)
        BY <1>1, <2>3, <3>3, PowerOrder
      <4> QED BY <1>1, <2>3, <3>1, <4>1, Ordered
    <3> QED BY <1>1, <3>2, <3>3
  <2> QED BY <2>2, <2>3
<1> QED BY <1>2, <1>3, <1>4
-----------------------------------------------------------------------------
(* Finite sets of fractions have extremes. *)

\* The library's theorem on images has an operator as a parameter; this has a function.
LEMMA ImageIsFinite ==
  ASSUME NEW S, IsFiniteSet(S), NEW T, NEW f \in [S -> T], \A y \in T : \E x \in S : f[x] = y
  PROVE  IsFiniteSet(T)
<1>1. f \in Surjection(S, T)
  BY DEF Surjection
<1> QED BY <1>1, FS_Surjection

\* By induction over the cardinality.
LEMMA HasExtremes ==
  ASSUME NEW S, IsFiniteSet(S), S # {}, S \subseteq Fractions
  PROVE  /\ Least(S) \in S /\ \A y \in S : Leq(Least(S), y)
         /\ Greatest(S) \in S /\ \A y \in S : Leq(y, Greatest(S))
<1> DEFINE Bounded(U) == (\E x \in U : \A y \in U : Leq(x, y)) /\ (\E x \in U : \A y \in U : Leq(y, x))
           T == {n \in Nat : \A U \in SUBSET S : Cardinality(U) = n + 1 => Bounded(U)}
<1>1. ASSUME NEW U \in SUBSET S
      PROVE  IsFiniteSet(U) /\ Cardinality(U) \in Nat /\ U \subseteq Fractions
  BY FS_Subset, FS_CardinalityType
<1>2. 0 \in T
  <2> SUFFICES ASSUME NEW U \in SUBSET S, Cardinality(U) = 0 + 1 PROVE Bounded(U)
    OBVIOUS
  <2>1. IsFiniteSet(U) /\ Cardinality(U) = 1 /\ U \subseteq Fractions
    BY <1>1
  <2>2. PICK x : U = {x}
    BY <2>1, FS_Singleton
  <2> QED BY <2>1, <2>2, Ordered
<1>3. ASSUME NEW n \in Nat, n \in T PROVE n + 1 \in T
  <2> SUFFICES ASSUME NEW U \in SUBSET S, Cardinality(U) = (n + 1) + 1 PROVE Bounded(U)
    OBVIOUS
  <2>1. PICK z : z \in U
    <3>1. U # {}
      BY <1>1, FS_EmptySet
    <3> QED BY <3>1
  <2> DEFINE V == U \ {z}
  <2>2. V \in SUBSET S /\ Cardinality(V) = n + 1 /\ U = V \cup {z} /\ z \in Fractions /\ V \subseteq Fractions
    BY <1>1, <2>1, FS_RemoveElement
  <2> HIDE DEF V
  <2>3. Bounded(V)
    BY <1>3, <2>2
  <2>4. PICK x \in V : \A y \in V : Leq(x, y)
    BY <2>3
  <2>5. PICK w \in V : \A y \in V : Leq(y, w)
    BY <2>3
  <2>6. x \in Fractions /\ w \in Fractions /\ Leq(z, z)
    BY <2>2, Ordered
  <2>7. \E e \in U : \A y \in U : Leq(e, y)
    <3>1. CASE Leq(x, z)
      BY <2>2, <2>4, <3>1
    <3>2. CASE Leq(z, x)
      <4>1. \A y \in V : Leq(z, y)
        BY <2>2, <2>4, <2>6, <3>2, Ordered
      <4> QED BY <2>2, <2>6, <4>1
    <3> QED BY <2>2, <2>6, <3>1, <3>2, Ordered
  <2>8. \E e \in U : \A y \in U : Leq(y, e)
    <3>1. CASE Leq(z, w)
      BY <2>2, <2>5, <3>1
    <3>2. CASE Leq(w, z)
      <4>1. \A y \in V : Leq(y, z)
        BY <2>2, <2>5, <2>6, <3>2, Ordered
      <4> QED BY <2>2, <2>6, <4>1
    <3> QED BY <2>2, <2>6, <3>1, <3>2, Ordered
  <2> QED BY <2>7, <2>8
<1>4. Nat \subseteq T
  <2> HIDE DEF T
  <2> QED BY <1>2, <1>3, Induction
<1>5. Cardinality(S) - 1 \in Nat /\ Cardinality(S) = (Cardinality(S) - 1) + 1
  BY FS_CardinalityType, FS_EmptySet
<1>6. Bounded(S)
  <2>1. Cardinality(S) - 1 \in T
    BY <1>4, <1>5
  <2> HIDE DEF Bounded
  <2> QED BY <1>5, <2>1
<1> QED BY <1>6 DEF Least, Greatest

LEMMA PairExtremes ==
  ASSUME NEW x \in Fractions, NEW y \in Fractions
  PROVE  /\ IsFiniteSet({x, y})
         /\ Least({x, y}) \in Fractions /\ Least({x, y}) \in {x, y}
         /\ Leq(Least({x, y}), x) /\ Leq(Least({x, y}), y)
         /\ Greatest({x, y}) \in Fractions /\ Greatest({x, y}) \in {x, y}
         /\ Leq(x, Greatest({x, y})) /\ Leq(y, Greatest({x, y}))
<1>1. IsFiniteSet({x, y}) /\ {x, y} # {} /\ {x, y} \subseteq Fractions
  <2>1. IsFiniteSet({x})
    BY FS_Singleton
  <2>2. IsFiniteSet({x} \cup {y})
    BY <2>1, FS_AddElement
  <2>3. {x, y} = {x} \cup {y}
    OBVIOUS
  <2> QED BY <2>2, <2>3
<1> QED BY <1>1, HasExtremes

-----------------------------------------------------------------------------
(***************************************************************************)
(* A value tells of the numbers E that it was written for: it has them all *)
(* as its points, or it is a range that they are inside of.                *)
(***************************************************************************)
Numbers(E) == E # {} /\ E \subseteq Fractions
Within(v, E) == \A x \in E : Leq(v.min, x) /\ Leq(x, v.max)
Encloses(v, E) ==
  /\ v.kind = "value" /\ v.inf = 0 /\ Numbers(E)
  /\ v.min \in Fractions /\ v.max \in Fractions /\ Within(v, E)
  /\ v.points # {} => /\ v.points = E /\ IsFiniteSet(E) /\ Cardinality(E) >= 2
                      /\ v.min = Least(E) /\ v.max = Greatest(E)

\* A value that has points, or is a point, has just the numbers it was written for.
LEMMA EnclosesMeans ==
  ASSUME NEW v, NEW E, Encloses(v, E)
  PROVE  /\ Leq(v.min, v.max)
         /\ DiscretePoints(v) # {} => DiscretePoints(v) = E /\ IsFiniteSet(E)
<1>1. /\ v.inf = 0 /\ v.min \in Fractions /\ v.max \in Fractions
      /\ E # {} /\ E \subseteq Fractions /\ Within(v, E)
  BY DEF Encloses, Numbers
<1>2. Leq(v.min, v.max)
  BY <1>1, Ordered DEF Within
<1>3. CASE v.points # {}
  BY <1>3, <1>2 DEF Encloses, DiscretePoints
<1>4. CASE v.points = {} /\ IsPoint(v)
  <2>1. v.min = v.max
    BY <1>1, <1>4 DEF IsPoint
  <2>2. \A x \in E : x = v.min
    BY <1>1, <2>1, Ordered DEF Within
  <2>3. E = {v.min}
    BY <1>1, <2>2
  <2> QED BY <1>2, <1>4, <2>3, FS_Singleton DEF DiscretePoints
<1>5. CASE v.points = {} /\ ~IsPoint(v)
  BY <1>2, <1>5 DEF DiscretePoints
<1> QED BY <1>3, <1>4, <1>5

LEMMA RangeEncloses ==
  ASSUME NEW lo \in Fractions, NEW hi \in Fractions, NEW E, Numbers(E),
         \A x \in E : Leq(lo, x) /\ Leq(x, hi)
  PROVE  Encloses(RangeValue(lo, hi), E)
BY DEF Encloses, Within, RangeValue, MakeValue

LEMMA PointEncloses ==
  ASSUME NEW x \in Fractions
  PROVE  Encloses(PointValue(x), {x})
BY Ordered DEF Encloses, Within, Numbers, PointValue, MakeValue

\* DiscreteValue of at least one number is a point or the set of them all (parse.go:60-101).
LEMMA DiscreteEncloses ==
  ASSUME NEW E, Numbers(E), IsFiniteSet(E)
  PROVE  Encloses(DiscreteValue(E), E)
<1>1. CASE Cardinality(E) = 1
  <2>1. PICK x : E = {x}
    BY <1>1, FS_Singleton
  <2>2. (CHOOSE y \in E : TRUE) = x /\ x \in Fractions
    BY <2>1 DEF Numbers
  <2>3. DiscreteValue(E) = PointValue(x)
    BY <1>1, <2>2 DEF DiscreteValue
  <2> QED BY <2>1, <2>2, <2>3, PointEncloses
<1>2. CASE Cardinality(E) # 1
  <2>1. Cardinality(E) \in Nat /\ Cardinality(E) >= 2
    <3>1. Cardinality(E) \in Nat /\ Cardinality(E) # 0
      BY FS_CardinalityType, FS_EmptySet DEF Numbers
    <3> QED BY <1>2, <3>1
  <2>2. DiscreteValue(E) = MakeValue(0, Least(E), Greatest(E), E)
    BY <1>2 DEF DiscreteValue
  <2>3. /\ Least(E) \in Fractions /\ Greatest(E) \in Fractions
        /\ \A x \in E : Leq(Least(E), x) /\ Leq(x, Greatest(E))
    BY HasExtremes DEF Numbers
  <2> QED BY <2>1, <2>2, <2>3 DEF Encloses, Within, MakeValue
<1> QED BY <1>1, <1>2

LEMMA PairsAreFinite ==
  ASSUME NEW A, IsFiniteSet(A), NEW B, IsFiniteSet(B), NEW T, NEW f, f = [p \in A \X B |-> f[p]],
         \A x \in A, y \in B : f[<<x, y>>] \in T,
         \A z \in T : \E x \in A, y \in B : z = f[<<x, y>>]
  PROVE  IsFiniteSet(T)
<1>1. IsFiniteSet(A \X B)
  BY FS_Product
<1>2. \A p \in A \X B : f[p] \in T
  <2>1. \A p \in A \X B : p = <<p[1], p[2]>> /\ p[1] \in A /\ p[2] \in B
    OBVIOUS
  <2> QED BY <2>1
<1>3. f \in [A \X B -> T]
  BY <1>2
<1>4. \A z \in T : \E p \in A \X B : f[p] = z
  <2> TAKE z \in T
  <2>1. PICK x \in A, y \in B : z = f[<<x, y>>]
    OBVIOUS
  <2>2. <<x, y>> \in A \X B /\ f[<<x, y>>] = z
    BY <2>1
  <2> QED BY <2>2
<1> QED BY <1>1, <1>3, <1>4, ImageIsFinite

\* The numbers that an operation makes of a pair of numbers.
Sums(A, B)        == {Add(x, y) : x \in A, y \in B}
Differences(A, B) == {Sub(x, y) : x \in A, y \in B}
Products(A, B)    == {Mul(x, y) : x \in A, y \in B}
Quotients(A, B)   == {Quo(x, y) : x \in A, y \in B}
Inverses(A)       == {Inv(x) : x \in A}
Negatives(A)      == {Neg(x) : x \in A}
Powers(A, n)      == {Power(x, n) : x \in A}

LEMMA PairwiseNumbers ==
  ASSUME NEW A, NEW B, Numbers(A), Numbers(B)
  PROVE  /\ Numbers(Sums(A, B)) /\ Numbers(Differences(A, B)) /\ Numbers(Products(A, B))
         /\ IsFiniteSet(A) /\ IsFiniteSet(B) =>
              /\ IsFiniteSet(Sums(A, B)) /\ IsFiniteSet(Differences(A, B))
              /\ IsFiniteSet(Products(A, B)) /\ IsFiniteSet(Quotients(A, B))
<1>1. PICK u \in A, w \in B : TRUE
  BY DEF Numbers
<1>2. \A x \in A, y \in B : x \in Fractions /\ y \in Fractions
  BY DEF Numbers
<1>3. Numbers(Sums(A, B))
  <2>1. \A x \in A, y \in B : Add(x, y) \in Fractions
    BY <1>2, AddIs
  <2>2. Add(u, w) \in Sums(A, B)
    BY DEF Sums
  <2> QED BY <2>1, <2>2 DEF Numbers, Sums
<1>4. Numbers(Differences(A, B))
  <2>1. \A x \in A, y \in B : Sub(x, y) \in Fractions
    BY <1>2, SubIs
  <2>2. Sub(u, w) \in Differences(A, B)
    BY DEF Differences
  <2> QED BY <2>1, <2>2 DEF Numbers, Differences
<1>5. Numbers(Products(A, B))
  <2>1. \A x \in A, y \in B : Mul(x, y) \in Fractions
    BY <1>2, MulIs
  <2>2. Mul(u, w) \in Products(A, B)
    BY DEF Products
  <2> QED BY <2>1, <2>2 DEF Numbers, Products
<1>6. ASSUME IsFiniteSet(A), IsFiniteSet(B)
      PROVE  /\ IsFiniteSet(Sums(A, B)) /\ IsFiniteSet(Differences(A, B))
             /\ IsFiniteSet(Products(A, B)) /\ IsFiniteSet(Quotients(A, B))
  <2>1. IsFiniteSet(Sums(A, B))
    <3> DEFINE f == [p \in A \X B |-> Add(p[1], p[2])]
    <3>1. f = [p \in A \X B |-> f[p]]
      OBVIOUS
    <3>2. ASSUME NEW x \in A, NEW y \in B
          PROVE  f[<<x, y>>] = Add(x, y) /\ Add(x, y) \in Sums(A, B)
      BY DEF Sums
    <3>3. ASSUME NEW z \in Sums(A, B)
          PROVE  \E x \in A, y \in B : z = f[<<x, y>>]
      <4>1. PICK x \in A, y \in B : z = Add(x, y)
        BY DEF Sums
      <4>2. z = f[<<x, y>>]
        BY <3>2, <4>1
      <4> QED BY <4>2
    <3> HIDE DEF f
    <3>4. \A x \in A, y \in B : f[<<x, y>>] \in Sums(A, B)
      <4> TAKE x \in A, y \in B
      <4>1. f[<<x, y>>] = Add(x, y) /\ Add(x, y) \in Sums(A, B)
        BY <3>2
      <4> QED BY <4>1
    <3> QED BY <1>6, <3>1, <3>3, <3>4, PairsAreFinite
  <2>2. IsFiniteSet(Differences(A, B))
    <3> DEFINE f == [p \in A \X B |-> Sub(p[1], p[2])]
    <3>1. f = [p \in A \X B |-> f[p]]
      OBVIOUS
    <3>2. ASSUME NEW x \in A, NEW y \in B
          PROVE  f[<<x, y>>] = Sub(x, y) /\ Sub(x, y) \in Differences(A, B)
      BY DEF Differences
    <3>3. ASSUME NEW z \in Differences(A, B)
          PROVE  \E x \in A, y \in B : z = f[<<x, y>>]
      <4>1. PICK x \in A, y \in B : z = Sub(x, y)
        BY DEF Differences
      <4>2. z = f[<<x, y>>]
        BY <3>2, <4>1
      <4> QED BY <4>2
    <3> HIDE DEF f
    <3>4. \A x \in A, y \in B : f[<<x, y>>] \in Differences(A, B)
      <4> TAKE x \in A, y \in B
      <4>1. f[<<x, y>>] = Sub(x, y) /\ Sub(x, y) \in Differences(A, B)
        BY <3>2
      <4> QED BY <4>1
    <3> QED BY <1>6, <3>1, <3>3, <3>4, PairsAreFinite
  <2>3. IsFiniteSet(Products(A, B))
    <3> DEFINE f == [p \in A \X B |-> Mul(p[1], p[2])]
    <3>1. f = [p \in A \X B |-> f[p]]
      OBVIOUS
    <3>2. ASSUME NEW x \in A, NEW y \in B
          PROVE  f[<<x, y>>] = Mul(x, y) /\ Mul(x, y) \in Products(A, B)
      BY DEF Products
    <3>3. ASSUME NEW z \in Products(A, B)
          PROVE  \E x \in A, y \in B : z = f[<<x, y>>]
      <4>1. PICK x \in A, y \in B : z = Mul(x, y)
        BY DEF Products
      <4>2. z = f[<<x, y>>]
        BY <3>2, <4>1
      <4> QED BY <4>2
    <3> HIDE DEF f
    <3>4. \A x \in A, y \in B : f[<<x, y>>] \in Products(A, B)
      <4> TAKE x \in A, y \in B
      <4>1. f[<<x, y>>] = Mul(x, y) /\ Mul(x, y) \in Products(A, B)
        BY <3>2
      <4> QED BY <4>1
    <3> QED BY <1>6, <3>1, <3>3, <3>4, PairsAreFinite
  <2>4. IsFiniteSet(Quotients(A, B))
    <3> DEFINE f == [p \in A \X B |-> Quo(p[1], p[2])]
    <3>1. f = [p \in A \X B |-> f[p]]
      OBVIOUS
    <3>2. ASSUME NEW x \in A, NEW y \in B
          PROVE  f[<<x, y>>] = Quo(x, y) /\ Quo(x, y) \in Quotients(A, B)
      BY DEF Quotients
    <3>3. ASSUME NEW z \in Quotients(A, B)
          PROVE  \E x \in A, y \in B : z = f[<<x, y>>]
      <4>1. PICK x \in A, y \in B : z = Quo(x, y)
        BY DEF Quotients
      <4>2. z = f[<<x, y>>]
        BY <3>2, <4>1
      <4> QED BY <4>2
    <3> HIDE DEF f
    <3>4. \A x \in A, y \in B : f[<<x, y>>] \in Quotients(A, B)
      <4> TAKE x \in A, y \in B
      <4>1. f[<<x, y>>] = Quo(x, y) /\ Quo(x, y) \in Quotients(A, B)
        BY <3>2
      <4> QED BY <4>1
    <3> QED BY <1>6, <3>1, <3>3, <3>4, PairsAreFinite
  <2> QED BY <2>1, <2>2, <2>3, <2>4
<1> QED BY <1>3, <1>4, <1>5, <1>6

LEMMA SingleImages ==
  ASSUME NEW A, Numbers(A), IsFiniteSet(A)
  PROVE  /\ IsFiniteSet(Negatives(A)) /\ IsFiniteSet(Inverses(A))
         /\ \A n \in Int : IsFiniteSet(Powers(A, n))
<1>1. IsFiniteSet(Negatives(A))
  <2> DEFINE f == [x \in A |-> Neg(x)]
  <2>1. f \in [A -> Negatives(A)] /\ \A y \in Negatives(A) : \E x \in A : f[x] = y
    BY DEF Negatives
  <2> HIDE DEF f
  <2> QED BY <2>1, ImageIsFinite
<1>2. IsFiniteSet(Inverses(A))
  <2> DEFINE f == [x \in A |-> Inv(x)]
  <2>1. f \in [A -> Inverses(A)] /\ \A y \in Inverses(A) : \E x \in A : f[x] = y
    BY DEF Inverses
  <2> HIDE DEF f
  <2> QED BY <2>1, ImageIsFinite
<1>3. ASSUME NEW n \in Int PROVE IsFiniteSet(Powers(A, n))
  <2> DEFINE f == [x \in A |-> Power(x, n)]
  <2>1. f \in [A -> Powers(A, n)] /\ \A y \in Powers(A, n) : \E x \in A : f[x] = y
    BY DEF Powers
  <2> HIDE DEF f
  <2> QED BY <2>1, ImageIsFinite
<1> QED BY <1>1, <1>2, <1>3

-----------------------------------------------------------------------------
(* Sums, differences and negatives. *)

\* Where an operation takes all pairs, it takes those of the numbers meant.
LEMMA BothAreDiscrete ==
  ASSUME NEW a, NEW A, Encloses(a, A), NEW b, NEW B, Encloses(b, B), NEW each, BothDiscrete(a, b, each)
  PROVE  /\ DiscretePoints(a) = A /\ IsFiniteSet(A)
         /\ DiscretePoints(b) = B /\ IsFiniteSet(B)
<1>1. /\ IsFiniteSet(DiscretePoints(a)) /\ (DiscretePoints(a) # {} => DiscretePoints(a) = A)
      /\ IsFiniteSet(DiscretePoints(b)) /\ (DiscretePoints(b) # {} => DiscretePoints(b) = B)
  BY EnclosesMeans, FS_EmptySet
<1>2. Cardinality(DiscretePoints(a)) * Cardinality(DiscretePoints(b)) > 0
  BY DEF BothDiscrete
<1>3. /\ Cardinality(DiscretePoints(a)) \in Nat /\ Cardinality(DiscretePoints(b)) \in Nat
  BY <1>1, FS_CardinalityType
<1>4. Cardinality(DiscretePoints(a)) # 0 /\ Cardinality(DiscretePoints(b)) # 0
  BY <1>2, <1>3
<1> QED BY <1>1, <1>4, FS_EmptySet

LEMMA EnclosedNumbers ==
  ASSUME NEW v, NEW E, Encloses(v, E)
  PROVE  /\ Numbers(E) /\ v.min \in Fractions /\ v.max \in Fractions
         /\ v.kind = "value" /\ v.inf = 0
         /\ \A x \in E : x \in Fractions /\ Leq(v.min, x) /\ Leq(x, v.max)
BY DEF Encloses, Within, Numbers

\* valAdd (expr.go:342).
LEMMA AddEncloses ==
  ASSUME NEW a, NEW A, Encloses(a, A), NEW b, NEW B, Encloses(b, B)
  PROVE  Encloses(valAdd(a, b), Sums(A, B))
<1>1. Numbers(A) /\ Numbers(B) /\ Numbers(Sums(A, B))
  BY EnclosedNumbers, PairwiseNumbers
<1>2. CASE BothDiscrete(a, b, 1)
  <2>1. IsFiniteSet(Sums(A, B))
    BY <1>1, <1>2, BothAreDiscrete, PairwiseNumbers
  <2>2. valAdd(a, b) = DiscreteValue(Sums(A, B))
    BY <1>2, BothAreDiscrete DEF valAdd, Pairwise, Sums
  <2> QED BY <1>1, <2>1, <2>2, DiscreteEncloses
<1>3. CASE ~BothDiscrete(a, b, 1)
  <2>1. Add(a.min, b.min) \in Fractions /\ Add(a.max, b.max) \in Fractions
    BY EnclosedNumbers, AddIs
  <2>2. \A z \in Sums(A, B) : Leq(Add(a.min, b.min), z) /\ Leq(z, Add(a.max, b.max))
    BY EnclosedNumbers, AddKeepsOrder DEF Sums
  <2> QED BY <1>1, <1>3, <2>1, <2>2, RangeEncloses DEF valAdd
<1> QED BY <1>2, <1>3

\* valSub (expr.go:356).
LEMMA SubEncloses ==
  ASSUME NEW a, NEW A, Encloses(a, A), NEW b, NEW B, Encloses(b, B)
  PROVE  Encloses(valSub(a, b), Differences(A, B))
<1>1. Numbers(A) /\ Numbers(B) /\ Numbers(Differences(A, B))
  BY EnclosedNumbers, PairwiseNumbers
<1>2. CASE BothDiscrete(a, b, 1)
  <2>1. IsFiniteSet(Differences(A, B))
    BY <1>1, <1>2, BothAreDiscrete, PairwiseNumbers
  <2>2. valSub(a, b) = DiscreteValue(Differences(A, B))
    BY <1>2, BothAreDiscrete DEF valSub, Pairwise, Differences
  <2> QED BY <1>1, <2>1, <2>2, DiscreteEncloses
<1>3. CASE ~BothDiscrete(a, b, 1)
  <2>1. Sub(a.min, b.max) \in Fractions /\ Sub(a.max, b.min) \in Fractions
    BY EnclosedNumbers, SubIs
  <2>2. \A z \in Differences(A, B) : Leq(Sub(a.min, b.max), z) /\ Leq(z, Sub(a.max, b.min))
    BY EnclosedNumbers, SubIs DEF Differences
  <2> QED BY <1>1, <1>3, <2>1, <2>2, RangeEncloses DEF valSub
<1> QED BY <1>2, <1>3

\* The range of a plus-minus needs a right side that is not negative.
LEMMA PlusMinusEncloses ==
  ASSUME NEW a, NEW A, Encloses(a, A), NEW b, NEW B, Encloses(b, B), Leq(Zero, b.min)
  PROVE  Encloses(valPlusMinus(a, b), Sums(A, B) \cup Differences(A, B))
<1> DEFINE E == Sums(A, B) \cup Differences(A, B)
<1>1. Numbers(A) /\ Numbers(B) /\ Numbers(E)
  <2>1. Numbers(A) /\ Numbers(B)
    BY EnclosedNumbers
  <2>2. Numbers(Sums(A, B)) /\ Numbers(Differences(A, B))
    BY <2>1, PairwiseNumbers
  <2> QED BY <2>1, <2>2 DEF Numbers
<1>2. CASE BothDiscrete(a, b, 2)
  <2>1. IsFiniteSet(E)
    BY <1>1, <1>2, BothAreDiscrete, PairwiseNumbers, FS_Union
  <2>2. valPlusMinus(a, b) = DiscreteValue(E)
    <3>1. Differences(A, B) \cup Sums(A, B) = E
      OBVIOUS
    <3>2. valPlusMinus(a, b) = DiscreteValue(Differences(A, B) \cup Sums(A, B))
      BY <1>2, BothAreDiscrete DEF valPlusMinus, Pairwise, Differences, Sums
    <3> QED BY <3>1, <3>2
  <2> HIDE DEF E
  <2>3. Encloses(DiscreteValue(E), E)
    BY <1>1, <2>1, DiscreteEncloses
  <2> QED BY <2>2, <2>3 DEF E
<1>3. CASE ~BothDiscrete(a, b, 2)
  <2>1. Sub(a.min, b.max) \in Fractions /\ Add(a.max, b.max) \in Fractions
    BY EnclosedNumbers, SubIs, AddIs
  <2>2. ASSUME NEW x \in A, NEW y \in B
        PROVE  /\ Leq(Sub(a.min, b.max), Add(x, y)) /\ Leq(Add(x, y), Add(a.max, b.max))
               /\ Leq(Sub(a.min, b.max), Sub(x, y)) /\ Leq(Sub(x, y), Add(a.max, b.max))
    <3>1. /\ a.min \in Fractions /\ a.max \in Fractions /\ b.min \in Fractions /\ b.max \in Fractions
          /\ x \in Fractions /\ y \in Fractions /\ Leq(a.min, x) /\ Leq(x, a.max)
          /\ Leq(b.min, y) /\ Leq(y, b.max)
      BY EnclosedNumbers
    <3>2. Leq(Zero, y) /\ Leq(Zero, b.max) /\ Leq(Neg(y), y) /\ Leq(Neg(b.max), b.max)
          /\ Neg(y) \in Fractions /\ Neg(b.max) \in Fractions
      BY <3>1, ZeroIs, Ordered, NegIs
    <3>3. Leq(Neg(b.max), y) /\ Leq(Neg(y), b.max)
      <4>1. Leq(Neg(b.max), Neg(y))
        BY <3>1, NegIs
      <4> QED BY <3>1, <3>2, <4>1, Ordered
    <3> QED BY <3>1, <3>2, <3>3, AddKeepsOrder, SubIs DEF Sub
  <2>3. \A z \in E : Leq(Sub(a.min, b.max), z) /\ Leq(z, Add(a.max, b.max))
    BY <2>2 DEF Sums, Differences
  <2>4. valPlusMinus(a, b) = RangeValue(Sub(a.min, b.max), Add(a.max, b.max))
    BY <1>3 DEF valPlusMinus
  <2> HIDE DEF E
  <2>5. Encloses(RangeValue(Sub(a.min, b.max), Add(a.max, b.max)), E)
    BY <1>1, <2>1, <2>3, RangeEncloses
  <2> QED BY <2>4, <2>5 DEF E
<1> QED BY <1>2, <1>3

\* valNeg.
LEMMA NegEncloses ==
  ASSUME NEW v, NEW E, Encloses(v, E)
  PROVE  Encloses(valNeg(v), Negatives(E))
<1>1. Numbers(E) /\ Numbers(Negatives(E))
  <2>1. Numbers(E)
    BY EnclosedNumbers
  <2> QED BY <2>1, NegIs DEF Numbers, Negatives
<1>2. CASE v.points # {}
  <2>1. v.points = E /\ IsFiniteSet(E)
    BY <1>2 DEF Encloses
  <2>2. valNeg(v) = DiscreteValue(Negatives(E)) /\ IsFiniteSet(Negatives(E))
    BY <1>1, <1>2, <2>1, SingleImages DEF valNeg, Negatives
  <2> QED BY <1>1, <2>2, DiscreteEncloses
<1>3. CASE v.points = {}
  <2>1. Neg(v.max) \in Fractions /\ Neg(v.min) \in Fractions
    BY EnclosedNumbers, NegIs
  <2>2. \A z \in Negatives(E) : Leq(Neg(v.max), z) /\ Leq(z, Neg(v.min))
    BY EnclosedNumbers, NegIs DEF Negatives
  <2>3. valNeg(v) = RangeValue(Neg(v.max), Neg(v.min))
    BY <1>3 DEF valNeg
  <2> QED BY <1>1, <2>1, <2>2, <2>3, RangeEncloses
<1> QED BY <1>2, <1>3
-----------------------------------------------------------------------------
(* Products and quotients. *)

\* A product is between those with the ends, whatever the signs.
LEMMA ProductBetween ==
  ASSUME NEW lo \in Fractions, NEW hi \in Fractions, NEW x \in Fractions, NEW y \in Fractions,
         Leq(lo, x), Leq(x, hi)
  PROVE  \/ Leq(Mul(lo, y), Mul(x, y)) /\ Leq(Mul(x, y), Mul(hi, y))
         \/ Leq(Mul(hi, y), Mul(x, y)) /\ Leq(Mul(x, y), Mul(lo, y))
<1>1. Leq(Zero, y) \/ Leq(y, Zero)
  BY Ordered, ZeroIs
<1>2. CASE Leq(Zero, y)
  BY <1>2, MulKeepsOrder
<1>3. CASE Leq(y, Zero)
  BY <1>3, MulKeepsOrder
<1> QED BY <1>1, <1>2, <1>3

\* A product lies between two of the four products of the ends.
LEMMA ProductInCorners ==
  ASSUME NEW lo \in Fractions, NEW hi \in Fractions, NEW x \in Fractions, Leq(lo, x), Leq(x, hi),
         NEW low \in Fractions, NEW high \in Fractions, NEW y \in Fractions, Leq(low, y), Leq(y, high)
  PROVE  \E p, q \in {Mul(s, t) : s \in {lo, hi}, t \in {low, high}} :
           Leq(p, Mul(x, y)) /\ Leq(Mul(x, y), q)
<1> DEFINE C == {Mul(s, t) : s \in {lo, hi}, t \in {low, high}}
<1>1. /\ Mul(lo, low) \in C /\ Mul(lo, high) \in C /\ Mul(hi, low) \in C /\ Mul(hi, high) \in C
  OBVIOUS
<1>2. /\ Mul(lo, low) \in Fractions /\ Mul(lo, high) \in Fractions
      /\ Mul(hi, low) \in Fractions /\ Mul(hi, high) \in Fractions
      /\ Mul(lo, y) \in Fractions /\ Mul(hi, y) \in Fractions /\ Mul(x, y) \in Fractions
      /\ Mul(lo, low) = Mul(low, lo) /\ Mul(lo, high) = Mul(high, lo) /\ Mul(lo, y) = Mul(y, lo)
      /\ Mul(hi, low) = Mul(low, hi) /\ Mul(hi, high) = Mul(high, hi) /\ Mul(hi, y) = Mul(y, hi)
  BY MulIs
<1>3. \/ Leq(Mul(low, lo), Mul(y, lo)) /\ Leq(Mul(y, lo), Mul(high, lo))
      \/ Leq(Mul(high, lo), Mul(y, lo)) /\ Leq(Mul(y, lo), Mul(low, lo))
  BY ProductBetween
<1>4. \/ Leq(Mul(low, hi), Mul(y, hi)) /\ Leq(Mul(y, hi), Mul(high, hi))
      \/ Leq(Mul(high, hi), Mul(y, hi)) /\ Leq(Mul(y, hi), Mul(low, hi))
  BY ProductBetween
<1>5. \E p, q \in C : Leq(p, Mul(lo, y)) /\ Leq(Mul(lo, y), q)
  <2> HIDE DEF C
  <2> QED BY <1>1, <1>2, <1>3
<1>6. \E p, q \in C : Leq(p, Mul(hi, y)) /\ Leq(Mul(hi, y), q)
  <2> HIDE DEF C
  <2> QED BY <1>1, <1>2, <1>4
<1>7. C \subseteq Fractions
  BY <1>2
<1>8. \/ Leq(Mul(lo, y), Mul(x, y)) /\ Leq(Mul(x, y), Mul(hi, y))
      \/ Leq(Mul(hi, y), Mul(x, y)) /\ Leq(Mul(x, y), Mul(lo, y))
  BY ProductBetween
<1> HIDE DEF C
<1>9. \E p, q \in C : Leq(p, Mul(x, y)) /\ Leq(Mul(x, y), q)
  <2>1. PICK p1, q1 \in C : Leq(p1, Mul(lo, y)) /\ Leq(Mul(lo, y), q1)
    BY <1>5
  <2>2. PICK p2, q2 \in C : Leq(p2, Mul(hi, y)) /\ Leq(Mul(hi, y), q2)
    BY <1>6
  <2>3. p1 \in Fractions /\ q1 \in Fractions /\ p2 \in Fractions /\ q2 \in Fractions
    BY <1>7
  <2>4. CASE Leq(Mul(lo, y), Mul(x, y)) /\ Leq(Mul(x, y), Mul(hi, y))
    <3>1. Leq(p1, Mul(x, y)) /\ Leq(Mul(x, y), q2)
      BY <1>2, <2>1, <2>2, <2>3, <2>4, Ordered
    <3> QED BY <3>1
  <2>5. CASE Leq(Mul(hi, y), Mul(x, y)) /\ Leq(Mul(x, y), Mul(lo, y))
    <3>1. Leq(p2, Mul(x, y)) /\ Leq(Mul(x, y), q1)
      BY <1>2, <2>1, <2>2, <2>3, <2>5, Ordered
    <3> QED BY <3>1
  <2> QED BY <1>8, <2>4, <2>5
<1> QED BY <1>9 DEF C

\* valMul: the least and the greatest of the four corners.
LEMMA MulEncloses ==
  ASSUME NEW a, NEW A, Encloses(a, A), NEW b, NEW B, Encloses(b, B)
  PROVE  Encloses(valMul(a, b), Products(A, B))
<1>1. Numbers(A) /\ Numbers(B) /\ Numbers(Products(A, B))
  BY EnclosedNumbers, PairwiseNumbers
<1>2. CASE BothDiscrete(a, b, 1)
  <2>1. IsFiniteSet(Products(A, B))
    BY <1>1, <1>2, BothAreDiscrete, PairwiseNumbers
  <2>2. valMul(a, b) = DiscreteValue(Products(A, B))
    BY <1>2, BothAreDiscrete DEF valMul, Pairwise, Products
  <2> QED BY <1>1, <2>1, <2>2, DiscreteEncloses
<1>3. CASE ~BothDiscrete(a, b, 1)
  <2> DEFINE S == {a.min, a.max}
             T == {b.min, b.max}
             C == {Mul(x, y) : x \in S, y \in T}
  <2>1. /\ Numbers(S) /\ Numbers(T) /\ IsFiniteSet(S) /\ IsFiniteSet(T)
    <3>1. /\ a.min \in Fractions /\ a.max \in Fractions /\ b.min \in Fractions /\ b.max \in Fractions
      BY EnclosedNumbers
    <3>2. IsFiniteSet(S) /\ IsFiniteSet(T)
      BY <3>1, PairExtremes
    <3> QED BY <3>1, <3>2 DEF Numbers
  <2>2. C = Products(S, T)
    BY DEF Products
  <2>3. valMul(a, b) = RangeValue(Least(C), Greatest(C))
    BY <1>3 DEF valMul
  <2>4. \A x \in A, y \in B : \E p, q \in C : Leq(p, Mul(x, y)) /\ Leq(Mul(x, y), q)
    <3> TAKE x \in A, y \in B
    <3>1. /\ a.min \in Fractions /\ a.max \in Fractions /\ b.min \in Fractions /\ b.max \in Fractions
          /\ x \in Fractions /\ y \in Fractions
          /\ Leq(a.min, x) /\ Leq(x, a.max) /\ Leq(b.min, y) /\ Leq(y, b.max)
      BY EnclosedNumbers
    <3> QED BY <3>1, ProductInCorners
  <2> HIDE DEF S, T, C
  <2>5. IsFiniteSet(C) /\ Numbers(C)
    BY <2>1, <2>2, PairwiseNumbers
  <2>6. /\ Least(C) \in Fractions /\ Greatest(C) \in Fractions
        /\ \A y \in C : y \in Fractions /\ Leq(Least(C), y) /\ Leq(y, Greatest(C))
    BY <2>5, HasExtremes DEF Numbers
  <2>7. ASSUME NEW x \in A, NEW y \in B
        PROVE  Leq(Least(C), Mul(x, y)) /\ Leq(Mul(x, y), Greatest(C))
    <3>1. PICK p, q \in C : Leq(p, Mul(x, y)) /\ Leq(Mul(x, y), q)
      BY <2>4
    <3>2. Mul(x, y) \in Fractions
      BY <1>1, MulIs DEF Numbers
    <3> QED BY <2>6, <3>1, <3>2, Ordered
  <2>8. \A z \in Products(A, B) : Leq(Least(C), z) /\ Leq(z, Greatest(C))
    BY <2>7 DEF Products
  <2> QED BY <1>1, <2>3, <2>6, <2>8, RangeEncloses
<1> QED BY <1>2, <1>3

\* The inverses of a range that is on one side of zero.
LEMMA InvEncloses ==
  ASSUME NEW v, NEW E, Encloses(v, E), ~SpansZero(v)
  PROVE  /\ Encloses(RangeValue(Inv(v.max), Inv(v.min)), Inverses(E))
         /\ Zero \notin E /\ Zero \notin {v.min, v.max}
<1>1. /\ Numbers(E) /\ v.min \in Fractions /\ v.max \in Fractions /\ Zero \in Fractions
      /\ \A x \in E : x \in Fractions /\ Leq(v.min, x) /\ Leq(x, v.max)
      /\ Leq(v.min, v.max)
  BY EnclosedNumbers, EnclosesMeans, ZeroIs
<1>2. ~Leq(v.min, Zero) \/ ~Leq(Zero, v.max)
  BY DEF SpansZero
<1>3. Zero \notin E /\ v.min # Zero /\ v.max # Zero
  BY <1>1, <1>2, Ordered
<1>4. ASSUME NEW x \in E
      PROVE  Inv(x) \in Fractions /\ Leq(Inv(v.max), Inv(x)) /\ Leq(Inv(x), Inv(v.min))
  <2>1. /\ ~Leq(v.min, Zero) \/ ~Leq(Zero, x)
        /\ ~Leq(x, Zero) \/ ~Leq(Zero, v.max)
    BY <1>1, <1>2, Ordered
  <2> QED BY <1>1, <1>3, <2>1, InvIs, InvFlips
<1>5. Inv(v.min) \in Fractions /\ Inv(v.max) \in Fractions
  BY <1>1, <1>3, InvIs
<1>6. Numbers(Inverses(E)) /\ \A z \in Inverses(E) : Leq(Inv(v.max), z) /\ Leq(z, Inv(v.min))
  BY <1>1, <1>4 DEF Numbers, Inverses
<1> QED BY <1>3, <1>5, <1>6, RangeEncloses

\* valDiv: it refuses a right side around zero, and then Inv never panics.
LEMMA DivEncloses ==
  ASSUME NEW a, NEW A, Encloses(a, A), NEW b, NEW B, Encloses(b, B)
  PROVE  \/ valDiv(a, b).kind = "error"
         \/ Encloses(valDiv(a, b), Quotients(A, B)) /\ Zero \notin B
<1>1. CASE SpansZero(b)
  BY <1>1 DEF valDiv, Error, NoValue, MakeValue
<1>2. CASE ~SpansZero(b)
  <2> DEFINE w == RangeValue(Inv(b.max), Inv(b.min))
  <2>1. Encloses(w, Inverses(B)) /\ Zero \notin B /\ Zero \notin {b.min, b.max}
    BY <1>2, InvEncloses
  <2>2. Quotients(A, B) = Products(A, Inverses(B))
    BY DEF Quotients, Products, Inverses, Quo
  <2>3. Numbers(Quotients(A, B)) /\ Numbers(A) /\ Numbers(B)
    BY <2>1, <2>2, EnclosedNumbers, PairwiseNumbers
  <2>4. CASE BothDiscrete(a, b, 1)
    <3>1. IsFiniteSet(Quotients(A, B))
      BY <2>3, <2>4, BothAreDiscrete, PairwiseNumbers
    <3>2. valDiv(a, b) = DiscreteValue(Quotients(A, B))
      BY <1>2, <2>4, BothAreDiscrete DEF valDiv, Pairwise, Quotients
    <3> QED BY <2>1, <2>3, <3>1, <3>2, DiscreteEncloses
  <2>5. CASE ~BothDiscrete(a, b, 1)
    <3>1. valDiv(a, b) = valMul(a, w)
      BY <1>2, <2>1, <2>5 DEF valDiv
    <3> HIDE DEF w
    <3> QED BY <2>1, <2>2, <3>1, MulEncloses
  <2> QED BY <2>4, <2>5
<1> QED BY <1>1, <1>2
-----------------------------------------------------------------------------
(* Powers and factorials. *)

LEMMA PowersAre ==
  ASSUME NEW E, Numbers(E), NEW n \in Nat
  PROVE  Numbers(Powers(E, n)) /\ (n # 0 => Powers(E, -n) = Inverses(Powers(E, n)))
<1>1. \A x \in E : x \in Fractions
  BY DEF Numbers
<1>2. \A x \in E : Power(x, n) \in Fractions /\ (n # 0 => Power(x, -n) = Inv(Power(x, n)))
  BY <1>1, PowerIs
<1>3. Numbers(Powers(E, n))
  BY <1>2 DEF Numbers, Powers
<1>4. ASSUME n # 0 PROVE Powers(E, -n) = Inverses(Powers(E, n))
  BY <1>2, <1>4 DEF Powers, Inverses
<1> QED BY <1>3, <1>4

\* The range that valPow makes of a range for an exponent that is positive.
Raised(v, k) ==
  IF k % 2 = 0 /\ Less(v.min, Zero) /\ Less(Zero, v.max)
  THEN RangeValue(Zero, Greatest({Power(v.min, k), Power(v.max, k)}))
  ELSE RangeValue(Least({Power(v.min, k), Power(v.max, k)}), Greatest({Power(v.min, k), Power(v.max, k)}))

\* The range that an even power turns around zero begins there.
LEMMA RaisedEncloses ==
  ASSUME NEW v, NEW E, Encloses(v, E), NEW k \in Nat
  PROVE  Encloses(Raised(v, k), Powers(E, k))
<1> DEFINE lo == Power(v.min, k)
           hi == Power(v.max, k)
<1>1. /\ Numbers(E) /\ v.min \in Fractions /\ v.max \in Fractions /\ Zero \in Fractions
      /\ \A x \in E : x \in Fractions /\ Leq(v.min, x) /\ Leq(x, v.max)
  BY EnclosedNumbers, ZeroIs
<1>2. lo \in Fractions /\ hi \in Fractions /\ \A x \in E : Power(x, k) \in Fractions
  BY <1>1, PowerIs
<1>3. ASSUME NEW x \in E
      PROVE  IF k % 2 = 0 /\ Less(v.min, Zero) /\ Less(Zero, v.max)
             THEN Leq(Zero, Power(x, k)) /\ (Leq(Power(x, k), lo) \/ Leq(Power(x, k), hi))
             ELSE \/ Leq(lo, Power(x, k)) /\ Leq(Power(x, k), hi)
                  \/ Leq(hi, Power(x, k)) /\ Leq(Power(x, k), lo)
  BY <1>1, PowerBetween
<1> HIDE DEF lo, hi
<1>4. /\ Least({lo, hi}) \in Fractions /\ Leq(Least({lo, hi}), lo) /\ Leq(Least({lo, hi}), hi)
      /\ Greatest({lo, hi}) \in Fractions /\ Leq(lo, Greatest({lo, hi})) /\ Leq(hi, Greatest({lo, hi}))
  BY <1>2, PairExtremes
<1>5. Numbers(Powers(E, k))
  BY <1>1, PowersAre
<1>6. CASE k % 2 = 0 /\ Less(v.min, Zero) /\ Less(Zero, v.max)
  <2>1. \A x \in E : Leq(Zero, Power(x, k)) /\ Leq(Power(x, k), Greatest({lo, hi}))
    <3> TAKE x \in E
    <3>1. Leq(Zero, Power(x, k)) /\ (Leq(Power(x, k), lo) \/ Leq(Power(x, k), hi))
      BY <1>3, <1>6
    <3> QED BY <1>2, <1>4, <3>1, Ordered
  <2>2. \A z \in Powers(E, k) : Leq(Zero, z) /\ Leq(z, Greatest({lo, hi}))
    BY <2>1 DEF Powers
  <2>3. Raised(v, k) = RangeValue(Zero, Greatest({lo, hi}))
    BY <1>6 DEF Raised, lo, hi
  <2> QED BY <1>1, <1>4, <1>5, <2>2, <2>3, RangeEncloses
<1>7. CASE ~(k % 2 = 0 /\ Less(v.min, Zero) /\ Less(Zero, v.max))
  <2>1. \A x \in E : Leq(Least({lo, hi}), Power(x, k)) /\ Leq(Power(x, k), Greatest({lo, hi}))
    <3> TAKE x \in E
    <3>1. \/ Leq(lo, Power(x, k)) /\ Leq(Power(x, k), hi)
          \/ Leq(hi, Power(x, k)) /\ Leq(Power(x, k), lo)
      BY <1>3, <1>7
    <3> QED BY <1>2, <1>4, <3>1, Ordered
  <2>2. \A z \in Powers(E, k) : Leq(Least({lo, hi}), z) /\ Leq(z, Greatest({lo, hi}))
    BY <2>1 DEF Powers
  <2>3. Raised(v, k) = RangeValue(Least({lo, hi}), Greatest({lo, hi}))
    BY <1>7 DEF Raised, lo, hi
  <2> QED BY <1>4, <1>5, <2>2, <2>3, RangeEncloses
<1> QED BY <1>6, <1>7

LEMMA PowerOfInt ==
  ASSUME NEW n \in MinInt..MaxInt, n # MinInt
  PROVE  /\ n \in Int /\ (IF n < 0 THEN Negate(n) ELSE n) \in Nat
         /\ (IF n < 0 THEN Negate(n) ELSE n) = IF n < 0 THEN -n ELSE n
         /\ \A k \in Nat : \A x : ratPow(x, k) = Power(x, k)
<1>1. n \in Int
  BY ParserAssumption
<1>2. \A k \in Nat : ~(k < 0)
  OBVIOUS
<1> QED BY <1>1, <1>2 DEF Negate, ratPow

\* valPow, for every exponent but the least int64.
LEMMA PowEncloses ==
  ASSUME NEW v, NEW E, Encloses(v, E), NEW n \in MinInt..MaxInt, n # MinInt
  PROVE  \/ valPow(v, n).kind = "error"
         \/ Encloses(valPow(v, n), Powers(E, n))
<1> DEFINE k == IF n < 0 THEN Negate(n) ELSE n
           P == {ratPow(x, k) : x \in v.points}
           lo == ratPow(v.min, k)
           hi == ratPow(v.max, k)
           up == IF k % 2 = 0 /\ Less(v.min, Zero) /\ Less(Zero, v.max)
                 THEN RangeValue(Zero, Greatest({lo, hi}))
                 ELSE RangeValue(Least({lo, hi}), Greatest({lo, hi}))
<1>1. n \in Int /\ k \in Nat /\ k = (IF n < 0 THEN -n ELSE n) /\ \A x : ratPow(x, k) = Power(x, k)
  BY PowerOfInt
<1>2. Numbers(E)
  BY EnclosedNumbers
<1>3. valPow(v, n) =
        IF n = 0 THEN PointValue(One)
        ELSE IF v.points # {} THEN
          (IF n > 0 THEN DiscreteValue(P)
           ELSE IF Zero \in P THEN Error
           ELSE DiscreteValue({Inv(x) : x \in P}))
        ELSE IF n > 0 THEN up
        ELSE IF SpansZero(up) THEN Error
        ELSE RangeValue(Inv(up.max), Inv(up.min))
  BY DEF valPow
<1>4. up = Raised(v, k)
  <2>1. lo = Power(v.min, k) /\ hi = Power(v.max, k)
    BY <1>1
  <2> HIDE DEF k, lo, hi
  <2> QED BY <2>1 DEF Raised
<1>5. P = Powers(v.points, k)
  <2> HIDE DEF k
  <2> QED BY <1>1 DEF Powers
<1> HIDE DEF k, P, up
<1>6. CASE n = 0
  <2>1. Powers(E, 0) = {One}
    <3>1. \A x \in E : Power(x, 0) = One
      BY <1>2, PowerIs DEF Numbers
    <3> QED BY <1>2, <3>1 DEF Powers, Numbers
  <2> QED BY <1>3, <1>6, <2>1, ZeroIs, PointEncloses
<1>7. CASE n > 0 /\ v.points # {}
  <2>1. v.points = E /\ IsFiniteSet(E) /\ k = n
    BY <1>1, <1>7 DEF Encloses
  <2>2. Numbers(P) /\ IsFiniteSet(P) /\ P = Powers(E, n)
    BY <1>1, <1>2, <1>5, <2>1, PowersAre, SingleImages
  <2>3. valPow(v, n) = DiscreteValue(P)
    BY <1>1, <1>3, <1>7
  <2> QED BY <2>2, <2>3, DiscreteEncloses
<1>8. CASE n < 0 /\ v.points # {}
  <2>1. v.points = E /\ IsFiniteSet(E) /\ k = -n /\ k # 0 /\ n = -k
    BY <1>1, <1>8 DEF Encloses
  <2>2. Numbers(P) /\ IsFiniteSet(P) /\ P = Powers(E, k)
    BY <1>1, <1>2, <1>5, <2>1, PowersAre, SingleImages
  <2>3. Powers(E, n) = Inverses(P)
    BY <1>1, <1>2, <2>1, <2>2, PowersAre
  <2>4. CASE Zero \in P
    BY <1>1, <1>3, <1>8, <2>4 DEF Error, NoValue, MakeValue
  <2>5. CASE Zero \notin P
    <3>1. valPow(v, n) = DiscreteValue(Inverses(P))
      BY <1>1, <1>3, <1>8, <2>5 DEF Inverses
    <3>2. Numbers(Inverses(P)) /\ IsFiniteSet(Inverses(P))
      <4>1. \A x \in P : Inv(x) \in Fractions
        BY <2>2, <2>5, InvIs DEF Numbers
      <4> QED BY <2>2, <4>1, SingleImages DEF Numbers, Inverses
    <3> QED BY <2>3, <3>1, <3>2, DiscreteEncloses
  <2> QED BY <2>4, <2>5
<1>9. CASE n > 0 /\ v.points = {}
  BY <1>1, <1>3, <1>4, <1>9, RaisedEncloses
<1>10. CASE n < 0 /\ v.points = {}
  <2>1. k = -n /\ k # 0 /\ n = -k
    BY <1>1, <1>10
  <2>2. Encloses(up, Powers(E, k)) /\ Powers(E, n) = Inverses(Powers(E, k))
    BY <1>1, <1>2, <1>4, <2>1, RaisedEncloses, PowersAre
  <2>3. CASE SpansZero(up)
    BY <1>1, <1>3, <1>10, <2>3 DEF Error, NoValue, MakeValue
  <2>4. CASE ~SpansZero(up)
    <3>1. valPow(v, n) = RangeValue(Inv(up.max), Inv(up.min))
      BY <1>1, <1>3, <1>10, <2>4
    <3> QED BY <2>2, <2>4, <3>1, InvEncloses
  <2> QED BY <2>3, <2>4
<1> QED BY <1>1, <1>6, <1>7, <1>8, <1>9, <1>10

\* A finite value that is a point was written for one number.
LEMMA PointIsItsNumber ==
  ASSUME NEW v, NEW E, Encloses(v, E), IsPoint(v)
  PROVE  v.min \in Fractions /\ E = {v.min}
<1>1. /\ v.min \in Fractions /\ v.max = v.min /\ E # {}
      /\ \A x \in E : x \in Fractions /\ Leq(v.min, x) /\ Leq(x, v.max)
  BY EnclosedNumbers DEF IsPoint, Numbers
<1>2. \A x \in E : x = v.min
  BY <1>1, Ordered
<1> QED BY <1>1, <1>2

LEMMA IntIsRat ==
  ASSUME NEW x \in Fractions, IsInt(x)
  PROVE  x = Rat(x[1]) /\ x[1] \in Int
BY FractionType DEF IsInt, Rat

\* parsePow: the exponent is a point, an integer, and an int64.
LEMMA ParsePowEncloses ==
  ASSUME NEW v, NEW E, Encloses(v, E), NEW w, NEW B, Encloses(w, B), w.min # Rat(MinInt)
  PROVE  \/ parsePow(v, w).kind = "error"
         \/ Encloses(parsePow(v, w), Powers(E, w.min[1]))
<1>1. CASE ~IsPoint(w) \/ ~IsInt(w.min) \/ w.min[1] \notin MinInt..MaxInt
  BY <1>1 DEF parsePow, Error, NoValue, MakeValue
<1>2. CASE IsPoint(w) /\ IsInt(w.min) /\ w.min[1] \in MinInt..MaxInt
  <2>1. w.min[1] # MinInt
    BY <1>2, PointIsItsNumber, IntIsRat
  <2>2. parsePow(v, w) = valPow(v, w.min[1])
    BY <1>2 DEF parsePow
  <2> QED BY <1>2, <2>1, <2>2, PowEncloses
<1> QED BY <1>1, <1>2

Factorials(E) == {Rat(Factorial(x[1])) : x \in E}

\* parsePostfix: a factorial of a point.
LEMMA PostfixEncloses ==
  ASSUME NEW v, NEW E, Encloses(v, E)
  PROVE  \/ parsePostfix(v).kind = "error"
         \/ Encloses(parsePostfix(v), Factorials(E))
<1>1. CASE ~IsPoint(v) \/ ~IsInt(v.min) \/ v.min[1] < 0 \/ v.min[1] > MaxFactorial
  BY <1>1 DEF parsePostfix, Error, NoValue, MakeValue
<1>2. CASE IsPoint(v) /\ IsInt(v.min) /\ ~(v.min[1] < 0) /\ ~(v.min[1] > MaxFactorial)
  <2>1. E = {v.min} /\ v.min \in Fractions /\ v.min[1] \in Nat
    BY <1>2, PointIsItsNumber, FractionType
  <2> DEFINE f == Rat(Factorial(v.min[1]))
  <2>2. f \in Fractions
    BY <2>1, FactorialType, Whole
  <2>3. Factorials(E) = {f} /\ parsePostfix(v) = PointValue(f)
    BY <1>2, <2>1 DEF Factorials, parsePostfix
  <2> HIDE DEF f
  <2> QED BY <2>2, <2>3, PointEncloses
<1> QED BY <1>1, <1>2
-----------------------------------------------------------------------------
(* What is in braces. *)

\* The least of the least and the greatest of the greatest have all between them.
LEMMA HullEncloses ==
  ASSUME NEW I, IsFiniteSet(I), I # {}, NEW val, NEW ex,
         \A i \in I : Encloses(val[i], ex[i])
  PROVE  Encloses(RangeValue(Least({val[i].min : i \in I}), Greatest({val[i].max : i \in I})),
                  UNION {ex[i] : i \in I})
<1> DEFINE mins == {val[i].min : i \in I}
           maxs == {val[i].max : i \in I}
           E == UNION {ex[i] : i \in I}
<1>1. \A i \in I : /\ Numbers(ex[i]) /\ val[i].min \in Fractions /\ val[i].max \in Fractions
                   /\ \A x \in ex[i] : x \in Fractions /\ Leq(val[i].min, x) /\ Leq(x, val[i].max)
  BY EnclosedNumbers
<1>2. IsFiniteSet(mins) /\ IsFiniteSet(maxs)
  <2> DEFINE f == [i \in I |-> val[i].min]
             g == [i \in I |-> val[i].max]
  <2>1. f \in [I -> mins] /\ \A y \in mins : \E i \in I : f[i] = y
    OBVIOUS
  <2>2. g \in [I -> maxs] /\ \A y \in maxs : \E i \in I : g[i] = y
    OBVIOUS
  <2> HIDE DEF f, g, mins, maxs
  <2>3. IsFiniteSet(mins)
    BY <2>1, ImageIsFinite
  <2>4. IsFiniteSet(maxs)
    BY <2>2, ImageIsFinite
  <2> QED BY <2>3, <2>4
<1>3. mins # {} /\ maxs # {} /\ mins \subseteq Fractions /\ maxs \subseteq Fractions
  BY <1>1
<1>4. \A i \in I : val[i].min \in mins /\ val[i].max \in maxs
  OBVIOUS
<1>5. Numbers(E)
  <2>1. E \subseteq Fractions
    BY <1>1
  <2>2. PICK i \in I : TRUE
    OBVIOUS
  <2>3. PICK x \in ex[i] : TRUE
    BY <1>1 DEF Numbers
  <2>4. x \in E
    BY <2>3
  <2> HIDE DEF E
  <2> QED BY <2>1, <2>4 DEF Numbers
<1>6. \A x \in E : \E i \in I : x \in ex[i]
  OBVIOUS
<1> HIDE DEF mins, maxs, E
<1>7. /\ Least(mins) \in mins /\ \A y \in mins : Leq(Least(mins), y)
      /\ Greatest(maxs) \in maxs /\ \A y \in maxs : Leq(y, Greatest(maxs))
  BY <1>2, <1>3, HasExtremes
<1>8. \A x \in E : Leq(Least(mins), x) /\ Leq(x, Greatest(maxs))
  <2> TAKE x \in E
  <2>1. PICK i \in I : x \in ex[i]
    BY <1>6
  <2>2. /\ x \in Fractions /\ Leq(val[i].min, x) /\ Leq(x, val[i].max)
        /\ val[i].min \in Fractions /\ val[i].max \in Fractions
    BY <1>1, <2>1
  <2>3. Leq(Least(mins), val[i].min) /\ Leq(val[i].max, Greatest(maxs))
    BY <1>4, <1>7
  <2> QED BY <1>3, <1>7, <2>2, <2>3, Ordered
<1>9. Encloses(RangeValue(Least(mins), Greatest(maxs)), E)
  BY <1>3, <1>5, <1>7, <1>8, RangeEncloses
<1> QED BY <1>9 DEF mins, maxs, E

LEMMA UnionIsFinite ==
  ASSUME NEW I, IsFiniteSet(I), NEW ex, \A i \in I : IsFiniteSet(ex[i])
  PROVE  IsFiniteSet(UNION {ex[i] : i \in I})
<1> DEFINE S == {ex[i] : i \in I}
           f == [i \in I |-> ex[i]]
<1>1. f \in [I -> S] /\ \A y \in S : \E i \in I : f[i] = y
  OBVIOUS
<1>2. \A y \in S : IsFiniteSet(y)
  OBVIOUS
<1> HIDE DEF f, S
<1>3. IsFiniteSet(S)
  BY <1>1, ImageIsFinite
<1>4. IsFiniteSet(UNION S)
  BY <1>2, <1>3, FS_UNION
<1> QED BY <1>4 DEF S

\* tryFiniteSet of values none of which is an infinity: all their points, or what is around them.
LEMMA BracesEnclose ==
  ASSUME NEW I, IsFiniteSet(I), I # {}, NEW val, val = [i \in I |-> val[i]], NEW ex,
         \A i \in I : Encloses(val[i], ex[i])
  PROVE  Encloses(tryFiniteSet(val), UNION {ex[i] : i \in I})
<1> DEFINE V == {val[i] : i \in DOMAIN val}
           numbers == UNION {DiscretePoints(v) : v \in V}
           E == UNION {ex[i] : i \in I}
<1>1. DOMAIN val = I /\ V = {val[i] : i \in I}
  OBVIOUS
<1>2. \A i \in I : /\ val[i].inf = 0 /\ val[i].min \in Fractions /\ Numbers(ex[i])
                   /\ DiscretePoints(val[i]) # {} =>
                        DiscretePoints(val[i]) = ex[i] /\ IsFiniteSet(ex[i])
  BY EnclosedNumbers, EnclosesMeans
<1>3. Nil \notin Fractions
  <2>1. Nil[2] = 0 /\ ~(0 > 0)
    BY DEF Nil
  <2> QED BY <2>1, FractionType
<1>4. ~(\A v \in V : v.inf # 0) /\ ~(\E v \in V : v.min = Nil)
  BY <1>1, <1>2, <1>3
<1>5. tryFiniteSet(val) =
        IF \A v \in V : DiscretePoints(v) # {} THEN DiscreteValue(numbers)
        ELSE RangeValue(Least({v.min : v \in V}), Greatest({v.max : v \in V}))
  <2> HIDE DEF numbers
  <2>1. tryFiniteSet(val) =
          IF (\A v \in V : v.inf # 0) /\ DOMAIN val = {1} THEN PointValue(Nil)
          ELSE IF \E v \in V : v.min = Nil THEN Panic
          ELSE IF \A v \in V : DiscretePoints(v) # {} THEN DiscreteValue(numbers)
          ELSE RangeValue(Least({v.min : v \in V}), Greatest({v.max : v \in V}))
    BY DEF tryFiniteSet, numbers
  <2> HIDE DEF V
  <2> QED BY <1>4, <2>1
<1>6. CASE \A v \in V : DiscretePoints(v) # {}
  <2>1. \A i \in I : DiscretePoints(val[i]) = ex[i] /\ IsFiniteSet(ex[i])
    BY <1>1, <1>2, <1>6
  <2>2. numbers = E
    BY <1>1, <2>1
  <2>3. IsFiniteSet(E)
    BY <2>1, UnionIsFinite
  <2>4. Numbers(E)
    <3> DEFINE hull == RangeValue(Least({val[i].min : i \in I}), Greatest({val[i].max : i \in I}))
    <3>1. Encloses(hull, E)
      BY HullEncloses
    <3> HIDE DEF hull, E
    <3> QED BY <3>1, EnclosedNumbers
  <2> HIDE DEF V, numbers, E
  <2>5. Encloses(DiscreteValue(E), E)
    BY <2>3, <2>4, DiscreteEncloses
  <2>6. tryFiniteSet(val) = DiscreteValue(E)
    BY <1>5, <1>6, <2>2
  <2>7. Encloses(tryFiniteSet(val), E)
    BY <2>5, <2>6
  <2> QED BY <2>7 DEF E
<1>7. CASE ~(\A v \in V : DiscretePoints(v) # {})
  <2>1. {v.min : v \in V} = {val[i].min : i \in I} /\ {v.max : v \in V} = {val[i].max : i \in I}
    BY <1>1
  <2>2. Encloses(RangeValue(Least({v.min : v \in V}), Greatest({v.max : v \in V})), E)
    BY <2>1, HullEncloses
  <2> HIDE DEF V, numbers, E
  <2>3. Encloses(tryFiniteSet(val), E)
    BY <1>5, <1>7, <2>2
  <2> QED BY <2>3 DEF E
<1> QED BY <1>6, <1>7
-----------------------------------------------------------------------------
(***************************************************************************)
(* The invariant: a regular entry of the stack tells of its numbers, and   *)
(* so does one in braces, unless it is an infinity.  The numbers are what  *)
(* was written, if strict; if not, there are some: a numeral in braces may *)
(* have been read as another number than it means, and the value that is   *)
(* made of it is then well formed all the same.                            *)
(***************************************************************************)
Tells(strict, v, E) == \E F : Encloses(v, F) /\ (strict => F = E)
Right(strict, e) == e.regular => Tells(strict, e.value, e.exact)
RightInBraces(strict, e) ==
  e.regular =>
    IF e.value.inf = 0 THEN Tells(strict, e.value, e.exact) ELSE e.value.points = {}
StackIsRight(strict) == \E S : stack \in Seq(S) /\ \A e \in S : Right(strict, e)
BracesAreRight(strict) == \E S : elements \in Seq(S) /\ \A e \in S : RightInBraces(strict, e)
ExprInv(strict) == StackIsRight(strict) /\ BracesAreRight(strict)

LEMMA Told ==
  ASSUME NEW strict, NEW v, NEW E, Encloses(v, E)
  PROVE  Tells(strict, v, E)
BY DEF Tells

LEMMA ToldOfTheSame ==
  ASSUME NEW strict, NEW v, NEW E, NEW F, Tells(strict, v, E), strict => E = F
  PROVE  Tells(strict, v, F)
BY DEF Tells

LEMMA ToldValue ==
  ASSUME NEW strict, NEW v, NEW E, Tells(strict, v, E)
  PROVE  v.kind = "value" /\ v.inf = 0
BY DEF Tells, Encloses

\* What the operators leave tells of the numbers that their results are, when
\* their operands do.
LEMMA UnaryTells ==
  ASSUME NEW strict, NEW a, NEW A, Tells(strict, a, A)
  PROVE  /\ Tells(strict, valNeg(a), Negatives(A))
         /\ \/ parsePostfix(a).kind = "error"
            \/ Tells(strict, parsePostfix(a), Factorials(A))
<1>1. PICK F : Encloses(a, F) /\ (strict => F = A)
  BY DEF Tells
<1>2. /\ Encloses(valNeg(a), Negatives(F))
      /\ parsePostfix(a).kind = "error" \/ Encloses(parsePostfix(a), Factorials(F))
  BY <1>1, NegEncloses, PostfixEncloses
<1>3. strict => Negatives(F) = Negatives(A) /\ Factorials(F) = Factorials(A)
  BY <1>1
<1> QED BY <1>2, <1>3 DEF Tells

LEMMA BinaryTells ==
  ASSUME NEW strict, NEW a, NEW A, Tells(strict, a, A), NEW b, NEW B, Tells(strict, b, B)
  PROVE  /\ Tells(strict, valAdd(a, b), Sums(A, B))
         /\ Tells(strict, valSub(a, b), Differences(A, B))
         /\ Leq(Zero, b.min) =>
              Tells(strict, valPlusMinus(a, b), Sums(A, B) \cup Differences(A, B))
         /\ Tells(strict, valMul(a, b), Products(A, B))
         /\ \/ valDiv(a, b).kind = "error"
            \/ Tells(strict, valDiv(a, b), Quotients(A, B)) /\ (strict => Zero \notin B)
         /\ b.min # Rat(MinInt) =>
              \/ parsePow(a, b).kind = "error"
              \/ Tells(strict, parsePow(a, b), Powers(A, b.min[1]))
<1>1. PICK F : Encloses(a, F) /\ (strict => F = A)
  BY DEF Tells
<1>2. PICK G : Encloses(b, G) /\ (strict => G = B)
  BY DEF Tells
<1>3. /\ Encloses(valAdd(a, b), Sums(F, G))
      /\ Encloses(valSub(a, b), Differences(F, G))
      /\ Leq(Zero, b.min) => Encloses(valPlusMinus(a, b), Sums(F, G) \cup Differences(F, G))
  BY <1>1, <1>2, AddEncloses, SubEncloses, PlusMinusEncloses
<1>4. /\ Encloses(valMul(a, b), Products(F, G))
      /\ \/ valDiv(a, b).kind = "error"
         \/ Encloses(valDiv(a, b), Quotients(F, G)) /\ Zero \notin G
  BY <1>1, <1>2, MulEncloses, DivEncloses
<1>5. b.min # Rat(MinInt) =>
        parsePow(a, b).kind = "error" \/ Encloses(parsePow(a, b), Powers(F, b.min[1]))
  BY <1>1, <1>2, ParsePowEncloses
<1>6. strict => F = A /\ G = B
  BY <1>1, <1>2
<1>7. ASSUME NEW v, NEW X, NEW Y, Encloses(v, X), strict => X = Y PROVE Tells(strict, v, Y)
  BY <1>7 DEF Tells
<1>8. /\ Tells(strict, valAdd(a, b), Sums(A, B))
      /\ Tells(strict, valSub(a, b), Differences(A, B))
      /\ Tells(strict, valMul(a, b), Products(A, B))
  BY <1>3, <1>4, <1>6, <1>7
<1>9. Leq(Zero, b.min) =>
        Tells(strict, valPlusMinus(a, b), Sums(A, B) \cup Differences(A, B))
  BY <1>3, <1>6, <1>7
<1>10. \/ valDiv(a, b).kind = "error"
       \/ Tells(strict, valDiv(a, b), Quotients(A, B)) /\ (strict => Zero \notin B)
  BY <1>4, <1>6, <1>7
<1>11. b.min # Rat(MinInt) =>
        \/ parsePow(a, b).kind = "error"
        \/ Tells(strict, parsePow(a, b), Powers(A, b.min[1]))
  BY <1>5, <1>6, <1>7
<1> QED BY <1>8, <1>9, <1>10, <1>11

LEMMA EntryIs ==
  ASSUME NEW v, NEW E, NEW r
  PROVE  /\ Entry(v, E, r).value = v /\ Entry(v, E, r).regular = r
         /\ r => Entry(v, E, r).exact = E
BY DEF Entry

LEMMA EntryIsRight ==
  ASSUME NEW strict, NEW v, NEW E, NEW r, r => Tells(strict, v, E)
  PROVE  Right(strict, Entry(v, E, r))
BY EntryIs DEF Right

LEMMA RightIsRightInBraces ==
  ASSUME NEW strict, NEW e, Right(strict, e)
  PROVE  RightInBraces(strict, e)
BY ToldValue DEF Right, RightInBraces

LEMMA StackEntries ==
  ASSUME NEW strict, StackIsRight(strict)
  PROVE  /\ Len(stack) \in Nat
         /\ Len(stack) > 0 => Right(strict, Top)
         /\ Len(stack) > 1 => Right(strict, Below)
<1>1. PICK S : stack \in Seq(S) /\ \A e \in S : Right(strict, e)
  BY DEF StackIsRight
<1> QED BY <1>1 DEF Top, Below, Last

\* An operator leaves the entry that it makes on the stack, or ends the parsing.
LEMMA Applied ==
  ASSUME NEW strict, StackIsRight(strict), NEW arity \in 1..2, arity <= Len(stack), NEW entry,
         entry.value.kind = "value" => Right(strict, entry), Apply(arity, entry)
  PROVE  StackIsRight(strict)' /\ UNCHANGED elements
<1>1. PICK S : stack \in Seq(S) /\ \A e \in S : Right(strict, e)
  BY DEF StackIsRight
<1>2. UNCHANGED elements
  BY DEF Apply
<1>3. CASE entry.value.kind = "value"
  <2> DEFINE T == S \cup {entry}
             s == SubSeq(stack, 1, Len(stack) - arity)
  <2>1. \A e \in T : Right(strict, e)
    BY <1>1, <1>3
  <2>2. s \in Seq(T)
    <3>1. stack \in Seq(T) /\ Len(stack) \in Nat
      BY <1>1
    <3>2. \A i \in 1..(Len(stack) - arity) : i \in 1..Len(stack)
      BY <3>1
    <3> HIDE DEF T
    <3> QED BY <3>1, <3>2
  <2>3. stack' = Append(s, entry) /\ entry \in T
    BY <1>3 DEF Apply
  <2> HIDE DEF s, T
  <2>4. stack' \in Seq(T)
    BY <2>2, <2>3
  <2> QED BY <1>2, <2>1, <2>4 DEF StackIsRight
<1>4. CASE entry.value.kind # "value"
  <2>1. stack' = stack
    BY <1>4 DEF Apply
  <2> QED BY <1>1, <1>2, <2>1 DEF StackIsRight
<1> QED BY <1>3, <1>4

LEMMA BracesGrow ==
  ASSUME NEW strict, BracesAreRight(strict), NEW e, RightInBraces(strict, e), elements' = Append(elements, e)
  PROVE  BracesAreRight(strict)'
<1>1. PICK S : elements \in Seq(S) /\ \A x \in S : RightInBraces(strict, x)
  BY DEF BracesAreRight
<1>2. elements' \in Seq(S \cup {e})
  <2>1. elements \in Seq(S \cup {e}) /\ e \in S \cup {e}
    BY <1>1
  <2> QED BY <2>1
<1>3. \A x \in S \cup {e} : RightInBraces(strict, x)
  BY <1>1
<1> QED BY <1>2, <1>3 DEF BracesAreRight

LEMMA AtomKeeps ==
  ASSUME NEW strict, InputAssumption, ExprInv(strict), Atom
  PROVE  ExprInv(strict)'
<1>1. PICK n \in Atoms : stack' = Append(stack, Entry(PointValue(Rat(n)), {Rat(n)}, TRUE))
  BY DEF Atom
<1> DEFINE e == Entry(PointValue(Rat(n)), {Rat(n)}, TRUE)
<1>2. Right(strict, e)
  <2>1. n \in Int
    BY InputAssumption
  <2> QED BY <2>1, Whole, PointEncloses, Told, EntryIsRight
<1>3. PICK S : stack \in Seq(S) /\ \A x \in S : Right(strict, x)
  BY DEF ExprInv, StackIsRight
<1> HIDE DEF e
<1>4. stack' \in Seq(S \cup {e}) /\ \A x \in S \cup {e} : Right(strict, x)
  <2>1. stack \in Seq(S \cup {e}) /\ e \in S \cup {e}
    BY <1>3
  <2>2. stack' = Append(stack, e)
    BY <1>1 DEF e
  <2> QED BY <1>2, <1>3, <2>1, <2>2
<1>5. StackIsRight(strict)'
  BY <1>4 DEF StackIsRight
<1> QED BY <1>5 DEF Atom, ExprInv, BracesAreRight

LEMMA UnaryKeeps ==
  ASSUME NEW strict, ExprInv(strict), Unary
  PROVE  ExprInv(strict)'
<1> DEFINE v == Top.value
           E == Top.exact
           entry == Entry(valNeg(v), {Neg(x) : x \in E}, Top.regular)
<1>1. Right(strict, Top) /\ Len(stack) > 0 /\ 1 <= Len(stack) /\ Apply(1, entry)
  BY StackEntries DEF ExprInv, Unary
<1>2. Top.regular => Tells(strict, valNeg(v), {Neg(x) : x \in E})
  BY <1>1, UnaryTells DEF Right, Negatives
<1>3. Right(strict, entry)
  BY <1>2, EntryIsRight
<1> HIDE DEF entry
<1>4. StackIsRight(strict)' /\ UNCHANGED elements
  BY <1>1, <1>3, Applied DEF ExprInv
<1> QED BY <1>4 DEF ExprInv, BracesAreRight

LEMMA PostfixKeeps ==
  ASSUME NEW strict, ExprInv(strict), Postfix
  PROVE  ExprInv(strict)'
<1> DEFINE v == parsePostfix(Top.value)
           E == IF v.kind = "error" THEN {} ELSE {Rat(Factorial(x[1])) : x \in Top.exact}
           entry == Entry(v, E, Top.regular)
<1>1. Right(strict, Top) /\ 1 <= Len(stack) /\ Apply(1, entry)
  BY StackEntries DEF ExprInv, Postfix
<1>2. ASSUME Top.regular, v.kind = "value" PROVE Tells(strict, v, E)
  <2>1. v.kind # "error"
    BY <1>2
  <2>2. Tells(strict, v, Factorials(Top.exact))
    BY <1>1, <1>2, <2>1, UnaryTells DEF Right
  <2>3. E = Factorials(Top.exact)
    BY <2>1 DEF Factorials
  <2> QED BY <2>2, <2>3
<1> HIDE DEF v, E
<1>3. entry.value.kind = "value" => Right(strict, entry)
  BY <1>2, EntryIs, EntryIsRight
<1> HIDE DEF entry
<1>4. StackIsRight(strict)' /\ UNCHANGED elements
  BY <1>1, <1>3, Applied DEF ExprInv
<1> QED BY <1>4 DEF ExprInv, BracesAreRight

LEMMA BothAreRight ==
  ASSUME NEW strict, ExprInv(strict), Len(stack) > 1
  PROVE  /\ 2 <= Len(stack)
         /\ Both => /\ Tells(strict, Below.value, Below.exact)
                    /\ Tells(strict, Top.value, Top.exact)
BY StackEntries DEF ExprInv, Both, Right

\* The three operators of a sum, and the two of a product, leave what the lemmas say.
LEMMA AppliedToTwo ==
  ASSUME NEW strict, ExprInv(strict), Len(stack) > 1, NEW v, NEW E, NEW r,
         r => v.kind # "value" \/ Tells(strict, v, E), Apply(2, Entry(v, E, r))
  PROVE  ExprInv(strict)'
<1> DEFINE entry == Entry(v, E, r)
<1>1. entry.value.kind = "value" => Right(strict, entry)
  BY EntryIs, EntryIsRight
<1> HIDE DEF entry
<1>2. StackIsRight(strict)' /\ UNCHANGED elements
  BY <1>1, StackEntries, Applied DEF ExprInv, entry
<1> QED BY <1>2 DEF ExprInv, BracesAreRight

LEMMA AddSubKeeps ==
  ASSUME NEW strict, ExprInv(strict), AddSub
  PROVE  ExprInv(strict)'
<1> DEFINE a == Below
           b == Top
<1>1. /\ Len(stack) > 1
      /\ Both => Tells(strict, a.value, a.exact) /\ Tells(strict, b.value, b.exact)
  BY BothAreRight DEF AddSub
<1>2. /\ PairwiseExact(Add, a, b) = Sums(a.exact, b.exact)
      /\ PairwiseExact(Sub, a, b) = Differences(a.exact, b.exact)
  BY DEF PairwiseExact, Sums, Differences
<1>3. \/ Apply(2, Entry(valAdd(a.value, b.value), Sums(a.exact, b.exact), Both))
      \/ Apply(2, Entry(valSub(a.value, b.value), Differences(a.exact, b.exact), Both))
      \/ Apply(2, Entry(valPlusMinus(a.value, b.value),
                        Sums(a.exact, b.exact) \cup Differences(a.exact, b.exact),
                        Both /\ Leq(Zero, b.value.min)))
  BY <1>2 DEF AddSub
<1> HIDE DEF a, b
<1>4. Both => /\ Tells(strict, valAdd(a.value, b.value), Sums(a.exact, b.exact))
              /\ Tells(strict, valSub(a.value, b.value), Differences(a.exact, b.exact))
              /\ Leq(Zero, b.value.min) =>
                   Tells(strict, valPlusMinus(a.value, b.value),
                         Sums(a.exact, b.exact) \cup Differences(a.exact, b.exact))
  BY <1>1, BinaryTells
<1>5. CASE Apply(2, Entry(valAdd(a.value, b.value), Sums(a.exact, b.exact), Both))
  BY <1>1, <1>4, <1>5, AppliedToTwo
<1>6. CASE Apply(2, Entry(valSub(a.value, b.value), Differences(a.exact, b.exact), Both))
  BY <1>1, <1>4, <1>6, AppliedToTwo
<1>7. CASE Apply(2, Entry(valPlusMinus(a.value, b.value),
                          Sums(a.exact, b.exact) \cup Differences(a.exact, b.exact),
                          Both /\ Leq(Zero, b.value.min)))
  BY <1>1, <1>4, <1>7, AppliedToTwo
<1> QED BY <1>3, <1>5, <1>6, <1>7

LEMMA MulDivKeeps ==
  ASSUME NEW strict, ExprInv(strict), MulDiv
  PROVE  ExprInv(strict)'
<1> DEFINE a == Below
           b == Top
           E == IF Zero \in b.exact THEN {} ELSE Quotients(a.exact, b.exact)
<1>1. /\ Len(stack) > 1
      /\ Both => Tells(strict, a.value, a.exact) /\ Tells(strict, b.value, b.exact)
  BY BothAreRight DEF MulDiv
<1>2. /\ PairwiseExact(Mul, a, b) = Products(a.exact, b.exact)
      /\ PairwiseExact(Quo, a, b) = Quotients(a.exact, b.exact)
  BY DEF PairwiseExact, Products, Quotients
<1>3. \/ Apply(2, Entry(valMul(a.value, b.value), Products(a.exact, b.exact), Both))
      \/ Apply(2, Entry(valDiv(a.value, b.value), E, Both))
  BY <1>2 DEF MulDiv
<1> HIDE DEF a, b
<1>4. Both => /\ Tells(strict, valMul(a.value, b.value), Products(a.exact, b.exact))
              /\ \/ valDiv(a.value, b.value).kind # "value"
                 \/ Tells(strict, valDiv(a.value, b.value), E)
  <2> SUFFICES ASSUME Both
               PROVE  /\ Tells(strict, valMul(a.value, b.value), Products(a.exact, b.exact))
                      /\ \/ valDiv(a.value, b.value).kind # "value"
                         \/ Tells(strict, valDiv(a.value, b.value), E)
    OBVIOUS
  <2> DEFINE v == a.value
             w == b.value
             A == a.exact
             B == b.exact
  <2>0. Tells(strict, v, A) /\ Tells(strict, w, B)
    BY <1>1
  <2> HIDE DEF v, w, A, B
  <2>1. /\ Tells(strict, valMul(v, w), Products(A, B))
        /\ \/ valDiv(v, w).kind = "error"
           \/ Tells(strict, valDiv(v, w), Quotients(A, B)) /\ (strict => Zero \notin B)
    BY <2>0, BinaryTells
  <2> USE DEF v, w, A, B
  <2>2. valDiv(a.value, b.value).kind = "error" => valDiv(a.value, b.value).kind # "value"
    OBVIOUS
  <2>3. Zero \notin b.exact => Quotients(a.exact, b.exact) = E
    OBVIOUS
  <2> HIDE DEF E
  <2> QED BY <2>1, <2>2, <2>3, ToldOfTheSame
<1> HIDE DEF E
<1>5. CASE Apply(2, Entry(valMul(a.value, b.value), Products(a.exact, b.exact), Both))
  BY <1>1, <1>4, <1>5, AppliedToTwo
<1>6. CASE Apply(2, Entry(valDiv(a.value, b.value), E, Both))
  BY <1>1, <1>4, <1>6, AppliedToTwo
<1> QED BY <1>3, <1>5, <1>6

LEMMA PowKeeps ==
  ASSUME NEW strict, ExprInv(strict), Pow
  PROVE  ExprInv(strict)'
<1> DEFINE a == Below
           b == Top
           power == parsePow(a.value, b.value)
           E == IF power.kind = "error" THEN {} ELSE Powers(a.exact, b.value.min[1])
           r == Both /\ b.value.min # Rat(MinInt)
<1>1. /\ Len(stack) > 1
      /\ Both => Tells(strict, a.value, a.exact) /\ Tells(strict, b.value, b.exact)
  BY BothAreRight DEF Pow
<1>2. Apply(2, Entry(power, E, r))
  BY DEF Pow, Powers
<1>3. ASSUME r PROVE power.kind # "value" \/ Tells(strict, power, E)
  <2>1. \/ power.kind = "error"
        \/ Tells(strict, power, Powers(a.exact, b.value.min[1]))
    BY <1>1, <1>3, BinaryTells
  <2>2. CASE power.kind = "error"
    BY <2>2
  <2>3. CASE power.kind # "error"
    BY <2>1, <2>3
  <2> QED BY <2>2, <2>3
<1> HIDE DEF power, E, r
<1> QED BY <1>1, <1>2, <1>3, AppliedToTwo

LEMMA EndKeeps ==
  ASSUME NEW strict, ExprInv(strict), EndOfExpression
  PROVE  ExprInv(strict)'
<1>1. Len(stack) > 0 /\ elements' = Append(elements, Top) /\ stack' = <<>>
  BY DEF EndOfExpression
<1>2. RightInBraces(strict, Top)
  BY <1>1, StackEntries, RightIsRightInBraces DEF ExprInv
<1>3. StackIsRight(strict)'
  <2>1. stack' \in Seq({}) /\ \A e \in {} : Right(strict, e)
    BY <1>1
  <2> QED BY <2>1 DEF StackIsRight
<1> QED BY <1>1, <1>2, <1>3, BracesGrow DEF ExprInv

LEMMA IntervalKeeps ==
  ASSUME NEW strict, InputAssumption, ExprInv(strict), Interval
  PROVE  ExprInv(strict)'
<1>1. UNCHANGED stack
  BY DEF Interval
<1>2. PICK lo, hi \in Literals :
        \/ UNCHANGED elements
        \/ /\ Nil \notin {lo, hi} /\ Leq(lo, hi)
           /\ elements' = Append(elements, Entry(RangeValue(lo, hi), {lo, hi}, TRUE))
  BY DEF Interval
<1>3. CASE UNCHANGED elements
  BY <1>1, <1>3 DEF ExprInv, StackIsRight, BracesAreRight
<1>4. CASE /\ Nil \notin {lo, hi} /\ Leq(lo, hi)
           /\ elements' = Append(elements, Entry(RangeValue(lo, hi), {lo, hi}, TRUE))
  <2>1. lo \in Fractions /\ hi \in Fractions
    BY <1>4, InputAssumption, Whole DEF Literals
  <2>2. /\ Numbers({lo, hi}) /\ \A z \in {lo, hi} : Leq(lo, z) /\ Leq(z, hi)
    BY <1>4, <2>1, Ordered DEF Numbers
  <2>3. Encloses(RangeValue(lo, hi), {lo, hi})
    BY <1>4, <2>1, <2>2, RangeEncloses
  <2>4. RightInBraces(strict, Entry(RangeValue(lo, hi), {lo, hi}, TRUE))
    BY <2>3, Told, EntryIsRight, RightIsRightInBraces
  <2>5. BracesAreRight(strict)'
    BY <1>4, <2>4, BracesGrow DEF ExprInv
  <2> QED BY <1>1, <2>5 DEF ExprInv, StackIsRight
<1> QED BY <1>2, <1>3, <1>4

LEMMA InfinityKeeps ==
  ASSUME NEW strict, ExprInv(strict), Infinity
  PROVE  ExprInv(strict)'
<1>1. PICK sign \in {-1, 1} : elements' = Append(elements, Entry(InfValue(sign), {}, TRUE))
  BY DEF Infinity
<1>2. InfValue(sign).inf # 0 /\ InfValue(sign).points = {}
  BY DEF InfValue, MakeValue
<1>3. RightInBraces(strict, Entry(InfValue(sign), {}, TRUE))
  <2> DEFINE e == Entry(InfValue(sign), {}, TRUE)
  <2>1. e.value = InfValue(sign)
    BY DEF Entry
  <2> HIDE DEF e
  <2>2. RightInBraces(strict, e)
    BY <1>2, <2>1 DEF RightInBraces
  <2> QED BY <2>2 DEF e
<1>4. BracesAreRight(strict)'
  BY <1>1, <1>3, BracesGrow DEF ExprInv
<1> QED BY <1>4 DEF ExprInv, Infinity, StackIsRight

\* An infinity with a plus sign is not regular, and nothing is said of it.
LEMMA PlusInfinityKeeps ==
  ASSUME NEW strict, ExprInv(strict), PlusInfinity
  PROVE  ExprInv(strict)'
<1> DEFINE e == Entry(PointValue(Nil), {}, FALSE)
<1>1. elements' = Append(elements, e) /\ UNCHANGED stack
  BY DEF PlusInfinity
<1>2. ~e.regular
  BY DEF Entry
<1> HIDE DEF e
<1>3. RightInBraces(strict, e)
  BY <1>2 DEF RightInBraces
<1>4. BracesAreRight(strict)'
  BY <1>1, <1>3, BracesGrow DEF ExprInv
<1> QED BY <1>1, <1>4 DEF ExprInv, StackIsRight

\* A set with an infinity in it is not regular, and nothing is said of it.
LEMMA FiniteSetKeeps ==
  ASSUME NEW strict, ExprInv(strict), FiniteSet
  PROVE  ExprInv(strict)'
<1> DEFINE I == DOMAIN elements
           val == [i \in I |-> elements[i].value]
           ex == [i \in I |-> elements[i].exact]
           v == tryFiniteSet(val)
           exact == UNION {elements[i].exact : i \in I}
           regular == \A i \in I : elements[i].regular /\ elements[i].value.inf = 0
<1>1. /\ UNCHANGED stack
      /\ elements' = <<Entry(v, exact, regular)>> \/ UNCHANGED elements
  BY DEF FiniteSet
<1>2. PICK S : elements \in Seq(S) /\ \A e \in S : RightInBraces(strict, e)
  BY DEF ExprInv, BracesAreRight
<1>3. IsFiniteSet(I) /\ I # {}
  <2>1. Len(elements) \in Nat /\ I = 1..Len(elements) /\ elements # <<>>
    BY <1>2 DEF FiniteSet
  <2>2. IsFiniteSet(I)
    BY <2>1, FS_Interval
  <2>3. Len(elements) # 0
    BY <1>2, <2>1
  <2>4. 1 \in 1..Len(elements)
    BY <2>1, <2>3
  <2> QED BY <2>1, <2>2, <2>4
<1>4. \A i \in I : RightInBraces(strict, elements[i])
  BY <1>2
<1>5. ASSUME regular PROVE Tells(strict, v, exact)
  <2>1. \A i \in I : Tells(strict, val[i], ex[i])
    BY <1>4, <1>5 DEF RightInBraces
  <2>2. val = [i \in I |-> val[i]] /\ exact = UNION {ex[i] : i \in I}
    OBVIOUS
  <2> DEFINE told == [i \in I |-> CHOOSE F : Encloses(val[i], F) /\ (strict => F = ex[i])]
  <2>3. \A i \in I : Encloses(val[i], told[i]) /\ (strict => told[i] = ex[i])
    BY <2>1 DEF Tells
  <2> HIDE DEF I, val, ex, exact, told
  <2>4. Encloses(v, UNION {told[i] : i \in I})
    BY <1>3, <2>2, <2>3, BracesEnclose
  <2>5. strict => UNION {told[i] : i \in I} = exact
    BY <2>2, <2>3
  <2> HIDE DEF v
  <2> QED BY <2>4, <2>5 DEF Tells
<1> HIDE DEF v, exact, regular
<1>6. RightInBraces(strict, Entry(v, exact, regular))
  BY <1>5, EntryIsRight, RightIsRightInBraces
<1>7. BracesAreRight(strict)'
  <2>1. CASE UNCHANGED elements
    BY <1>2, <2>1 DEF BracesAreRight
  <2>2. CASE elements' = <<Entry(v, exact, regular)>>
    <3> DEFINE e == Entry(v, exact, regular)
    <3>1. elements' \in Seq({e}) /\ \A x \in {e} : RightInBraces(strict, x)
      <4> HIDE DEF e
      <4>1. elements' = <<e>>
        BY <2>2 DEF e
      <4>2. RightInBraces(strict, e)
        BY <1>6 DEF e
      <4> QED BY <4>1, <4>2
    <3> HIDE DEF e
    <3> QED BY <3>1 DEF BracesAreRight
  <2> QED BY <1>1, <2>1, <2>2
<1> QED BY <1>1, <1>7 DEF ExprInv, StackIsRight

LEMMA ExpressionKeeps ==
  ASSUME NEW strict, InputAssumption, ExprInv(strict), ExpressionStep
  PROVE  ExprInv(strict)'
BY AtomKeeps, UnaryKeeps, PostfixKeeps, AddSubKeeps, MulDivKeeps, PowKeeps,
   EndKeeps, IntervalKeeps, InfinityKeeps, PlusInfinityKeeps, FiniteSetKeeps DEF ExpressionStep

\* The invariant has the one property, and if strict the other one too.
LEMMA ExprInvMeans ==
  ASSUME NEW strict, ExprInv(strict)
  PROVE  ValuesAreWellFormed /\ (strict => ValuesEnclose)
<1>1. ASSUME NEW e \in Parsed PROVE RightInBraces(strict, e)
  <2>1. PICK S : stack \in Seq(S) /\ \A x \in S : Right(strict, x)
    BY DEF ExprInv, StackIsRight
  <2>2. PICK T : elements \in Seq(T) /\ \A x \in T : RightInBraces(strict, x)
    BY DEF ExprInv, BracesAreRight
  <2>3. \A x \in S : RightInBraces(strict, x)
    BY <2>1, RightIsRightInBraces
  <2>4. e \in S \/ e \in T
    BY <2>1, <2>2 DEF Parsed, Range
  <2> QED BY <2>2, <2>3, <2>4
<1>2. ASSUME NEW v, NEW E, Encloses(v, E) PROVE WellFormedValue(v)
  <2>1. Nil \notin Fractions
    <3>1. Nil[2] = 0 /\ ~(0 > 0)
      BY DEF Nil
    <3> QED BY <3>1, FractionType
  <2>2. v.min \in Fractions /\ v.max \in Fractions /\ Leq(v.min, v.max)
    BY <1>2, EnclosedNumbers, EnclosesMeans
  <2> QED BY <1>2, <2>1, <2>2 DEF Encloses, WellFormedValue
<1>3. ValuesAreWellFormed
  <2> SUFFICES ASSUME NEW e \in Parsed, e.regular PROVE WellFormedValue(e.value)
    BY DEF ValuesAreWellFormed
  <2>1. CASE e.value.inf = 0
    <3>1. PICK F : Encloses(e.value, F)
      BY <1>1, <2>1 DEF RightInBraces, Tells
    <3> QED BY <1>2, <3>1
  <2>2. CASE e.value.inf # 0
    BY <1>1, <2>2 DEF RightInBraces, WellFormedValue
  <2> QED BY <2>1, <2>2
<1>4. ASSUME strict PROVE ValuesEnclose
  <2> SUFFICES ASSUME NEW e \in Parsed, e.regular, e.value.inf = 0
               PROVE  \/ DiscretePoints(e.value) = e.exact
                      \/ /\ e.value.points = {}
                         /\ \A x \in e.exact : Leq(e.value.min, x) /\ Leq(x, e.value.max)
    BY DEF ValuesEnclose
  <2>1. Encloses(e.value, e.exact)
    BY <1>1, <1>4 DEF RightInBraces, Tells
  <2> QED BY <2>1 DEF Encloses, Within, DiscretePoints
<1> QED BY <1>3, <1>4

-----------------------------------------------------------------------------
(***************************************************************************)
(* The letters of a Roman numeral are summed up, and the cells of a        *)
(* Braille number folded from the left; the functions of the sum and of    *)
(* the fold exist, and what they come to is a fraction.                    *)
(***************************************************************************)
Texts == Seq(Seq(STRING))

\* A cell of a digit is looked up in the table.
LEMMA DigitsAreNumbers == \A cell \in DOMAIN brailleDigits : brailleDigits[cell] \in Nat
<1> DEFINE cells == <<"245", "1", "12", "14", "145", "15", "124", "1245", "125", "24">>
<1>1. brailleDigits = [cell \in Range(cells) |-> (CHOOSE i \in DOMAIN cells : cells[i] = cell) - 1]
  BY DEF brailleDigits
<1>2. DOMAIN cells = 1..10
  OBVIOUS
<1> HIDE DEF cells
<1> SUFFICES ASSUME NEW cell \in DOMAIN brailleDigits PROVE brailleDigits[cell] \in Nat
  OBVIOUS
<1>3. \E i \in DOMAIN cells : cells[i] = cell
  BY <1>1 DEF Range
<1>4. PICK i \in 1..10 : brailleDigits[cell] = i - 1
  BY <1>1, <1>2, <1>3
<1> QED BY <1>4

\* A letter of a Roman numeral is looked up in the table.
LEMMA LettersAreNumbers == \A letter \in DOMAIN romanValues : romanValues[letter] \in Int
<1> DEFINE letters == <<"i", "v", "x", "l", "c", "d", "m">>
           counts == <<1, 5, 10, 50, 100, 500, 1000>>
<1>1. romanValues = [letter \in Range(letters) |-> counts[CHOOSE i \in DOMAIN letters : letters[i] = letter]]
  BY DEF romanValues
<1>2. DOMAIN letters = 1..7 /\ \A i \in 1..7 : counts[i] \in Int
  OBVIOUS
<1> HIDE DEF letters, counts
<1> SUFFICES ASSUME NEW letter \in DOMAIN romanValues PROVE romanValues[letter] \in Int
  OBVIOUS
<1>3. \E i \in DOMAIN letters : letters[i] = letter
  BY <1>1 DEF Range
<1>4. PICK i \in 1..7 : romanValues[letter] = counts[i]
  BY <1>1, <1>2, <1>3
<1> QED BY <1>2, <1>4

\* The letter that comes after one, behind the overline of that one, is no overline.
LEMMA TermsAreNumbers ==
  ASSUME NEW letters \in Seq(STRING), IsRoman(letters), NEW p \in 1..Len(letters)
  PROVE  RomanTerm(letters, p) \in Int
<1>1. Len(letters) \in Nat /\ DOMAIN letters = 1..Len(letters)
  OBVIOUS
<1>2. ASSUME NEW q \in 1..Len(letters), letters[q] # Overline
      PROVE  RomanDigit(letters, q) \in Int
  <2> DEFINE d == romanValues[letters[q]]
             times == IF Overlined(letters, q) THEN 1000 ELSE 1
  <2>1. letters[q] \in DOMAIN romanValues
    BY <1>1, <1>2 DEF IsRoman
  <2>2. d \in Int /\ times \in Int
    BY <2>1, LettersAreNumbers
  <2>3. RomanDigit(letters, q) = d * times
    BY DEF RomanDigit
  <2> HIDE DEF d, times
  <2> QED BY <2>2, <2>3
<1> DEFINE next == IF Overlined(letters, p) THEN p + 2 ELSE p + 1
<1> SUFFICES ASSUME letters[p] # Overline PROVE RomanTerm(letters, p) \in Int
  BY DEF RomanTerm
<1>3. RomanTerm(letters, p) =
        IF next <= Len(letters) /\ RomanDigit(letters, p) < RomanDigit(letters, next)
        THEN -RomanDigit(letters, p) ELSE RomanDigit(letters, p)
  BY DEF RomanTerm
<1>4. RomanDigit(letters, p) \in Int
  BY <1>2
<1> HIDE DEF next
<1> QED BY <1>3, <1>4

\* The sum over the letters is defined by recursion, and it is a number.
LEMMA RomanIsNumber ==
  ASSUME NEW letters \in Seq(STRING), IsRoman(letters)
  PROVE  RomanTotal(letters) \in Int
<1> DEFINE n == Len(letters)
           term(p) == RomanTerm(letters, p)
           Totals(f) == f = [p \in 0..n |-> IF p = 0 THEN 0 ELSE f[p - 1] + term(p)]
           h == [x \in Nat \X Int |-> IF x[1] \in 1..n THEN x[2] + term(x[1]) ELSE x[2]]
           total == CHOOSE f : Totals(f)
<1>1. n \in Nat /\ \A p \in 1..n : term(p) \in Int
  BY TermsAreNumbers
<1>2. RomanTotal(letters) = total[n]
  BY DEF RomanTotal
<1> HIDE DEF n, term
<1>3. h \in [Nat \X Int -> Int]
  BY <1>1
<1>4. PICK g : Recurs(g, Int, 0, h)
  <2> HIDE DEF h
  <2>1. 0 \in Int
    OBVIOUS
  <2> QED BY <1>3, <2>1, RecursionWorks
<1>5. Totals([p \in 0..n |-> g[p]])
  <2> DEFINE f == [p \in 0..n |-> g[p]]
  <2>1. g \in [Nat -> Int] /\ g[0] = 0
    BY <1>4 DEF Recurs
  <2>2. ASSUME NEW p \in 1..n PROVE f[p] = f[p - 1] + term(p)
    <3>1. p \in Nat /\ p # 0 /\ p - 1 \in Nat /\ p - 1 \in 0..n /\ p \in 0..n
      BY <1>1
    <3>2. g[p] = h[<<p, g[p - 1]>>] /\ <<p, g[p - 1]>> \in Nat \X Int
      BY <1>4, <2>1, <3>1 DEF Recurs
    <3>3. g[p] = g[p - 1] + term(p)
      BY <3>2
    <3> QED BY <3>1, <3>3
  <2>3. \A p \in 0..n : f[p] = IF p = 0 THEN 0 ELSE f[p - 1] + term(p)
    <3>1. f[0] = 0
      BY <1>1, <2>1
    <3>2. \A p \in 0..n : p = 0 \/ p \in 1..n
      BY <1>1
    <3> HIDE DEF f
    <3> QED BY <2>2, <3>1, <3>2
  <2>4. f = [p \in 0..n |-> f[p]]
    OBVIOUS
  <2> HIDE DEF f
  <2>5. f = [p \in 0..n |-> IF p = 0 THEN 0 ELSE f[p - 1] + term(p)]
    BY <2>3, <2>4
  <2> QED BY <2>5 DEF f
<1>6. Totals(total)
  BY <1>5
<1> HIDE DEF total, h
<1> DEFINE T == {k \in Nat : k <= n => total[k] \in Int}
<1>7. 0 \in T
  BY <1>1, <1>6
<1>8. ASSUME NEW k \in Nat, k \in T PROVE k + 1 \in T
  <2> SUFFICES ASSUME k + 1 <= n PROVE total[k + 1] \in Int
    OBVIOUS
  <2>1. k + 1 \in 0..n /\ k + 1 # 0 /\ (k + 1) - 1 = k /\ k <= n /\ k + 1 \in 1..n
    BY <1>1
  <2>2. total[k + 1] = total[k] + term(k + 1)
    BY <1>6, <2>1
  <2> QED BY <1>1, <1>8, <2>1, <2>2
<1> HIDE DEF T
<1>9. n \in T
  BY <1>1, <1>7, <1>8, Induction
<1> QED BY <1>1, <1>2, <1>9 DEF T

CellStep(number, cell) ==
  IF cell = brailleDecimal THEN [number EXCEPT !.unit = 1]
  ELSE [n |-> 10 * number.n + brailleDigits[cell], unit |-> 10 * number.unit]
NoCells == [n |-> 0, unit |-> 0]
Cells(f, D, cells) ==
  f = [s \in SUBSET D |-> IF s = {} THEN NoCells ELSE CellStep(f[s \ {Max(s)}], cells[Max(s)])]

LEMMA CellsExist ==
  ASSUME NEW cells, NEW n \in Nat
  PROVE  \E f : Cells(f, 1..n, cells)
<1> DEFINE T == {k \in Nat : \E f : Cells(f, 1..k, cells)}
<1>1. 0 \in T
  <2>1. SUBSET (1..0) = {{}}
    OBVIOUS
  <2>2. Cells([s \in SUBSET (1..0) |-> NoCells], 1..0, cells)
    BY <2>1 DEF Cells
  <2> QED BY <2>2
<1>2. ASSUME NEW k \in Nat, k \in T PROVE k + 1 \in T
  <2>1. PICK f : Cells(f, 1..k, cells)
    BY <1>2
  <2> DEFINE j == k + 1
             g == [s \in SUBSET (1..j) |-> IF j \in s THEN CellStep(f[s \ {j}], cells[j]) ELSE f[s]]
  <2>2. j \in Nat /\ \A s \in SUBSET (1..j) : /\ s \ {j} \in SUBSET (1..k)
                                              /\ j \notin s => s \in SUBSET (1..k)
    OBVIOUS
  <2> HIDE DEF j
  <2>3. ASSUME NEW s \in SUBSET (1..j)
        PROVE  g[s] = IF s = {} THEN NoCells ELSE CellStep(g[s \ {Max(s)}], cells[Max(s)])
    <3>1. CASE j \in s
      <4>1. Max(s) = j
        BY <2>2, <3>1, LargestIs
      <4>2. s \ {j} \in SUBSET (1..j) /\ j \notin s \ {j}
        OBVIOUS
      <4>3. g[s \ {j}] = f[s \ {j}]
        BY <4>2
      <4>4. g[s] = CellStep(f[s \ {j}], cells[j])
        BY <3>1
      <4> HIDE DEF g
      <4> QED BY <3>1, <4>1, <4>3, <4>4
    <3>2. CASE j \notin s
      <4>1. s \in SUBSET (1..k) /\ s \ {Max(s)} \in SUBSET (1..k) /\ s \ {Max(s)} \in SUBSET (1..j)
        BY <2>2, <3>2
      <4>2. f[s] = IF s = {} THEN NoCells ELSE CellStep(f[s \ {Max(s)}], cells[Max(s)])
        BY <2>1, <4>1 DEF Cells
      <4>3. g[s] = f[s] /\ g[s \ {Max(s)}] = f[s \ {Max(s)}]
        BY <3>2, <4>1
      <4> HIDE DEF g
      <4> QED BY <4>2, <4>3
    <3> QED BY <3>1, <3>2
  <2>4. g = [s \in SUBSET (1..j) |-> g[s]]
    OBVIOUS
  <2> HIDE DEF g
  <2>5. g = [s \in SUBSET (1..j) |->
               IF s = {} THEN NoCells ELSE CellStep(g[s \ {Max(s)}], cells[Max(s)])]
    BY <2>3, <2>4
  <2>6. Cells(g, 1..j, cells)
    BY <2>5 DEF Cells
  <2> QED BY <2>2, <2>6 DEF j
<1> HIDE DEF T
<1>3. n \in T
  BY <1>1, <1>2, Induction
<1> QED BY <1>3 DEF T

LEMMA BrailleIsNumber ==
  ASSUME NEW cells \in Seq(STRING), IsBraille(cells)
  PROVE  BrailleNumber(cells) \in Fractions
<1> DEFINE n == Len(cells)
           f == CHOOSE h : Cells(h, 1..n, cells)
           Record == [n : Nat, unit : Nat]
<1>1. n \in Nat /\ DOMAIN cells = 1..n
  OBVIOUS
<1>2. \A p \in 1..n : cells[p] = brailleDecimal \/ cells[p] \in DOMAIN brailleDigits
  BY <1>1 DEF IsBraille
<1>3. Cells(f, 1..n, cells)
  BY <1>1, CellsExist
<1>4. BrailleNumber(cells) =
        LET read == (CHOOSE h : Cells(h, DOMAIN cells, cells))[DOMAIN cells]
        IN Fraction(read.n, IF read.unit = 0 THEN 1 ELSE read.unit)
  BY DEF BrailleNumber, FoldLeft, MapThenFoldSet, Cells, CellStep, NoCells
<1>5. BrailleNumber(cells) = Fraction(f[1..n].n, IF f[1..n].unit = 0 THEN 1 ELSE f[1..n].unit)
  BY <1>1, <1>4
<1> HIDE DEF n, f
<1>6. f[1..n] \in Record
  <2> DEFINE T == {k \in Nat : k <= n => f[1..k] \in Record}
  <2>1. 0 \in T
    <3>1. 1..0 = {} /\ {} \in SUBSET (1..n)
      OBVIOUS
    <3>2. f[{}] = NoCells
      BY <1>3, <3>1 DEF Cells
    <3> QED BY <3>1, <3>2 DEF NoCells
  <2>2. ASSUME NEW k \in Nat, k \in T PROVE k + 1 \in T
    <3> DEFINE j == k + 1
    <3> SUFFICES ASSUME j <= n PROVE f[1..j] \in Record
      OBVIOUS
    <3>0. /\ j \in Nat /\ 1..j \in SUBSET (1..n) /\ j \in 1..j /\ j \in 1..n /\ k <= n
      BY <1>1
    <3>1. 1..j # {} /\ (1..j) \ {j} = 1..k
      <4>1. \A i : i \in (1..(k + 1)) \ {k + 1} <=> i \in 1..k
        OBVIOUS
      <4>2. (1..j) \ {j} = 1..k
        BY <4>1
      <4> QED BY <3>0, <4>2
    <3>2. Max(1..j) = j
      BY <3>0, <3>1, LargestIs
    <3>3. f[1..j] = CellStep(f[1..k], cells[j])
      BY <1>3, <3>0, <3>1, <3>2 DEF Cells
    <3>4. f[1..k] \in Record
      BY <2>2, <3>0
    <3>5. cells[j] # brailleDecimal => brailleDigits[cells[j]] \in Nat
      BY <1>2, <3>0, DigitsAreNumbers
    <3> HIDE DEF j
    <3>6. CASE cells[j] = brailleDecimal
      BY <3>3, <3>4, <3>6 DEF CellStep
    <3>7. CASE cells[j] # brailleDecimal
      <4> DEFINE d == brailleDigits[cells[j]]
                 g == f[1..k]
      <4>1. d \in Nat /\ g.n \in Nat /\ g.unit \in Nat
        BY <3>4, <3>5, <3>7
      <4>2. f[1..j] = [n |-> 10 * g.n + d, unit |-> 10 * g.unit]
        BY <3>3, <3>7 DEF CellStep
      <4> HIDE DEF d, g
      <4> QED BY <4>1, <4>2
    <3> QED BY <3>6, <3>7
  <2> HIDE DEF T
  <2>3. n \in T
    BY <1>1, <2>1, <2>2, Induction
  <2> QED BY <1>1, <2>3 DEF T
<1> DEFINE num == f[1..n].n
           den == IF f[1..n].unit = 0 THEN 1 ELSE f[1..n].unit
<1>7. num \in Int /\ den \in Int /\ den # 0
  BY <1>6
<1> HIDE DEF num, den
<1> QED BY <1>5, <1>7, FractionIs DEF num, den
-----------------------------------------------------------------------------
(***************************************************************************)
(* A numeral that is read has a value, which is a fraction: what the       *)
(* tokens so far come to is made of integers in every language.            *)
(***************************************************************************)
SumType == [total : Int, group : Int, digit : Int, got : BOOLEAN, neg : BOOLEAN]
NumeralInv ==
  /\ numeral \in Numerals \cup InBraces \cup {NoNumeral}
  /\ stage \in {"roman", "braille"} => rest = numeral.tokens
  /\ stage = "read" => value \in Fractions
  /\ lang \in DOMAIN Registered
  /\ sum \in SumType

LEMMA CellsOfText ==
  ASSUME NEW cells \in Seq(STRING)
  PROVE  BrailleCells(cells) \in Seq(STRING)
<1>1. ASSUME NEW sign, NEW c \in Seq(STRING)
      PROVE  Without(sign, c) \in Seq(STRING)
  <2>1. c # <<>> => Tail(c) \in Seq(STRING)
    OBVIOUS
  <2> QED BY <2>1 DEF Without
<1> QED BY <1>1 DEF BrailleCells

LEMMA ElementOfSeq ==
  ASSUME NEW S, NEW s \in Seq(S), NEW i \in 1..Len(s)
  PROVE  s[i] \in S
OBVIOUS

LEMMA TextsAre ==
  ASSUME NumeralAssumption, numeral \in Numerals \cup InBraces \cup {NoNumeral}
  PROVE  numeral.tokens \in Texts
<1>1. NoNumeral.tokens = <<>> /\ <<>> \in Texts
  BY DEF NoNumeral, Texts
<1>2. CASE numeral = NoNumeral
  BY <1>1, <1>2
<1>3. CASE numeral \in Numerals \cup InBraces
  BY <1>3 DEF NumeralAssumption, Texts
<1> QED BY <1>2, <1>3

LEMMA ReadKeeps ==
  ASSUME NumeralInv, NEW x \in Fractions, Read(x)
  PROVE  NumeralInv'
BY DEF NumeralInv, Read

LEMMA WholeIsRead ==
  ASSUME NumeralInv, NEW n \in Int, Read(Rat(n))
  PROVE  NumeralInv'
BY Whole, ReadKeeps

\* What only goes on: the stage is one at which nothing was read.
LEMMA GoesOn ==
  ASSUME NumeralInv, UNCHANGED numeral, stage' \notin {"roman", "braille", "read"},
         lang' \in DOMAIN Registered, sum' \in SumType
  PROVE  NumeralInv'
BY DEF NumeralInv

LEMMA NothingIsSum == Nothing \in SumType
BY DEF Nothing, NoDigit, SumType

\* There is a first language, and one behind each but the last.
LEMMA LanguagesFollow ==
  /\ 1 \in DOMAIN Registered
  /\ \A l \in DOMAIN Registered : l # Len(Registered) => l + 1 \in DOMAIN Registered
<1>1. Len(Registered) = 16 /\ DOMAIN Registered = 1..16
  BY DEF Registered
<1> QED BY <1>1

LEMMA TableOfLanguage ==
  ASSUME NumeralInv
  PROVE  /\ \A word \in DOMAIN L.adds : L.adds[word] \in Int
         /\ \A word \in DOMAIN L.scales : L.scales[word] \in Int
<1>1. lang \in DOMAIN Registered
  BY DEF NumeralInv
<1>2. /\ \A word \in DOMAIN L.adds : L.adds[word] \in Nat
      /\ \A word \in DOMAIN L.scales : L.scales[word] \in Nat
  BY <1>1, TablesAssumption DEF L
<1> QED BY <1>2

LEMMA RomanKeeps ==
  ASSUME NumeralAssumption, NumeralInv, TryRoman
  PROVE  NumeralInv'
<1>1. rest \in Seq(Seq(STRING)) /\ lang \in DOMAIN Registered /\ sum \in SumType
  BY TextsAre DEF TryRoman, NumeralInv, Texts
<1>2. CASE Read(Zero)
  BY <1>2, WholeIsRead DEF Zero
<1>3. CASE Len(rest) = 1 /\ IsRoman(rest[1]) /\ Read(Rat(RomanTotal(rest[1])))
  <2>1. 1 \in 1..Len(rest)
    BY <1>3
  <2>2. rest[1] \in Seq(STRING)
    BY <1>1, <2>1, ElementOfSeq
  <2> QED BY <1>3, <2>2, RomanIsNumber, WholeIsRead
<1>4. CASE GoTo("braille")
  BY <1>4 DEF TryRoman, NumeralInv, GoTo
<1> QED BY <1>2, <1>3, <1>4 DEF TryRoman

LEMMA BrailleKeeps ==
  ASSUME NumeralAssumption, NumeralInv, TryBraille
  PROVE  NumeralInv'
<1> DEFINE cells == BrailleCells(rest[1])
           n == BrailleNumber(cells)
           x == IF Head(rest[1]) = brailleHyphen THEN Neg(n) ELSE n
<1>1. rest \in Texts
  BY TextsAre DEF TryBraille, NumeralInv
<1>2. CASE Len(rest) = 1 /\ IsBraille(cells)
  <2>1. rest[1] \in Seq(STRING)
    <3>1. 1 \in 1..Len(rest)
      BY <1>2
    <3>2. rest \in Seq(Seq(STRING))
      BY <1>1 DEF Texts
    <3> QED BY <3>1, <3>2, ElementOfSeq
  <2>2. cells \in Seq(STRING)
    BY <2>1, CellsOfText
  <2>3. n \in Fractions
    BY <1>2, <2>2, BrailleIsNumber
  <2>4. Read(x)
    BY <1>2 DEF TryBraille
  <2> HIDE DEF n
  <2>5. x \in Fractions
    BY <2>3, NegIs
  <2> HIDE DEF x
  <2> QED BY <2>4, <2>5, ReadKeeps
<1>3. CASE ~(Len(rest) = 1 /\ IsBraille(cells))
  <2>1. GoTo("language")
    BY <1>3 DEF TryBraille
  <2> QED BY <2>1, GoesOn DEF GoTo, NumeralInv
<1> QED BY <1>2, <1>3

LEMMA LanguageKeeps ==
  ASSUME NumeralInv, TryLanguage
  PROVE  NumeralInv'
<1>1. sum \in SumType /\ lang \in DOMAIN Registered
  BY DEF NumeralInv
<1>2. /\ UNCHANGED <<numeral, lang>> /\ sum' \in SumType
      /\ stage' \in {"positional", "eighty", "prepare"}
  <2>1. CASE L.hook = "positional"
    BY <1>1, <2>1 DEF TryLanguage, GoTo
  <2>2. CASE L.hook # "positional" /\ L.hook = "quatre-vingt" /\ QuatreVingt(rest)
    <3>1. sum' = [sum EXCEPT !.total = 80] /\ UNCHANGED <<numeral, lang>> /\ stage' = "eighty"
      BY <2>2 DEF TryLanguage
    <3> QED BY <1>1, <3>1 DEF SumType
  <2>3. CASE L.hook # "positional" /\ ~(L.hook = "quatre-vingt" /\ QuatreVingt(rest))
    BY <1>1, <2>3 DEF TryLanguage, GoTo
  <2> QED BY <2>1, <2>2, <2>3
<1> QED BY <1>1, <1>2, GoesOn

LEMMA NextLanguageKeeps ==
  ASSUME NumeralInv, NextLanguage
  PROVE  NumeralInv'
<1>1. lang' \in DOMAIN Registered /\ stage' \in {"refused", "language"}
  BY LanguagesFollow DEF NextLanguage, NumeralInv
<1>2. UNCHANGED numeral /\ sum' \in SumType
  BY NothingIsSum DEF NextLanguage
<1> QED BY <1>1, <1>2, GoesOn

LEMMA GenericKeeps ==
  ASSUME NumeralInv, Generic
  PROVE  NumeralInv'
BY GoesOn, NothingIsSum DEF Generic, NumeralInv

LEMMA TakeKeeps ==
  ASSUME NumeralInv, NEW new \in SumType, Take(new), stage \notin {"roman", "braille", "read"}
  PROVE  NumeralInv'
BY GoesOn DEF Take, NumeralInv

\* What is added, and what a scale makes of the group, are numbers.
LEMMA FlushedIsNumber ==
  ASSUME NEW total \in Int, NEW group \in Int, NEW scale \in Int
  PROVE  Flushed(total, group, scale) \in Int
<1> DEFINE times == IF group = 0 THEN 1 ELSE group
<1>1. times \in Int /\ Flushed(total, group, scale) = total + scale * times
  BY DEF Flushed
<1> HIDE DEF times
<1> QED BY <1>1

LEMMA SumIs ==
  ASSUME NumeralInv
  PROVE  /\ sum \in SumType
         /\ sum.total \in Int /\ sum.group \in Int /\ sum.digit \in Int /\ Pending \in Int
BY DEF NumeralInv, SumType, Pending

\* A sum whose fields change is a sum.
LEMMA SumChanges ==
  ASSUME NEW s \in SumType, NEW total \in Int, NEW group \in Int, NEW digit \in Int
  PROVE  /\ [s EXCEPT !.total = total, !.group = group, !.digit = digit] \in SumType
         /\ [s EXCEPT !.total = total, !.group = group, !.got = TRUE] \in SumType
         /\ [s EXCEPT !.group = group, !.digit = digit] \in SumType
         /\ [s EXCEPT !.group = group] \in SumType
<1>1. [s EXCEPT !.total = total, !.group = group, !.digit = digit] \in SumType
  BY DEF SumType
<1>2. [s EXCEPT !.total = total, !.group = group, !.got = TRUE] \in SumType
  BY DEF SumType
<1>3. [s EXCEPT !.group = group, !.digit = digit] \in SumType
  BY DEF SumType
<1>4. [s EXCEPT !.group = group] \in SumType
  BY DEF SumType
<1> QED BY <1>1, <1>2, <1>3, <1>4

LEMMA PositionalKeeps ==
  ASSUME NumeralInv, PositionalDigit \/ PositionalScale \/ PositionalOther \/ PositionalEnd
  PROVE  NumeralInv'
<1>1. CASE PositionalDigit
  <2> DEFINE word == Head(rest)
             d == L.adds[word]
             new == [sum EXCEPT !.digit = d]
  <2>1. stage = "positional" /\ d \in Int /\ (Generic \/ Take(new))
    BY <1>1, TableOfLanguage DEF PositionalDigit
  <2> HIDE DEF d
  <2>2. new \in SumType
    BY <2>1, SumIs DEF SumType
  <2> HIDE DEF new
  <2> QED BY <2>1, <2>2, GenericKeeps, TakeKeeps
<1>2. CASE PositionalScale
  <2> DEFINE scale == L.scales[Head(rest)]
             digit == IF sum.digit = NoDigit THEN 1 ELSE sum.digit
             flushed == Flushed(sum.total, sum.group + Pending, scale)
             grown == sum.group + digit * scale
             flush == [sum EXCEPT !.total = flushed, !.group = 0, !.digit = NoDigit]
             grow == [sum EXCEPT !.group = grown, !.digit = NoDigit]
  <2>1. stage = "positional" /\ scale \in Int /\ (Take(flush) \/ Take(grow))
    BY <1>2, TableOfLanguage DEF PositionalScale
  <2>2. digit \in Int /\ sum.group + Pending \in Int
    BY SumIs
  <2> HIDE DEF scale, digit
  <2>3. flushed \in Int /\ grown \in Int
    BY <2>1, <2>2, SumIs, FlushedIsNumber
  <2> HIDE DEF flushed, grown
  <2>4. flush \in SumType /\ grow \in SumType
    <3>1. NoDigit \in Int /\ 0 \in Int
      BY DEF NoDigit
    <3> QED BY <2>3, <3>1, SumIs, SumChanges
  <2> HIDE DEF flush, grow
  <2> QED BY <2>1, <2>4, TakeKeeps
<1>3. CASE PositionalOther
  BY <1>3, GenericKeeps DEF PositionalOther
<1>4. CASE PositionalEnd
  <2>1. sum.total + sum.group + Pending \in Int
    BY SumIs
  <2> QED BY <1>4, <2>1, WholeIsRead DEF PositionalEnd
<1> QED BY <1>1, <1>2, <1>3, <1>4

LEMMA EightyKeeps ==
  ASSUME NumeralInv, Eighty \/ EightyEnd
  PROVE  NumeralInv'
<1>1. CASE Eighty
  <2> DEFINE word == Head(rest)
             new == [sum EXCEPT !.total = @ + L.adds[word]]
  <2>1. stage = "eighty" /\ (Generic \/ Take(sum) \/ (word \in DOMAIN L.adds /\ Take(new)))
    BY <1>1 DEF Eighty
  <2>2. ASSUME word \in DOMAIN L.adds PROVE new \in SumType
    <3>1. L.adds[word] \in Int
      BY <2>2, TableOfLanguage
    <3>2. sum.total + L.adds[word] \in Int
      BY <3>1, SumIs
    <3> QED BY <3>2, SumIs DEF SumType
  <2> HIDE DEF new, word
  <2> QED BY <2>1, <2>2, SumIs, GenericKeeps, TakeKeeps
<1>2. CASE EightyEnd
  BY <1>2, SumIs, WholeIsRead DEF EightyEnd
<1> QED BY <1>1, <1>2

LEMMA PrepareKeeps ==
  ASSUME NumeralInv, Prepare
  PROVE  NumeralInv'
<1> DEFINE tokens == Preprocess(rest)
           neg == tokens # <<>> /\ Head(tokens) \in L.negative
           new == [sum EXCEPT !.neg = neg]
<1>1. neg \in BOOLEAN
  OBVIOUS
<1>2. NextLanguage \/ (stage' = "engine" /\ sum' = new /\ UNCHANGED <<numeral, lang>>)
  BY DEF Prepare
<1> HIDE DEF neg
<1>3. new \in SumType
  BY <1>1, SumIs DEF SumType
<1> HIDE DEF new
<1>4. CASE stage' = "engine" /\ sum' = new /\ UNCHANGED <<numeral, lang>>
  BY <1>3, <1>4, GoesOn DEF NumeralInv
<1> QED BY <1>2, <1>4, NextLanguageKeeps

LEMMA EngineKeeps ==
  ASSUME NumeralInv, EngineSkip \/ EngineAdd \/ EngineScale \/ EngineOther \/ EngineEnd
  PROVE  NumeralInv'
<1>1. CASE EngineSkip
  BY <1>1, SumIs, TakeKeeps DEF EngineSkip
<1>2. CASE EngineAdd
  <2> DEFINE d == L.adds[Head(rest)]
             new == [sum EXCEPT !.group = @ + d, !.got = TRUE]
  <2>1. stage = "engine" /\ d \in Int /\ Take(new)
    BY <1>2, TableOfLanguage DEF EngineAdd, Engine
  <2> HIDE DEF d
  <2>2. sum.group + d \in Int
    BY <2>1, SumIs
  <2>3. new \in SumType
    BY <2>2, SumIs DEF SumType
  <2> HIDE DEF new
  <2> QED BY <2>1, <2>3, TakeKeeps
<1>3. CASE EngineScale
  <2> DEFINE scale == L.scales[Head(rest)]
             flushed == Flushed(sum.total, sum.group, scale)
             grown == sum.group * scale
             flush == [sum EXCEPT !.total = flushed, !.group = 0, !.got = TRUE]
             grow == [sum EXCEPT !.group = grown]
  <2>1. stage = "engine" /\ scale \in Int /\ (NextLanguage \/ Take(flush) \/ Take(grow))
    BY <1>3, TableOfLanguage DEF EngineScale, Engine
  <2> HIDE DEF scale
  <2>2. flushed \in Int /\ grown \in Int
    BY <2>1, SumIs, FlushedIsNumber
  <2> HIDE DEF flushed, grown
  <2>3. flush \in SumType /\ grow \in SumType
    <3>1. 0 \in Int
      OBVIOUS
    <3> QED BY <2>2, <3>1, SumIs, SumChanges
  <2> HIDE DEF flush, grow
  <2> QED BY <2>1, <2>3, TakeKeeps, NextLanguageKeeps
<1>4. CASE EngineOther
  BY <1>4, NextLanguageKeeps DEF EngineOther
<1>5. CASE EngineEnd
  <2> DEFINE n == sum.total + sum.group
             x == IF sum.neg THEN -n ELSE n
  <2>1. n \in Int
    BY SumIs
  <2>2. NextLanguage \/ Read(Rat(x))
    BY <1>5 DEF EngineEnd
  <2> HIDE DEF n
  <2>3. x \in Int
    BY <2>1
  <2> HIDE DEF x
  <2> QED BY <2>2, <2>3, WholeIsRead, NextLanguageKeeps
<1> QED BY <1>1, <1>2, <1>3, <1>4, <1>5

LEMMA NumeralKeeps ==
  ASSUME NumeralAssumption, NumeralInv, NumeralStep
  PROVE  NumeralInv'
BY RomanKeeps, BrailleKeeps, LanguageKeeps, PositionalKeeps, EightyKeeps, PrepareKeeps,
   EngineKeeps DEF NumeralStep

LEMMA BeginKeeps ==
  ASSUME NumeralInv, BeginNumeral
  PROVE  NumeralInv' /\ UNCHANGED exprVars
<1>1. PICK n \in Numerals \cup InBraces : numeral' = n /\ rest' = n.tokens
  BY DEF BeginNumeral, Begin
<1>2. stage' = "roman" /\ UNCHANGED <<lang, sum>> /\ UNCHANGED exprVars
  BY DEF BeginNumeral, Begin
<1> QED BY <1>1, <1>2 DEF NumeralInv

\* What ReadsWhatIsMeant says, of the numerals in braces only.
BracesAreReadAsMeant == numeral \in InBraces => ReadsWhatIsMeant

\* In braces a numeral is a number, and if strict the one that it means.
LEMMA ElementKeeps ==
  ASSUME NEW strict, strict => BracesAreReadAsMeant, ExprInv(strict), NumeralInv, NumeralElement
  PROVE  ExprInv(strict)' /\ NumeralInv'
<1>1. /\ numeral \in InBraces /\ UNCHANGED stack /\ stage' = "none" /\ numeral' = NoNumeral
      /\ lang' = 1 /\ sum' = Nothing
      /\ \/ UNCHANGED elements
         \/ /\ stage = "read"
            /\ elements' = Append(elements, Entry(PointValue(value), {numeral.meant}, TRUE))
  BY DEF NumeralElement
<1>2. NumeralInv'
  BY <1>1, LanguagesFollow, NothingIsSum DEF NumeralInv
<1>3. CASE UNCHANGED elements
  BY <1>1, <1>2, <1>3 DEF ExprInv, StackIsRight, BracesAreRight
<1>4. CASE /\ stage = "read"
           /\ elements' = Append(elements, Entry(PointValue(value), {numeral.meant}, TRUE))
  <2>1. value \in Fractions /\ (strict => value = numeral.meant)
    BY <1>1, <1>4 DEF BracesAreReadAsMeant, ReadsWhatIsMeant, NumeralInv
  <2> DEFINE e == Entry(PointValue(value), {numeral.meant}, TRUE)
  <2>2. RightInBraces(strict, e)
    <3>1. Tells(strict, PointValue(value), {value})
      BY <2>1, PointEncloses, Told
    <3>2. Tells(strict, PointValue(value), {numeral.meant})
      BY <2>1, <3>1, ToldOfTheSame
    <3> QED BY <3>2, EntryIsRight, RightIsRightInBraces
  <2> HIDE DEF e
  <2>3. BracesAreRight(strict)'
    BY <1>4, <2>2, BracesGrow DEF ExprInv, e
  <2> QED BY <1>1, <1>2, <2>3 DEF ExprInv, StackIsRight
<1> QED BY <1>1, <1>3, <1>4

ParseInv(strict) == ExprInv(strict) /\ NumeralInv

LEMMA ParseInit ==
  ASSUME NEW strict, Init
  PROVE  ParseInv(strict)
<1>1. /\ stack = <<>> /\ elements = <<>> /\ numeral = NoNumeral /\ stage = "none"
      /\ lang = 1 /\ sum = Nothing
  BY DEF Init, InitExpression, InitNumeral
<1>2. <<>> \in Seq({}) /\ \A e \in {} : Right(strict, e) /\ RightInBraces(strict, e)
  OBVIOUS
<1>3. StackIsRight(strict) /\ BracesAreRight(strict)
  <2>1. stack \in Seq({}) /\ elements \in Seq({})
    BY <1>1
  <2> QED BY <1>2, <2>1 DEF StackIsRight, BracesAreRight
<1> QED BY <1>1, <1>3, LanguagesFollow, NothingIsSum DEF ParseInv, ExprInv, NumeralInv

LEMMA ParseNext ==
  ASSUME NEW strict, InputAssumption, NumeralAssumption, strict => BracesAreReadAsMeant,
         ParseInv(strict), [Next]_vars
  PROVE  ParseInv(strict)'
<1>1. ASSUME UNCHANGED exprVars PROVE ExprInv(strict)'
  BY <1>1 DEF ParseInv, exprVars, ExprInv, StackIsRight, BracesAreRight
<1>2. ASSUME UNCHANGED numeralVars PROVE NumeralInv'
  BY <1>2 DEF ParseInv, numeralVars, NumeralInv
<1>3. CASE BeginNumeral
  BY <1>1, <1>3, BeginKeeps DEF ParseInv
<1>4. CASE ReadNumeral
  BY <1>1, <1>4, NumeralKeeps DEF ParseInv, ReadNumeral
<1>5. CASE NumeralElement
  BY <1>5, ElementKeeps DEF ParseInv
<1>6. CASE ExpressionStep /\ UNCHANGED numeralVars
  BY <1>2, <1>6, ExpressionKeeps DEF ParseInv
<1>7. CASE UNCHANGED vars
  BY <1>1, <1>2, <1>7 DEF ParseInv, vars, exprVars, numeralVars
<1> QED BY <1>3, <1>4, <1>5, <1>6, <1>7 DEF Next

\* Of every regular input, however long and deep, with any bounds on points and factorials and
\* any width of integers, each value is finite and has numbers, its ends are the extremes of its
\* points, and a set of points has at least two, at every step of the evaluation, also where a
\* numeral of any language, or a Roman or Braille one, is an element of a set: whatever number it
\* is read as (parse.go:60-101, expr.go:308-506, multilang.go:95-156).
THEOREM ValuesWellFormed == Spec => []ValuesAreWellFormed
<1> DEFINE Holds == ParseInv(FALSE)
<1>1. Init => Holds
  BY ParseInit
<1>2. Holds /\ [Next]_vars => Holds'
  BY InputAssumption, NumeralAssumption, ParseNext
<1>3. Holds => ValuesAreWellFormed
  BY ExprInvMeans DEF ParseInv
<1> HIDE DEF Holds
<1> QED BY <1>1, <1>2, <1>3, PTL DEF Spec

\* Where numerals in braces, if any, are read as what they mean, for the same inputs, a point or a
\* set of points is exactly what was written, and a range has all of it inside, whatever the signs
\* of the ends, also where a set turned into a range because it became too large
\* (expr.go:308-506, set.go:85-128).
THEOREM ValuesEnclosed == Spec /\ []BracesAreReadAsMeant => []ValuesEnclose
<1> DEFINE Holds == ParseInv(TRUE)
<1>1. Init => Holds
  BY ParseInit
<1>2. BracesAreReadAsMeant /\ Holds /\ [Next]_vars => Holds'
  BY InputAssumption, NumeralAssumption, ParseNext
<1>3. Holds => ValuesEnclose
  BY ExprInvMeans DEF ParseInv
<1> HIDE DEF Holds
<1> QED BY <1>1, <1>2, <1>3, PTL DEF Spec
=============================================================================
