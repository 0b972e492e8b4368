---------------------------- MODULE InductionProofs ----------------------------
(***************************************************************************)
(* Induction over the natural numbers and what follows from it, for sets   *)
(* and functions: the theorems of the library have operators as parameters. *)
(***************************************************************************)
EXTENDS Integers, FiniteSetsExt, FiniteSetTheorems, TLAPS

(***************************************************************************)
(* Of the initial intervals that end outside of the set, one is least.     *)
(***************************************************************************)
LEMMA LeastExists ==
  ASSUME NEW T \in SUBSET Nat, T # {}
  PROVE  \E x \in T : \A y \in T : ~(y < x)
<1> DEFINE downs == {0..x : x \in T}
<1>1. downs \subseteq FiniteSubsetsOf(Nat) /\ downs # {}
  <2>1. \A x \in T : 0..x \in SUBSET Nat /\ IsFiniteSet(0..x)
    BY FS_Interval
  <2> QED BY <2>1 DEF FiniteSubsetsOf
<1>2. PICK d \in downs : \A e \in downs : ~(<<e, d>> \in StrictSubsetOrdering(Nat))
  <2> HIDE DEF downs
  <2> QED BY <1>1, FS_StrictSubsetOrderingWellFounded, WFMin
<1>3. PICK x \in T : d = 0..x
  OBVIOUS
<1>4. ASSUME NEW y \in T, y < x PROVE FALSE
  <2>1. 0..y \in SUBSET Nat /\ 0..x \in SUBSET Nat /\ 0..y \subseteq 0..x
    BY <1>4
  <2>2. x \in 0..x /\ x \notin 0..y
    BY <1>4
  <2>3. <<0..y, 0..x>> \in StrictSubsetOrdering(Nat)
    BY <2>1, <2>2 DEF StrictSubsetOrdering
  <2> QED BY <1>2, <1>3, <2>3
<1> QED BY <1>3, <1>4

LEMMA Induction ==
  ASSUME NEW T, 0 \in T, \A n \in Nat : n \in T => n + 1 \in T
  PROVE  Nat \subseteq T
<1> SUFFICES ASSUME Nat \ T # {} PROVE FALSE
  OBVIOUS
<1>1. PICK x \in Nat \ T : \A y \in Nat \ T : ~(y < x)
  BY LeastExists
<1>2. x # 0 /\ x - 1 \in Nat /\ x - 1 < x /\ x = (x - 1) + 1
  OBVIOUS
<1>3. x - 1 \in T
  BY <1>1, <1>2
<1> QED BY <1>2, <1>3

\* In a fold over a sequence the last index is taken off first.
LEMMA LargestIs ==
  ASSUME NEW k \in Nat, NEW s \in SUBSET (1..k), k \in s
  PROVE  Max(s) = k
<1>1. k \in s /\ \A y \in s : k >= y
  OBVIOUS
<1>2. \A x \in s : (\A y \in s : x >= y) => x = k
  <2> SUFFICES ASSUME NEW x \in s, \A y \in s : x >= y PROVE x = k
    OBVIOUS
  <2>1. x >= k /\ x \in 1..k
    OBVIOUS
  <2> QED BY <2>1
<1> QED BY <1>1, <1>2 DEF Max
-----------------------------------------------------------------------------
(***************************************************************************)
(* Functions that are defined by recursion over the natural numbers exist. *)
(***************************************************************************)
Recurs(f, S, c, h) ==
  f \in [Nat -> S] /\ \A k \in Nat : f[k] = IF k = 0 THEN c ELSE h[<<k, f[k - 1]>>]

LEMMA RecursionWorks ==
  ASSUME NEW S, NEW c \in S, NEW h \in [Nat \X S -> S]
  PROVE  \E f : Recurs(f, S, c, h)
<1> DEFINE Upto(f, n) == /\ f \in [0..n -> S] /\ f[0] = c
                         /\ \A k \in 1..n : f[k] = h[<<k, f[k - 1]>>]
<1>1. ASSUME NEW n \in Nat PROVE \E f : Upto(f, n)
  <2> DEFINE T == {m \in Nat : \E f : Upto(f, m)}
  <2>1. 0 \in T
    <3>1. Upto([k \in 0..0 |-> c], 0)
      OBVIOUS
    <3> QED BY <3>1
  <2>2. ASSUME NEW m \in Nat, m \in T PROVE m + 1 \in T
    <3>1. PICK f : Upto(f, m)
      BY <2>2
    <3> DEFINE e == h[<<m + 1, f[m]>>]
               g == [k \in 0..(m + 1) |-> IF k = m + 1 THEN e ELSE f[k]]
    <3>2. e \in S
      BY <3>1
    <3> HIDE DEF e
    <3>3. g \in [0..(m + 1) -> S] /\ g[0] = c
      BY <3>1, <3>2
    <3>4. ASSUME NEW k \in 1..(m + 1) PROVE g[k] = h[<<k, g[k - 1]>>]
      <4>1. g[k - 1] = f[k - 1]
        OBVIOUS
      <4>2. CASE k = m + 1
        <5>1. g[k] = h[<<m + 1, f[m]>>] /\ k - 1 = m
          BY <4>2 DEF e
        <5> QED BY <4>1, <4>2, <5>1
      <4>3. CASE k \in 1..m
        <5>1. g[k] = f[k] /\ f[k] = h[<<k, f[k - 1]>>]
          BY <3>1, <4>3
        <5> QED BY <4>1, <5>1
      <4> QED BY <4>2, <4>3
    <3>5. Upto(g, m + 1)
      <4> HIDE DEF g
      <4> QED BY <3>3, <3>4
    <3>6. \E x : Upto(x, m + 1)
      BY <3>5
    <3> HIDE DEF Upto
    <3> QED BY <3>6
  <2> HIDE DEF T
  <2>3. n \in T
    BY <2>1, <2>2, Induction
  <2> HIDE DEF Upto
  <2> QED BY <2>3 DEF T
<1>2. ASSUME NEW m \in Nat, NEW n \in Nat, NEW f, NEW g, Upto(f, m), Upto(g, n), m <= n
      PROVE  \A k \in 0..m : f[k] = g[k]
  <2> DEFINE T == {k \in Nat : k \in 0..m => f[k] = g[k]}
  <2>1. 0 \in T
    BY <1>2
  <2>2. ASSUME NEW k \in Nat, k \in T PROVE k + 1 \in T
    <3> SUFFICES ASSUME k + 1 \in 0..m PROVE f[k + 1] = g[k + 1]
      OBVIOUS
    <3>1. k \in 0..m /\ k + 1 \in 1..m /\ k + 1 \in 1..n /\ (k + 1) - 1 = k
      BY <1>2
    <3>2. f[k + 1] = h[<<k + 1, f[k]>>] /\ g[k + 1] = h[<<k + 1, g[k]>>]
      BY <1>2, <3>1
    <3> QED BY <2>2, <3>1, <3>2
  <2> HIDE DEF T
  <2>3. Nat \subseteq T
    BY <2>1, <2>2, Induction
  <2> QED BY <2>3 DEF T
<1> DEFINE A(n) == CHOOSE f : Upto(f, n)
           F == [n \in Nat |-> A(n)[n]]
<1>3. \A n \in Nat : Upto(A(n), n)
  <2> HIDE DEF Upto
  <2> QED BY <1>1
<1> HIDE DEF A
<1>4. F \in [Nat -> S]
  BY <1>3
<1>5. ASSUME NEW k \in Nat PROVE F[k] = IF k = 0 THEN c ELSE h[<<k, F[k - 1]>>]
  <2>1. CASE k = 0
    BY <1>3, <2>1
  <2>2. CASE k # 0
    <3>1. k - 1 \in Nat /\ k - 1 <= k /\ k - 1 \in 0..(k - 1) /\ k \in 1..k
      BY <2>2
    <3>2. Upto(A(k), k) /\ Upto(A(k - 1), k - 1)
      BY <1>3, <3>1
    <3>3. A(k)[k - 1] = A(k - 1)[k - 1]
      <4> HIDE DEF Upto
      <4> QED BY <1>2, <3>1, <3>2
    <3>4. A(k)[k] = h[<<k, A(k)[k - 1]>>]
      BY <3>1, <3>2
    <3> QED BY <2>2, <3>1, <3>3, <3>4
  <2> QED BY <2>1, <2>2
<1> HIDE DEF F
<1> QED BY <1>4, <1>5 DEF Recurs
=============================================================================
