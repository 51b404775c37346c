------------------------------ MODULE NatFacts ------------------------------
(* Induction over the natural numbers, from their well-foundedness, and     *)
(* what follows for least and greatest elements and for sums.               *)
EXTENDS Integers, Sequences, FiniteSetsExt, NaturalsInduction, WellFoundedInduction, TLAPS

LEMMA LeastElement ==
  ASSUME NEW T \in SUBSET Nat, T # {} PROVE \E x \in T : \A y \in T : x <= y
<1>1. PICK x \in T : \A y \in T : <<y, x>> \notin OpToRel(<, Nat)
  BY WFMin, NatLessThanWellFounded, Zenon
<1>2. \A y \in T : ~(y < x)
  BY <1>1, Zenon DEF OpToRel
<1> QED BY <1>2

LEMMA Induction ==
  ASSUME NEW T \in SUBSET Nat, 0 \in T, \A n \in T : n + 1 \in T PROVE T = Nat
<1> SUFFICES ASSUME Nat \ T # {} PROVE FALSE
  OBVIOUS
<1>1. PICK x \in Nat \ T : \A y \in Nat \ T : x <= y
  BY LeastElement
<1> QED BY <1>1

LEMMA MinNat ==
  ASSUME NEW T \in SUBSET Nat, T # {} PROVE Min(T) \in T /\ \A y \in T : Min(T) <= y
  BY LeastElement DEF Min

LEMMA MaxUpTo ==
  ASSUME NEW n \in Nat, NEW T \in SUBSET (1..n), T # {}
  PROVE  Max(T) \in T /\ \A y \in T : y <= Max(T)
<1> DEFINE distances == {d \in Nat : \E x \in T : d = n - x}
<1>1. \A x \in T : x \in 1..n /\ n - x \in distances
  OBVIOUS
<1>2. PICK d \in distances : \A e \in distances : d <= e
  <2>1. distances \in SUBSET Nat /\ distances # {}
    BY <1>1
  <2> HIDE DEF distances
  <2> QED BY <2>1, LeastElement
<1>3. PICK x \in T : d = n - x
  OBVIOUS
<1>4. ASSUME NEW y \in T PROVE x >= y
  <2>1. d <= n - y
    BY <1>1, <1>2
  <2> QED BY <1>1, <1>3, <2>1
<1> QED BY <1>4, <1>1 DEF Max

LEMMA MinOfThree ==
  ASSUME NEW a \in Int, NEW b \in Int, NEW c \in Int
  PROVE  /\ Min({a, b, c}) \in {a, b, c}
         /\ Min({a, b, c}) <= a /\ Min({a, b, c}) <= b /\ Min({a, b, c}) <= c
<1>1. \E x \in {a, b, c} : \A y \in {a, b, c} : x <= y
  OBVIOUS
<1> QED BY <1>1 DEF Min

LEMMA MaxOfTwo ==
  ASSUME NEW a \in Int, NEW b \in Int
  PROVE  Max({a, b}) \in {a, b} /\ Max({a, b}) >= a /\ Max({a, b}) >= b
<1>1. \E x \in {a, b} : \A y \in {a, b} : x >= y
  OBVIOUS
<1> QED BY <1>1 DEF Max

(* There is a function that adds up a sequence.                             *)
Adds(f, s, n) == f = [i \in 1..n + 1 |-> IF i = 1 THEN 0 ELSE f[i - 1] + s[i - 1]]

LEMMA OneMoreSum ==
  ASSUME NEW n \in Nat, NEW s, NEW f, Adds(f, s, n) PROVE \E g : Adds(g, s, n + 1)
<1> DEFINE g == [i \in 1..n + 1 + 1 |-> IF i <= n + 1 THEN f[i] ELSE f[n + 1] + s[n + 1]]
<1>1. ASSUME NEW i \in 1..n + 1 + 1
      PROVE  g[i] = IF i = 1 THEN 0 ELSE g[i - 1] + s[i - 1]
  <2>1. CASE i <= n + 1
    BY <2>1 DEF Adds
  <2>2. CASE i = n + 1 + 1
    BY <2>2
  <2> QED BY <2>1, <2>2
<1>2. DOMAIN g = 1..n + 1 + 1 /\ g = [i \in 1..n + 1 + 1 |-> g[i]]
  OBVIOUS
<1> HIDE DEF g
<1>3. g = [i \in 1..n + 1 + 1 |-> IF i = 1 THEN 0 ELSE g[i - 1] + s[i - 1]]
  BY <1>1, <1>2, Zenon
<1>4. Adds(g, s, n + 1)
  BY <1>3, Zenon DEF Adds
<1> QED BY <1>4

LEMMA SumsExist == ASSUME NEW s, NEW n \in Nat PROVE \E f : Adds(f, s, n)
<1> DEFINE T == {k \in Nat : \E f : Adds(f, s, k)}
<1>1. 0 \in T
  <2> DEFINE f == [i \in 1..1 |-> 0]
  <2>1. Adds(f, s, 0)
    BY DEF Adds
  <2> QED BY <2>1
<1>2. ASSUME NEW k \in T PROVE k + 1 \in T
  BY OneMoreSum
<1>3. T = Nat
  <2>1. T \in SUBSET Nat
    OBVIOUS
  <2> HIDE DEF T
  <2> QED BY <1>1, <1>2, <2>1, Induction
<1> QED BY <1>3

(* A sequence of sums never falls.                                          *)
LEMMA SumsAscend ==
  ASSUME NEW n \in Nat, NEW f, NEW s \in [1..n -> Nat],
         f[1] = 0, \A i \in 1..n : f[i + 1] = f[i] + s[i]
  PROVE  /\ \A i \in 1..n + 1 : f[i] \in Nat
         /\ \A i, k \in 1..n + 1 : i <= k => f[i] <= f[k]
<1> DEFINE T == {k \in Nat : k <= n => /\ f[k + 1] \in Nat
                                       /\ \A i \in 1..k + 1 : f[i] \in Nat /\ f[i] <= f[k + 1]}
<1>1. 0 \in T
  OBVIOUS
<1>2. ASSUME NEW k \in T PROVE k + 1 \in T
  <2> SUFFICES ASSUME k + 1 <= n
               PROVE  /\ f[k + 1 + 1] \in Nat
                      /\ \A i \in 1..k + 1 + 1 : f[i] \in Nat /\ f[i] <= f[k + 1 + 1]
    OBVIOUS
  <2>1. f[k + 1] \in Nat /\ \A i \in 1..k + 1 : f[i] \in Nat /\ f[i] <= f[k + 1]
    OBVIOUS
  <2>2. f[k + 1 + 1] = f[k + 1] + s[k + 1] /\ s[k + 1] \in Nat
    OBVIOUS
  <2> QED BY <2>1, <2>2
<1> HIDE DEF T
<1>3. T = Nat
  <2>1. T \in SUBSET Nat
    BY DEF T
  <2> QED BY <1>1, <1>2, <2>1, Induction
<1>4. ASSUME NEW k \in 1..n + 1
      PROVE  f[k] \in Nat /\ \A i \in 1..k : f[i] <= f[k]
  <2>1. k - 1 \in T
    BY <1>3
  <2> QED BY <2>1 DEF T
<1> QED BY <1>4
=============================================================================
