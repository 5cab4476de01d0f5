---------------------------- MODULE NumberLemmas ----------------------------
(***************************************************************************)
(* Sets of natural numbers: the least and the greatest that a definition   *)
(* chooses, induction with a set in place of a predicate, and functions    *)
(* that are defined by recursion.                                          *)
(***************************************************************************)
EXTENDS Integers, WellFoundedInduction, TLAPS

LEMMA LeastOf ==
  ASSUME NEW S \in SUBSET Nat, S # {}
  PROVE  \E n \in S : \A k \in S : n <= k
<1>1. \E n \in S : \A k \in S : ~ (<<k, n>> \in OpToRel(<, Nat))
  BY NatLessThanWellFounded, WFMin
<1>2. \A n, k \in Nat : k < n => <<k, n>> \in OpToRel(<, Nat)
  BY DEF OpToRel
<1>3. PICK n \in S : \A k \in S : ~ (<<k, n>> \in OpToRel(<, Nat))
  BY <1>1
<1> HIDE DEF OpToRel
<1>4. \A k \in S : n \in Nat /\ k \in Nat /\ ~(k < n)
  BY <1>2, <1>3
<1>5. \A k \in S : n <= k
  BY <1>4
<1>6. QED
  BY <1>5

\* CHOOSE finds it.
LEMMA LeastChosen ==
  ASSUME NEW S \in SUBSET Nat, S # {}
  PROVE  /\ (CHOOSE n \in S : \A k \in S : n <= k) \in S
         /\ \A k \in S : (CHOOSE n \in S : \A j \in S : n <= j) <= k
BY LeastOf

\* A set without numbers above a bound has a greatest.
LEMMA GreatestOf ==
  ASSUME NEW S \in SUBSET Nat, S # {}, NEW b \in Nat, \A k \in S : k <= b
  PROVE  \E n \in S : \A k \in S : k <= n
<1> DEFINE T == {j \in Nat : \A k \in S : k <= j}
<1>1. T \in SUBSET Nat /\ b \in T
  OBVIOUS
<1>2. PICK n \in T : \A k \in T : n <= k
  <2> HIDE DEF T
  <2>1. QED
    BY <1>1, LeastOf
<1>3. n \in Nat /\ \A k \in S : k <= n
  BY <1>2
<1>4. n \in S
  <2>1. SUFFICES ASSUME n \notin S PROVE FALSE
    OBVIOUS
  <2>2. \A k \in S : k \in Nat /\ k <= n /\ k # n
    BY <1>3, <2>1
  <2>3. n # 0
    <3>1. PICK k \in S : TRUE
      OBVIOUS
    <3>2. k \in Nat /\ k <= n /\ k # n
      BY <2>2
    <3>3. QED
      BY <3>2, <1>3
  <2>4. n - 1 \in Nat /\ \A k \in S : k <= n - 1
    BY <1>3, <2>2, <2>3
  <2>5. n - 1 \in T
    BY <2>4
  <2>6. n <= n - 1
    BY <1>2, <2>5
  <2>7. QED
    BY <1>3, <2>6
<1>5. QED
  BY <1>3, <1>4

LEMMA GreatestChosen ==
  ASSUME NEW S \in SUBSET Nat, S # {}, NEW b \in Nat, \A k \in S : k <= b
  PROVE  /\ (CHOOSE n \in S : \A k \in S : n >= k) \in S
         /\ \A k \in S : (CHOOSE n \in S : \A j \in S : n >= j) >= k
<1>1. PICK n \in S : \A k \in S : k <= n
  BY GreatestOf
<1>2. \A k \in S : n >= k
  BY <1>1
<1>3. QED
  BY <1>2

LEMMA Induction ==
  ASSUME NEW S \in SUBSET Nat, 0 \in S, \A n \in S : n + 1 \in S
  PROVE  S = Nat
<1>1. SUFFICES ASSUME Nat \ S # {} PROVE FALSE
  OBVIOUS
<1>2. PICK n \in Nat \ S : \A k \in Nat \ S : n <= k
  BY <1>1, LeastOf
<1>3. n # 0 /\ n - 1 \in Nat /\ n - 1 \in S
  BY <1>2
<1>4. QED
  BY <1>2, <1>3

\* F makes of a function in W another, each of whose values at x depends on those of the
\* first where size is smaller.
Recursive(D, size, bound, W, F) ==
  /\ bound \in Nat /\ \A x \in D : size[x] \in 0 .. bound
  /\ W # {} /\ \A f \in W : F[f] \in W
  /\ \A f, g \in W : \A x \in D :
       (\A y \in D : size[y] < size[x] => f[y] = g[y]) => F[f][x] = F[g][x]

\* It has a fixed point in W: repeating it settles the values in the order of their sizes.
LEMMA Recursion ==
  ASSUME NEW D, NEW size, NEW bound, NEW W, NEW F, Recursive(D, size, bound, W, F)
  PROVE  \E f \in W : \A x \in D : F[f][x] = f[x]
<1> USE DEF Recursive
<1> DEFINE S == {n \in Nat : \E f \in W : \A x \in D : size[x] < n => F[f][x] = f[x]}
<1>1. 0 \in S
  OBVIOUS
<1>2. ASSUME NEW n \in S PROVE n + 1 \in S
  <2>1. PICK f \in W : \A x \in D : size[x] < n => F[f][x] = f[x]
    OBVIOUS
  <2> DEFINE g == F[f]
  <2>2. g \in W
    OBVIOUS
  <2>3. ASSUME NEW x \in D, size[x] < n + 1 PROVE F[g][x] = g[x]
    <3>1. n \in Nat /\ size[x] \in Nat
      OBVIOUS
    <3>2. \A y \in D : size[y] < size[x] => g[y] = f[y]
      <4>1. ASSUME NEW y \in D, size[y] < size[x] PROVE g[y] = f[y]
        <5>1. size[y] \in Nat
          OBVIOUS
        <5>2. size[y] < n
          BY <2>3, <3>1, <4>1, <5>1
        <5>3. QED
          BY <2>1, <5>2
      <4>2. QED
        BY <4>1
    <3> HIDE DEF g
    <3>3. F[g][x] = F[f][x]
      BY <2>2, <3>2
    <3>4. QED
      BY <3>3 DEF g
  <2> HIDE DEF g
  <2>4. n + 1 \in Nat
    OBVIOUS
  <2>5. QED
    BY <2>2, <2>3, <2>4
<1> HIDE DEF S
<1>3. S = Nat
  <2>1. S \in SUBSET Nat
    BY DEF S
  <2>2. QED
    BY <1>1, <1>2, <2>1, Induction
<1>4. PICK f \in W : \A x \in D : size[x] < bound + 1 => F[f][x] = f[x]
  <2>1. bound + 1 \in S
    BY <1>3
  <2>2. QED
    BY <2>1 DEF S
<1>5. \A x \in D : size[x] < bound + 1
  <2>1. bound \in Nat /\ \A x \in D : size[x] \in 0 .. bound
    OBVIOUS
  <2>2. QED
    BY <2>1
<1>6. QED
  BY <1>4, <1>5
=============================================================================
