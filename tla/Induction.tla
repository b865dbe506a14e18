------------------------------ MODULE Induction ------------------------------
(***************************************************************************)
(* Induction on numbers for sets and functions that are given: the         *)
(* library's theorems, which take an operator, cannot be cited for them.   *)
(* With it, what is needed of powers of two.                               *)
(***************************************************************************)
EXTENDS Integers, FiniteSets, FiniteSetTheorems, FunctionTheorems,
        NaturalsInduction, WellFoundedInduction, TLAPS

\* A set of numbers that has one has a least.
LEMMA Least ==
  ASSUME NEW S \in SUBSET Nat, S # {}
  PROVE  \E n \in S : \A m \in S : n <= m
<1>1. PICK n \in S : \A m \in S : ~(<<m, n>> \in OpToRel(<, Nat))
  BY NatLessThanWellFounded, WFMin
<1>2. \A m \in S : ~(m < n)
  BY <1>1 DEF OpToRel
<1> QED
  BY <1>2

\* A set with 0 and, with each number, the next has all numbers up to N when the
\* next is asked for below N only.
LEMMA Induct ==
  ASSUME NEW N \in Nat, NEW G, 0 \in G, \A n \in 1..N : n - 1 \in G => n \in G
  PROVE  \A n \in 0..N : n \in G
<1> DEFINE S == {n \in 0..N : n \notin G}
<1> SUFFICES ASSUME S # {} PROVE FALSE
  OBVIOUS
<1>1. S \in SUBSET Nat /\ \A n : n \in S <=> n \in 0..N /\ n \notin G
  OBVIOUS
<1> HIDE DEF S
<1>2. PICK n \in S : \A m \in S : n <= m
  BY <1>1, Least
<1>3. n \in 1..N /\ n - 1 \in 0..N
  BY <1>1, <1>2
<1>4. n - 1 \notin S
  BY <1>1, <1>2, <1>3
<1> QED
  BY <1>1, <1>2, <1>3, <1>4

\* What N steps make of a, one after the other.
Steps(N, S) == [1..N -> [S -> S]]
Walks(N, S, a, step) ==
  {g \in [0..N -> S] : g[0] = a /\ \A n \in 1..N : g[n] = step[n][g[n - 1]]}

\* There is such a function.
LEMMA Iterates ==
  ASSUME NEW N \in Nat, NEW S, NEW a \in S, NEW step \in Steps(N, S)
  PROVE  Walks(N, S, a, step) # {}
<1> USE DEF Steps
<1> DEFINE Is(g, m) == /\ g \in [0..m -> S] /\ g[0] = a
                       /\ \A n \in 1..m : g[n] = step[n][g[n - 1]]
           G == {m \in 0..N : \E g : Is(g, m)}
<1>1. 0 \in G
  <2> DEFINE g == [n \in 0..0 |-> a]
  <2>1. g \in [0..0 -> S] /\ g[0] = a /\ 1..0 = {}
    OBVIOUS
  <2> HIDE DEF g
  <2>2. Is(g, 0)
    BY <2>1
  <2> QED
    BY <2>2
<1>2. ASSUME NEW m \in 1..N, m - 1 \in G PROVE m \in G
  <2>1. PICK f : Is(f, m - 1)
    BY <1>2
  <2> DEFINE g == [n \in 0..m |-> IF n = m THEN step[m][f[m - 1]] ELSE f[n]]
  <2>2. f[m - 1] \in S /\ step[m][f[m - 1]] \in S
    BY <2>1
  <2>3. g \in [0..m -> S]
    BY <2>1, <2>2
  <2>4. g[m] = step[m][f[m - 1]] /\ \A n \in 0..(m - 1) : g[n] = f[n]
    OBVIOUS
  <2> HIDE DEF g
  <2>5. ASSUME NEW n \in 1..m PROVE g[n] = step[n][g[n - 1]]
    <3>1. n - 1 \in 0..(m - 1)
      OBVIOUS
    <3>2. g[n - 1] = f[n - 1]
      BY <2>4, <3>1
    <3>3. CASE n = m
      BY <2>4, <3>2, <3>3
    <3>4. CASE n # m
      <4>1. n \in 1..(m - 1) /\ n \in 0..(m - 1)
        BY <3>4
      <4>2. f[n] = step[n][f[n - 1]]
        BY <2>1, <4>1
      <4> QED
        BY <2>4, <3>2, <4>1, <4>2
    <3> QED
      BY <3>3, <3>4
  <2>6. Is(g, m)
    BY <2>1, <2>3, <2>4, <2>5
  <2> HIDE DEF Is
  <2> QED
    BY <2>6
<1> HIDE DEF G
<1>3. \A n \in 0..N : n \in G
  BY <1>1, <1>2, Induct
<1>4. PICK g : Is(g, N)
  BY <1>3 DEF G
<1> QED
  BY <1>4 DEF Walks

-----------------------------------------------------------------------------
(* Powers of two.                                                          *)

\* The next power is twice the last: a set with one more element has twice as
\* many subsets.
LEMMA PowerDoubles ==
  ASSUME NEW n \in Nat
  PROVE  2^n \in Nat /\ 2^n > 0 /\ 2^(n + 1) = 2 * 2^n
<1> DEFINE S == 1..n
           A == SUBSET S
           B == {x \cup {n + 1} : x \in A}
           f == [x \in A |-> x \cup {n + 1}]
<1>1. IsFiniteSet(S) /\ Cardinality(S) = n /\ IsFiniteSet(1..(n + 1)) /\ Cardinality(1..(n + 1)) = n + 1
  <2>1. n + 1 \in Int /\ n \in Int /\ 1 \in Int
    OBVIOUS
  <2> QED
    BY <2>1, FS_Interval
<1>2. IsFiniteSet(A) /\ Cardinality(A) = 2^n
  BY <1>1, FS_SUBSET
<1>3. Cardinality(SUBSET (1..(n + 1))) = 2^(n + 1)
  BY <1>1, FS_SUBSET
<1>4. n + 1 \notin S
  OBVIOUS
<1>5. f \in Bijection(A, B)
  <2>1. f \in [A -> B]
    OBVIOUS
  <2>2. \A y \in B : \E x \in A : f[x] = y
    OBVIOUS
  <2>3. ASSUME NEW x \in A, NEW y \in A, f[x] = f[y] PROVE x = y
    BY <1>4, <2>3
  <2> QED
    BY <2>1, <2>2, <2>3 DEF Bijection, Injection, Surjection, IsInjective
<1>6. IsFiniteSet(B) /\ Cardinality(B) = 2^n
  BY <1>2, <1>5, FS_Bijection DEF ExistsBijection
<1>7. A \cap B = {}
  BY <1>4
<1>8. A \cup B = SUBSET (1..(n + 1))
  <2>1. ASSUME NEW x, x \subseteq 1..(n + 1) PROVE x \in A \cup B
    <3>1. CASE n + 1 \in x
      <4>1. x \ {n + 1} \in A /\ x = (x \ {n + 1}) \cup {n + 1}
        BY <2>1, <3>1
      <4> QED
        BY <4>1
    <3>2. CASE n + 1 \notin x
      BY <2>1, <3>2
    <3> QED
      BY <3>1, <3>2
  <2>2. ASSUME NEW x \in A \cup B PROVE x \subseteq 1..(n + 1)
    OBVIOUS
  <2> QED
    BY <2>1, <2>2
<1>9. Cardinality({}) = 0
  BY FS_EmptySet
<1> HIDE DEF A, B, S, f
<1>10. Cardinality(A \cup B) = 2^n + 2^n - 0
  BY <1>2, <1>6, <1>7, <1>9, FS_Union
<1>11. 2^n \in Nat
  BY <1>2, FS_CardinalityType
<1>12. 2^n > 0
  <2>1. {} \in A
    BY DEF A
  <2>2. Cardinality(A) = 0 <=> A = {}
    BY <1>2, FS_EmptySet
  <2> QED
    BY <1>2, <1>11, <2>1, <2>2
<1>13. 2^(n + 1) = 2^n + 2^n - 0
  BY <1>3, <1>8, <1>10
<1> DEFINE p == 2^n
           q == 2^(n + 1)
<1>14. q = p + p - 0 /\ p \in Nat /\ p > 0
  BY <1>11, <1>12, <1>13
<1> HIDE DEF p, q
<1>15. p \in Nat /\ p > 0 /\ q = 2 * p
  BY <1>14
<1> QED
  BY <1>15 DEF p, q

\* Powers grow.
LEMMA PowersGrow ==
  ASSUME NEW i \in Nat, NEW k \in Nat, i < k
  PROVE  2^(i + 1) <= 2^k
<1> DEFINE N == k - (i + 1)
           G == {n \in 0..N : 2^(i + 1) <= 2^(i + 1 + n)}
<1>1. N \in Nat /\ i + 1 + N = k
  OBVIOUS
<1> HIDE DEF N
<1>2. 0 \in G
  <2>1. i + 1 + 0 = i + 1 /\ 2^(i + 1) \in Int
    OBVIOUS
  <2>2. 2^(i + 1) <= 2^(i + 1 + 0)
    BY <2>1
  <2> QED
    BY <1>1, <2>2
<1>3. ASSUME NEW n \in 1..N, n - 1 \in G PROVE n \in G
  <2> DEFINE e == i + 1 + (n - 1)
             x == 2^(i + 1)
             y == 2^e
             z == 2^(e + 1)
  <2>1. e \in Nat /\ e + 1 = i + 1 + n /\ n \in 0..N
    BY <1>1
  <2>2. x <= y
    BY <1>3
  <2>3. y \in Nat /\ y > 0 /\ z = 2 * y
    BY <2>1, PowerDoubles
  <2>4. x \in Int
    OBVIOUS
  <2> HIDE DEF x, y, z
  <2>5. x <= z
    BY <2>2, <2>3, <2>4
  <2>6. 2^(i + 1) <= 2^(i + 1 + n)
    BY <2>1, <2>5 DEF x, z
  <2> QED
    BY <2>1, <2>6
<1> HIDE DEF G
<1>4. N \in G
  BY <1>1, <1>2, <1>3, Induct
<1> QED
  BY <1>1, <1>4 DEF G
=============================================================================
