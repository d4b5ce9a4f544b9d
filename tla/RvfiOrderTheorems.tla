-------------------------- MODULE RvfiOrderTheorems --------------------------
(***************************************************************************)
(* The facts about ranges of numbers the proofs need.  For channels they   *)
(* say that a loop over them has a last iteration that takes effect, and   *)
(* what a loop that carries a value from one iteration to the next leaves. *)
(***************************************************************************)
EXTENDS Integers, TLAPS, WellFoundedInduction, FiniteSetTheorems, FunctionTheorems

\* A non-empty set of numbers below N has a greatest element.
LEMMA GreatestElement ==
  ASSUME NEW N \in Nat, NEW cs, cs \subseteq 0 .. N - 1, cs /= {}
  PROVE  \E c \in cs : \A d \in cs : d <= c
<1> DEFINE T == {N - 1 - c : c \in cs}
<1>1. T \subseteq Nat /\ T /= {}
  <2>1. T \subseteq Nat
    OBVIOUS
  <2>2. T /= {}
    OBVIOUS
  <2> QED BY <2>1, <2>2
<1>2. PICK x \in T : \A y \in T : ~(<<y, x>> \in OpToRel(<, Nat))
  BY <1>1, NatLessThanWellFounded, WFMin, Zenon
<1>3. \A y \in T : ~(y < x)
  BY <1>1, <1>2 DEF OpToRel
<1>4. PICK c \in cs : x = N - 1 - c
  OBVIOUS
<1>5. \A d \in cs : d <= c
  <2> TAKE d \in cs
  <2>1. ~(N - 1 - d < N - 1 - c)
    BY <1>3, <1>4
  <2> QED BY <2>1
<1> QED BY <1>5

\* Induction over a range, for a property that is given as a set.
LEMMA RangeInduction ==
  ASSUME NEW N \in Nat, NEW P, 0 \in P, \A n \in 1 .. N : n - 1 \in P => n \in P
  PROVE  \A n \in 0 .. N : n \in P
<1> DEFINE T == {n \in 0 .. N : n \notin P}
<1> SUFFICES ASSUME T /= {} PROVE FALSE
  OBVIOUS
<1>1. T \subseteq Nat
  OBVIOUS
<1>2. PICK x \in T : \A y \in T : ~(<<y, x>> \in OpToRel(<, Nat))
  BY <1>1, NatLessThanWellFounded, WFMin, Zenon
<1>3. \A y \in T : ~(y < x)
  BY <1>1, <1>2 DEF OpToRel
<1>4. x \in 1 .. N /\ x - 1 \in 0 .. N
  OBVIOUS
<1>5. x - 1 \in P
  BY <1>3, <1>4
<1> QED BY <1>4, <1>5

\* f holds the values of a loop of N iterations: it starts with s, and iteration
\* n takes the value of iteration n - 1 to its own.
Loop(f, N, s, body) == f[0] = s /\ \A n \in 1 .. N : f[n] = body[n][f[n - 1]]

\* Every loop has its values.
LEMMA LoopValues ==
  ASSUME NEW N \in Nat, NEW S, NEW s \in S, NEW body \in [1 .. N -> [S -> S]]
  PROVE  \E f \in [0 .. N -> S] : Loop(f, N, s, body)
<1> DEFINE P == {n \in 0 .. N : \E f \in [0 .. n -> S] : Loop(f, n, s, body)}
<1>1. 0 \in P
  <2> DEFINE g == [m \in 0 .. 0 |-> s]
  <2>1. g \in [0 .. 0 -> S] /\ g[0] = s /\ 1 .. 0 = {}
    OBVIOUS
  <2>2. Loop(g, 0, s, body)
    BY <2>1 DEF Loop
  <2> HIDE DEF g
  <2> QED BY <2>1, <2>2
<1>2. ASSUME NEW n \in 1 .. N, n - 1 \in P PROVE n \in P
  <2>1. PICK f \in [0 .. n - 1 -> S] : Loop(f, n - 1, s, body)
    BY <1>2
  <2> DEFINE g == [m \in 0 .. n |-> IF m = n THEN body[n][f[n - 1]] ELSE f[m]]
  <2>2. f[n - 1] \in S /\ body[n] \in [S -> S]
    OBVIOUS
  <2>3. body[n][f[n - 1]] \in S
    BY <2>2
  <2>4. g \in [0 .. n -> S]
    BY <2>3
  <2>5. Loop(g, n, s, body)
    <3>1. g[0] = s
      BY <2>1 DEF Loop
    <3>2. ASSUME NEW m \in 1 .. n PROVE g[m] = body[m][g[m - 1]]
      <4>1. CASE m = n
        BY <4>1
      <4>2. CASE m /= n
        <5>1. m \in 1 .. n - 1 /\ g[m] = f[m] /\ g[m - 1] = f[m - 1]
          BY <4>2
        <5> QED BY <2>1, <5>1 DEF Loop
      <4> QED BY <4>1, <4>2
    <3> QED BY <3>1, <3>2 DEF Loop
  <2> HIDE DEF g
  <2> QED BY <2>4, <2>5
<1>3. \A n \in 0 .. N : n \in P
  <2> HIDE DEF P
  <2> QED BY <1>1, <1>2, RangeInduction
<1>4. N \in P
  BY <1>3
<1> QED BY <1>4

-----------------------------------------------------------------------------
\* A power of two counts the subsets of a set, so it is a positive number, and
\* one more element doubles it.
LEMMA PowerType ==
  ASSUME NEW n \in Nat
  PROVE  2^n \in Nat /\ 2^n > 0
<1>1. IsFiniteSet(1 .. n) /\ Cardinality(1 .. n) = n
  BY FS_Interval
<1>2. IsFiniteSet(SUBSET (1 .. n)) /\ Cardinality(SUBSET (1 .. n)) = 2^n
  BY <1>1, FS_SUBSET
<1>3. Cardinality(SUBSET (1 .. n)) \in Nat
  BY <1>2, FS_CardinalityType
<1>4. SUBSET (1 .. n) /= {}
  OBVIOUS
<1>5. Cardinality(SUBSET (1 .. n)) /= 0
  BY <1>2, <1>4, FS_EmptySet
<1> QED BY <1>2, <1>3, <1>5

LEMMA PowerSucc ==
  ASSUME NEW n \in Nat
  PROVE  2^(n + 1) = 2 * 2^n
<1> DEFINE A == 1 .. n
           x == n + 1
           With == {B \cup {x} : B \in SUBSET A}
           f == [B \in SUBSET A |-> B \cup {x}]
<1>1. IsFiniteSet(A) /\ Cardinality(A) = n /\ x \notin A
  BY FS_Interval
<1>2. IsFiniteSet(1 .. n + 1) /\ Cardinality(1 .. n + 1) = n + 1 /\ 1 .. n + 1 = A \cup {x}
  <2>1. n + 1 \in Int /\ 1 \in Int /\ ~(1 > n + 1) /\ (n + 1) - 1 + 1 = n + 1
    OBVIOUS
  <2>2. IsFiniteSet(1 .. n + 1) /\ Cardinality(1 .. n + 1) = n + 1
    BY ONLY <2>1, FS_Interval
  <2>3. 1 .. n + 1 = A \cup {x}
    OBVIOUS
  <2> QED BY <2>2, <2>3
<1> HIDE DEF A, x
<1>3. IsFiniteSet(SUBSET A) /\ Cardinality(SUBSET A) = 2^n
  BY <1>1, FS_SUBSET
<1>4. Cardinality(SUBSET (A \cup {x})) = 2^(n + 1)
  BY <1>2, FS_SUBSET
<1>5. f \in Injection(SUBSET A, With)
  <2>1. f \in [SUBSET A -> With]
    OBVIOUS
  <2>2. ASSUME NEW B \in SUBSET A, NEW D \in SUBSET A, f[B] = f[D] PROVE B = D
    <3>1. B \cup {x} = D \cup {x} /\ x \notin B /\ x \notin D
      BY <1>1, <2>2
    <3> QED BY <3>1
  <2> HIDE DEF f, With
  <2> QED BY <2>1, <2>2, Fun_IsInj
<1>6. f \in Surjection(SUBSET A, With)
  <2>1. f \in [SUBSET A -> With]
    OBVIOUS
  <2>2. \A D \in With : \E B \in SUBSET A : f[B] = D
    OBVIOUS
  <2> HIDE DEF f, With
  <2> QED BY <2>1, <2>2, Fun_IsSurj
<1>7. ExistsBijection(SUBSET A, With)
  <2> HIDE DEF f, With
  <2> QED BY <1>5, <1>6 DEF ExistsBijection, Bijection
<1>8. IsFiniteSet(With) /\ Cardinality(With) = 2^n
  <2> HIDE DEF With
  <2> QED BY <1>3, <1>7, FS_Bijection
<1>9. SUBSET (A \cup {x}) = (SUBSET A) \cup With
  <2>1. ASSUME NEW B \in SUBSET (A \cup {x}) PROVE B \in (SUBSET A) \cup With
    <3>1. CASE x \in B
      <4>1. B \ {x} \in SUBSET A /\ B = (B \ {x}) \cup {x}
        BY <3>1
      <4> QED BY <4>1
    <3>2. CASE x \notin B
      BY <3>2
    <3> QED BY <3>1, <3>2
  <2>2. ASSUME NEW B \in (SUBSET A) \cup With PROVE B \in SUBSET (A \cup {x})
    OBVIOUS
  <2> HIDE DEF With
  <2> QED BY <2>1, <2>2
<1>10. (SUBSET A) \cap With = {}
  BY <1>1
<1>11. Cardinality((SUBSET A) \cup With)
         = Cardinality(SUBSET A) + Cardinality(With) - Cardinality({})
  <2> HIDE DEF With
  <2> QED BY <1>3, <1>8, <1>10, FS_Union
<1>12. 2^n \in Nat /\ Cardinality({}) = 0
  BY PowerType, FS_EmptySet
<1>13. 2^(n + 1) = 2^n + 2^n - 0
  <2> HIDE DEF With
  <2> QED BY <1>3, <1>4, <1>8, <1>9, <1>11, <1>12, Zenon
<1> QED BY <1>12, <1>13

LEMMA PowerSum ==
  ASSUME NEW m \in Nat, NEW n \in Nat
  PROVE  2^(m + n) = 2^m * 2^n
<1> DEFINE P == {k \in Nat : 2^(m + k) = 2^m * 2^k}
<1>1. 0 \in P
  BY PowerType
<1>2. ASSUME NEW k \in 1 .. n, k - 1 \in P PROVE k \in P
  <2> DEFINE j == k - 1
  <2>1. j \in Nat /\ m + j \in Nat /\ k = j + 1 /\ m + k = (m + j) + 1
    OBVIOUS
  <2>2. 2^(m + j) = 2^m * 2^j
    BY <1>2
  <2> HIDE DEF j
  <2>3. 2^k = 2 * 2^j /\ 2^(m + k) = 2 * 2^(m + j)
    BY <2>1, PowerSucc
  <2>4. 2^m \in Nat /\ 2^j \in Nat
    BY <2>1, PowerType
  <2>5. 2 * (2^m * 2^j) = 2^m * (2 * 2^j)
    BY <2>4
  <2> QED BY <2>1, <2>2, <2>3, <2>5
<1>3. \A k \in 0 .. n : k \in P
  <2> HIDE DEF P
  <2> QED BY <1>1, <1>2, RangeInduction
<1> QED BY <1>3

=============================================================================
