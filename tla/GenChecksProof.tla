---------------------------- MODULE GenChecksProof ----------------------------
(***************************************************************************)
(* Proofs about the check generators, for every config file, list of       *)
(* instructions and number of channels: no job is filled in with what an   *)
(* earlier call has left, and the jobs are those the file asks for.        *)
(***************************************************************************)
EXTENDS GenChecks, TLAPS, RvfiOrderTheorems, SequenceTheorems, FiniteSetTheorems

-----------------------------------------------------------------------------
(***************************************************************************)
(* Sequences of calls.                                                     *)
(***************************************************************************)
\* The elements of a sequence.
LEMMA Elements ==
  ASSUME NEW S, NEW s \in Seq(S)
  PROVE  /\ Len(s) \in Nat /\ DOMAIN s = 1 .. Len(s)
         /\ ToSet(s) \subseteq S /\ \A i \in 1 .. Len(s) : s[i] \in ToSet(s)
         /\ s = <<>> <=> ToSet(s) = {}
<1>1. Len(s) \in Nat /\ DOMAIN s = 1 .. Len(s) /\ \A i \in 1 .. Len(s) : s[i] \in S
  OBVIOUS
<1>2. s = <<>> <=> Len(s) = 0
  BY EmptySeq
<1>3. ToSet(s) \subseteq S /\ \A i \in 1 .. Len(s) : s[i] \in ToSet(s)
  BY <1>1 DEF ToSet
<1>4. s = <<>> <=> ToSet(s) = {}
  <2>1. Len(s) /= 0 => 1 \in 1 .. Len(s)
    BY <1>1
  <2>2. Len(s) = 0 => 1 .. Len(s) = {}
    BY <1>1
  <2> QED BY <1>1, <1>2, <2>1, <2>2 DEF ToSet
<1> QED BY <1>1, <1>3, <1>4

LEMMA ConcatElements ==
  ASSUME NEW S, NEW s \in Seq(S), NEW t \in Seq(S)
  PROVE  s \o t \in Seq(S) /\ ToSet(s \o t) = ToSet(s) \cup ToSet(t)
<1>1. /\ s \o t \in Seq(S) /\ Len(s \o t) = Len(s) + Len(t)
      /\ \A i \in 1 .. Len(s) : (s \o t)[i] = s[i]
      /\ \A i \in 1 .. Len(t) : (s \o t)[Len(s) + i] = t[i]
  BY ConcatProperties
<1>2. /\ DOMAIN s = 1 .. Len(s) /\ DOMAIN t = 1 .. Len(t)
      /\ DOMAIN (s \o t) = 1 .. Len(s) + Len(t) /\ Len(s) \in Nat /\ Len(t) \in Nat
  BY <1>1
<1>3. ASSUME NEW x \in ToSet(s \o t) PROVE x \in ToSet(s) \cup ToSet(t)
  <2>1. PICK i \in 1 .. Len(s) + Len(t) : x = (s \o t)[i]
    BY <1>2 DEF ToSet
  <2>2. CASE i <= Len(s)
    BY <1>1, <1>2, <2>1, <2>2 DEF ToSet
  <2>3. CASE i > Len(s)
    <3>1. i - Len(s) \in 1 .. Len(t) /\ Len(s) + (i - Len(s)) = i
      BY <1>2, <2>3
    <3>2. x = t[i - Len(s)]
      BY <1>1, <2>1, <3>1
    <3> QED BY <1>2, <3>1, <3>2 DEF ToSet
  <2> QED BY <1>2, <2>2, <2>3
<1>4. ASSUME NEW x \in ToSet(s) PROVE x \in ToSet(s \o t)
  <2>1. PICK i \in 1 .. Len(s) : x = s[i]
    BY <1>2 DEF ToSet
  <2>2. i \in 1 .. Len(s) + Len(t) /\ x = (s \o t)[i]
    BY <1>1, <1>2, <2>1
  <2> QED BY <1>2, <2>2 DEF ToSet
<1>5. ASSUME NEW x \in ToSet(t) PROVE x \in ToSet(s \o t)
  <2>1. PICK i \in 1 .. Len(t) : x = t[i]
    BY <1>2 DEF ToSet
  <2>2. Len(s) + i \in 1 .. Len(s) + Len(t) /\ x = (s \o t)[Len(s) + i]
    BY <1>1, <1>2, <2>1
  <2> QED BY <1>2, <2>2 DEF ToSet
<1> QED BY <1>1, <1>3, <1>4, <1>5

\* No two calls of a sequence build one name.
NamesOf(s) == {NameOf(c) : c \in ToSet(s)}
DistinctNames(s) == \A i, j \in DOMAIN s : NameOf(s[i]) = NameOf(s[j]) => i = j

LEMMA ConcatDistinct ==
  ASSUME NEW S, NEW s \in Seq(S), NEW t \in Seq(S),
         DistinctNames(s), DistinctNames(t), NamesOf(s) \cap NamesOf(t) = {}
  PROVE  DistinctNames(s \o t)
<1>1. /\ s \o t \in Seq(S) /\ Len(s \o t) = Len(s) + Len(t)
      /\ \A i \in 1 .. Len(s) : (s \o t)[i] = s[i]
      /\ \A i \in 1 .. Len(t) : (s \o t)[Len(s) + i] = t[i]
  BY ConcatProperties
<1>2. /\ DOMAIN s = 1 .. Len(s) /\ DOMAIN t = 1 .. Len(t)
      /\ DOMAIN (s \o t) = 1 .. Len(s) + Len(t) /\ Len(s) \in Nat /\ Len(t) \in Nat
  BY <1>1
<1>3. \A i \in 1 .. Len(s) : NameOf(s[i]) \in NamesOf(s)
  BY <1>2 DEF NamesOf, ToSet
<1>4. \A i \in 1 .. Len(t) : NameOf(t[i]) \in NamesOf(t)
  BY <1>2 DEF NamesOf, ToSet
<1>5. \A i \in 1 .. Len(s) + Len(t) : i > Len(s) =>
        i - Len(s) \in 1 .. Len(t) /\ (s \o t)[i] = t[i - Len(s)]
  <2> SUFFICES ASSUME NEW i \in 1 .. Len(s) + Len(t), i > Len(s)
               PROVE  i - Len(s) \in 1 .. Len(t) /\ (s \o t)[i] = t[i - Len(s)]
    OBVIOUS
  <2>1. i - Len(s) \in 1 .. Len(t) /\ Len(s) + (i - Len(s)) = i
    BY <1>2
  <2> QED BY <1>1, <2>1
<1>6. ASSUME NEW i \in 1 .. Len(s) + Len(t), NEW j \in 1 .. Len(s) + Len(t),
             NameOf((s \o t)[i]) = NameOf((s \o t)[j])
      PROVE  i = j
  <2>1. CASE i <= Len(s) /\ j <= Len(s)
    <3>1. i \in 1 .. Len(s) /\ j \in 1 .. Len(s)
      BY <1>2, <2>1
    <3> QED BY <1>1, <1>2, <1>6, <3>1 DEF DistinctNames
  <2>2. CASE i > Len(s) /\ j > Len(s)
    <3>1. i - Len(s) = j - Len(s)
      BY <1>2, <1>5, <1>6, <2>2 DEF DistinctNames
    <3> QED BY <1>2, <3>1
  <2>3. CASE i <= Len(s) /\ j > Len(s)
    <3>1. i \in 1 .. Len(s)
      BY <1>2, <2>3
    <3> QED BY <1>1, <1>3, <1>4, <1>5, <1>6, <2>3, <3>1
  <2>4. CASE i > Len(s) /\ j <= Len(s)
    <3>1. j \in 1 .. Len(s)
      BY <1>2, <2>4
    <3> QED BY <1>1, <1>3, <1>4, <1>5, <1>6, <2>4, <3>1
  <2> QED BY <1>2, <2>1, <2>2, <2>3, <2>4
<1> QED BY <1>2, <1>6 DEF DistinctNames

\* A sequence of sequences and their concatenation.
LEMMA FlattenSteps ==
  ASSUME NEW S, NEW ss \in Seq(Seq(S))
  PROVE  \E f \in [0 .. Len(ss) -> Seq(S)] :
           /\ f[0] = <<>> /\ \A n \in 1 .. Len(ss) : f[n] = f[n - 1] \o ss[n]
           /\ FlattenSeq(ss) = f[Len(ss)]
<1> DEFINE N == Len(ss)
           body == [n \in 1 .. N |-> [s \in Seq(S) |-> s \o ss[n]]]
           Step(f) == [n \in 1 .. N |-> IF n = 1 THEN ss[n] ELSE f[n - 1] \o ss[n]]
           flatten == CHOOSE f : f = Step(f)
<1>1. N \in Nat /\ \A n \in 1 .. N : ss[n] \in Seq(S)
  OBVIOUS
<1>2. PICK f \in [0 .. N -> Seq(S)] : f[0] = <<>> /\ \A n \in 1 .. N : f[n] = body[n][f[n - 1]]
  <2> DEFINE T == Seq(S)
             empty == <<>>
  <2>1. body \in [1 .. N -> [T -> T]] /\ empty \in T
    BY <1>1
  <2> HIDE DEF body, T, empty, N
  <2>2. \E f \in [0 .. N -> T] : Loop(f, N, empty, body)
    BY <1>1, <2>1, LoopValues
  <2> QED BY <2>2 DEF T, empty, Loop
<1>3. \A n \in 1 .. N : f[n] = f[n - 1] \o ss[n]
  <2> SUFFICES ASSUME NEW n \in 1 .. N PROVE f[n] = f[n - 1] \o ss[n]
    OBVIOUS
  <2>1. n - 1 \in 0 .. N
    BY <1>1
  <2>2. f[n - 1] \in Seq(S)
    BY <2>1
  <2> QED BY <1>2, <2>2
<1> HIDE DEF body
<1>4. 1 \in 1 .. N => f[1] = ss[1]
  <2> SUFFICES ASSUME 1 \in 1 .. N PROVE f[1] = ss[1]
    OBVIOUS
  <2>1. f[1] = f[1 - 1] \o ss[1] /\ ss[1] \in Seq(S)
    BY <1>1, <1>3
  <2>2. f[1 - 1] = <<>>
    BY <1>2
  <2>3. <<>> \o ss[1] = ss[1]
    BY <2>1, ConcatEmptySeq
  <2> QED BY <2>1, <2>2, <2>3
<1>5. FlattenSeq(ss) = f[N]
  <2>1. CASE N = 0
    <3>1. ss = <<>>
      BY <2>1, EmptySeq
    <3> QED BY <1>2, <2>1, <3>1 DEF FlattenSeq
  <2>2. CASE N /= 0
    <3> DEFINE g == [n \in 1 .. N |-> f[n]]
    <3>1. g = Step(g)
      <4>1. ASSUME NEW n \in 1 .. N PROVE f[n] = Step(g)[n]
        <5>1. CASE n = 1
          BY <1>4, <5>1
        <5>2. CASE n /= 1
          <6>1. n - 1 \in 1 .. N
            BY <1>1, <5>2
          <6> QED BY <1>3, <5>2, <6>1
        <5> QED BY <5>1, <5>2
      <4> QED BY <4>1
    <3>2. flatten = Step(flatten)
      <4> HIDE DEF Step, g
      <4> QED BY <3>1
    <3>3. \A n \in 1 .. N : flatten[n] = IF n = 1 THEN ss[n] ELSE flatten[n - 1] \o ss[n]
      <4> HIDE DEF flatten
      <4> SUFFICES ASSUME NEW n \in 1 .. N
                   PROVE  flatten[n] = IF n = 1 THEN ss[n] ELSE flatten[n - 1] \o ss[n]
        OBVIOUS
      <4>1. Step(flatten)[n] = IF n = 1 THEN ss[n] ELSE flatten[n - 1] \o ss[n]
        OBVIOUS
      <4> HIDE DEF Step
      <4> QED BY <3>2, <4>1, Zenon
    <3>4. FlattenSeq(ss) = flatten[N]
      BY <2>2, Zenon DEF FlattenSeq
    <3>5. \A n \in 1 .. N : flatten[n] = f[n]
      <4> DEFINE P == {n \in 0 .. N : n > 0 => flatten[n] = f[n]}
      <4> HIDE DEF flatten
      <4>1. 0 \in P
        BY <1>1
      <4>2. ASSUME NEW n \in 1 .. N, n - 1 \in P PROVE n \in P
        <5>1. CASE n = 1
          BY <1>1, <1>4, <3>3, <5>1
        <5>2. CASE n /= 1
          <6>1. n - 1 > 0 /\ flatten[n - 1] = f[n - 1]
            BY <1>1, <4>2, <5>2
          <6>2. flatten[n] = flatten[n - 1] \o ss[n] /\ f[n] = f[n - 1] \o ss[n]
            BY <1>3, <3>3, <5>2, Zenon
          <6>3. flatten[n] = f[n]
            BY <6>1, <6>2
          <6> QED BY <1>1, <6>3
        <5> QED BY <5>1, <5>2
      <4>3. \A n \in 0 .. N : n \in P
        <5> HIDE DEF P, N
        <5> QED BY <1>1, <4>1, <4>2, RangeInduction
      <4> QED BY <1>1, <4>3
    <3>6. N \in 1 .. N
      BY <1>1, <2>2
    <3> HIDE DEF flatten, N
    <3> QED BY <3>4, <3>5, <3>6
  <2> QED BY <2>1, <2>2
<1> QED BY <1>2, <1>3, <1>5

LEMMA Flatten ==
  ASSUME NEW S, NEW ss \in Seq(Seq(S))
  PROVE  /\ FlattenSeq(ss) \in Seq(S)
         /\ \A x : x \in ToSet(FlattenSeq(ss)) <=> \E i \in 1 .. Len(ss) : x \in ToSet(ss[i])
         /\ (\A i \in 1 .. Len(ss) : DistinctNames(ss[i]))
            /\ (\A i, j \in 1 .. Len(ss) : i /= j => NamesOf(ss[i]) \cap NamesOf(ss[j]) = {})
            => DistinctNames(FlattenSeq(ss))
<1> DEFINE N == Len(ss)
<1>1. N \in Nat /\ \A n \in 1 .. N : ss[n] \in Seq(S)
  OBVIOUS
<1>2. PICK f \in [0 .. N -> Seq(S)] :
        /\ f[0] = <<>> /\ \A n \in 1 .. N : f[n] = f[n - 1] \o ss[n]
        /\ FlattenSeq(ss) = f[N]
  BY FlattenSteps
<1> HIDE DEF N
<1>3. FlattenSeq(ss) \in Seq(S)
  BY <1>1, <1>2
<1> DEFINE Held(n) == \A x : x \in ToSet(f[n]) <=> \E i \in 1 .. n : x \in ToSet(ss[i])
           P == {n \in 0 .. N : Held(n)}
<1>4. 0 \in P
  <2>1. ToSet(f[0]) = {}
    BY <1>2 DEF ToSet
  <2>2. 1 .. 0 = {} /\ 0 \in 0 .. N
    BY <1>1
  <2> QED BY <2>1, <2>2
<1>5. ASSUME NEW n \in 1 .. N, n - 1 \in P PROVE n \in P
  <2>1. n \in 0 .. N /\ n - 1 \in 0 .. N /\ 1 .. n = 1 .. n - 1 \cup {n}
    BY <1>1
  <2>2. ToSet(f[n]) = ToSet(f[n - 1]) \cup ToSet(ss[n])
    <3>1. f[n - 1] \in Seq(S) /\ ss[n] \in Seq(S) /\ f[n] = f[n - 1] \o ss[n]
      BY <1>1, <1>2, <2>1
    <3> QED BY <3>1, ConcatElements
  <2>3. Held(n - 1)
    BY <1>5
  <2>4. Held(n)
    BY <2>1, <2>2, <2>3, Zenon
  <2> QED BY <2>1, <2>4
<1>6. \A n \in 0 .. N : Held(n)
  <2>1. \A n \in 0 .. N : n \in P
    <3> HIDE DEF P
    <3> QED BY <1>1, <1>4, <1>5, RangeInduction
  <2> QED BY <2>1
<1>7. Held(N)
  BY <1>1, <1>6
<1>8. ASSUME \A i \in 1 .. N : DistinctNames(ss[i]),
             \A i, j \in 1 .. N : i /= j => NamesOf(ss[i]) \cap NamesOf(ss[j]) = {}
      PROVE  DistinctNames(FlattenSeq(ss))
  <2> DEFINE Q == {n \in 0 .. N : DistinctNames(f[n])}
  <2>1. 0 \in Q
    BY <1>1, <1>2 DEF DistinctNames
  <2>2. ASSUME NEW n \in 1 .. N, n - 1 \in Q PROVE n \in Q
    <3>1. n \in 0 .. N /\ n - 1 \in 0 .. N /\ \A i \in 1 .. n - 1 : i \in 1 .. N /\ i /= n
      BY <1>1
    <3>2. f[n - 1] \in Seq(S) /\ ss[n] \in Seq(S) /\ f[n] = f[n - 1] \o ss[n]
      BY <1>1, <1>2, <3>1
    <3>3. NamesOf(f[n - 1]) \cap NamesOf(ss[n]) = {}
      <4> SUFFICES ASSUME NEW c \in ToSet(f[n - 1]), NEW d \in ToSet(ss[n]),
                          NameOf(c) = NameOf(d)
                   PROVE  FALSE
        BY DEF NamesOf
      <4>1. PICK i \in 1 .. n - 1 : c \in ToSet(ss[i])
        BY <1>6, <3>1
      <4>2. NameOf(c) \in NamesOf(ss[i]) /\ NameOf(c) \in NamesOf(ss[n])
        BY <4>1 DEF NamesOf
      <4> QED BY <1>8, <3>1, <4>2
    <3>4. DistinctNames(f[n - 1]) /\ DistinctNames(ss[n])
      BY <1>8, <2>2
    <3>5. DistinctNames(f[n])
      BY <3>2, <3>3, <3>4, ConcatDistinct
    <3> QED BY <3>1, <3>5
  <2>3. \A n \in 0 .. N : n \in Q
    <3> HIDE DEF Q
    <3> QED BY <1>1, <2>1, <2>2, RangeInduction
  <2>4. N \in Q
    BY <1>1, <2>3
  <2> QED BY <1>2, <2>4
<1>9. \A x : x \in ToSet(FlattenSeq(ss)) <=> \E i \in 1 .. N : x \in ToSet(ss[i])
  BY <1>2, <1>7
<1> QED BY <1>3, <1>8, <1>9 DEF N

-----------------------------------------------------------------------------
(***************************************************************************)
(* What the config file says of a check.                                   *)
(***************************************************************************)
\* The last answer is the one that no other comes after.
LEMMA LastAnswerIs ==
  ASSUME NEW T, NEW a \in Seq(T), None \in T
  PROVE  /\ (\A i \in 1 .. Len(a) : a[i] = None) => LastAnswer(a) = None
         /\ \A i \in 1 .. Len(a) :
              a[i] /= None /\ (\A j \in i + 1 .. Len(a) : a[j] = None) => LastAnswer(a) = a[i]
<1> DEFINE N == Len(a)
           body == [n \in 1 .. N |-> [x \in T |-> IF a[n] /= None THEN a[n] ELSE x]]
           Step(f) == [i \in 0 .. N |-> IF i = 0 THEN None
                                        ELSE IF a[i] /= None THEN a[i] ELSE f[i - 1]]
           upTo == CHOOSE f : f = Step(f)
<1>1. N \in Nat /\ \A n \in 1 .. N : a[n] \in T
  OBVIOUS
<1>2. PICK f \in [0 .. N -> T] : f[0] = None /\ \A n \in 1 .. N : f[n] = body[n][f[n - 1]]
  <2>1. body \in [1 .. N -> [T -> T]]
    BY <1>1
  <2> HIDE DEF body, N
  <2>2. \E f \in [0 .. N -> T] : Loop(f, N, None, body)
    BY <1>1, <2>1, LoopValues
  <2> QED BY <2>2 DEF Loop
<1>3. f = Step(f)
  <2>1. ASSUME NEW n \in 0 .. N PROVE f[n] = Step(f)[n]
    <3>1. CASE n = 0
      BY <1>2, <3>1
    <3>2. CASE n /= 0
      <4>1. n \in 1 .. N /\ n - 1 \in 0 .. N
        BY <1>1, <3>2
      <4>2. f[n - 1] \in T
        BY <4>1
      <4> QED BY <1>2, <3>2, <4>1, <4>2
    <3> QED BY <3>1, <3>2
  <2> QED BY <2>1
<1>4. upTo = Step(upTo)
  <2> HIDE DEF Step
  <2> QED BY <1>3
<1> HIDE DEF body
<1>5. /\ upTo[0] = None
      /\ \A n \in 1 .. N : upTo[n] = IF a[n] /= None THEN a[n] ELSE upTo[n - 1]
  <2> HIDE DEF upTo
  <2>1. 0 \in 0 .. N /\ \A n \in 1 .. N : n \in 0 .. N /\ n /= 0
    BY <1>1
  <2>2. \A n \in 0 .. N : upTo[n] = Step(upTo)[n]
    <3> HIDE DEF Step
    <3> QED BY <1>4, Zenon
  <2> QED BY <2>1, <2>2
<1>6. LastAnswer(a) = upTo[N]
  BY Zenon DEF LastAnswer
<1> HIDE DEF upTo, N
<1>7. ASSUME NEW i \in 0 .. N, \A j \in i + 1 .. N : a[j] = None PROVE upTo[N] = upTo[i]
  <2> DEFINE P == {n \in 0 .. N : n >= i => upTo[n] = upTo[i]}
  <2>1. 0 \in P
    BY <1>1
  <2>2. ASSUME NEW n \in 1 .. N, n - 1 \in P PROVE n \in P
    <3>1. CASE n <= i
      <4>1. n >= i => n = i
        BY <1>1, <3>1
      <4> QED BY <1>1, <4>1
    <3>2. CASE n > i
      <4>1. n \in i + 1 .. N /\ n - 1 >= i
        BY <1>1, <3>2
      <4>2. upTo[n] = upTo[n - 1] /\ upTo[n - 1] = upTo[i]
        BY <1>5, <1>7, <2>2, <4>1
      <4> QED BY <1>1, <4>2
    <3> QED BY <1>1, <3>1, <3>2
  <2>3. \A n \in 0 .. N : n \in P
    <3> HIDE DEF P
    <3> QED BY <1>1, <2>1, <2>2, RangeInduction
  <2> QED BY <1>1, <2>3
<1>8. (\A i \in 1 .. N : a[i] = None) => LastAnswer(a) = None
  <2>1. 0 \in 0 .. N /\ 0 + 1 = 1
    BY <1>1
  <2> QED BY <1>5, <1>6, <1>7, <2>1
<1>9. ASSUME NEW i \in 1 .. N, a[i] /= None, \A j \in i + 1 .. N : a[j] = None
      PROVE  LastAnswer(a) = a[i]
  <2>1. i \in 0 .. N
    BY <1>1
  <2> QED BY <1>5, <1>6, <1>7, <1>9, <2>1
<1> QED BY <1>8, <1>9 DEF N

\* The numbers that get_depth_cfg finds are those the lines say.
LEMMA DepthOf ==
  ASSUME IsConfig(config), NEW n
  PROVE  /\ get_depth_cfg(n) = NumbersSaid(config.depth, n)
         /\ get_depth_cfg(n) /= None => get_depth_cfg(n) \in Seq(Nat)
<1> DEFINE L == config.depth
           N == Len(L)
           names(i) == Names(L[i], n)
           a == [i \in 1 .. N |-> IF names(i) THEN L[i].values ELSE None]
           lines == {i \in DOMAIN L : names(i)}
           T == Seq(Nat) \cup {None}
<1> HIDE DEF names
<1>1. N \in Nat /\ DOMAIN L = 1 .. N /\ \A i \in 1 .. N : L[i].values \in Seq(Nat)
  <2>1. L \in Seq(ToSet(L)) /\ \A l \in ToSet(L) : l.values \in Seq(Nat)
    BY DEF IsConfig, IsSeq
  <2>2. /\ N \in Nat /\ DOMAIN L = 1 .. N
        /\ \A i \in 1 .. N : L[i] \in ToSet(L)
    BY <2>1, Elements
  <2> QED BY <2>1, <2>2
<1>2. a \in Seq(T) /\ Len(a) = N /\ None \in T
  BY <1>1
<1>3. NumbersSaid(L, n) = LastAnswer(a)
  BY DEF NumbersSaid, names
<1>4. get_depth_cfg(n) = IF lines = {} THEN None
                         ELSE L[CHOOSE i \in lines : \A j \in lines : j <= i].values
  BY DEF get_depth_cfg, names
<1>5. /\ (\A i \in 1 .. N : a[i] = None) => LastAnswer(a) = None
      /\ \A i \in 1 .. N :
           a[i] /= None /\ (\A j \in i + 1 .. N : a[j] = None) => LastAnswer(a) = a[i]
  <2> HIDE DEF a, T
  <2> QED BY <1>2, LastAnswerIs
<1>6. CASE lines = {}
  <2>1. \A i \in 1 .. N : a[i] = None
    BY <1>1, <1>6
  <2>2. LastAnswer(a) = None
    BY <1>5, <2>1
  <2> QED BY <1>3, <1>4, <1>6, <2>2
<1>7. CASE lines /= {}
  <2> DEFINE M == N + 1
  <2>1. M \in Nat /\ lines \subseteq 0 .. M - 1
    BY <1>1
  <2>2. PICK m \in lines : \A j \in lines : j <= m
    <3> HIDE DEF M, lines
    <3> QED BY <1>7, <2>1, GreatestElement
  <2>3. m \in 1 .. N /\ names(m) /\ \A j \in m + 1 .. N : ~names(j)
    BY <1>1, <2>2
  <2>4. (CHOOSE i \in lines : \A j \in lines : j <= i) = m
    <3>1. \A i \in lines : (\A j \in lines : j <= i) => i = m
      BY <1>1, <2>2
    <3> HIDE DEF lines
    <3> QED BY <2>2, <3>1
  <2>5. a[m] = L[m].values /\ a[m] \in Seq(Nat) /\ a[m] /= None
    BY <1>1, <2>3, GenChecksAssumption DEF GenChecksAssumption
  <2>6. \A j \in m + 1 .. N : a[j] = None
    BY <1>1, <2>3
  <2>7. LastAnswer(a) = a[m]
    <3> HIDE DEF a
    <3> QED BY <1>5, <2>3, <2>5, <2>6
  <2>8. get_depth_cfg(n) = L[m].values
    <3> HIDE DEF lines
    <3> QED BY <1>4, <1>7, <2>4
  <2> QED BY <1>3, <2>5, <2>7, <2>8
<1> QED BY <1>6, <1>7

\* And so with test_disabled.
LEMMA FilterOf ==
  ASSUME IsConfig(config), NEW n
  PROVE  test_disabled(n) <=> SignSaid(config.filter, n) = "-"
<1> DEFINE L == config.filter
           N == Len(L)
           hit(i) == Matches(L[i].pat, n)
           a == [i \in 1 .. N |-> IF hit(N + 1 - i) THEN L[N + 1 - i].sign ELSE None]
           hits == {i \in 1 .. N : hit(N + 1 - i)}
           T == {"+", "-", None}
<1> HIDE DEF hit
<1>1. N \in Nat /\ DOMAIN L = 1 .. N /\ \A i \in 1 .. N : L[i].sign \in {"+", "-"}
  <2>1. L \in Seq(ToSet(L)) /\ \A l \in ToSet(L) : l.sign \in {"+", "-"}
    BY DEF IsConfig, IsSeq
  <2>2. /\ N \in Nat /\ DOMAIN L = 1 .. N
        /\ \A i \in 1 .. N : L[i] \in ToSet(L)
    BY <2>1, Elements
  <2> QED BY <2>1, <2>2
<1>2. a \in Seq(T) /\ Len(a) = N /\ None \in T
  <2>1. \A i \in 1 .. N : N + 1 - i \in 1 .. N
    BY <1>1
  <2> QED BY <1>1, <2>1
<1>3. SignSaid(L, n) = LastAnswer(a)
  BY DEF SignSaid, hit
<1>4. test_disabled(n) <=> \E i \in 1 .. N : /\ L[i].sign = "-" /\ hit(i)
                                             /\ \A j \in 1 .. i - 1 : ~hit(j)
  BY <1>1 DEF test_disabled, hit
<1>5. /\ (\A i \in 1 .. N : a[i] = None) => LastAnswer(a) = None
      /\ \A i \in 1 .. N :
           a[i] /= None /\ (\A j \in i + 1 .. N : a[j] = None) => LastAnswer(a) = a[i]
  <2> HIDE DEF a, T
  <2> QED BY <1>2, LastAnswerIs
<1>6. CASE hits = {}
  <2>1. \A i \in 1 .. N : a[i] = None
    BY <1>1, <1>6
  <2>2. LastAnswer(a) = None /\ None /= "-"
    BY <1>5, <2>1, GenChecksAssumption DEF GenChecksAssumption
  <2>3. \A i \in 1 .. N : ~hit(i)
    <3> SUFFICES ASSUME NEW i \in 1 .. N PROVE ~hit(i)
      OBVIOUS
    <3>1. N + 1 - i \in 1 .. N /\ N + 1 - (N + 1 - i) = i
      BY <1>1
    <3>2. N + 1 - i \notin hits
      BY <1>6
    <3> QED BY <3>1, <3>2
  <2> QED BY <1>3, <1>4, <2>2, <2>3
<1>7. CASE hits /= {}
  <2> DEFINE M == N + 1
  <2>1. M \in Nat /\ hits \subseteq 0 .. M - 1
    BY <1>1
  <2>2. PICK m \in hits : \A j \in hits : j <= m
    <3> HIDE DEF M, hits
    <3> QED BY <1>7, <2>1, GreatestElement
  <2> DEFINE i == N + 1 - m
  <2>3. m \in 1 .. N /\ i \in 1 .. N /\ hit(i) /\ \A j \in m + 1 .. N : ~hit(N + 1 - j)
    BY <1>1, <2>2
  <2>4. \A j \in 1 .. i - 1 : ~hit(j)
    <3> SUFFICES ASSUME NEW j \in 1 .. i - 1 PROVE ~hit(j)
      OBVIOUS
    <3>1. N + 1 - j \in m + 1 .. N /\ N + 1 - (N + 1 - j) = j
      BY <1>1, <2>3
    <3> QED BY <2>3, <3>1
  <2>5. a[m] = L[i].sign /\ a[m] \in {"+", "-"} /\ a[m] /= None
    BY <1>1, <2>3, GenChecksAssumption DEF GenChecksAssumption
  <2>6. \A j \in m + 1 .. N : a[j] = None
    BY <1>1, <2>3
  <2>7. LastAnswer(a) = a[m]
    <3> HIDE DEF a
    <3> QED BY <1>5, <2>3, <2>5, <2>6
  <2>8. test_disabled(n) <=> L[i].sign = "-"
    <3>1. \A k \in 1 .. N : hit(k) /\ (\A j \in 1 .. k - 1 : ~hit(j)) => k = i
      <4> SUFFICES ASSUME NEW k \in 1 .. N, hit(k), \A j \in 1 .. k - 1 : ~hit(j)
                   PROVE  k = i
        OBVIOUS
      <4>1. ~(k < i)
        BY <1>1, <2>3, <2>4
      <4>2. ~(i < k)
        BY <1>1, <2>3
      <4> QED BY <1>1, <2>3, <4>1, <4>2
    <3> QED BY <1>4, <2>3, <2>4, <3>1
  <2> QED BY <1>3, <2>5, <2>7, <2>8
<1> QED BY <1>6, <1>7

\* The code looks for the numbers of a check where they are expected.
LEMMA PositionsAre ==
  ASSUME NEW check, NEW d \in Seq(Nat)
  PROVE  /\ (\E k \in DOMAIN Positions(check) : Positions(check)[k] > Len(d))
              <=> Len(d) < Len(Taken(check))
         /\ \A j : Len(Taken(check)) <= Len(d)
                  /\ (\A k \in DOMAIN Positions(check) : j[k] = d[Positions(check)[k]])
                  => HasNumbers(j, Taken(check), d)
<1> DEFINE at == Positions(check)
           taken == Taken(check)
<1>0. Len(d) \in Nat
  OBVIOUS
<1>1. CASE check \in {"insn", "csrw", "csr_ill", "ill", "fault"}
  <2>1. at = [depth |-> 1] /\ taken = <<"depth">>
    BY <1>1 DEF Positions, Taken, Expects
  <2> HIDE DEF at, taken
  <2>2. DOMAIN at = {"depth"} /\ at["depth"] = 1
    BY <2>1
  <2>3. Len(taken) = 1 /\ DOMAIN taken = {1} /\ taken[1] = "depth"
    BY <2>1
  <2>4. (\E k \in DOMAIN at : at[k] > Len(d)) <=> Len(d) < Len(taken)
    BY <1>0, <2>2, <2>3
  <2>5. ASSUME NEW j, Len(taken) <= Len(d), \A k \in DOMAIN at : j[k] = d[at[k]]
        PROVE  HasNumbers(j, taken, d)
    BY <2>2, <2>3, <2>5 DEF HasNumbers
  <2> QED BY <2>4, <2>5 DEF at, taken
<1>2. CASE check \in {"liveness", "unique"}
  <2>1. at = [start |-> 1, trig |-> 2, depth |-> 3] /\ taken = <<"start", "trig", "depth">>
    BY <1>2 DEF Positions, Taken, Expects
  <2> HIDE DEF at, taken
  <2>2. /\ DOMAIN at = {"start", "trig", "depth"}
        /\ at["start"] = 1 /\ at["trig"] = 2 /\ at["depth"] = 3
    BY <2>1
  <2>3. /\ Len(taken) = 3 /\ DOMAIN taken = {1, 2, 3}
        /\ taken[1] = "start" /\ taken[2] = "trig" /\ taken[3] = "depth"
    BY <2>1
  <2>4. (\E k \in DOMAIN at : at[k] > Len(d)) <=> Len(d) < Len(taken)
    BY <1>0, <2>2, <2>3
  <2>5. ASSUME NEW j, Len(taken) <= Len(d), \A k \in DOMAIN at : j[k] = d[at[k]]
        PROVE  HasNumbers(j, taken, d)
    BY <2>2, <2>3, <2>5 DEF HasNumbers
  <2> QED BY <2>4, <2>5 DEF at, taken
<1>3. CASE check \notin {"insn", "csrw", "csr_ill", "ill", "fault", "liveness", "unique"}
  <2>1. at = [start |-> 1, depth |-> 2] /\ taken = <<"start", "depth">>
    BY <1>3 DEF Positions, Taken, Expects
  <2> HIDE DEF at, taken
  <2>2. DOMAIN at = {"start", "depth"} /\ at["start"] = 1 /\ at["depth"] = 2
    BY <2>1
  <2>3. Len(taken) = 2 /\ DOMAIN taken = {1, 2} /\ taken[1] = "start" /\ taken[2] = "depth"
    BY <2>1
  <2>4. (\E k \in DOMAIN at : at[k] > Len(d)) <=> Len(d) < Len(taken)
    BY <1>0, <2>2, <2>3
  <2>5. ASSUME NEW j, Len(taken) <= Len(d), \A k \in DOMAIN at : j[k] = d[at[k]]
        PROVE  HasNumbers(j, taken, d)
    BY <2>2, <2>3, <2>5 DEF HasNumbers
  <2> QED BY <2>4, <2>5 DEF at, taken
<1> QED BY <1>1, <1>2, <1>3

\* A call raises over the numbers that the file gives its check, and takes those
\* that are expected otherwise.
LEMMA MisfitIs ==
  ASSUME IsConfig(config), NEW call, NEW n, n = NameOf(call),
         (call.mode = "insn") <=> OfInsnLoop(n)
  PROVE  /\ Misfit(call) <=> WrongNumbers(n)
         /\ get_depth_cfg(n) /= None /\ ~Misfit(call) =>
              Len(Taken(n.check)) <= Len(get_depth_cfg(n))
<1> DEFINE d == get_depth_cfg(n)
<1>1. d = NumbersSaid(config.depth, n) /\ (d /= None => d \in Seq(Nat))
  BY DepthOf
<1>2. n.check = call.check
  BY DEF NameOf, Name
<1>3. Misfit(call) <=> /\ d /= None
                       /\ IF call.mode = "insn" THEN Len(d) /= 1
                          ELSE \E k \in DOMAIN Positions(n.check) : Positions(n.check)[k] > Len(d)
  BY <1>2 DEF Misfit
<1>4. WrongNumbers(n) <=> /\ d /= None
                          /\ IF OfInsnLoop(n) THEN Len(d) /= 1 ELSE Len(d) < Len(Taken(n.check))
  BY <1>1 DEF WrongNumbers
<1> HIDE DEF d
<1>5. CASE d = None
  BY <1>3, <1>4, <1>5 DEF d
<1>6. CASE d /= None
  <2>1. d \in Seq(Nat) /\ Len(d) \in Nat
    BY <1>1, <1>6
  <2>2. (\E k \in DOMAIN Positions(n.check) : Positions(n.check)[k] > Len(d))
          <=> Len(d) < Len(Taken(n.check))
    BY <2>1, PositionsAre
  <2>3. Misfit(call) <=> WrongNumbers(n)
    BY <1>3, <1>4, <2>2
  <2>4. Len(Taken(n.check)) \in Nat /\ (OfInsnLoop(n) => Len(Taken(n.check)) = 1)
    BY DEF Taken, Expects, OfInsnLoop
  <2>5. ~Misfit(call) => Len(Taken(n.check)) <= Len(d)
    BY <1>6, <2>1, <2>3, <2>4, <1>4
  <2> QED BY <2>3, <2>5 DEF d
<1> QED BY <1>5, <1>6

-----------------------------------------------------------------------------
(***************************************************************************)
(* The calls of a group.                                                   *)
(***************************************************************************)
\* The parts of a name.
LEMMA NameParts ==
  \A g, k, w, c, h, l, x, d :
    Name(g, k, w, c) = Name(h, l, x, d) <=> g = h /\ k = l /\ w = x /\ c = d
BY DEF Name

LEMMA CallParts ==
  ASSUME NEW mode, NEW grp, NEW check, NEW what, NEW ch, NEW test,
         NEW call, call = Call(mode, grp, check, what, ch, test)
  PROVE  /\ call.mode = mode /\ call.grp = grp /\ call.check = check
         /\ call.what = what /\ call.ch = ch /\ call.test = test
         /\ NameOf(call) = Name(grp, check, What(check, what), ch)
         /\ check /= "csr_ill" => NameOf(call) = Name(grp, check, what, ch)
BY DEF Call, NameOf, What

\* A finite sequence has finitely many elements.
LEMMA FiniteElements ==
  ASSUME NEW S, NEW s \in Seq(S)
  PROVE  IsFiniteSet(ToSet(s))
<1>1. Len(s) \in Nat /\ DOMAIN s = 1 .. Len(s) /\ s \in [1 .. Len(s) -> ToSet(s)]
  BY Elements
<1>2. s \in Surjection(1 .. Len(s), ToSet(s))
  BY <1>1 DEF Surjection, ToSet
<1>3. IsFiniteSet(1 .. Len(s))
  BY <1>1, FS_Interval
<1> QED BY <1>2, <1>3, FS_Surjection

\* SetToSeq lists a set.
LEMMA SetListed ==
  ASSUME NEW D, IsFiniteSet(D)
  PROVE  SetToSeq(D) \in Seq(D) /\ ToSet(SetToSeq(D)) = D /\ IsInjective(SetToSeq(D))
<1> DEFINE n == Cardinality(D)
           s == SetToSeq(D)
<1>1. n \in Nat /\ ExistsBijection(1 .. n, D) /\ IsFiniteSet(1 .. n)
  BY FS_CardinalityType, FS_Interval
<1>2. PICK b : b \in Bijection(1 .. n, D)
  BY <1>1 DEF ExistsBijection
<1>3. b \in [1 .. n -> D] /\ IsInjective(b)
  BY <1>2 DEF Bijection, Injection, IsInjective
<1>4. s \in [1 .. n -> D] /\ IsInjective(s)
  BY <1>3 DEF SetToSeq
<1> HIDE DEF s
<1>5. s \in Injection(1 .. n, D)
  BY <1>4 DEF Injection, IsInjective
<1>6. Cardinality(1 .. n) = Cardinality(D)
  BY <1>1, FS_Interval
<1>7. s \in Surjection(1 .. n, D)
  BY <1>5, <1>6, FS_Injection
<1>8. s \in Seq(D)
  BY <1>1, <1>4
<1>9. ToSet(s) = D
  BY <1>4, <1>7 DEF ToSet, Surjection
<1> QED BY <1>4, <1>8, <1>9 DEF s

\* The CSRs are listed once each.
LEMMA ListedCsrs ==
  ASSUME IsConfig(config), NEW cs, IsFiniteSet(cs), ToSet(config.csrs) \subseteq cs
  PROVE  Listed(cs) \in Seq(cs) /\ ToSet(Listed(cs)) = cs /\ IsInjective(Listed(cs))
<1> DEFINE c == config.csrs
           D == cs \ ToSet(c)
           s == SetToSeq(D)
<1>1. IsFiniteSet(D)
  BY FS_Subset
<1>2. c \in Seq(ToSet(c)) /\ IsInjective(c)
  BY DEF IsConfig, IsSeq
<1>3. s \in Seq(D) /\ ToSet(s) = D /\ IsInjective(s)
  BY <1>1, SetListed
<1> HIDE DEF s
<1>4. c \in Seq(cs) /\ s \in Seq(cs)
  <2>1. ToSet(c) \subseteq cs /\ D \subseteq cs
    OBVIOUS
  <2> QED BY <1>2, <1>3, <2>1, SeqMonotonic
<1>5. c \o s \in Seq(cs) /\ ToSet(c \o s) = ToSet(c) \cup ToSet(s)
  BY <1>4, ConcatElements
<1>6. ToSet(c \o s) = cs
  BY <1>3, <1>5
<1>7. IsInjective(c \o s)
  <2>1. /\ Len(c) \in Nat /\ Len(s) \in Nat
        /\ DOMAIN c = 1 .. Len(c) /\ DOMAIN s = 1 .. Len(s)
        /\ DOMAIN (c \o s) = 1 .. Len(c) + Len(s)
        /\ \A i \in 1 .. Len(c) : (c \o s)[i] = c[i] /\ c[i] \in ToSet(c)
        /\ \A i \in 1 .. Len(s) : (c \o s)[Len(c) + i] = s[i] /\ s[i] \notin ToSet(c)
    BY <1>2, <1>3, <1>4, ConcatProperties, Elements
  <2>2. ASSUME NEW i \in 1 .. Len(c) + Len(s), i > Len(c)
        PROVE  /\ i - Len(c) \in 1 .. Len(s)
               /\ (c \o s)[i] = s[i - Len(c)] /\ (c \o s)[i] \notin ToSet(c)
    <3>1. i - Len(c) \in 1 .. Len(s) /\ Len(c) + (i - Len(c)) = i
      BY <2>1, <2>2
    <3> QED BY <2>1, <3>1
  <2>3. ASSUME NEW i \in 1 .. Len(c) + Len(s), NEW j \in 1 .. Len(c) + Len(s),
               (c \o s)[i] = (c \o s)[j]
        PROVE  i = j
    <3>1. CASE i <= Len(c) /\ j <= Len(c)
      <4>1. i \in 1 .. Len(c) /\ j \in 1 .. Len(c)
        BY <2>1, <3>1
      <4>2. c[i] = c[j]
        BY <2>1, <2>3, <4>1
      <4> QED BY <1>2, <2>1, <4>1, <4>2 DEF IsInjective
    <3>2. CASE i > Len(c) /\ j > Len(c)
      <4>1. /\ s[i - Len(c)] = s[j - Len(c)]
            /\ i - Len(c) \in 1 .. Len(s) /\ j - Len(c) \in 1 .. Len(s)
        BY <2>2, <2>3, <3>2
      <4>2. i - Len(c) = j - Len(c)
        BY <1>3, <2>1, <4>1 DEF IsInjective
      <4> QED BY <2>1, <4>2
    <3>3. CASE i <= Len(c) /\ j > Len(c)
      <4>1. i \in 1 .. Len(c)
        BY <2>1, <3>3
      <4> QED BY <2>1, <2>2, <2>3, <3>3, <4>1
    <3>4. CASE i > Len(c) /\ j <= Len(c)
      <4>1. j \in 1 .. Len(c)
        BY <2>1, <3>4
      <4> QED BY <2>1, <2>2, <2>3, <3>4, <4>1
    <3> QED BY <2>1, <3>1, <3>2, <3>3, <3>4
  <2> QED BY <2>1, <2>3 DEF IsInjective
<1> QED BY <1>5, <1>6, <1>7 DEF Listed, s

\* One call for every element and channel.
LEMMA ForEachCalls ==
  ASSUME NEW mode, NEW grp, NEW check, NEW X, NEW s \in Seq(X),
         NEW C, C = {Call(mode, grp, check, x, ch, None) : x \in ToSet(s), ch \in Channels}
  PROVE  /\ ForEach(mode, grp, check, s) \in Seq(C)
         /\ ToSet(ForEach(mode, grp, check, s)) = C
         /\ (\A i, j \in DOMAIN s : What(check, s[i]) = What(check, s[j]) => i = j)
              => DistinctNames(ForEach(mode, grp, check, s))
         /\ IsInjective(s) /\ check /= "csr_ill" => DistinctNames(ForEach(mode, grp, check, s))
<1> DEFINE N == Len(s)
           of(i) == [c \in 1 .. NRet |-> Call(mode, grp, check, s[i], c - 1, None)]
           ss == [i \in 1 .. N |-> of(i)]
<1>1. /\ NRet \in Nat /\ N \in Nat /\ DOMAIN s = 1 .. N
      /\ \A i \in 1 .. N : s[i] \in ToSet(s)
  BY Elements, GenChecksAssumption DEF GenChecksAssumption
<1>2. \A c \in 1 .. NRet : c - 1 \in Channels
  BY <1>1 DEF Channels
<1>3. ASSUME NEW i \in 1 .. N
      PROVE  /\ of(i) \in Seq(C) /\ Len(of(i)) = NRet /\ DOMAIN of(i) = 1 .. NRet
             /\ \A c \in 1 .. NRet : NameOf(of(i)[c]) = Name(grp, check, What(check, s[i]), c - 1)
             /\ ToSet(of(i)) = {Call(mode, grp, check, s[i], ch, None) : ch \in Channels}
  <2>1. \A c \in 1 .. NRet : Call(mode, grp, check, s[i], c - 1, None) \in C
    BY <1>1, <1>2
  <2>2. of(i) \in Seq(C) /\ Len(of(i)) = NRet /\ DOMAIN of(i) = 1 .. NRet
    BY <1>1, <2>1
  <2>3. \A c \in 1 .. NRet : NameOf(of(i)[c]) = Name(grp, check, What(check, s[i]), c - 1)
    BY CallParts
  <2>4. ToSet(of(i)) = {Call(mode, grp, check, s[i], c - 1, None) : c \in 1 .. NRet}
    BY <2>2 DEF ToSet
  <2>5. \A ch \in Channels : ch + 1 \in 1 .. NRet /\ (ch + 1) - 1 = ch
    BY <1>1 DEF Channels
  <2>6. ToSet(of(i)) = {Call(mode, grp, check, s[i], ch, None) : ch \in Channels}
    BY <1>2, <2>4, <2>5
  <2> QED BY <2>2, <2>3, <2>6
<1>4. ss \in Seq(Seq(C)) /\ Len(ss) = N /\ \A i \in 1 .. N : ss[i] = of(i)
  <2>1. \A i \in 1 .. N : of(i) \in Seq(C)
    BY <1>3
  <2> HIDE DEF of
  <2> QED BY <1>1, <2>1
<1>5. ForEach(mode, grp, check, s) = FlattenSeq(ss)
  BY DEF ForEach
<1> HIDE DEF ss, of
<1>6. FlattenSeq(ss) \in Seq(C)
  BY <1>4, Flatten
<1>7. ToSet(FlattenSeq(ss)) = C
  <2>1. \A x : x \in ToSet(FlattenSeq(ss)) <=> \E i \in 1 .. N : x \in ToSet(of(i))
    BY <1>4, Flatten
  <2>2. \A x : x \in C <=> \E i \in 1 .. N : x \in ToSet(of(i))
    <3>1. \A y : y \in ToSet(s) <=> \E i \in 1 .. N : y = s[i]
      BY <1>1 DEF ToSet
    <3>2. \A i \in 1 .. N : \A x :
            x \in ToSet(of(i)) <=> \E ch \in Channels : x = Call(mode, grp, check, s[i], ch, None)
      BY <1>3, Zenon
    <3>3. \A x : x \in C <=> \E y \in ToSet(s) : \E ch \in Channels :
                              x = Call(mode, grp, check, y, ch, None)
      OBVIOUS
    <3> SUFFICES ASSUME NEW x PROVE x \in C <=> \E i \in 1 .. N : x \in ToSet(of(i))
      OBVIOUS
    <3>4. ASSUME x \in C PROVE \E i \in 1 .. N : x \in ToSet(of(i))
      <4>1. PICK y \in ToSet(s), ch \in Channels : x = Call(mode, grp, check, y, ch, None)
        BY <3>3, <3>4
      <4>2. PICK i \in 1 .. N : y = s[i]
        BY <3>1
      <4> QED BY <3>2, <4>1, <4>2
    <3>5. ASSUME NEW i \in 1 .. N, x \in ToSet(of(i)) PROVE x \in C
      BY <1>1, <3>2, <3>3, <3>5
    <3> QED BY <3>4, <3>5
  <2> QED BY <2>1, <2>2
<1>8. ASSUME \A i, j \in DOMAIN s : What(check, s[i]) = What(check, s[j]) => i = j
      PROVE  DistinctNames(FlattenSeq(ss))
  <2>1. ASSUME NEW i \in 1 .. N PROVE DistinctNames(ss[i])
    <3> SUFFICES ASSUME NEW c \in 1 .. NRet, NEW d \in 1 .. NRet,
                        NameOf(of(i)[c]) = NameOf(of(i)[d])
                 PROVE  c = d
      BY <1>3, <1>4 DEF DistinctNames
    <3>1. Name(grp, check, What(check, s[i]), c - 1) = Name(grp, check, What(check, s[i]), d - 1)
      BY <1>3
    <3>2. c - 1 = d - 1
      BY <3>1 DEF Name
    <3> QED BY <1>1, <3>2
  <2>2. ASSUME NEW i \in 1 .. N, NEW j \in 1 .. N, i /= j
        PROVE  NamesOf(ss[i]) \cap NamesOf(ss[j]) = {}
    <3> SUFFICES ASSUME NEW a \in ToSet(of(i)), NEW b \in ToSet(of(j)), NameOf(a) = NameOf(b)
                 PROVE  FALSE
      BY <1>4 DEF NamesOf
    <3>1. PICK c \in Channels : a = Call(mode, grp, check, s[i], c, None)
      BY <1>3
    <3>2. PICK d \in Channels : b = Call(mode, grp, check, s[j], d, None)
      BY <1>3
    <3>3. What(check, s[i]) = What(check, s[j])
      BY <3>1, <3>2, CallParts, NameParts
    <3> QED BY <1>1, <1>8, <2>2, <3>3
  <2> QED BY <1>4, <2>1, <2>2, Flatten
<1>9. ASSUME IsInjective(s), check /= "csr_ill" PROVE DistinctNames(FlattenSeq(ss))
  <2>1. \A i, j \in DOMAIN s : What(check, s[i]) = What(check, s[j]) => i = j
    BY <1>9 DEF What, IsInjective
  <2> QED BY <1>8, <2>1
<1> QED BY <1>5, <1>6, <1>7, <1>8, <1>9

\* The calls of one kind for the elements of xs.
CallsFor(mode, grp, check, xs) ==
  {Call(mode, grp, check, x, ch, None) : x \in xs, ch \in Channels}

InsnSet(grp) ==
  CallsFor("insn", grp, "insn", ToSet(Insns)) \cup CallsFor("insn", grp, "csrw", csrs)
  \cup CallsFor("insn", grp, "csr_ill", config.illegal)

\* No address comes in two lines of illegal_csrs.
DistinctIllegal == \A l, m \in config.illegal : l.addr = m.addr => l = m

\* The calls of check_insn for a group.
LEMMA InsnCallsAre ==
  ASSUME IsConfig(config), IsFiniteSet(csrs), ToSet(config.csrs) \subseteq csrs, NEW grp
  PROVE  /\ InsnCalls(grp) \in Seq(InsnSet(grp)) /\ ToSet(InsnCalls(grp)) = InsnSet(grp)
         /\ DistinctIllegal => DistinctNames(InsnCalls(grp))
<1> DEFINE A == CallsFor("insn", grp, "insn", ToSet(Insns))
           B == CallsFor("insn", grp, "csrw", csrs)
           C == CallsFor("insn", grp, "csr_ill", config.illegal)
           S == InsnSet(grp)
           s == ForEach("insn", grp, "insn", Insns)
           t == ForEach("insn", grp, "csrw", Listed(csrs))
           u == ForEach("insn", grp, "csr_ill", SetToSeq(config.illegal))
<1>1. s \in Seq(A) /\ ToSet(s) = A /\ DistinctNames(s)
  <2>1. Insns \in Seq(ToSet(Insns)) /\ IsInjective(Insns)
    BY GenChecksAssumption DEF GenChecksAssumption, IsSeq
  <2> QED BY <2>1, ForEachCalls DEF CallsFor
<1>2. t \in Seq(B) /\ ToSet(t) = B /\ DistinctNames(t)
  <2>1. Listed(csrs) \in Seq(csrs) /\ ToSet(Listed(csrs)) = csrs /\ IsInjective(Listed(csrs))
    BY ListedCsrs
  <2> QED BY <2>1, ForEachCalls DEF CallsFor
<1>3. u \in Seq(C) /\ ToSet(u) = C /\ (DistinctIllegal => DistinctNames(u))
  <2> DEFINE D == config.illegal
             L == SetToSeq(D)
  <2>1. L \in Seq(D) /\ ToSet(L) = D /\ IsInjective(L)
    BY SetListed DEF IsConfig
  <2>2. u = ForEach("insn", grp, "csr_ill", L)
        /\ C = {Call("insn", grp, "csr_ill", x, ch, None) : x \in D, ch \in Channels}
    BY DEF CallsFor
  <2>3. \A i \in DOMAIN L : L[i] \in D
    BY <2>1 DEF ToSet
  <2>4. DistinctIllegal =>
          \A i, j \in DOMAIN L : What("csr_ill", L[i]) = What("csr_ill", L[j]) => i = j
    BY <2>1, <2>3 DEF DistinctIllegal, What, IsInjective
  <2> HIDE DEF L, D, u, C
  <2>5. C = {Call("insn", grp, "csr_ill", x, ch, None) : x \in ToSet(L), ch \in Channels}
    BY <2>1, <2>2
  <2> QED BY <2>1, <2>2, <2>4, <2>5, ForEachCalls
<1>4. S = A \cup B \cup C
  BY DEF InsnSet
<1>5. InsnCalls(grp) = s \o t \o u
  BY DEF InsnCalls
<1>6. /\ \A c \in A : NameOf(c).check = "insn"
      /\ \A c \in B : NameOf(c).check = "csrw"
      /\ \A c \in C : NameOf(c).check = "csr_ill"
  BY DEF CallsFor, Call, NameOf, Name
<1> HIDE DEF A, B, C, s, t, u
<1>7. s \in Seq(S) /\ t \in Seq(S) /\ u \in Seq(S)
  <2>1. A \subseteq S /\ B \subseteq S /\ C \subseteq S
    BY <1>4
  <2> QED BY <1>1, <1>2, <1>3, <2>1, SeqMonotonic
<1>8. s \o t \in Seq(S) /\ ToSet(s \o t) = A \cup B
  BY <1>1, <1>2, <1>7, ConcatElements
<1>9. s \o t \o u \in Seq(S) /\ ToSet(s \o t \o u) = S
  <2> DEFINE st == s \o t
  <2>1. st \in Seq(S) /\ ToSet(st) = A \cup B
    BY <1>8
  <2> HIDE DEF st
  <2>2. st \o u \in Seq(S) /\ ToSet(st \o u) = ToSet(st) \cup ToSet(u)
    BY <1>7, <2>1, ConcatElements
  <2>3. ToSet(st \o u) = S
    BY <1>3, <1>4, <2>1, <2>2
  <2> QED BY <2>2, <2>3 DEF st
<1>10. DistinctNames(s \o t)
  <2>1. NamesOf(s) \cap NamesOf(t) = {}
    BY <1>1, <1>2, <1>6 DEF NamesOf
  <2> QED BY <1>1, <1>2, <1>7, <2>1, ConcatDistinct
<1>11. DistinctIllegal => DistinctNames(s \o t \o u)
  <2>1. NamesOf(s \o t) \cap NamesOf(u) = {}
    BY <1>3, <1>6, <1>8 DEF NamesOf
  <2> QED BY <1>3, <1>7, <1>8, <1>10, <2>1, ConcatDistinct
<1> QED BY <1>5, <1>9, <1>11

\* The checks of the second loop that every channel gets.
LEMMA PerChannelIs ==
  /\ PerChannel \in Seq(ToSet(PerChannel)) /\ IsInjective(PerChannel)
  /\ ToSet(PerChannel) \cap ({"insn", "csrw", "csr_ill", "hang", "cover", "csrc"} \cup TestKinds) = {}
<1>1. Len(PerChannel) = 19 /\ DOMAIN PerChannel = 1 .. 19
  BY DEF PerChannel
<1>2. PerChannel \in Seq(ToSet(PerChannel))
  <2>1. PerChannel = [i \in 1 .. 19 |-> PerChannel[i]]
    BY DEF PerChannel
  <2>2. \A i \in 1 .. 19 : PerChannel[i] \in ToSet(PerChannel)
    BY <1>1 DEF ToSet
  <2> QED BY <1>1, <2>1, <2>2
<1>3. IsInjective(PerChannel)
  BY <1>1 DEF PerChannel, IsInjective
<1>4. ToSet(PerChannel) \cap ({"insn", "csrw", "csr_ill", "hang", "cover", "csrc"} \cup TestKinds) = {}
  BY <1>1 DEF PerChannel, ToSet, TestKinds
<1> QED BY <1>2, <1>3, <1>4

\* The tests of a CSR.
DistinctTests ==
  \A x \in DOMAIN config.tests : \A i, k \in DOMAIN config.tests[x] :
    config.tests[x][i].kind = config.tests[x][k].kind => i = k

LEMMA TestsAre ==
  ASSUME IsConfig(config), NEW x
  PROVE  /\ TestsOf(x) \in Seq(ToSet(TestsOf(x)))
         /\ \A t \in ToSet(TestsOf(x)) :
              /\ CheckOfTest(t) \in {"csrc"} \cup TestKinds
              /\ CheckOfTest(t) = "csrc_hpm" => x \in DOMAIN CounterOf
              /\ t /= None => x \in ToSet(config.csrs)
         /\ DistinctTests =>
              \A i, k \in DOMAIN TestsOf(x) :
                CheckOfTest(TestsOf(x)[i]) = CheckOfTest(TestsOf(x)[k]) => i = k
<1>1. CASE x \in DOMAIN config.tests
  <2> DEFINE s == config.tests[x]
  <2>1. TestsOf(x) = s
    BY <1>1 DEF TestsOf
  <2>2. s \in Seq(ToSet(s)) /\ x \in ToSet(config.csrs)
    BY <1>1 DEF IsConfig, IsSeq
  <2>3. \A t \in ToSet(s) :
          t /= None /\ t.kind \in TestKinds /\ (t.kind = "csrc_hpm" => x \in DOMAIN CounterOf)
    BY <1>1 DEF IsConfig
  <2>4. \A t \in ToSet(s) : CheckOfTest(t) = t.kind
    BY <2>3 DEF CheckOfTest
  <2>5. \A i \in DOMAIN s : s[i] \in ToSet(s)
    BY DEF ToSet
  <2>6. DistinctTests => \A i, k \in DOMAIN s : CheckOfTest(s[i]) = CheckOfTest(s[k]) => i = k
    BY <1>1, <2>4, <2>5 DEF DistinctTests
  <2> HIDE DEF s
  <2> QED BY <2>1, <2>2, <2>3, <2>4, <2>6
<1>2. CASE x \notin DOMAIN config.tests
  <2>1. TestsOf(x) = <<None>>
    BY <1>2 DEF TestsOf
  <2>2. DOMAIN <<None>> = {1} /\ ToSet(<<None>>) = {None} /\ <<None>> \in Seq({None})
    BY DEF ToSet
  <2>3. CheckOfTest(None) = "csrc"
    BY DEF CheckOfTest
  <2> QED BY <2>1, <2>2, <2>3
<1> QED BY <1>1, <1>2

\* The csrc calls for a group.
CsrcSet(grp) ==
  UNION {{Call("csrc", grp, CheckOfTest(t), x, ch, t) : t \in ToSet(TestsOf(x)), ch \in Channels} :
           x \in csrs}

LEMMA CsrcCalls ==
  ASSUME IsConfig(config), IsFiniteSet(csrs), ToSet(config.csrs) \subseteq csrs, NEW grp,
         NEW csrc, csrc = ForEach("csrc", grp, "csrc", Listed(csrs)),
         NEW s, s = FlattenSeq([i \in 1 .. Len(csrc) |-> WithTests(csrc[i])])
  PROVE  s \in Seq(CsrcSet(grp)) /\ ToSet(s) = CsrcSet(grp) /\ (DistinctTests => DistinctNames(s))
<1> DEFINE C == CallsFor("csrc", grp, "csrc", csrs)
           S == CsrcSet(grp)
           N == Len(csrc)
           ss == [i \in 1 .. N |-> WithTests(csrc[i])]
<1>1. csrc \in Seq(C) /\ ToSet(csrc) = C /\ DistinctNames(csrc)
  <2>1. Listed(csrs) \in Seq(csrs) /\ ToSet(Listed(csrs)) = csrs /\ IsInjective(Listed(csrs))
    BY ListedCsrs
  <2> DEFINE L == Listed(csrs)
  <2>2. C = {Call("csrc", grp, "csrc", x, ch, None) : x \in ToSet(L), ch \in Channels}
    BY <2>1 DEF CallsFor
  <2>3. L \in Seq(csrs) /\ IsInjective(L)
    BY <2>1
  <2> DEFINE D == {Call("csrc", grp, "csrc", x, ch, None) : x \in ToSet(L), ch \in Channels}
             calls == ForEach("csrc", grp, "csrc", L)
  <2> HIDE DEF L
  <2>4. calls \in Seq(D) /\ ToSet(calls) = D /\ DistinctNames(calls)
    BY <2>3, ForEachCalls
  <2>5. csrc = calls
    BY DEF L
  <2> HIDE DEF C, D, calls
  <2> QED BY <2>2, <2>4, <2>5 DEF D
<1>2. N \in Nat /\ DOMAIN csrc = 1 .. N /\ \A i \in 1 .. N : csrc[i] \in C
  BY <1>1
<1>3. ASSUME NEW c \in C
      PROVE  /\ WithTests(c) \in Seq(S)
             /\ ToSet(WithTests(c)) =
                  {Call("csrc", grp, CheckOfTest(t), c.what, c.ch, t) : t \in ToSet(TestsOf(c.what))}
             /\ DistinctTests => DistinctNames(WithTests(c))
             /\ c = Call("csrc", grp, "csrc", c.what, c.ch, None)
             /\ c.what \in csrs /\ c.ch \in Channels
  <2>1. PICK x \in csrs, ch \in Channels : c = Call("csrc", grp, "csrc", x, ch, None)
    BY DEF CallsFor
  <2>2. c.what = x /\ c.ch = ch /\ c = Call("csrc", grp, "csrc", c.what, c.ch, None)
    BY <2>1, CallParts
  <2> DEFINE tests == TestsOf(x)
             n == Len(tests)
             of(i) == Call("csrc", grp, CheckOfTest(tests[i]), x, ch, tests[i])
  <2>3. n \in Nat /\ DOMAIN tests = 1 .. n /\ \A i \in 1 .. n : tests[i] \in ToSet(tests)
    <3>1. tests \in Seq(ToSet(tests))
      BY TestsAre
    <3> QED BY <3>1, Elements
  <2>4. WithTests(c) = [i \in 1 .. n |-> of(i)]
    BY <2>1, <2>2, CallParts DEF WithTests
  <2>5. \A i \in 1 .. n : of(i) \in S
    BY <2>1, <2>3 DEF CsrcSet
  <2>6. WithTests(c) \in Seq(S) /\ DOMAIN WithTests(c) = 1 .. n
    <3> HIDE DEF of, n
    <3> QED BY <2>3, <2>4, <2>5
  <2>7. ToSet(WithTests(c)) = {of(i) : i \in 1 .. n}
    <3> HIDE DEF of, n
    <3> QED BY <2>4, <2>6 DEF ToSet
  <2>8. ToSet(tests) = {tests[i] : i \in 1 .. n}
    BY <2>3 DEF ToSet
  <2>9. {of(i) : i \in 1 .. n} = {Call("csrc", grp, CheckOfTest(t), x, ch, t) : t \in ToSet(tests)}
    BY <2>8
  <2>10. ASSUME DistinctTests PROVE DistinctNames(WithTests(c))
    <3> SUFFICES ASSUME NEW i \in 1 .. n, NEW k \in 1 .. n, NameOf(of(i)) = NameOf(of(k))
                 PROVE  i = k
      BY <2>4, <2>6 DEF DistinctNames
    <3>1. CheckOfTest(tests[i]) = CheckOfTest(tests[k])
      BY DEF Call, NameOf, Name
    <3> QED BY <2>3, <2>10, <3>1, TestsAre
  <2> QED BY <2>1, <2>2, <2>6, <2>7, <2>9, <2>10
<1>4. ss \in Seq(Seq(S)) /\ Len(ss) = N /\ \A i \in 1 .. N : ss[i] = WithTests(csrc[i])
  BY <1>2, <1>3
<1>5. s = FlattenSeq(ss)
  OBVIOUS
<1> HIDE DEF ss, N
<1>6. s \in Seq(S)
  BY <1>4, <1>5, Flatten
<1>7. ToSet(s) = S
  <2>1. \A x : x \in ToSet(s) <=> \E i \in 1 .. N : x \in ToSet(WithTests(csrc[i]))
    BY <1>4, <1>5, Flatten
  <2>2. ASSUME NEW d \in S PROVE d \in ToSet(s)
    <3>0. PICK x \in csrs : \E t \in ToSet(TestsOf(x)), ch \in Channels :
                              d = Call("csrc", grp, CheckOfTest(t), x, ch, t)
      BY DEF CsrcSet
    <3>1. PICK t \in ToSet(TestsOf(x)), ch \in Channels :
            d = Call("csrc", grp, CheckOfTest(t), x, ch, t)
      BY <3>0
    <3>2. PICK c \in C : c = Call("csrc", grp, "csrc", x, ch, None)
      BY DEF CallsFor
    <3>3. c.what = x /\ c.ch = ch
      BY <3>2, CallParts
    <3>4. d \in ToSet(WithTests(c))
      BY <1>3, <3>1, <3>3
    <3>5. PICK i \in 1 .. N : c = csrc[i]
      BY <1>1, <1>2 DEF ToSet
    <3> QED BY <2>1, <3>4, <3>5
  <2>3. ASSUME NEW d \in ToSet(s) PROVE d \in S
    BY <1>6, Elements
  <2> QED BY <2>2, <2>3
<1>8. ASSUME DistinctTests PROVE DistinctNames(s)
  <2>1. \A i \in 1 .. N : DistinctNames(ss[i])
    BY <1>2, <1>3, <1>4, <1>8
  <2>2. ASSUME NEW i \in 1 .. N, NEW j \in 1 .. N, i /= j
        PROVE  NamesOf(ss[i]) \cap NamesOf(ss[j]) = {}
    <3> SUFFICES ASSUME NEW a \in ToSet(WithTests(csrc[i])), NEW b \in ToSet(WithTests(csrc[j])),
                        NameOf(a) = NameOf(b)
                 PROVE  FALSE
      BY <1>4 DEF NamesOf
    <3> DEFINE c == csrc[i]
               d == csrc[j]
    <3>1. c \in C /\ d \in C
      BY <1>2
    <3> HIDE DEF c, d
    <3>2. PICK t \in ToSet(TestsOf(c.what)) : a = Call("csrc", grp, CheckOfTest(t), c.what, c.ch, t)
      BY <1>3, <3>1 DEF c
    <3>3. PICK u \in ToSet(TestsOf(d.what)) : b = Call("csrc", grp, CheckOfTest(u), d.what, d.ch, u)
      BY <1>3, <3>1 DEF d
    <3>4. c.what = d.what /\ c.ch = d.ch
      <4>1. CheckOfTest(t) /= "csr_ill" /\ CheckOfTest(u) /= "csr_ill"
        BY <3>2, <3>3, TestsAre DEF TestKinds
      <4>2. /\ NameOf(a) = Name(grp, CheckOfTest(t), c.what, c.ch)
            /\ NameOf(b) = Name(grp, CheckOfTest(u), d.what, d.ch)
        BY <3>2, <3>3, <4>1, CallParts
      <4>3. Name(grp, CheckOfTest(t), c.what, c.ch) = Name(grp, CheckOfTest(u), d.what, d.ch)
        BY <4>2
      <4> QED BY <4>3, NameParts
    <3>5. c = d
      BY <1>3, <3>1, <3>4
    <3> QED BY <1>1, <1>2, <2>2, <3>5 DEF DistinctNames, c, d
  <2> QED BY <1>4, <1>5, <2>1, <2>2, Flatten
<1> QED BY <1>6, <1>7, <1>8

\* The calls of check_cons for a group.
ChannelSet(grp) ==
  {Call("cons", grp, k, None, ch, None) : k \in ToSet(PerChannel), ch \in Channels}
CoreSet(grp) == {Call("cons", grp, k, None, None, None) : k \in {"hang", "cover"}}
ConsSet(grp) == ChannelSet(grp) \cup CoreSet(grp) \cup CsrcSet(grp)

LEMMA ChannelCalls ==
  ASSUME NEW grp, NEW s,
         s = FlattenSeq([c \in 1 .. NRet |->
               [i \in 1 .. Len(PerChannel) |-> Call("cons", grp, PerChannel[i], None, c - 1, None)]])
  PROVE  s \in Seq(ChannelSet(grp)) /\ ToSet(s) = ChannelSet(grp) /\ DistinctNames(s)
<1> DEFINE S == ChannelSet(grp)
           n == Len(PerChannel)
           of(c) == [i \in 1 .. n |-> Call("cons", grp, PerChannel[i], None, c - 1, None)]
           ss == [c \in 1 .. NRet |-> of(c)]
<1>1. /\ NRet \in Nat /\ n \in Nat /\ IsInjective(PerChannel)
      /\ DOMAIN PerChannel = 1 .. n /\ ToSet(PerChannel) = {PerChannel[i] : i \in 1 .. n}
  <2>1. PerChannel \in Seq(ToSet(PerChannel)) /\ IsInjective(PerChannel)
    BY PerChannelIs
  <2>2. n \in Nat /\ DOMAIN PerChannel = 1 .. n
    BY <2>1, Elements
  <2> QED BY <2>1, <2>2, GenChecksAssumption DEF GenChecksAssumption, ToSet
<1> HIDE DEF n
<1>2. \A c \in 1 .. NRet : c - 1 \in Channels
  BY <1>1 DEF Channels
<1>3. \A ch \in Channels : ch + 1 \in 1 .. NRet /\ (ch + 1) - 1 = ch
  BY <1>1 DEF Channels
<1>4. ASSUME NEW c \in 1 .. NRet
      PROVE  /\ of(c) \in Seq(S) /\ DOMAIN of(c) = 1 .. n
             /\ ToSet(of(c)) = {Call("cons", grp, k, None, c - 1, None) : k \in ToSet(PerChannel)}
             /\ DistinctNames(of(c))
  <2>1. \A i \in 1 .. n : Call("cons", grp, PerChannel[i], None, c - 1, None) \in S
    BY <1>1, <1>2 DEF ChannelSet
  <2>2. of(c) \in Seq(S) /\ DOMAIN of(c) = 1 .. n
    BY <1>1, <2>1
  <2>3. ToSet(of(c)) = {Call("cons", grp, PerChannel[i], None, c - 1, None) : i \in 1 .. n}
    BY <2>2 DEF ToSet
  <2>4. ToSet(of(c)) = {Call("cons", grp, k, None, c - 1, None) : k \in ToSet(PerChannel)}
    BY <1>1, <2>3
  <2>5. DistinctNames(of(c))
    <3> SUFFICES ASSUME NEW i \in 1 .. n, NEW j \in 1 .. n,
                        NameOf(of(c)[i]) = NameOf(of(c)[j])
                 PROVE  i = j
      BY <2>2 DEF DistinctNames
    <3>1. PerChannel[i] = PerChannel[j]
      BY DEF NameOf, Name, Call
    <3> QED BY <1>1, <3>1 DEF IsInjective
  <2> QED BY <2>2, <2>4, <2>5
<1>5. ss \in Seq(Seq(S)) /\ Len(ss) = NRet /\ \A c \in 1 .. NRet : ss[c] = of(c)
  <2>1. \A c \in 1 .. NRet : of(c) \in Seq(S)
    BY <1>4
  <2> HIDE DEF of
  <2> QED BY <1>1, <2>1
<1>6. s = FlattenSeq(ss)
  BY DEF n
<1> HIDE DEF ss, of
<1>7. s \in Seq(S)
  BY <1>5, <1>6, Flatten
<1>8. ToSet(s) = S
  <2>1. \A x : x \in ToSet(s) <=> \E c \in 1 .. NRet : x \in ToSet(of(c))
    BY <1>5, <1>6, Flatten
  <2>2. ASSUME NEW x \in S PROVE x \in ToSet(s)
    <3>1. PICK k \in ToSet(PerChannel), ch \in Channels : x = Call("cons", grp, k, None, ch, None)
      BY DEF ChannelSet
    <3>2. ch + 1 \in 1 .. NRet /\ x \in ToSet(of(ch + 1))
      BY <1>3, <1>4, <3>1
    <3> QED BY <2>1, <3>2
  <2>3. ASSUME NEW x \in ToSet(s) PROVE x \in S
    BY <1>7, Elements
  <2> QED BY <2>2, <2>3
<1>9. DistinctNames(s)
  <2>1. \A c \in 1 .. NRet : DistinctNames(ss[c])
    BY <1>4, <1>5
  <2>2. ASSUME NEW c \in 1 .. NRet, NEW d \in 1 .. NRet, c /= d
        PROVE  NamesOf(ss[c]) \cap NamesOf(ss[d]) = {}
    <3> SUFFICES ASSUME NEW a \in ToSet(of(c)), NEW b \in ToSet(of(d)), NameOf(a) = NameOf(b)
                 PROVE  FALSE
      BY <1>5 DEF NamesOf
    <3>1. PICK k : a = Call("cons", grp, k, None, c - 1, None)
      BY <1>4
    <3>2. PICK l : b = Call("cons", grp, l, None, d - 1, None)
      BY <1>4
    <3>3. c - 1 = d - 1
      BY <3>1, <3>2 DEF NameOf, Name, Call
    <3> QED BY <1>1, <2>2, <3>3
  <2> QED BY <1>5, <1>6, <2>1, <2>2, Flatten
<1> QED BY <1>7, <1>8, <1>9

LEMMA ConsCallsAre ==
  ASSUME IsConfig(config), IsFiniteSet(csrs), ToSet(config.csrs) \subseteq csrs, NEW grp
  PROVE  /\ ConsCalls(grp) \in Seq(ConsSet(grp)) /\ ToSet(ConsCalls(grp)) = ConsSet(grp)
         /\ DistinctTests => DistinctNames(ConsCalls(grp))
<1> DEFINE A == ChannelSet(grp)
           B == CoreSet(grp)
           C == CsrcSet(grp)
           S == ConsSet(grp)
           s == FlattenSeq([c \in 1 .. NRet |->
                  [i \in 1 .. Len(PerChannel) |-> Call("cons", grp, PerChannel[i], None, c - 1, None)]])
           t == <<Call("cons", grp, "hang", None, None, None),
                  Call("cons", grp, "cover", None, None, None)>>
           csrc == ForEach("csrc", grp, "csrc", Listed(csrs))
           u == FlattenSeq([i \in 1 .. Len(csrc) |-> WithTests(csrc[i])])
           st == s \o t
<1>1. s \in Seq(A) /\ ToSet(s) = A /\ DistinctNames(s)
  BY ChannelCalls
<1>2. t \in Seq(B) /\ ToSet(t) = B /\ DistinctNames(t)
  <2> DEFINE h == Call("cons", grp, "hang", None, None, None)
             c == Call("cons", grp, "cover", None, None, None)
  <2>1. B = {h, c} /\ t = <<h, c>>
    BY DEF CoreSet
  <2>2. NameOf(h) /= NameOf(c)
    BY DEF NameOf, Name, Call
  <2> HIDE DEF h, c, t, B
  <2>3. DOMAIN t = {1, 2} /\ t[1] = h /\ t[2] = c
    BY <2>1
  <2>4. t \in Seq(B) /\ ToSet(t) = B
    BY <2>1, <2>3 DEF ToSet
  <2>5. DistinctNames(t)
    BY <2>2, <2>3 DEF DistinctNames
  <2> QED BY <2>4, <2>5
<1>3. u \in Seq(C) /\ ToSet(u) = C /\ (DistinctTests => DistinctNames(u))
  BY CsrcCalls
<1>4. S = A \cup B \cup C /\ ConsCalls(grp) = st \o u
  BY DEF ConsSet, ConsCalls
<1>5. /\ \A c \in A : NameOf(c).check \in ToSet(PerChannel)
      /\ \A c \in B : NameOf(c).check \in {"hang", "cover"}
      /\ \A c \in C : NameOf(c).check \in {"csrc"} \cup TestKinds
  <2>1. \A c \in A : NameOf(c).check \in ToSet(PerChannel)
    BY DEF ChannelSet, NameOf, Name, Call
  <2>2. \A c \in B : NameOf(c).check \in {"hang", "cover"}
    BY DEF CoreSet, NameOf, Name, Call
  <2>3. ASSUME NEW c \in C PROVE NameOf(c).check \in {"csrc"} \cup TestKinds
    <3>1. PICK x \in csrs : \E v \in ToSet(TestsOf(x)), ch \in Channels :
                              c = Call("csrc", grp, CheckOfTest(v), x, ch, v)
      BY DEF CsrcSet
    <3>2. PICK v \in ToSet(TestsOf(x)), ch \in Channels :
            c = Call("csrc", grp, CheckOfTest(v), x, ch, v)
      BY <3>1
    <3>3. NameOf(c).check = CheckOfTest(v)
      BY <3>2 DEF NameOf, Name, Call
    <3> QED BY <3>3, TestsAre
  <2> QED BY <2>1, <2>2, <2>3
<1>6. /\ ToSet(PerChannel) \cap {"hang", "cover"} = {}
      /\ ToSet(PerChannel) \cap ({"csrc"} \cup TestKinds) = {}
      /\ {"hang", "cover"} \cap ({"csrc"} \cup TestKinds) = {}
  <2>1. {"hang", "cover"} \cap ({"csrc"} \cup TestKinds) = {}
    BY DEF TestKinds
  <2> QED BY <2>1, PerChannelIs
<1> HIDE DEF A, B, C, S, s, t, u
<1>7. s \in Seq(S) /\ t \in Seq(S) /\ u \in Seq(S)
  <2>1. A \subseteq S /\ B \subseteq S /\ C \subseteq S
    BY <1>4
  <2> QED BY <1>1, <1>2, <1>3, <2>1, SeqMonotonic
<1>8. st \in Seq(S) /\ ToSet(st) = A \cup B /\ DistinctNames(st)
  <2>1. NamesOf(s) \cap NamesOf(t) = {}
    BY <1>1, <1>2, <1>5, <1>6 DEF NamesOf
  <2>2. DistinctNames(st)
    BY <1>1, <1>2, <1>7, <2>1, ConcatDistinct
  <2>3. st \in Seq(S) /\ ToSet(st) = A \cup B
    BY <1>1, <1>2, <1>7, ConcatElements
  <2> QED BY <2>2, <2>3
<1> HIDE DEF st
<1>9. st \o u \in Seq(S) /\ ToSet(st \o u) = S
  BY <1>3, <1>4, <1>7, <1>8, ConcatElements
<1>10. ASSUME DistinctTests PROVE DistinctNames(st \o u)
  <2>1. ASSUME NEW n \in NamesOf(st) PROVE n \notin NamesOf(u)
    <3>1. n.check \in ToSet(PerChannel) \cup {"hang", "cover"}
      BY <1>5, <1>8, <2>1 DEF NamesOf
    <3>2. \A m \in NamesOf(u) : m.check \in {"csrc"} \cup TestKinds
      BY <1>3, <1>5 DEF NamesOf
    <3> QED BY <1>6, <3>1, <3>2
  <2>2. NamesOf(st) \cap NamesOf(u) = {}
    BY <2>1
  <2> QED BY <1>3, <1>7, <1>8, <1>10, <2>2, ConcatDistinct
<1> QED BY <1>4, <1>9, <1>10 DEF S

-----------------------------------------------------------------------------
(***************************************************************************)
(* Every job is about its own check.                                       *)
(***************************************************************************)
\* What hargs holds after a call.
ArgKeys == {"check", "insn", "checkch", "channel", "start", "depth", "xmode"}

LEMMA EarlyAre ==
  ASSUME DOMAIN hargs = ArgKeys, NEW call
  PROVE  /\ DOMAIN EarlyArgs(call) = ArgKeys
         /\ call.mode /= "insn" => /\ EarlyArgs(call).check = call.check
                                   /\ call.ch /= None => EarlyArgs(call).channel = call.ch
<1>1. CASE call.mode = "insn"
  BY <1>1 DEF EarlyArgs
<1>2. CASE call.mode /= "insn"
  <2> DEFINE ch == IF call.ch = None THEN hargs.channel ELSE call.ch
             args == [hargs EXCEPT !.check = call.check, !.channel = ch]
  <2>1. EarlyArgs(call) = args
    BY <1>2 DEF EarlyArgs
  <2>2. "check" \in DOMAIN hargs /\ "channel" \in DOMAIN hargs
    BY DEF ArgKeys
  <2>3. DOMAIN args = ArgKeys /\ args.check = call.check /\ args.channel = ch
    BY <2>2
  <2> HIDE DEF args
  <2> QED BY <2>1, <2>3
<1> QED BY <1>1, <1>2

\* args before LateArgs and late after it.
Filled(call, n, args, late) ==
  LET d == get_depth_cfg(n)
      now == Wanted(n) /\ ~Misfit(call)
  IN  /\ DOMAIN late = ArgKeys
      /\ now => late.checkch = n
      /\ now /\ call.mode = "insn" =>
           late.insn = n.what /\ late.channel = call.ch /\ late.depth = d[1]
      /\ call.mode /= "insn" => late.check = args.check /\ late.channel = args.channel
      /\ now /\ call.mode /= "insn" =>
           /\ late.start = Cycle(call.check, d, "start", 1)
           /\ late.depth = Cycle(call.check, d, "depth", None)
           /\ n.check = "csrc_hpm" => late.xmode = "cover"

LEMMA LateAre ==
  ASSUME NEW args, DOMAIN args = ArgKeys, NEW call, NEW n, n = NameOf(call)
  PROVE  Filled(call, n, args, LateArgs(call, args))
<1> DEFINE late == LateArgs(call, args)
           d == get_depth_cfg(n)
<1>0. \A k \in ArgKeys : k \in DOMAIN args
  OBVIOUS
<1>1. CASE d = None \/ Misfit(call) \/ (call.mode = "insn" /\ test_disabled(n))
  <2>1. late = args
    BY <1>1 DEF LateArgs
  <2>2. ~(Wanted(n) /\ ~Misfit(call))
    BY <1>1 DEF Wanted
  <2> QED BY <1>1, <2>1, <2>2 DEF Filled
<1>2. CASE d /= None /\ ~Misfit(call) /\ call.mode = "insn" /\ ~test_disabled(n)
  <2> DEFINE to == [args EXCEPT !.insn = n.what, !.checkch = n,
                                !.channel = call.ch, !.depth = d[1]]
  <2>1. late = to
    BY <1>2 DEF LateArgs
  <2>2. /\ DOMAIN to = ArgKeys /\ to.checkch = n /\ to.depth = d[1]
        /\ to.insn = n.what /\ to.channel = call.ch
    BY <1>0 DEF ArgKeys
  <2> HIDE DEF to
  <2> QED BY <1>2, <2>1, <2>2 DEF Filled
<1>3. CASE d /= None /\ ~Misfit(call) /\ call.mode /= "insn"
  <2> DEFINE mode == IF n = Name(None, "cover", None, None) \/ n.check = "csrc_hpm"
                     THEN "cover" ELSE "bmc"
             start == Cycle(call.check, d, "start", 1)
             depth == Cycle(call.check, d, "depth", None)
             to == [args EXCEPT !.start = start, !.depth = depth, !.checkch = n, !.xmode = mode]
  <2>1. late = to
    BY <1>3 DEF LateArgs
  <2>2. n.check = "csrc_hpm" => mode = "cover"
    OBVIOUS
  <2> HIDE DEF mode, start, depth
  <2>3. /\ DOMAIN to = ArgKeys /\ to.checkch = n /\ to.start = start /\ to.depth = depth
        /\ to.xmode = mode /\ to.check = args.check /\ to.channel = args.channel
    BY <1>0 DEF ArgKeys
  <2> HIDE DEF to
  <2> QED BY <1>3, <2>1, <2>2, <2>3 DEF Filled, start, depth
<1> QED BY <1>1, <1>2, <1>3

\* A call of the loops: only a csrc call has a test, which is one of its CSR's, and
\* the CSR is one of csrs; a csr_ill call is about a line of illegal_csrs.
CallOk(call) ==
  /\ IF call.mode = "csrc"
     THEN /\ call.what \in csrs
          /\ call.test \in ToSet(TestsOf(call.what)) /\ call.check = CheckOfTest(call.test)
     ELSE call.test = None /\ call.check \notin TestKinds
  /\ (call.mode = "insn") <=> OfInsnLoop(NameOf(call))
  /\ call.check = "csr_ill" => call.what \in config.illegal

LEMMA OwnJob ==
  ASSUME IsConfig(config), tool \in {"sby", "jg"}, DOMAIN hargs = ArgKeys,
         NEW call, CallOk(call), NEW n, n = NameOf(call), Wanted(n), ~Misfit(call),
         NEW args, args = LateArgs(call, EarlyArgs(call)),
         NEW j, j = Job(call, args, WithCounter(call))
  PROVE  IsOwn(n, j)
<1> DEFINE cs == WithCounter(call)
           early == EarlyArgs(call)
           d == get_depth_cfg(n)
<1>1. /\ n.grp = call.grp /\ n.check = call.check /\ n.ch = call.ch
      /\ n.what = What(call.check, call.what)
      /\ (call.mode = "insn") <=> n.check \in {"insn", "csrw", "csr_ill"}
  BY DEF NameOf, Name, CallOk, OfInsnLoop
<1>2. /\ DOMAIN early = ArgKeys
      /\ call.mode /= "insn" => /\ early.check = call.check
                                /\ call.ch /= None => early.channel = call.ch
  BY EarlyAre
<1> HIDE DEF early
<1>3. /\ args.checkch = n
      /\ call.mode = "insn" => args.insn = n.what /\ args.channel = call.ch /\ args.depth = d[1]
      /\ call.mode /= "insn" => /\ args.check = early.check /\ args.channel = early.channel
                                /\ args.start = Cycle(call.check, d, "start", 1)
                                /\ args.depth = Cycle(call.check, d, "depth", None)
                                /\ n.check = "csrc_hpm" => args.xmode = "cover"
  <2>1. args = LateArgs(call, early)
    BY DEF early
  <2>2. Filled(call, n, early, args)
    BY <1>2, <2>1, LateAre, Zenon
  <2> HIDE DEF d
  <2> QED BY <2>2 DEF Filled, d
<1>4. /\ d = NumbersSaid(config.depth, n) /\ d \in Seq(Nat)
      /\ Len(Taken(n.check)) <= Len(d)
  <2>1. d /= None
    BY DEF Wanted
  <2>2. (call.mode = "insn") <=> OfInsnLoop(n)
    BY DEF CallOk
  <2> QED BY <2>1, <2>2, DepthOf, MisfitIs
<1>5. csrs \subseteq cs /\ (call.mode = "csrc" /\ call.check = "csrc_hpm" => CounterOf[call.what] \in cs)
  BY DEF WithCounter
<1> HIDE DEF cs
<1>6. CASE call.mode = "insn"
  <2>1. \/ tool = "sby" /\ j = InsnJob(call, args, cs)
        \/ tool = "jg" /\ j = JgInsnJob(call, args, cs)
    BY <1>6 DEF Job, cs
  <2>2. /\ j.checkch = args.checkch /\ j.checker = call.check /\ j.what = args.insn
        /\ j.channel = args.channel /\ j.chidx = args.channel /\ j.depth = args.depth
        /\ j.test = IF call.check = "csr_ill" THEN call.what.modes ELSE None
    BY <2>1 DEF InsnJob, JgInsnJob
  <2>3. n.check \notin TestKinds
    BY <1>1, <1>6 DEF TestKinds
  <2>4. ASSUME n.check = "csr_ill" PROVE [addr |-> n.what, modes |-> j.test] \in config.illegal
    <3>1. call.what \in config.illegal /\ n.what = call.what.addr /\ j.test = call.what.modes
      BY <1>1, <2>2, <2>4 DEF CallOk, What
    <3>2. call.what = [addr |-> call.what.addr, modes |-> call.what.modes]
      BY <3>1 DEF IsConfig
    <3> QED BY <3>1, <3>2
  <2>5. n.check /= "csr_ill" => j.test = None
    BY <1>1, <2>2
  <2>6. HasNumbers(j, Taken(n.check), d)
    <3>1. Positions(n.check) = [depth |-> 1]
      BY <1>1, <1>6 DEF Positions
    <3>2. \A k \in DOMAIN Positions(n.check) : j[k] = d[Positions(n.check)[k]]
      BY <1>3, <1>6, <2>2, <3>1
    <3> HIDE DEF d
    <3> QED BY <1>4, <3>2, PositionsAre
  <2>7. "csrc_hpm" \in TestKinds
    BY DEF TestKinds
  <2> QED BY <1>1, <1>3, <1>4, <1>6, <2>2, <2>3, <2>4, <2>5, <2>6, <2>7 DEF IsOwn
<1>7. CASE call.mode /= "insn"
  <2>1. \/ tool = "sby" /\ j = ConsJob(call, args, cs)
        \/ tool = "jg" /\ j = JgConsJob(call, args, cs)
    BY <1>7 DEF Job, cs
  <2>2. /\ j.checkch = args.checkch /\ j.checker = args.check /\ j.what = call.what
        /\ j.channel = args.channel /\ j.chidx = call.ch /\ j.depth = args.depth
        /\ j.start = args.start /\ j.trig = Cycle(call.check, d, "trig", None)
        /\ j.test = call.test /\ j.csrs = cs /\ (j.mode = args.xmode \/ j.mode = "prove")
    BY <2>1 DEF ConsJob, JgConsJob
  <2>0. n.check /= "csr_ill" /\ n.what = call.what
    BY <1>1, <1>7 DEF What
  <2>3. <<j.checkch, j.checker, j.what, j.chidx>> = <<n, n.check, n.what, n.ch>>
    BY <1>1, <1>2, <1>3, <1>7, <2>0, <2>2
  <2>4. n.ch /= None => j.channel = n.ch
    BY <1>1, <1>2, <1>3, <1>7, <2>2
  <2>5. HasNumbers(j, Taken(n.check), d)
    <3> DEFINE at == Positions(n.check)
    <3>1. /\ "start" \in DOMAIN at => j.start = d[at["start"]]
          /\ "trig" \in DOMAIN at => j.trig = d[at["trig"]]
          /\ "depth" \in DOMAIN at => j.depth = d[at["depth"]]
      <4> HIDE DEF d
      <4> QED BY <1>1, <1>3, <1>7, <2>2 DEF Cycle
    <3>2. DOMAIN at \subseteq {"start", "trig", "depth"}
      BY DEF Positions
    <3>3. \A k \in DOMAIN at : j[k] = d[at[k]]
      <4> HIDE DEF d, at
      <4> QED BY <3>1, <3>2
    <3> HIDE DEF d
    <3> QED BY <1>4, <3>3, PositionsAre
  <2>6. n.check \in TestKinds =>
          /\ call.mode = "csrc" /\ call.test \in ToSet(TestsOf(call.what))
          /\ n.check = CheckOfTest(call.test)
    BY <1>1, <1>7 DEF CallOk
  <2>7. call.test /= None => call.mode = "csrc" /\ call.what \in csrs
    BY <1>1, <1>7 DEF CallOk
  <2>8. j.test /= None => n.what \in j.csrs
    BY <1>1, <1>5, <2>0, <2>2, <2>7
  <2>9. n.check = "csrc_hpm" => CounterOf[n.what] \in j.csrs /\ j.mode /= "bmc"
    <3>1. "csrc_hpm" \in TestKinds
      BY DEF TestKinds
    <3> QED BY <1>1, <1>3, <1>5, <1>7, <2>0, <2>2, <2>6, <3>1
  <2>10. n.check \in TestKinds =>
           j.test \in ToSet(TestsOf(n.what)) /\ CheckOfTest(j.test) = n.check
    BY <2>0, <2>2, <2>6
  <2> HIDE DEF d
  <2> QED BY <1>4, <2>0, <2>3, <2>4, <2>5, <2>8, <2>9, <2>10 DEF IsOwn
<1> QED BY <1>6, <1>7

LEMMA CallsOk ==
  ASSUME IsConfig(config), NEW grp, NEW c \in InsnSet(grp) \cup ConsSet(grp)
  PROVE  CallOk(c)
<1>0. NameOf(c).check = c.check
  BY DEF NameOf, Name
<1>1. CASE c \in InsnSet(grp)
  BY <1>0, <1>1 DEF InsnSet, CallsFor, Call, CallOk, OfInsnLoop, TestKinds
<1>2. CASE c \in ChannelSet(grp)
  <2>1. PICK k \in ToSet(PerChannel), ch \in Channels : c = Call("cons", grp, k, None, ch, None)
    BY <1>2 DEF ChannelSet
  <2>2. k \notin TestKinds /\ k \notin {"insn", "csrw", "csr_ill"}
    BY PerChannelIs
  <2> QED BY <1>0, <2>1, <2>2 DEF Call, CallOk, OfInsnLoop
<1>3. CASE c \in CoreSet(grp)
  BY <1>0, <1>3 DEF CoreSet, Call, CallOk, OfInsnLoop, TestKinds
<1>4. CASE c \in CsrcSet(grp)
  <2>1. PICK x \in csrs : \E t \in ToSet(TestsOf(x)), ch \in Channels :
                            c = Call("csrc", grp, CheckOfTest(t), x, ch, t)
    BY <1>4 DEF CsrcSet
  <2>2. /\ c.mode = "csrc" /\ c.what = x /\ c.check \in {"csrc"} \cup TestKinds
        /\ c.test \in ToSet(TestsOf(x)) /\ c.check = CheckOfTest(c.test)
    BY <2>1, TestsAre DEF Call
  <2>3. c.check \notin {"insn", "csrw", "csr_ill"}
    BY <2>2 DEF TestKinds
  <2> QED BY <1>0, <2>2, <2>3 DEF CallOk, OfInsnLoop
<1> QED BY <1>1, <1>2, <1>3, <1>4 DEF ConsSet

\* The first element of a sequence, and the rest.
LEMMA OwnElements ==
  ASSUME NEW S, NEW s \in Seq(S)
  PROVE  IsSeq(s)
<1>1. Len(s) \in Nat /\ s \in [1 .. Len(s) -> S] /\ \A i \in 1 .. Len(s) : s[i] \in ToSet(s)
  BY Elements
<1>2. s \in [1 .. Len(s) -> ToSet(s)]
  BY <1>1
<1> QED BY <1>1, <1>2 DEF IsSeq

LEMMA HeadAndTail ==
  ASSUME NEW S, NEW s \in Seq(S), s /= <<>>
  PROVE  /\ Tail(s) \in Seq(S) /\ Head(s) \in ToSet(s)
         /\ ToSet(s) = {Head(s)} \cup ToSet(Tail(s))
         /\ IsInjective(s) => Head(s) \notin ToSet(Tail(s)) /\ IsInjective(Tail(s))
         /\ DistinctNames(s) => NameOf(Head(s)) \notin NamesOf(Tail(s)) /\ DistinctNames(Tail(s))
<1> DEFINE n == Len(s)
           t == Tail(s)
<1>1. n \in Nat /\ n /= 0 /\ DOMAIN s = 1 .. n /\ Head(s) = s[1]
  BY EmptySeq
<1>2. /\ t \in Seq(S) /\ Len(t) = n - 1 /\ DOMAIN t = 1 .. n - 1
      /\ \A i \in 1 .. n - 1 : t[i] = s[i + 1]
  BY <1>1
<1> HIDE DEF t, n
<1>3. ToSet(s) = {s[i] : i \in 1 .. n} /\ ToSet(t) = {t[i] : i \in 1 .. n - 1}
  BY <1>1, <1>2 DEF ToSet
<1>4. /\ 1 \in 1 .. n /\ \A i \in 1 .. n - 1 : i + 1 \in 1 .. n /\ i + 1 /= 1
      /\ \A i \in 1 .. n : i /= 1 => i - 1 \in 1 .. n - 1 /\ s[i] = t[i - 1]
      /\ \A i, j \in 1 .. n - 1 : i + 1 = j + 1 => i = j
  BY <1>1, <1>2
<1>5. ToSet(s) = {Head(s)} \cup ToSet(t)
  BY <1>1, <1>2, <1>3, <1>4
<1>6. IsInjective(s) => Head(s) \notin ToSet(t) /\ IsInjective(t)
  <2> SUFFICES ASSUME IsInjective(s) PROVE Head(s) \notin ToSet(t) /\ IsInjective(t)
    OBVIOUS
  <2>1. \A i, j \in 1 .. n : s[i] = s[j] => i = j
    BY <1>1 DEF IsInjective
  <2>2. Head(s) \notin ToSet(t)
    BY <1>1, <1>2, <1>3, <1>4, <2>1
  <2>3. \A i, j \in 1 .. n - 1 : t[i] = t[j] => i = j
    BY <1>2, <1>4, <2>1
  <2>4. IsInjective(t)
    BY <1>2, <2>3 DEF IsInjective
  <2> QED BY <2>2, <2>4
<1>7. DistinctNames(s) => NameOf(Head(s)) \notin NamesOf(t) /\ DistinctNames(t)
  BY <1>1, <1>2, <1>3, <1>4 DEF DistinctNames, NamesOf
<1> QED BY <1>2, <1>5, <1>6, <1>7 DEF t

\* What the generators rely on at every call, and that the jobs so far are about
\* their own checks.
ArgsInv ==
  /\ IsConfig(config) /\ tool \in {"sby", "jg"}
  /\ IsFiniteSet(csrs) /\ ToSet(config.csrs) \subseteq csrs
  /\ groups \in Seq(ToSet(config.groups)) /\ loop \in {"insn", "cons", "ended"}
  /\ IsSeq(todo) /\ \A call \in ToSet(todo) : CallOk(call)
  /\ DOMAIN hargs = ArgKeys
  /\ OwnArguments

LEMMA ArgsInit ==
  ASSUME NEW Configs, \A c \in Configs : IsConfig(c), Init(Configs)
  PROVE  ArgsInv
<1> USE DEF Init
<1>1. IsConfig(config) /\ tool \in {"sby", "jg"}
  OBVIOUS
<1>2. IsFiniteSet(csrs) /\ csrs = ToSet(config.csrs)
  <2>1. config.csrs \in Seq(ToSet(config.csrs))
    BY <1>1 DEF IsConfig, IsSeq
  <2> QED BY <2>1, FiniteElements
<1>3. groups \in Seq(ToSet(config.groups)) /\ loop \in {"insn", "cons", "ended"}
  BY <1>1 DEF IsConfig, IsSeq
<1>4. IsSeq(todo) /\ ToSet(todo) = {}
  BY DEF IsSeq, ToSet
<1>5. DOMAIN hargs = ArgKeys
  BY DEF ArgKeys
<1>6. OwnArguments
  BY DEF OwnArguments
<1> QED BY <1>1, <1>2, <1>3, <1>4, <1>5, <1>6 DEF ArgsInv

LEMMA ArgsStep ==
  ASSUME ArgsInv, [Next]_vars
  PROVE  ArgsInv'
<1>1. /\ IsConfig(config) /\ tool \in {"sby", "jg"}
      /\ IsFiniteSet(csrs) /\ ToSet(config.csrs) \subseteq csrs
      /\ groups \in Seq(ToSet(config.groups)) /\ loop \in {"insn", "cons", "ended"}
      /\ IsSeq(todo) /\ \A call \in ToSet(todo) : CallOk(call)
      /\ DOMAIN hargs = ArgKeys
      /\ OwnArguments
  BY DEF ArgsInv
<1>2. CASE Check
  <2> DEFINE call == Head(todo)
             n == NameOf(call)
             early == EarlyArgs(call)
  <2>1. /\ todo /= <<>> /\ todo' = Tail(todo) /\ UNCHANGED <<tool, config, groups, loop>>
        /\ csrs' = WithCounter(call) /\ hargs' = LateArgs(call, early)
        /\ \/ UNCHANGED jobs
           \/ /\ Wanted(n) /\ ~Misfit(call)
              /\ jobs' = [m \in DOMAIN jobs \cup {n} |->
                            IF m = n THEN Job(call, hargs', csrs') ELSE jobs[m]]
    BY <1>2 DEF Check, Raises
  <2>2. call \in ToSet(todo) /\ IsSeq(todo') /\ ToSet(todo') \subseteq ToSet(todo) /\ CallOk(call)
    <3>1. todo \in Seq(ToSet(todo))
      BY <1>1 DEF IsSeq
    <3>2. /\ Tail(todo) \in Seq(ToSet(todo)) /\ call \in ToSet(todo)
          /\ ToSet(todo) = {call} \cup ToSet(Tail(todo))
      BY <2>1, <3>1, HeadAndTail
    <3>3. IsSeq(Tail(todo))
      BY <3>2, OwnElements
    <3> QED BY <1>1, <2>1, <3>2, <3>3
  <2> HIDE DEF call
  <2>3. csrs \subseteq csrs' /\ IsFiniteSet(csrs')
    <3>1. csrs' = csrs \/ csrs' = csrs \cup {CounterOf[call.what]}
      BY <2>1 DEF WithCounter
    <3>2. IsFiniteSet(csrs \cup {CounterOf[call.what]})
      BY <1>1, FS_AddElement
    <3> QED BY <1>1, <3>1, <3>2
  <2>4. \A c \in ToSet(todo') : CallOk(c)'
    BY <1>1, <2>1, <2>2, <2>3 DEF CallOk, TestsOf, OfInsnLoop, NameOf
  <2>5. DOMAIN hargs' = ArgKeys
    <3>1. DOMAIN early = ArgKeys
      BY <1>1, EarlyAre
    <3> HIDE DEF early
    <3>2. Filled(call, n, early, LateArgs(call, early))
      BY <3>1, LateAre
    <3> QED BY <2>1, <3>2 DEF Filled
  <2>6. \A m, j : IsOwn(m, j)' <=> IsOwn(m, j)
    BY <2>1 DEF IsOwn, TestsOf
  <2>7. OwnArguments'
    <3>1. CASE jobs' = jobs
      BY <1>1, <2>6, <3>1 DEF OwnArguments
    <3>2. CASE /\ Wanted(n) /\ ~Misfit(call)
               /\ jobs' = [m \in DOMAIN jobs \cup {n} |->
                             IF m = n THEN Job(call, hargs', csrs') ELSE jobs[m]]
      <4>1. IsOwn(n, Job(call, hargs', csrs'))
        BY <1>1, <2>1, <2>2, <3>2, OwnJob
      <4> HIDE DEF n
      <4>2. /\ DOMAIN jobs' = DOMAIN jobs \cup {n}
            /\ \A m \in DOMAIN jobs' :
                 jobs'[m] = IF m = n THEN Job(call, hargs', csrs') ELSE jobs[m]
        BY <3>2
      <4>3. \A m \in DOMAIN jobs' : IsOwn(m, jobs'[m])
        BY <1>1, <4>1, <4>2 DEF OwnArguments
      <4> QED BY <2>6, <4>3 DEF OwnArguments
    <3> QED BY <2>1, <3>1, <3>2
  <2> QED BY <1>1, <2>1, <2>2, <2>3, <2>4, <2>5, <2>7 DEF ArgsInv
<1>3. CASE NextGroup
  <2> DEFINE g == Head(groups)
  <2>1. /\ groups /= <<>> /\ groups' = Tail(groups)
        /\ todo' = IF loop = "insn" THEN InsnCalls(g) ELSE ConsCalls(g)
        /\ UNCHANGED <<tool, config, csrs, loop, hargs, jobs, crashed>>
    BY <1>3 DEF NextGroup
  <2>2. groups' \in Seq(ToSet(config.groups))'
    BY <1>1, <2>1, HeadAndTail
  <2> HIDE DEF g
  <2>3. /\ InsnCalls(g) \in Seq(InsnSet(g)) /\ ToSet(InsnCalls(g)) = InsnSet(g)
        /\ ConsCalls(g) \in Seq(ConsSet(g)) /\ ToSet(ConsCalls(g)) = ConsSet(g)
    BY <1>1, InsnCallsAre, ConsCallsAre
  <2>4. IsSeq(todo')
    BY <2>1, <2>3, OwnElements
  <2>5. \A c \in InsnSet(g) \cup ConsSet(g) : CallOk(c)
    BY <1>1, CallsOk
  <2>6. \A c \in ToSet(todo') : CallOk(c)'
    BY <2>1, <2>3, <2>5 DEF CallOk, TestsOf, OfInsnLoop, NameOf
  <2>7. OwnArguments'
    BY <1>1, <2>1 DEF OwnArguments, IsOwn, TestsOf
  <2> QED BY <1>1, <2>1, <2>2, <2>4, <2>6, <2>7 DEF ArgsInv
<1>4. CASE NextLoop
  <2>1. /\ loop' \in {"insn", "cons", "ended"}
        /\ groups' = config.groups \/ groups' = <<>>
        /\ UNCHANGED <<tool, config, csrs, todo, hargs, jobs, crashed>>
    BY <1>4 DEF NextLoop
  <2>2. groups' \in Seq(ToSet(config.groups))'
    <3>1. config.groups \in Seq(ToSet(config.groups))
      BY <1>1 DEF IsConfig, IsSeq
    <3>2. <<>> \in Seq(ToSet(config.groups))
      OBVIOUS
    <3> QED BY <2>1, <3>1, <3>2
  <2>3. OwnArguments'
    BY <1>1, <2>1 DEF OwnArguments, IsOwn, TestsOf
  <2> QED BY <1>1, <2>1, <2>2, <2>3 DEF ArgsInv, CallOk, TestsOf, OfInsnLoop, NameOf
<1>5. CASE UNCHANGED vars
  BY <1>1, <1>5 DEF ArgsInv, CallOk, OfInsnLoop, NameOf, OwnArguments, IsOwn, TestsOf, vars
<1> QED BY <1>2, <1>3, <1>4, <1>5 DEF Next

\* Whatever the config file, and however many calls share hargs and return
\* early, every job that genchecks.py or genchecks_jg.py has written is about
\* its own check.
THEOREM OwnArgumentsAlways ==
  ASSUME NEW CONSTANT Configs, \A c \in Configs : IsConfig(c)
  PROVE  Init(Configs) /\ [][Next]_vars => []OwnArguments
<1>1. Init(Configs) => ArgsInv
  BY ArgsInit
<1>2. ArgsInv /\ [Next]_vars => ArgsInv'
  BY ArgsStep
<1>3. ArgsInv => OwnArguments
  BY DEF ArgsInv
<1> QED BY <1>1, <1>2, <1>3, PTL

-----------------------------------------------------------------------------
(***************************************************************************)
(* The jobs are those the config file asks for.                            *)
(***************************************************************************)
\* csrc checks of counters that no [csrs] line names.
Counters == {CounterOf[x] : x \in DOMAIN CounterOf}
Extras ==
  {Name(g, "csrc", x, c) : g \in ToSet(config.groups) \ {None}, x \in Counters, c \in Channels}

\* A loop or a group that is yet to come has check n.
Later(n) ==
  \/ loop = "insn" /\ ~OfInsnLoop(n)
  \/ loop /= "ended" /\ (OfInsnLoop(n) <=> loop = "insn") /\ n.grp \in ToSet(groups)

\* Nothing comes twice in the config file.
Distinct == DistinctTests /\ DistinctIllegal /\ IsInjective(config.groups)

\* The counters that check_cons adds come too late for the first group.
CsrsInv ==
  /\ Distinct => IsInjective(groups)
  /\ csrs \subseteq ToSet(config.csrs) \cup Counters
  /\ loop = "insn" => csrs = ToSet(config.csrs)
  /\ loop = "cons" => \/ None \notin ToSet(groups)
                      \/ todo = <<>> /\ groups = config.groups /\ csrs = ToSet(config.csrs)

\* The calls of the group in hand.
InHand(call) ==
  /\ loop /= "ended"
  /\ (call.mode = "insn") <=> (loop = "insn")
  /\ OfInsnLoop(NameOf(call)) <=> loop = "insn"
  /\ call.grp \in ToSet(config.groups)
  /\ Distinct => call.grp \notin ToSet(groups)
  /\ NameOf(call) \in Everything \cup Extras
  /\ call.mode = "csrc" /\ call.check = "csrc_hpm" => call.what \in DOMAIN CounterOf

AskInv ==
  /\ CsrsInv
  /\ \A call \in ToSet(todo) : InHand(call)
  \* Nothing is forgotten, ...
  /\ ~crashed => \A n \in Everything :
       /\ Asked(n) => n \in DOMAIN jobs \/ n \in NamesOf(todo) \/ Later(n)
       /\ WrongNumbers(n) => n \in NamesOf(todo) \/ Later(n)
  \* ... nothing else is written, ...
  /\ \A n \in DOMAIN jobs : Asked(n) /\ n \in Everything \cup Extras /\ (Distinct => ~Later(n))
  \* ... and nothing twice.
  /\ Distinct => DistinctNames(todo) /\ DOMAIN jobs \cap NamesOf(todo) = {}
  /\ crashed => loop /= "ended" /\ Cause

\* The checks the config file knows, group by group.
Addresses == {l.addr : l \in config.illegal}
AskedInsns(g) ==
  {Name(g, "insn", x, c) : x \in ToSet(Insns), c \in Channels}
  \cup {Name(g, "csrw", x, c) : x \in ToSet(config.csrs), c \in Channels}
  \cup {Name(g, "csr_ill", x, c) : x \in Addresses, c \in Channels}
AskedCons(g) ==
  {Name(g, k, None, c) : k \in ToSet(PerChannel), c \in Channels}
  \cup {Name(g, k, None, None) : k \in {"hang", "cover"}}
  \cup UNION {{Name(g, CheckOfTest(t), x, c) : t \in ToSet(TestsOf(x)), c \in Channels} :
                x \in ToSet(config.csrs)}

LEMMA EverythingIs ==
  \A n : n \in Everything <=> \E g \in ToSet(config.groups) : n \in AskedInsns(g) \cup AskedCons(g)
<1> DEFINE G == ToSet(config.groups)
           chs(checks, whats) == {Name(g, k, w, c) : g \in G, k \in checks, w \in whats, c \in Channels}
           A == chs({"insn"}, ToSet(Insns))
           B == chs({"csrw"}, ToSet(config.csrs))
           C == chs({"csr_ill"}, Addresses)
           D == chs(ToSet(PerChannel), {None})
           E == {Name(g, k, None, None) : g \in G, k \in {"hang", "cover"}}
           of(x) == chs({CheckOfTest(t) : t \in ToSet(TestsOf(x))}, {x})
           F == UNION {of(x) : x \in ToSet(config.csrs)}
<1>1. Everything = A \cup B \cup C \cup D \cup E \cup F
  BY DEF Everything, Addresses
<1>2. \A checks, whats, n :
        n \in chs(checks, whats) <=> \E g \in G, k \in checks, w \in whats, c \in Channels :
                                       n = Name(g, k, w, c)
  OBVIOUS
<1> HIDE DEF G, chs
<1> SUFFICES ASSUME NEW n
             PROVE  n \in Everything <=> \E g \in G : n \in AskedInsns(g) \cup AskedCons(g)
  BY DEF G
<1>3. n \in A \cup B \cup C <=> \E g \in G : n \in AskedInsns(g)
  BY <1>2 DEF AskedInsns
<1>4. n \in D \cup E <=>
        \E g \in G : n \in {Name(g, k, None, c) : k \in ToSet(PerChannel), c \in Channels}
                           \cup {Name(g, k, None, None) : k \in {"hang", "cover"}}
  BY <1>2
<1>5. \A x : n \in of(x) <=>
        \E g \in G : n \in {Name(g, CheckOfTest(t), x, c) : t \in ToSet(TestsOf(x)), c \in Channels}
  <2> SUFFICES ASSUME NEW x
               PROVE  n \in of(x) <=> \E g \in G, t \in ToSet(TestsOf(x)), c \in Channels :
                                        n = Name(g, CheckOfTest(t), x, c)
    OBVIOUS
  <2> DEFINE K == {CheckOfTest(t) : t \in ToSet(TestsOf(x))}
  <2>1. n \in of(x) <=> \E g \in G, k \in K, w \in {x}, c \in Channels : n = Name(g, k, w, c)
    <3>1. of(x) = chs(K, {x})
      OBVIOUS
    <3> HIDE DEF of, K
    <3> QED BY <1>2, <3>1
  <2> QED BY <2>1
<1> HIDE DEF of
<1>6. n \in F <=>
        \E g \in G : n \in UNION {{Name(g, CheckOfTest(t), x, c) :
                                     t \in ToSet(TestsOf(x)), c \in Channels} :
                                    x \in ToSet(config.csrs)}
  <2>1. n \in F <=> \E x \in ToSet(config.csrs) : n \in of(x)
    OBVIOUS
  <2> HIDE DEF F
  <2> QED BY <1>5, <2>1
<1> HIDE DEF A, B, C, D, E, F
<1> QED BY <1>1, <1>3, <1>4, <1>6 DEF AskedCons

\* The calls of a group build the names of its checks, and those of the counters.
LEMMA InsnNames ==
  ASSUME NEW g, ToSet(config.csrs) \subseteq csrs
  PROVE  /\ AskedInsns(g) \subseteq {NameOf(c) : c \in InsnSet(g)}
         /\ csrs = ToSet(config.csrs) => {NameOf(c) : c \in InsnSet(g)} = AskedInsns(g)
         /\ \A c \in InsnSet(g) : c.mode = "insn" /\ c.grp = g /\ OfInsnLoop(NameOf(c))
<1> DEFINE names(check, xs) == {Name(g, check, x, c) : x \in xs, c \in Channels}
<1>1. \A check, xs : check /= "csr_ill" =>
        {NameOf(c) : c \in CallsFor("insn", g, check, xs)} = names(check, xs)
  BY CallParts DEF CallsFor
<1>2. {NameOf(c) : c \in CallsFor("insn", g, "csr_ill", config.illegal)} = names("csr_ill", Addresses)
  <2>1. {NameOf(c) : c \in CallsFor("insn", g, "csr_ill", config.illegal)}
          = {Name(g, "csr_ill", l.addr, c) : l \in config.illegal, c \in Channels}
    <3>1. \A l, c : NameOf(Call("insn", g, "csr_ill", l, c, None)) = Name(g, "csr_ill", l.addr, c)
      BY CallParts DEF What
    <3>2. CallsFor("insn", g, "csr_ill", config.illegal)
            = {Call("insn", g, "csr_ill", l, c, None) : l \in config.illegal, c \in Channels}
      BY DEF CallsFor
    <3> QED BY <3>1, <3>2
  <2> QED BY <2>1 DEF Addresses
<1>3. {NameOf(c) : c \in InsnSet(g)} =
        names("insn", ToSet(Insns)) \cup names("csrw", csrs) \cup names("csr_ill", Addresses)
  <2> DEFINE A == CallsFor("insn", g, "insn", ToSet(Insns))
             B == CallsFor("insn", g, "csrw", csrs)
             C == CallsFor("insn", g, "csr_ill", config.illegal)
  <2>1. InsnSet(g) = A \cup B \cup C
    BY DEF InsnSet
  <2>2. /\ {NameOf(c) : c \in A} = names("insn", ToSet(Insns))
        /\ {NameOf(c) : c \in B} = names("csrw", csrs)
        /\ {NameOf(c) : c \in C} = names("csr_ill", Addresses)
    <3> HIDE DEF names
    <3> QED BY <1>1, <1>2
  <2> HIDE DEF A, B, C, names
  <2> QED BY <2>1, <2>2
<1>4. AskedInsns(g) =
        names("insn", ToSet(Insns)) \cup names("csrw", ToSet(config.csrs))
        \cup names("csr_ill", Addresses)
  BY DEF AskedInsns
<1>5. names("csrw", ToSet(config.csrs)) \subseteq names("csrw", csrs)
  OBVIOUS
<1>6. \A c \in InsnSet(g) : c.mode = "insn" /\ c.grp = g /\ OfInsnLoop(NameOf(c))
  BY DEF InsnSet, CallsFor, Call, OfInsnLoop, NameOf, Name
<1> HIDE DEF names
<1> QED BY <1>3, <1>4, <1>5, <1>6

LEMMA ConsNames ==
  ASSUME IsConfig(config), NEW g \in ToSet(config.groups),
         ToSet(config.csrs) \subseteq csrs, csrs \subseteq ToSet(config.csrs) \cup Counters
  PROVE  /\ AskedCons(g) \subseteq {NameOf(c) : c \in ConsSet(g)}
         /\ csrs = ToSet(config.csrs) \/ g /= None =>
              {NameOf(c) : c \in ConsSet(g)} \subseteq AskedCons(g) \cup Extras
         /\ \A c \in ConsSet(g) :
              /\ c.mode /= "insn" /\ c.grp = g /\ ~OfInsnLoop(NameOf(c))
              /\ c.mode = "csrc" /\ c.check = "csrc_hpm" => c.what \in DOMAIN CounterOf
<1> DEFINE A == {Name(g, k, None, c) : k \in ToSet(PerChannel), c \in Channels}
           B == {Name(g, k, None, None) : k \in {"hang", "cover"}}
           of(x) == {Name(g, CheckOfTest(t), x, c) : t \in ToSet(TestsOf(x)), c \in Channels}
           C == UNION {of(x) : x \in ToSet(config.csrs)}
<1>1. AskedCons(g) = A \cup B \cup C
  BY DEF AskedCons
<1>2. {NameOf(c) : c \in ChannelSet(g)} = A
  <2>1. \A k \in ToSet(PerChannel) : \A ch :
          NameOf(Call("cons", g, k, None, ch, None)) = Name(g, k, None, ch)
    <3>1. "csr_ill" \notin ToSet(PerChannel)
      BY PerChannelIs
    <3> QED BY <3>1, CallParts
  <2>2. \A c : c \in ChannelSet(g) <=> \E k \in ToSet(PerChannel), ch \in Channels :
                                         c = Call("cons", g, k, None, ch, None)
    BY DEF ChannelSet
  <2>3. \A n : n \in A <=> \E k \in ToSet(PerChannel), ch \in Channels : n = Name(g, k, None, ch)
    OBVIOUS
  <2> HIDE DEF A
  <2> QED BY <2>1, <2>2, <2>3
<1>3. {NameOf(c) : c \in CoreSet(g)} = B
  BY CallParts DEF CoreSet
<1>4. \A c : c \in CsrcSet(g) <=> \E x \in csrs : \E t \in ToSet(TestsOf(x)), ch \in Channels :
                                    c = Call("csrc", g, CheckOfTest(t), x, ch, t)
  BY DEF CsrcSet
<1>5. \A x, n : n \in of(x) <=> \E t \in ToSet(TestsOf(x)), ch \in Channels :
                                  n = Name(g, CheckOfTest(t), x, ch)
  OBVIOUS
<1>6. \A n : n \in C <=> \E x \in ToSet(config.csrs) : n \in of(x)
  OBVIOUS
<1> HIDE DEF A, B, of, C
<1>7. C \subseteq {NameOf(c) : c \in CsrcSet(g)}
  <2> SUFFICES ASSUME NEW n \in C PROVE \E c \in CsrcSet(g) : n = NameOf(c)
    OBVIOUS
  <2>1. PICK x \in ToSet(config.csrs) : n \in of(x)
    BY <1>6
  <2>2. PICK t \in ToSet(TestsOf(x)), ch \in Channels : n = Name(g, CheckOfTest(t), x, ch)
    BY <1>5, <2>1
  <2> DEFINE c == Call("csrc", g, CheckOfTest(t), x, ch, t)
  <2>3. c \in CsrcSet(g) /\ NameOf(c) = n
    <3>1. CheckOfTest(t) /= "csr_ill"
      BY <2>2, TestsAre DEF TestKinds
    <3> QED BY <1>4, <2>2, <3>1, CallParts
  <2> HIDE DEF c
  <2> QED BY <2>3
<1>8. AskedCons(g) \subseteq {NameOf(c) : c \in ConsSet(g)}
  BY <1>1, <1>2, <1>3, <1>7 DEF ConsSet
<1>9. ASSUME NEW c \in CsrcSet(g)
      PROVE  /\ csrs = ToSet(config.csrs) \/ g /= None => NameOf(c) \in C \cup Extras
             /\ c.mode /= "insn" /\ c.grp = g /\ ~OfInsnLoop(NameOf(c))
             /\ c.mode = "csrc" /\ c.check = "csrc_hpm" => c.what \in DOMAIN CounterOf
  <2>1. PICK x \in csrs : \E t \in ToSet(TestsOf(x)), ch \in Channels :
                            c = Call("csrc", g, CheckOfTest(t), x, ch, t)
    BY <1>4
  <2>2. PICK t \in ToSet(TestsOf(x)), ch \in Channels : c = Call("csrc", g, CheckOfTest(t), x, ch, t)
    BY <2>1
  <2>3. /\ c.mode = "csrc" /\ c.grp = g /\ c.check = CheckOfTest(t) /\ c.what = x
        /\ NameOf(c) = Name(g, CheckOfTest(t), x, ch) /\ NameOf(c).check = CheckOfTest(t)
    <3>1. CheckOfTest(t) /= "csr_ill"
      BY <2>2, TestsAre DEF TestKinds
    <3> QED BY <2>2, <3>1, CallParts DEF Name
  <2>4. /\ CheckOfTest(t) \in {"csrc"} \cup TestKinds
        /\ CheckOfTest(t) = "csrc_hpm" => x \in DOMAIN CounterOf
        /\ t /= None => x \in ToSet(config.csrs)
    BY <2>2, TestsAre
  <2>5. ~OfInsnLoop(NameOf(c))
    BY <2>3, <2>4 DEF OfInsnLoop, TestKinds
  <2>6. ASSUME x \in ToSet(config.csrs) PROVE NameOf(c) \in C
    BY <1>5, <1>6, <2>3, <2>6
  <2>7. ASSUME x \notin ToSet(config.csrs), csrs = ToSet(config.csrs) \/ g /= None
        PROVE  NameOf(c) \in Extras
    <3>1. x \in Counters /\ g /= None /\ CheckOfTest(t) = "csrc"
      BY <2>4, <2>7 DEF CheckOfTest
    <3>2. NameOf(c) = Name(g, "csrc", x, ch)
      BY <2>3, <3>1
    <3> QED BY <3>1, <3>2 DEF Extras
  <2> QED BY <2>3, <2>4, <2>5, <2>6, <2>7
<1>10. ASSUME NEW c \in ChannelSet(g) \cup CoreSet(g)
       PROVE  c.mode = "cons" /\ c.grp = g /\ ~OfInsnLoop(NameOf(c))
  <2>1. CASE c \in ChannelSet(g)
    <3>1. PICK k \in ToSet(PerChannel), ch \in Channels : c = Call("cons", g, k, None, ch, None)
      BY <2>1 DEF ChannelSet
    <3>2. c.mode = "cons" /\ c.grp = g /\ NameOf(c).check = k
      BY <3>1 DEF Call, NameOf, Name
    <3>3. k \notin {"insn", "csrw", "csr_ill"}
      BY PerChannelIs
    <3> QED BY <3>2, <3>3 DEF OfInsnLoop
  <2>2. CASE c \in CoreSet(g)
    BY <2>2 DEF CoreSet, Call, NameOf, Name, OfInsnLoop
  <2> QED BY <2>1, <2>2
<1>11. \A c \in ConsSet(g) : c \in ChannelSet(g) \/ c \in CoreSet(g) \/ c \in CsrcSet(g)
  BY DEF ConsSet
<1>12. ASSUME csrs = ToSet(config.csrs) \/ g /= None
       PROVE  {NameOf(c) : c \in ConsSet(g)} \subseteq AskedCons(g) \cup Extras
  BY <1>1, <1>2, <1>3, <1>9, <1>11, <1>12
<1>13. \A c \in ConsSet(g) :
         /\ c.mode /= "insn" /\ c.grp = g /\ ~OfInsnLoop(NameOf(c))
         /\ c.mode = "csrc" /\ c.check = "csrc_hpm" => c.what \in DOMAIN CounterOf
  BY <1>9, <1>10, <1>11
<1> QED BY <1>8, <1>12, <1>13

\* The two loops share no check, and a check is of its group.
LEMMA LoopOf ==
  ASSUME IsConfig(config), NEW g
  PROVE  /\ \A n \in AskedInsns(g) : OfInsnLoop(n) /\ n.grp = g
         /\ \A n \in AskedCons(g) : ~OfInsnLoop(n) /\ n.grp = g
<1>1. \A n \in AskedInsns(g) : OfInsnLoop(n) /\ n.grp = g
  BY DEF AskedInsns, OfInsnLoop, Name
<1>2. ASSUME NEW n \in AskedCons(g) PROVE ~OfInsnLoop(n) /\ n.grp = g
  <2>1. CASE n \in {Name(g, k, None, c) : k \in ToSet(PerChannel), c \in Channels}
    <3>1. n.check \in ToSet(PerChannel) /\ n.grp = g
      BY <2>1 DEF Name
    <3> QED BY <3>1, PerChannelIs DEF OfInsnLoop
  <2>2. CASE n \in {Name(g, k, None, None) : k \in {"hang", "cover"}}
    BY <2>2 DEF OfInsnLoop, Name
  <2>3. ASSUME NEW x,
               n \in {Name(g, CheckOfTest(t), x, c) : t \in ToSet(TestsOf(x)), c \in Channels}
        PROVE  ~OfInsnLoop(n) /\ n.grp = g
    <3>1. PICK t \in ToSet(TestsOf(x)) : n.check = CheckOfTest(t) /\ n.grp = g
      BY <2>3 DEF Name
    <3>2. CheckOfTest(t) \in {"csrc"} \cup TestKinds
      BY TestsAre
    <3> QED BY <3>1, <3>2 DEF OfInsnLoop, TestKinds
  <2>4. n \in {Name(g, k, None, c) : k \in ToSet(PerChannel), c \in Channels}
        \/ n \in {Name(g, k, None, None) : k \in {"hang", "cover"}}
        \/ \E x \in ToSet(config.csrs) :
             n \in {Name(g, CheckOfTest(t), x, c) : t \in ToSet(TestsOf(x)), c \in Channels}
    BY DEF AskedCons
  <2> QED BY <2>1, <2>2, <2>3, <2>4
<1> QED BY <1>1, <1>2

\* The counters' checks are csrc checks.
LEMMA ExtrasAre ==
  \A n \in Extras : n \in CounterChecks /\ n.check = "csrc" /\ n.grp /= None
<1> SUFFICES ASSUME NEW n \in Extras
             PROVE  n \in CounterChecks /\ n.check = "csrc" /\ n.grp /= None
  OBVIOUS
<1>1. PICK g \in ToSet(config.groups) \ {None}, x \in Counters, c \in Channels :
        n = Name(g, "csrc", x, c)
  BY DEF Extras
<1>2. PICK y \in DOMAIN CounterOf : x = CounterOf[y]
  BY DEF Counters
<1>3. n.check = "csrc" /\ n.grp = g
  BY <1>1 DEF Name
<1>4. n \in CounterChecks
  BY <1>1, <1>2 DEF CounterChecks
<1> QED BY <1>1, <1>3, <1>4

\* Only what changes with the calls changes.
LEMMA ConfigStays ==
  ASSUME config' = config, tool' = tool
  PROVE  /\ Everything' = Everything /\ Extras' = Extras
         /\ \A n : (Asked(n)' <=> Asked(n)) /\ (WrongNumbers(n)' <=> WrongNumbers(n))
         /\ Distinct' <=> Distinct
         /\ Cause' <=> Cause
<1>1. Everything' = Everything
  BY DEF Everything, TestsOf
<1>2. Extras' = Extras /\ CounterChecks' = CounterChecks
  BY DEF Extras, CounterChecks
<1>3. \A n : (Asked(n)' <=> Asked(n)) /\ (WrongNumbers(n)' <=> WrongNumbers(n))
  BY DEF Asked, WrongNumbers
<1>4. Distinct' <=> Distinct
  BY DEF Distinct, DistinctTests, DistinctIllegal
<1>5. Cause' <=> Cause
  BY <1>1, <1>2, <1>3 DEF Cause
<1> QED BY <1>1, <1>2, <1>3, <1>4, <1>5

LEMMA WantedIsAsked ==
  ASSUME IsConfig(config), NEW n
  PROVE  Wanted(n) <=> Asked(n)
<1>1. get_depth_cfg(n) = NumbersSaid(config.depth, n)
  BY DepthOf
<1>2. test_disabled(n) <=> SignSaid(config.filter, n) = "-"
  BY FilterOf
<1> QED BY <1>1, <1>2 DEF Wanted, Asked

LEMMA AskInit ==
  ASSUME ArgsInv, NEW Configs, Init(Configs)
  PROVE  AskInv
<1>1. /\ IsConfig(config) /\ csrs = ToSet(config.csrs) /\ groups = config.groups
      /\ loop = "insn" /\ todo = <<>> /\ jobs = <<>> /\ crashed = FALSE
  BY DEF ArgsInv, Init
<1>2. ToSet(todo) = {} /\ NamesOf(todo) = {} /\ DistinctNames(todo) /\ DOMAIN jobs = {}
  BY <1>1 DEF ToSet, NamesOf, DistinctNames
<1>3. CsrsInv
  <2>1. Distinct => IsInjective(groups)
    BY <1>1 DEF Distinct
  <2> QED BY <1>1, <2>1 DEF CsrsInv
<1>4. \A n \in Everything : Later(n)
  <2> SUFFICES ASSUME NEW n \in Everything PROVE Later(n)
    OBVIOUS
  <2>1. PICK g \in ToSet(config.groups) : n \in AskedInsns(g) \cup AskedCons(g)
    BY EverythingIs
  <2>2. n.grp = g
    BY <1>1, <2>1, LoopOf
  <2> QED BY <1>1, <2>2 DEF Later
<1> QED BY <1>1, <1>2, <1>3, <1>4 DEF AskInv

\* A call of the group in hand.
LEMMA AskCheck ==
  ASSUME ArgsInv, AskInv, Check
  PROVE  AskInv'
<1> DEFINE call == Head(todo)
           n == NameOf(call)
<1>1. /\ IsConfig(config) /\ IsSeq(todo)
  BY DEF ArgsInv
<1>2. /\ CsrsInv /\ \A c \in ToSet(todo) : InHand(c)
      /\ ~crashed => \A m \in Everything :
           /\ Asked(m) => m \in DOMAIN jobs \/ m \in NamesOf(todo) \/ Later(m)
           /\ WrongNumbers(m) => m \in NamesOf(todo) \/ Later(m)
      /\ \A m \in DOMAIN jobs : Asked(m) /\ m \in Everything \cup Extras /\ (Distinct => ~Later(m))
      /\ Distinct => DistinctNames(todo) /\ DOMAIN jobs \cap NamesOf(todo) = {}
      /\ crashed => loop /= "ended" /\ Cause
  BY DEF AskInv
<1>3. /\ loop /= "ended" /\ ~crashed /\ todo /= <<>> /\ todo' = Tail(todo)
      /\ UNCHANGED <<tool, config, groups, loop>> /\ csrs' = WithCounter(call)
      /\ crashed' = Raises(call)
      /\ \/ (~Wanted(n) \/ Raises(call)) /\ UNCHANGED jobs
         \/ /\ Wanted(n) /\ ~Raises(call)
            /\ jobs' = [m \in DOMAIN jobs \cup {n} |->
                          IF m = n THEN Job(call, hargs', csrs') ELSE jobs[m]]
  BY DEF Check
<1>4. /\ call \in ToSet(todo) /\ ToSet(todo) = {call} \cup ToSet(todo')
      /\ DistinctNames(todo) => n \notin NamesOf(todo') /\ DistinctNames(todo')
  <2>1. todo \in Seq(ToSet(todo))
    BY <1>1 DEF IsSeq
  <2>2. /\ call \in ToSet(todo) /\ ToSet(todo) = {call} \cup ToSet(Tail(todo))
        /\ DistinctNames(todo) => n \notin NamesOf(Tail(todo)) /\ DistinctNames(Tail(todo))
    BY <1>3, <2>1, HeadAndTail
  <2> QED BY <1>3, <2>2
<1> HIDE DEF call
<1>5. NamesOf(todo) = {n} \cup NamesOf(todo')
  BY <1>4 DEF NamesOf
<1>6. InHand(call) /\ n \in Everything \cup Extras /\ (Distinct => ~Later(n))
  <2>1. InHand(call)
    BY <1>2, <1>4
  <2>2. n.grp = call.grp
    BY DEF NameOf, Name
  <2> QED BY <2>1, <2>2 DEF InHand, Later
<1> HIDE DEF n
<1>7. /\ Everything' = Everything /\ Extras' = Extras
      /\ \A m : (Asked(m)' <=> Asked(m)) /\ (WrongNumbers(m)' <=> WrongNumbers(m))
      /\ Distinct' <=> Distinct
      /\ Cause' <=> Cause
  BY <1>3, ConfigStays
<1>8. \A m : Later(m)' <=> Later(m)
  BY <1>3 DEF Later
<1>9. Wanted(n) <=> Asked(n)
  BY <1>1, WantedIsAsked
<1>10. CsrsInv'
  <2>1. csrs' = csrs \/ (/\ call.mode = "csrc" /\ call.check = "csrc_hpm"
                         /\ csrs' = csrs \cup {CounterOf[call.what]})
    BY <1>3 DEF WithCounter
  <2>2. csrs' \subseteq ToSet(config.csrs) \cup Counters
    <3>1. CASE csrs' = csrs
      BY <1>2, <3>1 DEF CsrsInv
    <3>2. CASE /\ call.mode = "csrc" /\ call.check = "csrc_hpm"
               /\ csrs' = csrs \cup {CounterOf[call.what]}
      <4>1. call.what \in DOMAIN CounterOf
        BY <1>6, <3>2 DEF InHand
      <4>2. CounterOf[call.what] \in Counters
        BY <4>1 DEF Counters
      <4> QED BY <1>2, <3>2, <4>2 DEF CsrsInv
    <3> QED BY <2>1, <3>1, <3>2
  <2>3. loop = "insn" => csrs' = ToSet(config.csrs)
    BY <1>2, <1>6, <2>1 DEF CsrsInv, InHand
  <2>4. loop = "cons" => None \notin ToSet(groups)
    BY <1>2, <1>3 DEF CsrsInv
  <2>5. Distinct => IsInjective(groups)
    BY <1>2 DEF CsrsInv
  <2> QED BY <1>3, <1>7, <2>2, <2>3, <2>4, <2>5 DEF CsrsInv, Counters
<1>11. \A c \in ToSet(todo') : InHand(c)'
  <2>1. \A c \in ToSet(todo') : InHand(c)
    BY <1>2, <1>4
  <2> QED BY <1>3, <1>7, <2>1 DEF InHand
<1>12. \/ Raises(call) /\ DOMAIN jobs' = DOMAIN jobs /\ crashed'
       \/ ~Raises(call) /\ ~Wanted(n) /\ DOMAIN jobs' = DOMAIN jobs /\ ~crashed'
       \/ ~Raises(call) /\ Wanted(n) /\ DOMAIN jobs' = DOMAIN jobs \cup {n} /\ ~crashed'
  BY <1>3
<1>13. Misfit(call) <=> WrongNumbers(n)
  <2>1. \A c \in ToSet(todo) : CallOk(c)
    BY DEF ArgsInv
  <2>2. (call.mode = "insn") <=> OfInsnLoop(n)
    BY <1>4, <2>1 DEF CallOk, n
  <2> QED BY <1>1, <2>2, MisfitIs DEF n
<1>14. ~crashed' => \A m \in Everything' :
         /\ Asked(m)' => m \in DOMAIN jobs' \/ m \in NamesOf(todo') \/ Later(m)'
         /\ WrongNumbers(m)' => m \in NamesOf(todo') \/ Later(m)'
  <2> SUFFICES ASSUME ~crashed', NEW m \in Everything
               PROVE  /\ Asked(m) => m \in DOMAIN jobs' \/ m \in NamesOf(todo') \/ Later(m)
                      /\ WrongNumbers(m) => m \in NamesOf(todo') \/ Later(m)
    BY <1>7, <1>8
  <2>1. ~Raises(call) /\ ~WrongNumbers(n)
    BY <1>12, <1>13 DEF Raises
  <2>2. CASE m = n
    BY <1>9, <1>12, <2>1, <2>2
  <2>3. CASE m /= n
    BY <1>2, <1>3, <1>5, <1>12, <2>3
  <2> QED BY <2>2, <2>3
<1>15. \A m \in DOMAIN jobs' :
         Asked(m)' /\ m \in (Everything \cup Extras)' /\ (Distinct' => ~Later(m)')
  BY <1>2, <1>6, <1>7, <1>8, <1>9, <1>12
<1>16. Distinct' => DistinctNames(todo)' /\ DOMAIN jobs' \cap NamesOf(todo)' = {}
  <2> SUFFICES ASSUME Distinct
               PROVE  DistinctNames(todo') /\ DOMAIN jobs' \cap NamesOf(todo') = {}
    BY <1>7 DEF DistinctNames, NamesOf, NameOf
  <2>1. DistinctNames(todo) /\ DOMAIN jobs \cap NamesOf(todo) = {}
    BY <1>2
  <2> QED BY <1>4, <1>5, <1>12, <2>1
<1>17. crashed' => loop' /= "ended" /\ Cause'
  <2> SUFFICES ASSUME Raises(call) PROVE Cause
    BY <1>3, <1>7, <1>12
  <2>1. \A m \in Extras : m \in CounterChecks /\ m.check = "csrc"
    BY ExtrasAre
  <2>2. n.check = call.check
    BY DEF n, NameOf, Name
  <2>3. CASE Misfit(call)
    BY <1>6, <1>13, <2>1, <2>3 DEF Cause
  <2>4. CASE Wanted(n) /\ call.check = "cover" /\ ~config.cover
    BY <1>6, <1>9, <2>1, <2>2, <2>4 DEF Cause
  <2>5. CASE Wanted(n) /\ JgRaises(call)
    <3>1. tool = "jg" /\ (n \in DOMAIN jobs \/ call.check = "csrc")
      BY <2>5 DEF JgRaises, n
    <3>2. CASE n \in DOMAIN jobs
      <4>1. ~Distinct
        BY <1>2, <1>5, <3>2
      <4> QED BY <3>1, <4>1 DEF Cause, Distinct, DistinctTests, DistinctIllegal
    <3>3. CASE call.check = "csrc"
      BY <1>6, <1>9, <2>1, <2>2, <2>5, <3>1, <3>3 DEF Cause
    <3> QED BY <3>1, <3>2, <3>3
  <2> QED BY <2>3, <2>4, <2>5 DEF Raises, n
<1> QED BY <1>10, <1>11, <1>14, <1>15, <1>16, <1>17 DEF AskInv

\* The next group.
LEMMA AskGroup ==
  ASSUME ArgsInv, AskInv, NextGroup
  PROVE  AskInv'
<1> DEFINE g == Head(groups)
<1>1. /\ IsConfig(config) /\ IsFiniteSet(csrs) /\ ToSet(config.csrs) \subseteq csrs
      /\ groups \in Seq(ToSet(config.groups)) /\ loop \in {"insn", "cons", "ended"}
  BY DEF ArgsInv
<1>2. /\ CsrsInv
      /\ \A m \in Everything :
           /\ Asked(m) => m \in DOMAIN jobs \/ m \in NamesOf(todo) \/ Later(m)
           /\ WrongNumbers(m) => m \in NamesOf(todo) \/ Later(m)
      /\ \A m \in DOMAIN jobs : Asked(m) /\ m \in Everything \cup Extras /\ (Distinct => ~Later(m))
  BY DEF AskInv, NextGroup
<1>3. /\ loop /= "ended" /\ ~crashed /\ todo = <<>> /\ groups /= <<>>
      /\ todo' = IF loop = "insn" THEN InsnCalls(g) ELSE ConsCalls(g)
      /\ groups' = Tail(groups)
      /\ UNCHANGED <<tool, config, csrs, loop, hargs, jobs, crashed>>
  BY DEF NextGroup
<1>4. /\ g \in ToSet(groups) /\ ToSet(groups) = {g} \cup ToSet(groups')
      /\ Distinct => g \notin ToSet(groups') /\ IsInjective(groups')
      /\ g \in ToSet(config.groups) /\ ToSet(groups') \subseteq ToSet(config.groups)
  <2>1. Distinct => IsInjective(groups)
    BY <1>2 DEF CsrsInv
  <2>2. /\ g \in ToSet(groups) /\ ToSet(groups) = {g} \cup ToSet(Tail(groups))
        /\ Distinct => g \notin ToSet(Tail(groups)) /\ IsInjective(Tail(groups))
    BY <1>1, <1>3, <2>1, HeadAndTail
  <2>3. ToSet(groups) \subseteq ToSet(config.groups)
    BY <1>1, Elements
  <2> QED BY <1>3, <2>2, <2>3
<1>5. NamesOf(todo) = {}
  BY <1>3 DEF NamesOf, ToSet
<1>6. csrs = ToSet(config.csrs) \/ g /= None
  BY <1>2, <1>3, <1>4, <1>1 DEF CsrsInv
<1>7. loop = "cons" => None \notin ToSet(groups')
  <2> SUFFICES ASSUME loop = "cons" PROVE None \notin ToSet(groups')
    OBVIOUS
  <2>1. CASE None \notin ToSet(groups)
    BY <1>4, <2>1
  <2>2. CASE groups = config.groups
    BY <1>1, <1>3, <2>2 DEF IsConfig
  <2> QED BY <1>2, <2>1, <2>2 DEF CsrsInv
<1> HIDE DEF g
<1>8. /\ Everything' = Everything /\ Extras' = Extras
      /\ \A m : (Asked(m)' <=> Asked(m)) /\ (WrongNumbers(m)' <=> WrongNumbers(m))
      /\ Distinct' <=> Distinct
      /\ Cause' <=> Cause
  BY <1>3, ConfigStays
<1>9. CsrsInv'
  BY <1>2, <1>3, <1>4, <1>7, <1>8 DEF CsrsInv, Counters
<1> DEFINE asked == IF loop = "insn" THEN AskedInsns(g) ELSE AskedCons(g)
<1>10. /\ Distinct => DistinctNames(todo')
       /\ asked \subseteq NamesOf(todo') /\ NamesOf(todo') \subseteq asked \cup Extras
       /\ \A c \in ToSet(todo') :
            /\ (c.mode = "insn") <=> (loop = "insn")
            /\ OfInsnLoop(NameOf(c)) <=> loop = "insn"
            /\ c.grp = g
            /\ c.mode = "csrc" /\ c.check = "csrc_hpm" => c.what \in DOMAIN CounterOf
  <2>1. CASE loop = "insn"
    <3>1. ToSet(todo') = InsnSet(g) /\ (Distinct => DistinctNames(todo'))
      BY <1>1, <1>3, <2>1, InsnCallsAre DEF Distinct
    <3>2. csrs = ToSet(config.csrs)
      BY <1>2, <2>1 DEF CsrsInv
    <3>3. /\ {NameOf(c) : c \in InsnSet(g)} = AskedInsns(g)
          /\ \A c \in InsnSet(g) : c.mode = "insn" /\ c.grp = g /\ OfInsnLoop(NameOf(c))
      BY <3>2, InsnNames
    <3>4. NamesOf(todo') = AskedInsns(g)
      BY <3>1, <3>3 DEF NamesOf
    <3> QED BY <2>1, <3>1, <3>3, <3>4
  <2>2. CASE loop /= "insn"
    <3>1. ToSet(todo') = ConsSet(g) /\ (Distinct => DistinctNames(todo'))
      BY <1>1, <1>3, <2>2, ConsCallsAre DEF Distinct
    <3>2. csrs \subseteq ToSet(config.csrs) \cup Counters
      BY <1>2 DEF CsrsInv
    <3>3. /\ AskedCons(g) \subseteq {NameOf(c) : c \in ConsSet(g)}
          /\ {NameOf(c) : c \in ConsSet(g)} \subseteq AskedCons(g) \cup Extras
          /\ \A c \in ConsSet(g) :
               /\ c.mode /= "insn" /\ c.grp = g /\ ~OfInsnLoop(NameOf(c))
               /\ c.mode = "csrc" /\ c.check = "csrc_hpm" => c.what \in DOMAIN CounterOf
      BY <1>1, <1>4, <1>6, <3>2, ConsNames
    <3>4. NamesOf(todo') = {NameOf(c) : c \in ConsSet(g)}
      BY <3>1 DEF NamesOf
    <3> QED BY <2>2, <3>1, <3>3, <3>4
  <2> QED BY <2>1, <2>2
<1>11. asked \subseteq Everything
  BY <1>4, EverythingIs
<1> HIDE DEF asked
<1>12. \A c \in ToSet(todo') : InHand(c)'
  <2> SUFFICES ASSUME NEW c \in ToSet(todo') PROVE InHand(c)'
    OBVIOUS
  <2>1. NameOf(c) \in Everything \cup Extras
    BY <1>10, <1>11 DEF NamesOf
  <2> QED BY <1>3, <1>4, <1>8, <1>10, <2>1 DEF InHand
<1>13. \A m : Later(m) =>
         Later(m)' \/ ((OfInsnLoop(m) <=> loop = "insn") /\ m.grp = g)
  BY <1>3, <1>4 DEF Later
<1>14. \A m : Later(m)' => Later(m)
  BY <1>3, <1>4 DEF Later
<1>15. ASSUME NEW m \in Everything, (OfInsnLoop(m) <=> loop = "insn") /\ m.grp = g
       PROVE  m \in NamesOf(todo')
  <2>1. PICK h \in ToSet(config.groups) : m \in AskedInsns(h) \cup AskedCons(h)
    BY EverythingIs
  <2>2. h = g
    BY <1>1, <1>15, <2>1, LoopOf
  <2>3. m \in asked
    BY <1>1, <1>15, <2>1, <2>2, LoopOf DEF asked
  <2> QED BY <1>10, <2>3
<1>16. \A m \in Everything' :
         /\ Asked(m)' => m \in DOMAIN jobs' \/ m \in NamesOf(todo)' \/ Later(m)'
         /\ WrongNumbers(m)' => m \in NamesOf(todo)' \/ Later(m)'
  <2>1. NamesOf(todo)' = NamesOf(todo')
    BY DEF NamesOf, NameOf
  <2> QED BY <1>2, <1>3, <1>5, <1>8, <1>13, <1>15, <2>1
<1>17. \A m \in DOMAIN jobs' :
         Asked(m)' /\ m \in (Everything \cup Extras)' /\ (Distinct' => ~Later(m)')
  BY <1>2, <1>3, <1>8, <1>14
<1>18. Distinct' => DistinctNames(todo)' /\ DOMAIN jobs' \cap NamesOf(todo)' = {}
  <2> SUFFICES ASSUME Distinct
               PROVE  DistinctNames(todo') /\ DOMAIN jobs \cap NamesOf(todo') = {}
    BY <1>3, <1>8 DEF DistinctNames, NamesOf, NameOf
  <2>1. ASSUME NEW m \in NamesOf(todo') PROVE m \notin DOMAIN jobs
    <3>1. PICK c \in ToSet(todo') : m = NameOf(c)
      BY <2>1 DEF NamesOf
    <3>2. (OfInsnLoop(m) <=> loop = "insn") /\ m.grp = g
      BY <1>10, <3>1 DEF NameOf, Name
    <3>3. Later(m)
      BY <1>3, <1>4, <3>2 DEF Later
    <3> QED BY <1>2, <3>3
  <2> QED BY <1>10, <2>1
<1> QED BY <1>3, <1>9, <1>12, <1>16, <1>17, <1>18 DEF AskInv

\* The second loop, or the end.
LEMMA AskLoop ==
  ASSUME ArgsInv, AskInv, NextLoop
  PROVE  AskInv'
<1>1. IsConfig(config) /\ loop \in {"insn", "cons", "ended"}
  BY DEF ArgsInv
<1>2. /\ CsrsInv
      /\ \A m \in Everything :
           /\ Asked(m) => m \in DOMAIN jobs \/ m \in NamesOf(todo) \/ Later(m)
           /\ WrongNumbers(m) => m \in NamesOf(todo) \/ Later(m)
      /\ \A m \in DOMAIN jobs : Asked(m) /\ m \in Everything \cup Extras /\ (Distinct => ~Later(m))
  BY DEF AskInv, NextLoop
<1>3. /\ loop /= "ended" /\ ~crashed /\ todo = <<>> /\ groups = <<>>
      /\ \/ loop = "insn" /\ loop' = "cons" /\ groups' = config.groups
         \/ loop = "cons" /\ loop' = "ended" /\ groups' = <<>>
      /\ UNCHANGED <<tool, config, csrs, todo, hargs, jobs, crashed>>
  BY <1>1 DEF NextLoop
<1>4. ToSet(todo) = {} /\ NamesOf(todo) = {} /\ ToSet(groups) = {}
  BY <1>3 DEF NamesOf, ToSet
<1>5. /\ Everything' = Everything /\ Extras' = Extras
      /\ \A m : (Asked(m)' <=> Asked(m)) /\ (WrongNumbers(m)' <=> WrongNumbers(m))
      /\ Distinct' <=> Distinct
      /\ Cause' <=> Cause
  BY <1>3, ConfigStays
<1>6. CsrsInv'
  <2>1. Distinct => IsInjective(groups')
    BY <1>3 DEF Distinct, IsInjective
  <2> QED BY <1>2, <1>3, <1>5, <2>1 DEF CsrsInv, Counters
<1>7. NamesOf(todo)' = {} /\ DistinctNames(todo)' /\ ToSet(todo') = {}
  BY <1>3, <1>4 DEF NamesOf, DistinctNames, ToSet
<1>8. \A m \in Everything : Later(m) => Later(m)'
  <2> SUFFICES ASSUME NEW m \in Everything, Later(m) PROVE Later(m)'
    OBVIOUS
  <2>1. loop = "insn" /\ ~OfInsnLoop(m)
    BY <1>4 DEF Later
  <2>2. m.grp \in ToSet(config.groups)
    <3>1. PICK g \in ToSet(config.groups) : m \in AskedInsns(g) \cup AskedCons(g)
      BY EverythingIs
    <3> QED BY <1>1, <3>1, LoopOf
  <2> QED BY <1>3, <2>1, <2>2 DEF Later
<1>9. \A m : ~Later(m) => ~Later(m)'
  BY <1>3, <1>4 DEF Later, OfInsnLoop
<1>10. \A m \in Everything' :
         /\ Asked(m)' => m \in DOMAIN jobs' \/ m \in NamesOf(todo)' \/ Later(m)'
         /\ WrongNumbers(m)' => m \in NamesOf(todo)' \/ Later(m)'
  BY <1>2, <1>3, <1>4, <1>5, <1>8
<1>11. \A m \in DOMAIN jobs' :
         Asked(m)' /\ m \in (Everything \cup Extras)' /\ (Distinct' => ~Later(m)')
  BY <1>2, <1>3, <1>5, <1>9
<1> QED BY <1>3, <1>6, <1>7, <1>10, <1>11 DEF AskInv

LEMMA AskStep ==
  ASSUME ArgsInv, AskInv, [Next]_vars
  PROVE  AskInv'
<1>1. CASE UNCHANGED vars
  <2>1. /\ UNCHANGED <<tool, config, csrs, groups, loop, todo, jobs, crashed>>
    BY <1>1 DEF vars
  <2>2. /\ Everything' = Everything /\ Extras' = Extras
        /\ \A m : (Asked(m)' <=> Asked(m)) /\ (WrongNumbers(m)' <=> WrongNumbers(m))
        /\ Distinct' <=> Distinct
        /\ Cause' <=> Cause
    BY <2>1, ConfigStays
  <2>3. CsrsInv' <=> CsrsInv
    BY <2>1, <2>2 DEF CsrsInv, Counters
  <2>4. \A c : InHand(c)' <=> InHand(c)
    BY <2>1, <2>2 DEF InHand
  <2>5. \A m : Later(m)' <=> Later(m)
    BY <2>1 DEF Later
  <2>6. NamesOf(todo)' = NamesOf(todo) /\ (DistinctNames(todo)' <=> DistinctNames(todo))
    BY <2>1 DEF NamesOf, DistinctNames
  <2> QED BY <2>1, <2>2, <2>3, <2>4, <2>5, <2>6 DEF AskInv
<1> QED BY <1>1, AskCheck, AskGroup, AskLoop DEF Next

\* The job of an illegal CSR has the modes of its line, if no other has its address.
LEMMA LineTested ==
  ASSUME OwnArguments, \A n \in Everything : Asked(n) => n \in DOMAIN jobs,
         NEW l \in config.illegal, \A m \in config.illegal : m.addr = l.addr => m = l
  PROVE  Tested("csr_ill", l.addr, l.modes)
<1> SUFFICES ASSUME NEW g \in ToSet(config.groups), NEW c \in Channels,
                    NEW n, n = Name(g, "csr_ill", l.addr, c), Asked(n)
             PROVE  n \in DOMAIN jobs /\ jobs[n].test = l.modes
  BY DEF Tested
<1>1. n \in Everything
  <2>1. n \in AskedInsns(g)
    BY DEF AskedInsns, Addresses
  <2> QED BY <2>1, EverythingIs
<1>2. n.check = "csr_ill" /\ n.what = l.addr
  BY DEF Name
<1>3. n \in DOMAIN jobs /\ [addr |-> n.what, modes |-> jobs[n].test] \in config.illegal
  BY <1>1, <1>2 DEF OwnArguments, IsOwn
<1>4. [addr |-> n.what, modes |-> jobs[n].test] = l
  BY <1>2, <1>3
<1> QED BY <1>3, <1>4

\* The job of a test is that test, if no other of its CSR is of its kind.
LEMMA TestTested ==
  ASSUME IsConfig(config), OwnArguments, \A n \in Everything : Asked(n) => n \in DOMAIN jobs,
         NEW x \in DOMAIN config.tests, NEW t \in ToSet(config.tests[x]),
         \A u \in ToSet(config.tests[x]) : u.kind = t.kind => u = t
  PROVE  Tested(t.kind, x, t)
<1> SUFFICES ASSUME NEW g \in ToSet(config.groups), NEW c \in Channels,
                    NEW n, n = Name(g, t.kind, x, c), Asked(n)
             PROVE  n \in DOMAIN jobs /\ jobs[n].test = t
  BY DEF Tested
<1>1. /\ TestsOf(x) = config.tests[x] /\ x \in ToSet(config.csrs)
      /\ \A u \in ToSet(config.tests[x]) : CheckOfTest(u) = u.kind /\ u.kind \in TestKinds
  BY DEF IsConfig, TestsOf, CheckOfTest
<1>2. n \in Everything
  <2>1. n \in {Name(g, CheckOfTest(u), x, d) : u \in ToSet(TestsOf(x)), d \in Channels}
    BY <1>1
  <2>2. n \in AskedCons(g)
    BY <1>1, <2>1 DEF AskedCons
  <2> QED BY <2>2, EverythingIs
<1>3. n.check = t.kind /\ n.what = x
  BY DEF Name
<1>4. /\ n \in DOMAIN jobs /\ jobs[n].test \in ToSet(config.tests[x])
      /\ CheckOfTest(jobs[n].test) = t.kind
  <2>1. n \in DOMAIN jobs /\ IsOwn(n, jobs[n])
    BY <1>2 DEF OwnArguments
  <2>2. n.check \in TestKinds
    BY <1>1, <1>3
  <2>3. jobs[n].test \in ToSet(TestsOf(n.what)) /\ CheckOfTest(jobs[n].test) = n.check
    BY <2>1, <2>2 DEF IsOwn
  <2> QED BY <1>1, <1>3, <2>1, <2>3
<1>5. jobs[n].test.kind = t.kind
  BY <1>1, <1>4
<1>6. jobs[n].test = t
  BY <1>4, <1>5
<1> QED BY <1>4, <1>6

\* When a script ends it has written a job for every check, line and test that the
\* config file asks for and for no other, extra counters apart, and has found no
\* numbers that do not fit; it ends with a traceback only for one of the causes.
THEOREM AllAskedForAlways ==
  ASSUME NEW CONSTANT Configs, \A c \in Configs : IsConfig(c)
  PROVE  Init(Configs) /\ [][Next]_vars => []AllAskedFor
<1>1. Init(Configs) => ArgsInv /\ AskInv
  BY ArgsInit, AskInit
<1>2. ArgsInv /\ AskInv /\ [Next]_vars => ArgsInv' /\ AskInv'
  BY ArgsStep, AskStep
<1>3. ArgsInv /\ AskInv => AllAskedFor
  <2> SUFFICES ASSUME ArgsInv, AskInv PROVE AllAskedFor
    OBVIOUS
  <2>1. ASSUME loop = "ended" PROVE Written /\ \A n \in Everything : ~WrongNumbers(n)
    <3>1. ~crashed /\ \A c \in ToSet(todo) : FALSE
      BY <2>1 DEF AskInv, InHand
    <3>2. NamesOf(todo) = {} /\ \A n : ~Later(n)
      BY <2>1, <3>1 DEF NamesOf, Later
    <3>3. \A n \in Extras : n \in CounterChecks /\ n.grp /= None
      BY ExtrasAre
    <3>4. \A n \in Everything : (Asked(n) => n \in DOMAIN jobs) /\ ~WrongNumbers(n)
      BY <3>1, <3>2 DEF AskInv
    <3>5. \A n \in DOMAIN jobs : Asked(n) /\ (n \in Everything \/ (n \in CounterChecks /\ n.grp /= None))
      BY <3>3 DEF AskInv
    <3>6. OwnArguments /\ IsConfig(config)
      BY DEF ArgsInv
    <3>7. ASSUME NEW l \in config.illegal, \A m \in config.illegal : m.addr = l.addr => m = l
          PROVE  Tested("csr_ill", l.addr, l.modes)
      BY <3>4, <3>6, <3>7, LineTested
    <3>8. ASSUME NEW x \in DOMAIN config.tests, NEW t \in ToSet(config.tests[x]),
                 \A u \in ToSet(config.tests[x]) : u.kind = t.kind => u = t
          PROVE  Tested(t.kind, x, t)
      BY <3>4, <3>6, <3>8, TestTested
    <3> QED BY <3>4, <3>5, <3>7, <3>8 DEF Written
  <2>2. crashed => Cause
    BY DEF AskInv
  <2> QED BY <2>1, <2>2 DEF AllAskedFor
<1> QED BY <1>1, <1>2, <1>3, PTL

\* As docs/procedure.md says, every line of [illegal_csrs] is tested in its modes,
\* provided that no two lines have one address; otherwise one may be lost.
THEOREM IllegalLinesTested ==
  ASSUME NEW CONSTANT Configs, \A c \in Configs : IsConfig(c)
  PROVE  Init(Configs) /\ [][Next]_vars => [](DistinctIllegal => EveryIllegalLine)
<1>1. AllAskedFor => (DistinctIllegal => EveryIllegalLine)
  BY DEF AllAskedFor, Written, EveryIllegalLine, DistinctIllegal
<1>2. Init(Configs) /\ [][Next]_vars => []AllAskedFor
  BY AllAskedForAlways
<1> QED BY <1>1, <1>2, PTL

===============================================================================
