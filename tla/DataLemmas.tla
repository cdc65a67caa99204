----------------------------- MODULE DataLemmas -----------------------------
(***************************************************************************)
(* Facts about numbers, sets, sequences and sums that the proofs of        *)
(* several components use.  Induction over the natural numbers is derived  *)
(* here for sets instead of predicates, from the well-foundedness of the   *)
(* finite subsets; a proof by induction names the set of the numbers (or   *)
(* subsets) that have the property.                                        *)
(***************************************************************************)
EXTENDS Integers, SequencesExt, FiniteSetTheorems, SequenceTheorems, TLAPS

-----------------------------------------------------------------------------
(* Induction. *)

\* A set of natural numbers has a least one.
LEMMA Least ==
    ASSUME NEW S \in SUBSET Nat, S # {}
    PROVE  \E n \in S : \A m \in S : n <= m
<1>1. PICK k \in S : TRUE
  OBVIOUS
<1> DEFINE U == 0..k
           T == {0..n : n \in S \cap U}
<1>2. T \subseteq FiniteSubsetsOf(U) /\ T # {}
  <2>1. IsFiniteSet(U)
    BY <1>1, FS_Interval
  <2>2. T \subseteq SUBSET U
    BY <1>1
  <2>3. k \in S \cap U
    BY <1>1
  <2> QED  BY <2>1, <2>2, <2>3, FS_FiniteSubsetsOfFinite
<1>3. IsWellFoundedOn(StrictSubsetOrdering(U), FiniteSubsetsOf(U))
  BY FS_StrictSubsetOrderingWellFounded
<1>4. \E x \in T : \A y \in T : <<y, x>> \notin StrictSubsetOrdering(U)
  <2> HIDE DEF T, U
  <2> QED BY <1>2, <1>3, WFMin
<1>5. PICK n \in S \cap U : \A m \in S \cap U : <<0..m, 0..n>> \notin StrictSubsetOrdering(U)
  BY <1>4
<1>6. ASSUME NEW m \in S, m < n
      PROVE  FALSE
  <2>1. m \in S \cap U
    BY <1>6, <1>1, <1>5
  <2>2. 0..m \subseteq 0..n /\ 0..n \subseteq U /\ n \in 0..n /\ n \notin 0..m
    BY <1>6, <1>1, <1>5
  <2>3. <<0..m, 0..n>> \in StrictSubsetOrdering(U)
    BY <2>2 DEF StrictSubsetOrdering
  <2> QED  BY <2>1, <2>3, <1>5
<1> QED  BY <1>5, <1>6

\* A set that has 0, and with each number the next, has them all.
LEMMA Induct ==
    ASSUME NEW S, 0 \in S, \A n \in Nat : n \in S => n + 1 \in S
    PROVE  Nat \subseteq S
<1> SUFFICES ASSUME Nat \ S # {} PROVE FALSE
  OBVIOUS
<1>1. PICK n \in Nat \ S : \A m \in Nat \ S : n <= m
  BY Least
<1>2. n # 0 /\ n - 1 \in Nat /\ n - 1 < n /\ (n-1) + 1 = n
  BY <1>1
<1>3. n - 1 \in S
  BY <1>1, <1>2
<1> QED  BY <1>1, <1>2, <1>3

\* One element of a set that is not empty.
Chosen(s) == CHOOSE x \in s : TRUE

\* Subsets of a finite set, and what is left of one without an element.
LEMMA Smaller ==
    ASSUME NEW S, IsFiniteSet(S), NEW s \in SUBSET S
    PROVE  /\ IsFiniteSet(s) /\ Cardinality(s) \in Nat /\ (Cardinality(s) = 0 <=> s = {})
           /\ s # {} => Chosen(s) \in s
           /\ \A x \in s : s \ {x} \in SUBSET S /\ Cardinality(s \ {x}) = Cardinality(s) - 1
<1>1. IsFiniteSet(s)
  BY FS_Subset
<1>2. Cardinality(s) \in Nat /\ (Cardinality(s) = 0 <=> s = {})
  BY <1>1, FS_CardinalityType, FS_EmptySet
<1>3. \A x \in s : Cardinality(s \ {x}) = Cardinality(s) - 1
  BY <1>1, FS_RemoveElement
<1> QED  BY <1>1, <1>2, <1>3 DEF Chosen

\* A set that has each subset of S whose smaller subsets it has, has them all.
LEMMA SubsetInduct ==
    ASSUME NEW S, IsFiniteSet(S), NEW Q,
           \A s \in SUBSET S : (\A x \in s : s \ {x} \in Q) => s \in Q
    PROVE  SUBSET S \subseteq Q
<1> DEFINE N == {n \in Nat : \A s \in SUBSET S : Cardinality(s) = n => s \in Q}
<1>1. 0 \in N
  <2>1. \A s \in SUBSET S : Cardinality(s) = 0 => s \in Q
    BY Smaller
  <2> QED BY <2>1
<1>2. ASSUME NEW n \in Nat, n \in N
      PROVE  n + 1 \in N
  <2>1. ASSUME NEW s \in SUBSET S, Cardinality(s) = n + 1
        PROVE  s \in Q
    <3>1. \A x \in s : s \ {x} \in SUBSET S /\ Cardinality(s \ {x}) = n
      BY <2>1, Smaller
    <3>2. \A x \in s : s \ {x} \in Q
      BY <3>1, <1>2
    <3> QED  BY <3>2
  <2> QED  BY <2>1
<1>3. Nat \subseteq N
  <2> HIDE DEF N
  <2> QED  BY <1>1, <1>2, Induct
<1> QED  BY <1>3, Smaller

-----------------------------------------------------------------------------
(* Sequences. *)

\* A sequence splits at any point, and its suffix is a sequence.
LEMMA Split ==
    ASSUME NEW S, NEW s \in Seq(S), NEW k \in 0..Len(s)
    PROVE  /\ SubSeq(s, 1, k) \in Seq(S)
           /\ Len(SubSeq(s, 1, k)) = k
           /\ SubSeq(s, k + 1, Len(s)) \in Seq(S)
           /\ Len(SubSeq(s, k + 1, Len(s))) = Len(s) - k
           /\ s = SubSeq(s, 1, k) \o SubSeq(s, k + 1, Len(s))
<1>1. Len(s) \in Nat
  BY LenProperties
<1>2. \A i \in 1..Len(s) : s[i] \in S
  BY ElementOfSeq
<1>3. SubSeq(s, 1, k) \in Seq(S) /\ Len(SubSeq(s, 1, k)) = k
  BY <1>1, <1>2, SubSeqProperties
<1>4. /\ SubSeq(s, k + 1, Len(s)) \in Seq(S)
      /\ Len(SubSeq(s, k + 1, Len(s))) = Len(s) - k
  BY <1>1, <1>2, SubSeqProperties
<1>5. SubSeq(s, 1, k) \o SubSeq(s, k + 1, Len(s)) = SubSeq(s, 1, Len(s))
  <2>1. 1 \in 1..(Len(s) + 1) /\ k \in (1 - 1)..Len(s) /\ Len(s) \in k..Len(s)
    BY <1>1
  <2> QED  BY <2>1, ConcatAdjacentSubSeq
<1> QED  BY <1>3, <1>4, <1>5, SubSeqFull

\* A prefix of a concatenation that is as long as the first part is that part.
LEMMA Prefix ==
    ASSUME NEW S, NEW s \in Seq(S), NEW t \in Seq(S)
    PROVE  SubSeq(s \o t, 1, Len(s)) = s
<1>1. Len(s) \in Nat
  BY LenProperties
<1>2. s \o t \in Seq(S) /\ Len(s \o t) >= Len(s)
  BY ConcatProperties, LenProperties
<1>3. /\ SubSeq(s \o t, 1, Len(s)) \in Seq(S)
      /\ Len(SubSeq(s \o t, 1, Len(s))) = Len(s)
  BY <1>1, <1>2, Split, LenProperties
<1>4. ASSUME NEW i \in 1..Len(s)
      PROVE  SubSeq(s \o t, 1, Len(s))[i] = s[i]
  <2>1. (s \o t)[i] = s[i]
    BY <1>1, ConcatProperties, LenProperties
  <2>2. \A j \in 1..Len(s) : (s \o t)[j] \in S
    BY <1>1, <1>2, ElementOfSeq, LenProperties
  <2>3. SubSeq(s \o t, 1, Len(s))[i] = (s \o t)[1 + i - 1]
    BY <1>1, <2>2, SubSeqProperties
  <2> QED  BY <1>1, <2>1, <2>3
<1> QED  BY <1>1, <1>3, <1>4, SeqEqual

\* Concatenation is associative, for facts on three sequences only: with more
\* of them in sight the SMT backend multiplies terms and gives up.
LEMMA Regroup3 ==
    ASSUME NEW S, NEW s \in Seq(S), NEW t \in Seq(S), NEW u \in Seq(S)
    PROVE  (s \o t) \o u = s \o (t \o u)
BY ConcatAssociative

\* The same as an operator: the provers rewrite only what is named.
Groups3(s, t, u) == (s \o t) \o u = s \o (t \o u)

LEMMA Grouped3 ==
    ASSUME NEW S, NEW s \in Seq(S), NEW t \in Seq(S), NEW u \in Seq(S)
    PROVE  Groups3(s, t, u)
  BY Regroup3 DEF Groups3

\* The two parts of a sequence are determined by the length of the first.
LEMMA Cut ==
    ASSUME NEW S, NEW s1 \in Seq(S), NEW t1 \in Seq(S), NEW s2 \in Seq(S), NEW t2 \in Seq(S),
           s1 \o t1 = s2 \o t2, Len(s1) = Len(s2)
    PROVE  s1 = s2 /\ t1 = t2
<1>1. SubSeq(s1 \o t1, 1, Len(s1)) = s1
  BY Prefix
<1>2. SubSeq(s2 \o t2, 1, Len(s2)) = s2
  BY Prefix
<1>3. s1 = s2
  BY <1>1, <1>2
<1> QED  BY <1>3, ConcatSimplifications

\* What follows position p.
After(s, p) == SubSeq(s, p + 1, Len(s))

\* Split, as an operator: the provers meet its equation only where it is expanded.
Halved(S, s, k) ==
    /\ SubSeq(s, 1, k) \in Seq(S) /\ Len(SubSeq(s, 1, k)) = k
    /\ After(s, k) \in Seq(S) /\ Len(After(s, k)) = Len(s) - k
    /\ s = SubSeq(s, 1, k) \o After(s, k)

LEMMA Halve ==
    ASSUME NEW S, NEW s \in Seq(S), NEW k \in 0..Len(s)
    PROVE  Halved(S, s, k)
<1>1. /\ SubSeq(s, 1, k) \in Seq(S) /\ Len(SubSeq(s, 1, k)) = k
      /\ SubSeq(s, k + 1, Len(s)) \in Seq(S)
      /\ Len(SubSeq(s, k + 1, Len(s))) = Len(s) - k
      /\ s = SubSeq(s, 1, k) \o SubSeq(s, k + 1, Len(s))
  BY Split, ZenonT(30)
<1> DEFINE a == SubSeq(s, 1, k)
           b == SubSeq(s, k + 1, Len(s))
<1>2. /\ a \in Seq(S) /\ Len(a) = k /\ b \in Seq(S) /\ Len(b) = Len(s) - k /\ s = a \o b
  BY <1>1
<1>3. After(s, k) = b
  BY DEF After
<1> HIDE DEF a, b
<1>4. a \in Seq(S) /\ Len(a) = k /\ After(s, k) \in Seq(S) /\ Len(After(s, k)) = Len(s) - k
      /\ s = a \o After(s, k)
  BY <1>2, <1>3, Zenon
<1> QED  BY <1>4 DEF Halved, a

LEMMA AfterType ==
    ASSUME NEW S, NEW s \in Seq(S), NEW p \in 0..Len(s)
    PROVE  After(s, p) \in Seq(S) /\ Len(After(s, p)) = Len(s) - p
  BY Split DEF After

LEMMA AfterNothing ==
    ASSUME NEW S, NEW s \in Seq(S)
    PROVE  After(s, 0) = s
  BY SubSeqFull DEF After

LEMMA AfterConcat ==
    ASSUME NEW S, NEW s \in Seq(S), NEW t \in Seq(S), NEW p \in 0..Len(s)
    PROVE  p \in 0..Len(s \o t) /\ After(s \o t, p) = After(s, p) \o t
<1>1. s \o t \in Seq(S) /\ Len(s \o t) = Len(s) + Len(t) /\ Len(s) \in Nat /\ Len(t) \in Nat
  BY ConcatProperties, LenProperties
<1>2. p \in 0..Len(s \o t)
  BY <1>1
<1> DEFINE a == SubSeq(s, 1, p)
           r == SubSeq(s \o t, 1, p)
<1>3. a \in Seq(S) /\ Len(a) = p /\ After(s, p) \in Seq(S) /\ s = a \o After(s, p)
  <2>1. Halved(S, s, p)
    BY Halve
  <2> QED  BY <2>1, Zenon DEF Halved
<1>4. /\ r \in Seq(S) /\ Len(r) = p /\ After(s \o t, p) \in Seq(S)
      /\ s \o t = r \o After(s \o t, p)
  <2>1. Halved(S, s \o t, p)
    BY <1>1, <1>2, Halve
  <2> QED  BY <2>1, Zenon DEF Halved
<1> HIDE DEF a, r
<1>5. (a \o After(s, p)) \o t = a \o (After(s, p) \o t)
  <2>1. Groups3(a, After(s, p), t)
    BY <1>3, Grouped3
  <2> QED  BY <2>1 DEF Groups3
<1>6. After(s, p) \o t \in Seq(S)
  BY <1>3, ConcatProperties
<1>7. a \o (After(s, p) \o t) = r \o After(s \o t, p)
  BY <1>3, <1>4, <1>5
<1> QED  BY <1>2, <1>3, <1>4, <1>6, <1>7, Cut

LEMMA AfterAfter ==
    ASSUME NEW S, NEW s \in Seq(S), NEW p \in Nat, NEW k \in Nat, p + k <= Len(s)
    PROVE  /\ After(After(s, p), k) = After(s, p + k)
           /\ SubSeq(After(s, p), 1, k) = SubSeq(s, p + 1, p + k)
<1>1. Len(s) \in Nat /\ p \in 0..Len(s) /\ p + k \in 0..Len(s)
  BY LenProperties
<1>2. After(s, p) \in Seq(S) /\ Len(After(s, p)) = Len(s) - p
  BY <1>1, AfterType
<1>3. k \in 0..Len(After(s, p))
  BY <1>1, <1>2
<1> DEFINE a == SubSeq(After(s, p), 1, k)
           b == SubSeq(s, p + 1, p + k)
<1>4. /\ a \in Seq(S) /\ Len(a) = k /\ After(After(s, p), k) \in Seq(S)
      /\ After(s, p) = a \o After(After(s, p), k)
  <2> DEFINE u == After(s, p)
  <2> HIDE DEF u
  <2>1. u \in Seq(S) /\ k \in 0..Len(u)
    BY <1>2, <1>3 DEF u
  <2>2. /\ SubSeq(u, 1, k) \in Seq(S) /\ Len(SubSeq(u, 1, k)) = k /\ After(u, k) \in Seq(S)
        /\ u = SubSeq(u, 1, k) \o After(u, k)
    <3>1. Halved(S, u, k)
      BY <2>1, Halve
    <3> QED  BY <3>1, Zenon DEF Halved
  <2> QED  BY <2>2 DEF u
<1>5. After(s, p + k) \in Seq(S)
  BY <1>1, AfterType
<1>6. b \in Seq(S) /\ Len(b) = k
  <2>1. \A i \in (p + 1)..(p + k) : s[i] \in S
    BY <1>1, ElementOfSeq
  <2> QED  BY <2>1, SubSeqProperties
<1>7. b \o After(s, p + k) = After(s, p)
  <2>1. /\ p + 1 \in 1..(Len(s) + 1) /\ p + k \in ((p + 1) - 1)..Len(s)
        /\ Len(s) \in (p + k)..Len(s)
    BY <1>1
  <2>2. SubSeq(s, p + 1, p + k) \o SubSeq(s, (p + k) + 1, Len(s)) = SubSeq(s, p + 1, Len(s))
    BY <2>1, ConcatAdjacentSubSeq
  <2> QED  BY <2>2 DEF After
<1> HIDE DEF a, b
<1>8. a \o After(After(s, p), k) = b \o After(s, p + k)
  BY <1>4, <1>7
<1>9. a = b /\ After(After(s, p), k) = After(s, p + k)
  BY <1>4, <1>5, <1>6, <1>8, Cut
<1> QED  BY <1>9 DEF a, b

\* Concatenation under a name of its own: a backend that sees \o expands it.
Then(s, t) == s \o t

LEMMA ThenFacts ==
    ASSUME NEW S, NEW s \in Seq(S), NEW t \in Seq(S)
    PROVE  /\ Then(s, t) \in Seq(S)
           /\ \A u \in Seq(S) : Then(Then(s, t), u) = Then(s, Then(t, u))
<1>1. s \o t \in Seq(S)
  BY ConcatProperties
<1>2. ASSUME NEW u \in Seq(S)
      PROVE  (s \o t) \o u = s \o (t \o u)
  BY ConcatAssociative
<1> QED  BY <1>1, <1>2 DEF Then

\* g joins the first i of n sequences, for each i.
Joins(g, seqs, n) ==
    g = [i \in 1..n |-> IF i = 1 THEN seqs[i] ELSE Then(g[i - 1], seqs[i])]

LEMMA JoinsExist ==
    ASSUME NEW n \in Nat, NEW S, NEW seqs, \A i \in 1..n : seqs[i] \in Seq(S)
    PROVE  \E g : Joins(g, seqs, n)
<1> DEFINE Value(g, i) == IF i = 1 THEN seqs[i] ELSE Then(g[i - 1], seqs[i])
           UpTo(g, k) == \A i \in 1..n : i <= k => g[i] = Value(g, i)
           N == {k \in Nat : \E g : UpTo(g, k)}
<1>1. 0 \in N
  OBVIOUS
<1>2. ASSUME NEW k \in Nat, k \in N
      PROVE  k + 1 \in N
  <2>1. PICK g : UpTo(g, k)
    BY <1>2
  <2> DEFINE h == [i \in 1..n |-> IF i <= k THEN g[i] ELSE Value(g, i)]
  <2>2. ASSUME NEW i \in 1..n, i <= k + 1
        PROVE  h[i] = Value(h, i)
    <3>1. h[i] = Value(g, i)
      BY <2>1
    <3>2. i # 1 => h[i - 1] = g[i - 1]
      BY <2>2
    <3> QED  BY <3>1, <3>2
  <2>3. UpTo(h, k + 1)
    BY <2>2
  <2> HIDE DEF h, UpTo
  <2> QED  BY <2>3
<1>3. n \in N
  <2> HIDE DEF N
  <2> QED  BY <1>1, <1>2, Induct
<1>4. PICK g : UpTo(g, n)
  BY <1>3
<1>5. \A i \in 1..n : g[i] = Value(g, i)
  <2> HIDE DEF Value
  <2> QED BY <1>4
<1> DEFINE h == [i \in 1..n |-> Value(g, i)]
<1>6. \A i \in 1..n : h[i] = g[i]
  <2> HIDE DEF Value
  <2> QED BY <1>5
<1>7. \A i \in 1..n : Value(g, i) = Value(h, i)
  BY <1>6
<1>8. h = [i \in 1..n |-> Value(h, i)]
  BY <1>7
<1> QED  BY <1>8 DEF Joins

LEMMA JoinsType ==
    ASSUME NEW n \in Nat, NEW S, NEW seqs, \A i \in 1..n : seqs[i] \in Seq(S),
           NEW g, Joins(g, seqs, n)
    PROVE  \A i \in 1..n : g[i] \in Seq(S)
<1>1. \A i \in 1..n : g[i] = IF i = 1 THEN seqs[i] ELSE Then(g[i - 1], seqs[i])
  BY DEF Joins
<1> DEFINE N == {k \in Nat : k \in 1..n => g[k] \in Seq(S)}
<1>2. 0 \in N
  OBVIOUS
<1>3. ASSUME NEW k \in Nat, k \in N
      PROVE  k + 1 \in N
  <2>1. CASE k + 1 \in 1..n /\ k = 0
    <3>1. g[1] \in Seq(S)
      BY <1>1, <2>1
    <3> QED  BY <2>1, <3>1
  <2>2. CASE k + 1 \in 1..n /\ k # 0
    <3>1. k \in 1..n /\ (k + 1) - 1 = k /\ k + 1 # 1
      BY <2>2
    <3>2. g[k] \in Seq(S) /\ seqs[k + 1] \in Seq(S)
      BY <1>3, <2>2, <3>1
    <3>3. g[k + 1] = Then(g[k], seqs[k + 1])
      BY <1>1, <2>2, <3>1
    <3>4. g[k + 1] \in Seq(S)
      BY <3>2, <3>3, ThenFacts
    <3> QED  BY <3>4
  <2> QED  BY <2>1, <2>2
<1>4. Nat \subseteq N
  <2> HIDE DEF N
  <2> QED  BY <1>2, <1>3, Induct
<1> QED  BY <1>4

\* rest is what follows the first of n + 1 sequences.
Follows(rest, seqs, n, S) ==
    /\ Len(seqs) = n + 1 /\ \A i \in 1..(n + 1) : seqs[i] \in Seq(S)
    /\ rest = [i \in 1..n |-> seqs[i + 1]]

\* Joining from the second sequence on leaves out the first.
LEMMA JoinsShift ==
    ASSUME NEW n \in Nat, NEW S, NEW seqs, NEW rest, Follows(rest, seqs, n, S),
           NEW g, Joins(g, seqs, n + 1), NEW h, Joins(h, rest, n)
    PROVE  \A i \in 1..n : g[i + 1] = Then(seqs[1], h[i])
<1>0. /\ \A i \in 1..(n + 1) : seqs[i] \in Seq(S)
      /\ \A i \in 1..n : rest[i] = seqs[i + 1]
  BY DEF Follows
<1>1. \A i \in 1..(n + 1) : g[i] = IF i = 1 THEN seqs[i] ELSE Then(g[i - 1], seqs[i])
  BY DEF Joins
<1>2. \A i \in 1..n : h[i] = IF i = 1 THEN rest[i] ELSE Then(h[i - 1], rest[i])
  BY DEF Joins
<1>3. \A i \in 1..n : rest[i] \in Seq(S)
  BY <1>0
<1>4. \A i \in 1..n : h[i] \in Seq(S)
  BY <1>3, JoinsType
<1> DEFINE N == {k \in Nat : k \in 1..n => g[k + 1] = Then(seqs[1], h[k])}
<1>5. 0 \in N
  OBVIOUS
<1>6. ASSUME NEW k \in Nat, k \in N
      PROVE  k + 1 \in N
  <2>1. CASE k + 1 \in 1..n /\ k = 0
    <3>1. 1 \in 1..(n + 1) /\ 2 \in 1..(n + 1) /\ 1 \in 1..n
      BY <2>1
    <3>2. g[1] = seqs[1]
      BY <1>1, <3>1
    <3>3. g[2] = Then(g[1], seqs[2])
      BY <1>1, <3>1
    <3>4. h[1] = seqs[2]
      BY <1>0, <1>2, <3>1
    <3>5. g[2] = Then(seqs[1], h[1])
      BY <3>2, <3>3, <3>4
    <3> QED  BY <2>1, <3>5
  <2>2. CASE k + 1 \in 1..n /\ k # 0
    <3>1. /\ k \in 1..n /\ k + 2 \in 1..(n + 1) /\ k + 2 # 1 /\ k + 1 # 1
          /\ (k + 2) - 1 = k + 1 /\ (k + 1) - 1 = k /\ (k + 1) + 1 = k + 2
      BY <2>2
    <3>2. g[k + 1] = Then(seqs[1], h[k])
      BY <1>6, <3>1
    <3>3. g[k + 2] = Then(g[k + 1], seqs[k + 2])
      BY <1>1, <3>1
    <3>4. h[k + 1] = Then(h[k], seqs[k + 2])
      <4>1. h[k + 1] = Then(h[k], rest[k + 1])
        BY <1>2, <2>2, <3>1
      <4>2. rest[k + 1] = seqs[k + 2]
        BY <1>0, <2>2, <3>1
      <4> QED  BY <4>1, <4>2
    <3> DEFINE a == seqs[1]
               b == h[k]
               c == seqs[k + 2]
    <3>5. a \in Seq(S) /\ b \in Seq(S) /\ c \in Seq(S)
      BY <1>0, <1>4, <3>1
    <3> HIDE DEF a, b, c
    <3>6. Then(Then(a, b), c) = Then(a, Then(b, c))
      BY <3>5, ThenFacts
    <3>7. g[k + 2] = Then(seqs[1], h[k + 1])
      BY <3>2, <3>3, <3>4, <3>6 DEF a, b, c
    <3>8. (k + 1) + 1 = k + 2
      BY <3>1
    <3> QED  BY <3>7, <3>8
  <2> QED  BY <2>1, <2>2
<1>7. Nat \subseteq N
  <2> HIDE DEF N
  <2> QED  BY <1>5, <1>6, Induct
<1> QED  BY <1>7

LEMMA FlattenIs ==
    ASSUME NEW n \in Nat \ {0}, NEW S, NEW seqs, Len(seqs) = n, \A i \in 1..n : seqs[i] \in Seq(S)
    PROVE  \E g : Joins(g, seqs, n) /\ FlattenSeq(seqs) = g[n]
<1>1. \E g : g = [i \in 1..Len(seqs) |-> IF i = 1 THEN seqs[i] ELSE g[i - 1] \o seqs[i]]
  <2>1. PICK g : Joins(g, seqs, n)
    BY JoinsExist
  <2>2. g = [i \in 1..Len(seqs) |-> IF i = 1 THEN seqs[i] ELSE g[i - 1] \o seqs[i]]
    BY <2>1 DEF Joins, Then
  <2> QED  BY <2>2
<1>2. \E g : /\ g = [i \in 1..Len(seqs) |-> IF i = 1 THEN seqs[i] ELSE g[i - 1] \o seqs[i]]
             /\ FlattenSeq(seqs) = g[Len(seqs)]
  BY <1>1 DEF FlattenSeq
<1> QED  BY <1>2 DEF Joins, Then

\* Flattening a sequence puts its first element in front of the rest, flattened.
LEMMA FlattenFirst ==
    ASSUME NEW n \in Nat, NEW S, NEW seqs, NEW rest, Follows(rest, seqs, n, S)
    PROVE  FlattenSeq(seqs) = Then(seqs[1], FlattenSeq(rest)) /\ FlattenSeq(rest) \in Seq(S)
<1>0. /\ Len(seqs) = n + 1 /\ \A i \in 1..(n + 1) : seqs[i] \in Seq(S)
      /\ Len(rest) = n /\ \A i \in 1..n : rest[i] = seqs[i + 1] /\ rest[i] \in Seq(S)
  BY DEF Follows
<1>1. PICK g : Joins(g, seqs, n + 1) /\ FlattenSeq(seqs) = g[n + 1]
  <2>1. n + 1 \in Nat \ {0}
    OBVIOUS
  <2>2. Len(seqs) = n + 1 /\ \A i \in 1..(n + 1) : seqs[i] \in Seq(S)
    BY <1>0
  <2> QED  BY <2>1, <2>2, FlattenIs, Zenon
<1>2. CASE n = 0
  <2>1. rest = <<>>
    BY <1>0, <1>2
  <2>2. FlattenSeq(rest) = <<>>
    BY <1>0, <1>2, <2>1 DEF FlattenSeq
  <2>3. FlattenSeq(seqs) = seqs[1] /\ seqs[1] \in Seq(S)
    BY <1>0, <1>1, <1>2 DEF Joins
  <2>4. Then(seqs[1], <<>>) = seqs[1] /\ <<>> \in Seq(S)
    BY <2>3, ConcatEmptySeq, EmptySeq DEF Then
  <2> QED  BY <2>2, <2>3, <2>4
<1>3. CASE n # 0
  <2>1. PICK h : Joins(h, rest, n) /\ FlattenSeq(rest) = h[n]
    BY <1>0, <1>3, FlattenIs
  <2>2. g[n + 1] = Then(seqs[1], h[n])
    <3>1. \A i \in 1..n : g[i + 1] = Then(seqs[1], h[i])
      BY <1>1, <2>1, JoinsShift
    <3> QED  BY <1>3, <3>1
  <2>3. h[n] \in Seq(S)
    <3>1. \A i \in 1..n : rest[i] \in Seq(S)
      BY <1>0
    <3>2. \A i \in 1..n : h[i] \in Seq(S)
      BY <2>1, <3>1, JoinsType, Zenon
    <3> QED  BY <1>3, <3>2
  <2> QED  BY <1>1, <2>1, <2>2, <2>3
<1> QED  BY <1>2, <1>3

-----------------------------------------------------------------------------
(* Sums. *)

\* g sums f over each subset of S.
SumsUp(g, f, S) ==
    g = [s \in SUBSET S |-> IF s = {} THEN 0 ELSE f[Chosen(s)] + g[s \ {Chosen(s)}]]

LEMMA SumsExist ==
    ASSUME NEW S, IsFiniteSet(S), NEW f, \A x \in S : f[x] \in Int
    PROVE  \E g \in [SUBSET S -> Int] : SumsUp(g, f, S)
<1> DEFINE Value(g, s) == IF s = {} THEN 0 ELSE f[Chosen(s)] + g[s \ {Chosen(s)}]
           UpTo(g, n) == \A s \in SUBSET S : Cardinality(s) <= n => g[s] = Value(g, s)
           N == {n \in Nat : \E g \in [SUBSET S -> Int] : UpTo(g, n)}
<1>0. ASSUME NEW g \in [SUBSET S -> Int], NEW s \in SUBSET S
      PROVE  Value(g, s) \in Int
  BY Smaller
<1>1. 0 \in N
  <2> DEFINE g == [s \in SUBSET S |-> 0]
  <2>1. g \in [SUBSET S -> Int] /\ UpTo(g, 0)
    BY Smaller
  <2> QED  BY <2>1
<1>2. ASSUME NEW n \in Nat, n \in N
      PROVE  n + 1 \in N
  <2>1. PICK g \in [SUBSET S -> Int] : UpTo(g, n)
    BY <1>2
  <2> DEFINE h == [s \in SUBSET S |-> IF Cardinality(s) <= n THEN g[s] ELSE Value(g, s)]
  <2>2. h \in [SUBSET S -> Int]
    BY <1>0
  <2>3. ASSUME NEW s \in SUBSET S, Cardinality(s) <= n + 1
        PROVE  h[s] = Value(h, s)
    <3>1. h[s] = Value(g, s)
      BY <2>1
    <3>2. s # {} => h[s \ {Chosen(s)}] = g[s \ {Chosen(s)}]
      <4>1. s # {} => s \ {Chosen(s)} \in SUBSET S /\ Cardinality(s \ {Chosen(s)}) <= n
        BY <2>3, Smaller
      <4> QED  BY <4>1
    <3> QED  BY <3>1, <3>2
  <2>4. UpTo(h, n + 1)
    BY <2>3
  <2> HIDE DEF h, UpTo
  <2> QED  BY <2>2, <2>4
<1>3. Cardinality(S) \in N
  <2> HIDE DEF N
  <2>1. Nat \subseteq N
    BY <1>1, <1>2, Induct
  <2> QED  BY <2>1, Smaller
<1>4. PICK g \in [SUBSET S -> Int] : UpTo(g, Cardinality(S))
  BY <1>3
<1>5. \A s \in SUBSET S : g[s] = Value(g, s)
  BY <1>4, FS_Subset
<1>6. g = [s \in SUBSET S |-> Value(g, s)]
  BY <1>5
<1> QED  BY <1>6 DEF SumsUp

LEMMA SumsUnique ==
    ASSUME NEW S, IsFiniteSet(S), NEW T \in SUBSET S, NEW f, NEW g,
           \A x \in T : f[x] = g[x],
           NEW a, SumsUp(a, f, S), NEW b, SumsUp(b, g, T)
    PROVE  \A s \in SUBSET T : a[s] = b[s]
<1> DEFINE Q == {s \in SUBSET T : a[s] = b[s]}
<1>1. ASSUME NEW s \in SUBSET T, \A x \in s : s \ {x} \in Q
      PROVE  s \in Q
  <2>1. s # {} => Chosen(s) \in s
    BY DEF Chosen
  <2>2. /\ a[s] = IF s = {} THEN 0 ELSE f[Chosen(s)] + a[s \ {Chosen(s)}]
        /\ b[s] = IF s = {} THEN 0 ELSE g[Chosen(s)] + b[s \ {Chosen(s)}]
    BY DEF SumsUp
  <2> QED  BY <1>1, <2>1, <2>2
<1>2. SUBSET T \subseteq Q
  <2> HIDE DEF Q
  <2> QED  BY <1>1, FS_Subset, SubsetInduct
<1> QED  BY <1>2

LEMMA SumIs ==
    ASSUME NEW S, IsFiniteSet(S), NEW f, \A x \in S : f[x] \in Int
    PROVE  \E g \in [SUBSET S -> Int] : SumsUp(g, f, S) /\ SumFunctionOnSet(f, S) = g[S]
<1>1. \E g : SumsUp(g, f, S) /\ SumFunctionOnSet(f, S) = g[S]
  <2>1. \E g : g = [s \in SUBSET S |->
                      IF s = {} THEN 0
                      ELSE f[CHOOSE x \in s : TRUE] + g[s \ {CHOOSE x \in s : TRUE}]]
    <3>1. PICK g : SumsUp(g, f, S)
      BY SumsExist
    <3>2. g = [s \in SUBSET S |->
                 IF s = {} THEN 0
                 ELSE f[CHOOSE x \in s : TRUE] + g[s \ {CHOOSE x \in s : TRUE}]]
      BY <3>1 DEF SumsUp, Chosen
    <3> QED  BY <3>2
  <2>2. \E g : /\ g = [s \in SUBSET S |->
                         IF s = {} THEN 0
                         ELSE f[CHOOSE x \in s : TRUE] + g[s \ {CHOOSE x \in s : TRUE}]]
               /\ SumFunctionOnSet(f, S) = g[S]
    BY <2>1 DEF SumFunctionOnSet, FoldFunctionOnSet, MapThenFoldSet
  <2> QED  BY <2>2 DEF SumsUp, Chosen
<1>2. PICK g : SumsUp(g, f, S) /\ SumFunctionOnSet(f, S) = g[S]
  BY <1>1
<1>3. PICK h \in [SUBSET S -> Int] : SumsUp(h, f, S)
  BY SumsExist
<1>4. \A s \in SUBSET S : g[s] = h[s]
  BY <1>2, <1>3, SumsUnique
<1>5. SumFunctionOnSet(f, S) = h[S]
  BY <1>2, <1>4
<1> QED  BY <1>3, <1>5

\* Equal summands have equal sums, and the sum is a number.
LEMMA SumSame ==
    ASSUME NEW S, IsFiniteSet(S), NEW f, \A x \in S : f[x] \in Int,
           NEW g, \A x \in S : f[x] = g[x]
    PROVE  SumFunctionOnSet(f, S) \in Int /\ SumFunctionOnSet(f, S) = SumFunctionOnSet(g, S)
<1>1. PICK a \in [SUBSET S -> Int] : SumsUp(a, f, S) /\ SumFunctionOnSet(f, S) = a[S]
  BY SumIs
<1>2. PICK b \in [SUBSET S -> Int] : SumsUp(b, g, S) /\ SumFunctionOnSet(g, S) = b[S]
  BY SumIs
<1>3. a[S] = b[S]
  BY <1>1, <1>2, SumsUnique
<1> QED  BY <1>1, <1>2, <1>3

LEMMA SumEmpty ==
    ASSUME NEW f
    PROVE  SumFunctionOnSet(f, {}) = 0
<1>1. IsFiniteSet({})
  BY FS_EmptySet
<1>2. PICK g \in [SUBSET {} -> Int] : SumsUp(g, f, {}) /\ SumFunctionOnSet(f, {}) = g[{}]
  BY <1>1, SumIs
<1> QED  BY <1>2 DEF SumsUp

LEMMA SumRemove ==
    ASSUME NEW S, IsFiniteSet(S), NEW f, \A x \in S : f[x] \in Int, NEW x \in S
    PROVE  SumFunctionOnSet(f, S) = f[x] + SumFunctionOnSet(f, S \ {x})
<1>1. PICK g : /\ g \in [SUBSET S -> Int] /\ SumsUp(g, f, S)
               /\ SumFunctionOnSet(f, S) = g[S]
  BY SumIs
<1> DEFINE Q == {s \in SUBSET S : \A y \in s : g[s] = f[y] + g[s \ {y}]}
<1>2. ASSUME NEW s \in SUBSET S, \A y \in s : s \ {y} \in Q
      PROVE  s \in Q
  <2> SUFFICES ASSUME NEW y \in s PROVE g[s] = f[y] + g[s \ {y}]
    OBVIOUS
  <2> DEFINE c == Chosen(s)
  <2>1. c \in s
    BY DEF Chosen
  <2>2. g[s] = f[c] + g[s \ {c}]
    BY <1>1 DEF SumsUp
  <2> HIDE DEF c
  <2>3. CASE y = c
    BY <2>2, <2>3
  <2>4. CASE y # c
    <3>1. g[s \ {c}] = f[y] + g[(s \ {c}) \ {y}]
      BY <1>2, <2>1, <2>4
    <3>2. g[s \ {y}] = f[c] + g[(s \ {y}) \ {c}]
      BY <1>2, <2>1, <2>4
    <3>3. (s \ {c}) \ {y} = (s \ {y}) \ {c}
      OBVIOUS
    <3> DEFINE a == f[c]
               b == f[y]
               r == g[(s \ {c}) \ {y}]
    <3>4. a \in Int /\ b \in Int /\ r \in Int
      BY <1>1, <2>1
    <3>5. g[s] = a + (b + r)
      BY <2>2, <3>1
    <3>6. f[y] + g[s \ {y}] = b + (a + r)
      BY <3>2, <3>3
    <3>7. a + (b + r) = b + (a + r)
      <4> HIDE DEF a, b, r
      <4> QED  BY <3>4
    <3> QED  BY <3>5, <3>6, <3>7
  <2> QED  BY <2>3, <2>4
<1>3. SUBSET S \subseteq Q
  <2> HIDE DEF Q
  <2>1. \A s \in SUBSET S : (\A y \in s : s \ {y} \in Q) => s \in Q
    BY <1>2
  <2> QED  BY <2>1, SubsetInduct
<1>4. g[S] = f[x] + g[S \ {x}]
  BY <1>3
<1>5. PICK h \in [SUBSET (S \ {x}) -> Int] :
        SumsUp(h, f, S \ {x}) /\ SumFunctionOnSet(f, S \ {x}) = h[S \ {x}]
  BY FS_Subset, SumIs
<1>6. g[S \ {x}] = h[S \ {x}]
  <2>1. \A s \in SUBSET (S \ {x}) : g[s] = h[s]
    BY <1>1, <1>5, SumsUnique
  <2> QED  BY <2>1
<1> QED  BY <1>1, <1>4, <1>5, <1>6

\* A sum of natural numbers is one.
LEMMA SumNat ==
    ASSUME NEW S, IsFiniteSet(S), NEW f, \A x \in S : f[x] \in Nat
    PROVE  SumFunctionOnSet(f, S) \in Nat
<1> DEFINE Q == {s \in SUBSET S : SumFunctionOnSet(f, s) \in Nat}
<1>1. ASSUME NEW s \in SUBSET S, \A x \in s : s \ {x} \in Q
      PROVE  s \in Q
  <2>1. CASE s = {}
    BY <2>1, SumEmpty
  <2>2. CASE s # {}
    <3>1. PICK x \in s : TRUE
      BY <2>2
    <3>2. IsFiniteSet(s) /\ \A y \in s : f[y] \in Int
      BY FS_Subset
    <3>3. SumFunctionOnSet(f, s) = f[x] + SumFunctionOnSet(f, s \ {x})
      BY <3>2, SumRemove
    <3>4. SumFunctionOnSet(f, s \ {x}) \in Nat /\ f[x] \in Nat
      BY <1>1
    <3> QED  BY <3>3, <3>4
  <2> QED  BY <2>1, <2>2
<1>2. SUBSET S \subseteq Q
  <2> HIDE DEF Q
  <2>1. \A s \in SUBSET S : (\A y \in s : s \ {y} \in Q) => s \in Q
    BY <1>1
  <2> QED  BY <2>1, SubsetInduct
<1> QED  BY <1>2

\* Functions that differ at one point.
LEMMA SumChange ==
    ASSUME NEW S, IsFiniteSet(S), NEW f, \A x \in S : f[x] \in Int,
           NEW g, \A x \in S : g[x] \in Int, NEW a \in S, \A x \in S \ {a} : f[x] = g[x]
    PROVE  SumFunctionOnSet(g, S) = SumFunctionOnSet(f, S) + g[a] - f[a]
<1> DEFINE rf == SumFunctionOnSet(f, S \ {a})
           rg == SumFunctionOnSet(g, S \ {a})
<1>1. IsFiniteSet(S \ {a})
  BY FS_Subset
<1>2. rf \in Int /\ rf = rg
  BY <1>1, SumSame
<1>3. SumFunctionOnSet(f, S) = f[a] + rf /\ SumFunctionOnSet(g, S) = g[a] + rg
  BY SumRemove
<1>4. f[a] \in Int /\ g[a] \in Int
  OBVIOUS
<1> HIDE DEF rf, rg
<1> QED  BY <1>2, <1>3, <1>4

\* The sum of sums.
LEMMA SumAdd ==
    ASSUME NEW S, IsFiniteSet(S), NEW f, \A x \in S : f[x] \in Int,
           NEW g, \A x \in S : g[x] \in Int, NEW h, \A x \in S : h[x] = f[x] + g[x]
    PROVE  SumFunctionOnSet(h, S) = SumFunctionOnSet(f, S) + SumFunctionOnSet(g, S)
<1> DEFINE F(s) == SumFunctionOnSet(f, s)
           G(s) == SumFunctionOnSet(g, s)
           H(s) == SumFunctionOnSet(h, s)
           Q == {s \in SUBSET S : H(s) = F(s) + G(s)}
<1>1. ASSUME NEW s \in SUBSET S, \A x \in s : s \ {x} \in Q
      PROVE  s \in Q
  <2>1. CASE s = {}
    BY <2>1, SumEmpty
  <2>2. CASE s # {}
    <3>1. PICK x \in s : TRUE
      BY <2>2
    <3> DEFINE t == s \ {x}
    <3>2. /\ IsFiniteSet(s) /\ IsFiniteSet(t)
          /\ \A y \in s : f[y] \in Int /\ g[y] \in Int /\ h[y] \in Int
      BY FS_Subset
    <3>3. F(s) = f[x] + F(t) /\ G(s) = g[x] + G(t) /\ H(s) = h[x] + H(t)
      BY <3>2, SumRemove
    <3>4. F(t) \in Int /\ G(t) \in Int
      BY <3>2, SumSame
    <3>5. H(t) = F(t) + G(t) /\ h[x] = f[x] + g[x] /\ f[x] \in Int /\ g[x] \in Int
      BY <1>1
    <3>6. H(s) = F(s) + G(s)
      <4> HIDE DEF F, G, H, t
      <4> QED  BY <3>3, <3>4, <3>5
    <3> QED  BY <3>6
  <2> QED  BY <2>1, <2>2
<1>2. SUBSET S \subseteq Q
  <2> HIDE DEF Q
  <2>1. \A s \in SUBSET S : (\A y \in s : s \ {y} \in Q) => s \in Q
    BY <1>1
  <2> QED  BY <2>1, SubsetInduct
<1> QED  BY <1>2

=============================================================================
