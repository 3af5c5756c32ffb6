----------------------------- MODULE DataTheorems -----------------------------
(***************************************************************************)
(* Facts about sums and sequences that the proofs of several components    *)
(* use.  What holds of a recursive function is proved by induction; the    *)
(* theorems of induction of the library are about an operator, and the one *)
(* here is about a set, which a proof defines for itself.                  *)
(***************************************************************************)
EXTENDS Sums, Selections, SequencesExt, FiniteSetTheorems, SequenceTheorems,
    WellFoundedInduction, TLAPS

-----------------------------------------------------------------------------
(* Sums: a sum is a natural number, one element more adds its number, and a *)
(* sum of bounded numbers is bounded.                                       *)

LEMMA UpToFinite ==
    ASSUME NEW n \in Nat
    PROVE  IsFiniteSet(1 .. n) /\ Cardinality(1 .. n) = n
  <1>1. /\ IsFiniteSet(1 .. n)
        /\ Cardinality(1 .. n) = IF 1 > n THEN 0 ELSE n - 1 + 1
    BY FS_Interval
  <1> QED  BY <1>1

\* Every number of f on S is a natural one, and S is finite.
Summable(f, S) == IsFiniteSet(S) /\ \A s \in S : f[s] \in Nat

LEMMA UnitsFinite ==
    ASSUME NEW f, NEW S, Summable(f, S)
    PROVE  IsFiniteSet(Units(f, S))
  <1> DEFINE U == {{s} \X (1 .. f[s]) : s \in S}
             unitsOf == [s \in S |-> {s} \X (1 .. f[s])]
  <1>1. IsFiniteSet(S) /\ \A s \in S : f[s] \in Nat
    BY DEF Summable
  <1>2. unitsOf \in Surjection(S, U)
    BY DEF Surjection
  <1>3. IsFiniteSet(U)
    BY <1>1, <1>2, FS_Surjection
  <1>4. ASSUME NEW s \in S
        PROVE  IsFiniteSet({s} \X (1 .. f[s]))
    <2>1. IsFiniteSet({s})
      BY FS_Singleton
    <2>2. IsFiniteSet(1 .. f[s])
      BY <1>1, UpToFinite
    <2> QED  BY <2>1, <2>2, FS_Product
  <1>5. \A T \in U : IsFiniteSet(T)
    BY <1>4
  <1> HIDE DEF U
  <1>6. IsFiniteSet(UNION U)
    BY <1>3, <1>5, FS_UNION
  <1> QED  BY <1>6 DEF U, Units

\* A sum is a natural number.
LEMMA SumIsNat ==
    ASSUME NEW f, NEW S, Summable(f, S)
    PROVE  SumOver(f, S) \in Nat
  BY UnitsFinite, FS_CardinalityType DEF SumOver

LEMMA SumEmpty ==
    ASSUME NEW f
    PROVE  SumOver(f, {}) = 0
  <1>1. Units(f, {}) = {}
    BY DEF Units
  <1> QED  BY <1>1, FS_EmptySet DEF SumOver

LEMMA SumSingle ==
    ASSUME NEW f, NEW s, f[s] \in Nat
    PROVE  SumOver(f, {s}) = f[s]
  <1>1. Units(f, {s}) = {s} \X (1 .. f[s])
    BY DEF Units
  <1>2. IsFiniteSet({s}) /\ Cardinality({s}) = 1
    BY FS_Singleton
  <1>3. IsFiniteSet(1 .. f[s]) /\ Cardinality(1 .. f[s]) = f[s]
    BY UpToFinite
  <1>4. Cardinality({s} \X (1 .. f[s])) = Cardinality({s}) * Cardinality(1 .. f[s])
    BY <1>2, <1>3, FS_Product
  <1>5. \A n \in Nat : 1 * n = n
    OBVIOUS
  <1>6. Cardinality({s} \X (1 .. f[s])) = f[s]
    BY <1>2, <1>3, <1>4, <1>5, Zenon
  <1> QED  BY <1>1, <1>6, Zenon DEF SumOver

LEMMA SumDisjoint ==
    ASSUME NEW f, NEW S, NEW T, Summable(f, S), Summable(f, T), S \cap T = {}
    PROVE  SumOver(f, S \cup T) = SumOver(f, S) + SumOver(f, T)
  <1>1. IsFiniteSet(Units(f, S)) /\ IsFiniteSet(Units(f, T))
    BY UnitsFinite
  <1>2. Units(f, S \cup T) = Units(f, S) \cup Units(f, T)
    BY DEF Units
  <1>3. Units(f, S) \cap Units(f, T) = {}
    BY DEF Units
  <1>4. Cardinality(Units(f, S) \cap Units(f, T)) = 0
    BY <1>3, FS_EmptySet
  <1>5. /\ Cardinality(Units(f, S)) \in Nat
        /\ Cardinality(Units(f, T)) \in Nat
    BY <1>1, FS_CardinalityType
  <1>6. Cardinality(Units(f, S) \cup Units(f, T)) =
            Cardinality(Units(f, S)) + Cardinality(Units(f, T))
              - Cardinality(Units(f, S) \cap Units(f, T))
    BY <1>1, FS_Union
  <1> DEFINE a == Cardinality(Units(f, S))
             b == Cardinality(Units(f, T))
  <1>7. Cardinality(Units(f, S \cup T)) = a + b - 0 /\ a \in Nat /\ b \in Nat
    BY <1>2, <1>4, <1>5, <1>6, Zenon
  <1> HIDE DEF a, b
  <1>8. Cardinality(Units(f, S \cup T)) = a + b
    BY <1>7
  <1> QED  BY <1>8, Zenon DEF a, b, SumOver

\* One element contributes its number.
LEMMA SumRemove ==
    ASSUME NEW f, NEW S, Summable(f, S), NEW s \in S
    PROVE  /\ Summable(f, S \ {s})
           /\ SumOver(f, S) = SumOver(f, S \ {s}) + f[s]
  <1>1. Summable(f, S \ {s})
    BY FS_RemoveElement DEF Summable
  <1>2. Summable(f, {s})
    BY FS_Singleton DEF Summable
  <1>3. S = (S \ {s}) \cup {s}
    OBVIOUS
  <1>4. SumOver(f, (S \ {s}) \cup {s}) = SumOver(f, S \ {s}) + SumOver(f, {s})
    BY <1>1, <1>2, SumDisjoint
  <1>5. SumOver(f, {s}) = f[s]
    BY SumSingle DEF Summable
  <1> QED  BY <1>1, <1>3, <1>4, <1>5

LEMMA SumAgrees ==
    ASSUME NEW f, NEW g, NEW S, \A s \in S : f[s] = g[s]
    PROVE  SumOver(f, S) = SumOver(g, S)
  <1>1. Units(f, S) = Units(g, S)
    BY DEF Units
  <1> QED  BY <1>1 DEF SumOver

\* On S, g is f but for the number of s.
DifferAt(f, g, S, s) == s \in S /\ g[s] \in Nat /\ \A t \in S \ {s} : g[t] = f[t]

\* Changing the number of one element changes the sum by the difference.
LEMMA SumChanges ==
    ASSUME NEW f, NEW g, NEW S, NEW s, Summable(f, S), DifferAt(f, g, S, s)
    PROVE  /\ Summable(g, S)
           /\ SumOver(g, S) + f[s] = SumOver(f, S) + g[s]
  <1> USE DEF DifferAt
  <1>1. Summable(g, S)
    BY DEF Summable
  <1>2. SumOver(f, S) = SumOver(f, S \ {s}) + f[s] /\ Summable(f, S \ {s})
    BY SumRemove
  <1>3. SumOver(g, S) = SumOver(g, S \ {s}) + g[s]
    BY <1>1, SumRemove
  <1>4. SumOver(f, S \ {s}) = SumOver(g, S \ {s})
    BY SumAgrees
  <1>5. SumOver(f, S \ {s}) \in Nat /\ f[s] \in Nat /\ g[s] \in Nat
    BY <1>2, SumIsNat DEF Summable
  <1> QED  BY <1>1, <1>2, <1>3, <1>4, <1>5

\* A part of the elements has a smaller sum.
LEMMA SumOfSubset ==
    ASSUME NEW f, NEW S, Summable(f, S), NEW T \in SUBSET S
    PROVE  Summable(f, T) /\ SumOver(f, T) =< SumOver(f, S)
  <1>1. Summable(f, T)
    BY FS_Subset DEF Summable
  <1>2. Units(f, T) \in SUBSET Units(f, S)
    BY DEF Units
  <1> QED  BY <1>1, <1>2, UnitsFinite, FS_Subset DEF SumOver

\* A sum of numbers that are at most m is at most m for each element.
LEMMA SumBounded ==
    ASSUME NEW f, NEW S, Summable(f, S), NEW m \in Nat, \A s \in S : f[s] =< m
    PROVE  SumOver(f, S) =< Cardinality(S) * m
  <1>1. IsFiniteSet(S) /\ \A s \in S : f[s] \in Nat
    BY DEF Summable
  <1>2. IsFiniteSet(1 .. m) /\ Cardinality(1 .. m) = m
    BY UpToFinite
  <1>3. IsFiniteSet(S \X (1 .. m)) /\ Cardinality(S \X (1 .. m)) = Cardinality(S) * m
    BY <1>1, <1>2, FS_Product
  <1>4. Units(f, S) \in SUBSET (S \X (1 .. m))
    <2>1. ASSUME NEW s \in S
          PROVE  1 .. f[s] \subseteq 1 .. m
      BY <1>1
    <2> QED  BY <2>1 DEF Units
  <1>5. Cardinality(Units(f, S)) =< Cardinality(S \X (1 .. m))
    BY <1>3, <1>4, FS_Subset
  <1> QED  BY <1>3, <1>5 DEF SumOver

\* A finite set of numbers has a largest one.
LEMMA LargestExists ==
    ASSUME NEW S \in SUBSET Nat, IsFiniteSet(S), S # {}
    PROVE  \E m \in S : \A n \in S : n =< m
  <1> DEFINE above(m) == {n \in S : n > m}
             A == {above(m) : m \in S}
             R == StrictSubsetOrdering(S)
  <1>1. A \subseteq FiniteSubsetsOf(S)
    <2>1. ASSUME NEW m \in S
          PROVE  above(m) \in FiniteSubsetsOf(S)
      BY FS_Subset DEF FiniteSubsetsOf
    <2> QED  BY <2>1
  <1>2. A # {}
    OBVIOUS
  <1>3. IsWellFoundedOn(R, FiniteSubsetsOf(S))
    BY FS_StrictSubsetOrderingWellFounded
  <1> HIDE DEF A, R
  <1>4. PICK T \in A : \A U \in A : ~ (<<U, T>> \in R)
    BY <1>1, <1>2, <1>3, WFMin, Zenon
  <1>5. PICK m \in S : T = above(m)
    BY DEF A
  <1>6. ASSUME NEW n \in S, n > m
        PROVE  FALSE
    <2>1. n \in Nat /\ m \in Nat
      OBVIOUS
    <2>2. above(n) \subseteq above(m) /\ n \in above(m) /\ n \notin above(n)
      <3>1. ASSUME NEW k \in above(n)
            PROVE  k \in above(m)
        <4>1. k \in S /\ k \in Nat /\ k > n
          BY <3>1
        <4>2. k > m
          BY <1>6, <2>1, <4>1
        <4> QED  BY <4>1, <4>2
      <3>2. n \in above(m) /\ n \notin above(n)
        BY <1>6, <2>1
      <3>3. above(n) \subseteq above(m)
        BY <3>1
      <3> QED  BY <3>2, <3>3
    <2>3. <<above(n), above(m)>> \in R
      BY <2>2 DEF R, StrictSubsetOrdering
    <2>4. above(n) \in A
      BY DEF A
    <2> QED  BY <1>4, <1>5, <2>3, <2>4
  <1>7. \A n \in S : n =< m
    BY <1>6
  <1> QED  BY <1>7

-----------------------------------------------------------------------------
(* Induction.                                                               *)

Less == {pair \in Nat \X Nat : pair[1] < pair[2]}

LEMMA LessWellFounded == IsWellFoundedOn(Less, Nat)
  BY NatLessThanWellFounded, Zenon DEF OpToRel, Less

LEMMA LeastNumber ==
    ASSUME NEW T \in SUBSET Nat, T # {}
    PROVE  \E x \in T : \A y \in T : x =< y
  <1>1. PICK x \in T : \A y \in T : ~ (<<y, x>> \in Less)
    BY LessWellFounded, WFMin
  <1>2. ASSUME NEW y \in T
        PROVE  x =< y
    <2>1. x \in Nat /\ y \in Nat
      OBVIOUS
    <2>2. ~ (y < x)
      BY <1>1, <2>1 DEF Less
    <2> QED  BY <2>1, <2>2
  <1> QED  BY <1>2

\* Induction, for a set of numbers.
LEMMA SetInduction ==
    ASSUME NEW T, 0 \in T, \A n \in Nat : n \in T => n + 1 \in T
    PROVE  \A n \in Nat : n \in T
  <1> SUFFICES ASSUME NEW n \in Nat, n \notin T
               PROVE  FALSE
    OBVIOUS
  <1> DEFINE U == {m \in Nat : m \notin T}
  <1>1. PICK x \in U : \A y \in U : x =< y
    <2>1. U \in SUBSET Nat /\ U # {}
      OBVIOUS
    <2> HIDE DEF U
    <2> QED  BY <2>1, LeastNumber
  <1>2. x \in Nat /\ x # 0 /\ x \notin T
    OBVIOUS
  <1>3. x - 1 \in Nat /\ (x - 1) + 1 = x /\ ~ (x =< x - 1)
    BY <1>2
  <1>4. x - 1 \in T
    BY <1>1, <1>3
  <1>5. (x - 1) + 1 \in T
    BY <1>3, <1>4
  <1> QED  BY <1>2, <1>3, <1>5

\* The beginnings of a concatenation of sequences.
Flattens(f, seqs) ==
    f = [i \in 1 .. Len(seqs) |-> IF i = 1 THEN seqs[i] ELSE f[i - 1] \o seqs[i]]

LEMMA FlattensExists ==
    ASSUME NEW S, NEW seqs \in Seq(Seq(S)), seqs # <<>>
    PROVE  \E f : Flattens(f, seqs)
  <1> DEFINE step(g, i) == IF i = 1 THEN seqs[i] ELSE g[i - 1] \o seqs[i]
             upTo(g, m) == g = [i \in 1 .. m |-> step(g, i)]
             T == {m \in Nat : \E g : upTo(g, m + 1)}
  <1>1. 0 \in T
    <2> DEFINE g == [i \in 1 .. 1 |-> seqs[1]]
    <2>1. g = [i \in 1 .. 1 |-> step(g, i)]
      OBVIOUS
    <2> HIDE DEF g
    <2>2. upTo(g, 0 + 1)
      BY <2>1
    <2> QED  BY <2>2
  <1>2. ASSUME NEW m \in Nat, m \in T
        PROVE  m + 1 \in T
    <2>1. PICK g : upTo(g, m + 1)
      BY <1>2
    <2> DEFINE h == [i \in 1 .. m + 2 |-> IF i =< m + 1 THEN g[i] ELSE g[m + 1] \o seqs[m + 2]]
    <2>2. ASSUME NEW i \in 1 .. m + 2
          PROVE  h[i] = step(h, i)
      <3>1. CASE i = 1
        BY <2>1, <3>1
      <3>2. CASE i # 1 /\ i =< m + 1
        <4>1. i \in 1 .. m + 1 /\ i - 1 \in 1 .. m + 2 /\ i - 1 =< m + 1
          BY <3>2
        <4>2. g[i] = step(g, i)
          BY <2>1, <4>1
        <4>3. h[i] = g[i] /\ h[i - 1] = g[i - 1]
          BY <4>1
        <4> QED  BY <3>2, <4>2, <4>3
      <3>3. CASE i = m + 2
        <4>1. i # 1 /\ i - 1 = m + 1 /\ ~ (m + 2 =< m + 1) /\ m + 1 \in 1 .. m + 2
              /\ m + 2 \in 1 .. m + 2 /\ m + 1 =< m + 1
          BY <3>3
        <4>2. h[m + 1] = g[m + 1]
          BY <4>1
        <4>3. h[m + 2] = g[m + 1] \o seqs[m + 2]
          BY <4>1
        <4> QED  BY <3>3, <4>1, <4>2, <4>3
      <3> QED  BY <3>1, <3>2, <3>3
    <2>3. h = [i \in 1 .. m + 2 |-> step(h, i)]
      BY <2>2
    <2> HIDE DEF h
    <2>4. m + 2 = (m + 1) + 1 /\ m + 1 \in Nat
      OBVIOUS
    <2>5. upTo(h, (m + 1) + 1)
      BY <2>3, <2>4
    <2> QED  BY <2>4, <2>5
  <1>3. \A m \in Nat : m \in T
    <2> HIDE DEF T
    <2> QED  BY <1>1, <1>2, SetInduction
  <1>4. Len(seqs) - 1 \in Nat /\ (Len(seqs) - 1) + 1 = Len(seqs)
    BY EmptySeq, LenProperties
  <1>5. PICK f : upTo(f, (Len(seqs) - 1) + 1)
    BY <1>3, <1>4
  <1>6. Flattens(f, seqs)
    BY <1>4, <1>5 DEF Flattens
  <1> QED  BY <1>6

\* FlattenSeq keeps what is in each of the sequences.
LEMMA FlattenSeqProperties ==
    ASSUME NEW S, NEW seqs \in Seq(Seq(S))
    PROVE  /\ FlattenSeq(seqs) \in Seq(S)
           /\ \A i \in 1 .. Len(seqs) : Range(seqs[i]) \subseteq Range(FlattenSeq(seqs))
  <1>1. CASE seqs = <<>>
    <2>1. Len(seqs) = 0 /\ seqs \in Seq(S)
      BY <1>1, EmptySeq
    <2>2. FlattenSeq(seqs) = seqs
      BY <2>1 DEF FlattenSeq
    <2> QED  BY <2>1, <2>2
  <1>2. CASE seqs # <<>>
    <2>1. Len(seqs) \in Nat /\ Len(seqs) >= 1 /\ \A i \in 1 .. Len(seqs) : seqs[i] \in Seq(S)
      BY <1>2, EmptySeq, LenProperties, ElementOfSeq
    <2> DEFINE f == CHOOSE g : Flattens(g, seqs)
    <2>2. FlattenSeq(seqs) = f[Len(seqs)]
      BY <2>1 DEF FlattenSeq, Flattens
    <2>3. Flattens(f, seqs)
      BY <1>2, FlattensExists
    <2> HIDE DEF f
    <2> DEFINE T == {m \in Nat : m < Len(seqs) =>
                       /\ f[m + 1] \in Seq(S)
                       /\ \A i \in 1 .. m + 1 : Range(seqs[i]) \subseteq Range(f[m + 1])}
    <2>4. 0 \in T
      BY <2>1, <2>3 DEF Flattens
    <2>5. ASSUME NEW m \in Nat, m \in T
          PROVE  m + 1 \in T
      <3> SUFFICES ASSUME m + 1 < Len(seqs)
                   PROVE  /\ f[m + 2] \in Seq(S)
                          /\ \A i \in 1 .. m + 2 : Range(seqs[i]) \subseteq Range(f[m + 2])
        OBVIOUS
      <3>1. /\ f[m + 1] \in Seq(S)
            /\ \A i \in 1 .. m + 1 : Range(seqs[i]) \subseteq Range(f[m + 1])
        BY <2>1, <2>5
      <3>2. f[m + 2] = f[m + 1] \o seqs[m + 2] /\ seqs[m + 2] \in Seq(S)
        <4>1. m + 2 \in 1 .. Len(seqs) /\ m + 2 # 1 /\ (m + 2) - 1 = m + 1
          BY <2>1
        <4>2. f[m + 2] = f[(m + 2) - 1] \o seqs[m + 2]
          BY <2>3, <4>1 DEF Flattens
        <4> QED  BY <2>1, <4>1, <4>2
      <3>3. f[m + 2] \in Seq(S) /\ Range(f[m + 2]) = Range(f[m + 1]) \cup Range(seqs[m + 2])
        BY <3>1, <3>2, ConcatProperties, RangeConcatenation
      <3>4. \A i \in 1 .. m + 2 : i \in 1 .. m + 1 \/ i = m + 2
        OBVIOUS
      <3> QED  BY <3>1, <3>3, <3>4
    <2>6. \A m \in Nat : m \in T
      <3> HIDE DEF T
      <3> QED  BY <2>4, <2>5, SetInduction
    <2>7. Len(seqs) - 1 \in Nat /\ (Len(seqs) - 1) + 1 = Len(seqs) /\ Len(seqs) - 1 < Len(seqs)
      BY <2>1
    <2> QED  BY <2>2, <2>6, <2>7
  <1> QED  BY <1>1, <1>2

-----------------------------------------------------------------------------
(* Selections of the places of a sequence.                                  *)

\* f selects the places of the beginnings of s.
Selects(f, s, places) ==
    f = [n \in 0 .. Len(s) |->
            IF n = 0 THEN <<>>
            ELSE IF n \in places THEN Append(f[n - 1], s[n]) ELSE f[n - 1]]

LEMMA SelectsExists ==
    ASSUME NEW S, NEW s \in Seq(S), NEW places
    PROVE  \E f : Selects(f, s, places)
  <1> DEFINE step(g, n) == IF n = 0 THEN <<>>
                           ELSE IF n \in places THEN Append(g[n - 1], s[n]) ELSE g[n - 1]
             upTo(g, m) == g = [n \in 0 .. m |-> step(g, n)]
             T == {m \in Nat : \E g : upTo(g, m)}
  <1>1. 0 \in T
    <2> DEFINE g == [n \in 0 .. 0 |-> <<>>]
    <2>1. g = [n \in 0 .. 0 |-> step(g, n)]
      OBVIOUS
    <2> HIDE DEF g
    <2> QED  BY <2>1
  <1>2. ASSUME NEW m \in Nat, m \in T
        PROVE  m + 1 \in T
    <2>1. PICK g : upTo(g, m)
      BY <1>2
    <2> DEFINE last == IF m + 1 \in places THEN Append(g[m], s[m + 1]) ELSE g[m]
               h == [n \in 0 .. m + 1 |-> IF n =< m THEN g[n] ELSE last]
    <2>2. ASSUME NEW n \in 0 .. m + 1
          PROVE  h[n] = step(h, n)
      <3>1. CASE n = 0
        BY <2>1, <3>1
      <3>2. CASE n # 0 /\ n =< m
        <4>1. n \in 0 .. m /\ n - 1 \in 0 .. m + 1 /\ n - 1 =< m
          BY <3>2
        <4>2. g[n] = step(g, n)
          BY <2>1, <4>1
        <4>3. h[n] = g[n] /\ h[n - 1] = g[n - 1]
          BY <4>1
        <4> QED  BY <3>2, <4>2, <4>3
      <3>3. CASE n = m + 1
        <4>1. n # 0 /\ n - 1 = m /\ ~ (m + 1 =< m) /\ m \in 0 .. m + 1 /\ m =< m
              /\ m + 1 \in 0 .. m + 1
          BY <3>3
        <4>2. h[m] = g[m]
          BY <4>1
        <4>3. h[m + 1] = last
          BY <4>1
        <4> QED  BY <3>3, <4>1, <4>2, <4>3
      <3> QED  BY <3>1, <3>2, <3>3
    <2>3. h = [n \in 0 .. m + 1 |-> step(h, n)]
      BY <2>2
    <2> HIDE DEF h
    <2>4. upTo(h, m + 1)
      BY <2>3, Zenon
    <2>5. m + 1 \in Nat
      OBVIOUS
    <2> QED  BY <2>4, <2>5
  <1>3. \A m \in Nat : m \in T
    <2> HIDE DEF T
    <2> QED  BY <1>1, <1>2, SetInduction
  <1>4. Len(s) \in Nat
    BY LenProperties
  <1>5. PICK f : upTo(f, Len(s))
    BY <1>3, <1>4
  <1> QED  BY <1>5 DEF Selects

\* t is s at some of the first m places, one after the other.
PartOf(t, s, S, places, m) ==
    /\ t \in Seq(S) /\ Len(t) =< m
    /\ \A n \in 1 .. m : n \in places => s[n] \in Range(t)
    /\ \E at \in [1 .. Len(t) -> 1 .. m] :
          /\ \A k \in 1 .. Len(t) : at[k] \in places /\ t[k] = s[at[k]]
          /\ \A k, l \in 1 .. Len(t) : k < l => at[k] < at[l]

LEMMA PartLonger ==
    ASSUME NEW S, NEW s \in Seq(S), NEW places, NEW m \in Nat, m + 1 =< Len(s),
           NEW t, PartOf(t, s, S, places, m),
           NEW u, u = IF m + 1 \in places THEN Append(t, s[m + 1]) ELSE t
    PROVE  PartOf(u, s, S, places, m + 1)
  <1>1. /\ t \in Seq(S) /\ Len(t) =< m /\ Len(t) \in Nat
        /\ DOMAIN t = 1 .. Len(t)
        /\ \A n \in 1 .. m : n \in places => s[n] \in Range(t)
    BY LenProperties DEF PartOf
  <1>2. PICK at \in [1 .. Len(t) -> 1 .. m] :
           /\ \A k \in 1 .. Len(t) : at[k] \in places /\ t[k] = s[at[k]]
           /\ \A k, l \in 1 .. Len(t) : k < l => at[k] < at[l]
    BY DEF PartOf
  <1>3. CASE m + 1 \notin places
    <2>1. u = t /\ at \in [1 .. Len(t) -> 1 .. m + 1] /\ Len(t) =< m + 1
      BY <1>1, <1>2, <1>3
    <2>2. \A n \in 1 .. m + 1 : n \in places => n \in 1 .. m
      BY <1>3
    <2> QED  BY <1>1, <1>2, <2>1, <2>2 DEF PartOf
  <1>4. CASE m + 1 \in places
    <2>1. s[m + 1] \in S
      BY LenProperties
    <2>2. /\ u \in Seq(S) /\ Len(u) = Len(t) + 1 /\ DOMAIN u = 1 .. Len(u)
          /\ \A k \in 1 .. Len(t) : u[k] = t[k]
          /\ u[Len(t) + 1] = s[m + 1]
      BY <1>1, <1>4, <2>1, AppendProperties, LenProperties
    <2>3. Range(u) = {u[k] : k \in 1 .. Len(u)} /\ Range(t) = {t[k] : k \in 1 .. Len(t)}
      BY <1>1, <2>2 DEF Range
    <2>4. ASSUME NEW n \in 1 .. m + 1, n \in places
          PROVE  s[n] \in Range(u)
      <3>1. CASE n = m + 1
        <4>1. Len(t) + 1 \in 1 .. Len(u)
          BY <1>1, <2>2
        <4> QED  BY <2>2, <2>3, <3>1, <4>1
      <3>2. CASE n # m + 1
        <4>1. PICK k \in 1 .. Len(t) : s[n] = t[k]
          BY <1>1, <2>3, <2>4, <3>2
        <4>2. k \in 1 .. Len(u)
          BY <1>1, <2>2
        <4> QED  BY <2>2, <2>3, <4>1, <4>2
      <3> QED  BY <3>1, <3>2
    <2> DEFINE by == [k \in 1 .. Len(u) |-> IF k =< Len(t) THEN at[k] ELSE m + 1]
    <2>5. /\ \A k \in 1 .. Len(t) : by[k] = at[k] /\ at[k] \in 1 .. m /\ by[k] \in 1 .. m + 1
          /\ by[Len(t) + 1] = m + 1
      <3>1. \A k \in 1 .. Len(t) : k \in 1 .. Len(u) /\ k =< Len(t)
        BY <1>1, <2>2
      <3>2. Len(t) + 1 \in 1 .. Len(u) /\ ~ (Len(t) + 1 =< Len(t))
        BY <1>1, <2>2
      <3>3. \A k \in 1 .. Len(t) : at[k] \in 1 .. m
        BY <1>2
      <3> QED  BY <3>1, <3>2, <3>3
    <2>6. \A k \in 1 .. Len(u) : k \in 1 .. Len(t) \/ k = Len(t) + 1
      BY <1>1, <2>2
    <2>7. by \in [1 .. Len(u) -> 1 .. m + 1]
      BY <2>5, <2>6
    <2> HIDE DEF by
    <2>8. \A k \in 1 .. Len(u) : by[k] \in places /\ u[k] = s[by[k]]
      BY <1>2, <1>4, <2>2, <2>5, <2>6
    <2>9. ASSUME NEW k \in 1 .. Len(u), NEW l \in 1 .. Len(u), k < l
          PROVE  by[k] < by[l]
      <3>1. k \in 1 .. Len(t)
        BY <1>1, <2>2, <2>9
      <3>2. CASE l \in 1 .. Len(t)
        BY <1>2, <2>5, <2>9, <3>1, <3>2
      <3>3. CASE l = Len(t) + 1
        BY <2>5, <3>1, <3>3
      <3> QED  BY <2>6, <3>2, <3>3
    <2>10. Len(u) =< m + 1
      BY <1>1, <2>2
    <2> QED  BY <2>2, <2>4, <2>7, <2>8, <2>9, <2>10 DEF PartOf
  <1> QED  BY <1>3, <1>4

\* A selection is what it is meant to be.
LEMMA SelectedProperties ==
    ASSUME NEW S, NEW s \in Seq(S), NEW places
    PROVE  PartOf(Selected(s, places), s, S, places, Len(s))
  <1> DEFINE f == CHOOSE g : Selects(g, s, places)
  <1>1. Len(s) \in Nat
    BY LenProperties
  <1>2. Selected(s, places) = f[Len(s)]
    BY DEF Selected, Selects
  <1>3. Selects(f, s, places)
    BY SelectsExists
  <1> HIDE DEF f
  <1> DEFINE T == {m \in Nat : m =< Len(s) => PartOf(f[m], s, S, places, m)}
  <1>4. 0 \in T
    <2>1. f[0] = <<>>
      BY <1>1, <1>3 DEF Selects
    <2>2. Len(<<>>) = 0 /\ <<>> \in Seq(S) /\ Len(<<>>) =< 0
      BY EmptySeq
    <2> DEFINE at == [k \in 1 .. 0 |-> k]
    <2>3. at \in [1 .. 0 -> 1 .. 0]
      OBVIOUS
    <2> HIDE DEF at
    <2>4. \A k \in 1 .. 0 : FALSE
      OBVIOUS
    <2>5. \E by \in [1 .. Len(<<>>) -> 1 .. 0] :
             /\ \A k \in 1 .. Len(<<>>) : by[k] \in places /\ <<>>[k] = s[by[k]]
             /\ \A k, l \in 1 .. Len(<<>>) : k < l => by[k] < by[l]
      <3>1. at \in [1 .. Len(<<>>) -> 1 .. 0] /\ \A k \in 1 .. Len(<<>>) : FALSE
        BY <2>2, <2>3, <2>4
      <3> QED  BY <3>1
    <2>6. PartOf(<<>>, s, S, places, 0)
      BY <2>2, <2>4, <2>5 DEF PartOf
    <2> QED  BY <2>1, <2>6
  <1>5. ASSUME NEW m \in Nat, m \in T
        PROVE  m + 1 \in T
    <2> SUFFICES ASSUME m + 1 =< Len(s)
                 PROVE  PartOf(f[m + 1], s, S, places, m + 1)
      OBVIOUS
    <2>1. PartOf(f[m], s, S, places, m)
      BY <1>1, <1>5
    <2>2. m + 1 \in 0 .. Len(s) /\ m + 1 # 0 /\ (m + 1) - 1 = m
      BY <1>1
    <2>3. f[m + 1] = IF m + 1 \in places THEN Append(f[m], s[m + 1]) ELSE f[m]
      BY <1>3, <2>2 DEF Selects
    <2> QED  BY <2>1, <2>3, PartLonger
  <1>6. \A m \in Nat : m \in T
    <2> HIDE DEF T
    <2> QED  BY <1>4, <1>5, SetInduction
  <1>7. Len(s) =< Len(s)
    BY <1>1
  <1>8. PartOf(f[Len(s)], s, S, places, Len(s))
    BY <1>1, <1>6, <1>7
  <1> QED  BY <1>2, <1>8
===============================================================================
