---------------------------- MODULE SequenceFacts ----------------------------
(***************************************************************************)
(* Facts about numbers and sequences that the proofs share.  Where a claim *)
(* about every position of a sequence, or every turn of a loop, needs      *)
(* induction, the proofs take the least number the claim would fail at.    *)
(***************************************************************************)
EXTENDS Integers, Sequences, FiniteSets, FiniteSetTheorems, SequenceTheorems,
        WellFoundedInduction, TLAPS

\* Every set of numbers that is not empty has a least one: what the proofs by
\* induction below rest on.
LEMMA LeastNatural ==
    ASSUME NEW T \in SUBSET Nat, T # {}
    PROVE  \E least \in T : \A k \in T : least <= k
<1>1. PICK least \in T : \A k \in T : ~(<<k, least>> \in OpToRel(<, Nat))
  BY Zenon, WFMin, NatLessThanWellFounded
<1>2. \A k \in T : ~(k < least)
  BY <1>1 DEF OpToRel
<1>3. QED
  BY <1>2

\* A sequence that ascends from each place to the next ascends from any to any later.
LEMMA StepwiseAscends ==
    ASSUME NEW n \in Nat, NEW s, \A i \in 1..n : s[i] \in Nat,
           \A i \in 2..n : s[i - 1] < s[i]
    PROVE  \A i, j \in 1..n : i < j => s[i] < s[j]
<1>1. SUFFICES ASSUME NEW i \in 1..n, NEW j \in 1..n, i < j, ~(s[i] < s[j])
               PROVE  FALSE
  OBVIOUS
<1> DEFINE T == {k \in 1..n : i < k /\ ~(s[i] < s[k])}
<1>2. T \in SUBSET Nat /\ T # {}
  BY <1>1
<1>3. PICK least \in T : \A k \in T : least <= k
  <2> HIDE DEF T
  <2>1. QED
    BY <1>2, LeastNatural
<1>4. least \in 2..n /\ i < least /\ ~(s[i] < s[least])
  OBVIOUS
<1>5. least - 1 \in 1..n /\ least - 1 \notin T
  BY <1>3, <1>4
<1>6. i = least - 1 \/ s[i] < s[least - 1]
  BY <1>4, <1>5
<1>7. s[i] \in Nat /\ s[least] \in Nat /\ s[least - 1] \in Nat /\ s[least - 1] < s[least]
  BY <1>4, <1>5
<1>8. QED
  BY <1>4, <1>6, <1>7

\* The values of a sequence that gives none twice are as many as its places.
LEMMA DistinctValues ==
    ASSUME NEW n \in Nat, NEW s, \A i, j \in 1..n : s[i] = s[j] => i = j,
           NEW S, \A x : x \in S <=> \E i \in 1..n : x = s[i]
    PROVE  IsFiniteSet(S) /\ Cardinality(S) = n
<1> DEFINE f == [i \in 1..n |-> s[i]]
<1>1. f \in Bijection(1..n, S)
  <2>1. f \in [1..n -> S] /\ \A t \in S : \E i \in 1..n : f[i] = t
    OBVIOUS
  <2>2. \A i, j \in 1..n : f[i] = f[j] => i = j
    OBVIOUS
  <2> HIDE DEF f
  <2>3. QED
    BY <2>1, <2>2 DEF Bijection, Injection, Surjection, IsInjective
<1>2. ExistsBijection(1..n, S)
  BY <1>1 DEF ExistsBijection
<1>3. IsFiniteSet(1..n) /\ Cardinality(1..n) = n
  BY FS_Interval
<1>4. QED
  BY <1>2, <1>3, FS_Bijection

-----------------------------------------------------------------------------
(* Lists: sequences of whatever elements. *)

IsList(L) == \E E : L \in Seq(E)

LEMMA SeqIsList == \A E : \A L \in Seq(E) : IsList(L)
BY DEF IsList

LEMMA ListFacts ==
    /\ IsList(<< >>)
    /\ \A L : IsList(L) =>
          /\ Len(L) \in Nat
          /\ L # << >> => /\ IsList(Tail(L)) /\ Len(L) >= 1 /\ Len(Tail(L)) = Len(L) - 1
                          /\ \A i \in 1..Len(L) - 1 : Tail(L)[i] = L[i + 1]
    /\ \A L, x : IsList(L) =>
          /\ IsList(Append(L, x)) /\ Len(Append(L, x)) = Len(L) + 1
          /\ Append(L, x)[Len(L) + 1] = x
          /\ \A i \in 1..Len(L) : Append(L, x)[i] = L[i]
<1>1. IsList(<< >>)
  <2>1. << >> \in Seq({})
    OBVIOUS
  <2>2. QED
    BY <2>1 DEF IsList
<1>2. ASSUME NEW L, IsList(L)
      PROVE  /\ Len(L) \in Nat
             /\ L # << >> => /\ IsList(Tail(L)) /\ Len(L) >= 1 /\ Len(Tail(L)) = Len(L) - 1
                             /\ \A i \in 1..Len(L) - 1 : Tail(L)[i] = L[i + 1]
  <2>1. PICK E : L \in Seq(E)
    BY <1>2 DEF IsList
  <2>2. Len(L) \in Nat
    BY <2>1
  <2>3. ASSUME L # << >>
        PROVE  /\ Tail(L) \in Seq(E) /\ Len(L) >= 1 /\ Len(Tail(L)) = Len(L) - 1
               /\ \A i \in 1..Len(L) - 1 : Tail(L)[i] = L[i + 1]
    BY <2>1, <2>3
  <2>4. QED
    BY <2>2, <2>3 DEF IsList
<1>3. ASSUME NEW L, NEW x, IsList(L)
      PROVE  /\ IsList(Append(L, x)) /\ Len(Append(L, x)) = Len(L) + 1
             /\ Append(L, x)[Len(L) + 1] = x
             /\ \A i \in 1..Len(L) : Append(L, x)[i] = L[i]
  <2>1. PICK E : L \in Seq(E)
    BY <1>3 DEF IsList
  <2>2. L \in Seq(E \union {x}) /\ x \in E \union {x}
    <3>1. Seq(E) \subseteq Seq(E \union {x})
      BY SeqMonotonic
    <3>2. QED
      BY <2>1, <3>1
  <2>3. /\ Append(L, x) \in Seq(E \union {x}) /\ Len(Append(L, x)) = Len(L) + 1
        /\ Append(L, x)[Len(L) + 1] = x
        /\ \A i \in 1..Len(L) : Append(L, x)[i] = L[i]
    BY <2>2, AppendProperties
  <2>4. QED
    BY <2>3 DEF IsList
<1>4. QED
  BY <1>1, <1>2, <1>3

\* The first event of a list is emitted, and then the others.
LEMMA ConcatAppends ==
    ASSUME NEW L, IsList(L), NEW x, NEW M, IsList(M)
    PROVE  L \o (<<x>> \o M) = Append(L, x) \o M
<1>1. PICK E : L \in Seq(E)
  BY DEF IsList
<1>2. PICK F : M \in Seq(F)
  BY DEF IsList
<1> DEFINE U == E \union F \union {x}
<1>3. L \in Seq(U) /\ M \in Seq(U) /\ x \in U
  <2>1. Seq(E) \subseteq Seq(U) /\ Seq(F) \subseteq Seq(U)
    BY SeqMonotonic
  <2>2. QED
    BY <1>1, <1>2, <2>1
<1> HIDE DEF U
<1>4. <<x>> \in Seq(U)
  BY <1>3
<1>5. L \o (<<x>> \o M) = (L \o <<x>>) \o M
  BY <1>3, <1>4, ConcatAssociative
<1>6. L \o <<x>> = Append(L, x)
  BY <1>3, AppendIsConcat
<1>7. QED
  BY <1>5, <1>6

LEMMA AppendOnce ==
    ASSUME NEW L, IsList(L), NEW x
    PROVE  L \o <<x>> = Append(L, x)
<1>1. <<x>> \o << >> = <<x>> /\ Append(L, x) \o << >> = Append(L, x)
  <2>1. PICK E : Append(L, x) \in Seq(E)
    BY ListFacts DEF IsList
  <2>2. QED
    BY <2>1
<1>2. QED
  BY <1>1, ConcatAppends, ListFacts

LEMMA PairConcat ==
    ASSUME NEW x, NEW y
    PROVE  <<x>> \o <<y>> = <<x, y>>
<1>1. <<x>> \in Seq({x})
  OBVIOUS
<1>2. <<x, y>> = Append(<<x>>, y)
  OBVIOUS
<1>3. QED
  BY <1>1, <1>2, AppendOnce DEF IsList

LEMMA ConcatFacts ==
    ASSUME NEW L, IsList(L), NEW M, IsList(M)
    PROVE  /\ IsList(L \o M) /\ Len(L \o M) = Len(L) + Len(M)
           /\ \A i \in 1..Len(L) : (L \o M)[i] = L[i]
           /\ \A i \in Len(L) + 1..Len(L) + Len(M) : (L \o M)[i] = M[i - Len(L)]
<1>1. PICK E : L \in Seq(E)
  BY DEF IsList
<1>2. PICK F : M \in Seq(F)
  BY DEF IsList
<1> DEFINE U == E \union F
<1>3. L \in Seq(U) /\ M \in Seq(U)
  <2>1. Seq(E) \subseteq Seq(U) /\ Seq(F) \subseteq Seq(U)
    BY SeqMonotonic
  <2>2. QED
    BY <1>1, <1>2, <2>1
<1> HIDE DEF U
<1>4. L \o M \in Seq(U)
  BY <1>3
<1>5. QED
  BY <1>3, <1>4 DEF IsList
-----------------------------------------------------------------------------
(* Lists that show a set: each of its members once, in some order. *)

Lists(L, S) ==
    /\ IsList(L)
    /\ \A x : x \in S <=> \E i \in 1..Len(L) : L[i] = x
    /\ \A i, j \in 1..Len(L) : L[i] = L[j] => i = j

LEMMA AppendLists ==
    ASSUME NEW L, NEW S, Lists(L, S), NEW x, x \notin S
    PROVE  Lists(Append(L, x), S \union {x})
<1> DEFINE M == Append(L, x)
           n == Len(L)
<1>1. /\ n \in Nat /\ IsList(M) /\ Len(M) = n + 1 /\ M[n + 1] = x
      /\ \A i \in 1..n : M[i] = L[i]
  BY ListFacts DEF Lists
<1>2. /\ \A y : y \in S <=> \E i \in 1..n : L[i] = y
      /\ \A i, j \in 1..n : L[i] = L[j] => i = j
  BY DEF Lists
<1> HIDE DEF M, n
<1>3. n + 1 \in 1..n + 1 /\ \A i \in 1..n + 1 : i = n + 1 \/ i \in 1..n
  BY <1>1
<1>4. \A i \in 1..n : i \in 1..n + 1
  BY <1>1
<1>5. ASSUME NEW y
      PROVE  y \in S \union {x} <=> \E i \in 1..n + 1 : M[i] = y
  BY <1>1, <1>2, <1>3, <1>4
<1>6. \A i, j \in 1..n + 1 : M[i] = M[j] => i = j
  <2>1. \A i \in 1..n : M[i] \in S
    BY <1>1, <1>2
  <2>2. QED
    BY <1>1, <1>2, <1>3, <2>1
<1>7. QED
  BY <1>1, <1>5, <1>6 DEF Lists, M

LEMMA ListLength ==
    ASSUME NEW L, NEW S, Lists(L, S)
    PROVE  IsFiniteSet(S) /\ Cardinality(S) = Len(L)
<1> DEFINE n == Len(L)
<1>1. n \in Nat
  BY ListFacts DEF Lists
<1>2. \A x : x \in S <=> \E i \in 1..n : x = L[i]
  BY DEF Lists
<1>3. \A i, j \in 1..n : L[i] = L[j] => i = j
  BY DEF Lists
<1> HIDE DEF n
<1>4. QED
  BY <1>1, <1>2, <1>3, DistinctValues DEF n
=============================================================================
