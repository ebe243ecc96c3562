--------------------------- MODULE SequenceLemmas ---------------------------
(***************************************************************************)
(* Facts several proofs need. About lists: induction over the naturals,    *)
(* stated for a set, so that a proof names the numbers a claim holds of;   *)
(* and what appending, and taking a part of a sequence, leave where. About *)
(* sums over finite sets: what one term more or less, other terms or other *)
(* names for them do to the sum.                                           *)
(***************************************************************************)
EXTENDS Integers, SequencesExt, SequenceTheorems, FiniteSetTheorems, WellFoundedInduction, TLAPS

(* Every set of naturals that is not empty has a least element.            *)
LEMMA LeastNumber ==
  ASSUME NEW T, T \subseteq Nat, T # {}
  PROVE  \E n \in T : \A m \in T : n <= m
  <1> DEFINE Less == {p \in Nat \X Nat : p[1] < p[2]}
  <1>1. IsWellFoundedOn(Less, Nat)
    BY NatLessThanWellFounded, Zenon DEF OpToRel
  <1>2. PICK n \in T : \A m \in T : ~(<<m, n>> \in Less)
    BY <1>1, WFMin
  <1>3. \A m \in T : <<m, n>> \in Less <=> m < n
    OBVIOUS
  <1> HIDE DEF Less
  <1>4. \A m \in T : ~(m < n)
    BY <1>2, <1>3
  <1>5. QED
    BY <1>4

(* A set with 0 in it, and the successor of each of its elements, has all. *)
LEMMA SetInduction ==
  ASSUME NEW T, 0 \in T, \A n \in Nat : n \in T => n + 1 \in T
  PROVE  Nat \subseteq T
  <1> DEFINE Out == Nat \ T
  <1>1. SUFFICES ASSUME Out # {} PROVE FALSE
    OBVIOUS
  <1>2. PICK n \in Out : \A m \in Out : n <= m
    BY <1>1, LeastNumber
  <1>3. n # 0 /\ n - 1 \in Nat /\ n - 1 \notin Out
    BY <1>2
  <1>4. QED
    BY <1>2, <1>3

-----------------------------------------------------------------------------
(* Sequences.                                                              *)

LEMMA AppendFacts ==
  ASSUME NEW S, NEW s \in Seq(S), NEW e \in S
  PROVE  LET longer == Append(s, e)
         IN /\ longer \in Seq(S) /\ Len(longer) = Len(s) + 1
            /\ DOMAIN longer = 1 .. Len(s) + 1 /\ longer[Len(s) + 1] = e
            /\ \A i \in 1 .. Len(s) : longer[i] = s[i]
  <1> DEFINE longer == Append(s, e)
  <1>1. /\ longer \in Seq(S) /\ Len(longer) = Len(s) + 1 /\ longer[Len(s) + 1] = e
        /\ \A i \in 1 .. Len(s) : longer[i] = s[i]
    BY AppendProperties
  <1> HIDE DEF longer
  <1>2. DOMAIN longer = 1 .. Len(s) + 1
    BY <1>1, LenProperties
  <1>3. QED
    BY <1>1, <1>2 DEF longer

LEMMA PrefixFacts ==
  ASSUME NEW S, NEW s \in Seq(S), NEW n \in 0 .. Len(s)
  PROVE  /\ SubSeq(s, 1, n) \in Seq(S) /\ Len(SubSeq(s, 1, n)) = n
         /\ \A i \in 1 .. n : SubSeq(s, 1, n)[i] = s[i]
  <1>1. Len(s) \in Nat /\ n \in Int /\ n <= Len(s) /\ n >= 0
    BY LenProperties
  <1>2. \A i \in 1 .. n : s[i] \in S
    BY <1>1, ElementOfSeq
  <1>3. (IF 1 <= n THEN n - 1 + 1 ELSE 0) = n /\ n - 1 + 1 = n
    BY <1>1
  <1>4. /\ SubSeq(s, 1, n) \in Seq(S) /\ Len(SubSeq(s, 1, n)) = n
        /\ \A i \in 1 .. n - 1 + 1 : SubSeq(s, 1, n)[i] = s[1 + i - 1]
    BY <1>1, <1>2, <1>3, SubSeqProperties
  <1>5. \A i \in 1 .. n : i \in 1 .. n - 1 + 1 /\ 1 + i - 1 = i
    BY <1>1
  <1>6. QED
    BY <1>4, <1>5

LEMMA SubSeqFacts ==
  ASSUME NEW S, NEW s \in Seq(S), NEW m \in 1 .. Len(s) + 1, NEW n \in m - 1 .. Len(s)
  PROVE  /\ SubSeq(s, m, n) \in Seq(S) /\ Len(SubSeq(s, m, n)) = n - m + 1
         /\ \A i \in 1 .. n - m + 1 : SubSeq(s, m, n)[i] = s[m + i - 1]
  <1>1. Len(s) \in Nat /\ m \in Int /\ n \in Int /\ m >= 1 /\ n >= m - 1
    BY LenProperties
  <1>2. \A i \in m .. n : s[i] \in S
    BY <1>1, ElementOfSeq
  <1>3. (IF m <= n THEN n - m + 1 ELSE 0) = n - m + 1
    BY <1>1
  <1>4. QED
    BY <1>1, <1>2, <1>3, SubSeqProperties

(* Prefixes, and what a sequence holds.                                    *)

LEMMA PrefixElements ==
  ASSUME NEW S, NEW s \in Seq(S), NEW t \in Seq(S)
  PROVE  IsPrefix(s, t) <=> Len(s) <= Len(t) /\ \A i \in 1 .. Len(s) : s[i] = t[i]
  <1>1. CASE Len(s) <= Len(t)
    <2>1. SubSeq(s, 1, Len(s)) = s
      OBVIOUS
    <2>2. /\ SubSeq(t, 1, Len(s)) \in Seq(S) /\ Len(SubSeq(t, 1, Len(s))) = Len(s)
          /\ \A i \in 1 .. Len(s) : SubSeq(t, 1, Len(s))[i] = t[i]
      BY <1>1
    <2>3. s = SubSeq(t, 1, Len(s)) <=> \A i \in 1 .. Len(s) : s[i] = t[i]
      BY <2>2, SeqEqual
    <2>4. QED
      BY <1>1, <2>1, <2>3 DEF IsPrefix
  <1>2. CASE ~(Len(s) <= Len(t))
    BY <1>2 DEF IsPrefix
  <1>3. QED
    BY <1>1, <1>2

LEMMA PrefixOfConcat ==
  ASSUME NEW S, NEW s \in Seq(S), NEW t \in Seq(S)
  PROVE  IsPrefix(s, s \o t)
  <1>1. /\ s \o t \in Seq(S) /\ Len(s \o t) = Len(s) + Len(t)
        /\ \A i \in 1 .. Len(s) + Len(t) :
             (s \o t)[i] = IF i <= Len(s) THEN s[i] ELSE t[i - Len(s)]
        /\ Len(s) \in Nat /\ Len(t) \in Nat
    BY ConcatProperties, LenProperties
  <1>2. Len(s) <= Len(s \o t) /\ \A i \in 1 .. Len(s) : s[i] = (s \o t)[i]
    BY <1>1
  <1>3. QED
    BY <1>1, <1>2, PrefixElements

(* A sequence is any beginning of it and the rest.                         *)
LEMMA SplitAt ==
  ASSUME NEW S, NEW s \in Seq(S), NEW n \in 0 .. Len(s)
  PROVE  /\ SubSeq(s, 1, n) \in Seq(S) /\ SubSeq(s, n + 1, Len(s)) \in Seq(S)
         /\ s = SubSeq(s, 1, n) \o SubSeq(s, n + 1, Len(s))
         /\ Len(SubSeq(s, n + 1, Len(s))) = Len(s) - n
  <1>1. Len(s) \in Nat /\ n \in Int /\ 1 \in 1 .. Len(s) + 1 /\ n \in 1 - 1 .. Len(s)
        /\ Len(s) \in n .. Len(s) /\ n + 1 \in 1 .. Len(s) + 1 /\ Len(s) \in n + 1 - 1 .. Len(s)
    BY LenProperties
  <1>2. SubSeq(s, 1, n) \o SubSeq(s, n + 1, Len(s)) = SubSeq(s, 1, Len(s))
    BY <1>1, ConcatAdjacentSubSeq
  <1>3. SubSeq(s, 1, Len(s)) = s
    BY SubSeqFull
  <1>4. SubSeq(s, n + 1, Len(s)) \in Seq(S) /\ Len(SubSeq(s, n + 1, Len(s))) = Len(s) - (n + 1) + 1
    BY <1>1, SubSeqFacts
  <1>5. SubSeq(s, 1, n) \in Seq(S) /\ Len(s) - (n + 1) + 1 = Len(s) - n
    BY <1>1, PrefixFacts
  <1>6. QED
    BY <1>2, <1>3, <1>4, <1>5

LEMMA RestOfPrefix ==
  ASSUME NEW S, NEW s \in Seq(S), NEW t \in Seq(S), IsPrefix(s, t)
  PROVE  \E rest \in Seq(S) : t = s \o rest
  <1>1. Len(s) <= Len(t) /\ SubSeq(s, 1, Len(s)) = SubSeq(t, 1, Len(s)) /\ Len(s) \in Nat
        /\ Len(t) \in Nat
    BY LenProperties DEF IsPrefix
  <1>2. SubSeq(s, 1, Len(s)) = s
    BY SubSeqFull
  <1>3. Len(s) \in 0 .. Len(t)
    BY <1>1
  <1>4. /\ SubSeq(t, Len(s) + 1, Len(t)) \in Seq(S)
        /\ t = SubSeq(t, 1, Len(s)) \o SubSeq(t, Len(s) + 1, Len(t))
    BY <1>3, SplitAt
  <1>5. QED
    BY <1>1, <1>2, <1>4

LEMMA PrefixTransitive ==
  ASSUME NEW S, NEW r \in Seq(S), NEW s \in Seq(S), NEW t \in Seq(S),
         IsPrefix(r, s), IsPrefix(s, t)
  PROVE  IsPrefix(r, t)
  <1>1. Len(r) \in Nat /\ Len(s) \in Nat /\ Len(t) \in Nat
    BY LenProperties
  <1>2. /\ Len(r) <= Len(s) /\ \A i \in 1 .. Len(r) : r[i] = s[i]
        /\ Len(s) <= Len(t) /\ \A i \in 1 .. Len(s) : s[i] = t[i]
    BY PrefixElements
  <1>3. Len(r) <= Len(t) /\ \A i \in 1 .. Len(r) : r[i] = t[i]
    BY <1>1, <1>2
  <1>4. QED
    BY <1>3, PrefixElements

(* What stands before two sequences takes nothing from their being one the *)
(* beginning of the other.                                                 *)
LEMMA PrefixBehind ==
  ASSUME NEW S, NEW r \in Seq(S), NEW s \in Seq(S), NEW t \in Seq(S), IsPrefix(s, t)
  PROVE  IsPrefix(r \o s, r \o t)
  <1>1. PICK rest \in Seq(S) : t = s \o rest
    BY RestOfPrefix
  <1>2. r \o s \in Seq(S)
    BY ConcatProperties
  <1>3. (r \o s) \o rest = r \o (s \o rest)
    BY <1>1, ConcatAssociative
  <1>4. IsPrefix(r \o s, (r \o s) \o rest)
    BY <1>1, <1>2, PrefixOfConcat
  <1>5. QED
    BY <1>1, <1>3, <1>4

LEMMA ToSetFacts ==
  ASSUME NEW S, NEW s \in Seq(S), NEW t \in Seq(S)
  PROVE  /\ ToSet(s) \subseteq S /\ ToSet(s \o t) = ToSet(s) \cup ToSet(t)
         /\ IsPrefix(s, t) => ToSet(s) \subseteq ToSet(t)
  <1>1. \A u : ToSet(u) = Range(u)
    BY DEF ToSet, Range
  <1>2. ToSet(s) \subseteq S /\ ToSet(s \o t) = ToSet(s) \cup ToSet(t)
    BY <1>1, RangeOfSeq, RangeConcatenation
  <1>3. ASSUME IsPrefix(s, t) PROVE ToSet(s) \subseteq ToSet(t)
    <2>1. PICK rest \in Seq(S) : t = s \o rest
      BY <1>3, RestOfPrefix
    <2>2. Range(t) = Range(s) \cup Range(rest)
      BY <2>1, RangeConcatenation
    <2>3. QED
      BY <1>1, <2>2
  <1>4. QED
    BY <1>2, <1>3

LEMMA ToSetAppend ==
  ASSUME NEW S, NEW s \in Seq(S), NEW e \in S
  PROVE  ToSet(Append(s, e)) = ToSet(s) \cup {e}
  <1>1. <<e>> \in Seq(S) /\ ToSet(<<e>>) = {e}
    BY DEF ToSet
  <1>2. Append(s, e) = s \o <<e>>
    BY AppendIsConcat
  <1>3. QED
    BY <1>1, <1>2, ToSetFacts

-----------------------------------------------------------------------------
(* Lists as an algebra: names for \o and Append that the provers do not    *)
(* open, with the laws by which a proof reckons with them instead.         *)

Cat(s, t) == s \o t
Plus(s, e) == Append(s, e)

(* Each law is a lemma of its own: together they would go on for ever.     *)

LEMMA CatType ==
  ASSUME NEW S, NEW s \in Seq(S), NEW t \in Seq(S)
  PROVE  Cat(s, t) \in Seq(S) /\ Len(Cat(s, t)) = Len(s) + Len(t)
  BY ConcatProperties DEF Cat

LEMMA CatEmpty ==
  ASSUME NEW S, NEW s \in Seq(S)
  PROVE  Cat(s, <<>>) = s /\ Cat(<<>>, s) = s
  BY ConcatEmptySeq DEF Cat

LEMMA CatCat ==
  ASSUME NEW S, NEW s \in Seq(S), NEW t \in Seq(S), NEW u \in Seq(S)
  PROVE  Cat(Cat(s, t), u) = Cat(s, Cat(t, u))
  BY ConcatAssociative DEF Cat

LEMMA CatSet ==
  ASSUME NEW S, NEW s \in Seq(S), NEW t \in Seq(S)
  PROVE  ToSet(Cat(s, t)) = ToSet(s) \cup ToSet(t)
  BY ToSetFacts DEF Cat

LEMMA CatPrefix ==
  ASSUME NEW S, NEW s \in Seq(S), NEW t \in Seq(S)
  PROVE  IsPrefix(s, Cat(s, t))
  BY PrefixOfConcat DEF Cat

LEMMA CatPrefixes ==
  ASSUME NEW S, NEW r \in Seq(S), NEW s \in Seq(S), NEW t \in Seq(S), IsPrefix(s, t)
  PROVE  IsPrefix(Cat(r, s), Cat(r, t))
  BY PrefixBehind DEF Cat

LEMMA PrefixSet ==
  ASSUME NEW S, NEW s \in Seq(S), NEW t \in Seq(S), IsPrefix(s, t)
  PROVE  ToSet(s) \subseteq ToSet(t)
  BY ToSetFacts

LEMMA PrefixSelf ==
  ASSUME NEW S, NEW s \in Seq(S)
  PROVE  IsPrefix(s, s) /\ IsPrefix(<<>>, s)
  <1>1. ASSUME NEW none \in Seq(S), none = <<>>
        PROVE  IsPrefix(s, s) /\ IsPrefix(none, s)
    <2>1. Cat(s, none) = s /\ Cat(none, s) = s
      BY <1>1, CatEmpty
    <2>2. IsPrefix(s, Cat(s, none)) /\ IsPrefix(none, Cat(none, s))
      BY CatPrefix
    <2>3. QED
      BY <2>1, <2>2
  <1>2. QED
    BY <1>1, EmptySeq

LEMMA PlusType ==
  ASSUME NEW S, NEW s \in Seq(S), NEW e \in S
  PROVE  /\ Plus(s, e) \in Seq(S) /\ Len(Plus(s, e)) = Len(s) + 1
         /\ Plus(s, e)[Len(s) + 1] = e /\ \A i \in 1 .. Len(s) : Plus(s, e)[i] = s[i]
  BY AppendFacts DEF Plus

LEMMA PlusIsCat ==
  ASSUME NEW S, NEW s \in Seq(S), NEW e \in S
  PROVE  <<e>> \in Seq(S) /\ Plus(s, e) = Cat(s, <<e>>)
  <1>1. <<e>> \in Seq(S)
    OBVIOUS
  <1>2. Append(s, e) = s \o <<e>>
    BY AppendIsConcat
  <1>3. QED
    BY <1>1, <1>2 DEF Plus, Cat

LEMMA PlusSet ==
  ASSUME NEW S, NEW s \in Seq(S), NEW e \in S
  PROVE  ToSet(Plus(s, e)) = ToSet(s) \cup {e}
  BY ToSetAppend DEF Plus

LEMMA PlusCat ==
  ASSUME NEW S, NEW s \in Seq(S), NEW t \in Seq(S), NEW e \in S
  PROVE  Plus(Cat(s, t), e) = Cat(s, Plus(t, e))
  <1>1. ASSUME NEW u \in Seq(S), u = <<e>>
        PROVE  Plus(Cat(s, t), e) = Cat(s, Plus(t, e))
    <2>1. Cat(s, t) \in Seq(S)
      BY CatType
    <2>2. Plus(t, e) = Cat(t, u) /\ Plus(Cat(s, t), e) = Cat(Cat(s, t), u)
      BY <1>1, <2>1, PlusIsCat
    <2>3. Cat(Cat(s, t), u) = Cat(s, Cat(t, u))
      BY CatCat
    <2>4. QED
      BY <2>2, <2>3
  <1>2. QED
    BY <1>1, PlusIsCat

(* The beginnings of three elements, as they are appended.                 *)
LEMMA ThreeElements ==
  ASSUME NEW S, NEW x \in S, NEW y \in S, NEW z \in S,
         NEW one, one = Plus(<<>>, x), NEW two, two = Plus(one, y),
         NEW three, three = Plus(two, z), NEW s, s = <<x, y, z>>
  PROVE  /\ one \in Seq(S) /\ two \in Seq(S) /\ three \in Seq(S) /\ Len(s) = 3
         /\ SubSeq(s, 1, 0) = <<>> /\ SubSeq(s, 1, 1) = one /\ SubSeq(s, 1, 2) = two /\ s = three
  <1>1. one \in Seq(S) /\ Len(one) = 1 /\ one[1] = x
    BY DEF Plus
  <1>2. two \in Seq(S) /\ Len(two) = 2 /\ two[1] = x /\ two[2] = y
    BY <1>1, AppendFacts DEF Plus
  <1>3. three \in Seq(S) /\ Len(three) = 3 /\ three[1] = x /\ three[2] = y /\ three[3] = z
    BY <1>2, AppendFacts DEF Plus
  <1>4. s \in Seq(S) /\ Len(s) = 3 /\ s[1] = x /\ s[2] = y /\ s[3] = z
    OBVIOUS
  <1>5. s = three
    BY <1>3, <1>4, SeqEqual
  <1>6. ASSUME NEW a \in Seq(S), a = SubSeq(s, 1, 1) PROVE a = one
    <2>1. Len(a) = 1 /\ a[1] = x
      BY <1>4, <1>6, PrefixFacts
    <2>2. QED
      BY <1>1, <2>1, SeqEqual
  <1>7. ASSUME NEW a \in Seq(S), a = SubSeq(s, 1, 2) PROVE a = two
    <2>1. Len(a) = 2 /\ a[1] = x /\ a[2] = y
      BY <1>4, <1>7, PrefixFacts
    <2>2. QED
      BY <1>2, <2>1, SeqEqual
  <1>8. SubSeq(s, 1, 1) \in Seq(S) /\ SubSeq(s, 1, 2) \in Seq(S) /\ SubSeq(s, 1, 0) = <<>>
    BY <1>4, PrefixFacts, SubSeqEmpty
  <1>9. QED
    BY <1>1, <1>2, <1>3, <1>4, <1>5, <1>6, <1>7, <1>8

(* A beginning of a beginning, and of what something was put behind.       *)
LEMMA BeginningOfBeginning ==
  ASSUME NEW S, NEW s \in Seq(S), NEW k \in 0 .. Len(s), NEW n \in 0 .. k
  PROVE  SubSeq(SubSeq(s, 1, k), 1, n) = SubSeq(s, 1, n)
  <1> DEFINE whole == SubSeq(s, 1, k)
  <1>1. Len(s) \in Nat /\ n \in 0 .. Len(s)
    BY LenProperties
  <1>2. whole \in Seq(S) /\ Len(whole) = k /\ \A i \in 1 .. k : whole[i] = s[i]
    BY PrefixFacts
  <1> HIDE DEF whole
  <1>3. /\ SubSeq(whole, 1, n) \in Seq(S) /\ Len(SubSeq(whole, 1, n)) = n
        /\ \A i \in 1 .. n : SubSeq(whole, 1, n)[i] = whole[i]
    BY <1>2, PrefixFacts
  <1>4. /\ SubSeq(s, 1, n) \in Seq(S) /\ Len(SubSeq(s, 1, n)) = n
        /\ \A i \in 1 .. n : SubSeq(s, 1, n)[i] = s[i]
    BY <1>1, PrefixFacts
  <1>5. \A i \in 1 .. n : SubSeq(whole, 1, n)[i] = SubSeq(s, 1, n)[i]
    BY <1>2, <1>3, <1>4
  <1>6. SubSeq(whole, 1, n) = SubSeq(s, 1, n)
    BY <1>3, <1>4, <1>5, SeqEqual
  <1>7. QED
    BY <1>6 DEF whole

LEMMA BeginningOfCat ==
  ASSUME NEW S, NEW s \in Seq(S), NEW t \in Seq(S), NEW n \in 0 .. Len(s)
  PROVE  SubSeq(Cat(s, t), 1, n) = SubSeq(s, 1, n)
  <1> DEFINE both == Cat(s, t)
  <1>1. /\ both \in Seq(S) /\ Len(both) = Len(s) + Len(t) /\ Len(s) \in Nat /\ Len(t) \in Nat
        /\ \A i \in 1 .. Len(s) : s[i] = both[i]
    <2>1. Len(s) \in Nat /\ Len(t) \in Nat
      BY LenProperties
    <2>2. both \in Seq(S) /\ Len(both) = Len(s) + Len(t) /\ IsPrefix(s, both)
      BY CatType, CatPrefix
    <2> HIDE DEF both
    <2>3. \A i \in 1 .. Len(s) : s[i] = both[i]
      BY <2>2, PrefixElements
    <2>4. QED
      BY <2>1, <2>2, <2>3
  <1> HIDE DEF both
  <1>2. n \in 0 .. Len(both)
    BY <1>1
  <1>3. /\ SubSeq(both, 1, n) \in Seq(S) /\ Len(SubSeq(both, 1, n)) = n
        /\ \A i \in 1 .. n : SubSeq(both, 1, n)[i] = both[i]
    BY <1>1, <1>2, PrefixFacts
  <1>4. /\ SubSeq(s, 1, n) \in Seq(S) /\ Len(SubSeq(s, 1, n)) = n
        /\ \A i \in 1 .. n : SubSeq(s, 1, n)[i] = s[i]
    BY PrefixFacts
  <1>5. \A i \in 1 .. n : SubSeq(both, 1, n)[i] = SubSeq(s, 1, n)[i]
    BY <1>1, <1>3, <1>4
  <1>6. SubSeq(both, 1, n) = SubSeq(s, 1, n)
    BY <1>3, <1>4, <1>5, SeqEqual
  <1>7. QED
    BY <1>6 DEF both

-----------------------------------------------------------------------------
(* Sums over finite sets. Induction is stated for a set of sets: those a   *)
(* claim holds of.                                                         *)
LEMMA SubsetInduction ==
  ASSUME NEW U, IsFiniteSet(U), NEW P,
         ASSUME NEW V \in SUBSET U, (SUBSET V) \ {V} \subseteq P
         PROVE  V \in P
  PROVE  SUBSET U \subseteq P
  <1> DEFINE Out == (SUBSET U) \ P
             Less == StrictSubsetOrdering(U)
  <1>1. IsWellFoundedOn(Less, SUBSET U)
    BY FS_StrictSubsetOrderingWellFounded, FS_FiniteSubsetsOfFinite
  <1>2. SUFFICES ASSUME Out # {} PROVE FALSE
    OBVIOUS
  <1>3. PICK V \in Out : \A T \in Out : ~(<<T, V>> \in Less)
    <2>1. Out \subseteq SUBSET U
      OBVIOUS
    <2> HIDE DEF Out, Less
    <2>2. QED
      BY <1>1, <1>2, <2>1, WFMin
  <1>4. \A T \in (SUBSET V) \ {V} : T \in P
    BY <1>3 DEF StrictSubsetOrdering
  <1>5. QED
    BY <1>3, <1>4

Pick(T) == CHOOSE x \in T : TRUE

LEMMA PickIsIn == \A T : T # {} => Pick(T) \in T
  BY DEF Pick

SumsParts(f, S, total) ==
  total = [T \in SUBSET S |->
             IF T = {} THEN 0 ELSE f[Pick(T)] + total[T \ {Pick(T)}]]

LEMMA SumIsARecursion ==
  ASSUME NEW f, NEW S
  PROVE  SumFunctionOnSet(f, S) = (CHOOSE total : SumsParts(f, S, total))[S]
  BY Zenon DEF SumFunctionOnSet, FoldFunctionOnSet, MapThenFoldSet, SumsParts, Pick

LEMMA PartsOfASum ==
  ASSUME NEW f, NEW S, NEW total, SumsParts(f, S, total)
  PROVE  \A T \in SUBSET S :
           total[T] = IF T = {} THEN 0 ELSE f[Pick(T)] + total[T \ {Pick(T)}]
  <1> DEFINE value(T) == IF T = {} THEN 0 ELSE f[Pick(T)] + total[T \ {Pick(T)}]
  <1>1. total = [T \in SUBSET S |-> value(T)]
    BY DEF SumsParts
  <1> HIDE DEF value
  <1>2. \A T \in SUBSET S : total[T] = value(T)
    BY <1>1
  <1>3. QED
    BY <1>2 DEF value

(* Two recursions agree on what they have in common.                       *)
LEMMA OneSum ==
  ASSUME NEW f, NEW S, NEW R, NEW t, NEW u, SumsParts(f, S, t), SumsParts(f, R, u),
         NEW Q, IsFiniteSet(Q), Q \subseteq S, Q \subseteq R
  PROVE  t[Q] = u[Q]
  <1> DEFINE P == {T \in SUBSET Q : t[T] = u[T]}
  <1>1. ASSUME NEW V \in SUBSET Q, (SUBSET V) \ {V} \subseteq P
        PROVE  V \in P
    <2>1. CASE V = {}
      BY <2>1, PartsOfASum
    <2>2. CASE V # {}
      <3>1. Pick(V) \in V
        BY <2>2, PickIsIn
      <3>2. V \ {Pick(V)} \in (SUBSET V) \ {V}
        BY <3>1
      <3>3. t[V \ {Pick(V)}] = u[V \ {Pick(V)}]
        BY <1>1, <3>2
      <3>4. V \in SUBSET S /\ V \in SUBSET R
        OBVIOUS
      <3>5. t[V] = f[Pick(V)] + t[V \ {Pick(V)}]
        BY <2>2, <3>4, PartsOfASum
      <3>6. u[V] = f[Pick(V)] + u[V \ {Pick(V)}]
        BY <2>2, <3>4, PartsOfASum
      <3>7. QED
        BY <3>3, <3>5, <3>6
    <2>3. QED
      BY <2>1, <2>2
  <1> HIDE DEF P
  <1>2. SUBSET Q \subseteq P
    BY <1>1, SubsetInduction
  <1>3. QED
    BY <1>2 DEF P

LEMMA SumExists ==
  ASSUME NEW f, NEW S, IsFiniteSet(S)
  PROVE  \E total : SumsParts(f, S, total)
  <1> DEFINE P == {T \in SUBSET S : \E total : SumsParts(f, T, total)}
  <1>1. ASSUME NEW V \in SUBSET S, (SUBSET V) \ {V} \subseteq P
        PROVE  V \in P
    <2> DEFINE sum(T) == SumFunctionOnSet(f, T)
               value(T) == IF T = {} THEN 0 ELSE f[Pick(T)] + sum(T \ {Pick(T)})
               total == [T \in SUBSET V |-> value(T)]
    <2>1. ASSUME NEW T \in (SUBSET V) \ {V}
          PROVE  \E u : SumsParts(f, T, u) /\ sum(T) = u[T]
      <3>1. \E u : SumsParts(f, T, u)
        BY <1>1
      <3>2. SumsParts(f, T, CHOOSE u : SumsParts(f, T, u))
        BY <3>1
      <3>3. QED
        BY <3>2, SumIsARecursion
    <2>2. ASSUME NEW T \in (SUBSET V) \ {V}
          PROVE  sum(T) = value(T)
      <3>1. PICK u : SumsParts(f, T, u) /\ sum(T) = u[T]
        BY <2>1
      <3>2. u[T] = IF T = {} THEN 0 ELSE f[Pick(T)] + u[T \ {Pick(T)}]
        BY <3>1, PartsOfASum
      <3>3. CASE T = {}
        BY <3>1, <3>2, <3>3
      <3>4. CASE T # {}
        <4> DEFINE less == T \ {Pick(T)}
        <4>1. less \in (SUBSET V) \ {V} /\ less \subseteq T
          BY <3>4, PickIsIn
        <4>2. PICK w : SumsParts(f, less, w) /\ sum(less) = w[less]
          BY <2>1, <4>1
        <4>3. IsFiniteSet(less)
          BY <4>1, FS_Subset
        <4>4. u[less] = w[less]
          BY <3>1, <4>1, <4>2, <4>3, OneSum
        <4>5. QED
          BY <3>1, <3>2, <3>4, <4>2, <4>4
      <3>5. QED
        BY <3>3, <3>4
    <2> HIDE DEF sum
    <2>3. \A T \in SUBSET V : T # {} => total[T \ {Pick(T)}] = sum(T \ {Pick(T)})
      <3>1. ASSUME NEW T \in SUBSET V, T # {}
            PROVE  total[T \ {Pick(T)}] = sum(T \ {Pick(T)})
        <4>1. T \ {Pick(T)} \in (SUBSET V) \ {V}
          BY <3>1, PickIsIn
        <4> HIDE DEF value
        <4>2. QED
          BY <2>2, <4>1
      <3>2. QED
        BY <3>1
    <2>4. total = [T \in SUBSET V |->
                     IF T = {} THEN 0 ELSE f[Pick(T)] + total[T \ {Pick(T)}]]
      <3>1. \A T \in SUBSET V :
              value(T) = IF T = {} THEN 0 ELSE f[Pick(T)] + total[T \ {Pick(T)}]
        BY <2>3
      <3>2. PICK t : t = total
        OBVIOUS
      <3> HIDE DEF total
      <3>3. \A T \in SUBSET V :
              value(T) = IF T = {} THEN 0 ELSE f[Pick(T)] + t[T \ {Pick(T)}]
        BY <3>1, <3>2
      <3>4. t = [T \in SUBSET V |-> value(T)]
        BY <3>2 DEF total
      <3> HIDE DEF value
      <3>5. t = [T \in SUBSET V |->
                   IF T = {} THEN 0 ELSE f[Pick(T)] + t[T \ {Pick(T)}]]
        BY <3>3, <3>4
      <3>6. QED
        BY <3>2, <3>5
    <2>5. SumsParts(f, V, total)
      BY <2>4 DEF SumsParts
    <2>6. QED
      BY <2>5
  <1> HIDE DEF P
  <1>2. SUBSET S \subseteq P
    BY <1>1, SubsetInduction
  <1>3. QED
    BY <1>2 DEF P

(* A sum is one of its terms and the sum of the others.                    *)
LEMMA SumByPick ==
  ASSUME NEW f, NEW S, IsFiniteSet(S)
  PROVE  SumFunctionOnSet(f, S) =
           IF S = {} THEN 0
           ELSE f[Pick(S)] + SumFunctionOnSet(f, S \ {Pick(S)})
  <1> DEFINE T == S \ {Pick(S)}
             t == CHOOSE total : SumsParts(f, S, total)
             u == CHOOSE total : SumsParts(f, T, total)
  <1>1. IsFiniteSet(T) /\ T \subseteq S
    BY FS_Subset
  <1>2. SumsParts(f, S, t) /\ SumsParts(f, T, u)
    BY <1>1, SumExists
  <1>3. SumFunctionOnSet(f, S) = t[S] /\ SumFunctionOnSet(f, T) = u[T]
    BY SumIsARecursion
  <1> HIDE DEF t, u
  <1>4. t[S] = IF S = {} THEN 0 ELSE f[Pick(S)] + t[T]
    BY <1>2, PartsOfASum
  <1>5. t[T] = u[T]
    BY <1>1, <1>2, OneSum
  <1>6. QED
    BY <1>3, <1>4, <1>5

(* A sum does not depend on which term is taken first.                     *)
LEMMA SumRemove ==
  ASSUME NEW f, NEW S, IsFiniteSet(S), \A x \in S : f[x] \in Int
  PROVE  /\ SumFunctionOnSet(f, S) \in Int
         /\ \A x \in S : SumFunctionOnSet(f, S) = f[x] + SumFunctionOnSet(f, S \ {x})
  <1> DEFINE sum(T) == SumFunctionOnSet(f, T)
             P == {T \in SUBSET S : /\ sum(T) \in Int
                                    /\ \A x \in T : sum(T) = f[x] + sum(T \ {x})}
  <1>1. \A T \in SUBSET S :
          sum(T) = IF T = {} THEN 0 ELSE f[Pick(T)] + sum(T \ {Pick(T)})
    BY SumByPick, FS_Subset
  <1> HIDE DEF sum
  <1>2. ASSUME NEW V \in SUBSET S, (SUBSET V) \ {V} \subseteq P
        PROVE  V \in P
    <2>1. CASE V = {}
      <3>1. sum({}) = 0
        BY <1>1
      <3>2. QED
        BY <2>1, <3>1
    <2>2. CASE V # {}
      <3> DEFINE y == Pick(V)
      <3>1. y \in V /\ sum(V) = f[y] + sum(V \ {y})
        BY <1>1, <2>2, PickIsIn
      <3> HIDE DEF y
      <3>2. \A z \in V : V \ {z} \in P
        BY <1>2
      <3>3. sum(V) \in Int
        BY <3>1, <3>2
      <3>4. ASSUME NEW x \in V PROVE sum(V) = f[x] + sum(V \ {x})
        <4>1. CASE x = y
          BY <3>1, <4>1
        <4>2. CASE x # y
          <5>1. sum(V \ {y}) = f[x] + sum((V \ {y}) \ {x})
            BY <3>1, <3>2, <4>2
          <5>2. sum(V \ {x}) = f[y] + sum((V \ {x}) \ {y})
            BY <3>1, <3>2, <4>2
          <5>3. (V \ {y}) \ {x} = (V \ {x}) \ {y}
            OBVIOUS
          <5>4. sum((V \ {x}) \ {y}) \in Int
            <6>1. (V \ {x}) \ {y} \in (SUBSET V) \ {V}
              BY <3>1
            <6>2. QED
              BY <1>2, <6>1
          <5>5. f[x] \in Int /\ f[y] \in Int
            BY <3>1
          <5>6. \A a, b, c \in Int : a + (b + c) = b + (a + c)
            OBVIOUS
          <5>7. f[y] + (f[x] + sum((V \ {x}) \ {y})) = f[x] + (f[y] + sum((V \ {x}) \ {y}))
            BY <5>4, <5>5, <5>6
          <5>8. QED
            BY <3>1, <5>1, <5>2, <5>3, <5>7
        <4>3. QED
          BY <4>1, <4>2
      <3>5. QED
        BY <3>3, <3>4
    <2>3. QED
      BY <2>1, <2>2
  <1> HIDE DEF P
  <1>3. SUBSET S \subseteq P
    BY <1>2, SubsetInduction
  <1>4. QED
    BY <1>3 DEF P, sum

LEMMA SumOfNothing == \A f : SumFunctionOnSet(f, {}) = 0
  BY SumByPick, FS_EmptySet

(* Terms that are zero need not be counted.                                *)
LEMMA SumOnPart ==
  ASSUME NEW f, NEW g, NEW S, IsFiniteSet(S), NEW T \in SUBSET S,
         \A x \in T : f[x] \in Int /\ g[x] = f[x],
         \A x \in S \ T : g[x] = 0
  PROVE  SumFunctionOnSet(f, T) = SumFunctionOnSet(g, S)
  <1> DEFINE P == {V \in SUBSET S :
                     SumFunctionOnSet(f, T \cap V) = SumFunctionOnSet(g, V)}
  <1>1. ASSUME NEW V \in SUBSET S, (SUBSET V) \ {V} \subseteq P
        PROVE  V \in P
    <2>1. CASE V = {}
      <3>1. T \cap V = {}
        BY <2>1
      <3>2. QED
        BY <2>1, <3>1, SumOfNothing
    <2>2. CASE V # {}
      <3>1. PICK x : x \in V
        BY <2>2
      <3>2. SumFunctionOnSet(f, T \cap (V \ {x})) = SumFunctionOnSet(g, V \ {x})
        BY <1>1, <3>1
      <3>3. IsFiniteSet(V) /\ IsFiniteSet(T \cap V)
        BY FS_Subset
      <3>4. SumFunctionOnSet(g, V) = g[x] + SumFunctionOnSet(g, V \ {x})
            /\ SumFunctionOnSet(g, V \ {x}) \in Int
        <4>1. \A y \in V : g[y] \in Int
          OBVIOUS
        <4>2. IsFiniteSet(V \ {x})
          BY <3>3, FS_RemoveElement
        <4>3. QED
          BY <3>1, <3>3, <4>1, <4>2, SumRemove
      <3>5. CASE x \in T
        <4>1. \A y \in T \cap V : f[y] \in Int
          OBVIOUS
        <4>2. SumFunctionOnSet(f, T \cap V) = f[x] + SumFunctionOnSet(f, (T \cap V) \ {x})
          BY <3>1, <3>3, <3>5, <4>1, SumRemove
        <4>3. (T \cap V) \ {x} = T \cap (V \ {x})
          OBVIOUS
        <4>4. QED
          BY <3>2, <3>4, <3>5, <4>2, <4>3
      <3>6. CASE x \notin T
        <4>1. T \cap (V \ {x}) = T \cap V
          BY <3>6
        <4>2. g[x] = 0
          BY <3>1, <3>6
        <4>3. \A k \in Int : 0 + k = k
          OBVIOUS
        <4>4. SumFunctionOnSet(g, V) = SumFunctionOnSet(g, V \ {x})
          BY <3>4, <4>2, <4>3
        <4>5. QED
          BY <3>2, <4>1, <4>4
      <3>7. QED
        BY <3>5, <3>6
    <2>3. QED
      BY <2>1, <2>2
  <1> HIDE DEF P
  <1>2. S \in P
    BY <1>1, SubsetInduction
  <1>3. T \cap S = T
    OBVIOUS
  <1>4. QED
    BY <1>2, <1>3 DEF P

LEMMA SumSame ==
  ASSUME NEW f, NEW g, NEW S, IsFiniteSet(S), \A x \in S : f[x] \in Int /\ g[x] = f[x]
  PROVE  SumFunctionOnSet(f, S) = SumFunctionOnSet(g, S)
  <1>1. S \in SUBSET S /\ \A x \in S \ S : g[x] = 0
    OBVIOUS
  <1>2. QED
    BY <1>1, SumOnPart

(* What one term changes by, the sum changes by.                           *)
LEMMA SumChange ==
  ASSUME NEW f, NEW g, NEW S, IsFiniteSet(S), NEW x \in S,
         \A y \in S : f[y] \in Int /\ g[y] \in Int,
         \A y \in S \ {x} : g[y] = f[y]
  PROVE  SumFunctionOnSet(g, S) = (SumFunctionOnSet(f, S) - f[x]) + g[x]
  <1>1. IsFiniteSet(S \ {x})
    BY FS_RemoveElement
  <1>2. SumFunctionOnSet(f, S \ {x}) = SumFunctionOnSet(g, S \ {x})
    BY <1>1, SumSame
  <1>3. SumFunctionOnSet(f, S) = f[x] + SumFunctionOnSet(f, S \ {x})
    BY SumRemove
  <1>4. SumFunctionOnSet(g, S) = g[x] + SumFunctionOnSet(g, S \ {x})
    BY SumRemove
  <1>5. SumFunctionOnSet(f, S \ {x}) \in Int
    BY <1>1, SumRemove
  <1>6. \A a, b, c \in Int : b + c = ((a + c) - a) + b
    OBVIOUS
  <1>7. f[x] \in Int /\ g[x] \in Int
    OBVIOUS
  <1>8. QED
    BY <1>2, <1>3, <1>4, <1>5, <1>6, <1>7

(* A sum of naturals is one, and no smaller than any of its terms.         *)
LEMMA SumOfNaturals ==
  ASSUME NEW f, NEW S, IsFiniteSet(S), \A x \in S : f[x] \in Nat
  PROVE  /\ SumFunctionOnSet(f, S) \in Nat
         /\ \A x \in S : f[x] <= SumFunctionOnSet(f, S)
  <1> DEFINE P == {V \in SUBSET S : SumFunctionOnSet(f, V) \in Nat}
  <1>1. ASSUME NEW V \in SUBSET S, (SUBSET V) \ {V} \subseteq P
        PROVE  V \in P
    <2>1. CASE V = {}
      BY <2>1, SumOfNothing
    <2>2. CASE V # {}
      <3>1. PICK x : x \in V
        BY <2>2
      <3>2. SumFunctionOnSet(f, V \ {x}) \in Nat /\ f[x] \in Nat
        BY <1>1, <3>1
      <3>3. IsFiniteSet(V) /\ \A y \in V : f[y] \in Int
        BY FS_Subset
      <3>4. SumFunctionOnSet(f, V) = f[x] + SumFunctionOnSet(f, V \ {x})
        BY <3>1, <3>3, SumRemove
      <3>5. QED
        BY <3>2, <3>4
    <2>3. QED
      BY <2>1, <2>2
  <1> HIDE DEF P
  <1>2. SUBSET S \subseteq P
    BY <1>1, SubsetInduction
  <1>3. ASSUME NEW x \in S PROVE f[x] <= SumFunctionOnSet(f, S)
    <2>1. SumFunctionOnSet(f, S \ {x}) \in Nat /\ f[x] \in Nat
      BY <1>2 DEF P
    <2>2. SumFunctionOnSet(f, S) = f[x] + SumFunctionOnSet(f, S \ {x})
      BY SumRemove
    <2>3. QED
      BY <2>1, <2>2
  <1>4. QED
    BY <1>2, <1>3 DEF P

LEMMA CountIsASum ==
  ASSUME NEW f, NEW S, IsFiniteSet(S), \A x \in S : f[x] = 1
  PROVE  Cardinality(S) = SumFunctionOnSet(f, S)
  <1> DEFINE P == {V \in SUBSET S : Cardinality(V) = SumFunctionOnSet(f, V)}
  <1>1. ASSUME NEW V \in SUBSET S, (SUBSET V) \ {V} \subseteq P
        PROVE  V \in P
    <2>1. CASE V = {}
      BY <2>1, SumOfNothing, FS_EmptySet
    <2>2. CASE V # {}
      <3>1. PICK x : x \in V
        BY <2>2
      <3>2. Cardinality(V \ {x}) = SumFunctionOnSet(f, V \ {x}) /\ f[x] = 1
        BY <1>1, <3>1
      <3>3. IsFiniteSet(V) /\ \A y \in V : f[y] \in Int
        BY FS_Subset
      <3>4. SumFunctionOnSet(f, V) = f[x] + SumFunctionOnSet(f, V \ {x})
        BY <3>1, <3>3, SumRemove
      <3>5. Cardinality(V \ {x}) = Cardinality(V) - 1 /\ Cardinality(V) \in Nat
        BY <3>1, <3>3, FS_RemoveElement, FS_CardinalityType
      <3>6. \A a \in Nat : \A b : b = a - 1 => a = 1 + b
        OBVIOUS
      <3>7. Cardinality(V) = 1 + Cardinality(V \ {x})
        BY <3>5, <3>6
      <3>8. QED
        BY <3>2, <3>4, <3>7
    <2>3. QED
      BY <2>1, <2>2
  <1> HIDE DEF P
  <1>2. S \in P
    BY <1>1, SubsetInduction
  <1>3. QED
    BY <1>2 DEF P

(* A sum may be taken over names of what it is over.                       *)
LEMMA SumByNames ==
  ASSUME NEW f, NEW g, NEW b, NEW S, IsFiniteSet(S),
         \A x \in S : g[x] \in Int /\ g[x] = f[b[x]],
         \A x, y \in S : b[x] = b[y] => x = y,
         NEW T, T = {b[x] : x \in S}
  PROVE  /\ IsFiniteSet(T)
         /\ SumFunctionOnSet(g, S) = SumFunctionOnSet(f, T)
         /\ Cardinality(T) = Cardinality(S)
  <1> DEFINE Named(V) == {b[x] : x \in V}
             P == {V \in SUBSET S :
                     /\ IsFiniteSet(Named(V))
                     /\ SumFunctionOnSet(g, V) = SumFunctionOnSet(f, Named(V))
                     /\ Cardinality(Named(V)) = Cardinality(V)}
  <1>1. ASSUME NEW V \in SUBSET S, (SUBSET V) \ {V} \subseteq P
        PROVE  V \in P
    <2>1. CASE V = {}
      <3>1. Named(V) = {}
        BY <2>1
      <3>2. QED
        BY <2>1, <3>1, SumOfNothing, FS_EmptySet
    <2>2. CASE V # {}
      <3>1. PICK x : x \in V
        BY <2>2
      <3> DEFINE W == V \ {x}
      <3>2. W \in P
        BY <1>1, <3>1
      <3>3. IsFiniteSet(V) /\ \A y \in V : g[y] \in Int
        BY FS_Subset
      <3>4. SumFunctionOnSet(g, V) = g[x] + SumFunctionOnSet(g, W)
        BY <3>1, <3>3, SumRemove
      <3>5. Named(V) = Named(W) \cup {b[x]} /\ b[x] \notin Named(W)
        BY <3>1
      <3>6. /\ IsFiniteSet(Named(V))
            /\ Cardinality(Named(V)) = Cardinality(Named(W)) + 1
        <4>1. IsFiniteSet(Named(W)) /\ b[x] \notin Named(W)
          BY <3>2, <3>5
        <4> HIDE DEF Named
        <4>2. /\ IsFiniteSet(Named(W) \cup {b[x]})
              /\ Cardinality(Named(W) \cup {b[x]}) = Cardinality(Named(W)) + 1
          BY <4>1, FS_AddElement
        <4>3. QED
          BY <3>5, <4>2
      <3>7. Cardinality(V) = Cardinality(W) + 1
        <4>1. Cardinality(V \ {x}) = Cardinality(V) - 1 /\ Cardinality(V) \in Nat
          BY <3>1, <3>3, FS_RemoveElement, FS_CardinalityType
        <4>2. \A i \in Nat : \A k : k = i - 1 => i = k + 1
          OBVIOUS
        <4>3. QED
          BY <4>1, <4>2
      <3>8. SumFunctionOnSet(f, Named(V)) = f[b[x]] + SumFunctionOnSet(f, Named(W))
        <4>1. \A z \in Named(V) : f[z] \in Int
          OBVIOUS
        <4>2. Named(V) \ {b[x]} = Named(W) /\ b[x] \in Named(V)
          BY <3>5
        <4>3. SumFunctionOnSet(f, Named(V)) = f[b[x]] + SumFunctionOnSet(f, Named(V) \ {b[x]})
          BY <3>6, <4>1, <4>2, SumRemove
        <4>4. QED
          BY <4>2, <4>3
      <3>9. g[x] = f[b[x]]
        BY <3>1
      <3>10. QED
        BY <3>2, <3>4, <3>6, <3>7, <3>8, <3>9
    <2>3. QED
      BY <2>1, <2>2
  <1> HIDE DEF P
  <1>2. S \in P
    BY <1>1, SubsetInduction
  <1>3. Named(S) = T
    OBVIOUS
  <1> HIDE DEF Named
  <1>4. QED
    BY <1>2, <1>3 DEF P

=============================================================================
