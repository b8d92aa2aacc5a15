------------------------- MODULE Subsequences_proofs -------------------------
(***************************************************************************)
(* Every index that is kept has a place of its own, so that Picked loses    *)
(* and invents nothing.                                                     *)
(***************************************************************************)
EXTENDS Subsequences, SequenceTheorems, FunctionTheorems, FiniteSetTheorems, TLAPS

LEMMA KeptFinite ==
  ASSUME NEW S, NEW list \in Seq(S), NEW kept \in SUBSET (DOMAIN list)
  PROVE  IsFiniteSet(kept) /\ Cardinality(kept) \in Nat /\ kept \subseteq Nat
<1>1. Len(list) \in Nat /\ DOMAIN list = 1..Len(list)
  BY LenProperties
<1>2. IsFiniteSet(1..Len(list))
  BY <1>1, FS_Interval
<1>3. IsFiniteSet(kept)
  BY <1>1, <1>2, FS_Subset
<1>4. QED
  BY <1>1, <1>3, FS_CardinalityType

\* An index has a place among the kept ones, which no other has.
LEMMA PlaceIsOwn ==
  ASSUME NEW kept \in SUBSET Nat, IsFiniteSet(kept), NEW i \in kept
  PROVE  /\ Place(kept, i) \in 1..Cardinality(kept)
         /\ \A j \in kept : j < i => Place(kept, j) # Place(kept, i)
<1> DEFINE upto(x) == {h \in kept : h <= x}
<1>1. ASSUME NEW x \in kept
      PROVE  IsFiniteSet(upto(x)) /\ Cardinality(upto(x)) <= Cardinality(kept)
  BY FS_Subset
<1>2. i \in upto(i)
  OBVIOUS
<1>3. Cardinality(upto(i)) \in Nat /\ Cardinality(kept) \in Nat /\ Cardinality(upto(i)) # 0
  BY <1>1, <1>2, FS_CardinalityType, FS_EmptySet
<1>4. ASSUME NEW j \in kept, j < i PROVE Cardinality(upto(j)) # Cardinality(upto(i))
  <2>1. \A h \in kept : h <= j => h <= i
    BY <1>4, kept \subseteq Nat
  <2>2. upto(j) \in SUBSET upto(i)
    BY <2>1
  <2>3. i \notin upto(j)
    BY <1>4, kept \subseteq Nat
  <2>4. QED
    BY <1>1, <1>2, <2>2, <2>3, FS_Subset
<1>5. QED
  BY <1>1, <1>3, <1>4 DEF Place

\* The places of the kept indexes are 1..Cardinality(kept), each taken once.
LEMMA PlacesTaken ==
  ASSUME NEW kept \in SUBSET Nat, IsFiniteSet(kept), NEW k \in 1..Cardinality(kept)
  PROVE  \E i \in kept : Place(kept, i) = k
<1> DEFINE n == Cardinality(kept)
           f == [i \in kept |-> Place(kept, i)]
<1>1. n \in Nat /\ IsFiniteSet(1..n) /\ Cardinality(1..n) = n
  BY FS_CardinalityType, FS_Interval
<1>2. f \in [kept -> 1..n]
  BY PlaceIsOwn
<1>3. ASSUME NEW i \in kept, NEW j \in kept, f[i] = f[j] PROVE i = j
  <2>1. ~(i < j) /\ ~(j < i)
    BY <1>3, PlaceIsOwn
  <2>2. QED
    BY <2>1
<1>4. f \in Injection(kept, 1..n)
  BY <1>2, <1>3 DEF Injection, IsInjective
<1>5. f \in Surjection(kept, 1..n)
  BY <1>1, <1>4, FS_Injection
<1>6. QED
  BY <1>5 DEF Surjection

\* Picked is a list of what stands at the kept indexes, no more and no less.
THEOREM PickedProperties ==
  ASSUME NEW S, NEW list \in Seq(S), NEW kept \in SUBSET (DOMAIN list)
  PROVE  /\ Picked(list, kept) \in Seq(S)
         /\ \A k \in DOMAIN Picked(list, kept) : \E i \in kept : Picked(list, kept)[k] = list[i]
         /\ \A i \in kept : \E k \in DOMAIN Picked(list, kept) : Picked(list, kept)[k] = list[i]
<1> DEFINE n == Cardinality(kept)
           index(k) == CHOOSE i \in kept : Place(kept, i) = k
<1>1. IsFiniteSet(kept) /\ n \in Nat /\ kept \subseteq Nat
  BY KeptFinite
<1>2. \A k \in 1..n : index(k) \in kept /\ Place(kept, index(k)) = k
  BY <1>1, PlacesTaken
<1>3. \A i \in kept : list[i] \in S
  BY LenProperties, ElementOfSeq
<1>4. Picked(list, kept) \in [1..n -> S]
  BY <1>2, <1>3 DEF Picked
<1>5. Picked(list, kept) \in Seq(S)
  BY <1>1, <1>4
<1>6. \A k \in 1..n : Picked(list, kept)[k] = list[index(k)]
  BY DEF Picked
<1>7. ASSUME NEW i \in kept PROVE \E k \in 1..n : Picked(list, kept)[k] = list[i]
  <2>1. Place(kept, i) \in 1..n
    BY <1>1, PlaceIsOwn
  <2>2. ASSUME NEW j \in kept, Place(kept, j) = Place(kept, i) PROVE j = i
    <3>1. ~(i < j) /\ ~(j < i)
      BY <1>1, <2>2, PlaceIsOwn
    <3>2. QED
      BY <1>1, <3>1
  <2>3. index(Place(kept, i)) = i
    BY <1>2, <2>1, <2>2
  <2>4. QED
    BY <1>6, <2>1, <2>3
<1>8. DOMAIN Picked(list, kept) = 1..n
  BY DEF Picked
<1>9. QED
  BY <1>2, <1>5, <1>6, <1>7, <1>8

\* What stands at different indexes is different in Picked too.
THEOREM PickedApart ==
  ASSUME NEW S, NEW list \in Seq(S), NEW kept \in SUBSET (DOMAIN list),
         \A i, j \in kept : list[i] = list[j] => i = j
  PROVE  \A k, l \in DOMAIN Picked(list, kept) :
             Picked(list, kept)[k] = Picked(list, kept)[l] => k = l
<1> DEFINE n == Cardinality(kept)
           index(k) == CHOOSE i \in kept : Place(kept, i) = k
<1>1. IsFiniteSet(kept) /\ n \in Nat /\ kept \subseteq Nat
  BY KeptFinite
<1>2. \A k \in 1..n : index(k) \in kept /\ Place(kept, index(k)) = k
  BY <1>1, PlacesTaken
<1>3. DOMAIN Picked(list, kept) = 1..n /\ \A k \in 1..n : Picked(list, kept)[k] = list[index(k)]
  BY DEF Picked
<1> HIDE DEF index, n
<1>4. ASSUME NEW k \in 1..n, NEW l \in 1..n, Picked(list, kept)[k] = Picked(list, kept)[l]
      PROVE  k = l
  <2>1. index(k) = index(l)
    BY <1>2, <1>3, <1>4
  <2>2. QED
    BY <1>2, <2>1
<1>5. QED
  BY <1>3, <1>4

-----------------------------------------------------------------------------
(* What stands in a list, when it is read or changed.                       *)

LEMMA InOf ==
  ASSUME NEW S, NEW list \in Seq(S)
  PROVE  In(list) \subseteq S
BY ElementOfSeq, LenProperties DEF In

LEMMA InAppend ==
  ASSUME NEW S, NEW list \in Seq(S), NEW e \in S
  PROVE  Append(list, e) \in Seq(S) /\ In(Append(list, e)) = In(list) \cup {e}
<1>1. /\ Append(list, e) \in Seq(S) /\ Len(Append(list, e)) = Len(list) + 1
      /\ \A i \in 1..Len(list) : Append(list, e)[i] = list[i]
      /\ Append(list, e)[Len(list) + 1] = e
  BY AppendProperties
<1>2. DOMAIN list = 1..Len(list) /\ Len(list) \in Nat /\ DOMAIN Append(list, e) = 1..(Len(list) + 1)
  BY <1>1, LenProperties
<1>3. 1..(Len(list) + 1) = 1..Len(list) \cup {Len(list) + 1}
  BY <1>2
<1>4. QED
  BY <1>1, <1>2, <1>3 DEF In

LEMMA InPicked ==
  ASSUME NEW S, NEW list \in Seq(S), NEW kept \in SUBSET (DOMAIN list)
  PROVE  Picked(list, kept) \in Seq(S) /\ In(Picked(list, kept)) = {list[i] : i \in kept}
BY PickedProperties DEF In

LEMMA InConcat ==
  ASSUME NEW S, NEW s \in Seq(S), NEW t \in Seq(S)
  PROVE  s \o t \in Seq(S) /\ In(s \o t) = In(s) \cup In(t)
<1> DEFINE n == Len(s) + Len(t)
           both == s \o t
<1>1. /\ both \in Seq(S) /\ Len(both) = Len(s) + Len(t)
      /\ \A i \in 1..(Len(s) + Len(t)) : both[i] = IF i <= Len(s) THEN s[i] ELSE t[i - Len(s)]
  BY ConcatProperties
<1>2. /\ Len(s) \in Nat /\ Len(t) \in Nat /\ DOMAIN s = 1..Len(s) /\ DOMAIN t = 1..Len(t)
      /\ DOMAIN both = 1..n
  BY <1>1, LenProperties
<1>3. \A i \in 1..Len(s) : i \in 1..n /\ both[i] = s[i]
  BY <1>1, <1>2
<1>4. \A i \in 1..Len(t) : i + Len(s) \in 1..n /\ both[i + Len(s)] = t[i]
  BY <1>1, <1>2
<1>5. \A i \in 1..n : \/ i \in 1..Len(s) /\ both[i] = s[i]
                      \/ i - Len(s) \in 1..Len(t) /\ both[i] = t[i - Len(s)]
  BY <1>1, <1>2
<1> HIDE DEF n, both
<1>6. In(both) \subseteq In(s) \cup In(t)
  BY <1>2, <1>5 DEF In
<1>7. In(s) \subseteq In(both)
  BY <1>2, <1>3 DEF In
<1>8. In(t) \subseteq In(both)
  <2>1. ASSUME NEW i \in 1..Len(t) PROVE t[i] \in In(both)
    BY <1>2, <1>4 DEF In
  <2>2. QED
    BY <1>2, <2>1 DEF In
<1>9. QED
  BY <1>1, <1>6, <1>7, <1>8 DEF both

LEMMA InTail ==
  ASSUME NEW S, NEW list \in Seq(S), list # <<>>
  PROVE  /\ Head(list) \in S /\ Tail(list) \in Seq(S)
         /\ In(list) = In(Tail(list)) \cup {Head(list)}
<1>1. Len(list) \in Nat \ {0} /\ DOMAIN list = 1..Len(list)
  BY EmptySeq, LenProperties
<1> DEFINE rest == Tail(list)
           m == Len(list) - 1
<1>2. Head(list) \in S /\ rest \in Seq(S) /\ Len(rest) = m /\ Head(list) = list[1]
  BY HeadTailProperties
<1>3. \A i \in 1..m : rest[i] = list[i + 1]
  BY <1>2, HeadTailProperties
<1>4. DOMAIN rest = 1..m
  BY <1>2, LenProperties
<1>5. \A i \in 1..m : i + 1 \in 1..Len(list)
  BY <1>1
<1>6. \A i \in 1..Len(list) : i = 1 \/ (i - 1 \in 1..m /\ list[i] = rest[i - 1])
  BY <1>1, <1>3
<1>7. 1 \in 1..Len(list)
  BY <1>1
<1> HIDE DEF rest, m
<1>8. In(rest) \subseteq In(list)
  <2>1. ASSUME NEW i \in 1..m PROVE rest[i] \in In(list)
    BY <1>1, <1>3, <1>5 DEF In
  <2>2. QED
    BY <1>4, <2>1 DEF In
<1>9. list[1] \in In(list)
  BY <1>1, <1>7 DEF In
<1>10. In(list) \subseteq In(rest) \cup {list[1]}
  BY <1>1, <1>4, <1>6 DEF In
<1>11. QED
  BY <1>2, <1>8, <1>9, <1>10 DEF rest
=============================================================================
