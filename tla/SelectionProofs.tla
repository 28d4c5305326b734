---------------------------- MODULE SelectionProofs ----------------------------
(***************************************************************************)
(* That a selection keeps exactly the chosen elements, each once and in the   *)
(* order they were in.                                                       *)
(***************************************************************************)
EXTENDS Selection, FiniteSetTheorems, SequenceTheorems, WellFoundedInduction, TLAPS

(* A nonempty set of naturals has a least element.                          *)
LEMMA LeastNatural ==
    ASSUME NEW S, S \subseteq Nat, S # {}
    PROVE  \E k \in S : \A j \in S : k <= j
<1>1. PICK x \in S : \A y \in S : <<y, x>> \notin OpToRel(<, Nat)
  BY NatLessThanWellFounded, WFMin
<1>2. \A y \in S : ~(y < x)
  BY <1>1 DEF OpToRel
<1>3. QED
  BY <1>2

(* Ranks count from 1 without a gap, and grow with the places.               *)
LEMMA Ranks ==
    ASSUME NEW n \in Nat, NEW places \in SUBSET (1 .. n)
    PROVE  /\ IsFiniteSet(places)
           /\ Cardinality(places) \in 0 .. n
           /\ \A k \in places : Rank(places, k) \in 1 .. Cardinality(places)
           /\ \A j, k \in places : j < k => Rank(places, j) < Rank(places, k)
           /\ \A i \in 1 .. Cardinality(places) : \E k \in places : Rank(places, k) = i
<1> DEFINE upTo(k) == {j \in places : j <= k}
           rank == [k \in places |-> Rank(places, k)]
           ranks == 1 .. Cardinality(places)
<1>1. IsFiniteSet(1 .. n) /\ Cardinality(1 .. n) = n
  BY FS_Interval
<1>2. IsFiniteSet(places) /\ Cardinality(places) \in Nat /\ Cardinality(places) <= n
  BY <1>1, FS_Subset, FS_CardinalityType
<1>3. \A k \in places : Rank(places, k) \in ranks
  <2> SUFFICES ASSUME NEW k \in places PROVE Rank(places, k) \in ranks
    OBVIOUS
  <2>1. upTo(k) \in SUBSET places /\ k \in upTo(k)
    OBVIOUS
  <2>2. IsFiniteSet(upTo(k)) /\ Cardinality(upTo(k)) <= Cardinality(places)
    BY <1>2, <2>1, FS_Subset
  <2>3. Cardinality(upTo(k)) \in Nat /\ Cardinality(upTo(k)) # 0
    BY <2>1, <2>2, FS_CardinalityType, FS_EmptySet
  <2> QED
    BY <1>2, <2>2, <2>3 DEF Rank
<1>4. \A j, k \in places : j < k => Rank(places, j) < Rank(places, k)
  <2> SUFFICES ASSUME NEW j \in places, NEW k \in places, j < k
               PROVE  Rank(places, j) < Rank(places, k)
    OBVIOUS
  <2>0. j \in Nat /\ k \in Nat /\ \A i \in places : i \in Nat
    OBVIOUS
  <2>1. upTo(j) \in SUBSET upTo(k)
    <3>1. \A i \in places : i <= j => i <= k
      BY <2>0
    <3> QED
      BY <3>1
  <2>2. k <= k /\ ~(k <= j)
    BY <2>0
  <2>3. k \in upTo(k) /\ k \notin upTo(j)
    BY <2>2
  <2>4. upTo(k) \in SUBSET places
    OBVIOUS
  <2>5. IsFiniteSet(upTo(k))
    BY <1>2, <2>4, FS_Subset
  <2>6. /\ Cardinality(upTo(j)) <= Cardinality(upTo(k))
        /\ Cardinality(upTo(k)) # Cardinality(upTo(j))
    BY <2>1, <2>3, <2>5, FS_Subset
  <2>7. Rank(places, j) <= Rank(places, k) /\ Rank(places, j) # Rank(places, k)
    BY <2>6 DEF Rank
  <2> QED
    BY <1>3, <2>7
<1>5. rank \in Injection(places, ranks)
  BY <1>3, <1>4 DEF Injection, IsInjective
<1>6. IsFiniteSet(ranks) /\ Cardinality(ranks) = Cardinality(places)
  BY <1>2, FS_Interval
<1>7. rank \in Surjection(places, ranks)
  BY <1>5, <1>6, FS_Injection
<1>8. \A i \in ranks : \E k \in places : Rank(places, k) = i
  BY <1>7 DEF Surjection
<1> QED
  BY <1>2, <1>3, <1>4, <1>8

(* The i-th place is the one with that rank, and later places come later.    *)
LEMMA PlacesInOrder ==
    ASSUME NEW n \in Nat, NEW places \in SUBSET (1 .. n)
    PROVE  /\ \A i \in 1 .. Cardinality(places) :
                 Place(places, i) \in places /\ Rank(places, Place(places, i)) = i
           /\ \A k \in places : Place(places, Rank(places, k)) = k
           /\ \A i, j \in 1 .. Cardinality(places) : i < j => Place(places, i) < Place(places, j)
<1>1. /\ \A k \in places : Rank(places, k) \in 1 .. Cardinality(places)
      /\ \A j, k \in places : j < k => Rank(places, j) < Rank(places, k)
      /\ \A i \in 1 .. Cardinality(places) : \E k \in places : Rank(places, k) = i
      /\ Cardinality(places) \in Nat
      /\ \A k \in places : k \in Nat
  BY Ranks
<1>2. \A i \in 1 .. Cardinality(places) :
          Place(places, i) \in places /\ Rank(places, Place(places, i)) = i
  BY <1>1 DEF Place
<1>3. \A j, k \in places : Rank(places, j) = Rank(places, k) => j = k
  <2> SUFFICES ASSUME NEW j \in places, NEW k \in places, Rank(places, j) = Rank(places, k)
               PROVE  j = k
    OBVIOUS
  <2>1. ~(j < k) /\ ~(k < j)
    BY <1>1
  <2> QED
    BY <1>1, <2>1
<1>4. \A k \in places : Place(places, Rank(places, k)) = k
  BY <1>1, <1>2, <1>3
<1>5. \A i, j \in 1 .. Cardinality(places) : i < j => Place(places, i) < Place(places, j)
  <2> SUFFICES ASSUME NEW i \in 1 .. Cardinality(places), NEW j \in 1 .. Cardinality(places), i < j
               PROVE  Place(places, i) < Place(places, j)
    OBVIOUS
  <2>1. /\ Place(places, i) \in places /\ Rank(places, Place(places, i)) = i
        /\ Place(places, j) \in places /\ Rank(places, Place(places, j)) = j
    BY <1>2
  <2>0. i \in Nat /\ j \in Nat
    BY <1>1
  <2>2. Place(places, i) \in Nat /\ Place(places, j) \in Nat
    BY <1>1, <2>1
  <2>3. ~(Place(places, j) < Place(places, i))
    <3>1. Place(places, j) < Place(places, i) => j < i
      BY <1>1, <2>1
    <3> QED
      BY <2>0, <2>2, <3>1
  <2> QED
    BY <2>0, <2>1, <2>2, <2>3
<1> QED
  BY <1>2, <1>4, <1>5

(* Each element of `kept` is one of the chosen ones: `from` is where it came  *)
(* from, `to` where each chosen one went, and both keep the order.           *)
KeepsOrder(kept, s, places) ==
    \E from \in [1 .. Len(kept) -> places], to \in [places -> 1 .. Len(kept)] :
        /\ \A i \in 1 .. Len(kept) : kept[i] = s[from[i]] /\ to[from[i]] = i
        /\ \A k \in places : from[to[k]] = k
        /\ \A i, j \in 1 .. Len(kept) : i < j => from[i] < from[j]
        /\ \A j, k \in places : j < k => to[j] < to[k]

(* A selection is a sequence of exactly the chosen elements in their order.  *)
THEOREM SelectedKeepsOrder ==
    ASSUME NEW S, NEW s \in Seq(S), NEW places \in SUBSET (1 .. Len(s))
    PROVE  /\ Selected(s, places) \in Seq(S)
           /\ Len(Selected(s, places)) = Cardinality(places)
           /\ Cardinality(places) <= Len(s)
           /\ places # 1 .. Len(s) => Cardinality(places) < Len(s)
           /\ KeepsOrder(Selected(s, places), s, places)
<1> DEFINE length == Cardinality(places)
           from == [i \in 1 .. length |-> Place(places, i)]
           to == [k \in places |-> Rank(places, k)]
<1>1. Len(s) \in Nat /\ \A i \in 1 .. Len(s) : s[i] \in S
  BY LenProperties, ElementOfSeq
<1>2. length \in 0 .. Len(s)
  BY <1>1, Ranks
<1>3. /\ \A i \in 1 .. length : Place(places, i) \in places /\ Rank(places, Place(places, i)) = i
      /\ \A k \in places : Place(places, Rank(places, k)) = k
      /\ \A i, j \in 1 .. length : i < j => Place(places, i) < Place(places, j)
  BY <1>1, PlacesInOrder
<1>4. /\ \A k \in places : Rank(places, k) \in 1 .. length
      /\ \A j, k \in places : j < k => Rank(places, j) < Rank(places, k)
  BY <1>1, Ranks
<1>5. Selected(s, places) \in [1 .. length -> S]
  BY <1>1, <1>3 DEF Selected
<1>6. Selected(s, places) \in Seq(S) /\ Len(Selected(s, places)) = length
  BY <1>2, <1>5
<1>7. /\ from \in [1 .. length -> places]
      /\ to \in [places -> 1 .. length]
      /\ \A i \in 1 .. length : Selected(s, places)[i] = s[from[i]] /\ to[from[i]] = i
      /\ \A k \in places : from[to[k]] = k
      /\ \A i, j \in 1 .. length : i < j => from[i] < from[j]
      /\ \A j, k \in places : j < k => to[j] < to[k]
  BY <1>3, <1>4 DEF Selected
<1>8. length <= Len(s)
  BY <1>1, <1>2
<1>9. places # 1 .. Len(s) => length < Len(s)
  <2>1. IsFiniteSet(1 .. Len(s)) /\ Cardinality(1 .. Len(s)) = Len(s)
    <3>1. \A n \in Nat : IsFiniteSet(1 .. n) /\ Cardinality(1 .. n) = n
      BY FS_Interval
    <3> QED
      BY <1>1, <3>1
  <2>2. places # 1 .. Len(s) => length # Len(s)
    BY <2>1, FS_Subset
  <2> QED
    BY <1>1, <1>2, <2>2
<1> HIDE DEF from, to
<1>10. KeepsOrder(Selected(s, places), s, places)
  <2> DEFINE kept == Selected(s, places)
  <2>1. length = Len(kept)
    BY <1>6
  <2> HIDE DEF kept, length
  <2>2. /\ from \in [1 .. Len(kept) -> places]
        /\ to \in [places -> 1 .. Len(kept)]
        /\ \A i \in 1 .. Len(kept) : kept[i] = s[from[i]] /\ to[from[i]] = i
        /\ \A k \in places : from[to[k]] = k
        /\ \A i, j \in 1 .. Len(kept) : i < j => from[i] < from[j]
        /\ \A j, k \in places : j < k => to[j] < to[k]
    BY <1>7, <2>1 DEF kept
  <2> SUFFICES \E f \in [1 .. Len(kept) -> places], t \in [places -> 1 .. Len(kept)] :
                   /\ \A i \in 1 .. Len(kept) : kept[i] = s[f[i]] /\ t[f[i]] = i
                   /\ \A k \in places : f[t[k]] = k
                   /\ \A i, j \in 1 .. Len(kept) : i < j => f[i] < f[j]
                   /\ \A j, k \in places : j < k => t[j] < t[k]
    BY DEF KeepsOrder, kept
  <2> USE <2>2
  <2> WITNESS from \in [1 .. Len(kept) -> places], to \in [places -> 1 .. Len(kept)]
  <2> QED
    OBVIOUS
<1> QED
  BY <1>6, <1>8, <1>9, <1>10
=============================================================================
