--------------------------- MODULE CommandCacheProofs ---------------------------
(***************************************************************************)
(* That a command is executed at most once while its receipt should be kept,  *)
(* and that every caller is given the receipt of its own command, for any     *)
(* callers, commands, limits and lifetimes: the inductive invariant CacheInv   *)
(* and what follows from it.                                                *)
(***************************************************************************)
EXTENDS CommandCache, SelectionProofs

(* Everything the history mentions has run, and what is in flight is the last *)
(* run of its command.                                                       *)
RunsOK ==
    /\ Len(runs) <= MaxRuns
    /\ \A id \in CommandIds : inFlight[id] # 0 =>
          /\ inFlight[id] \in DOMAIN runs
          /\ runs[inFlight[id]].id = id
          /\ \A r \in DOMAIN runs : runs[r].id = id => r <= inFlight[id]
    /\ \A r \in DOMAIN runs : runs[r].result = "running" => inFlight[runs[r].id] = r

CallersOK == \A c \in Callers : caller[c] # Idle =>
    /\ caller[c].run \in DOMAIN runs
    /\ runs[caller[c].run].id = caller[c].id
    /\ runs[caller[c].run].content = caller[c].content

(* A receipt is that of an applied run, and ages with its command.           *)
IsReceipt(entry) ==
    /\ entry.run \in DOMAIN runs
    /\ runs[entry.run] = [id |-> entry.id, content |-> entry.content, result |-> "applied"]
    /\ entry.left = Ttl - age[entry.id]

Distinct(entries) == \A i, j \in DOMAIN entries : entries[i].id = entries[j].id => i = j

ReceiptsOK ==
    /\ \A i \in DOMAIN receipts : IsReceipt(receipts[i])
    /\ Distinct(receipts)

(* An entry for the command is there, and all after it are among `others`.   *)
KeptIn(entries, id, others) ==
    \E i \in DOMAIN entries :
        /\ entries[i].id = id
        /\ \A j \in DOMAIN entries : j > i => entries[j].id \in others

IsLast(r) == \A q \in DOMAIN runs : runs[q].id = runs[r].id => q <= r

(* A command whose last run was applied, not too long ago, still has its      *)
(* receipt with only touched ones behind it, or MaxEntries others were        *)
(* touched since.                                                           *)
Covered == \A r \in DOMAIN runs :
    runs[r].result = "applied" /\ IsLast(r) /\ age[runs[r].id] < Ttl =>
        \/ KeptIn(receipts, runs[r].id, touched[runs[r].id])
        \/ Cardinality(touched[runs[r].id]) >= MaxEntries

CacheInv ==
    /\ TypeOK
    /\ \A id \in CommandIds : IsFiniteSet(touched[id])
    /\ RunsOK /\ CallersOK /\ ReceiptsOK /\ Covered

-----------------------------------------------------------------------------
(* What a selection of entries is made of: entries that were chosen, each     *)
(* once, and an entry that is kept if all of its command are chosen.         *)
LEMMA SelectedEntries ==
    ASSUME NEW entries \in Seq(Entry), Distinct(entries),
           NEW places \in SUBSET (1 .. Len(entries))
    PROVE  LET kept == Selected(entries, places)
           IN /\ kept \in Seq(Entry)
              /\ Len(kept) <= Len(entries)
              /\ places # 1 .. Len(entries) => Len(kept) < Len(entries)
              /\ \A i \in 1 .. Len(kept) : \E k \in places : kept[i] = entries[k]
              /\ \A k \in places : \E i \in 1 .. Len(kept) : kept[i] = entries[k]
              /\ Distinct(kept)
              /\ \A id, others :
                    /\ KeptIn(entries, id, others)
                    /\ \A i \in DOMAIN entries : entries[i].id = id => i \in places
                    => KeptIn(kept, id, others)
<1> DEFINE kept == Selected(entries, places)
<1>1. /\ kept \in Seq(Entry)
      /\ Len(kept) <= Len(entries)
      /\ places # 1 .. Len(entries) => Len(kept) < Len(entries)
      /\ KeepsOrder(kept, entries, places)
  BY SelectedKeepsOrder
<1> HIDE DEF kept
<1>2. PICK from \in [1 .. Len(kept) -> places], to \in [places -> 1 .. Len(kept)] :
          /\ \A i \in 1 .. Len(kept) : kept[i] = entries[from[i]] /\ to[from[i]] = i
          /\ \A k \in places : from[to[k]] = k
          /\ \A i, j \in 1 .. Len(kept) : i < j => from[i] < from[j]
          /\ \A j, k \in places : j < k => to[j] < to[k]
  BY <1>1 DEF KeepsOrder
<1>3. DOMAIN kept = 1 .. Len(kept) /\ DOMAIN entries = 1 .. Len(entries)
  BY <1>1
<1>4. \A i \in 1 .. Len(kept) : \E k \in places : kept[i] = entries[k]
  BY <1>2
<1>5. \A k \in places : \E i \in 1 .. Len(kept) : kept[i] = entries[k]
  BY <1>2
<1>6. Distinct(kept)
  <2> SUFFICES ASSUME NEW i \in 1 .. Len(kept), NEW j \in 1 .. Len(kept), kept[i].id = kept[j].id
               PROVE  i = j
    BY <1>3 DEF Distinct
  <2>1. entries[from[i]].id = entries[from[j]].id /\ from[i] \in 1 .. Len(entries)
        /\ from[j] \in 1 .. Len(entries)
    BY <1>2
  <2>2. from[i] = from[j]
    BY <2>1, <1>3 DEF Distinct
  <2> QED
    BY <2>2, <1>2
<1>7. ASSUME NEW id, NEW others, KeptIn(entries, id, others),
             \A i \in DOMAIN entries : entries[i].id = id => i \in places
      PROVE  KeptIn(kept, id, others)
  <2>1. PICK k \in 1 .. Len(entries) :
            /\ entries[k].id = id
            /\ \A j \in 1 .. Len(entries) : j > k => entries[j].id \in others
    BY <1>3, <1>7 DEF KeptIn
  <2>2. k \in places /\ to[k] \in 1 .. Len(kept) /\ kept[to[k]].id = id
    BY <1>2, <1>3, <1>7, <2>1
  <2>3. ASSUME NEW j \in 1 .. Len(kept), j > to[k] PROVE kept[j].id \in others
    <3>1. from[to[k]] < from[j] /\ from[to[k]] = k
      BY <1>2, <2>2, <2>3
    <3>2. from[j] \in 1 .. Len(entries) /\ kept[j] = entries[from[j]]
      BY <1>2
    <3> QED
      BY <2>1, <3>1, <3>2
  <2> QED
    BY <1>3, <2>2, <2>3 DEF KeptIn
<1> QED
  BY <1>1, <1>4, <1>5, <1>6, <1>7 DEF kept

(* Setting a key that is not in the map appends it.                          *)
LEMMA AppendedEntry ==
    ASSUME NEW entries \in Seq(Entry), NEW entry \in Entry, Distinct(entries),
           \A i \in 1 .. Len(entries) : entries[i].id # entry.id
    PROVE  LET longer == Append(entries, entry)
           IN /\ longer \in Seq(Entry)
              /\ Len(longer) = Len(entries) + 1
              /\ \A i \in 1 .. Len(longer) : longer[i] = entry \/ \E k \in 1 .. Len(entries) : longer[i] = entries[k]
              /\ Distinct(longer)
              /\ \A others : KeptIn(longer, entry.id, others)
              /\ \A id, others : KeptIn(entries, id, others) => KeptIn(longer, id, others \cup {entry.id})
<1> DEFINE longer == Append(entries, entry)
<1>1. /\ longer \in Seq(Entry)
      /\ Len(longer) = Len(entries) + 1
      /\ \A i \in 1 .. Len(entries) : longer[i] = entries[i]
      /\ longer[Len(entries) + 1] = entry
      /\ Len(entries) \in Nat
  BY AppendProperties, LenProperties
<1>2. DOMAIN longer = 1 .. Len(longer) /\ DOMAIN entries = 1 .. Len(entries)
  BY <1>1
<1> HIDE DEF longer
<1>3. \A i \in 1 .. Len(longer) : longer[i] = entry \/ \E k \in 1 .. Len(entries) : longer[i] = entries[k]
  BY <1>1
<1>4. Distinct(longer)
  BY <1>1, <1>2 DEF Distinct
<1>5. \A others : KeptIn(longer, entry.id, others)
  BY <1>1, <1>2 DEF KeptIn
<1>6. \A id, others : KeptIn(entries, id, others) => KeptIn(longer, id, others \cup {entry.id})
  BY <1>1, <1>2 DEF KeptIn
<1> QED
  BY <1>1, <1>3, <1>4, <1>5, <1>6 DEF longer

(* #trim gives up an entry only when MaxEntries others are behind it.        *)
LEMMA TrimmedEntries ==
    ASSUME NEW entries \in Seq(Entry), Distinct(entries)
    PROVE  /\ Trim(entries) \in Seq(Entry)
           /\ Len(Trim(entries)) <= MaxEntries
           /\ \A i \in 1 .. Len(Trim(entries)) : \E k \in 1 .. Len(entries) : Trim(entries)[i] = entries[k]
           /\ Distinct(Trim(entries))
           /\ \A id, others : KeptIn(entries, id, others) /\ IsFiniteSet(others) =>
                 KeptIn(Trim(entries), id, others) \/ Cardinality(others) >= MaxEntries
<1> DEFINE first == IF Len(entries) > MaxEntries THEN Len(entries) - MaxEntries + 1 ELSE 1
           kept == Trim(entries)
<1> USE CommandCacheAssumption
<1>1. /\ Len(entries) \in Nat /\ first \in Nat \ {0} /\ first <= Len(entries) + 1
      /\ \A i \in first .. Len(entries) : entries[i] \in Entry
      /\ DOMAIN entries = 1 .. Len(entries)
      /\ Len(entries) - first + 1 <= MaxEntries
      /\ first > 1 => Len(entries) - first + 1 = MaxEntries
  BY ElementOfSeq
<1>2. kept = SubSeq(entries, first, Len(entries))
  BY DEF Trim
<1> HIDE DEF first, kept
<1>3. /\ kept \in Seq(Entry)
      /\ Len(kept) = IF first <= Len(entries) THEN Len(entries) - first + 1 ELSE 0
      /\ \A i \in 1 .. Len(entries) - first + 1 : kept[i] = entries[first + i - 1]
  BY <1>1, <1>2, SubSeqProperties
<1>4. /\ Len(kept) = Len(entries) - first + 1
      /\ \A i \in 1 .. Len(kept) : kept[i] = entries[first + i - 1]
      /\ DOMAIN kept = 1 .. Len(kept)
  BY <1>1, <1>3
<1>5. \A i \in 1 .. Len(kept) : first + i - 1 \in 1 .. Len(entries)
  BY <1>1, <1>4
<1>6. Distinct(kept)
  <2> SUFFICES ASSUME NEW i \in 1 .. Len(kept), NEW j \in 1 .. Len(kept), kept[i].id = kept[j].id
               PROVE  i = j
    BY <1>4 DEF Distinct
  <2>0. /\ entries[first + i - 1].id = entries[first + j - 1].id
        /\ first + i - 1 \in 1 .. Len(entries) /\ first + j - 1 \in 1 .. Len(entries)
    BY <1>4, <1>5
  <2>1. first + i - 1 = first + j - 1
    BY <1>1, <2>0 DEF Distinct
  <2> QED
    BY <1>1, <1>4, <2>1
<1>7. ASSUME NEW id, NEW others, KeptIn(entries, id, others), IsFiniteSet(others)
      PROVE  KeptIn(kept, id, others) \/ Cardinality(others) >= MaxEntries
  <2>1. PICK k \in 1 .. Len(entries) :
            /\ entries[k].id = id
            /\ \A j \in 1 .. Len(entries) : j > k => entries[j].id \in others
    BY <1>1, <1>7 DEF KeptIn
  <2>2. CASE k >= first
    <3>1. /\ k - first + 1 \in 1 .. Len(kept) /\ kept[k - first + 1] = entries[k]
      BY <1>1, <1>4, <2>1, <2>2
    <3>2. \A j \in 1 .. Len(kept) : j > k - first + 1 => kept[j].id \in others
      <4> SUFFICES ASSUME NEW j \in 1 .. Len(kept), j > k - first + 1 PROVE kept[j].id \in others
        OBVIOUS
      <4>1. first + j - 1 \in 1 .. Len(entries) /\ first + j - 1 > k
        BY <1>1, <1>4, <1>5
      <4> QED
        BY <1>4, <2>1, <4>1
    <3> QED
      BY <1>4, <2>1, <3>1, <3>2 DEF KeptIn
  <2>3. CASE k < first
    <3> DEFINE names == [i \in 1 .. MaxEntries |-> entries[first + i - 1].id]
    <3>1. first > 1 /\ Len(kept) = MaxEntries
      BY <1>1, <1>4, <2>3
    <3>2. \A i \in 1 .. MaxEntries : first + i - 1 \in 1 .. Len(entries) /\ first + i - 1 > k
      BY <1>1, <1>5, <2>3, <3>1
    <3>3. \A i \in 1 .. MaxEntries : names[i] \in others
      BY <2>1, <3>2
    <3>4. \A i, j \in 1 .. MaxEntries : names[i] = names[j] => i = j
      <4> SUFFICES ASSUME NEW i \in 1 .. MaxEntries, NEW j \in 1 .. MaxEntries, names[i] = names[j]
                   PROVE  i = j
        OBVIOUS
      <4>1. first + i - 1 = first + j - 1
        BY <1>1, <3>2 DEF Distinct
      <4> QED
        BY <1>1, <4>1
    <3>5. names \in Injection(1 .. MaxEntries, others)
      BY <3>3, <3>4 DEF Injection, IsInjective
    <3>6. Cardinality(1 .. MaxEntries) = MaxEntries /\ Cardinality(others) \in Nat
      BY <1>7, FS_Interval, FS_CardinalityType
    <3>7. Cardinality(1 .. MaxEntries) <= Cardinality(others)
      BY <1>7, <3>5, FS_Injection
    <3> QED
      BY <3>6, <3>7
  <2> QED
    BY <1>1, <2>1, <2>2, <2>3
<1> QED
  BY <1>1, <1>3, <1>4, <1>5, <1>6, <1>7 DEF kept

-----------------------------------------------------------------------------
(* Deleting a command's entry leaves the others; if it was there, one less.  *)
LEMMA WithoutEntries ==
    ASSUME NEW entries \in Seq(Entry), Distinct(entries), NEW id
    PROVE  LET kept == Without(entries, id)
           IN /\ kept \in Seq(Entry)
              /\ Len(kept) <= Len(entries)
              /\ Has(entries, id) => Len(kept) < Len(entries)
              /\ \A i \in 1 .. Len(kept) :
                    kept[i].id # id /\ \E k \in 1 .. Len(entries) : kept[i] = entries[k]
              /\ Distinct(kept)
              /\ \A other, others :
                    other # id /\ KeptIn(entries, other, others) => KeptIn(kept, other, others)
<1> DEFINE kept == Without(entries, id)
           places == {i \in DOMAIN entries : entries[i].id # id}
<1>1. DOMAIN entries = 1 .. Len(entries)
  OBVIOUS
<1>2. places \in SUBSET (1 .. Len(entries)) /\ kept = Selected(entries, places)
  BY <1>1 DEF Without
<1> HIDE DEF kept
<1>3. /\ kept \in Seq(Entry)
      /\ Len(kept) <= Len(entries)
      /\ places # 1 .. Len(entries) => Len(kept) < Len(entries)
      /\ \A i \in 1 .. Len(kept) : \E k \in places : kept[i] = entries[k]
      /\ Distinct(kept)
      /\ \A other, others :
            /\ KeptIn(entries, other, others)
            /\ \A i \in DOMAIN entries : entries[i].id = other => i \in places
            => KeptIn(kept, other, others)
  <2> HIDE DEF places
  <2> QED
    BY <1>2, SelectedEntries
<1>4. Has(entries, id) => Len(kept) < Len(entries)
  BY <1>1, <1>3 DEF Has
<1>5. \A i \in 1 .. Len(kept) :
          kept[i].id # id /\ \E k \in 1 .. Len(entries) : kept[i] = entries[k]
  BY <1>1, <1>3
<1>6. \A other, others :
          other # id /\ KeptIn(entries, other, others) => KeptIn(kept, other, others)
  BY <1>3
<1> QED
  BY <1>3, <1>4, <1>5, <1>6 DEF kept

(* Purging leaves the receipts whose time is not up, so those of commands     *)
(* younger than Ttl.                                                        *)
LEMMA FreshEntries ==
    ASSUME CacheInv
    PROVE  /\ receipts \in Seq(Entry) /\ Len(receipts) \in 0 .. MaxEntries
           /\ DOMAIN receipts = 1 .. Len(receipts)
           /\ Fresh \in Seq(Entry) /\ Len(Fresh) \in 0 .. MaxEntries
           /\ DOMAIN Fresh = 1 .. Len(Fresh)
           /\ \A i \in 1 .. Len(Fresh) :
                 Fresh[i].left > 0 /\ \E k \in 1 .. Len(receipts) : Fresh[i] = receipts[k]
           /\ \A k \in 1 .. Len(receipts) :
                 receipts[k].left > 0 => \E i \in 1 .. Len(Fresh) : Fresh[i] = receipts[k]
           /\ \A i \in 1 .. Len(Fresh) : IsReceipt(Fresh[i])
           /\ Distinct(Fresh)
           /\ \A id, others :
                 KeptIn(receipts, id, others) /\ age[id] < Ttl => KeptIn(Fresh, id, others)
<1> DEFINE places == {i \in DOMAIN receipts : IsFresh(receipts[i])}
<1> USE CommandCacheAssumption
<1>1. /\ receipts \in Seq(Entry) /\ Len(receipts) \in 0 .. MaxEntries
      /\ DOMAIN receipts = 1 .. Len(receipts)
      /\ Distinct(receipts)
      /\ \A i \in 1 .. Len(receipts) : IsReceipt(receipts[i])
  BY LenProperties DEF CacheInv, TypeOK, ReceiptsOK
<1>2. places \in SUBSET (1 .. Len(receipts)) /\ Fresh = Selected(receipts, places)
  BY <1>1 DEF Fresh
<1>3. \A k \in 1 .. Len(receipts) : k \in places <=> receipts[k].left > 0
  BY <1>1 DEF IsFresh
<1>4. \A k \in 1 .. Len(receipts) : age[receipts[k].id] < Ttl => k \in places
  <2> SUFFICES ASSUME NEW k \in 1 .. Len(receipts), age[receipts[k].id] < Ttl
               PROVE  receipts[k].left > 0
    BY <1>3
  <2>1. receipts[k] \in Entry
    BY <1>1, ElementOfSeq
  <2>2. receipts[k].id \in CommandIds /\ age[receipts[k].id] \in 0 .. Ttl
    BY <2>1 DEF Entry, CacheInv, TypeOK
  <2>3. receipts[k].left = Ttl - age[receipts[k].id]
    BY <1>1 DEF IsReceipt
  <2> QED
    BY <2>2, <2>3
<1> HIDE DEF places
<1>5. /\ Fresh \in Seq(Entry)
      /\ Len(Fresh) <= Len(receipts)
      /\ \A i \in 1 .. Len(Fresh) : \E k \in places : Fresh[i] = receipts[k]
      /\ \A k \in places : \E i \in 1 .. Len(Fresh) : Fresh[i] = receipts[k]
      /\ Distinct(Fresh)
      /\ \A id, others :
            /\ KeptIn(receipts, id, others)
            /\ \A i \in DOMAIN receipts : receipts[i].id = id => i \in places
            => KeptIn(Fresh, id, others)
  BY <1>1, <1>2, SelectedEntries
<1>6. Len(Fresh) \in 0 .. MaxEntries /\ DOMAIN Fresh = 1 .. Len(Fresh)
  BY <1>1, <1>5
<1>7. \A i \in 1 .. Len(Fresh) :
          Fresh[i].left > 0 /\ \E k \in 1 .. Len(receipts) : Fresh[i] = receipts[k]
  BY <1>2, <1>3, <1>5
<1>8. \A k \in 1 .. Len(receipts) :
          receipts[k].left > 0 => \E i \in 1 .. Len(Fresh) : Fresh[i] = receipts[k]
  BY <1>3, <1>5
<1>9. \A i \in 1 .. Len(Fresh) : IsReceipt(Fresh[i])
  BY <1>1, <1>7
<1>10. \A id, others :
          KeptIn(receipts, id, others) /\ age[id] < Ttl => KeptIn(Fresh, id, others)
  BY <1>1, <1>4, <1>5
<1> QED
  BY <1>1, <1>5, <1>6, <1>7, <1>8, <1>9, <1>10

(* What a hit answers with is the fresh entry of the command.                *)
LEMMA FoundEntry ==
    ASSUME NEW entries, NEW id, Has(entries, id)
    PROVE  /\ Get(entries, id).id = id
           /\ \E i \in DOMAIN entries : Get(entries, id) = entries[i]
<1>1. \E entry \in {entries[i] : i \in DOMAIN entries} : entry.id = id
  BY DEF Has
<1>2. Get(entries, id) \in {entries[i] : i \in DOMAIN entries} /\ Get(entries, id).id = id
  BY <1>1 DEF Get
<1> QED
  BY <1>2

(* Touching one more command never makes the touched ones fewer.             *)
LEMMA TouchedGrow ==
    ASSUME NEW others, IsFiniteSet(others), NEW id
    PROVE  /\ IsFiniteSet(others \cup {id})
           /\ Cardinality(others) \in Nat /\ Cardinality(others \cup {id}) \in Nat
           /\ Cardinality(others) <= Cardinality(others \cup {id})
<1>1. /\ IsFiniteSet(others \cup {id})
      /\ Cardinality(others \cup {id}) = IF id \in others THEN Cardinality(others)
                                           ELSE Cardinality(others) + 1
  BY FS_AddElement
<1>2. Cardinality(others) \in Nat
  BY FS_CardinalityType
<1> QED
  BY <1>1, <1>2

(* A step that purges, and changes neither applied runs nor what is touched.  *)
LEMMA PurgeKeeps ==
    ASSUME CacheInv, receipts' = Fresh, UNCHANGED <<age, touched>>,
           \A r \in DOMAIN runs : runs[r].result = "applied" => r \in DOMAIN runs' /\ runs'[r] = runs[r],
           \A r \in DOMAIN runs' : runs'[r].result = "applied" /\ IsLast(r)' =>
              r \in DOMAIN runs /\ runs'[r] = runs[r] /\ IsLast(r)
    PROVE  ReceiptsOK' /\ Covered'
<1>1. ReceiptsOK'
  BY FreshEntries DEF ReceiptsOK, IsReceipt
<1>2. Covered'
  <2> SUFFICES ASSUME NEW r \in DOMAIN runs', runs'[r].result = "applied", IsLast(r)',
                      age[runs'[r].id] < Ttl
               PROVE  \/ KeptIn(Fresh, runs'[r].id, touched[runs'[r].id])
                      \/ Cardinality(touched[runs'[r].id]) >= MaxEntries
    BY DEF Covered, KeptIn
  <2>1. r \in DOMAIN runs /\ runs'[r] = runs[r] /\ IsLast(r)
    OBVIOUS
  <2>2. \/ KeptIn(receipts, runs[r].id, touched[runs[r].id])
        \/ Cardinality(touched[runs[r].id]) >= MaxEntries
    BY <2>1 DEF CacheInv, Covered
  <2> QED
    BY <2>1, <2>2, FreshEntries
<1> QED
  BY <1>1, <1>2

-----------------------------------------------------------------------------
(* Nothing has run when the desktop starts.                                  *)
LEMMA InitCache == Init => CacheInv
<1> SUFFICES ASSUME Init PROVE CacheInv
  OBVIOUS
<1> USE CommandCacheAssumption DEF Init
<1>1. TypeOK
  BY DEF TypeOK
<1>2. \A id \in CommandIds : IsFiniteSet(touched[id])
  BY FS_EmptySet
<1>3. RunsOK /\ CallersOK /\ ReceiptsOK /\ Covered
  BY DEF RunsOK, CallersOK, ReceiptsOK, Distinct, Covered
<1> QED
  BY <1>1, <1>2, <1>3 DEF CacheInv

(* A conflict or a join only purges; the joined run is of the same command.   *)
LEMMA AwaitCache ==
    ASSUME CacheInv, NEW c \in Callers, NEW id \in CommandIds, NEW content \in Contents,
           Conflict(c, id, content) \/ Join(c, id, content)
    PROVE  CacheInv'
<1>1. receipts' = Fresh /\ UNCHANGED <<inFlight, runs, age, touched>>
  BY DEF Conflict, Join
<1>2. \/ caller' = caller
      \/ /\ inFlight[id] # 0 /\ runs[inFlight[id]].content = content
         /\ caller' = [caller EXCEPT ![c] = [id |-> id, content |-> content, run |-> inFlight[id]]]
  BY DEF Conflict, Join, SameFingerprint
<1>3. TypeOK'
  <2>1. inFlight[id] # 0 => inFlight[id] \in 1 .. MaxRuns
    BY DEF CacheInv, TypeOK
  <2>2. caller' \in [Callers -> Awaiting \cup {Idle}]
    <3>1. caller \in [Callers -> Awaiting \cup {Idle}]
      BY DEF CacheInv, TypeOK
    <3>2. inFlight[id] # 0 =>
              [id |-> id, content |-> content, run |-> inFlight[id]] \in Awaiting
      BY <2>1 DEF Awaiting
    <3> QED
      BY <1>2, <3>1, <3>2
  <2> QED
    BY <1>1, <2>2, FreshEntries DEF CacheInv, TypeOK
<1>4. RunsOK'
  BY <1>1 DEF CacheInv, RunsOK
<1>5. CallersOK'
  BY <1>1, <1>2 DEF CacheInv, CallersOK, RunsOK, TypeOK
<1>6. ReceiptsOK' /\ Covered'
  BY <1>1, PurgeKeeps DEF IsLast
<1> QED
  BY <1>1, <1>3, <1>4, <1>5, <1>6 DEF CacheInv

(* A run that starts is the last of its command.                             *)
LEMMA StartCache ==
    ASSUME CacheInv, NEW c \in Callers, NEW id \in CommandIds, NEW content \in Contents,
           StartRun(c, id, content)
    PROVE  CacheInv'
<1> DEFINE run == [id |-> id, content |-> content, result |-> "running"]
           n == Len(runs) + 1
<1> USE CommandCacheAssumption
<1>1. /\ runs \in Seq(Run) /\ DOMAIN runs = 1 .. Len(runs) /\ Len(runs) \in Nat
      /\ Len(runs) < MaxRuns /\ inFlight[id] = 0
      /\ receipts' = Fresh /\ UNCHANGED <<age, touched>>
      /\ runs' = Append(runs, run)
      /\ inFlight' = [inFlight EXCEPT ![id] = Len(runs')]
      /\ caller' = [caller EXCEPT ![c] = [id |-> id, content |-> content, run |-> Len(runs')]]
  BY DEF StartRun, CacheInv, TypeOK
<1>2. run \in Run
  BY DEF Run
<1>3. /\ runs' \in Seq(Run) /\ Len(runs') = n /\ DOMAIN runs' = 1 .. n
      /\ runs'[n] = run
      /\ \A r \in 1 .. Len(runs) : runs'[r] = runs[r]
  BY <1>1, <1>2, AppendProperties
<1>4. /\ n \in 1 .. MaxRuns
      /\ inFlight' = [inFlight EXCEPT ![id] = n]
      /\ caller' = [caller EXCEPT ![c] = [id |-> id, content |-> content, run |-> n]]
  BY <1>1, <1>3
<1> HIDE DEF n
<1>5. n = Len(runs) + 1 /\ run.id = id /\ run.content = content /\ run.result = "running"
  BY DEF n
<1> HIDE DEF run
<1>6. TypeOK'
  BY <1>1, <1>3, <1>4, FreshEntries DEF CacheInv, TypeOK, Awaiting
<1>7. RunsOK'
  <2>1. Len(runs') <= MaxRuns
    BY <1>3, <1>4
  <2>2. ASSUME NEW i \in CommandIds, inFlight'[i] # 0
        PROVE  /\ inFlight'[i] \in DOMAIN runs'
               /\ runs'[inFlight'[i]].id = i
               /\ \A r \in DOMAIN runs' : runs'[r].id = i => r <= inFlight'[i]
    <3>1. CASE i = id
      BY <1>1, <1>3, <1>4, <1>5, <3>1 DEF CacheInv, TypeOK
    <3>2. CASE i # id
      BY <1>1, <1>3, <1>4, <1>5, <2>2, <3>2 DEF CacheInv, TypeOK, RunsOK
    <3> QED
      BY <3>1, <3>2
  <2>3. ASSUME NEW r \in DOMAIN runs', runs'[r].result = "running"
        PROVE  inFlight'[runs'[r].id] = r
    <3>1. CASE r = n
      BY <1>3, <1>4, <1>5, <3>1 DEF CacheInv, TypeOK
    <3>2. CASE r # n
      <4>1. r \in DOMAIN runs /\ runs'[r] = runs[r] /\ runs[r] \in Run /\ r # 0
        BY <1>1, <1>3, <1>5, <3>2
      <4>2. inFlight[runs[r].id] = r
        BY <2>3, <4>1 DEF CacheInv, RunsOK
      <4> QED
        BY <1>1, <1>4, <4>1, <4>2 DEF CacheInv, TypeOK, Run
    <3> QED
      BY <3>1, <3>2
  <2> QED
    BY <2>1, <2>2, <2>3 DEF RunsOK
<1>8. CallersOK'
  BY <1>1, <1>3, <1>4, <1>5 DEF CacheInv, CallersOK, TypeOK
<1>9. ReceiptsOK' /\ Covered'
  <2>1. \A r \in DOMAIN runs : runs[r].result = "applied" => r \in DOMAIN runs' /\ runs'[r] = runs[r]
    BY <1>1, <1>3, <1>5
  <2>2. \A r \in DOMAIN runs' : runs'[r].result = "applied" /\ IsLast(r)' =>
            r \in DOMAIN runs /\ runs'[r] = runs[r] /\ IsLast(r)
    BY <1>1, <1>3, <1>5 DEF IsLast
  <2> QED
    BY <1>1, <2>1, <2>2, PurgeKeeps
<1> QED
  BY <1>1, <1>6, <1>7, <1>8, <1>9 DEF CacheInv

(* A hit moves its entry to the end: all behind any other entry are touched.  *)
LEMMA AnswerCache ==
    ASSUME CacheInv, NEW c \in Callers, NEW id \in CommandIds, NEW content \in Contents,
           AnswerFromReceipt(c, id, content)
    PROVE  CacheInv'
<1> DEFINE entry == Get(Fresh, id)
           rest == Without(Fresh, id)
<1> USE CommandCacheAssumption
<1>1. /\ Has(Fresh, id) /\ UNCHANGED <<inFlight, caller, runs, age>>
      /\ receipts' = Refreshed(Fresh, entry)
      /\ touched' = [i \in CommandIds |-> IF i = id THEN {} ELSE touched[i] \cup {id}]
  BY DEF AnswerFromReceipt, Touch
<1>2. /\ Fresh \in Seq(Entry) /\ Len(Fresh) \in 0 .. MaxEntries
      /\ DOMAIN Fresh = 1 .. Len(Fresh)
      /\ \A i \in 1 .. Len(Fresh) : IsReceipt(Fresh[i])
      /\ Distinct(Fresh)
      /\ \A i, others : KeptIn(receipts, i, others) /\ age[i] < Ttl => KeptIn(Fresh, i, others)
  BY FreshEntries
<1>3. entry.id = id /\ entry \in Entry /\ IsReceipt(entry)
  BY <1>1, <1>2, FoundEntry
<1>4. /\ rest \in Seq(Entry) /\ Len(rest) \in Nat /\ Len(rest) < Len(Fresh)
      /\ \A i \in 1 .. Len(rest) : rest[i].id # id /\ \E k \in 1 .. Len(Fresh) : rest[i] = Fresh[k]
      /\ Distinct(rest)
      /\ \A other, others : other # id /\ KeptIn(Fresh, other, others) => KeptIn(rest, other, others)
  BY <1>1, <1>2, WithoutEntries
<1>5. receipts' = Append(rest, entry)
  BY <1>1, <1>3 DEF Refreshed
<1> HIDE DEF entry, rest
<1>6. /\ receipts' \in Seq(Entry)
      /\ Len(receipts') = Len(rest) + 1
      /\ \A i \in 1 .. Len(receipts') : receipts'[i] = entry \/ \E k \in 1 .. Len(rest) : receipts'[i] = rest[k]
      /\ Distinct(receipts')
      /\ \A others : KeptIn(receipts', id, others)
      /\ \A other, others : KeptIn(rest, other, others) => KeptIn(receipts', other, others \cup {id})
  BY <1>3, <1>4, <1>5, AppendedEntry
<1>7. /\ touched' \in [CommandIds -> SUBSET CommandIds]
      /\ \A i \in CommandIds : IsFiniteSet(touched'[i])
  <2>1. touched \in [CommandIds -> SUBSET CommandIds] /\ \A i \in CommandIds : IsFiniteSet(touched[i])
    BY DEF CacheInv, TypeOK
  <2>2. \A i \in CommandIds : IsFiniteSet(touched[i] \cup {id})
    BY <2>1, TouchedGrow
  <2> QED
    BY <1>1, <2>1, <2>2, FS_EmptySet
<1>8. TypeOK'
  BY <1>1, <1>2, <1>4, <1>6, <1>7 DEF CacheInv, TypeOK
<1>9. RunsOK' /\ CallersOK'
  BY <1>1 DEF CacheInv, RunsOK, CallersOK
<1>10. ReceiptsOK'
  <2>1. \A i \in 1 .. Len(receipts') : IsReceipt(receipts'[i])
    BY <1>2, <1>3, <1>4, <1>6
  <2> QED
    BY <1>1, <1>6, <2>1 DEF ReceiptsOK, IsReceipt, Distinct
<1>11. Covered'
  <2> SUFFICES ASSUME NEW r \in DOMAIN runs, runs[r].result = "applied", IsLast(r), age[runs[r].id] < Ttl
               PROVE  \/ KeptIn(receipts', runs[r].id, touched'[runs[r].id])
                      \/ Cardinality(touched'[runs[r].id]) >= MaxEntries
    BY <1>1 DEF Covered, KeptIn, IsLast
  <2> DEFINE other == runs[r].id
  <2>1. other \in CommandIds
    <3>1. runs \in Seq(Run)
      BY DEF CacheInv, TypeOK
    <3>2. runs[r] \in Run
      BY <3>1
    <3> QED
      BY <3>2 DEF Run
  <2>2. KeptIn(receipts, other, touched[other]) \/ Cardinality(touched[other]) >= MaxEntries
    BY DEF CacheInv, Covered
  <2> HIDE DEF other
  <2>3. CASE other = id
    BY <1>6, <2>3 DEF other
  <2>4. CASE other # id
    <3>1. touched'[other] = touched[other] \cup {id} /\ IsFiniteSet(touched[other])
      BY <1>1, <2>1, <2>4 DEF CacheInv
    <3>2. CASE KeptIn(receipts, other, touched[other])
      BY <1>2, <1>4, <1>6, <2>4, <3>1, <3>2 DEF other
    <3>3. CASE Cardinality(touched[other]) >= MaxEntries
      <4>1. Cardinality(touched[other]) <= Cardinality(touched'[other])
            /\ Cardinality(touched[other]) \in Nat /\ Cardinality(touched'[other]) \in Nat
        BY <3>1, TouchedGrow
      <4> QED
        BY <3>3, <4>1 DEF other
    <3> QED
      BY <2>2, <3>2, <3>3
  <2> QED
    BY <2>3, <2>4
<1> QED
  BY <1>7, <1>8, <1>9, <1>10, <1>11 DEF CacheInv

(* A run that is applied puts its receipt at the end, and may push out the    *)
(* oldest one: behind that there are then MaxEntries touched commands.       *)
LEMMA RememberCache ==
    ASSUME CacheInv, NEW id \in CommandIds, Remember(id)
    PROVE  CacheInv'
<1> DEFINE run == inFlight[id]
           entry == [id |-> id, content |-> runs[run].content, run |-> run, left |-> Ttl]
           rest == Without(Fresh, id)
           longer == Append(rest, entry)
<1> USE CommandCacheAssumption
<1>1. /\ run \in 1 .. Len(runs) /\ runs[run].id = id /\ runs[run].result = "running"
      /\ \A r \in 1 .. Len(runs) : runs[r].id = id => r <= run
      /\ runs \in Seq(Run) /\ DOMAIN runs = 1 .. Len(runs) /\ Len(runs) \in Nat
      /\ Len(runs) <= MaxRuns
  BY DEF Remember, Running, CacheInv, RunsOK, TypeOK
<1>2. /\ UNCHANGED <<inFlight, caller>>
      /\ runs' = [runs EXCEPT ![run].result = "applied"]
      /\ receipts' = Trim(longer)
      /\ age' = [age EXCEPT ![id] = 0]
      /\ touched' = [i \in CommandIds |-> IF i = id THEN {} ELSE touched[i] \cup {id}]
  BY DEF Remember, Touch
<1>3. runs[run] \in Run /\ entry \in Entry /\ entry.id = id
  <2>1. runs[run] \in Run
    BY <1>1
  <2> QED
    BY <1>1, <2>1 DEF Entry, Run
<1>4. /\ runs' \in Seq(Run) /\ DOMAIN runs' = DOMAIN runs /\ Len(runs') = Len(runs)
      /\ runs'[run] = [id |-> id, content |-> entry.content, result |-> "applied"]
      /\ \A r \in DOMAIN runs : r # run => runs'[r] = runs[r]
      /\ \A r \in DOMAIN runs : runs'[r].id = runs[r].id /\ runs'[r].content = runs[r].content
  <2>1. [runs[run] EXCEPT !.result = "applied"] \in Run
    BY <1>3 DEF Run
  <2>2. runs' = [runs EXCEPT ![run] = [runs[run] EXCEPT !.result = "applied"]]
    BY <1>2
  <2>3. runs' \in Seq(Run) /\ Len(runs') = Len(runs)
    BY <1>1, <2>1, <2>2, ExceptSeq
  <2>4. [runs[run] EXCEPT !.result = "applied"] = [id |-> id, content |-> entry.content, result |-> "applied"]
    BY <1>1, <1>3 DEF Run
  <2> QED
    BY <1>1, <2>2, <2>3, <2>4
<1>5. /\ Fresh \in Seq(Entry) /\ Len(Fresh) \in 0 .. MaxEntries
      /\ DOMAIN Fresh = 1 .. Len(Fresh)
      /\ \A i \in 1 .. Len(Fresh) : IsReceipt(Fresh[i])
      /\ Distinct(Fresh)
      /\ \A i, others : KeptIn(receipts, i, others) /\ age[i] < Ttl => KeptIn(Fresh, i, others)
  BY FreshEntries
<1>6. /\ rest \in Seq(Entry) /\ Len(rest) \in Nat
      /\ \A i \in 1 .. Len(rest) : rest[i].id # id /\ \E k \in 1 .. Len(Fresh) : rest[i] = Fresh[k]
      /\ Distinct(rest)
      /\ \A other, others : other # id /\ KeptIn(Fresh, other, others) => KeptIn(rest, other, others)
  BY <1>5, WithoutEntries
<1>7. entry.run = run /\ entry.left = Ttl
  OBVIOUS
<1> HIDE DEF run, entry, rest
<1>8. /\ longer \in Seq(Entry)
      /\ \A i \in 1 .. Len(longer) : longer[i] = entry \/ \E k \in 1 .. Len(rest) : longer[i] = rest[k]
      /\ Distinct(longer)
      /\ \A others : KeptIn(longer, id, others)
      /\ \A other, others : KeptIn(rest, other, others) => KeptIn(longer, other, others \cup {id})
  BY <1>3, <1>6, AppendedEntry
<1> HIDE DEF longer
<1>9. /\ receipts' \in Seq(Entry) /\ Len(receipts') <= MaxEntries
      /\ DOMAIN receipts' = 1 .. Len(receipts')
      /\ \A i \in 1 .. Len(receipts') : \E k \in 1 .. Len(longer) : receipts'[i] = longer[k]
      /\ Distinct(receipts')
      /\ \A other, others : KeptIn(longer, other, others) /\ IsFiniteSet(others) =>
            KeptIn(receipts', other, others) \/ Cardinality(others) >= MaxEntries
  BY <1>2, <1>8, TrimmedEntries
<1>10. /\ touched' \in [CommandIds -> SUBSET CommandIds]
       /\ \A i \in CommandIds : IsFiniteSet(touched'[i])
  <2>1. touched \in [CommandIds -> SUBSET CommandIds] /\ \A i \in CommandIds : IsFiniteSet(touched[i])
    BY DEF CacheInv, TypeOK
  <2>2. \A i \in CommandIds : IsFiniteSet(touched[i] \cup {id})
    BY <2>1, TouchedGrow
  <2> QED
    BY <1>2, <2>1, <2>2, FS_EmptySet
<1>11. TypeOK'
  BY <1>2, <1>4, <1>9, <1>10 DEF CacheInv, TypeOK
<1>12. RunsOK'
  <2>1. Len(runs') <= MaxRuns
    BY <1>1, <1>4
  <2>2. \A i \in CommandIds : inFlight'[i] # 0 =>
          /\ inFlight'[i] \in DOMAIN runs'
          /\ runs'[inFlight'[i]].id = i
          /\ \A r \in DOMAIN runs' : runs'[r].id = i => r <= inFlight'[i]
    BY <1>2, <1>4 DEF CacheInv, RunsOK
  <2>3. \A r \in DOMAIN runs' : runs'[r].result = "running" => inFlight'[runs'[r].id] = r
    BY <1>2, <1>4 DEF CacheInv, RunsOK
  <2> QED
    BY <2>1, <2>2, <2>3 DEF RunsOK
<1>13. CallersOK'
  BY <1>2, <1>4 DEF CacheInv, CallersOK
<1>14. ReceiptsOK'
  <2> SUFFICES ASSUME NEW i \in 1 .. Len(receipts') PROVE IsReceipt(receipts[i])'
    BY <1>9 DEF ReceiptsOK, Distinct
  <2>1. receipts'[i] = entry \/ \E k \in 1 .. Len(Fresh) : receipts'[i] = Fresh[k] /\ Fresh[k].id # id
    <3>1. PICK k \in 1 .. Len(longer) : receipts'[i] = longer[k]
      BY <1>9
    <3>2. longer[k] = entry \/ \E j \in 1 .. Len(rest) : longer[k] = rest[j]
      BY <1>8
    <3> QED
      BY <1>6, <3>1, <3>2
  <2>2. CASE receipts'[i] = entry
    <3>1. age'[id] = 0
      BY <1>2 DEF CacheInv, TypeOK
    <3> QED
      BY <1>1, <1>3, <1>4, <1>7, <2>2, <3>1 DEF IsReceipt
  <2>3. ASSUME NEW k \in 1 .. Len(Fresh), receipts'[i] = Fresh[k], Fresh[k].id # id
        PROVE  IsReceipt(receipts[i])'
    <3>1. IsReceipt(Fresh[k]) /\ Fresh[k] \in Entry
      BY <1>5
    <3>2. age'[Fresh[k].id] = age[Fresh[k].id]
      BY <1>2, <2>3, <3>1 DEF CacheInv, TypeOK, Entry
    <3>3. runs'[Fresh[k].run] = runs[Fresh[k].run] /\ Fresh[k].run \in DOMAIN runs'
      BY <1>1, <1>4, <3>1 DEF IsReceipt
    <3> QED
      BY <2>3, <3>1, <3>2, <3>3 DEF IsReceipt
  <2> QED
    BY <2>1, <2>2, <2>3
<1>15. Covered'
  <2> SUFFICES ASSUME NEW r \in DOMAIN runs, runs'[r].result = "applied", IsLast(r)',
                      age'[runs[r].id] < Ttl
               PROVE  \/ KeptIn(receipts', runs[r].id, touched'[runs[r].id])
                      \/ Cardinality(touched'[runs[r].id]) >= MaxEntries
    BY <1>4 DEF Covered, KeptIn
  <2> DEFINE other == runs[r].id
  <2>1. other \in CommandIds
    <3>1. runs[r] \in Run
      BY <1>1
    <3> QED
      BY <3>1 DEF Run
  <2>2. KeptIn(longer, other, touched'[other]) \/ Cardinality(touched'[other]) >= MaxEntries
    <3>1. CASE other = id
      BY <1>8, <3>1
    <3>2. CASE other # id
      <4>1. touched'[other] = touched[other] \cup {id} /\ IsFiniteSet(touched[other])
        BY <1>2, <2>1, <3>2 DEF CacheInv
      <4>2. r # run /\ runs[r].result = "applied" /\ IsLast(r) /\ age[other] < Ttl
        BY <1>1, <1>2, <1>4, <2>1, <3>2 DEF IsLast, CacheInv, TypeOK
      <4>3. KeptIn(receipts, other, touched[other]) \/ Cardinality(touched[other]) >= MaxEntries
        BY <4>2 DEF CacheInv, Covered
      <4>4. CASE KeptIn(receipts, other, touched[other])
        BY <1>5, <1>6, <1>8, <3>2, <4>1, <4>2, <4>4
      <4>5. CASE Cardinality(touched[other]) >= MaxEntries
        <5>1. Cardinality(touched[other]) <= Cardinality(touched'[other])
              /\ Cardinality(touched[other]) \in Nat /\ Cardinality(touched'[other]) \in Nat
          BY <4>1, TouchedGrow
        <5> QED
          BY <4>5, <5>1
      <4> QED
        BY <4>3, <4>4, <4>5
    <3> QED
      BY <3>1, <3>2
  <2> QED
    BY <1>9, <1>10, <2>1, <2>2
<1> QED
  BY <1>10, <1>11, <1>12, <1>13, <1>14, <1>15 DEF CacheInv

(* A run that throws is not applied: it asks nothing of the receipts.        *)
LEMMA FailCache ==
    ASSUME CacheInv, NEW id \in CommandIds, Fail(id)
    PROVE  CacheInv'
<1> DEFINE run == inFlight[id]
<1>1. /\ run \in DOMAIN runs /\ runs[run].id = id /\ runs[run].result = "running"
      /\ \A r \in DOMAIN runs : runs[r].id = id => r <= run
      /\ runs \in Seq(Run) /\ DOMAIN runs = 1 .. Len(runs) /\ Len(runs) <= MaxRuns
  BY DEF Fail, Running, CacheInv, RunsOK, TypeOK
<1>2. /\ UNCHANGED <<receipts, inFlight, caller, age, touched>>
      /\ runs' = [runs EXCEPT ![run].result = "failed"]
  BY DEF Fail
<1>3. /\ runs' \in Seq(Run) /\ DOMAIN runs' = DOMAIN runs /\ Len(runs') = Len(runs)
      /\ runs'[run].result = "failed"
      /\ \A r \in DOMAIN runs : r # run => runs'[r] = runs[r]
      /\ \A r \in DOMAIN runs : runs'[r].id = runs[r].id /\ runs'[r].content = runs[r].content
  <2>0. runs[run] \in Run
    BY <1>1
  <2>1. [runs[run] EXCEPT !.result = "failed"] \in Run
    BY <2>0 DEF Run
  <2>2. runs' = [runs EXCEPT ![run] = [runs[run] EXCEPT !.result = "failed"]]
    BY <1>2
  <2>3. runs' \in Seq(Run) /\ Len(runs') = Len(runs)
    BY <1>1, <2>1, <2>2, ExceptSeq
  <2>4. [runs[run] EXCEPT !.result = "failed"] =
            [id |-> runs[run].id, content |-> runs[run].content, result |-> "failed"]
    BY <2>0 DEF Run
  <2> QED
    BY <1>1, <2>2, <2>3, <2>4
<1> HIDE DEF run
<1>4. TypeOK' /\ \A i \in CommandIds : IsFiniteSet(touched'[i])
  BY <1>2, <1>3 DEF CacheInv, TypeOK
<1>5. RunsOK'
  BY <1>1, <1>2, <1>3 DEF CacheInv, RunsOK
<1>6. CallersOK'
  BY <1>2, <1>3 DEF CacheInv, CallersOK
<1>7. ReceiptsOK'
  BY <1>1, <1>2, <1>3 DEF CacheInv, ReceiptsOK, IsReceipt, Distinct
<1>8. Covered'
  BY <1>1, <1>2, <1>3 DEF CacheInv, Covered, KeptIn, IsLast
<1> QED
  BY <1>4, <1>5, <1>6, <1>7, <1>8 DEF CacheInv

(* What settled leaves the in-flight map, and its callers go on.             *)
LEMMA SettleCache ==
    ASSUME CacheInv,
           (\E id \in CommandIds : Clear(id)) \/ (\E c \in Callers : Resume(c)) \/ UNCHANGED vars
    PROVE  CacheInv'
<1>1. UNCHANGED <<receipts, runs, age, touched>>
  BY DEF Clear, Resume, vars
<1>2. ReceiptsOK' /\ Covered' /\ \A i \in CommandIds : IsFiniteSet(touched'[i])
  BY <1>1 DEF CacheInv, ReceiptsOK, IsReceipt, Distinct, Covered, KeptIn, IsLast
<1>3. TypeOK'
  <2>1. inFlight' \in [CommandIds -> 0 .. MaxRuns]
    <3>1. 0 \in 0 .. MaxRuns
      BY CommandCacheAssumption
    <3>2. inFlight \in [CommandIds -> 0 .. MaxRuns]
      BY DEF CacheInv, TypeOK
    <3>3. inFlight' = inFlight \/ \E id \in CommandIds : inFlight' = [inFlight EXCEPT ![id] = 0]
      BY DEF Clear, Resume, vars
    <3> QED
      BY <3>1, <3>2, <3>3
  <2>2. caller' \in [Callers -> Awaiting \cup {Idle}]
    BY DEF CacheInv, TypeOK, Clear, Resume, vars
  <2> QED
    BY <1>1, <2>1, <2>2 DEF CacheInv, TypeOK
<1>4. RunsOK'
  <2>1. ASSUME NEW id \in CommandIds, Clear(id) PROVE RunsOK'
    <3>1. /\ inFlight[id] # 0 /\ runs[inFlight[id]].result # "running"
          /\ inFlight' = [inFlight EXCEPT ![id] = 0] /\ inFlight \in [CommandIds -> 0 .. MaxRuns]
      BY <2>1 DEF Clear, Running, CacheInv, TypeOK
    <3>2. \A i \in CommandIds : inFlight'[i] = IF i = id THEN 0 ELSE inFlight[i]
      BY <3>1
    <3>3. \A r \in DOMAIN runs : runs[r].id \in CommandIds
      <4>1. \A r \in DOMAIN runs : runs[r] \in Run
        BY DEF CacheInv, TypeOK
      <4> QED
        BY <4>1 DEF Run
    <3> QED
      BY <1>1, <3>1, <3>2, <3>3 DEF CacheInv, RunsOK
  <2>2. CASE inFlight' = inFlight
    BY <1>1, <2>2 DEF CacheInv, RunsOK
  <2> QED
    BY <2>1, <2>2 DEF Resume, vars
<1>5. CallersOK'
  BY <1>1 DEF CacheInv, CallersOK, TypeOK, Clear, Resume, vars, Idle
<1> QED
  BY <1>2, <1>3, <1>4, <1>5 DEF CacheInv

(* Receipts age as their commands do.                                        *)
LEMMA TickCache ==
    ASSUME CacheInv, Tick
    PROVE  CacheInv'
<1> USE CommandCacheAssumption
<1>1. /\ receipts' = [i \in DOMAIN receipts |->
                        [receipts[i] EXCEPT !.left = IF @ > 0 THEN @ - 1 ELSE 0]]
      /\ age' = [id \in CommandIds |-> IF age[id] < Ttl THEN age[id] + 1 ELSE Ttl]
      /\ UNCHANGED <<inFlight, caller, runs, touched>>
  BY DEF Tick
<1>2. /\ receipts \in Seq(Entry) /\ Len(receipts) \in 0 .. MaxEntries
      /\ DOMAIN receipts = 1 .. Len(receipts)
      /\ age \in [CommandIds -> 0 .. Ttl]
      /\ \A i \in 1 .. Len(receipts) : receipts[i] \in Entry /\ IsReceipt(receipts[i])
  BY LenProperties, ElementOfSeq DEF CacheInv, TypeOK, ReceiptsOK
<1>3. \A i \in 1 .. Len(receipts) :
          /\ receipts'[i] \in Entry
          /\ receipts'[i].id = receipts[i].id
          /\ receipts'[i].content = receipts[i].content
          /\ receipts'[i].run = receipts[i].run
          /\ receipts'[i].left = IF receipts[i].left > 0 THEN receipts[i].left - 1 ELSE 0
  BY <1>1, <1>2 DEF Entry
<1>4. receipts' \in [1 .. Len(receipts) -> Entry]
  BY <1>1, <1>2, <1>3
<1>5. receipts' \in Seq(Entry) /\ Len(receipts') = Len(receipts) /\ DOMAIN receipts' = 1 .. Len(receipts)
  BY <1>2, <1>4
<1>6. TypeOK' /\ \A i \in CommandIds : IsFiniteSet(touched'[i])
  BY <1>1, <1>2, <1>5 DEF CacheInv, TypeOK
<1>7. RunsOK' /\ CallersOK'
  BY <1>1 DEF CacheInv, RunsOK, CallersOK
<1>8. ReceiptsOK'
  <2>1. \A i \in 1 .. Len(receipts) : receipts'[i].left = Ttl - age'[receipts'[i].id]
    <3> SUFFICES ASSUME NEW i \in 1 .. Len(receipts)
                 PROVE  receipts'[i].left = Ttl - age'[receipts'[i].id]
      OBVIOUS
    <3>1. receipts[i].left = Ttl - age[receipts[i].id] /\ receipts[i].id \in CommandIds
      BY <1>2 DEF IsReceipt, Entry
    <3>2. age[receipts[i].id] \in 0 .. Ttl
      BY <1>2, <3>1
    <3> QED
      BY <1>1, <1>3, <3>1, <3>2
  <2>2. runs' = runs
    BY <1>1
  <2>3. \A i \in 1 .. Len(receipts) : IsReceipt(receipts[i])'
    BY <1>2, <1>3, <2>1, <2>2 DEF IsReceipt
  <2>4. Distinct(receipts)
    BY DEF CacheInv, ReceiptsOK
  <2>5. Distinct(receipts)'
    BY <1>2, <1>3, <1>5, <2>4 DEF Distinct
  <2> QED
    BY <1>5, <2>3, <2>5 DEF ReceiptsOK
<1>9. Covered'
  <2>1. \A id, others : KeptIn(receipts, id, others) => KeptIn(receipts', id, others)
    BY <1>2, <1>3, <1>5 DEF KeptIn
  <2> SUFFICES ASSUME NEW r \in DOMAIN runs, runs[r].result = "applied", IsLast(r),
                      age'[runs[r].id] < Ttl
               PROVE  \/ KeptIn(receipts', runs[r].id, touched[runs[r].id])
                      \/ Cardinality(touched[runs[r].id]) >= MaxEntries
    <3>1. runs' = runs /\ touched' = touched
      BY <1>1
    <3> QED
      BY <3>1 DEF Covered, KeptIn, IsLast
  <2>2. runs[r].id \in CommandIds
    <3>1. runs[r] \in Run
      BY DEF CacheInv, TypeOK
    <3> QED
      BY <3>1 DEF Run
  <2>3. age[runs[r].id] < Ttl
    BY <1>1, <1>2, <2>2
  <2> QED
    BY <2>1, <2>3 DEF CacheInv, Covered
<1> QED
  BY <1>6, <1>7, <1>8, <1>9 DEF CacheInv

(* Every step of a caller, of a run or of the clock keeps the invariant.     *)
LEMMA NextCache == CacheInv /\ [Next]_vars => CacheInv'
<1> SUFFICES ASSUME CacheInv, [Next]_vars PROVE CacheInv'
  OBVIOUS
<1>1. ASSUME NEW c \in Callers, NEW id \in CommandIds, NEW content \in Contents,
             Execute(c, id, content)
      PROVE  CacheInv'
  BY <1>1, AnswerCache, AwaitCache, StartCache DEF Execute
<1>2. ASSUME NEW id \in CommandIds, Remember(id) \/ Fail(id) \/ Clear(id) PROVE CacheInv'
  BY <1>2, RememberCache, FailCache, SettleCache
<1>3. ASSUME NEW c \in Callers, Resume(c) PROVE CacheInv'
  BY <1>3, SettleCache
<1>4. CASE Tick
  BY <1>4, TickCache
<1>5. CASE UNCHANGED vars
  BY <1>5, SettleCache
<1> QED
  BY <1>1, <1>2, <1>3, <1>4, <1>5 DEF Next

-----------------------------------------------------------------------------
(* What the cache remembers of runs, callers and receipts always fits.       *)
THEOREM CacheInvariant == Spec => []CacheInv
BY InitCache, NextCache, PTL DEF Spec

(* The cache and its history have their types.                               *)
THEOREM TypeCorrect == Spec => []TypeOK
<1>1. CacheInv => TypeOK
  BY DEF CacheInv
<1> QED
  BY <1>1, CacheInvariant, PTL

(* Whoever is answered, from the cache or by joining a run, is given the      *)
(* outcome of the command it sent.                                          *)
THEOREM ReceiptsAnswerTheirCommand == Spec => []ReceiptIsForCommand
<1>1. CacheInv => ReceiptIsForCommand
  <2> SUFFICES ASSUME CacheInv PROVE ReceiptIsForCommand
    OBVIOUS
  <2>1. CallersOK /\ ReceiptsOK
    BY DEF CacheInv
  <2> QED
    BY <2>1 DEF ReceiptIsForCommand, CallersOK, ReceiptsOK, IsReceipt
<1> QED
  BY <1>1, CacheInvariant, PTL

(* The last run of a command that ran.                                       *)
LEMMA LastRunIsLast ==
    ASSUME CacheInv, NEW id \in CommandIds, \E r \in DOMAIN runs : runs[r].id = id
    PROVE  LastRun(id) \in DOMAIN runs /\ runs[LastRun(id)].id = id /\ IsLast(LastRun(id))
<1> DEFINE mine == {r \in DOMAIN runs : runs[r].id = id}
           back == {Len(runs) - r : r \in mine}
<1>1. DOMAIN runs = 1 .. Len(runs) /\ Len(runs) \in Nat
  BY DEF CacheInv, TypeOK
<1>2. back \subseteq Nat /\ back # {}
  BY <1>1
<1>3. PICK k \in back : \A j \in back : k <= j
  BY <1>2, LeastNatural
<1>4. PICK r \in mine : k = Len(runs) - r
  BY <1>3
<1>5. \A q \in mine : q <= r
  <2> SUFFICES ASSUME NEW q \in mine PROVE q <= r
    OBVIOUS
  <2>1. Len(runs) - r <= Len(runs) - q
    BY <1>3, <1>4
  <2>2. q \in Nat /\ r \in Nat
    BY <1>1
  <2> QED
    BY <1>1, <2>1, <2>2
<1>6. LastRun(id) \in mine /\ \A q \in mine : q <= LastRun(id)
  BY <1>4, <1>5 DEF LastRun
<1> QED
  BY <1>6 DEF IsLast

(* A command's handler runs again only when its last run threw, its receipt's *)
(* time was up, or MaxEntries other commands were answered since.            *)
THEOREM CommandsRunAtMostOnce == Spec => AtMostOnce
<1>1. CacheInv /\ [Next]_vars =>
        [\A id \in CommandIds :
          /\ Len(runs') > Len(runs)
          /\ runs'[Len(runs')].id = id
          /\ \E r \in DOMAIN runs : runs[r].id = id
          => \/ runs[LastRun(id)].result = "failed"
             \/ runs[LastRun(id)].result = "applied" /\ age[id] = Ttl
             \/ runs[LastRun(id)].result = "applied" /\ Cardinality(touched[id]) >= MaxEntries]_vars
  <2> SUFFICES ASSUME CacheInv, Next, NEW id \in CommandIds,
                      Len(runs') > Len(runs), runs'[Len(runs')].id = id,
                      \E r \in DOMAIN runs : runs[r].id = id
               PROVE  \/ runs[LastRun(id)].result = "failed"
                      \/ runs[LastRun(id)].result = "applied" /\ age[id] = Ttl
                      \/ runs[LastRun(id)].result = "applied" /\ Cardinality(touched[id]) >= MaxEntries
    OBVIOUS
  <2>1. /\ runs \in Seq(Run) /\ Len(runs) \in Nat /\ DOMAIN runs = 1 .. Len(runs)
        /\ inFlight \in [CommandIds -> 0 .. MaxRuns] /\ age[id] \in 0 .. Ttl
    BY DEF CacheInv, TypeOK
  <2>2. PICK c \in Callers, i \in CommandIds, content \in Contents : StartRun(c, i, content)
    <3>1. ASSUME NEW i \in CommandIds, Remember(i) \/ Fail(i) PROVE Len(runs') = Len(runs)
      BY <2>1, <3>1 DEF Remember, Fail, Running
    <3> QED
      BY <2>1, <3>1 DEF Next, Execute, AnswerFromReceipt, Conflict, Join, Clear, Resume, Tick
  <2>3. i = id
    BY <2>1, <2>2 DEF StartRun
  <2>4. ~Has(Fresh, id) /\ inFlight[id] = 0
    BY <2>2, <2>3 DEF StartRun
  <2> DEFINE last == LastRun(id)
  <2>5. last \in DOMAIN runs /\ runs[last].id = id /\ IsLast(last)
    BY LastRunIsLast
  <2> HIDE DEF last
  <2>6. runs[last] \in Run /\ last # 0
    BY <2>1, <2>5
  <2>7. runs[last].result # "running"
    BY <2>4, <2>5, <2>6 DEF CacheInv, RunsOK
  <2>8. CASE runs[last].result = "applied" /\ age[id] # Ttl
    <3>1. age[id] < Ttl
      BY <2>1, <2>8, CommandCacheAssumption
    <3>2. KeptIn(receipts, id, touched[id]) \/ Cardinality(touched[id]) >= MaxEntries
      BY <2>5, <2>8, <3>1 DEF CacheInv, Covered
    <3>3. ~KeptIn(receipts, id, touched[id])
      BY <2>4, <3>1, FreshEntries DEF KeptIn, Has
    <3> QED
      BY <2>8, <3>2, <3>3 DEF last
  <2> QED
    BY <2>6, <2>7, <2>8 DEF Run, last
<1> QED
  BY <1>1, CacheInvariant, PTL DEF Spec, AtMostOnce
=============================================================================
