---------------------------- MODULE StagingProofs ----------------------------
(* The staging of an edit, for every device, profile and request: what the     *)
(* passes of the artwork do to a store, and the invariant that relates what    *)
(* is staged to the generation that was opened.                                *)
EXTENDS Staging, Facts

------------------------------------------------------------------------------
(* Sequences *)

Whole(s) == s \in Seq(Range(s))

\* A sequence is one of its own elements.
LEMMA SeqIsWhole ==
  ASSUME NEW S, NEW s \in Seq(S)
  PROVE  Whole(s)
BY SeqOfRange DEF Whole

\* The empty sequence is one.
LEMMA EmptyIsWhole == Whole(<<>>) /\ DOMAIN <<>> = {} /\ Len(<<>>) = 0
<1>1. <<>> \in Seq({}) /\ Len(<<>>) = 0
  BY EmptySeq
<1>2. DOMAIN <<>> = {}
  OBVIOUS
<1>3. Whole(<<>>)
  BY <1>1, SeqIsWhole
<1> QED BY <1>1, <1>2, <1>3

LEMMA WholeFacts ==
  ASSUME NEW s, Whole(s)
  PROVE  /\ Len(s) \in Nat /\ DOMAIN s = 1..Len(s)
         /\ \A i \in DOMAIN s : s[i] \in Range(s)
         /\ \A x \in Range(s) : \E i \in DOMAIN s : x = s[i]
<1>1. Len(s) \in Nat /\ DOMAIN s = 1..Len(s)
  BY LenProperties DEF Whole
<1> QED BY <1>1 DEF Range

\* A function of the numbers up to n is a sequence.
LEMMA FunctionIsWhole ==
  ASSUME NEW n \in Nat, NEW S, NEW s \in [1..n -> S]
  PROVE  Whole(s) /\ Len(s) = n /\ DOMAIN s = 1..n /\ s \in Seq(S)
<1>1. s \in Seq(S)
  BY SeqDef
<1>2. Len(s) \in Nat /\ DOMAIN s = 1..Len(s) /\ DOMAIN s = 1..n
  BY <1>1, LenProperties
<1>3. Len(s) = n
  BY <1>2
<1> QED BY <1>1, <1>2, <1>3, SeqIsWhole

\* What Selected returns of a sequence of any elements.
LEMMA SelectedWhole ==
  ASSUME NEW s, Whole(s), NEW P \in SUBSET (DOMAIN s)
  PROVE  Whole(Selected(s, P)) /\ \E pos : Places(s, P, Selected(s, P), pos)
<1>1. s \in Seq(Range(s)) /\ P \in SUBSET (1..Len(s))
  BY WholeFacts DEF Whole
<1>2. Selected(s, P) \in Seq(Range(s)) /\ \E pos : Places(s, P, Selected(s, P), pos)
  BY <1>1, SelectedPlaces
<1> QED BY <1>2, SeqIsWhole

\* The elements of s at P, each once.
Picks(s, P, t) ==
  /\ \A k \in DOMAIN t : \E i \in P : t[k] = s[i]
  /\ \A i \in P : \E k \in DOMAIN t : t[k] = s[i]
  /\ \A k, l \in DOMAIN t : k # l => \E i, j \in P : i # j /\ t[k] = s[i] /\ t[l] = s[j]

\* Selected picks the elements at the positions, each once.
LEMMA SelectedPicks ==
  ASSUME NEW s, Whole(s), NEW P \in SUBSET (DOMAIN s)
  PROVE  Whole(Selected(s, P)) /\ Picks(s, P, Selected(s, P))
<1> DEFINE t == Selected(s, P)
<1>1. Whole(t) /\ DOMAIN t = 1..Len(t) /\ Len(t) \in Nat
  BY SelectedWhole, WholeFacts
<1>2. PICK pos : Places(s, P, t, pos)
  BY SelectedWhole
<1>3. /\ pos \in [1..Len(t) -> P]
      /\ \A k \in 1..Len(t) : t[k] = s[pos[k]]
      /\ \A k, l \in 1..Len(t) : k < l => pos[k] < pos[l]
      /\ \A i \in P : \E k \in 1..Len(t) : pos[k] = i
  BY <1>2 DEF Places
<1>4. \A k, l \in DOMAIN t : k # l => pos[k] # pos[l]
  <2>1. SUFFICES ASSUME NEW k \in DOMAIN t, NEW l \in DOMAIN t, k # l PROVE pos[k] # pos[l]
    OBVIOUS
  <2>2. pos[k] \in P /\ pos[l] \in P /\ k \in Nat /\ l \in Nat
    BY <1>1, <1>3
  <2>3. pos[k] \in Nat /\ pos[l] \in Nat
    BY <2>2, WholeFacts
  <2>4. k < l \/ l < k
    BY <2>1, <2>2
  <2>5. pos[k] < pos[l] \/ pos[l] < pos[k]
    BY <1>1, <1>3, <2>4
  <2> QED BY <2>3, <2>5
<1> HIDE DEF t
<1>5. Picks(s, P, t)
  BY <1>1, <1>3, <1>4 DEF Picks
<1> QED BY <1>1, <1>5 DEF t

------------------------------------------------------------------------------
(* The records that a removal keeps *)

\* No track and no image has two records.
Apart(records) ==
  \A i, j \in DOMAIN records :
    i # j => records[i].track # records[j].track /\ records[i].image # records[j].image

\* Kept loses the records of the removed tracks and nothing else.
LEMMA KeptRecords ==
  ASSUME NEW records, Whole(records), Apart(records), NEW removed
  PROVE  /\ Whole(Kept(records, removed)) /\ Apart(Kept(records, removed))
         /\ Range(Kept(records, removed)) = {r \in Range(records) : r.track \notin removed}
<1> DEFINE P == {i \in DOMAIN records : records[i].track \notin removed}
           kept == Kept(records, removed)
<1>1. Whole(kept) /\ Picks(records, P, kept)
  BY SelectedPicks DEF Kept
<1> HIDE DEF kept
<1>2. Apart(kept)
  <2>1. SUFFICES ASSUME NEW k \in DOMAIN kept, NEW l \in DOMAIN kept, k # l
                 PROVE  kept[k].track # kept[l].track /\ kept[k].image # kept[l].image
    BY DEF Apart
  <2>2. PICK i \in P, j \in P : i # j /\ kept[k] = records[i] /\ kept[l] = records[j]
    BY <1>1, <2>1 DEF Picks
  <2> QED BY <2>2 DEF Apart
<1>3. \A r : r \in Range(kept) <=> r \in Range(records) /\ r.track \notin removed
  <2>1. ASSUME NEW r \in Range(kept) PROVE r \in Range(records) /\ r.track \notin removed
    <3>1. PICK k \in DOMAIN kept : r = kept[k]
      BY <1>1, WholeFacts
    <3>2. PICK i \in P : kept[k] = records[i]
      BY <1>1, <3>1 DEF Picks
    <3> QED BY <3>1, <3>2 DEF Range
  <2>2. ASSUME NEW r \in Range(records), r.track \notin removed PROVE r \in Range(kept)
    <3>1. PICK i \in DOMAIN records : r = records[i]
      BY WholeFacts
    <3>2. PICK k \in DOMAIN kept : kept[k] = records[i]
      BY <1>1, <2>2, <3>1 DEF Picks
    <3> QED BY <3>1, <3>2 DEF Range
  <2> QED BY <2>1, <2>2
<1> QED BY <1>1, <1>2, <1>3 DEF kept

------------------------------------------------------------------------------
(* The slots that a removal packs *)

\* Packed lists every slot in use, each once.
LEMMA PackedSlots ==
  ASSUME NEW records, Whole(records), NEW f
  PROVE  /\ DOMAIN Packed(records, f) = 1..Len(Packed(records, f)) /\ Len(Packed(records, f)) \in Nat
         /\ \A n \in DOMAIN Packed(records, f) :
              \E i \in Using(records, f) : Packed(records, f)[n] = records[i].refs[f]
         /\ \A i \in Using(records, f) :
              \E n \in DOMAIN Packed(records, f) : Packed(records, f)[n] = records[i].refs[f]
         /\ \A m, n \in DOMAIN Packed(records, f) :
              Packed(records, f)[m] = Packed(records, f)[n] => m = n
<1> DEFINE P == FirstUses(records, f)
           first == Selected(records, P)
           packed == Packed(records, f)
<1>1. P \in SUBSET (DOMAIN records) /\ P \subseteq Using(records, f)
  BY DEF FirstUses, Using
<1>2. Whole(first) /\ Picks(records, P, first)
  BY <1>1, SelectedPicks
<1>3. packed = [n \in DOMAIN first |-> first[n].refs[f]]
  BY DEF Packed
<1> HIDE DEF first, packed
<1>4. DOMAIN first = 1..Len(first) /\ Len(first) \in Nat
  BY <1>2, WholeFacts
<1>5. DOMAIN packed = 1..Len(packed) /\ Len(packed) \in Nat
  <2>1. packed \in [1..Len(first) -> {first[n].refs[f] : n \in DOMAIN first}]
    BY <1>3, <1>4
  <2> QED BY <1>4, <2>1, FunctionIsWhole
<1>6. \A n \in DOMAIN packed : \E i \in Using(records, f) : packed[n] = records[i].refs[f]
  BY <1>1, <1>2, <1>3 DEF Picks
<1>7. \A i \in Using(records, f) : \E n \in DOMAIN packed : packed[n] = records[i].refs[f]
  <2>1. SUFFICES ASSUME NEW i \in Using(records, f)
                 PROVE  \E n \in DOMAIN packed : packed[n] = records[i].refs[f]
    OBVIOUS
  <2> DEFINE same == {j \in Using(records, f) : records[j].refs[f] = records[i].refs[f]}
  <2>2. same \in SUBSET Nat /\ same # {}
    BY WholeFacts DEF Using
  <2>3. PICK j \in same : \A k \in same : j <= k
    <3> HIDE DEF same
    <3> QED BY <2>2, NatHasMin
  <2>4. j \in P
    <3>1. ASSUME NEW k \in Using(records, f), k < j PROVE records[k].refs[f] # records[j].refs[f]
      <4>1. k \in Nat /\ j \in Nat /\ ~ (j <= k)
        BY <2>2, <3>1, WholeFacts DEF Using
      <4> QED BY <2>3, <4>1
    <3> QED BY <3>1 DEF FirstUses
  <2>5. PICK n \in DOMAIN first : first[n] = records[j]
    BY <1>2, <2>4 DEF Picks
  <2> QED BY <1>3, <2>5
<1>8. \A m, n \in DOMAIN packed : packed[m] = packed[n] => m = n
  <2>1. SUFFICES ASSUME NEW m \in DOMAIN packed, NEW n \in DOMAIN packed, m # n
                 PROVE  packed[m] # packed[n]
    OBVIOUS
  <2>2. PICK i \in P, j \in P : i # j /\ first[m] = records[i] /\ first[n] = records[j]
    BY <1>2, <1>3, <2>1 DEF Picks
  <2>3. i \in Nat /\ j \in Nat
    BY <1>1, WholeFacts
  <2>4. i < j \/ j < i
    BY <2>2, <2>3
  <2>5. records[i].refs[f] # records[j].refs[f]
    BY <1>1, <2>4 DEF FirstUses
  <2> QED BY <1>3, <2>2, <2>5
<1> QED BY <1>5, <1>6, <1>7, <1>8 DEF packed

NewSlot(records, i, f) == SelectInSeq(Packed(records, f), LAMBDA s : s = records[i].refs[f])

\* The packed slot of a reference is where its old slot was moved.
LEMMA PackedSlot ==
  ASSUME NEW records, Whole(records), NEW i \in DOMAIN records, NEW f \in DOMAIN records[i].refs
  PROVE  /\ NewSlot(records, i, f) \in DOMAIN Packed(records, f) /\ NewSlot(records, i, f) \in Nat \ {0}
         /\ Packed(records, f)[NewSlot(records, i, f)] = records[i].refs[f]
<1> DEFINE packed == Packed(records, f)
           old == records[i].refs[f]
           I == {n \in 1..Len(packed) : packed[n] = old}
<1>1. i \in Using(records, f)
  BY DEF Using
<1>2. PICK n \in DOMAIN packed : packed[n] = old
  BY <1>1, PackedSlots
<1>3. DOMAIN packed = 1..Len(packed) /\ Len(packed) \in Nat
  BY PackedSlots
<1> HIDE DEF packed
<1>4. I \in SUBSET Nat /\ I # {}
  BY <1>2, <1>3
<1>5. Min(I) \in I
  <2> HIDE DEF I
  <2> QED BY <1>4, MinOfNats
<1>6. NewSlot(records, i, f) = Min(I)
  BY <1>4 DEF SelectInSeq, NewSlot, packed
<1>7. Min(I) \in DOMAIN packed /\ Min(I) \in Nat \ {0} /\ packed[Min(I)] = old
  BY <1>3, <1>5
<1> QED BY <1>6, <1>7 DEF packed

\* A record whose references moved to their packed slots.
Moved(records, r, q) ==
  /\ DOMAIN q = {"image", "track", "refs"} /\ q.image = r.image /\ q.track = r.track
  /\ DOMAIN q.refs = DOMAIN r.refs /\ q.refs \in [DOMAIN r.refs -> Nat]
  /\ \A f \in DOMAIN r.refs :
       q.refs[f] + 1 \in DOMAIN Packed(records, f) /\ Packed(records, f)[q.refs[f] + 1] = r.refs[f]

\* Repointed moves every reference and changes nothing else.
LEMMA RepointedRecords ==
  ASSUME NEW records, Whole(records),
         \A r \in Range(records) : DOMAIN r = {"image", "track", "refs"}
  PROVE  /\ Whole(Repointed(records)) /\ DOMAIN Repointed(records) = DOMAIN records
         /\ \A i \in DOMAIN records : Moved(records, records[i], Repointed(records)[i])
<1> DEFINE moved == Repointed(records)
<1>1. DOMAIN records = 1..Len(records) /\ Len(records) \in Nat
  BY WholeFacts
<1>2. DOMAIN moved = DOMAIN records /\ moved \in [1..Len(records) -> Range(moved)]
  BY <1>1 DEF Repointed, Range
<1>3. Whole(moved)
  BY <1>1, <1>2, FunctionIsWhole
<1>4. ASSUME NEW i \in DOMAIN records PROVE Moved(records, records[i], moved[i])
  <2> DEFINE r == records[i]
             q == moved[i]
             refs == [f \in DOMAIN r.refs |-> NewSlot(records, i, f) - 1]
  <2>1. DOMAIN r = {"image", "track", "refs"}
    BY WholeFacts
  <2>2. q = [r EXCEPT !.refs = refs]
    BY DEF Repointed, NewSlot
  <2>3. \A f \in DOMAIN r.refs :
          /\ NewSlot(records, i, f) \in Nat \ {0} /\ NewSlot(records, i, f) \in DOMAIN Packed(records, f)
          /\ Packed(records, f)[NewSlot(records, i, f)] = r.refs[f]
    BY PackedSlot
  <2> HIDE DEF q, r
  <2>4. DOMAIN q = {"image", "track", "refs"} /\ q.image = r.image /\ q.track = r.track /\ q.refs = refs
    BY <2>1, <2>2
  <2>5. refs \in [DOMAIN r.refs -> Nat] /\ \A f \in DOMAIN r.refs : refs[f] + 1 = NewSlot(records, i, f)
    BY <2>3
  <2> HIDE DEF refs
  <2>6. Moved(records, r, q)
    BY <2>3, <2>4, <2>5 DEF Moved
  <2> QED BY <2>6 DEF q, r
<1> QED BY <1>2, <1>3, <1>4

------------------------------------------------------------------------------
(* What a removal makes of a store *)

\* The record of a track is the one that names it.
LEMMA RecordFound ==
  ASSUME NEW records, Whole(records), Apart(records), NEW r \in Range(records)
  PROVE  r.track \in TracksOf(records) /\ RecordOf(records, r.track) = r
<1>1. \A q \in Range(records) : q.track = r.track => q = r
  <2>1. SUFFICES ASSUME NEW q \in Range(records), q.track = r.track PROVE q = r
    OBVIOUS
  <2>2. PICK i \in DOMAIN records, j \in DOMAIN records : q = records[i] /\ r = records[j]
    BY WholeFacts
  <2> QED BY <2>1, <2>2 DEF Apart
<1> QED BY <1>1 DEF TracksOf, RecordOf

LEMMA TrackFound ==
  ASSUME NEW records, Whole(records), Apart(records), NEW t \in TracksOf(records)
  PROVE  RecordOf(records, t) \in Range(records) /\ RecordOf(records, t).track = t
<1>1. PICK r \in Range(records) : r.track = t
  BY DEF TracksOf
<1> QED BY <1>1, RecordFound

\* A record q over some files shows what r shows over others.
SameImages(r, files, q, others) ==
  /\ DOMAIN q.refs = DOMAIN r.refs
  /\ \A f \in DOMAIN r.refs :
       /\ f \in DOMAIN files /\ r.refs[f] < Len(files[f])
       /\ f \in DOMAIN others /\ q.refs[f] < Len(others[f])
       /\ others[f][q.refs[f] + 1] = files[f][r.refs[f] + 1]

LEMMA SameShown ==
  ASSUME NEW store, NEW new, NEW t, NEW u,
         t \in TracksOf(store.records), u \in TracksOf(new.records),
         SameImages(RecordOf(store.records, t), store.files, RecordOf(new.records, u), new.files)
  PROVE  Shown(new, u) = Shown(store, t)
<1> DEFINE r == RecordOf(store.records, t)
           q == RecordOf(new.records, u)
<1>1. Readable(store, r) /\ Readable(new, q)
  BY DEF SameImages, Readable
<1>2. Shown(store, t) = [f \in DOMAIN r.refs |-> store.files[f][r.refs[f] + 1]]
  BY <1>1 DEF Shown
<1>3. Shown(new, u) = [f \in DOMAIN q.refs |-> new.files[f][q.refs[f] + 1]]
  BY <1>1 DEF Shown
<1> HIDE DEF r, q
<1>4. DOMAIN q.refs = DOMAIN r.refs
      /\ \A f \in DOMAIN r.refs : new.files[f][q.refs[f] + 1] = store.files[f][r.refs[f] + 1]
  BY DEF SameImages, r, q
<1> QED BY <1>2, <1>3, <1>4

LEMMA SoundRecords ==
  ASSUME NEW store, SoundStore(store)
  PROVE  /\ Whole(store.records) /\ Apart(store.records)
         /\ \A r \in Range(store.records) : SoundRecord(store, r)
         /\ DOMAIN store = {"present", "records", "next", "files"} /\ store.next \in Nat
         /\ \A f \in DOMAIN store.files : f \in Nat /\ store.files[f] \in Seq(Nat)
BY DEF SoundStore, Whole, Apart

\* The packed store: the kept records show what they did, every file holds
\* exactly the slots in use, and the image ids stay.
PackedStore(store, removed, new) ==
  /\ Whole(new.records) /\ Apart(new.records)
  /\ \A r \in Range(new.records) : r.image \in Nat /\ r.image < new.next
  /\ new.next = store.next
  /\ TracksOf(new.records) = TracksOf(store.records) \ removed
  /\ DOMAIN new.files = Referenced(store.records)
  /\ \A q \in Range(new.records) : \E r \in Range(store.records) :
       q.track = r.track /\ SameImages(r, store.files, q, new.files)
  /\ \A f \in DOMAIN new.files :
       {r.refs[f] : r \in {s \in Range(new.records) : f \in DOMAIN s.refs}} = 0..(Len(new.files[f]) - 1)

LEMMA ReindexedStore ==
  ASSUME NEW store, SoundStore(store), NEW removed
  PROVE  PackedStore(store, removed, Reindexed(store, removed))
<1> DEFINE new == Reindexed(store, removed)
           kept == Kept(store.records, removed)
           moved == Repointed(kept)
           files == [f \in Referenced(store.records) |->
                      [n \in DOMAIN Packed(kept, f) |-> store.files[f][Packed(kept, f)[n] + 1]]]
<1>1. new = [store EXCEPT !.records = moved, !.files = files]
  BY DEF Reindexed
<1>2. DOMAIN store = {"present", "records", "next", "files"}
  BY SoundRecords
<1> HIDE DEF new, kept, moved, files
<1>3. new.records = moved /\ new.files = files /\ new.next = store.next
  BY <1>1, <1>2
<1>4. /\ Whole(kept) /\ Apart(kept)
      /\ Range(kept) = {r \in Range(store.records) : r.track \notin removed}
  BY SoundRecords, KeptRecords DEF kept
<1>5. \A r \in Range(kept) : r \in Range(store.records) /\ SoundRecord(store, r)
  BY <1>4, SoundRecords
<1>6. /\ Whole(moved) /\ DOMAIN moved = DOMAIN kept
      /\ \A i \in DOMAIN kept : Moved(kept, kept[i], moved[i])
  <2>1. \A r \in Range(kept) : DOMAIN r = {"image", "track", "refs"}
    BY <1>5 DEF SoundRecord
  <2> QED BY <1>4, <2>1, RepointedRecords DEF moved
<1>7. Apart(moved)
  BY <1>4, <1>6 DEF Apart, Moved
<1>8. \A q \in Range(moved) : \E r \in Range(kept) : Moved(kept, r, q)
  <2>1. SUFFICES ASSUME NEW q \in Range(moved) PROVE \E r \in Range(kept) : Moved(kept, r, q)
    OBVIOUS
  <2>2. PICK i \in DOMAIN kept : q = moved[i]
    BY <1>6, WholeFacts
  <2> QED BY <1>4, <1>6, <2>2, WholeFacts
<1>9. \A r \in Range(kept) : \E q \in Range(moved) : Moved(kept, r, q)
  <2>1. SUFFICES ASSUME NEW r \in Range(kept) PROVE \E q \in Range(moved) : Moved(kept, r, q)
    OBVIOUS
  <2>2. PICK i \in DOMAIN kept : r = kept[i]
    BY <1>4, WholeFacts
  <2> QED BY <1>6, <2>2, WholeFacts
<1>10. \A r \in Range(moved) : r.image \in Nat /\ r.image < store.next
  BY <1>5, <1>8 DEF Moved, SoundRecord
<1>11. TracksOf(moved) = TracksOf(store.records) \ removed
  <2>1. ASSUME NEW t \in TracksOf(moved) PROVE t \in TracksOf(store.records) /\ t \notin removed
    <3>1. PICK q \in Range(moved) : q.track = t
      BY <2>1 DEF TracksOf
    <3>2. PICK r \in Range(kept) : Moved(kept, r, q)
      BY <1>8
    <3> QED BY <1>4, <3>1, <3>2 DEF Moved, TracksOf
  <2>2. ASSUME NEW t \in TracksOf(store.records), t \notin removed PROVE t \in TracksOf(moved)
    <3>1. PICK r \in Range(kept) : r.track = t
      BY <1>4, <2>2 DEF TracksOf
    <3>2. PICK q \in Range(moved) : Moved(kept, r, q)
      BY <1>9
    <3> QED BY <3>1, <3>2 DEF Moved, TracksOf
  <2> QED BY <2>1, <2>2
<1>12. DOMAIN files = Referenced(store.records)
  BY DEF files
<1>13. ASSUME NEW f \in DOMAIN files
       PROVE  /\ DOMAIN files[f] = DOMAIN Packed(kept, f) /\ Len(files[f]) \in Nat
              /\ DOMAIN Packed(kept, f) = 1..Len(files[f])
              /\ \A n \in DOMAIN Packed(kept, f) : files[f][n] = store.files[f][Packed(kept, f)[n] + 1]
  <2> DEFINE packed == Packed(kept, f)
  <2>1. files[f] = [n \in DOMAIN packed |-> store.files[f][packed[n] + 1]]
    BY DEF files
  <2>2. DOMAIN packed = 1..Len(packed) /\ Len(packed) \in Nat
    BY <1>4, PackedSlots
  <2> HIDE DEF packed
  <2>3. files[f] \in [1..Len(packed) -> {store.files[f][packed[n] + 1] : n \in DOMAIN packed}]
    BY <2>1, <2>2
  <2>4. Len(files[f]) = Len(packed)
    BY <2>2, <2>3, FunctionIsWhole
  <2> QED BY <2>1, <2>2, <2>4 DEF packed
<1>14. ASSUME NEW r \in Range(kept), NEW q, Moved(kept, r, q)
       PROVE  SameImages(r, store.files, q, files)
  <2>1. SUFFICES ASSUME NEW f \in DOMAIN r.refs
                 PROVE  /\ f \in DOMAIN store.files /\ r.refs[f] < Len(store.files[f])
                        /\ f \in DOMAIN files /\ q.refs[f] < Len(files[f])
                        /\ files[f][q.refs[f] + 1] = store.files[f][r.refs[f] + 1]
    BY <1>14 DEF Moved, SameImages
  <2>2. f \in DOMAIN store.files /\ r.refs[f] < Len(store.files[f])
    BY <1>5 DEF SoundRecord, Readable
  <2>3. f \in DOMAIN files
    BY <1>5, <1>12 DEF Referenced
  <2>4. /\ q.refs[f] \in Nat /\ q.refs[f] + 1 \in DOMAIN Packed(kept, f)
        /\ Packed(kept, f)[q.refs[f] + 1] = r.refs[f]
    BY <1>14 DEF Moved
  <2>5. q.refs[f] < Len(files[f])
    BY <1>13, <2>3, <2>4
  <2>6. files[f][q.refs[f] + 1] = store.files[f][r.refs[f] + 1]
    BY <1>13, <2>3, <2>4
  <2> QED BY <2>2, <2>3, <2>5, <2>6
<1>15. \A q \in Range(moved) : \E r \in Range(store.records) :
         q.track = r.track /\ SameImages(r, store.files, q, files)
  BY <1>5, <1>8, <1>14 DEF Moved
<1>16. ASSUME NEW f \in DOMAIN files
       PROVE  {r.refs[f] : r \in {s \in Range(moved) : f \in DOMAIN s.refs}} = 0..(Len(files[f]) - 1)
  <2> DEFINE used == {r.refs[f] : r \in {s \in Range(moved) : f \in DOMAIN s.refs}}
  <2>1. ASSUME NEW x \in used PROVE x \in 0..(Len(files[f]) - 1)
    <3>1. PICK q \in Range(moved) : f \in DOMAIN q.refs /\ x = q.refs[f]
      OBVIOUS
    <3>2. PICK r \in Range(kept) : Moved(kept, r, q)
      BY <1>8
    <3>3. x \in Nat /\ x + 1 \in DOMAIN Packed(kept, f)
      BY <3>1, <3>2 DEF Moved
    <3> QED BY <1>13, <3>3
  <2>2. ASSUME NEW x \in 0..(Len(files[f]) - 1) PROVE x \in used
    <3>1. x \in Nat /\ x + 1 \in DOMAIN Packed(kept, f)
      BY <1>13
    <3>2. PICK i \in Using(kept, f) : Packed(kept, f)[x + 1] = kept[i].refs[f]
      BY <1>4, <3>1, PackedSlots
    <3>3. i \in DOMAIN kept /\ f \in DOMAIN kept[i].refs
      BY DEF Using
    <3>4. Moved(kept, kept[i], moved[i]) /\ moved[i] \in Range(moved)
      BY <1>6, <3>3, WholeFacts
    <3> DEFINE y == moved[i].refs[f]
    <3>5. /\ f \in DOMAIN moved[i].refs /\ y \in Nat
          /\ y + 1 \in DOMAIN Packed(kept, f) /\ Packed(kept, f)[y + 1] = kept[i].refs[f]
      BY <3>3, <3>4 DEF Moved
    <3>6. y + 1 = x + 1
      <4> HIDE DEF y
      <4> QED BY <1>4, <3>1, <3>2, <3>5, PackedSlots
    <3>7. y = x
      <4> HIDE DEF y
      <4> QED BY <3>1, <3>5, <3>6
    <3> QED BY <3>4, <3>5, <3>7
  <2> QED BY <2>1, <2>2
<1>17. PackedStore(store, removed, new)
  BY <1>3, <1>6, <1>7, <1>10, <1>11, <1>12, <1>15, <1>16 DEF PackedStore
<1> QED BY <1>17 DEF new

------------------------------------------------------------------------------
(* What an addition makes of a store *)

LEMMA LastImageBounds ==
  ASSUME NEW records, Whole(records), \A r \in Range(records) : r.image \in Nat
  PROVE  LastImage(records) \in Nat /\ \A r \in Range(records) : r.image <= LastImage(records)
<1> DEFINE f == [i \in DOMAIN records |-> records[i].image]
           images == {r.image : r \in Range(records)}
<1>1. DOMAIN records = 1..Len(records) /\ Len(records) \in Nat
  BY WholeFacts
<1>2. CASE records = <<>>
  <2>1. Range(records) = {}
    BY <1>2 DEF Range
  <2> QED BY <1>2, <2>1 DEF LastImage
<1>3. CASE records # <<>>
  <2>1. images = {f[i] : i \in DOMAIN f}
    BY DEF Range
  <2>2. IsFiniteSet(DOMAIN f)
    BY <1>1, FS_Interval
  <2>3. IsFiniteSet(images)
    <3> HIDE DEF f, images
    <3> QED BY <2>1, <2>2, ImageIsFinite
  <2>4. images \in SUBSET Nat /\ images # {}
    <3>1. records \in Seq(Range(records))
      BY DEF Whole
    <3>2. Len(records) # 0
      BY <1>1, <1>3, <3>1, EmptySeq
    <3>3. 1 \in DOMAIN records
      BY <1>1, <3>2
    <3> QED BY <3>3 DEF Range
  <2>5. Max(images) \in images /\ \A y \in images : Max(images) >= y
    <3> HIDE DEF images
    <3> QED BY <2>3, <2>4, MaxOfNats
  <2>6. LastImage(records) = Max(images)
    BY <1>3 DEF LastImage
  <2>7. \A r \in Range(records) : r.image \in images
    OBVIOUS
  <2> HIDE DEF images
  <2>8. LastImage(records) \in Nat /\ LastImage(records) \in images
    BY <2>4, <2>5, <2>6
  <2>9. \A y \in images : y \in Nat /\ y <= LastImage(records)
    BY <2>4, <2>5, <2>6, <2>8
  <2> QED BY <2>7, <2>8, <2>9
<1> QED BY <1>2, <1>3

\* The records of a store with others after them.
LongerStore(store, new, longer) ==
  /\ Whole(longer.records) /\ Apart(longer.records)
  /\ Range(longer.records) = Range(store.records) \cup Range(new)
  /\ longer.files = store.files
  /\ \A r \in Range(longer.records) : r.image \in Nat /\ r.image < longer.next

LEMMA WithRecordsStore ==
  ASSUME NEW store, SoundStore(store), NEW new, Whole(new), Apart(new),
         \A r \in Range(new) : /\ r.image \in Nat /\ r.image > LastImage(store.records)
                               /\ r.track \notin TracksOf(store.records)
  PROVE  LongerStore(store, new, WithRecords(store, new))
<1> DEFINE longer == WithRecords(store, new)
           old == store.records
           records == old \o new
           all == Range(old) \cup Range(new)
           last == LastImage(new) + 1
           next == Max({store.next, last})
<1>1. DOMAIN store = {"present", "records", "next", "files"} /\ store.next \in Nat
  BY SoundRecords
<1>2. longer = [store EXCEPT !.records = records, !.next = next]
  BY DEF WithRecords
<1> HIDE DEF longer, records, next
<1>3. longer.records = records /\ longer.files = store.files /\ longer.next = next
  BY <1>1, <1>2
<1>4. /\ Whole(old) /\ Apart(old)
      /\ \A r \in Range(old) : r.image \in Nat /\ r.image < store.next
  BY SoundRecords DEF SoundRecord
<1>5. old \in Seq(all) /\ new \in Seq(all)
  <2>1. old \in Seq(Range(old)) /\ new \in Seq(Range(new))
    BY <1>4 DEF Whole
  <2> QED BY <2>1, SeqMonotonic
<1>6. /\ Len(old) \in Nat /\ Len(new) \in Nat
      /\ DOMAIN old = 1..Len(old) /\ DOMAIN new = 1..Len(new)
  BY <1>4, WholeFacts
<1>7. /\ records \in Seq(all) /\ DOMAIN records = 1..(Len(old) + Len(new))
      /\ \A i \in 1..(Len(old) + Len(new)) :
           records[i] = IF i <= Len(old) THEN old[i] ELSE new[i - Len(old)]
  <2>1. records \in Seq(all) /\ Len(records) = Len(old) + Len(new)
    BY <1>5, ConcatProperties DEF records
  <2>2. DOMAIN records = 1..Len(records)
    BY <2>1, LenProperties
  <2>3. \A i \in 1..(Len(old) + Len(new)) :
          records[i] = IF i <= Len(old) THEN old[i] ELSE new[i - Len(old)]
    BY <1>5, ConcatProperties DEF records
  <2> QED BY <2>1, <2>2, <2>3
<1>8. Whole(records)
  BY <1>7, SeqIsWhole
<1>9. Range(records) = all
  BY <1>5, RangeConcatenation DEF records
<1>10. LastImage(new) \in Nat /\ \A r \in Range(new) : r.image <= LastImage(new)
  BY LastImageBounds
<1>11. LastImage(old) \in Nat /\ \A r \in Range(old) : r.image <= LastImage(old)
  BY <1>4, LastImageBounds
<1>12. next \in Nat /\ next >= store.next /\ next >= last
  <2> DEFINE both == {store.next, last}
  <2>1. both \in SUBSET Nat /\ both # {} /\ store.next \in both /\ last \in both
    BY <1>1, <1>10
  <2>2. IsFiniteSet(both)
    <3>1. IsFiniteSet({store.next}) /\ both = {store.next} \cup {last}
      BY FS_Singleton
    <3> QED BY <3>1, FS_AddElement
  <2>3. next = Max(both)
    BY DEF next
  <2> HIDE DEF both
  <2> QED BY <2>1, <2>2, <2>3, MaxOfNats
<1>13. \A r \in Range(records) : r.image \in Nat /\ r.image < next
  <2>1. ASSUME NEW r \in Range(old) PROVE r.image \in Nat /\ r.image < next
    BY <1>1, <1>4, <1>12
  <2>2. ASSUME NEW r \in Range(new) PROVE r.image \in Nat /\ r.image < next
    BY <1>10, <1>12
  <2> QED BY <1>9, <2>1, <2>2
<1>14. ASSUME NEW r \in Range(old), NEW q \in Range(new) PROVE r.track # q.track /\ r.image # q.image
  <2>1. r.track # q.track
    BY DEF TracksOf
  <2>2. r.image \in Nat /\ r.image <= LastImage(old)
    BY <1>4, <1>11
  <2>3. q.image \in Nat /\ q.image > LastImage(old)
    OBVIOUS
  <2> QED BY <1>11, <2>1, <2>2, <2>3
<1>15. Apart(records)
  <2>1. SUFFICES ASSUME NEW i \in DOMAIN records, NEW j \in DOMAIN records, i # j
                 PROVE  records[i].track # records[j].track /\ records[i].image # records[j].image
    BY DEF Apart
  <2>2. \A n \in DOMAIN records :
          \/ n \in DOMAIN old /\ n <= Len(old) /\ records[n] = old[n]
          \/ n - Len(old) \in DOMAIN new /\ n > Len(old) /\ records[n] = new[n - Len(old)]
    <3>1. ASSUME NEW n \in 1..(Len(old) + Len(new))
          PROVE  \/ n \in 1..Len(old) /\ n <= Len(old) /\ records[n] = old[n]
                 \/ n - Len(old) \in 1..Len(new) /\ n > Len(old) /\ records[n] = new[n - Len(old)]
      <4>1. records[n] = IF n <= Len(old) THEN old[n] ELSE new[n - Len(old)]
        BY <1>7
      <4>2. n <= Len(old) => n \in 1..Len(old)
        BY <1>6
      <4>3. ~(n <= Len(old)) => n > Len(old) /\ n - Len(old) \in 1..Len(new)
        BY <1>6
      <4> QED BY <4>1, <4>2, <4>3
    <3>2. DOMAIN records = 1..(Len(old) + Len(new))
      BY <1>7
    <3> QED BY <1>6, <3>1, <3>2
  <2>3. i \in Nat /\ j \in Nat
    BY <1>6, <1>7
  <2>4. CASE i <= Len(old) /\ j <= Len(old)
    BY <1>4, <1>6, <2>1, <2>2, <2>3, <2>4 DEF Apart
  <2>5. CASE i > Len(old) /\ j > Len(old)
    <3>1. i - Len(old) # j - Len(old)
      BY <1>6, <2>1, <2>3
    <3>2. /\ i - Len(old) \in DOMAIN new /\ records[i] = new[i - Len(old)]
          /\ j - Len(old) \in DOMAIN new /\ records[j] = new[j - Len(old)]
      BY <1>6, <2>2, <2>3, <2>5
    <3> QED BY <3>1, <3>2 DEF Apart
  <2>6. CASE i <= Len(old) /\ j > Len(old)
    <3>1. records[i] \in Range(old) /\ records[j] \in Range(new)
      BY <1>4, <1>6, <2>2, <2>3, <2>6, WholeFacts
    <3> QED BY <1>14, <3>1
  <2>7. CASE i > Len(old) /\ j <= Len(old)
    <3>1. records[i] \in Range(new) /\ records[j] \in Range(old)
      BY <1>4, <1>6, <2>2, <2>3, <2>7, WholeFacts
    <3> QED BY <1>14, <3>1
  <2> QED BY <1>6, <2>3, <2>4, <2>5, <2>6, <2>7
<1>16. LongerStore(store, new, longer)
  BY <1>3, <1>8, <1>9, <1>13, <1>15 DEF LongerStore
<1> QED BY <1>16 DEF longer

\* What WithFrames makes of a file: the frames follow what it had.
LEMMA FramesFollow ==
  ASSUME NEW file \in Seq(Nat), NEW frames, Whole(frames), \A n \in DOMAIN frames : frames[n].image \in Nat
  PROVE  /\ WithFrames(file, frames) \in Seq(Nat)
         /\ Len(file) \in Nat /\ Len(WithFrames(file, frames)) = Len(file) + Len(frames)
         /\ \A n \in 1..Len(file) : WithFrames(file, frames)[n] = file[n]
         /\ \A n \in DOMAIN frames : WithFrames(file, frames)[Len(file) + n] = frames[n].image
<1> DEFINE images == [i \in DOMAIN frames |-> frames[i].image]
           longer == WithFrames(file, frames)
<1>1. DOMAIN frames = 1..Len(frames) /\ Len(frames) \in Nat /\ Len(file) \in Nat
  BY WholeFacts, LenProperties
<1>2. images \in [1..Len(frames) -> Nat]
  BY <1>1
<1>3. images \in Seq(Nat) /\ Len(images) = Len(frames)
  <2> HIDE DEF images
  <2> QED BY <1>1, <1>2, FunctionIsWhole
<1>4. longer = file \o images
  BY DEF WithFrames
<1> HIDE DEF images, longer
<1>5. /\ longer \in Seq(Nat) /\ Len(longer) = Len(file) + Len(frames)
      /\ \A n \in 1..(Len(file) + Len(frames)) :
           longer[n] = IF n <= Len(file) THEN file[n] ELSE images[n - Len(file)]
  <2>1. longer \in Seq(Nat) /\ Len(longer) = Len(file) + Len(images)
    BY <1>3, <1>4, ConcatProperties
  <2>2. \A n \in 1..(Len(file) + Len(images)) :
          longer[n] = IF n <= Len(file) THEN file[n] ELSE images[n - Len(file)]
    BY <1>3, <1>4, ConcatProperties
  <2> QED BY <1>3, <2>1, <2>2
<1>6. \A n \in 1..Len(file) : longer[n] = file[n]
  BY <1>1, <1>5
<1>7. \A n \in DOMAIN frames : longer[Len(file) + n] = frames[n].image
  <2>1. SUFFICES ASSUME NEW n \in 1..Len(frames) PROVE longer[Len(file) + n] = frames[n].image
    BY <1>1
  <2>2. /\ Len(file) + n \in 1..(Len(file) + Len(frames)) /\ ~ (Len(file) + n <= Len(file))
        /\ (Len(file) + n) - Len(file) = n
    BY <1>1
  <2>3. longer[Len(file) + n] = images[n]
    BY <1>5, <2>2
  <2> QED BY <1>1, <2>3 DEF images
<1> QED BY <1>1, <1>5, <1>6, <1>7 DEF longer

------------------------------------------------------------------------------
(* The invariant *)

Phases ==
  {"capture", "backup", "resolve", "allocate", "database", "cdb", "reindex",
   "extend", "records", "frames", "verify", "staged", "refused"}
Edited == {"cdb", "reindex", "extend", "records", "frames", "verify", "staged"}
Extended == {"records", "frames", "verify", "staged"}
Closing == {"frames", "verify", "staged"}
Closed == {"verify", "staged"}

\* What was opened is what the device holds, and what it has held since: when it
\* changes more than once it may also have changed back.
Quiet == live = opened /\ (writes = 0 \/ MaxWrites <= 1)

\* The device may have changed before it was fingerprinted, never without a write.
InvOpened ==
  /\ live \in Devices /\ opened \in Devices /\ original \in Devices
  /\ profile \in Profiles /\ request \in Requests /\ writes \in 0..MaxWrites
  /\ \E d \in Devices : library = d.tracks
  /\ request.removals \subseteq DOMAIN library
  /\ phase \in Phases /\ (phase = "refused" <=> why # "")
  /\ writes = 0 => live = opened /\ library = opened.tracks
  /\ phase \in Edited \cup {"resolve", "allocate", "database"} => original = opened
  /\ phase \in Edited => request.removals \subseteq DOMAIN opened.tracks
  /\ phase \in {"extend", "records", "frames"} => resolved # <<>>
  /\ phase = "extend" => ~Binary
  /\ phase = "staged" => live = opened

\* What an addition asks for, and what was found for it.
LinkShape(i, link) ==
  \/ link = None
  \/ /\ link.kind = "new" /\ link.refs \in [active -> Nat]
     /\ link.frames = [f \in active |-> NewImage(i, f)]
  \/ link.kind = "reused" /\ link.frames = <<>>

\* The additions so far, in the order of the request.
InvResolved ==
  /\ Whole(resolved) /\ Len(resolved) <= Len(request.additions)
  /\ phase = "allocate" => Len(resolved) < Len(request.additions)
  /\ phase \in {"capture", "backup", "resolve"} => resolved = <<>>
  /\ active \subseteq profile.formats /\ nextImage \in Nat
  /\ \A i \in DOMAIN resolved : resolved[i].pid = NewPids[i] /\ LinkShape(i, resolved[i].link)

\* The slots and image ids handed out so far continue the store that was opened.
LinkFits(i, link) ==
  /\ link.kind = "new" =>
       \A f \in active : link.refs[f] = Len(FileOf(opened.store.files, f)) + Cardinality({j \in Drawing(f) : j < i})
  /\ link.kind = "reused" =>
       /\ link.mate \in TracksOf(opened.store.records)
       /\ link.refs = RecordOf(opened.store.records, link.mate).refs
  /\ link.kind # "none" =>
       link.image \in Nat /\ link.image > LastImage(opened.store.records) /\ link.image < nextImage

InvLinks ==
  Quiet =>
    /\ phase = "allocate" /\ WithArt => nextImage > LastImage(opened.store.records)
    /\ \A i \in DOMAIN resolved : LinkFits(i, resolved[i].link)
    /\ \A i, j \in DOMAIN resolved :
         i < j /\ resolved[i].link.kind # "none" /\ resolved[j].link.kind # "none" =>
           resolved[i].link.image < resolved[j].link.image

\* The artwork as the removal leaves it, and then the additions.
Repacked == Supported /\ request.removals \cap TracksOf(opened.store.records) # {}
RepackedStore == Reindexed(opened.store, request.removals \cap TracksOf(opened.store.records))
ArtworkOf(store) == [present |-> TRUE, records |-> store.records, next |-> store.next]
BaseArtwork == IF Repacked THEN ArtworkOf(RepackedStore) ELSE Unwritten
BaseFiles == IF Repacked THEN RepackedStore.files ELSE <<>>
FullArtwork ==
  IF Supported /\ Linked # <<>> THEN ArtworkOf(WithRecords(opened.store, NewRecords)) ELSE BaseArtwork
BaseOf(f) == IF f \in DOMAIN BaseFiles THEN BaseFiles[f] ELSE FileOf(opened.store.files, f)

\* The staged outputs at every phase, as functions of what was opened.
InvBundle ==
  /\ DOMAIN bundle = {"tracks", "cdb", "artwork", "files"}
  /\ phase \in Edited => bundle.tracks = (DOMAIN opened.tracks \ request.removals) \cup Added
  /\ phase \notin Extended \cup {"extend", "refused"} => bundle.artwork = Unwritten /\ bundle.files = <<>>
  /\ Quiet =>
       /\ phase \in {"reindex", "extend"} /\ ~Binary /\ resolved = <<>> =>
            bundle.cdb = opened.cdb \ request.removals
       /\ phase \in Extended /\ ~Binary =>
            bundle.cdb = IF resolved = <<>> THEN opened.cdb \ request.removals ELSE opened.cdb \cup Added
       /\ phase \in {"extend", "records"} => bundle.artwork = BaseArtwork
       /\ phase \in {"extend", "records", "frames"} => bundle.files = BaseFiles
       /\ phase \in Closing => bundle.artwork = FullArtwork
       /\ phase \in Closed =>
            /\ DOMAIN bundle.files = DOMAIN BaseFiles \cup Framed
            /\ \A f \in DOMAIN bundle.files :
                 bundle.files[f] = IF f \in Framed THEN WithFrames(BaseOf(f), FramesOf(f)) ELSE BaseFiles[f]

StagingInvariant == InvOpened /\ InvResolved /\ InvLinks /\ InvBundle /\ RefusedForCause

------------------------------------------------------------------------------
(* What a step keeps *)

\* Nothing that depends on the additions changes with the rest.
LEMMA SameResolved ==
  ASSUME resolved' = resolved
  PROVE  /\ Added' = Added /\ Linked' = Linked /\ NewRecords' = NewRecords /\ Framed' = Framed
         /\ \A f : Drawing(f)' = Drawing(f) /\ FramesOf(f)' = FramesOf(f)
BY DEF Added, Linked, NewRecords, Framed, Drawing, FramesOf

LEMMA SameBase ==
  ASSUME resolved' = resolved, opened' = opened, profile' = profile, request' = request
  PROVE  /\ Repacked' = Repacked /\ BaseArtwork' = BaseArtwork /\ BaseFiles' = BaseFiles
         /\ FullArtwork' = FullArtwork /\ \A f : BaseOf(f)' = BaseOf(f)
<1>1. Linked' = Linked /\ NewRecords' = NewRecords
  BY SameResolved
<1>2. Supported' = Supported /\ Repacked' = Repacked /\ RepackedStore' = RepackedStore
  BY DEF Supported, Repacked, RepackedStore
<1> QED BY <1>1, <1>2 DEF BaseArtwork, BaseFiles, FullArtwork, BaseOf

LEMMA ResolvedKept ==
  ASSUME InvResolved, resolved' = resolved, active' = active, nextImage' = nextImage, request' = request, profile' = profile,
         phase' # "allocate", phase' \in {"capture", "backup", "resolve"} => resolved = <<>>
  PROVE  InvResolved'
BY DEF InvResolved, LinkShape, NewImage

LEMMA LinksKept ==
  ASSUME InvLinks, Quiet' => Quiet, phase' # "allocate",
         resolved' = resolved, active' = active, request' = request, opened' = opened, nextImage' = nextImage
  PROVE  InvLinks'
<1>1. ASSUME Quiet' PROVE Quiet /\ \A i \in DOMAIN resolved : LinkFits(i, resolved[i].link)
  BY <1>1 DEF InvLinks
<1>2. \A i, link : LinkFits(i, link)' <=> LinkFits(i, link)
  BY SameResolved DEF LinkFits
<1> QED BY <1>1, <1>2 DEF InvLinks

\* A staging that goes on has no error.
LEMMA NoCause ==
  ASSUME InvOpened, phase # "refused", why' = why
  PROVE  RefusedForCause'
BY DEF InvOpened, RefusedForCause

LEMMA RefuseStep ==
  ASSUME StagingInvariant, phase # "refused", NEW reason, reason # "", Refuse(reason),
         reason \in {"removals", "cdb", "artwork", "changed", "semantics", "generation", "targets"} =>
           writes > 0 \/ MixedArt \/ (~Supported /\ reason = "targets")
  PROVE  StagingInvariant'
<1>1. /\ phase' = "refused" /\ why' = reason
      /\ UNCHANGED <<live, library, opened, original, profile, request, writes>>
      /\ UNCHANGED <<resolved, active, nextImage, bundle>>
  BY DEF Refuse, unstaged
<1>2. InvOpened'
  BY <1>1 DEF StagingInvariant, InvOpened, Phases, Edited
<1>3. InvResolved'
  BY <1>1, ResolvedKept DEF StagingInvariant
<1>4. InvLinks'
  BY <1>1, LinksKept DEF StagingInvariant, Quiet
<1>5. InvBundle'
  BY <1>1 DEF StagingInvariant, InvBundle, Edited, Extended, Closing, Closed
<1>6. RefusedForCause'
  <2>1. MixedArt' = MixedArt /\ Supported' = Supported
    BY <1>1, SameResolved DEF MixedArt, Removing, Supported
  <2> QED BY <1>1, <2>1 DEF RefusedForCause
<1> QED BY <1>2, <1>3, <1>4, <1>5, <1>6 DEF StagingInvariant

\* A step that stages nothing keeps what was staged.
LEMMA BundleKept ==
  ASSUME InvBundle, Quiet' => Quiet, opened' = opened, profile' = profile, request' = request,
         resolved' = resolved, bundle' = bundle,
         phase' = phase \/ (phase = "verify" /\ phase' = "staged")
  PROVE  InvBundle'
<1>1. /\ Repacked' = Repacked /\ BaseArtwork' = BaseArtwork /\ BaseFiles' = BaseFiles
      /\ FullArtwork' = FullArtwork /\ \A f : BaseOf(f)' = BaseOf(f)
      /\ Added' = Added /\ Framed' = Framed /\ \A f : FramesOf(f)' = FramesOf(f)
  BY SameBase, SameResolved
<1>2. phase' \in Edited <=> phase \in Edited
  BY DEF Edited
<1>3. phase' \in Extended <=> phase \in Extended
  BY DEF Extended
<1>4. phase' \in Closing <=> phase \in Closing
  BY DEF Closing
<1>5. phase' \in Closed <=> phase \in Closed
  BY DEF Closed
<1>6. Binary' = Binary
  BY DEF Binary
<1>7. Quiet' =>
        /\ phase' \in {"reindex", "extend"} /\ ~Binary' /\ resolved' = <<>> =>
             bundle'.cdb = opened'.cdb \ request'.removals
        /\ phase' \in Extended /\ ~Binary' =>
             bundle'.cdb = IF resolved' = <<>> THEN opened'.cdb \ request'.removals ELSE opened'.cdb \cup Added'
        /\ phase' \in {"extend", "records"} => bundle'.artwork = BaseArtwork'
        /\ phase' \in {"extend", "records", "frames"} => bundle'.files = BaseFiles'
        /\ phase' \in Closing => bundle'.artwork = FullArtwork'
  BY <1>1, <1>3, <1>4, <1>6 DEF InvBundle
<1>8. Quiet' /\ phase' \in Closed =>
        /\ DOMAIN bundle'.files = DOMAIN BaseFiles' \cup Framed'
        /\ \A f \in DOMAIN bundle'.files :
             bundle'.files[f] = IF f \in Framed' THEN WithFrames(BaseOf(f)', FramesOf(f)') ELSE BaseFiles'[f]
  BY <1>1, <1>5 DEF InvBundle
<1>9. /\ phase' \in Edited => bundle'.tracks = (DOMAIN opened'.tracks \ request'.removals) \cup Added'
      /\ DOMAIN bundle' = {"tracks", "cdb", "artwork", "files"}
      /\ phase' \notin Extended \cup {"extend", "refused"} => bundle'.artwork = Unwritten /\ bundle'.files = <<>>
  BY <1>1, <1>2, <1>3 DEF InvBundle, Extended
<1> QED BY <1>7, <1>8, <1>9 DEF InvBundle

\* When another program changes the device, what was opened is no longer there,
\* or was changed before.
LEMMA AnotherStep ==
  ASSUME StagingInvariant, InstalledByAnother
  PROVE  StagingInvariant'
<1>1. /\ writes < MaxWrites /\ writes' = writes + 1 /\ phase \notin {"staged", "refused"}
      /\ live' \in Devices /\ live' # live
      /\ UNCHANGED <<library, opened, original, profile, request, resolved, active,
                     nextImage, bundle, phase, why>>
  BY StagingAssumptions DEF InstalledByAnother
<1>2. writes \in 0..MaxWrites /\ MaxWrites \in Nat /\ (writes = 0 => live = opened)
  BY StagingAssumptions DEF StagingInvariant, InvOpened
<1>3. ~ Quiet'
  <2>1. SUFFICES ASSUME Quiet' PROVE FALSE
    OBVIOUS
  <2>2. live' = opened /\ MaxWrites <= 1 /\ writes = 0
    BY <1>1, <1>2, <2>1 DEF Quiet
  <2> QED BY <1>1, <1>2, <2>2
<1>4. InvOpened'
  <2>1. writes' \in 0..MaxWrites /\ writes' # 0
    BY <1>1, <1>2
  <2>2. Binary' = Binary
    BY <1>1 DEF Binary
  <2>3. InvOpened
    BY DEF StagingInvariant
  <2> QED BY <1>1, <2>1, <2>2, <2>3 DEF InvOpened
<1>5. InvResolved'
  BY <1>1 DEF StagingInvariant, InvResolved, LinkShape, NewImage
<1>6. InvLinks'
  BY <1>3 DEF InvLinks
<1>7. InvBundle'
  <2>1. /\ InvBundle /\ (Quiet' => Quiet) /\ phase' = phase
        /\ opened' = opened /\ profile' = profile /\ request' = request
        /\ resolved' = resolved /\ bundle' = bundle
    BY <1>1, <1>3 DEF StagingInvariant
  <2> QED BY <2>1, BundleKept
<1>8. RefusedForCause'
  BY <1>1, NoCause DEF StagingInvariant
<1> QED BY <1>4, <1>5, <1>6, <1>7, <1>8 DEF StagingInvariant

\* A staging that finds the device changed has seen another program.
LEMMA Written ==
  ASSUME InvOpened, live # opened \/ library # opened.tracks
  PROVE  writes > 0
<1>1. writes # 0
  BY DEF InvOpened
<1>2. writes \in 0..MaxWrites /\ MaxWrites \in Nat
  BY StagingAssumptions DEF InvOpened
<1> QED BY <1>1, <1>2

\* Nothing is staged and nothing is found before the loop of the additions.
LEMMA InitInvariant ==
  ASSUME Init
  PROVE  StagingInvariant
<1>1. /\ live \in Devices /\ profile \in Profiles /\ request \in Requests
      /\ request.removals \subseteq DOMAIN live.tracks
      /\ library = live.tracks /\ opened = live /\ original = live
      /\ resolved = <<>> /\ active = {} /\ nextImage = 100
      /\ bundle = NoBundle /\ phase = "capture" /\ why = "" /\ writes = 0
  BY DEF Init
<1>2. MaxWrites \in Nat /\ request.additions \in Seq(Range(request.additions))
  BY <1>1, StagingAssumptions DEF SoundRequest
<1>3. InvOpened
  <2>1. live \in Devices /\ opened \in Devices /\ original \in Devices /\ (\E d \in Devices : library = d.tracks)
    BY <1>1
  <2>2. writes \in 0..MaxWrites /\ request.removals \subseteq DOMAIN library
    <3>1. writes = 0
      BY <1>1
    <3>2. writes \in 0..MaxWrites
      BY <1>2, <3>1
    <3>3. request.removals \subseteq DOMAIN library
      BY <1>1
    <3> QED BY <3>2, <3>3
  <2> QED BY <1>1, <2>1, <2>2 DEF InvOpened, Phases, Edited

<1>4. InvResolved
  <2>1. Whole(resolved) /\ DOMAIN resolved = {} /\ Len(resolved) = 0
    BY <1>1, EmptyIsWhole
  <2>2. Len(request.additions) \in Nat
    BY <1>2, LenProperties
  <2>3. Len(resolved) <= Len(request.additions)
    BY <2>1, <2>2
  <2>4. nextImage \in Nat
    <3>1. nextImage = 100 /\ 100 \in Nat
      BY <1>1
    <3> QED BY <3>1
  <2> QED BY <1>1, <2>1, <2>3, <2>4 DEF InvResolved
<1>5. InvLinks
  <2>1. DOMAIN resolved = {}
    BY <1>1, EmptyIsWhole
  <2> QED BY <1>1, <2>1 DEF InvLinks
<1>6. InvBundle
  BY <1>1 DEF InvBundle, NoBundle, Edited, Extended, Closing, Closed
<1>7. RefusedForCause
  BY <1>1 DEF RefusedForCause
<1> QED BY <1>3, <1>4, <1>5, <1>6, <1>7 DEF StagingInvariant

LEMMA StutterStep ==
  ASSUME StagingInvariant, UNCHANGED vars
  PROVE  StagingInvariant'
<1>1. UNCHANGED <<live, library, opened, original, profile, request, resolved, active,
                  nextImage, bundle, phase, why, writes>>
  BY DEF vars
<1>2. Quiet' => Quiet
  BY <1>1 DEF Quiet
<1>3. InvOpened'
  BY <1>1 DEF StagingInvariant, InvOpened, Binary
<1>4. InvResolved'
  BY <1>1 DEF StagingInvariant, InvResolved, LinkShape, NewImage
<1>5. InvLinks'
  <2>1. \A i, link : LinkFits(i, link)' <=> LinkFits(i, link)
    BY <1>1, SameResolved DEF LinkFits
  <2>2. WithArt' <=> WithArt
    BY <1>1 DEF WithArt
  <2> QED BY <1>1, <1>2, <2>1, <2>2 DEF StagingInvariant, InvLinks
<1>6. InvBundle'
  <2>1. /\ InvBundle /\ (Quiet' => Quiet) /\ phase' = phase
        /\ opened' = opened /\ profile' = profile /\ request' = request
        /\ resolved' = resolved /\ bundle' = bundle
    BY <1>1, <1>2 DEF StagingInvariant
  <2> QED BY <2>1, BundleKept
<1>7. RefusedForCause'
  <2>1. MixedArt' = MixedArt /\ Supported' = Supported
    BY <1>1, SameResolved DEF MixedArt, Removing, Supported
  <2> QED BY <1>1, <2>1 DEF StagingInvariant, RefusedForCause
<1> QED BY <1>3, <1>4, <1>5, <1>6, <1>7 DEF StagingInvariant

\* Before the loop of the additions nothing relates to what was opened.
LEMMA EarlyStep ==
  ASSUME StagingInvariant, phase \in {"capture", "backup"}, phase' \in {"backup", "resolve"},
         UNCHANGED <<resolved, active, nextImage, bundle>>,
         profile' = profile, request' = request, why' = why, InvOpened'
  PROVE  StagingInvariant'
<1>1. InvResolved'
  <2>1. /\ InvResolved /\ resolved' = resolved /\ active' = active /\ nextImage' = nextImage
        /\ request' = request /\ profile' = profile /\ phase' # "allocate"
        /\ phase' \in {"capture", "backup", "resolve"} => resolved = <<>>
    BY DEF StagingInvariant, InvResolved
  <2> QED BY <2>1, ResolvedKept
<1>2. InvBundle'
  <2>1. /\ bundle' = bundle /\ bundle.artwork = Unwritten /\ bundle.files = <<>>
        /\ DOMAIN bundle = {"tracks", "cdb", "artwork", "files"}
    BY DEF StagingInvariant, InvBundle, Extended
  <2> QED BY <2>1 DEF InvBundle, Edited, Extended, Closing, Closed
<1>3. RefusedForCause'
  <2>1. InvOpened /\ phase # "refused" /\ why' = why
    BY DEF StagingInvariant
  <2> QED BY <2>1, NoCause
<1>4. InvLinks'
  <2>1. resolved' = <<>> /\ phase' # "allocate"
    BY DEF StagingInvariant, InvResolved
  <2>2. DOMAIN resolved' = {}
    BY <2>1, EmptyIsWhole
  <2> QED BY <2>1, <2>2 DEF InvLinks
<1> QED BY <1>1, <1>2, <1>3, <1>4 DEF StagingInvariant

\* The fingerprint is taken of what the device holds.
LEMMA CaptureStep ==
  ASSUME StagingInvariant, Capture
  PROVE  StagingInvariant'
<1>1. /\ phase = "capture" /\ phase' = "backup" /\ why' = why /\ opened' = live
      /\ UNCHANGED <<live, library, original, profile, request, resolved, active, nextImage, bundle, writes>>
  BY DEF Capture, Continue
<1>2. InvOpened /\ (writes = 0 => live = opened)
  BY DEF StagingInvariant, InvOpened
<1>3. InvOpened'
  BY <1>1, <1>2 DEF InvOpened, Phases, Edited
<1> QED BY <1>1, <1>3, EarlyStep

\* A copy is staged of the generation that was opened, or refused.
LEMMA BackUpStep ==
  ASSUME StagingInvariant, BackUp
  PROVE  StagingInvariant'
<1>1. phase = "backup" /\ InvOpened
  BY DEF BackUp, StagingInvariant
<1>2. CASE live # opened
  <2>1. Refuse("generation")
    BY <1>2 DEF BackUp
  <2>2. writes > 0
    BY <1>1, <1>2, Written
  <2> QED BY <1>1, <2>1, <2>2, RefuseStep
<1>3. CASE live = opened
  <2>1. /\ original' = live /\ phase' = "resolve" /\ why' = why
        /\ UNCHANGED <<live, library, opened, profile, request, resolved, active, nextImage, bundle, writes>>
    BY <1>3 DEF BackUp, Continue
  <2>2. InvOpened'
    BY <1>1, <1>3, <2>1 DEF InvOpened, Phases, Edited
  <2> QED BY <1>1, <2>1, <2>2, EarlyStep
<1> QED BY <1>2, <1>3

\* A pass over the bundle keeps what was opened and resolved.
LEMMA PassStep ==
  ASSUME StagingInvariant, UNCHANGED <<unstaged, resolved, active, nextImage>>, why' = why,
         phase \in Edited \cup {"resolve", "allocate", "database"}, phase' \in Edited \cup {"database"},
         phase' \in Edited => request.removals \subseteq DOMAIN opened.tracks,
         phase' \in {"extend", "records", "frames"} => resolved # <<>>,
         phase' = "extend" => ~Binary,
         phase' = "staged" => live = opened,
         InvBundle'
  PROVE  StagingInvariant'
<1>1. /\ UNCHANGED <<live, library, opened, original, profile, request, writes>>
      /\ UNCHANGED <<resolved, active, nextImage>>
  BY DEF unstaged
<1>2. phase # "refused" /\ phase' \notin {"refused", "capture", "backup", "resolve", "allocate"} /\ phase' \in Phases
  BY DEF Edited, Phases
<1>3. InvOpened'
  <2>1. InvOpened /\ Binary' = Binary
    BY <1>1 DEF StagingInvariant, Binary
  <2>2. original = opened /\ phase \in Phases
    BY <2>1 DEF InvOpened
  <2> QED BY <1>1, <1>2, <2>1, <2>2 DEF InvOpened
<1>4. InvResolved'
  <2>1. /\ InvResolved /\ resolved' = resolved /\ active' = active /\ nextImage' = nextImage
        /\ request' = request /\ profile' = profile /\ phase' # "allocate"
        /\ phase' \in {"capture", "backup", "resolve"} => resolved = <<>>
    BY <1>1, <1>2 DEF StagingInvariant
  <2> QED BY <2>1, ResolvedKept
<1>5. InvLinks'
  <2>1. /\ InvLinks /\ (Quiet' => Quiet) /\ phase' # "allocate"
        /\ resolved' = resolved /\ active' = active /\ request' = request /\ opened' = opened /\ nextImage' = nextImage
    BY <1>1, <1>2 DEF StagingInvariant, Quiet
  <2> QED BY <2>1, LinksKept
<1>6. RefusedForCause'
  <2>1. InvOpened /\ phase # "refused" /\ why' = why
    BY <1>2 DEF StagingInvariant
  <2> QED BY <2>1, NoCause
<1> QED BY <1>3, <1>4, <1>5, <1>6 DEF StagingInvariant

\* New artwork goes to formats that the profile knows.
LEMMA ActiveKnown ==
  ASSUME NEW store, NEW formats, NEW removed, FormatsKnown(store, formats, removed)
  PROVE  ActiveFormats(store, formats, removed) \subseteq formats
BY DEF FormatsKnown, ActiveFormats, ChooseFormats

\* The image ids of the additions start after those of the store.
LEMMA FirstImage ==
  ASSUME NEW store, SoundStore(store)
  PROVE  /\ LastImage(store.records) \in Nat /\ BaseImageId(store) \in Nat
         /\ BaseImageId(store) > LastImage(store.records)
<1>1. Whole(store.records) /\ \A r \in Range(store.records) : r.image \in Nat
  BY SoundRecords DEF SoundRecord
<1>2. LastImage(store.records) \in Nat
  BY <1>1, LastImageBounds
<1> QED BY <1>2 DEF BaseImageId

\* The formats and the first image id are those of what was opened.
LEMMA ResolveStep ==
  ASSUME StagingInvariant, Resolve
  PROVE  StagingInvariant'
<1>1. phase = "resolve" /\ phase # "refused" /\ InvOpened /\ InvResolved /\ resolved = <<>>
  BY DEF Resolve, StagingInvariant, InvResolved
<1>2. bundle.artwork = Unwritten /\ bundle.files = <<>> /\ DOMAIN bundle = {"tracks", "cdb", "artwork", "files"}
  BY <1>1 DEF StagingInvariant, InvBundle, Extended
<1>3. CASE request.additions = <<>>
  <2>1. /\ UNCHANGED <<unstaged, resolved, active, nextImage, bundle>>
        /\ why' = why /\ phase' = "database"
    BY <1>1, <1>3 DEF Resolve, Continue
  <2>2. InvBundle'
    BY <1>2, <2>1 DEF InvBundle, Edited, Extended, Closing, Closed
  <2> QED BY <1>1, <2>1, <2>2, PassStep DEF Edited
<1>4. ASSUME request.additions # <<>>, NEW reason \in {"unsupported", "formats", "missing"}, Refuse(reason)
      PROVE  StagingInvariant'
  BY <1>1, <1>4, RefuseStep
<1>5. ASSUME request.additions # <<>>, WithNewArt => FormatsKnown(live.store, profile.formats, request.removals),
             active' = IF WithNewArt THEN ActiveFormats(live.store, profile.formats, request.removals) ELSE {},
             nextImage' = IF WithArt THEN BaseImageId(live.store) ELSE 100,
             Continue("allocate"), UNCHANGED <<unstaged, resolved, bundle>>
      PROVE  StagingInvariant'
  <2>1. /\ UNCHANGED <<live, library, opened, original, profile, request, writes, resolved, bundle>>
        /\ phase' = "allocate" /\ why' = why
    BY <1>5 DEF Continue, unstaged
  <2>2. SoundStore(live.store)
    BY <1>1, StagingAssumptions DEF InvOpened, SoundDevice
  <2>3. /\ LastImage(live.store.records) \in Nat /\ BaseImageId(live.store) \in Nat
        /\ BaseImageId(live.store) > LastImage(live.store.records)
    BY <2>2, FirstImage
  <2>4. nextImage' \in Nat /\ (WithArt => nextImage' > LastImage(live.store.records))
    BY <1>5, <2>3
  <2>5. active' \subseteq profile.formats
    BY <1>5, ActiveKnown
  <2>6. InvOpened'
    BY <1>1, <2>1 DEF InvOpened, Phases, Edited
  <2>7. DOMAIN resolved' = {} /\ Len(resolved') = 0 /\ Whole(resolved')
    BY <1>1, <2>1, EmptyIsWhole
  <2>8. InvResolved'
    <3>1. Len(request.additions) \in Nat \ {0}
      BY <1>1, <1>5, StagingAssumptions, EmptySeq DEF InvOpened, SoundRequest
    <3>2. 0 <= Len(request.additions) /\ 0 < Len(request.additions)
      BY <3>1
    <3> QED BY <2>1, <2>4, <2>5, <2>7, <3>2 DEF InvResolved
  <2>9. InvLinks'
    <3>1. WithArt' <=> WithArt
      BY <2>1 DEF WithArt
    <3>2. Quiet' => live = opened
      BY <2>1 DEF Quiet
    <3> QED BY <2>1, <2>4, <2>7, <3>1, <3>2 DEF InvLinks
  <2>10. InvBundle'
    BY <1>2, <2>1 DEF InvBundle, Edited, Extended, Closing, Closed
  <2>11. RefusedForCause'
    BY <1>1, <2>1, NoCause
  <2> QED BY <2>6, <2>8, <2>9, <2>10, <2>11 DEF StagingInvariant
<1> QED BY <1>3, <1>4, <1>5 DEF Resolve

\* A sequence with one more element.
LEMMA OneMore ==
  ASSUME NEW s, Whole(s), NEW x
  PROVE  /\ Whole(Append(s, x)) /\ Len(s) \in Nat /\ Len(Append(s, x)) = Len(s) + 1
         /\ DOMAIN s = 1..Len(s) /\ DOMAIN Append(s, x) = 1..(Len(s) + 1)
         /\ Append(s, x)[Len(s) + 1] = x
         /\ \A j \in DOMAIN s : Append(s, x)[j] = s[j]
<1> DEFINE S == Range(s) \cup {x}
           t == Append(s, x)
<1>1. s \in Seq(S)
  <2>1. s \in Seq(Range(s))
    BY DEF Whole
  <2> HIDE DEF S
  <2>2. Range(s) \subseteq S
    BY DEF S
  <2> QED BY <2>1, <2>2, SeqMonotonic
<1>2. x \in S
  OBVIOUS
<1> HIDE DEF S
<1>3. /\ t \in Seq(S) /\ Len(t) = Len(s) + 1 /\ t[Len(s) + 1] = x
      /\ \A j \in 1..Len(s) : t[j] = s[j]
  BY <1>1, <1>2, AppendProperties
<1>4. Whole(t)
  BY <1>3, SeqIsWhole
<1>5. DOMAIN s = 1..Len(s) /\ Len(s) \in Nat /\ DOMAIN t = 1..Len(t)
  BY <1>4, WholeFacts
<1> QED BY <1>3, <1>4, <1>5

\* The files of a device are sequences, absent or not.
LEMMA FilesAreSequences ==
  ASSUME NEW store, SoundStore(store), NEW f
  PROVE  FileOf(store.files, f) \in Seq(Nat) /\ Len(FileOf(store.files, f)) \in Nat
<1>1. FileOf(store.files, f) \in Seq(Nat)
  BY EmptySeq DEF FileOf, SoundStore
<1> QED BY <1>1, LenProperties

\* What a turn of the loop finds for an addition.
Found(i, link) ==
  \/ link = None
  \/ link = NewLink(i) /\ request.additions[i].art = "new"
  \/ /\ request.additions[i].art = "reuse"
     /\ \E mate \in TracksOf(live.store.records) : link = ReusedLink(mate)

\* An addition with new artwork has a slot and a frame in every active format.
LEMMA NewShape ==
  ASSUME InvResolved, NEW i \in DOMAIN resolved, resolved[i].link.kind = "new"
  PROVE  /\ resolved[i].link.refs \in [active -> Nat]
         /\ resolved[i].link.frames = [f \in active |-> NewImage(i, f)]
         /\ DOMAIN resolved[i].link.refs = active /\ DOMAIN resolved[i].link.frames = active
<1> DEFINE link == resolved[i].link
<1>1. LinkShape(i, link)
  BY DEF InvResolved
<1>2. link # None
  BY DEF None
<1> HIDE DEF link
<1>3. link.refs \in [active -> Nat] /\ link.frames = [f \in active |-> NewImage(i, f)]
  BY <1>1, <1>2 DEF LinkShape, link
<1>4. DOMAIN link.refs = active /\ DOMAIN link.frames = active
  BY <1>3
<1> QED BY <1>3, <1>4 DEF link

\* The frames allocated so far are those of the additions that draw on the format.
LEMMA AllocatedCounts ==
  ASSUME InvResolved, NEW f
  PROVE  /\ Allocated(f) = Cardinality(Drawing(f)) /\ Allocated(f) \in Nat
         /\ Drawing(f) \subseteq DOMAIN resolved /\ DOMAIN resolved = 1..Len(resolved)
<1>1. DOMAIN resolved = 1..Len(resolved) /\ Len(resolved) \in Nat
  BY WholeFacts DEF InvResolved
<1>2. Drawing(f) = {i \in DOMAIN resolved : resolved[i].link.kind = "new" /\ f \in DOMAIN resolved[i].link.refs}
  <2>1. \A i \in DOMAIN resolved :
          resolved[i].link.kind = "new" => DOMAIN resolved[i].link.refs = DOMAIN resolved[i].link.frames
    BY NewShape
  <2> QED BY <2>1 DEF Drawing
<1>3. Cardinality(Drawing(f)) \in Nat
  <2>1. IsFiniteSet(1..Len(resolved))
    BY <1>1, FS_Interval
  <2>2. Drawing(f) \subseteq 1..Len(resolved)
    BY <1>1 DEF Drawing
  <2> QED BY <2>1, <2>2, FS_Subset, FS_CardinalityType
<1> QED BY <1>1, <1>2, <1>3 DEF Allocated, Drawing

\* What is found has the shape of an addition of its kind.
LEMMA FoundShape ==
  ASSUME InvOpened, InvResolved, NEW i, NEW link, Found(i, link)
  PROVE  LinkShape(i, link) /\ ImageAfter(link) \in Nat
<1>1. SoundStore(live.store) /\ nextImage \in Nat
  BY StagingAssumptions DEF InvOpened, InvResolved, SoundDevice
<1>2. ImageAfter(link) \in Nat
  BY <1>1 DEF ImageAfter
<1>3. CASE link = NewLink(i)
  <2>1. \A f \in active : Len(FileOf(live.store.files, f)) + Allocated(f) \in Nat
    <3>1. ASSUME NEW f \in active PROVE Len(FileOf(live.store.files, f)) + Allocated(f) \in Nat
      <4>1. Len(FileOf(live.store.files, f)) \in Nat /\ Allocated(f) \in Nat
        BY <1>1, FilesAreSequences, AllocatedCounts
      <4> QED BY <4>1
    <3> QED BY <3>1
  <2>2. link.refs \in [active -> Nat]
    BY <1>3, <2>1 DEF NewLink
  <2>3. link.kind = "new" /\ link.frames = [f \in active |-> NewImage(i, f)]
    BY <1>3 DEF NewLink
  <2> QED BY <1>2, <2>2, <2>3 DEF LinkShape
<1>4. CASE \E mate : link = ReusedLink(mate)
  <2>1. link.kind = "reused" /\ link.frames = <<>>
    BY <1>4 DEF ReusedLink
  <2> QED BY <1>2, <2>1 DEF LinkShape
<1>5. CASE link = None
  BY <1>2, <1>5 DEF LinkShape
<1> QED BY <1>3, <1>4, <1>5 DEF Found

\* What is found continues the store that was opened.
LEMMA FoundFits ==
  ASSUME InvOpened, InvResolved, InvLinks, Quiet, phase = "allocate",
         NEW i \in DOMAIN request.additions, i = Len(resolved) + 1, NEW link, Found(i, link)
  PROVE  /\ link.kind = "new" =>
              \A f \in active : link.refs[f] = Len(FileOf(opened.store.files, f)) + Cardinality(Drawing(f))
         /\ link.kind = "reused" =>
              /\ link.mate \in TracksOf(opened.store.records)
              /\ link.refs = RecordOf(opened.store.records, link.mate).refs
         /\ link.kind # "none" =>
              /\ link.image = nextImage /\ nextImage \in Nat /\ ImageAfter(link) = nextImage + 1
              /\ nextImage > LastImage(opened.store.records)
         /\ link.kind = "none" => ImageAfter(link) = nextImage
<1>1. opened = live /\ nextImage \in Nat
  BY DEF Quiet, InvResolved
<1>2. CASE link = None
  <2>1. link.kind = "none" /\ ImageAfter(link) = nextImage
    BY <1>2 DEF None, ImageAfter
  <2> QED BY <2>1
<1>3. CASE link = NewLink(i) /\ request.additions[i].art = "new"
  <2>1. /\ link.kind = "new" /\ link # None /\ link.image = nextImage
        /\ link.refs = [f \in active |-> Len(FileOf(live.store.files, f)) + Allocated(f)]
    BY <1>3 DEF NewLink, None
  <2>2. nextImage > LastImage(opened.store.records)
    BY <1>3 DEF InvLinks, WithArt
  <2>3. \A f \in active : link.refs[f] = Len(FileOf(opened.store.files, f)) + Cardinality(Drawing(f))
    BY <1>1, <2>1, AllocatedCounts
  <2> QED BY <1>1, <2>1, <2>2, <2>3 DEF ImageAfter
<1>4. ASSUME request.additions[i].art = "reuse", NEW mate \in TracksOf(live.store.records), link = ReusedLink(mate)
      PROVE  /\ link.kind = "reused" /\ link # None /\ link.image = nextImage
             /\ link.mate = mate /\ link.refs = RecordOf(live.store.records, mate).refs
             /\ nextImage > LastImage(opened.store.records)
  <2>1. /\ link.kind = "reused" /\ link # None /\ link.image = nextImage
        /\ link.mate = mate /\ link.refs = RecordOf(live.store.records, mate).refs
    BY <1>4 DEF ReusedLink, None
  <2>2. nextImage > LastImage(opened.store.records)
    BY <1>4 DEF InvLinks, WithArt
  <2> QED BY <2>1, <2>2
<1> QED BY <1>1, <1>2, <1>3, <1>4 DEF Found, ImageAfter

\* A turn of the loop adds one addition to those that are resolved.
LEMMA TurnFinds ==
  ASSUME InvOpened, InvResolved, Allocate, ~ Refuse("mate")
  PROVE  \E i, link :
           /\ i \in DOMAIN request.additions /\ i = Len(resolved) + 1 /\ Found(i, link)
           /\ resolved' = Append(resolved, Resolved(i, link)) /\ nextImage' = ImageAfter(link)
           /\ why' = why /\ phase' = IF i = Len(request.additions) THEN "database" ELSE "allocate"
           /\ UNCHANGED <<unstaged, active, bundle>>
<1> DEFINE i == Len(resolved) + 1
           add == request.additions[i]
           mates == Mates(add.album)
           mate == Min(mates)
           link == IF add.art = "new" THEN NewLink(i)
                   ELSE IF add.art = "reuse" /\ mates # {} THEN ReusedLink(mate)
                   ELSE None
<1>1. /\ ~ (add.art = "reuse" /\ mates # {} /\ mate \notin TracksOf(live.store.records))
      /\ resolved' = Append(resolved, Resolved(i, link)) /\ nextImage' = ImageAfter(link)
      /\ Continue(IF i = Len(request.additions) THEN "database" ELSE "allocate")
      /\ UNCHANGED <<unstaged, active, bundle>> /\ phase = "allocate"
  BY DEF Allocate
<1>2. i \in DOMAIN request.additions
  <2>1. Len(resolved) \in Nat /\ Len(resolved) < Len(request.additions)
    BY <1>1, WholeFacts DEF InvResolved
  <2>2. Len(request.additions) \in Nat /\ DOMAIN request.additions = 1..Len(request.additions)
    BY StagingAssumptions, WholeFacts DEF InvOpened, SoundRequest, Whole
  <2> QED BY <2>1, <2>2
<1> HIDE DEF i, mates, mate
<1>3. Found(i, link)
  BY <1>1 DEF Found
<1> HIDE DEF link
<1> QED BY <1>1, <1>2, <1>3 DEF Continue, i

\* The additions that draw on a format, before and after a turn.
LEMMA DrawnBefore ==
  ASSUME InvResolved, NEW x, resolved' = Append(resolved, x), NEW f
  PROVE  /\ \A j \in DOMAIN resolved : {k \in Drawing(f)' : k < j} = {k \in Drawing(f) : k < j}
         /\ {k \in Drawing(f)' : k < Len(resolved) + 1} = Drawing(f)
<1>1. /\ Len(resolved) \in Nat /\ DOMAIN resolved = 1..Len(resolved)
      /\ DOMAIN resolved' = 1..(Len(resolved) + 1)
      /\ \A j \in DOMAIN resolved : resolved'[j] = resolved[j]
  BY OneMore DEF InvResolved
<1>2. \A k \in DOMAIN resolved : k \in Drawing(f)' <=> k \in Drawing(f)
  BY <1>1 DEF Drawing
<1>3. Drawing(f) \subseteq DOMAIN resolved /\ Drawing(f)' \subseteq DOMAIN resolved'
  BY DEF Drawing
<1>4. \A j \in 1..(Len(resolved) + 1), k \in 1..(Len(resolved) + 1) : k < j => k \in DOMAIN resolved
  BY <1>1
<1> QED BY <1>1, <1>2, <1>3, <1>4

LEMMA AllocateStep ==
  ASSUME StagingInvariant, Allocate
  PROVE  StagingInvariant'
<1>1. phase = "allocate" /\ phase # "refused" /\ InvOpened /\ InvResolved /\ InvLinks
  BY DEF Allocate, StagingInvariant
<1>2. CASE Refuse("mate")
  BY <1>1, <1>2, RefuseStep
<1>3. CASE ~ Refuse("mate")
  <2>1. PICK i, link :
           /\ i \in DOMAIN request.additions /\ i = Len(resolved) + 1 /\ Found(i, link)
           /\ resolved' = Append(resolved, Resolved(i, link)) /\ nextImage' = ImageAfter(link)
           /\ why' = why /\ phase' = IF i = Len(request.additions) THEN "database" ELSE "allocate"
           /\ UNCHANGED <<unstaged, active, bundle>>
    BY <1>1, <1>3, TurnFinds
  <2>2. UNCHANGED <<live, library, opened, original, profile, request, writes, active, bundle>>
    BY <2>1 DEF unstaged
  <2>3. /\ Whole(resolved') /\ Len(resolved) \in Nat /\ Len(resolved') = i
        /\ DOMAIN resolved = 1..Len(resolved) /\ DOMAIN resolved' = 1..i
        /\ resolved'[i] = Resolved(i, link)
        /\ \A j \in DOMAIN resolved : resolved'[j] = resolved[j]
    BY <1>1, <2>1, OneMore DEF InvResolved
  <2>4. /\ i \in Nat /\ \A j \in DOMAIN resolved' : j \in DOMAIN resolved \/ j = i
        /\ \A j \in DOMAIN resolved : j < i
    BY <2>1, <2>3
  <2>5. Len(request.additions) \in Nat /\ i <= Len(request.additions)
    <3>1. Whole(request.additions)
      BY <1>1, StagingAssumptions DEF InvOpened, SoundRequest, Whole
    <3>2. Len(request.additions) \in Nat /\ DOMAIN request.additions = 1..Len(request.additions)
      BY <3>1, WholeFacts
    <3> QED BY <2>1, <3>2
  <2>6. resolved'[i].pid = NewPids[i] /\ resolved'[i].link = link
    BY <2>3 DEF Resolved
  <2>7. InvOpened'
    BY <1>1, <2>1, <2>2 DEF InvOpened, Phases, Edited
  <2>8. InvResolved'
    <3>1. LinkShape(i, link) /\ nextImage' \in Nat
      BY <1>1, <2>1, FoundShape
    <3>3. \A j \in DOMAIN resolved' : resolved'[j].pid = NewPids[j] /\ LinkShape(j, resolved[j].link)'
      <4>1. ASSUME NEW j \in DOMAIN resolved' PROVE resolved'[j].pid = NewPids[j] /\ LinkShape(j, resolved'[j].link)
        <5>1. CASE j = i
          BY <2>6, <3>1, <5>1
        <5>2. CASE j \in DOMAIN resolved
          BY <1>1, <2>3, <5>2 DEF InvResolved
        <5> QED BY <2>4, <4>1, <5>1, <5>2
      <4> QED BY <2>2, <4>1 DEF LinkShape, NewImage
    <3>4. Len(resolved') <= Len(request'.additions) /\ (phase' = "allocate" => Len(resolved') < Len(request'.additions))
      <4>1. Len(resolved') <= Len(request.additions)
        BY <2>3, <2>5
      <4>2. phase' = "allocate" => i # Len(request.additions)
        BY <2>1
      <4> QED BY <2>2, <2>3, <2>5, <4>1, <4>2
    <3>5. active' \subseteq profile'.formats /\ phase' \notin {"capture", "backup", "resolve"}
      BY <1>1, <2>1, <2>2 DEF InvResolved
    <3> QED BY <2>3, <3>1, <3>3, <3>4, <3>5 DEF InvResolved
  <2>9. InvLinks'
    <3>1. SUFFICES ASSUME Quiet' PROVE InvLinks'
      BY DEF InvLinks
    <3>2. Quiet /\ opened' = opened
      BY <2>2, <3>1 DEF Quiet
    <3>3. /\ link.kind = "new" =>
              \A f \in active : link.refs[f] = Len(FileOf(opened.store.files, f)) + Cardinality(Drawing(f))
          /\ link.kind = "reused" =>
              /\ link.mate \in TracksOf(opened.store.records)
              /\ link.refs = RecordOf(opened.store.records, link.mate).refs
          /\ link.kind # "none" =>
              /\ link.image = nextImage /\ nextImage \in Nat /\ ImageAfter(link) = nextImage + 1
              /\ nextImage > LastImage(opened.store.records)
          /\ link.kind = "none" => ImageAfter(link) = nextImage
      BY <1>1, <2>1, <3>2, FoundFits
    <3>4. nextImage \in Nat /\ nextImage' \in Nat /\ (nextImage' = nextImage \/ nextImage' = nextImage + 1)
      BY <1>1, <2>1, <3>3 DEF InvResolved
    <3>5. LastImage(opened.store.records) \in Nat
      <4>1. SoundStore(opened.store)
        BY <1>1, StagingAssumptions DEF InvOpened, SoundDevice
      <4> QED BY <4>1, FirstImage
    <3>6. \A f : /\ \A j \in DOMAIN resolved : {k \in Drawing(f)' : k < j} = {k \in Drawing(f) : k < j}
                 /\ {k \in Drawing(f)' : k < i} = Drawing(f)
      BY <1>1, <2>1, DrawnBefore
    <3>7. ASSUME NEW j \in DOMAIN resolved PROVE LinkFits(j, resolved[j].link)'
      <4>1. LinkFits(j, resolved[j].link)
        BY <1>1, <3>2 DEF InvLinks
      <4> DEFINE old == resolved[j].link
      <4>2. old' = old
        BY <2>3
      <4> HIDE DEF old
      <4>3. old.kind # "none" => old.image \in Nat /\ old.image > LastImage(opened.store.records) /\ old.image < nextImage'
        <5>1. old.kind # "none" => old.image \in Nat /\ old.image > LastImage(opened.store.records) /\ old.image < nextImage
          BY <4>1 DEF LinkFits, old
        <5> QED BY <3>4, <5>1
      <4> QED BY <2>2, <3>2, <3>6, <4>1, <4>2, <4>3 DEF LinkFits, old
    <3>8. LinkFits(i, link)'
      <4>1. link.kind # "none" => link.image \in Nat /\ link.image > LastImage(opened.store.records) /\ link.image < nextImage'
        <5>1. link.kind # "none" => nextImage' = nextImage + 1
          BY <2>1, <3>3
        <5> QED BY <3>3, <3>4, <5>1
      <4> QED BY <2>2, <3>2, <3>3, <3>6, <4>1 DEF LinkFits
    <3>9. \A j \in DOMAIN resolved' : LinkFits(j, resolved[j].link)'
      <4>1. ASSUME NEW j \in DOMAIN resolved' PROVE LinkFits(j, resolved[j].link)'
        <5>1. CASE j = i
          BY <2>6, <3>8, <5>1 DEF LinkFits
        <5>2. CASE j \in DOMAIN resolved
          BY <3>7, <5>2
        <5> QED BY <2>4, <4>1, <5>1, <5>2
      <4> QED BY <4>1
    <3>10. phase' = "allocate" /\ WithArt' => nextImage' > LastImage(opened'.store.records)
      <4>1. WithArt' <=> WithArt
        BY <2>2 DEF WithArt
      <4>2. WithArt => nextImage > LastImage(opened.store.records)
        BY <1>1, <3>2 DEF InvLinks
      <4> QED BY <3>2, <3>4, <3>5, <4>1, <4>2
    <3>11. ASSUME NEW j \in DOMAIN resolved', NEW k \in DOMAIN resolved', j < k,
                  resolved'[j].link.kind # "none", resolved'[k].link.kind # "none"
           PROVE  resolved'[j].link.image < resolved'[k].link.image
      <4>1. j \in DOMAIN resolved /\ resolved'[j] = resolved[j]
        BY <2>3, <2>4, <3>11
      <4>2. CASE k = i
        <5>1. resolved[j].link.image < nextImage
          BY <1>1, <3>2, <3>11, <4>1 DEF InvLinks, LinkFits
        <5> QED BY <2>6, <3>3, <3>11, <4>1, <4>2, <5>1
      <4>3. CASE k \in DOMAIN resolved
        BY <1>1, <2>3, <3>2, <3>11, <4>1, <4>3 DEF InvLinks
      <4> QED BY <2>4, <3>11, <4>2, <4>3
    <3> QED BY <3>9, <3>10, <3>11 DEF InvLinks
  <2>10. InvBundle'
    <3>1. /\ bundle' = bundle /\ bundle.artwork = Unwritten /\ bundle.files = <<>>
          /\ DOMAIN bundle = {"tracks", "cdb", "artwork", "files"}
      BY <1>1, <2>2 DEF StagingInvariant, InvBundle, Extended
    <3>2. phase' \in {"allocate", "database"}
      BY <2>1
    <3> QED BY <3>1, <3>2 DEF InvBundle, Edited, Extended, Closing, Closed
  <2>11. RefusedForCause'
    BY <1>1, <2>1, NoCause
  <2> QED BY <2>7, <2>8, <2>9, <2>10, <2>11 DEF StagingInvariant
<1> QED BY <1>2, <1>3

\* The database of what was opened is edited, or refused when another program
\* has taken tracks from it.
LEMMA DatabaseStep ==
  ASSUME StagingInvariant, EditDatabase
  PROVE  StagingInvariant'
<1>1. phase = "database" /\ phase # "refused" /\ InvOpened /\ original = opened
  BY DEF EditDatabase, StagingInvariant, InvOpened
<1>2. CASE ~(request.removals \subseteq DOMAIN original.tracks)
  <2>1. library # opened.tracks /\ Refuse("removals")
    BY <1>1, <1>2 DEF InvOpened, EditDatabase
  <2>2. writes > 0
    BY <1>1, <2>1, Written
  <2> QED BY <1>1, <2>1, <2>2, RefuseStep
<1>3. CASE request.removals \subseteq DOMAIN original.tracks
  <2>1. /\ bundle' = [bundle EXCEPT !.tracks = (DOMAIN original.tracks \ request.removals) \cup Added]
        /\ phase' = IF Binary THEN "reindex" ELSE "cdb"
        /\ why' = why /\ UNCHANGED <<unstaged, resolved, active, nextImage>>
    BY <1>3 DEF EditDatabase, Continue
  <2>2. UNCHANGED <<opened, profile, request, resolved>>
    BY <2>1 DEF unstaged
  <2>3. /\ DOMAIN bundle' = {"tracks", "cdb", "artwork", "files"}
        /\ bundle'.tracks = (DOMAIN opened.tracks \ request.removals) \cup Added
        /\ bundle'.artwork = Unwritten /\ bundle'.files = <<>>
    BY <1>1, <2>1 DEF StagingInvariant, InvBundle, Extended
  <2>4. Added' = Added /\ Binary' = Binary
    BY <2>2, SameResolved DEF Binary
  <2>5. InvBundle'
    BY <2>1, <2>2, <2>3, <2>4 DEF InvBundle, Edited, Extended, Closing, Closed
  <2>6. /\ phase \in Edited \cup {"resolve", "allocate", "database"} /\ phase' \in Edited \cup {"database"}
        /\ request.removals \subseteq DOMAIN opened.tracks
        /\ phase' \notin {"extend", "records", "frames", "staged"}
    BY <1>1, <1>3, <2>1 DEF Edited
  <2> QED BY <2>1, <2>5, <2>6, PassStep
<1> QED BY <1>2, <1>3

\* The companion lists every track of a device, so what may be removed is there.
LEMMA CdbStep ==
  ASSUME StagingInvariant, RemoveFromCdb
  PROVE  StagingInvariant'
<1>1. /\ phase = "cdb" /\ phase # "refused" /\ InvOpened /\ request.removals \subseteq DOMAIN opened.tracks
  BY DEF RemoveFromCdb, StagingInvariant, InvOpened, Edited
<1>2. CASE Removing /\ ~(request.removals \subseteq live.cdb)
  <2>1. Refuse("cdb")
    BY <1>2 DEF RemoveFromCdb
  <2>2. live # opened
    <3>1. DOMAIN opened.tracks \subseteq opened.cdb
      BY <1>1, StagingAssumptions DEF InvOpened, SoundDevice
    <3> QED BY <1>1, <1>2, <3>1
  <2>3. writes > 0
    BY <1>1, <2>2, Written
  <2> QED BY <1>1, <2>1, <2>3, RefuseStep
<1>3. CASE ~(Removing /\ ~(request.removals \subseteq live.cdb))
  <2>1. /\ bundle' = IF Removing \/ resolved = <<>>
                     THEN [bundle EXCEPT !.cdb = live.cdb \ request.removals] ELSE bundle
        /\ phase' = "reindex" /\ why' = why /\ UNCHANGED <<unstaged, resolved, active, nextImage>>
    BY <1>3 DEF RemoveFromCdb, Continue
  <2>2. UNCHANGED <<live, opened, profile, request, resolved, writes>>
    BY <2>1 DEF unstaged
  <2>3. /\ DOMAIN bundle' = {"tracks", "cdb", "artwork", "files"}
        /\ bundle'.tracks = (DOMAIN opened.tracks \ request.removals) \cup Added
        /\ bundle'.artwork = Unwritten /\ bundle'.files = <<>>
        /\ resolved = <<>> => bundle'.cdb = live.cdb \ request.removals
    BY <1>1, <2>1 DEF StagingInvariant, InvBundle, Edited, Extended
  <2>4. Added' = Added /\ (Quiet' => live = opened)
    BY <2>2, SameResolved DEF Quiet
  <2>5. InvBundle'
    BY <2>1, <2>2, <2>3, <2>4 DEF InvBundle, Edited, Extended, Closing, Closed
  <2>6. /\ phase \in Edited \cup {"resolve", "allocate", "database"} /\ phase' \in Edited \cup {"database"}
        /\ phase' \notin {"extend", "records", "frames", "staged"}
    BY <1>1, <2>1 DEF Edited
  <2> QED BY <1>1, <2>1, <2>5, <2>6, PassStep
<1> QED BY <1>2, <1>3

\* The companion is extended from what was opened, in place of what the removal staged.
LEMMA AddToCdbStep ==
  ASSUME StagingInvariant, AddToCdb
  PROVE  StagingInvariant'
<1>1. /\ phase = "extend" /\ phase # "refused" /\ InvOpened /\ request.removals \subseteq DOMAIN opened.tracks
      /\ resolved # <<>> /\ ~Binary
  BY DEF AddToCdb, StagingInvariant, InvOpened, Edited
<1>2. /\ bundle' = [bundle EXCEPT !.cdb = live.cdb \cup Added]
      /\ phase' = "records" /\ why' = why /\ UNCHANGED <<unstaged, resolved, active, nextImage>>
  BY DEF AddToCdb, Continue
<1>3. UNCHANGED <<live, opened, profile, request, resolved, writes>>
  BY <1>2 DEF unstaged
<1>4. /\ DOMAIN bundle' = {"tracks", "cdb", "artwork", "files"}
      /\ bundle'.tracks = (DOMAIN opened.tracks \ request.removals) \cup Added
      /\ bundle'.cdb = live.cdb \cup Added
      /\ bundle'.artwork = bundle.artwork /\ bundle'.files = bundle.files
      /\ Quiet => bundle.artwork = BaseArtwork /\ bundle.files = BaseFiles
  BY <1>1, <1>2 DEF StagingInvariant, InvBundle, Edited
<1>5. /\ Added' = Added /\ BaseArtwork' = BaseArtwork /\ BaseFiles' = BaseFiles
      /\ (Quiet' => Quiet) /\ (Quiet => live = opened)
  BY <1>3, SameResolved, SameBase DEF Quiet
<1>6. InvBundle'
  BY <1>1, <1>2, <1>3, <1>4, <1>5 DEF InvBundle, Edited, Extended, Closing, Closed
<1>7. /\ phase \in Edited \cup {"resolve", "allocate", "database"} /\ phase' \in Edited \cup {"database"}
      /\ phase' # "extend" /\ phase' # "staged"
  BY <1>1, <1>2 DEF Edited
<1> QED BY <1>1, <1>2, <1>6, <1>7, PassStep

\* A store as a device has it can be read, and repacked without any of its tracks.
LEMMA SoundIsReindexable ==
  ASSUME NEW store, SoundStore(store), NEW removed, removed \subseteq TracksOf(store.records)
  PROVE  Referenced(store.records) \subseteq DOMAIN store.files /\ Reindexable(store, removed)
<1> DEFINE records == store.records
<1>1. /\ Whole(records) /\ Apart(records)
      /\ \A r \in Range(records) : SoundRecord(store, r)
  BY SoundRecords
<1>2. \A r \in Range(records) : Readable(store, r) /\ DOMAIN r.refs \subseteq DOMAIN store.files
  BY <1>1 DEF SoundRecord, Readable
<1>3. ASSUME NEW t \in removed PROVE Cardinality({i \in DOMAIN records : records[i].track = t}) = 1
  <2>1. PICK r \in Range(records) : r.track = t
    BY <1>3 DEF TracksOf
  <2>2. PICK i \in DOMAIN records : r = records[i]
    BY <1>1, <2>1, WholeFacts
  <2>3. {j \in DOMAIN records : records[j].track = t} = {i}
    BY <1>1, <2>1, <2>2 DEF Apart
  <2> QED BY <2>3, FS_Singleton
<1>4. Range(Kept(records, removed)) \subseteq Range(records)
  BY <1>1, KeptRecords
<1>5. Reindexable(store, removed)
  BY <1>2, <1>3, <1>4 DEF Reindexable
<1>6. Referenced(records) \subseteq DOMAIN store.files
  BY <1>2 DEF Referenced
<1> QED BY <1>5, <1>6

\* Nothing was added: there is nothing to link or to draw.
LEMMA NothingAdded ==
  ASSUME resolved = <<>>
  PROVE  Linked = <<>> /\ Framed = {} /\ Added = {}
<1>1. DOMAIN resolved = {}
  BY EmptyIsWhole
<1>2. Framed = {} /\ Added = {}
  BY <1>1 DEF Framed, Added
<1>3. Linked = <<>>
  <2>1. Whole(resolved) /\ {i \in DOMAIN resolved : resolved[i].link.kind # "none"} = {}
    BY <1>1, EmptyIsWhole
  <2>2. PICK pos : Places(resolved, {}, Linked, pos)
    BY <2>1, SelectedWhole DEF Linked
  <2>3. Whole(Linked)
    BY <2>1, SelectedWhole DEF Linked
  <2>4. Len(Linked) \in Nat /\ pos \in [1..Len(Linked) -> {}]
    BY <2>2, <2>3, WholeFacts DEF Places
  <2>5. Len(Linked) = 0
    BY <2>4
  <2> QED BY <2>3, <2>5, EmptySeq DEF Whole
<1> QED BY <1>2, <1>3

LEMMA SoundNow ==
  ASSUME InvOpened
  PROVE  /\ SoundDevice(live) /\ SoundStore(live.store)
         /\ SoundDevice(opened) /\ SoundStore(opened.store)
         /\ SoundRequest(request) /\ SoundProfile(profile) /\ writes \in Nat
<1>1. writes \in 0..MaxWrites /\ MaxWrites \in Nat
  BY StagingAssumptions DEF InvOpened
<1>2. writes \in Nat
  BY <1>1
<1> QED BY <1>2, StagingAssumptions DEF InvOpened, SoundDevice

\* The artwork is repacked as it was opened, or refused when it has changed.
LEMMA ReindexStep ==
  ASSUME StagingInvariant, ReindexArtwork
  PROVE  StagingInvariant'
<1> DEFINE next == IF resolved = <<>> THEN "verify" ELSE IF Binary THEN "records" ELSE "extend"
           store == Reindexed(live.store, Requested)
           refused == ~(Referenced(live.store.records) \subseteq profile.formats \cap DOMAIN live.store.files)
                      \/ ~Reindexable(live.store, Requested)
<1>1. /\ phase = "reindex" /\ phase # "refused" /\ InvOpened /\ request.removals \subseteq DOMAIN opened.tracks
      /\ InvBundle
  BY DEF ReindexArtwork, StagingInvariant, InvOpened, Edited
<1>2. CASE Supported /\ Requested # {} /\ refused
  <2>1. Refuse("artwork")
    BY <1>2 DEF ReindexArtwork
  <2>2. SUFFICES ASSUME writes = 0 PROVE FALSE
    <3>1. writes \in Nat
      BY <1>1, SoundNow
    <3>2. writes > 0
      BY <2>2, <3>1
    <3> QED BY <1>1, <2>1, <3>2, RefuseStep
  <2>3. /\ Referenced(live.store.records) \subseteq DOMAIN live.store.files
        /\ Reindexable(live.store, Requested)
    BY <1>1, SoundNow, SoundIsReindexable DEF Requested
  <2>4. Referenced(live.store.records) \subseteq profile.formats
    BY <1>1, <1>2, StagingAssumptions DEF InvOpened, SoundProfile, Supported
  <2> QED BY <1>2, <2>3, <2>4
<1>3. CASE ~(Supported /\ Requested # {} /\ refused)
  <2> DEFINE works == Supported /\ Requested # {}
  <2>1. /\ bundle' = IF works
                     THEN [bundle EXCEPT !.artwork = [present |-> TRUE, records |-> store.records, next |-> store.next],
                                         !.files = store.files]
                     ELSE bundle
        /\ phase' = next /\ why' = why /\ UNCHANGED <<unstaged, resolved, active, nextImage>>
    BY <1>3 DEF ReindexArtwork, Continue
  <2>2. UNCHANGED <<live, opened, profile, request, resolved, writes>>
    BY <2>1 DEF unstaged
  <2>3. /\ DOMAIN bundle' = {"tracks", "cdb", "artwork", "files"}
        /\ bundle'.tracks = (DOMAIN opened.tracks \ request.removals) \cup Added
        /\ bundle'.cdb = bundle.cdb
        /\ bundle'.artwork = IF works THEN ArtworkOf(store) ELSE Unwritten
        /\ bundle'.files = IF works THEN store.files ELSE <<>>
    <3>1. /\ DOMAIN bundle = {"tracks", "cdb", "artwork", "files"}
          /\ bundle.tracks = (DOMAIN opened.tracks \ request.removals) \cup Added
          /\ bundle.artwork = Unwritten /\ bundle.files = <<>>
      BY <1>1 DEF InvBundle, Edited, Extended
    <3> HIDE DEF works, store
    <3> QED BY <2>1, <3>1 DEF ArtworkOf
  <2>4. Quiet => bundle'.artwork = BaseArtwork /\ bundle'.files = BaseFiles
    <3>1. Quiet => (works <=> Repacked) /\ store = RepackedStore
      BY DEF Quiet, Requested, Repacked, RepackedStore
    <3> HIDE DEF works, store
    <3> QED BY <2>3, <3>1 DEF BaseArtwork, BaseFiles
  <2> HIDE DEF works, store
  <2>5. /\ BaseArtwork' = BaseArtwork /\ BaseFiles' = BaseFiles /\ FullArtwork' = FullArtwork
        /\ Added' = Added /\ Framed' = Framed /\ Binary' = Binary /\ (Quiet' => Quiet)
    BY <2>2, SameBase, SameResolved DEF Quiet, Binary
  <2>6. phase' \in Extended => (phase' = "verify" /\ resolved = <<>>) \/ (phase' = "records" /\ resolved # <<>> /\ Binary)
    BY <2>1 DEF Extended
  <2>7. resolved = <<>> => FullArtwork = BaseArtwork /\ Framed = {}
    BY NothingAdded DEF FullArtwork
  <2>8. phase' \in {"verify", "records", "extend"} /\ (phase' = "extend" => ~Binary /\ resolved # <<>>)
    BY <2>1
  <2>9. Quiet /\ ~Binary /\ resolved = <<>> => bundle'.cdb = opened.cdb \ request.removals
    BY <1>1, <2>3 DEF InvBundle
  <2>10. /\ Quiet' => /\ phase' \in {"reindex", "extend"} /\ ~Binary' /\ resolved' = <<>> =>
                           bundle'.cdb = opened'.cdb \ request'.removals
                      /\ phase' \in Extended /\ ~Binary' =>
                           bundle'.cdb = IF resolved' = <<>> THEN opened'.cdb \ request'.removals ELSE opened'.cdb \cup Added'
    BY <2>2, <2>5, <2>6, <2>9
  <2>11. /\ Quiet' => /\ phase' \in {"extend", "records"} => bundle'.artwork = BaseArtwork'
                      /\ phase' \in {"extend", "records", "frames"} => bundle'.files = BaseFiles'
                      /\ phase' \in Closing => bundle'.artwork = FullArtwork'
    BY <2>4, <2>5, <2>6, <2>7, <2>8 DEF Closing, Extended
  <2>12. Quiet' /\ phase' \in Closed =>
           /\ DOMAIN bundle'.files = DOMAIN BaseFiles' \cup Framed'
           /\ \A f \in DOMAIN bundle'.files :
                bundle'.files[f] = IF f \in Framed' THEN WithFrames(BaseOf(f)', FramesOf(f)') ELSE BaseFiles'[f]
    BY <2>4, <2>5, <2>6, <2>7, <2>8 DEF Closed, Extended
  <2>13. InvBundle'
    <3>1. phase' \in Extended \cup {"extend", "refused"}
      BY <2>8 DEF Extended
    <3> QED BY <2>2, <2>3, <2>5, <2>10, <2>11, <2>12, <3>1 DEF InvBundle
  <2>14. /\ phase \in Edited \cup {"resolve", "allocate", "database"} /\ phase' \in Edited \cup {"database"}
         /\ phase' # "staged" /\ (phase' = "extend" => ~Binary)
         /\ phase' \in {"extend", "records", "frames"} => resolved # <<>>
    BY <1>1, <2>1 DEF Edited
  <2> QED BY <1>1, <2>1, <2>13, <2>14, PassStep
<1> QED BY <1>2, <1>3

\* The records are appended to the artwork that was opened.
LEMMA RecordsStep ==
  ASSUME StagingInvariant, AppendRecords
  PROVE  StagingInvariant'
<1> DEFINE store == WithRecords(live.store, NewRecords)
           works == ~(~Supported \/ Linked = <<>>)
<1>1. /\ phase = "records" /\ phase # "refused" /\ InvOpened /\ request.removals \subseteq DOMAIN opened.tracks
      /\ resolved # <<>> /\ InvBundle
  BY DEF AppendRecords, StagingInvariant, InvOpened, Edited
<1>2. CASE works /\ ~live.store.present
  <2>1. Refuse("missing")
    BY <1>2 DEF AppendRecords
  <2> QED BY <1>1, <2>1, RefuseStep
<1>3. CASE ~(works /\ ~live.store.present)
  <2>1. /\ bundle' = IF works
                     THEN [bundle EXCEPT !.artwork = [present |-> TRUE, records |-> store.records, next |-> store.next]]
                     ELSE bundle
        /\ phase' = "frames" /\ why' = why /\ UNCHANGED <<unstaged, resolved, active, nextImage>>
    BY <1>3 DEF AppendRecords, Continue
  <2>2. UNCHANGED <<live, opened, profile, request, resolved, writes>>
    BY <2>1 DEF unstaged
  <2>3. /\ DOMAIN bundle' = {"tracks", "cdb", "artwork", "files"}
        /\ bundle'.tracks = (DOMAIN opened.tracks \ request.removals) \cup Added
        /\ bundle'.cdb = bundle.cdb /\ bundle'.files = bundle.files
        /\ bundle'.artwork = IF works THEN ArtworkOf(store) ELSE bundle.artwork
    <3>1. /\ DOMAIN bundle = {"tracks", "cdb", "artwork", "files"}
          /\ bundle.tracks = (DOMAIN opened.tracks \ request.removals) \cup Added
      BY <1>1 DEF InvBundle, Edited
    <3> HIDE DEF works, store
    <3> QED BY <2>1, <3>1 DEF ArtworkOf
  <2>4. /\ Quiet => bundle'.artwork = FullArtwork /\ bundle'.files = BaseFiles
        /\ Quiet /\ ~Binary => bundle'.cdb = opened.cdb \cup Added
    <3>1. Quiet => store = WithRecords(opened.store, NewRecords)
      BY DEF Quiet
    <3>2. Quiet => bundle.artwork = BaseArtwork /\ bundle.files = BaseFiles
      BY <1>1 DEF InvBundle
    <3>3. Quiet /\ ~Binary => bundle.cdb = opened.cdb \cup Added
      BY <1>1 DEF InvBundle, Extended
    <3>4. works <=> Supported /\ Linked # <<>>
      OBVIOUS
    <3> HIDE DEF works, store
    <3> QED BY <2>3, <3>1, <3>2, <3>3, <3>4 DEF FullArtwork
  <2> HIDE DEF works, store
  <2>5. /\ BaseFiles' = BaseFiles /\ FullArtwork' = FullArtwork
        /\ Added' = Added /\ Binary' = Binary /\ (Quiet' => Quiet)
    BY <2>2, SameBase, SameResolved DEF Quiet, Binary
  <2>6. InvBundle'
    BY <1>1, <2>1, <2>2, <2>3, <2>4, <2>5 DEF InvBundle, Edited, Extended, Closing, Closed
  <2>7. /\ phase \in Edited \cup {"resolve", "allocate", "database"} /\ phase' \in Edited \cup {"database"}
        /\ phase' # "staged" /\ phase' # "extend"
    BY <1>1, <2>1 DEF Edited
  <2> QED BY <1>1, <2>1, <2>6, <2>7, PassStep
<1> QED BY <1>2, <1>3

\* The frames of a format follow one another from the end of its file.
LEMMA FramesInOrder ==
  ASSUME InvOpened, InvResolved, InvLinks, Quiet, NEW f \in active
  PROVE  /\ Whole(FramesOf(f)) /\ FramesFit(FileOf(opened.store.files, f), FramesOf(f))
         /\ \A n \in DOMAIN FramesOf(f) :
              \E i \in Drawing(f) : FramesOf(f)[n] = [slot |-> resolved[i].link.refs[f], image |-> NewImage(i, f)]
         /\ \A i \in Drawing(f) :
              \E n \in DOMAIN FramesOf(f) : FramesOf(f)[n].slot = resolved[i].link.refs[f] /\ FramesOf(f)[n].image = NewImage(i, f)
<1> DEFINE with == Selected(resolved, Drawing(f))
           frames == FramesOf(f)
           end == Len(FileOf(opened.store.files, f))
<1>1. Whole(resolved) /\ Drawing(f) \subseteq DOMAIN resolved /\ DOMAIN resolved = 1..Len(resolved) /\ Len(resolved) \in Nat
  BY WholeFacts DEF InvResolved, Drawing
<1>2. Whole(with) /\ Len(with) \in Nat /\ DOMAIN with = 1..Len(with)
  BY <1>1, SelectedWhole, WholeFacts
<1>3. PICK pos : Places(resolved, Drawing(f), with, pos)
  BY <1>1, SelectedWhole
<1>4. /\ pos \in [1..Len(with) -> Drawing(f)] /\ \A n \in 1..Len(with) : with[n] = resolved[pos[n]]
      /\ \A i \in Drawing(f) : \E n \in 1..Len(with) : pos[n] = i
  BY <1>3 DEF Places
<1>5. \A i \in Drawing(f) :
        /\ resolved[i].link.refs[f] = end + Cardinality(Preceding(Drawing(f), i))
        /\ resolved[i].link.frames[f] = NewImage(i, f)
  <2>1. ASSUME NEW i \in Drawing(f)
        PROVE  /\ resolved[i].link.refs[f] = end + Cardinality(Preceding(Drawing(f), i))
               /\ resolved[i].link.frames[f] = NewImage(i, f)
    <3>1. i \in DOMAIN resolved /\ resolved[i].link.kind = "new" /\ LinkFits(i, resolved[i].link)
      BY <1>1 DEF Drawing, InvLinks
    <3>2. resolved[i].link.frames = [g \in active |-> NewImage(i, g)]
      BY <3>1, NewShape
    <3> QED BY <3>1, <3>2 DEF LinkFits, Preceding
  <2> QED BY <2>1
<1>6. /\ DOMAIN frames = 1..Len(with)
      /\ frames = [n \in 1..Len(with) |-> [slot |-> with[n].link.refs[f], image |-> with[n].link.frames[f]]]
  BY <1>2 DEF FramesOf
<1> HIDE DEF with, frames
<1>7. \A n \in 1..Len(with) : frames[n] = [slot |-> resolved[pos[n]].link.refs[f], image |-> NewImage(pos[n], f)]
  <2>1. ASSUME NEW n \in 1..Len(with)
        PROVE  frames[n] = [slot |-> resolved[pos[n]].link.refs[f], image |-> NewImage(pos[n], f)]
    <3>1. with[n] = resolved[pos[n]] /\ pos[n] \in Drawing(f)
      BY <1>4
    <3>2. resolved[pos[n]].link.frames[f] = NewImage(pos[n], f)
      BY <1>5, <3>1
    <3>3. frames[n] = [slot |-> with[n].link.refs[f], image |-> with[n].link.frames[f]]
      BY <1>6
    <3> QED BY <3>1, <3>2, <3>3
  <2> QED BY <2>1
<1>8. Whole(frames) /\ Len(frames) = Len(with)
  <2>1. frames \in [1..Len(with) -> Range(frames)]
    BY <1>6 DEF Range
  <2> QED BY <1>2, <2>1, FunctionIsWhole
<1>9. end \in Nat
  BY SoundNow, FilesAreSequences
<1>10. FramesFit(FileOf(opened.store.files, f), frames)
  <2>1. ASSUME NEW n \in 1..Len(with) PROVE frames[n].slot = end + n - 1
    <3>1. Drawing(f) \in SUBSET Nat /\ n \in 1..Len(with) /\ Len(with) \in Nat
      BY <1>1, <1>2, <2>1
    <3>2. Cardinality(Preceding(Drawing(f), pos[n])) = n - 1
      BY <1>3, <3>1, PlacesCount, ZenonT(20)
    <3>3. pos[n] \in Drawing(f)
      BY <1>4
    <3>4. frames[n].slot = resolved[pos[n]].link.refs[f]
      <4>1. frames[n] = [slot |-> resolved[pos[n]].link.refs[f], image |-> NewImage(pos[n], f)]
        BY <1>7
      <4> QED BY <4>1
    <3>5. frames[n].slot = end + (n - 1)
      BY <1>5, <3>2, <3>3, <3>4
    <3>6. n \in Nat
      BY <1>2
    <3> QED BY <1>9, <3>5, <3>6
  <2> QED BY <1>6, <2>1 DEF FramesFit
<1>11. ASSUME NEW n \in DOMAIN frames
       PROVE  \E i \in Drawing(f) : frames[n] = [slot |-> resolved[i].link.refs[f], image |-> NewImage(i, f)]
  BY <1>4, <1>6, <1>7
<1>12. ASSUME NEW i \in Drawing(f)
       PROVE  \E n \in DOMAIN frames : frames[n].slot = resolved[i].link.refs[f] /\ frames[n].image = NewImage(i, f)
  <2>1. PICK n \in 1..Len(with) : pos[n] = i
    BY <1>4
  <2>2. frames[n].slot = resolved[i].link.refs[f] /\ frames[n].image = NewImage(i, f)
    <3>1. frames[n] = [slot |-> resolved[pos[n]].link.refs[f], image |-> NewImage(pos[n], f)]
      BY <1>7
    <3> QED BY <2>1, <3>1
  <2> QED BY <1>6, <2>2
<1> QED BY <1>8, <1>10, <1>11, <1>12 DEF frames

\* The links are those of the additions that have one, each once.
Linking == {i \in DOMAIN resolved : resolved[i].link.kind # "none"}

LEMMA LinkedPicks ==
  ASSUME InvResolved
  PROVE  /\ Whole(Linked) /\ Picks(resolved, Linking, Linked)
         /\ Linking # {} => Linked # <<>>
<1>1. Whole(resolved) /\ Linking \subseteq DOMAIN resolved
  BY DEF InvResolved, Linking
<1>2. Whole(Linked) /\ Picks(resolved, Linking, Linked)
  <2>1. Linked = Selected(resolved, Linking)
    BY DEF Linked, Linking
  <2> QED BY <1>1, <2>1, SelectedPicks
<1>3. Linking # {} => Linked # <<>>
  BY <1>2, EmptyIsWhole DEF Picks
<1> QED BY <1>2, <1>3

\* Frames are drawn in the active formats, by additions that are linked.
LEMMA FramedFormats ==
  ASSUME InvResolved
  PROVE  /\ Framed \subseteq active /\ (Framed # {} => Linked # <<>>)
         /\ \A f : Drawing(f) \subseteq DOMAIN resolved /\ (f \in Framed <=> Drawing(f) # {})
<1>1. ASSUME NEW f \in Framed PROVE f \in active /\ Linking # {}
  <2>1. PICK i \in DOMAIN resolved : resolved[i].link.kind = "new" /\ f \in DOMAIN resolved[i].link.frames
    BY <1>1 DEF Framed
  <2>2. DOMAIN resolved[i].link.frames = active
    BY <2>1, NewShape
  <2>3. i \in Linking
    BY <2>1 DEF Linking
  <2> QED BY <2>1, <2>2, <2>3
<1>2. \A f : Drawing(f) \subseteq DOMAIN resolved /\ (f \in Framed <=> Drawing(f) # {})
  BY DEF Framed, Drawing
<1> QED BY <1>1, <1>2, LinkedPicks

\* Nothing is repacked when nothing is removed.
LEMMA NothingRepacked ==
  ASSUME ~Removing
  PROVE  ~Repacked /\ BaseFiles = <<>> /\ BaseArtwork = Unwritten
<1>1. ~Repacked
  BY DEF Removing, Repacked
<1> QED BY <1>1 DEF BaseFiles, BaseArtwork

\* The frames are appended to what the removal staged, or to what was opened: at
\* the slots they were given, when no artwork was removed.
LEMMA FramesStep ==
  ASSUME StagingInvariant, AppendFrames
  PROVE  StagingInvariant'
<1> DEFINE changed == Supported /\ \E f \in Framed : ~FramesFit(Prefix(f), FramesOf(f))
           files == [f \in DOMAIN bundle.files \cup Framed |->
                       IF f \in Framed THEN WithFrames(Prefix(f), FramesOf(f)) ELSE bundle.files[f]]
<1>1. /\ phase = "frames" /\ phase # "refused" /\ InvOpened /\ request.removals \subseteq DOMAIN opened.tracks
      /\ resolved # <<>> /\ InvBundle /\ InvResolved /\ InvLinks /\ original = opened
  BY DEF AppendFrames, StagingInvariant, InvOpened, Edited
<1>2. Quiet => bundle.files = BaseFiles /\ \A f : Prefix(f) = BaseOf(f)
  <2>1. Quiet => bundle.files = BaseFiles
    BY <1>1 DEF InvBundle
  <2> QED BY <1>1, <2>1 DEF Prefix, BaseOf
<1>3. CASE changed
  <2>1. Refuse("changed")
    BY <1>3 DEF AppendFrames
  <2>2. ASSUME writes = 0, ~MixedArt PROVE FALSE
    <3>1. PICK f \in Framed : ~FramesFit(Prefix(f), FramesOf(f))
      BY <1>3
    <3>2. f \in active /\ Linked # <<>>
      BY <1>1, FramedFormats
    <3>3. Quiet /\ ~Removing
      BY <1>1, <2>2, <3>2 DEF Quiet, InvOpened, MixedArt
    <3>4. Prefix(f) = FileOf(opened.store.files, f)
      <4>1. DOMAIN <<>> = {}
        BY EmptyIsWhole
      <4> QED BY <1>2, <3>3, <4>1, NothingRepacked DEF BaseOf
    <3> QED BY <1>1, <3>1, <3>2, <3>3, <3>4, FramesInOrder
  <2>3. writes > 0 \/ MixedArt
    <3>1. writes \in Nat /\ (writes # 0 \/ MixedArt)
      BY <1>1, <2>2, SoundNow
    <3> QED BY <3>1
  <2> QED BY <1>1, <2>1, <2>3, RefuseStep
<1>4. CASE ~changed
  <2>1. /\ bundle' = [bundle EXCEPT !.files = files]
        /\ phase' = "verify" /\ why' = why /\ UNCHANGED <<unstaged, resolved, active, nextImage>>
    BY <1>4 DEF AppendFrames, Continue
  <2>2. UNCHANGED <<live, opened, profile, request, resolved, writes>>
    BY <2>1 DEF unstaged
  <2>3. /\ DOMAIN bundle' = {"tracks", "cdb", "artwork", "files"}
        /\ bundle'.tracks = (DOMAIN opened.tracks \ request.removals) \cup Added
        /\ bundle'.cdb = bundle.cdb /\ bundle'.artwork = bundle.artwork /\ bundle'.files = files
    <3>1. /\ DOMAIN bundle = {"tracks", "cdb", "artwork", "files"}
          /\ bundle.tracks = (DOMAIN opened.tracks \ request.removals) \cup Added
      BY <1>1 DEF InvBundle, Edited
    <3> HIDE DEF files
    <3> QED BY <2>1, <3>1
  <2>4. Quiet => /\ bundle'.artwork = FullArtwork
                 /\ ~Binary => bundle'.cdb = opened.cdb \cup Added
    BY <1>1, <2>3 DEF InvBundle, Extended, Closing
  <2>5. Quiet => /\ DOMAIN files = DOMAIN BaseFiles \cup Framed
                 /\ \A f \in DOMAIN files :
                      files[f] = IF f \in Framed THEN WithFrames(BaseOf(f), FramesOf(f)) ELSE BaseFiles[f]
    BY <1>2
  <2> HIDE DEF files
  <2>6. /\ BaseFiles' = BaseFiles /\ FullArtwork' = FullArtwork
        /\ \A f : BaseOf(f)' = BaseOf(f) /\ FramesOf(f)' = FramesOf(f)
        /\ Added' = Added /\ Framed' = Framed /\ Binary' = Binary /\ (Quiet' => Quiet)
    BY <2>2, SameBase, SameResolved DEF Quiet, Binary
  <2>7. Quiet' => /\ DOMAIN bundle'.files = DOMAIN BaseFiles' \cup Framed'
                  /\ \A f \in DOMAIN bundle'.files :
                       bundle'.files[f] = IF f \in Framed' THEN WithFrames(BaseOf(f)', FramesOf(f)') ELSE BaseFiles'[f]
    BY <2>3, <2>5, <2>6
  <2>8. InvBundle'
    BY <1>1, <2>1, <2>2, <2>3, <2>4, <2>6, <2>7 DEF InvBundle, Edited, Extended, Closing, Closed
  <2>9. /\ phase \in Edited \cup {"resolve", "allocate", "database"} /\ phase' \in Edited \cup {"database"}
        /\ phase' \notin {"staged", "extend", "records", "frames"}
    BY <1>1, <2>1 DEF Edited
  <2> QED BY <1>1, <2>1, <2>8, <2>9, PassStep
<1> QED BY <1>3, <1>4

\* The ids of the additions are new to every device, and as many as the additions.
LEMMA AddedFresh ==
  ASSUME InvOpened, InvResolved
  PROVE  /\ IsFiniteSet(Added) /\ Cardinality(Added) = Len(resolved) /\ Len(resolved) \in Nat
         /\ \A i, j \in DOMAIN resolved : resolved[i].pid = resolved[j].pid => i = j
         /\ \A d \in Devices : Added \cap (DOMAIN d.tracks \cup d.cdb \cup TracksOf(d.store.records)) = {}
         /\ \A i \in DOMAIN resolved : resolved[i].pid \in Nat
<1> DEFINE n == Len(resolved)
           g == [i \in 1..n |-> NewPids[i]]
<1>1. /\ DOMAIN resolved = 1..n /\ n \in Nat /\ n <= Len(request.additions)
      /\ \A i \in 1..n : resolved[i].pid = NewPids[i]
  BY WholeFacts DEF InvResolved
<1>2. Len(request.additions) \in Nat /\ Len(request.additions) <= Len(NewPids)
  BY SoundNow, WholeFacts DEF SoundRequest, Whole
<1>3. /\ DOMAIN NewPids = 1..Len(NewPids) /\ Len(NewPids) \in Nat
      /\ \A i, j \in DOMAIN NewPids : NewPids[i] = NewPids[j] => i = j
      /\ \A i \in DOMAIN NewPids : NewPids[i] \in Nat
  BY StagingAssumptions, LenProperties, ElementOfSeq DEF FreshPids
<1>4. \A i \in 1..n : i \in DOMAIN NewPids
  BY <1>1, <1>2, <1>3
<1>5. Added = {NewPids[i] : i \in 1..n}
  BY <1>1 DEF Added
<1>6. IsFiniteSet(Added) /\ Cardinality(Added) = n
  <2>1. g \in [1..n -> Added] /\ \A x \in Added : \E i \in 1..n : g[i] = x
    BY <1>5
  <2>2. \A i, j \in 1..n : g[i] = g[j] => i = j
    BY <1>3, <1>4
  <2>3. g \in Bijection(1..n, Added)
    BY <2>1, <2>2 DEF Bijection, Injection, Surjection, IsInjective
  <2>4. ExistsBijection(1..n, Added)
    BY <2>3 DEF ExistsBijection
  <2>5. Cardinality(Added) = n
    BY <1>1, <2>4, FS_CountingElements
  <2>6. IsFiniteSet(1..n)
    BY <1>1, FS_Interval
  <2>7. g \in Surjection(1..n, Added)
    BY <2>3 DEF Bijection
  <2> QED BY <2>5, <2>6, <2>7, FS_Surjection
<1>7. \A d \in Devices : Added \cap (DOMAIN d.tracks \cup d.cdb \cup TracksOf(d.store.records)) = {}
  BY <1>4, <1>5, StagingAssumptions DEF FreshPids
<1> QED BY <1>1, <1>3, <1>4, <1>6, <1>7

\* The edited tables are those of the library, less and more what was asked for.
LEMMA LibraryMeant ==
  ASSUME InvOpened, InvResolved, library = opened.tracks,
         bundle.tracks = (DOMAIN opened.tracks \ request.removals) \cup Added
  PROVE  Meant
<1> DEFINE D == DOMAIN opened.tracks
           R == request.removals
<1>1. IsFiniteSet(D) /\ R \subseteq D /\ opened \in Devices
  BY SoundNow DEF SoundDevice, InvOpened
<1>2. IsFiniteSet(Added) /\ Cardinality(Added) = Len(resolved) /\ Added \cap D = {} /\ Len(resolved) \in Nat
  BY <1>1, AddedFresh
<1> HIDE DEF D, R
<1>3. Cardinality(D) \in Nat /\ Cardinality(R) \in Nat /\ D \cap R = R /\ (D \ R) \cap Added = {}
  BY <1>1, <1>2, CountIsNat
<1>4. IsFiniteSet(D \ R) /\ Cardinality(D \ R) = Cardinality(D) - Cardinality(R)
  <2>1. IsFiniteSet(D \ R) /\ Cardinality(D \ R) = Cardinality(D) - Cardinality(D \cap R)
    BY <1>1, FS_Difference
  <2> QED BY <1>3, <2>1
<1>5. Cardinality((D \ R) \cup Added) = Cardinality(D) - Cardinality(R) + Len(resolved)
  <2>1. /\ Cardinality((D \ R) \cup Added)
             = Cardinality(D \ R) + Cardinality(Added) - Cardinality((D \ R) \cap Added)
    BY <1>2, <1>4, FS_Union
  <2>2. Cardinality((D \ R) \cap Added) = 0
    BY <1>3, FS_EmptySet
  <2> QED BY <1>2, <1>3, <1>4, <2>1, <2>2
<1>6. ((D \ R) \cup Added) \cap R = {} /\ Added \subseteq (D \ R) \cup Added
  BY <1>1, <1>2
<1> QED BY <1>5, <1>6 DEF Meant, D, R

\* What is staged is checked against the library and the device of the opening.
LEMMA VerifyStep ==
  ASSUME StagingInvariant, Verify
  PROVE  StagingInvariant'
<1>1. /\ phase = "verify" /\ phase # "refused" /\ InvOpened /\ request.removals \subseteq DOMAIN opened.tracks
      /\ InvBundle /\ InvResolved /\ writes \in Nat
      /\ bundle.tracks = (DOMAIN opened.tracks \ request.removals) \cup Added
  BY SoundNow DEF Verify, StagingInvariant, InvOpened, InvBundle, Edited
<1>2. CASE ~Meant
  <2>1. Refuse("semantics")
    BY <1>2 DEF Verify
  <2>2. library # opened.tracks
    BY <1>1, <1>2, LibraryMeant
  <2>3. writes > 0
    BY <1>1, <2>2, Written
  <2> QED BY <1>1, <2>1, <2>3, RefuseStep
<1>3. CASE Meant /\ ~Unchanged
  <2>1. Refuse("generation")
    BY <1>3 DEF Verify
  <2>2. writes > 0
    BY <1>1, <1>3, Written DEF Unchanged
  <2> QED BY <1>1, <2>1, <2>2, RefuseStep
<1>4. CASE Meant /\ Unchanged /\ ~TargetsNamed
  <2>1. Refuse("targets")
    BY <1>4 DEF Verify
  <2>2. ~Supported
    BY <1>1, <1>4, SoundNow DEF InvOpened, TargetsNamed, SoundProfile, Supported
  <2> QED BY <1>1, <2>1, <2>2, RefuseStep
<1>5. CASE Meant /\ Unchanged /\ TargetsNamed
  <2>1. phase' = "staged" /\ why' = why /\ UNCHANGED <<unstaged, resolved, active, nextImage, bundle>>
    BY <1>5 DEF Verify, Continue
  <2>2. /\ InvBundle /\ (Quiet' => Quiet) /\ phase = "verify"
        /\ opened' = opened /\ profile' = profile /\ request' = request
        /\ resolved' = resolved /\ bundle' = bundle
    BY <1>1, <2>1 DEF Quiet, unstaged
  <2>3. InvBundle'
    BY <2>1, <2>2, BundleKept
  <2>4. /\ phase \in Edited \cup {"resolve", "allocate", "database"} /\ phase' \in Edited \cup {"database"}
        /\ phase' \notin {"extend", "records", "frames"} /\ live = opened
    BY <1>1, <1>5, <2>1 DEF Edited, Unchanged
  <2> QED BY <1>1, <2>1, <2>3, <2>4, PassStep
<1> QED BY <1>2, <1>3, <1>4, <1>5

\* Every step of the staging keeps its invariant.
LEMMA StagingInductive == StagingInvariant /\ [Next]_vars => StagingInvariant'
BY StutterStep, AnotherStep, CaptureStep, BackUpStep, ResolveStep, AllocateStep, DatabaseStep, CdbStep,
   ReindexStep, AddToCdbStep, RecordsStep, FramesStep, VerifyStep DEF Next

\* What is staged stays what its passes make of the generation that was opened.
THEOREM StagingInvariance == Spec => []StagingInvariant
<1>1. Init => StagingInvariant
  BY InitInvariant
<1> QED BY <1>1, StagingInductive, PTL DEF Spec

\* A staging is refused for what another program did, or for what was asked of it.
THEOREM RefusalsHaveCause == Spec => []RefusedForCause
<1>1. StagingInvariant => RefusedForCause
  BY DEF StagingInvariant
<1> QED BY <1>1, StagingInvariance, PTL

\* The staging holds what its type says.
THEOREM StagingTyped == Spec => []TypeOK
<1>1. StagingInvariant => TypeOK
  BY DEF StagingInvariant, InvOpened, InvResolved, TypeOK
<1> QED BY <1>1, StagingInvariance, PTL

------------------------------------------------------------------------------
(* What is staged *)

\* The record of an addition that is linked.
NewRecordOf(i) == [image |-> resolved[i].link.image, track |-> resolved[i].pid, refs |-> resolved[i].link.refs]

\* The records of the additions are apart from one another and from those that were opened.
LEMMA NewRecordsFit ==
  ASSUME InvOpened, InvResolved, InvLinks, Quiet
  PROVE  /\ Whole(NewRecords) /\ Apart(NewRecords)
         /\ \A r \in Range(NewRecords) :
              /\ r.image \in Nat /\ r.image > LastImage(opened.store.records)
              /\ r.track \notin TracksOf(opened.store.records) /\ r.track \in Added
              /\ \E i \in Linking : r = NewRecordOf(i)
<1>1. /\ Whole(Linked) /\ Len(Linked) \in Nat /\ DOMAIN Linked = 1..Len(Linked)
      /\ Picks(resolved, Linking, Linked) /\ Linking \subseteq DOMAIN resolved
  BY LinkedPicks, WholeFacts DEF Linking
<1> DEFINE records == NewRecords
<1>2. /\ DOMAIN records = 1..Len(Linked)
      /\ \A k \in 1..Len(Linked) :
           records[k] = [image |-> Linked[k].link.image, track |-> Linked[k].pid, refs |-> Linked[k].link.refs]
  BY <1>1 DEF NewRecords
<1>3. Whole(records)
  <2>1. records \in [1..Len(Linked) -> Range(records)]
    BY <1>1 DEF NewRecords, Range
  <2> HIDE DEF records
  <2> QED BY <1>1, <2>1, FunctionIsWhole
<1> HIDE DEF records
<1> DEFINE same(k, i) == Linked[k] = resolved[i]
<1>4. ASSUME NEW k \in 1..Len(Linked), NEW i \in Linking, same(k, i) PROVE records[k] = NewRecordOf(i)
  <2>1. records[k] = [image |-> Linked[k].link.image, track |-> Linked[k].pid, refs |-> Linked[k].link.refs]
    BY <1>2
  <2>2. Linked[k] = resolved[i]
    BY <1>4
  <2> QED BY <2>1, <2>2, Zenon DEF NewRecordOf
<1>5. /\ \A k \in 1..Len(Linked) : \E i \in Linking : same(k, i)
      /\ \A k, l \in 1..Len(Linked) : k # l => \E i, j \in Linking : i # j /\ same(k, i) /\ same(l, j)
  <2>1. /\ \A k \in DOMAIN Linked : \E i \in Linking : same(k, i)
        /\ \A k, l \in DOMAIN Linked : k # l => \E i, j \in Linking : i # j /\ same(k, i) /\ same(l, j)
    BY <1>1 DEF Picks
  <2> HIDE DEF same
  <2>2. DOMAIN Linked = 1..Len(Linked)
    BY <1>1
  <2> QED BY <2>1, <2>2
<1> HIDE DEF same
<1>6. \A k \in 1..Len(Linked) : \E i \in Linking : records[k] = NewRecordOf(i)
  BY <1>4, <1>5
<1>7. ASSUME NEW k \in 1..Len(Linked), NEW l \in 1..Len(Linked), k # l
      PROVE  \E i, j \in Linking : i # j /\ records[k] = NewRecordOf(i) /\ records[l] = NewRecordOf(j)
  BY <1>7, <1>4, <1>5
<1>8. ASSUME NEW i \in Linking
      PROVE  /\ NewRecordOf(i).image = resolved[i].link.image /\ NewRecordOf(i).track = resolved[i].pid
             /\ NewRecordOf(i).image \in Nat /\ NewRecordOf(i).image > LastImage(opened.store.records)
             /\ NewRecordOf(i).track \notin TracksOf(opened.store.records) /\ NewRecordOf(i).track \in Added
  <2>1. NewRecordOf(i).image = resolved[i].link.image /\ NewRecordOf(i).track = resolved[i].pid
    BY DEF NewRecordOf
  <2>2. i \in DOMAIN resolved /\ resolved[i].link.kind # "none" /\ LinkFits(i, resolved[i].link)
    BY DEF Linking, InvLinks
  <2>3. resolved[i].link.image \in Nat /\ resolved[i].link.image > LastImage(opened.store.records)
    BY <2>2 DEF LinkFits
  <2>4. resolved[i].pid \in Added
    BY <2>2 DEF Added
  <2>5. resolved[i].pid \notin TracksOf(opened.store.records)
    <3>1. opened \in Devices
      BY DEF InvOpened
    <3>2. Added \cap (DOMAIN opened.tracks \cup opened.cdb \cup TracksOf(opened.store.records)) = {}
      BY <3>1, AddedFresh
    <3> QED BY <2>4, <3>2
  <2> QED BY <2>1, <2>3, <2>4, <2>5
<1>9. ASSUME NEW i \in Linking, NEW j \in Linking, i # j
      PROVE  resolved[i].pid # resolved[j].pid /\ resolved[i].link.image # resolved[j].link.image
  <2>1. i \in DOMAIN resolved /\ j \in DOMAIN resolved /\ resolved[i].link.kind # "none" /\ resolved[j].link.kind # "none"
    BY DEF Linking
  <2>2. resolved[i].pid # resolved[j].pid
    BY <1>9, <2>1, AddedFresh
  <2>3. i \in Nat /\ j \in Nat
    BY <2>1, WholeFacts DEF InvResolved
  <2>4. i < j => resolved[i].link.image < resolved[j].link.image
    BY <2>1 DEF InvLinks
  <2>5. j < i => resolved[j].link.image < resolved[i].link.image
    BY <2>1 DEF InvLinks
  <2>6. i < j \/ j < i
    BY <1>9, <2>3
  <2>7. resolved[i].link.image \in Nat /\ resolved[j].link.image \in Nat
    BY <1>8
  <2> QED BY <2>2, <2>4, <2>5, <2>6, <2>7
<1>10. Apart(records)
  <2>1. SUFFICES ASSUME NEW k \in 1..Len(Linked), NEW l \in 1..Len(Linked), k # l
                 PROVE  records[k].track # records[l].track /\ records[k].image # records[l].image
    BY <1>2 DEF Apart
  <2>2. PICK i \in Linking, j \in Linking : i # j /\ records[k] = NewRecordOf(i) /\ records[l] = NewRecordOf(j)
    BY <1>7, <2>1
  <2> QED BY <1>8, <1>9, <2>2
<1>11. ASSUME NEW r \in Range(records)
      PROVE  /\ r.image \in Nat /\ r.image > LastImage(opened.store.records)
             /\ r.track \notin TracksOf(opened.store.records) /\ r.track \in Added
             /\ \E i \in Linking : r = NewRecordOf(i)
  <2>1. PICK k \in 1..Len(Linked) : r = records[k]
    BY <1>2, <1>3, WholeFacts
  <2>2. PICK i \in Linking : r = NewRecordOf(i)
    BY <1>6, <2>1
  <2> QED BY <1>8, <2>2
<1> QED BY <1>3, <1>10, <1>11 DEF records

\* What is staged of the artwork: repacked, extended, or nothing.
Staged ==
  \/ /\ ~(Supported /\ Linked # <<>>) /\ ~Repacked /\ bundle.artwork = Unwritten /\ Framed = {}
     /\ DOMAIN bundle.files = {}
  \/ /\ ~(Supported /\ Linked # <<>>) /\ Repacked /\ bundle.artwork = ArtworkOf(RepackedStore) /\ Framed = {}
     /\ DOMAIN bundle.files = DOMAIN RepackedStore.files
     /\ \A f \in DOMAIN bundle.files : bundle.files[f] = RepackedStore.files[f]
     /\ PackedStore(opened.store, request.removals \cap TracksOf(opened.store.records), RepackedStore)
  \/ /\ Supported /\ Linked # <<>>
     /\ bundle.artwork = ArtworkOf(WithRecords(opened.store, NewRecords))
     /\ LongerStore(opened.store, NewRecords, WithRecords(opened.store, NewRecords))

LEMMA StagedArtwork ==
  ASSUME StagingInvariant, phase = "staged", Quiet
  PROVE  Staged
<1>1. /\ InvOpened /\ InvResolved /\ InvLinks
      /\ bundle.artwork = FullArtwork
      /\ DOMAIN bundle.files = DOMAIN BaseFiles \cup Framed
      /\ \A f \in DOMAIN bundle.files :
           bundle.files[f] = IF f \in Framed THEN WithFrames(BaseOf(f), FramesOf(f)) ELSE BaseFiles[f]
  BY DEF StagingInvariant, InvBundle, Closing, Closed
<1>2. ~(Supported /\ Linked # <<>>) => Framed = {}
  BY <1>1, FramedFormats DEF InvResolved, Supported
<1>3. CASE Supported /\ Linked # <<>>
  BY <1>1, <1>3, SoundNow, NewRecordsFit, WithRecordsStore DEF FullArtwork, Staged
<1>4. CASE ~(Supported /\ Linked # <<>>) /\ Repacked
  <2>1. PackedStore(opened.store, request.removals \cap TracksOf(opened.store.records), RepackedStore)
    BY <1>1, SoundNow, ReindexedStore DEF RepackedStore
  <2> QED BY <1>1, <1>2, <1>4, <2>1 DEF FullArtwork, BaseArtwork, BaseFiles, Staged
<1>5. CASE ~(Supported /\ Linked # <<>>) /\ ~Repacked
  BY <1>1, <1>2, <1>5, EmptyIsWhole DEF FullArtwork, BaseArtwork, BaseFiles, Staged
<1> QED BY <1>3, <1>4, <1>5

\* A device that changes at most once is, when a bundle is staged, what was opened.
LEMMA StagedQuiet ==
  ASSUME MaxWrites <= 1, StagingInvariant, phase = "staged"
  PROVE  /\ Quiet /\ live = opened /\ Staged /\ InvOpened /\ InvResolved /\ InvLinks /\ InvBundle
         /\ original = opened /\ request.removals \subseteq DOMAIN opened.tracks
         /\ bundle.tracks = (DOMAIN opened.tracks \ request.removals) \cup Added
         /\ Added \cap (DOMAIN opened.tracks \cup opened.cdb \cup TracksOf(opened.store.records)) = {}
<1>1. /\ Quiet /\ live = opened /\ InvOpened /\ InvResolved /\ InvLinks /\ InvBundle
      /\ original = opened /\ request.removals \subseteq DOMAIN opened.tracks /\ opened \in Devices
      /\ bundle.tracks = (DOMAIN opened.tracks \ request.removals) \cup Added
  BY DEF StagingInvariant, InvOpened, InvBundle, Quiet, Edited
<1>2. Added \cap (DOMAIN opened.tracks \cup opened.cdb \cup TracksOf(opened.store.records)) = {}
  BY <1>1, AddedFresh
<1> QED BY <1>1, <1>2, StagedArtwork

\* The tracks of the staged artwork are those of the artwork that was opened,
\* less the removed ones or more the added ones.
LEMMA StagedTracks ==
  ASSUME InvOpened, InvResolved, InvLinks, Quiet, Staged, bundle.artwork.present,
         Added \cap TracksOf(opened.store.records) = {}
  PROVE  TracksOf(bundle.artwork.records) \ Added
           = TracksOf(opened.store.records) \ (IF MixedArt THEN {} ELSE request.removals)
<1> DEFINE old == TracksOf(opened.store.records)
<1>1. CASE Supported /\ Linked # <<>>
  <2>1. /\ bundle.artwork.records = WithRecords(opened.store, NewRecords).records
        /\ Range(WithRecords(opened.store, NewRecords).records) = Range(opened.store.records) \cup Range(NewRecords)
    BY <1>1 DEF Staged, ArtworkOf, LongerStore
  <2>2. \A r \in Range(NewRecords) : r.track \in Added
    BY NewRecordsFit
  <2>3. TracksOf(bundle.artwork.records) \ Added = old
    BY <2>1, <2>2 DEF TracksOf
  <2>4. ~MixedArt => request.removals = {}
    BY <1>1 DEF MixedArt, Removing
  <2> QED BY <2>3, <2>4
<1>2. CASE ~(Supported /\ Linked # <<>>)
  <2>1. /\ Repacked /\ bundle.artwork.records = RepackedStore.records
        /\ PackedStore(opened.store, request.removals \cap old, RepackedStore)
    BY <1>2 DEF Staged, ArtworkOf, Unwritten
  <2>2. TracksOf(bundle.artwork.records) = old \ (request.removals \cap old)
    BY <2>1 DEF PackedStore
  <2>3. ~MixedArt
    BY <1>2, <2>1 DEF MixedArt, Repacked
  <2> QED BY <2>2, <2>3
<1> QED BY <1>1, <1>2

LEMMA StagedOfOneGeneration ==
  ASSUME MaxWrites <= 1, StagingInvariant
  PROVE  OneGeneration
<1>1. SUFFICES ASSUME phase = "staged" PROVE OneGeneration
  BY DEF OneGeneration
<1>2. /\ Quiet /\ Staged /\ InvOpened /\ InvResolved /\ InvLinks /\ InvBundle
      /\ original = opened /\ request.removals \subseteq DOMAIN opened.tracks
      /\ bundle.tracks = (DOMAIN opened.tracks \ request.removals) \cup Added
      /\ Added \cap (DOMAIN opened.tracks \cup opened.cdb \cup TracksOf(opened.store.records)) = {}
  BY <1>1, StagedQuiet
<1>3. bundle.tracks \ Added = DOMAIN opened.tracks \ request.removals
  BY <1>2
<1>4. ASSUME ~Binary
      PROVE  bundle.cdb \ Added = opened.cdb \ (IF Mixed THEN {} ELSE request.removals)
  <2>1. bundle.cdb = IF resolved = <<>> THEN opened.cdb \ request.removals ELSE opened.cdb \cup Added
    BY <1>1, <1>2, <1>4 DEF InvBundle, Extended
  <2>2. CASE resolved = <<>>
    BY <1>2, <2>1, <2>2 DEF Mixed
  <2>3. CASE resolved # <<>>
    <3>1. ~Mixed => request.removals = {}
      BY <2>3 DEF Mixed, Removing
    <3> QED BY <1>2, <2>1, <2>3, <3>1
  <2> QED BY <2>2, <2>3
<1>5. bundle.artwork.present =>
        TracksOf(bundle.artwork.records) \ Added
          = TracksOf(opened.store.records) \ (IF MixedArt THEN {} ELSE request.removals)
  BY <1>2, StagedTracks
<1> QED BY <1>2, <1>3, <1>4, <1>5 DEF OneGeneration

LEMMA StagedImageIds ==
  ASSUME MaxWrites <= 1, StagingInvariant
  PROVE  ImageIdsUnique
<1>1. SUFFICES ASSUME phase = "staged", bundle.artwork.present PROVE ImageIdsUnique
  BY DEF ImageIdsUnique
<1>2. Staged
  BY <1>1, StagedQuiet
<1>3. PICK store : /\ bundle.artwork = ArtworkOf(store) /\ Apart(store.records)
                   /\ \A r \in Range(store.records) : r.image < store.next
  BY <1>1, <1>2 DEF Staged, PackedStore, LongerStore, Unwritten
<1>4. bundle.artwork.records = store.records /\ bundle.artwork.next = store.next
  BY <1>3 DEF ArtworkOf
<1> QED BY <1>3, <1>4 DEF ImageIdsUnique, Apart

LEMMA StagedSlots ==
  ASSUME MaxWrites <= 1, StagingInvariant
  PROVE  NoUnreferencedSlots
<1>1. SUFFICES ASSUME phase = "staged", Removing, ~MixedArt, bundle.artwork.present PROVE NoUnreferencedSlots
  BY DEF NoUnreferencedSlots
<1>2. Staged /\ Linked = <<>>
  BY <1>1, StagedQuiet DEF MixedArt
<1>3. /\ bundle.artwork.records = RepackedStore.records
      /\ DOMAIN bundle.files = DOMAIN RepackedStore.files
      /\ \A f \in DOMAIN bundle.files : bundle.files[f] = RepackedStore.files[f]
      /\ PackedStore(opened.store, request.removals \cap TracksOf(opened.store.records), RepackedStore)
  BY <1>1, <1>2 DEF Staged, ArtworkOf, Unwritten
<1>4. \A f \in DOMAIN RepackedStore.files :
        {r.refs[f] : r \in {s \in Range(RepackedStore.records) : f \in DOMAIN s.refs}}
          = 0..(Len(RepackedStore.files[f]) - 1)
  BY <1>3, Zenon DEF PackedStore
<1>5. \A f \in DOMAIN bundle.files :
        {r.refs[f] : r \in {s \in Range(bundle.artwork.records) : f \in DOMAIN s.refs}}
          = 0..(Len(bundle.files[f]) - 1)
  BY <1>3, <1>4
<1> QED BY <1>5, Zenon DEF NoUnreferencedSlots

\* The tracks whose artwork a removal touches are those that say they have some.
LEMMA TouchedArtwork ==
  ASSUME InvOpened, library = opened.tracks
  PROVE  RemovedWithArt = request.removals \cap TracksOf(opened.store.records)
<1>1. /\ request.removals \subseteq DOMAIN library
      /\ \A t \in DOMAIN library : library[t].art <=> t \in TracksOf(opened.store.records)
  BY SoundNow DEF InvOpened, SoundDevice
<1> QED BY <1>1 DEF RemovedWithArt

LEMMA StagedInstallable ==
  ASSUME MaxWrites <= 1, StagingInvariant
  PROVE  Installable
<1>1. SUFFICES ASSUME phase = "staged", library = opened.tracks PROVE ArtworkOutputs = ExpectedArtwork
  BY DEF Installable
<1>2. Staged /\ InvOpened /\ InvResolved /\ InvBundle /\ Quiet
  BY <1>1, StagedQuiet
<1>3. RemovedWithArt = request.removals \cap TracksOf(opened.store.records)
  BY <1>1, <1>2, TouchedArtwork
<1>4. DOMAIN bundle.files = DOMAIN BaseFiles \cup Framed
  BY <1>1, <1>2 DEF InvBundle, Closed
<1>5. DOMAIN BaseFiles = IF Repacked THEN Referenced(opened.store.records) ELSE {}
  <2>1. CASE Repacked
    <3>1. PackedStore(opened.store, request.removals \cap TracksOf(opened.store.records), RepackedStore)
      BY <1>2, SoundNow, ReindexedStore DEF RepackedStore
    <3> QED BY <2>1, <3>1 DEF BaseFiles, PackedStore
  <2>2. CASE ~Repacked
    BY <2>2, EmptyIsWhole DEF BaseFiles
  <2> QED BY <2>1, <2>2
<1>6. CASE ~Supported
  <2>1. Framed = {} /\ ~Repacked
    BY <1>2, <1>6, FramedFormats DEF InvResolved, Supported, Repacked
  <2>2. DOMAIN bundle.files = {} /\ bundle.artwork = Unwritten
    BY <1>2, <1>4, <1>5, <1>6, <2>1 DEF Staged
  <2>3. Cardinality(DOMAIN bundle.files) = 0
    BY <2>2, FS_EmptySet
  <2> QED BY <1>6, <2>2, <2>3 DEF ArtworkOutputs, ExpectedArtwork, Unwritten
<1>7. CASE Supported
  <2>1. Repacked <=> RemovedWithArt # {}
    BY <1>3, <1>7 DEF Repacked
  <2>2. bundle.artwork.present <=> RemovedWithArt # {} \/ Linked # <<>>
    BY <1>2, <1>7, <2>1 DEF Staged, ArtworkOf, Unwritten
  <2>3. DOMAIN bundle.files = (IF RemovedWithArt = {} THEN {} ELSE Referenced(opened.store.records)) \cup Framed
    BY <1>4, <1>5, <2>1
  <2> QED BY <1>7, <2>2, <2>3 DEF ArtworkOutputs, ExpectedArtwork
<1> QED BY <1>6, <1>7

\* The frames of an active format are images, each at a place of its own.
LEMMA FramesDrawn ==
  ASSUME InvOpened, InvResolved, InvLinks, Quiet, NEW f \in active
  PROVE  /\ Whole(FramesOf(f)) /\ \A n \in DOMAIN FramesOf(f) : FramesOf(f)[n].image \in Nat
         /\ \A i \in Drawing(f) :
              LET file == WithFrames(FileOf(opened.store.files, f), FramesOf(f))
                  slot == resolved[i].link.refs[f]
              IN  slot \in Nat /\ slot < Len(file) /\ file[slot + 1] = NewImage(i, f) /\ Len(file) \in Nat
<1> DEFINE old == FileOf(opened.store.files, f)
           frames == FramesOf(f)
           file == WithFrames(old, frames)
<1>1. Whole(frames) /\ FramesFit(old, frames)
  BY FramesInOrder
<1>2. ASSUME NEW n \in DOMAIN frames PROVE frames[n].image \in Nat
  <2>1. PICK i \in Drawing(f) : frames[n] = [slot |-> resolved[i].link.refs[f], image |-> NewImage(i, f)]
    BY FramesInOrder
  <2>2. frames[n].image = NewImage(i, f)
    BY <2>1
  <2>3. i \in Nat
    BY WholeFacts DEF InvResolved, Drawing
  <2>4. f \in Nat
    BY SoundNow DEF InvResolved, SoundProfile
  <2>5. NewImage(i, f) \in Nat
    BY <2>3, <2>4 DEF NewImage
  <2> QED BY <2>2, <2>5
<1>3. old \in Seq(Nat) /\ Len(old) \in Nat
  BY SoundNow, FilesAreSequences
<1>4. /\ Len(file) = Len(old) + Len(frames) /\ Len(frames) \in Nat /\ DOMAIN frames = 1..Len(frames)
      /\ \A n \in DOMAIN frames : file[Len(old) + n] = frames[n].image
  BY <1>1, <1>2, <1>3, FramesFollow, WholeFacts
<1>5. ASSUME NEW i \in Drawing(f)
      PROVE  /\ resolved[i].link.refs[f] \in Nat /\ resolved[i].link.refs[f] < Len(file)
             /\ file[resolved[i].link.refs[f] + 1] = NewImage(i, f) /\ Len(file) \in Nat
  <2> DEFINE slot == resolved[i].link.refs[f]
  <2>1. PICK n \in DOMAIN frames : frames[n].slot = slot /\ frames[n].image = NewImage(i, f)
    BY FramesInOrder
  <2> HIDE DEF slot, old, frames, file
  <2>2. slot = Len(old) + n - 1
    BY <1>1, <2>1 DEF FramesFit
  <2>3. n \in 1..Len(frames) /\ n \in Nat
    BY <1>4
  <2>4. slot \in Nat /\ slot < Len(file) /\ slot + 1 = Len(old) + n /\ Len(file) \in Nat
    BY <1>3, <1>4, <2>2, <2>3
  <2>5. file[slot + 1] = NewImage(i, f)
    BY <1>4, <2>1, <2>4
  <2> QED BY <2>4, <2>5 DEF slot
<1> HIDE DEF file, old, frames
<1> QED BY <1>1, <1>2, <1>5 DEF file, old, frames

\* What a record shows over the files it was read with, it shows over files that
\* continue them.
Continues(files, longer) ==
  \A f \in DOMAIN files :
    /\ f \in DOMAIN longer /\ Len(files[f]) \in Nat /\ Len(longer[f]) \in Nat
    /\ Len(files[f]) <= Len(longer[f])
    /\ \A n \in 1..Len(files[f]) : longer[f][n] = files[f][n]

LEMMA ContinuedImages ==
  ASSUME NEW store, NEW r, SoundRecord(store, r), NEW longer, Continues(store.files, longer),
         NEW q, q.refs = r.refs
  PROVE  SameImages(r, store.files, q, longer)
<1>1. ASSUME NEW f \in DOMAIN r.refs
      PROVE  /\ f \in DOMAIN store.files /\ r.refs[f] < Len(store.files[f])
             /\ f \in DOMAIN longer /\ q.refs[f] < Len(longer[f])
             /\ longer[f][q.refs[f] + 1] = store.files[f][r.refs[f] + 1]
  <2>1. f \in DOMAIN store.files /\ r.refs[f] \in Nat /\ r.refs[f] < Len(store.files[f])
    BY DEF SoundRecord, Readable
  <2>2. /\ f \in DOMAIN longer /\ Len(store.files[f]) \in Nat /\ Len(longer[f]) \in Nat
        /\ Len(store.files[f]) <= Len(longer[f])
        /\ \A n \in 1..Len(store.files[f]) : longer[f][n] = store.files[f][n]
    BY <2>1 DEF Continues
  <2>3. r.refs[f] + 1 \in 1..Len(store.files[f])
    BY <2>1, <2>2
  <2>4. q.refs[f] < Len(longer[f])
    BY <2>1, <2>2
  <2> QED BY <2>1, <2>2, <2>3, <2>4
<1>2. DOMAIN q.refs = DOMAIN r.refs
  OBVIOUS
<1> QED BY <1>1, <1>2 DEF SameImages

\* The files of an edit that removes nothing continue those that were opened.
LEMMA InstalledContinues ==
  ASSUME InvOpened, InvResolved, InvLinks, InvBundle, Quiet, phase = "staged", ~Removing
  PROVE  /\ Continues(opened.store.files, Installed.files)
         /\ \A f \in Framed : f \in DOMAIN Installed.files
                              /\ Installed.files[f] = WithFrames(FileOf(opened.store.files, f), FramesOf(f))
<1> DEFINE old == opened.store.files
           new == Installed.files
<1>1. /\ BaseFiles = <<>> /\ DOMAIN BaseFiles = {}
      /\ DOMAIN bundle.files = Framed
      /\ \A f \in Framed : bundle.files[f] = WithFrames(FileOf(old, f), FramesOf(f))
  <2>1. BaseFiles = <<>> /\ DOMAIN BaseFiles = {}
    BY NothingRepacked, EmptyIsWhole
  <2> QED BY <2>1 DEF InvBundle, Closed, BaseOf
<1>2. /\ DOMAIN new = Framed \cup DOMAIN old
      /\ \A f \in Framed : new[f] = WithFrames(FileOf(old, f), FramesOf(f))
      /\ \A f \in DOMAIN old : f \notin Framed => new[f] = old[f]
  BY <1>1 DEF Installed
<1> HIDE DEF new
<1>3. ASSUME NEW f \in DOMAIN old
      PROVE  /\ f \in DOMAIN new /\ Len(old[f]) \in Nat /\ Len(new[f]) \in Nat
             /\ Len(old[f]) <= Len(new[f])
             /\ \A n \in 1..Len(old[f]) : new[f][n] = old[f][n]
  <2>1. old[f] \in Seq(Nat) /\ FileOf(old, f) = old[f] /\ Len(old[f]) \in Nat
    BY SoundNow, SoundRecords, LenProperties DEF FileOf
  <2>2. CASE f \notin Framed
    BY <1>2, <2>1, <2>2
  <2>3. CASE f \in Framed
    <3>1. f \in active
      BY <2>3, FramedFormats
    <3>2. Whole(FramesOf(f)) /\ \A n \in DOMAIN FramesOf(f) : FramesOf(f)[n].image \in Nat
      BY <3>1, FramesDrawn
    <3>3. /\ Len(new[f]) = Len(old[f]) + Len(FramesOf(f)) /\ Len(FramesOf(f)) \in Nat
          /\ \A n \in 1..Len(old[f]) : new[f][n] = old[f][n]
      <4>1. new[f] = WithFrames(old[f], FramesOf(f))
        BY <1>2, <2>1, <2>3
      <4>2. Len(FramesOf(f)) \in Nat
        BY <3>2, WholeFacts
      <4>3. /\ Len(WithFrames(old[f], FramesOf(f))) = Len(old[f]) + Len(FramesOf(f))
            /\ \A n \in 1..Len(old[f]) : WithFrames(old[f], FramesOf(f))[n] = old[f][n]
        BY <2>1, <3>2, FramesFollow
      <4> QED BY <4>1, <4>2, <4>3
    <3>4. Len(new[f]) \in Nat /\ Len(old[f]) <= Len(new[f])
      BY <2>1, <3>3
    <3> QED BY <1>2, <2>1, <3>3, <3>4
  <2> QED BY <2>2, <2>3
<1>4. Continues(old, new)
  BY <1>3 DEF Continues
<1> QED BY <1>2, <1>4 DEF new

\* The image of a track whose record moved with its slots.
LEMMA RepackedImages ==
  ASSUME InvOpened, NEW new, NEW removed, PackedStore(opened.store, removed, new),
         NEW files, \A f \in DOMAIN new.files : f \in DOMAIN files /\ files[f] = new.files[f],
         NEW installed, installed.records = new.records, installed.files = files,
         NEW t \in TracksOf(new.records)
  PROVE  t \in TracksOf(opened.store.records) /\ Shown(installed, t) = Shown(opened.store, t)
<1> DEFINE q == RecordOf(new.records, t)
<1>1. Whole(opened.store.records) /\ Apart(opened.store.records)
  BY SoundNow, SoundRecords
<1>2. Whole(new.records) /\ Apart(new.records)
  BY DEF PackedStore
<1>3. q \in Range(new.records) /\ q.track = t
  BY <1>2, TrackFound
<1>4. PICK r \in Range(opened.store.records) : q.track = r.track /\ SameImages(r, opened.store.files, q, new.files)
  BY <1>3 DEF PackedStore
<1>5. t \in TracksOf(opened.store.records) /\ RecordOf(opened.store.records, t) = r
  BY <1>1, <1>3, <1>4, RecordFound
<1>6. SameImages(r, opened.store.files, q, files)
  BY <1>4 DEF SameImages
<1> QED BY <1>5, <1>6, SameShown

\* An addition shows the frames that were drawn for it.
LEMMA NewImages ==
  ASSUME InvOpened, InvResolved, InvLinks, Quiet, NEW i \in DOMAIN resolved, resolved[i].link.kind = "new",
         NEW installed,
         \A f \in Framed : f \in DOMAIN installed.files
                           /\ installed.files[f] = WithFrames(FileOf(opened.store.files, f), FramesOf(f)),
         NEW t \in TracksOf(installed.records), RecordOf(installed.records, t) = NewRecordOf(i)
  PROVE  Shown(installed, t) = resolved[i].link.frames
<1> DEFINE q == RecordOf(installed.records, t)
           link == resolved[i].link
<1>1. /\ link.frames = [f \in active |-> NewImage(i, f)] /\ DOMAIN link.refs = active
      /\ DOMAIN link.frames = active
  BY NewShape
<1>2. q.refs = link.refs
  BY DEF NewRecordOf
<1>3. ASSUME NEW f \in active
      PROVE  /\ f \in DOMAIN installed.files /\ link.refs[f] < Len(installed.files[f])
             /\ installed.files[f][link.refs[f] + 1] = NewImage(i, f)
  <2>1. i \in Drawing(f) /\ f \in Framed
    BY <1>1 DEF Drawing, Framed
  <2> QED BY <2>1, FramesDrawn
<1> HIDE DEF q, link
<1>4. Readable(installed, q)
  BY <1>1, <1>2, <1>3 DEF Readable
<1>5. Shown(installed, t) = [f \in DOMAIN q.refs |-> IF Readable(installed, q) THEN installed.files[f][q.refs[f] + 1] ELSE 0]
  BY DEF Shown, q
<1>6. Shown(installed, t) = [f \in active |-> NewImage(i, f)]
  BY <1>1, <1>2, <1>3, <1>4, <1>5
<1> QED BY <1>1, <1>6 DEF link

\* What is meant to be shown by an added track.
LEMMA AddedMeaning ==
  ASSUME InvOpened, InvResolved, NEW i \in DOMAIN resolved
  PROVE  Meaning(resolved[i].pid) = IF resolved[i].link.kind = "new" THEN resolved[i].link.frames
                                    ELSE Shown(opened.store, resolved[i].link.mate)
<1> DEFINE t == resolved[i].pid
           a == CHOOSE x \in Range(resolved) : x.pid = t
<1>1. t \in Added
  BY DEF Added
<1>2. Whole(resolved)
  BY DEF InvResolved
<1>3. resolved[i] \in Range(resolved)
  BY <1>2, WholeFacts
<1>4. a \in Range(resolved) /\ a.pid = t
  BY <1>3
<1>5. PICK j \in DOMAIN resolved : a = resolved[j]
  BY <1>2, <1>4, WholeFacts
<1>6. j = i
  BY <1>4, <1>5, AddedFresh
<1>7. Meaning(t) = IF a.link.kind = "new" THEN a.link.frames ELSE Shown(opened.store, a.link.mate)
  BY <1>1, Zenon DEF Meaning
<1> HIDE DEF a
<1> QED BY <1>5, <1>6, <1>7

\* An addition whose artwork is an album's shows what the album shows, and what
\* was there before shows what it did.
LEMMA ExtendedImages ==
  ASSUME InvOpened, InvResolved, InvLinks, InvBundle, Quiet, phase = "staged", ~Removing,
         Supported, Linked # <<>>, Staged,
         Added \cap (DOMAIN opened.tracks \cup opened.cdb \cup TracksOf(opened.store.records)) = {},
         NEW t \in TracksOf(Installed.records)
  PROVE  Shown(Installed, t) = Meaning(t)
<1> DEFINE old == opened.store
           all == Installed.records
<1>1. /\ Whole(all) /\ Apart(all) /\ Range(all) = Range(old.records) \cup Range(NewRecords)
  <2>1. /\ bundle.artwork = ArtworkOf(WithRecords(old, NewRecords))
        /\ LongerStore(old, NewRecords, WithRecords(old, NewRecords))
    BY DEF Staged
  <2>2. all = WithRecords(old, NewRecords).records
    BY <2>1 DEF Installed, ArtworkOf
  <2> QED BY <2>1, <2>2 DEF LongerStore
<1>2. /\ Whole(old.records) /\ Apart(old.records)
      /\ \A r \in Range(old.records) : SoundRecord(old, r)
  BY SoundNow, SoundRecords
<1>3. /\ Continues(old.files, Installed.files)
      /\ \A f \in Framed : f \in DOMAIN Installed.files
                           /\ Installed.files[f] = WithFrames(FileOf(old.files, f), FramesOf(f))
  BY InstalledContinues
<1>4. PICK r \in Range(all) : r.track = t
  BY DEF TracksOf
<1>5. RecordOf(all, t) = r
  BY <1>1, <1>4, RecordFound
<1> DEFINE new == Installed
<1>6. /\ Continues(old.files, new.files) /\ t \in TracksOf(new.records) /\ RecordOf(new.records, t) = r
      /\ \A f \in Framed : f \in DOMAIN new.files
                           /\ new.files[f] = WithFrames(FileOf(old.files, f), FramesOf(f))
  BY <1>3, <1>5
<1> HIDE DEF new, all
<1>7. CASE r \in Range(old.records)
  <2>1. t \in TracksOf(old.records) /\ RecordOf(old.records, t) = r
    BY <1>2, <1>4, <1>7, RecordFound
  <2>2. SameImages(r, old.files, r, new.files)
    BY <1>2, <1>6, <1>7, ContinuedImages
  <2>3. Shown(new, t) = Shown(old, t)
    BY <1>6, <2>1, <2>2, SameShown
  <2>4. Meaning(t) = Shown(old, t)
    BY <2>1 DEF Meaning
  <2> QED BY <2>3, <2>4 DEF new
<1>8. CASE r \in Range(NewRecords)
  <2>1. PICK i \in Linking : r = NewRecordOf(i)
    BY <1>8, NewRecordsFit
  <2>2. i \in DOMAIN resolved /\ resolved[i].link.kind # "none" /\ resolved[i].pid = t
    BY <1>4, <2>1 DEF Linking, NewRecordOf
  <2>3. Meaning(t) = IF resolved[i].link.kind = "new" THEN resolved[i].link.frames
                     ELSE Shown(old, resolved[i].link.mate)
    BY <2>2, AddedMeaning
  <2>4. CASE resolved[i].link.kind = "new"
    <3>1. Shown(new, t) = resolved[i].link.frames
      BY <1>6, <2>1, <2>2, <2>4, NewImages
    <3> QED BY <2>3, <2>4, <3>1 DEF new
  <2>5. CASE resolved[i].link.kind # "new"
    <3> DEFINE mate == resolved[i].link.mate
               source == RecordOf(old.records, mate)
    <3>1. resolved[i].link.kind = "reused"
      <4> DEFINE link == resolved[i].link
      <4>1. LinkShape(i, link) /\ link.kind # "none" /\ link.kind # "new"
        BY <2>2, <2>5 DEF InvResolved
      <4>2. link # None
        BY <4>1 DEF None
      <4> HIDE DEF link
      <4>3. link.kind = "reused"
        BY <4>1, <4>2 DEF LinkShape
      <4> QED BY <4>3 DEF link
    <3>2. mate \in TracksOf(old.records) /\ r.refs = source.refs
      <4>1. LinkFits(i, resolved[i].link)
        BY <2>2 DEF InvLinks
      <4>2. r.refs = resolved[i].link.refs
        BY <2>1 DEF NewRecordOf
      <4> QED BY <3>1, <4>1, <4>2 DEF LinkFits
    <3>3. source \in Range(old.records)
      BY <1>2, <3>2, TrackFound
    <3>4. SameImages(source, old.files, r, new.files)
      BY <1>2, <1>6, <3>2, <3>3, ContinuedImages
    <3>5. Shown(new, t) = Shown(old, mate)
      BY <1>6, <3>2, <3>4, SameShown
    <3> QED BY <2>3, <2>5, <3>5 DEF new
  <2> QED BY <2>4, <2>5
<1> QED BY <1>1, <1>4, <1>7, <1>8

LEMMA StagedImages ==
  ASSUME MaxWrites <= 1, StagingInvariant
  PROVE  OwnImages
<1>1. SUFFICES ASSUME ~MixedArt, phase = "staged", NEW t \in TracksOf(Installed.records)
               PROVE  Shown(Installed, t) = Meaning(t)
  BY DEF OwnImages, EveryTrackShowsItsImage
<1>2. /\ Quiet /\ Staged /\ InvOpened /\ InvResolved /\ InvLinks /\ InvBundle
      /\ Added \cap (DOMAIN opened.tracks \cup opened.cdb \cup TracksOf(opened.store.records)) = {}
  BY <1>1, StagedQuiet
<1>3. CASE Supported /\ Linked # <<>>
  BY <1>1, <1>2, <1>3, ExtendedImages DEF MixedArt
<1> DEFINE new == Installed
<1>4. CASE ~(Supported /\ Linked # <<>>) /\ Repacked
  <2> DEFINE removed == request.removals \cap TracksOf(opened.store.records)
  <2>1. /\ bundle.artwork = ArtworkOf(RepackedStore)
        /\ DOMAIN bundle.files = DOMAIN RepackedStore.files
        /\ \A f \in DOMAIN bundle.files : bundle.files[f] = RepackedStore.files[f]
        /\ PackedStore(opened.store, removed, RepackedStore)
    BY <1>2, <1>4 DEF Staged
  <2>2. new.records = RepackedStore.records
    BY <2>1 DEF Installed, ArtworkOf
  <2>3. \A f \in DOMAIN RepackedStore.files : f \in DOMAIN new.files /\ new.files[f] = RepackedStore.files[f]
    BY <2>1 DEF Installed
  <2>4. t \in TracksOf(RepackedStore.records)
    BY <1>1, <2>2
  <2> HIDE DEF new
  <2>5. t \in TracksOf(opened.store.records) /\ Shown(new, t) = Shown(opened.store, t)
    BY <1>2, <2>1, <2>2, <2>3, <2>4, RepackedImages
  <2>6. Meaning(t) = Shown(opened.store, t)
    BY <1>2, <2>5 DEF Meaning
  <2> QED BY <2>5, <2>6 DEF new
<1>5. CASE ~(Supported /\ Linked # <<>>) /\ ~Repacked
  <2>1. bundle.artwork = Unwritten /\ DOMAIN bundle.files = {}
    BY <1>2, <1>5 DEF Staged
  <2>2. /\ new.records = opened.store.records /\ DOMAIN new.files = DOMAIN opened.store.files
        /\ \A f \in DOMAIN opened.store.files : new.files[f] = opened.store.files[f]
    BY <2>1 DEF Installed, Unwritten
  <2>3. t \in TracksOf(new.records)
    BY <1>1
  <2> HIDE DEF new
  <2>4. t \in TracksOf(opened.store.records)
    BY <2>2, <2>3
  <2> DEFINE r == RecordOf(opened.store.records, t)
  <2>5. SoundRecord(opened.store, r)
    <3>1. /\ Whole(opened.store.records) /\ Apart(opened.store.records)
          /\ \A q \in Range(opened.store.records) : SoundRecord(opened.store, q)
      BY <1>2, SoundNow, SoundRecords
    <3> QED BY <2>4, <3>1, TrackFound
  <2>6. Continues(opened.store.files, new.files)
    <3>1. \A f \in DOMAIN opened.store.files : Len(opened.store.files[f]) \in Nat
      BY <1>2, SoundNow, SoundRecords, LenProperties
    <3> QED BY <2>2, <3>1 DEF Continues
  <2> HIDE DEF r
  <2>7. SameImages(r, opened.store.files, r, new.files)
    BY <2>5, <2>6, ContinuedImages
  <2>8. RecordOf(new.records, t) = r
    BY <2>2 DEF r
  <2>9. Shown(new, t) = Shown(opened.store, t)
    BY <2>3, <2>4, <2>7, <2>8, SameShown DEF r
  <2>10. Meaning(t) = Shown(opened.store, t)
    BY <1>2, <2>4 DEF Meaning
  <2> QED BY <2>9, <2>10 DEF new
<1> QED BY <1>3, <1>4, <1>5

\* Every staged record shows the image of its own track, on a device that changes
\* at most once: no interleaving of that change with the passes mixes slots.
THEOREM ImagesStayOwn == ASSUME MaxWrites <= 1 PROVE Spec => []OwnImages
<1>1. StagingInvariant => OwnImages
  BY StagedImages
<1> QED BY <1>1, StagingInvariance, PTL

\* The tables, the companion and the artwork are staged from one generation.
THEOREM GenerationsNeverMix == ASSUME MaxWrites <= 1 PROVE Spec => []OneGeneration
<1>1. StagingInvariant => OneGeneration
  BY StagedOfOneGeneration
<1> QED BY <1>1, StagingInvariance, PTL

\* A repacked store holds the slots in use and no others.
THEOREM SlotsAreReferenced == ASSUME MaxWrites <= 1 PROVE Spec => []NoUnreferencedSlots
<1>1. StagingInvariant => NoUnreferencedSlots
  BY StagedSlots
<1> QED BY <1>1, StagingInvariance, PTL

\* Image ids stay unique and below the header's next id.
THEOREM ImageIdsStayUnique == ASSUME MaxWrites <= 1 PROVE Spec => []ImageIdsUnique
<1>1. StagingInvariant => ImageIdsUnique
  BY StagedImageIds
<1> QED BY <1>1, StagingInvariance, PTL

\* What is staged has the artwork outputs that the installer counts.
THEOREM StagedCanBeInstalled == ASSUME MaxWrites <= 1 PROVE Spec => []Installable
<1>1. StagingInvariant => Installable
  BY StagedInstallable
<1> QED BY <1>1, StagingInvariance, PTL
=============================================================================
