----------------------------- MODULE BinaryProofs -----------------------------
(* The invariants of the edits of a binary database, for every sound database   *)
(* that can be opened: each rewrite takes a sound database to a sound one.      *)
EXTENDS BinaryEdit, Facts

------------------------------------------------------------------------------
(* Sequences. *)

\* A sequence and the elements it has.
LEMMA SeqFacts ==
  ASSUME NEW S, NEW s \in Seq(S)
  PROVE  /\ IsSeq(s) /\ Len(s) \in Nat /\ DOMAIN s = 1..Len(s) /\ Range(s) \subseteq S
         /\ \A n \in DOMAIN s : s[n] \in S /\ s[n] \in Range(s)
<1>1. Len(s) \in Nat /\ DOMAIN s = 1..Len(s) /\ s \in [1..Len(s) -> S]
  BY LenProperties
<1>2. s \in Seq(Range(s)) /\ Range(s) \in SUBSET S
  BY SeqOfRange, RangeOfSeq
<1>3. \A n \in DOMAIN s : s[n] \in S /\ s[n] \in Range(s)
  BY <1>1 DEF Range
<1> QED BY <1>1, <1>2, <1>3 DEF IsSeq

\* A function on 1..n is a sequence.
LEMMA FunctionIsSeq ==
  ASSUME NEW S, NEW n \in Nat, NEW f \in [1..n -> S]
  PROVE  /\ f \in Seq(S) /\ Len(f) = n /\ DOMAIN f = 1..n /\ IsSeq(f)
<1>1. f \in Seq(S) /\ DOMAIN f = 1..n
  BY SeqDef
<1>2. Len(f) = n
  <2>1. Len(f) \in Nat /\ 1..Len(f) = 1..n
    BY <1>1, LenProperties
  <2> QED BY <2>1
<1> QED BY <1>1, <1>2, SeqFacts

\* What a sequence has, by place.
LEMMA ItsRange ==
  ASSUME NEW s, IsSeq(s)
  PROVE  /\ Len(s) \in Nat /\ DOMAIN s = 1..Len(s)
         /\ s \in [1..Len(s) -> Range(s)]
         /\ \A x : x \in Range(s) <=> \E n \in DOMAIN s : x = s[n]
<1>1. s \in Seq(Range(s))
  BY DEF IsSeq
<1> QED BY <1>1, LenProperties DEF Range

------------------------------------------------------------------------------
(* Databases. *)

\* The lists of some kinds, by place.
LEMMA UniverseIs ==
  ASSUME NEW db, WellFormed(db), NEW kinds
  PROVE  \A l : l \in Universe(db, kinds) <=>
           \E n \in DOMAIN db.datasets : /\ db.datasets[n].kind \in kinds
                                         /\ \E k \in DOMAIN db.datasets[n].lists : l = db.datasets[n].lists[k]
<1> DEFINE D == {x \in Range(db.datasets) : x.kind \in kinds}
           Sets == {Range(d.lists) : d \in D}
<1>0. IsSeq(db.datasets) /\ \A d \in Range(db.datasets) : IsSeq(d.lists)
  BY DEF WellFormed, WellFormedDataset
<1>1. \A d : d \in D <=> \E n \in DOMAIN db.datasets : d = db.datasets[n] /\ d.kind \in kinds
  BY <1>0, ItsRange
<1>2. \A l : l \in UNION Sets <=> \E d \in D : l \in Range(d.lists)
  OBVIOUS
<1>3. \A d \in D : \A l : l \in Range(d.lists) <=> \E k \in DOMAIN d.lists : l = d.lists[k]
  BY <1>0, ItsRange
<1>4. Universe(db, kinds) = UNION Sets
  BY DEF Universe
<1> HIDE DEF D, Sets
<1>5. ASSUME NEW l \in Universe(db, kinds)
      PROVE  \E n \in DOMAIN db.datasets : /\ db.datasets[n].kind \in kinds
                                           /\ \E k \in DOMAIN db.datasets[n].lists : l = db.datasets[n].lists[k]
  <2>1. PICK d \in D : l \in Range(d.lists)
    BY <1>2, <1>4
  <2>2. PICK k \in DOMAIN d.lists : l = d.lists[k]
    BY <1>3, <2>1
  <2> QED BY <1>1, <2>2
<1>6. ASSUME NEW n \in DOMAIN db.datasets, db.datasets[n].kind \in kinds, NEW k \in DOMAIN db.datasets[n].lists
      PROVE  db.datasets[n].lists[k] \in Universe(db, kinds)
  <2>1. db.datasets[n] \in D
    BY <1>1, <1>6
  <2> QED BY <1>2, <1>3, <1>4, <2>1
<1> QED BY <1>5, <1>6

\* What is known of a dataset of a sound database, and of a list in it.
LEMMA DatasetFacts ==
  ASSUME NEW db, WellFormed(db), NEW n \in DOMAIN db.datasets
  PROVE  /\ WellFormedDataset(db.datasets[n]) /\ db.datasets[n] \in Range(db.datasets)
         /\ \A k \in DOMAIN db.datasets[n].lists : WellFormedList(db.datasets[n].lists[k])
<1>1. IsSeq(db.datasets)
  BY DEF WellFormed
<1>2. db.datasets[n] \in Range(db.datasets)
  BY <1>1, ItsRange
<1>3. WellFormedDataset(db.datasets[n])
  BY <1>2 DEF WellFormed
<1>4. IsSeq(db.datasets[n].lists) /\ \A l \in Range(db.datasets[n].lists) : WellFormedList(l)
  BY <1>3 DEF WellFormedDataset
<1>5. \A k \in DOMAIN db.datasets[n].lists : db.datasets[n].lists[k] \in Range(db.datasets[n].lists)
  BY <1>4, ItsRange
<1> QED BY <1>2, <1>3, <1>4, <1>5

\* The items of a list of a sound database.
LEMMA ListFacts ==
  ASSUME NEW db, WellFormed(db), MembersKnown(db), NEW n \in DOMAIN db.datasets,
         NEW k \in DOMAIN db.datasets[n].lists
  PROVE  ItemsKnown(db.datasets[n].lists[k], TrackIds(db.tracks))
<1>1. db.datasets[n].kind \in {2, 3, 5}
  BY DatasetFacts DEF WellFormedDataset
<1>2. db.datasets[n].lists[k] \in Universe(db, {2, 3, 5})
  BY <1>1, UniverseIs
<1> QED BY <1>2 DEF MembersKnown

\* A database that may be opened, and that every edit has to leave.
Openable(db, file) == SoundDatabase(db, file) /\ Drawn(Universe(db, {2, 3}), PodcastId)

\* The lists of d are those of db in their places, with other items.
Rewritten(db, d) ==
  /\ DOMAIN d.datasets = DOMAIN db.datasets /\ IsSeq(d.datasets)
  /\ \A n \in DOMAIN db.datasets :
       /\ DOMAIN d.datasets[n] = {"kind", "lists"} /\ d.datasets[n].kind = db.datasets[n].kind
       /\ IsSeq(d.datasets[n].lists) /\ DOMAIN d.datasets[n].lists = DOMAIN db.datasets[n].lists
       /\ \A k \in DOMAIN db.datasets[n].lists :
            /\ d.datasets[n].lists[k].id = db.datasets[n].lists[k].id
            /\ d.datasets[n].lists[k].role = db.datasets[n].lists[k].role

\* Its lists are well formed and have known tracks.
ListsKnown(d) ==
  \A n \in DOMAIN d.datasets : \A k \in DOMAIN d.datasets[n].lists :
    WellFormedList(d.datasets[n].lists[k]) /\ ItemsKnown(d.datasets[n].lists[k], TrackIds(d.tracks))

\* The same list is rewritten the same way wherever it is.
SameRewrites(db, d) ==
  \A n, i \in DOMAIN db.datasets :
    \A k \in DOMAIN db.datasets[n].lists, j \in DOMAIN db.datasets[i].lists :
      db.datasets[n].lists[k] = db.datasets[i].lists[j] /\ db.datasets[n].lists[k].role = "list"
        => d.datasets[n].lists[k] = d.datasets[i].lists[j]

\* The datasets whose master is written do not depend on the lists.
LEMMA SameMasters ==
  ASSUME NEW db, NEW d, Rewritten(db, d), NEW file
  PROVE  MasterDatasets(d, file) = MasterDatasets(db, file) /\ MasterDatasets(db, file) \subseteq DOMAIN db.datasets
<1> DEFINE of(k) == {n \in DOMAIN db.datasets : db.datasets[n].kind = k}
           oft(k) == {n \in DOMAIN d.datasets : d.datasets[n].kind = k}
<1>1. of(2) = oft(2) /\ of(3) = oft(3)
  BY DEF Rewritten
<1>2. MasterDatasets(d, file) = MasterDatasets(db, file)
  BY <1>1 DEF MasterDatasets
<1>3. of(2) \in SUBSET Nat /\ of(3) \in SUBSET Nat
  BY ItsRange DEF Rewritten
<1>4. (of(2) # {} => Min(of(2)) \in of(2)) /\ (of(3) # {} => Min(of(3)) \in of(3))
  <2> HIDE DEF of
  <2> QED BY <1>3, MinOfNats
<1>5. MasterDatasets(db, file) \subseteq DOMAIN db.datasets
  BY <1>4 DEF MasterDatasets
<1> QED BY <1>2, <1>5

\* A rewrite of the lists in their places keeps the roles and the universes.
LEMMA PointwiseSound ==
  ASSUME NEW db, NEW file, Openable(db, file), NEW d, DOMAIN d = {"tracks", "albums", "datasets", "count", "version"},
         d.version \in Nat, d.tracks \in Seq(TrackRows), d.albums \in Seq(AlbumRows), TracksApart(d.tracks),
         Rewritten(db, d), ListsKnown(d), SameRewrites(db, d), MastersWhole(d, file)
  PROVE  Openable(d, file)
<1>1. /\ WellFormed(db) /\ UniversesEqual(db) /\ RolesClear(db, file) /\ Drawn(Universe(db, {2, 3}), PodcastId)
  BY DEF Openable, SoundDatabase
<1>2. WellFormed(d)
  <2>1. IsSeq(d.datasets)
    BY DEF Rewritten
  <2>2. ASSUME NEW n \in DOMAIN d.datasets PROVE WellFormedDataset(d.datasets[n])
    <3>1. db.datasets[n].kind \in {2, 3, 5} /\ n \in DOMAIN db.datasets
      BY <1>1, DatasetFacts DEF Rewritten, WellFormedDataset
    <3>2. DOMAIN d.datasets[n] = {"kind", "lists"} /\ d.datasets[n].kind \in {2, 3, 5} /\ IsSeq(d.datasets[n].lists)
      BY <3>1 DEF Rewritten
    <3>3. ASSUME NEW l \in Range(d.datasets[n].lists) PROVE WellFormedList(l)
      <4>1. PICK k \in DOMAIN d.datasets[n].lists : l = d.datasets[n].lists[k]
        BY <3>2, ItsRange
      <4> QED BY <4>1 DEF ListsKnown
    <3> QED BY <3>2, <3>3 DEF WellFormedDataset
  <2>3. \A x \in Range(d.datasets) : WellFormedDataset(x)
    BY <2>1, <2>2, ItsRange
  <2> QED BY <2>1, <2>3 DEF WellFormed
<1>3. MembersKnown(d)
  <2>1. ASSUME NEW l \in Universe(d, {2, 3, 5}) PROVE ItemsKnown(l, TrackIds(d.tracks))
    <3>1. PICK n \in DOMAIN d.datasets : \E k \in DOMAIN d.datasets[n].lists : l = d.datasets[n].lists[k]
      BY <1>2, UniverseIs
    <3> QED BY <3>1 DEF ListsKnown
  <2> QED BY <2>1 DEF MembersKnown
<1>4. ASSUME NEW kinds
      PROVE  /\ \A l \in Universe(d, kinds) : \E n \in DOMAIN db.datasets : \E k \in DOMAIN db.datasets[n].lists :
                  /\ db.datasets[n].kind \in kinds /\ l = d.datasets[n].lists[k]
                  /\ db.datasets[n].lists[k] \in Universe(db, kinds)
                  /\ l.id = db.datasets[n].lists[k].id /\ l.role = db.datasets[n].lists[k].role
             /\ \A m \in Universe(db, kinds) : \E l \in Universe(d, kinds) : l.id = m.id
  <2>1. ASSUME NEW l \in Universe(d, kinds)
        PROVE  \E n \in DOMAIN db.datasets : \E k \in DOMAIN db.datasets[n].lists :
                  /\ db.datasets[n].kind \in kinds /\ l = d.datasets[n].lists[k]
                  /\ db.datasets[n].lists[k] \in Universe(db, kinds)
                  /\ l.id = db.datasets[n].lists[k].id /\ l.role = db.datasets[n].lists[k].role
    <3>1. PICK n \in DOMAIN d.datasets : d.datasets[n].kind \in kinds /\ \E k \in DOMAIN d.datasets[n].lists : l = d.datasets[n].lists[k]
      BY <1>2, UniverseIs
    <3>2. PICK k \in DOMAIN d.datasets[n].lists : l = d.datasets[n].lists[k]
      BY <3>1
    <3>3. n \in DOMAIN db.datasets /\ db.datasets[n].kind \in kinds /\ k \in DOMAIN db.datasets[n].lists
      BY <3>1 DEF Rewritten
    <3>4. db.datasets[n].lists[k] \in Universe(db, kinds)
      BY <1>1, <3>3, UniverseIs
    <3>5. l.id = db.datasets[n].lists[k].id /\ l.role = db.datasets[n].lists[k].role
      BY <3>2, <3>3 DEF Rewritten
    <3> QED BY <3>2, <3>3, <3>4, <3>5
  <2>2. ASSUME NEW m \in Universe(db, kinds) PROVE \E l \in Universe(d, kinds) : l.id = m.id
    <3>1. PICK n \in DOMAIN db.datasets : db.datasets[n].kind \in kinds /\ \E k \in DOMAIN db.datasets[n].lists : m = db.datasets[n].lists[k]
      BY <1>1, UniverseIs
    <3>2. PICK k \in DOMAIN db.datasets[n].lists : m = db.datasets[n].lists[k]
      BY <3>1
    <3>3. n \in DOMAIN d.datasets /\ d.datasets[n].kind \in kinds /\ k \in DOMAIN d.datasets[n].lists
      BY <3>1 DEF Rewritten
    <3>4. d.datasets[n].lists[k] \in Universe(d, kinds)
      BY <1>2, <3>3, UniverseIs
    <3>5. d.datasets[n].lists[k].id = m.id
      BY <3>1, <3>2 DEF Rewritten
    <3> QED BY <3>4, <3>5
  <2> QED BY <2>1, <2>2
<1>5. UniversesEqual(d)
  <2>1. Kinds(d) = Kinds(db)
    BY DEF Kinds, Rewritten
  <2>2. {l.id : l \in Universe(d, {2})} = {l.id : l \in Universe(db, {2})}
    BY <1>4
  <2>3. {l.id : l \in Universe(d, {3})} = {l.id : l \in Universe(db, {3})}
    BY <1>4
  <2>4. ASSUME NEW l \in Universe(d, {2, 3}), NEW m \in Universe(d, {2, 3}), l.id = m.id, l.role = "list"
        PROVE  l = m
    <3>1. PICK n \in DOMAIN db.datasets : \E k \in DOMAIN db.datasets[n].lists :
                  /\ db.datasets[n].kind \in {2, 3} /\ l = d.datasets[n].lists[k]
                  /\ db.datasets[n].lists[k] \in Universe(db, {2, 3})
                  /\ l.id = db.datasets[n].lists[k].id /\ l.role = db.datasets[n].lists[k].role
      BY <1>4
    <3>2. PICK k \in DOMAIN db.datasets[n].lists :
                  /\ l = d.datasets[n].lists[k] /\ db.datasets[n].lists[k] \in Universe(db, {2, 3})
                  /\ l.id = db.datasets[n].lists[k].id /\ l.role = db.datasets[n].lists[k].role
      BY <3>1
    <3>3. PICK i \in DOMAIN db.datasets : \E k2 \in DOMAIN db.datasets[i].lists :
                  /\ db.datasets[i].kind \in {2, 3} /\ m = d.datasets[i].lists[k2]
                  /\ db.datasets[i].lists[k2] \in Universe(db, {2, 3})
                  /\ m.id = db.datasets[i].lists[k2].id /\ m.role = db.datasets[i].lists[k2].role
      BY <1>4
    <3>4. PICK j \in DOMAIN db.datasets[i].lists :
                  /\ m = d.datasets[i].lists[j] /\ db.datasets[i].lists[j] \in Universe(db, {2, 3})
                  /\ m.id = db.datasets[i].lists[j].id /\ m.role = db.datasets[i].lists[j].role
      BY <3>3
    <3>5. db.datasets[n].lists[k] = db.datasets[i].lists[j] /\ db.datasets[n].lists[k].role = "list"
      BY <1>1, <2>4, <3>2, <3>4 DEF UniversesEqual
    <3>6. d.datasets[n].lists[k] = d.datasets[i].lists[j]
      BY <3>5 DEF SameRewrites
    <3> QED BY <3>2, <3>4, <3>6
  <2> QED BY <1>1, <2>1, <2>2, <2>3, <2>4 DEF UniversesEqual
<1>6. RolesClear(d, file)
  <2>1. ASSUME NEW l \in Universe(d, {2, 3}), NEW m \in Universe(d, {2, 3}), l.id = m.id PROVE l.role = m.role
    <3>1. PICK x \in Universe(db, {2, 3}) : l.id = x.id /\ l.role = x.role
      BY <1>4
    <3>2. PICK y \in Universe(db, {2, 3}) : m.id = y.id /\ m.role = y.role
      BY <1>4
    <3> QED BY <1>1, <2>1, <3>1, <3>2 DEF RolesClear
  <2>2. ASSUME NEW n \in MasterDatasets(d, file)
        PROVE  d.datasets[n].lists # <<>> /\ d.datasets[n].lists[1].role = "master"
    <3>1. n \in MasterDatasets(db, file) /\ n \in DOMAIN db.datasets
      BY SameMasters
    <3>2. db.datasets[n].lists # <<>> /\ db.datasets[n].lists[1].role = "master"
      BY <1>1, <3>1 DEF RolesClear
    <3>3. IsSeq(db.datasets[n].lists)
      BY <1>1, <3>1, DatasetFacts DEF WellFormedDataset
    <3>4. 1 \in DOMAIN db.datasets[n].lists
      BY <3>2, <3>3, ItsRange, EmptySeq DEF IsSeq
    <3>5. 1 \in DOMAIN d.datasets[n].lists /\ d.datasets[n].lists[1].role = "master"
      BY <3>1, <3>2, <3>4 DEF Rewritten
    <3> QED BY <3>5
  <2> QED BY <2>1, <2>2 DEF RolesClear
<1>7. Drawn(Universe(d, {2, 3}), PodcastId)
  <2>1. ASSUME NEW l \in Universe(d, {2, 3}), l.id = PodcastId PROVE l.role = "podcast"
    <3>1. PICK x \in Universe(db, {2, 3}) : l.id = x.id /\ l.role = x.role
      BY <1>4
    <3> QED BY <1>1, <2>1, <3>1 DEF Drawn
  <2> QED BY <2>1 DEF Drawn
<1> QED BY <1>2, <1>3, <1>5, <1>6, <1>7 DEF Openable, SoundDatabase

------------------------------------------------------------------------------
(* Removal. *)

\* What is before a place stays or goes.
LEMMA CountBefore ==
  ASSUME NEW n \in Nat, NEW P \in SUBSET (1..n), NEW G \in SUBSET (1..n), P = (1..n) \ G, NEW i \in 1..n
  PROVE  /\ Cardinality(Preceding(P, i)) \in Nat /\ Cardinality(Preceding(G, i)) \in Nat
         /\ i - 1 - Cardinality(Preceding(G, i)) = Cardinality(Preceding(P, i))
<1> DEFINE p == Preceding(P, i)
           g == Preceding(G, i)
<1>1. p \cup g = 1..(i - 1) /\ p \cap g = {}
  <2>1. \A j : j \in 1..n /\ j < i <=> j \in 1..(i - 1)
    OBVIOUS
  <2> QED BY <2>1 DEF Preceding
<1>2. IsFiniteSet(1..(i - 1)) /\ Cardinality(1..(i - 1)) = i - 1
  <2>1. i - 1 \in Nat
    OBVIOUS
  <2> QED BY <2>1, FS_Interval
<1>3. p \in SUBSET (1..(i - 1)) /\ g \in SUBSET (1..(i - 1))
  BY <1>1
<1> HIDE DEF p, g
<1>4. IsFiniteSet(p) /\ IsFiniteSet(g) /\ Cardinality(p) \in Nat /\ Cardinality(g) \in Nat
  BY <1>2, <1>3, CountIsNat
<1>5. Cardinality(p \cup g) = Cardinality(p) + Cardinality(g) - Cardinality(p \cap g)
  BY <1>4, FS_Union
<1>6. Cardinality(p \cap g) = 0
  BY <1>1, FS_EmptySet
<1>9. i - 1 = Cardinality(p) + Cardinality(g) - 0
  BY <1>1, <1>2, <1>5, <1>6
<1>7. i - 1 = Cardinality(p) + Cardinality(g)
  BY <1>4, <1>9
<1>8. i \in Nat
  OBVIOUS
<1> QED BY <1>4, <1>7, <1>8 DEF p, g

\* An item that stays, with the position that Renumbered gives it.
MovedItem(items, G, n) ==
  IF items[n].position = NoPosition THEN items[n]
  ELSE [items[n] EXCEPT !.position = @ - Cardinality({m \in G : /\ items[m].position # NoPosition
                                                                /\ items[m].position < items[n].position})]

\* The items of a list, in the form every one has.
ItemRecords(items) == IsSeq(items) /\ \A n \in DOMAIN items : DOMAIN items[n] = {"track", "position", "gid", "group"}

\* They are numbered from 0 without gap.
Counted(items) == \A n \in DOMAIN items : items[n].position = n - 1

\* Renumbering moves each item and keeps its track.
LEMMA MovedItems ==
  ASSUME NEW items, ItemRecords(items), NEW G \in SUBSET DOMAIN items
  PROVE  /\ Renumbered(items, G) = Selected([n \in DOMAIN items |-> MovedItem(items, G, n)], DOMAIN items \ G)
         /\ \A n \in DOMAIN items : /\ MovedItem(items, G, n).track = items[n].track
                                    /\ DOMAIN MovedItem(items, G, n) = {"track", "position", "gid", "group"}
<1>1. Renumbered(items, G) = Selected([n \in DOMAIN items |-> MovedItem(items, G, n)], DOMAIN items \ G)
  BY DEF Renumbered, MovedItem
<1>2. ASSUME NEW n \in DOMAIN items
      PROVE  /\ MovedItem(items, G, n).track = items[n].track
             /\ DOMAIN MovedItem(items, G, n) = {"track", "position", "gid", "group"}
  <2>1. DOMAIN items[n] = {"track", "position", "gid", "group"}
    BY DEF ItemRecords
  <2> QED BY <2>1 DEF MovedItem
<1> QED BY <1>1, <1>2

\* An item at the k-th place.
AtPlace(item, k) == [item EXCEPT !.position = k - 1]

\* A counted list stays counted: what stays at place k is at position k - 1.
LEMMA MovedPosition ==
  ASSUME NEW items, ItemRecords(items), Counted(items), NEW G \in SUBSET DOMAIN items,
         NEW s, NEW t, Len(t) \in Nat, NEW pos, Places(s, DOMAIN items \ G, t, pos), NEW k \in 1..Len(t)
  PROVE  /\ pos[k] \in DOMAIN items \ G
         /\ MovedItem(items, G, pos[k]) = AtPlace(items[pos[k]], k)
<1> DEFINE P == DOMAIN items \ G
           i == pos[k]
           lower == {m \in G : items[m].position # NoPosition /\ items[m].position < items[i].position}
<1>1. Len(items) \in Nat /\ DOMAIN items = 1..Len(items)
  BY ItsRange DEF ItemRecords
<1>2. i \in P
  BY DEF Places
<1>3. i \in 1..Len(items) /\ P \in SUBSET (1..Len(items)) /\ G \in SUBSET (1..Len(items)) /\ P = (1..Len(items)) \ G
      /\ P \in SUBSET Nat
  BY <1>1, <1>2
<1>11. Places(s, P, t, pos)
  OBVIOUS
<1>12. P \in SUBSET Nat
  BY <1>3
<1>13. i = pos[k]
  OBVIOUS
<1> HIDE DEF P, i, lower
<1>14. Cardinality(Preceding(P, pos[k])) = k - 1
  BY <1>11, <1>12, PlacesCount
<1>4. Cardinality(Preceding(P, i)) = k - 1
  BY <1>13, <1>14
<1> USE DEF lower
<1>5. items[i].position = i - 1 /\ \A m \in G : items[m].position = m - 1
  BY <1>1, <1>3 DEF Counted
<1>6. lower = Preceding(G, i)
  <2>1. ASSUME NEW m \in G PROVE items[m].position # NoPosition /\ (items[m].position < items[i].position <=> m < i)
    <3>1. m \in Nat \ {0} /\ i \in Nat
      BY <1>3
    <3>2. m - 1 # -1 /\ (m - 1 < i - 1 <=> m < i)
      BY <3>1
    <3> QED BY <1>5, <3>2 DEF NoPosition
  <2> QED BY <2>1 DEF Preceding
<1>7. /\ Cardinality(Preceding(P, i)) \in Nat /\ Cardinality(Preceding(G, i)) \in Nat
      /\ i - 1 - Cardinality(Preceding(G, i)) = Cardinality(Preceding(P, i))
  BY <1>1, <1>3, CountBefore
<1>8. items[i].position # NoPosition
  <2>1. i - 1 # -1
    BY <1>3
  <2> QED BY <1>5, <2>1 DEF NoPosition
<1>9. MovedItem(items, G, i) = [items[i] EXCEPT !.position = items[i].position - Cardinality(lower)]
  <2>1. DOMAIN items[i] = {"track", "position", "gid", "group"}
    BY <1>1, <1>3 DEF ItemRecords
  <2> QED BY <1>8, <2>1 DEF MovedItem
<1>10. items[i].position - Cardinality(lower) = k - 1
  BY <1>4, <1>5, <1>6, <1>7
<1>15. MovedItem(items, G, i) = AtPlace(items[i], k)
  BY <1>9, <1>10 DEF AtPlace
<1> QED BY <1>2, <1>15 DEF P, i

\* What Renumbered leaves of a list.
LEMMA RenumberedKeeps ==
  ASSUME NEW items, ItemRecords(items), NEW G \in SUBSET DOMAIN items
  PROVE  /\ ItemRecords(Renumbered(items, G))
         /\ Counted(items) => Counted(Renumbered(items, G))
         /\ \A k \in DOMAIN Renumbered(items, G) :
              \E i \in DOMAIN items \ G : Renumbered(items, G)[k].track = items[i].track
<1> DEFINE N == Len(items)
           moved == [n \in DOMAIN items |-> MovedItem(items, G, n)]
           S == {MovedItem(items, G, n) : n \in DOMAIN items}
           P == DOMAIN items \ G
           r == Renumbered(items, G)
<1>1. N \in Nat /\ DOMAIN items = 1..N
  BY ItsRange DEF ItemRecords
<1>2. /\ r = Selected(moved, P)
      /\ \A n \in DOMAIN items : /\ MovedItem(items, G, n).track = items[n].track
                                 /\ DOMAIN MovedItem(items, G, n) = {"track", "position", "gid", "group"}
  BY MovedItems
<1>3. moved \in [1..N -> S] /\ \A n \in 1..N : moved[n] = MovedItem(items, G, n)
  BY <1>1
<1> HIDE DEF moved, S, N
<1>4. moved \in Seq(S) /\ Len(moved) = N
  BY <1>1, <1>3, FunctionIsSeq
<1>5. P \in SUBSET (1..Len(moved))
  BY <1>1, <1>4
<1> HIDE DEF P, r
<1>6. r \in Seq(S) /\ \E pos : Places(moved, P, r, pos)
  BY <1>2, <1>4, <1>5, SelectedPlaces
<1>7. PICK pos : Places(moved, P, r, pos)
  BY <1>6
<1>8. IsSeq(r) /\ Len(r) \in Nat /\ DOMAIN r = 1..Len(r)
  BY <1>6, SeqFacts
<1>9. ASSUME NEW k \in 1..Len(r)
      PROVE  pos[k] \in P /\ pos[k] \in DOMAIN items /\ r[k] = MovedItem(items, G, pos[k])
  <2>1. pos[k] \in P /\ r[k] = moved[pos[k]]
    BY <1>7 DEF Places
  <2>2. pos[k] \in 1..N
    BY <1>4, <1>5, <2>1
  <2> QED BY <1>1, <1>3, <2>1, <2>2
<1>10. ItemRecords(r)
  BY <1>2, <1>8, <1>9 DEF ItemRecords
<1>11. ASSUME NEW k \in DOMAIN r PROVE \E i \in DOMAIN items \ G : r[k].track = items[i].track
  BY <1>2, <1>8, <1>9 DEF P
<1>12. ASSUME Counted(items) PROVE Counted(r)
  <2>1. ASSUME NEW k \in 1..Len(r) PROVE r[k].position = k - 1
    <3>1. Places(moved, DOMAIN items \ G, r, pos)
      BY <1>7 DEF P
    <3>2. /\ pos[k] \in DOMAIN items \ G
          /\ MovedItem(items, G, pos[k]) = AtPlace(items[pos[k]], k)
      BY <1>8, <1>12, <3>1, MovedPosition
    <3>3. DOMAIN items[pos[k]] = {"track", "position", "gid", "group"}
      BY <3>2 DEF ItemRecords
    <3>4. r[k] = AtPlace(items[pos[k]], k)
      BY <1>9, <3>2
    <3> QED BY <3>3, <3>4 DEF AtPlace
  <2> QED BY <1>8, <2>1 DEF Counted
<1> QED BY <1>10, <1>11, <1>12 DEF r

\* The items of a master: every track in order, at its position.
WholeItems(tracks) == [n \in DOMAIN tracks |-> MemberItem(tracks[n].id, n - 1)]

\* They are the item records of the tracks.
LEMMA WholeItemsAre ==
  ASSUME NEW tracks, tracks \in Seq(TrackRows)
  PROVE  /\ ItemRecords(WholeItems(tracks)) /\ Counted(WholeItems(tracks))
         /\ Len(tracks) \in Nat /\ DOMAIN tracks = 1..Len(tracks) /\ DOMAIN WholeItems(tracks) = DOMAIN tracks
         /\ \A n \in DOMAIN tracks : /\ WholeItems(tracks)[n] = MemberItem(tracks[n].id, n - 1)
                                     /\ WholeItems(tracks)[n].track = tracks[n].id
<1> DEFINE S == {MemberItem(tracks[n].id, n - 1) : n \in DOMAIN tracks}
<1>1. Len(tracks) \in Nat /\ DOMAIN tracks = 1..Len(tracks)
  BY LenProperties
<1>2. WholeItems(tracks) \in [1..Len(tracks) -> S]
  BY <1>1 DEF WholeItems
<1>3. \A n \in DOMAIN tracks : WholeItems(tracks)[n] = MemberItem(tracks[n].id, n - 1)
  BY DEF WholeItems
<1> HIDE DEF S
<1>4. IsSeq(WholeItems(tracks)) /\ DOMAIN WholeItems(tracks) = 1..Len(tracks)
  BY <1>1, <1>2, FunctionIsSeq
<1>5. ItemRecords(WholeItems(tracks)) /\ Counted(WholeItems(tracks))
  BY <1>1, <1>3, <1>4 DEF ItemRecords, Counted, MemberItem
<1>6. ASSUME NEW n \in DOMAIN tracks PROVE WholeItems(tracks)[n].track = tracks[n].id
  <2>1. MemberItem(tracks[n].id, n - 1).track = tracks[n].id
    BY DEF MemberItem
  <2> QED BY <1>3, <2>1
<1> QED BY <1>1, <1>3, <1>4, <1>5, <1>6

\* Renumbered leaves a master whole.
LEMMA RenumberedMaster ==
  ASSUME NEW tracks \in Seq(TrackRows), NEW P \in SUBSET DOMAIN tracks
  PROVE  Renumbered(WholeItems(tracks), DOMAIN tracks \ P) = WholeItems(Selected(tracks, P))
<1> DEFINE items == WholeItems(tracks)
           G == DOMAIN tracks \ P
           N == Len(tracks)
           t == Selected(tracks, P)
           moved == [n \in DOMAIN items |-> MovedItem(items, G, n)]
           u == WholeItems(t)
           S == {MovedItem(items, G, n) : n \in DOMAIN items}
<1>1. /\ ItemRecords(items) /\ Counted(items) /\ N \in Nat /\ DOMAIN tracks = 1..N /\ DOMAIN items = 1..N
      /\ \A n \in 1..N : items[n] = MemberItem(tracks[n].id, n - 1)
  BY WholeItemsAre
<1> HIDE DEF items
<1>2. t \in Seq(TrackRows) /\ \E pos : Places(tracks, P, t, pos)
  BY <1>1, SelectedPlaces
<1>3. PICK pos : Places(tracks, P, t, pos)
  BY <1>2
<1> HIDE DEF t
<1>4. /\ Len(t) \in Nat /\ DOMAIN t = 1..Len(t) /\ DOMAIN u = 1..Len(t) /\ IsSeq(u)
      /\ \A k \in 1..Len(t) : u[k] = MemberItem(t[k].id, k - 1)
  BY <1>2, WholeItemsAre DEF ItemRecords
<1> HIDE DEF u
<1>5. G \in SUBSET DOMAIN items /\ DOMAIN items \ G = P
  BY <1>1
<1>6. Renumbered(items, G) = Selected(moved, P)
  BY <1>1, <1>5, MovedItems
<1>7. moved \in [1..N -> S] /\ \A n \in 1..N : moved[n] = MovedItem(items, G, n)
  BY <1>1
<1> HIDE DEF moved, G, S
<1>8. moved \in Seq(S) /\ Len(moved) = N
  BY <1>1, <1>7, FunctionIsSeq
<1>9. ASSUME NEW k \in 1..Len(t) PROVE u[k] = moved[pos[k]] /\ u[k] \in S
  <2>1. pos[k] \in P /\ t[k] = tracks[pos[k]]
    BY <1>3 DEF Places
  <2>2. Places(tracks, DOMAIN items \ G, t, pos)
    BY <1>3, <1>5
  <2>8. ItemRecords(items) /\ Counted(items)
    BY <1>1
  <2>9. Len(t) \in Nat
    BY <1>4
  <2>10. G \in SUBSET DOMAIN items
    BY <1>5
  <2>3. /\ pos[k] \in DOMAIN items \ G
        /\ MovedItem(items, G, pos[k]) = AtPlace(items[pos[k]], k)
    BY <2>2, <2>8, <2>9, <2>10, MovedPosition
  <2>4. items[pos[k]] = MemberItem(tracks[pos[k]].id, pos[k] - 1)
    BY <1>1, <2>3
  <2>5. AtPlace(items[pos[k]], k) = MemberItem(t[k].id, k - 1)
    BY <2>1, <2>4 DEF MemberItem, AtPlace
  <2>6. u[k] = moved[pos[k]]
    BY <1>1, <1>4, <1>7, <2>3, <2>5
  <2>7. moved[pos[k]] \in S
    BY <1>1, <1>7, <2>3
  <2> QED BY <2>6, <2>7
<1>10. u \in Seq(S) /\ Len(u) = Len(t)
  <2>1. u = [k \in 1..Len(t) |-> u[k]]
    BY <1>4, ItsRange
  <2>2. u \in [1..Len(t) -> S]
    BY <1>9, <2>1
  <2> QED BY <1>4, <2>2, FunctionIsSeq
<1>11. Places(moved, P, u, pos)
  BY <1>3, <1>9, <1>10 DEF Places
<1>12. P \in SUBSET (1..Len(moved))
  BY <1>1, <1>8
<1>13. Selected(moved, P) = u
  BY <1>8, <1>10, <1>11, <1>12, SelectedIs
<1> QED BY <1>6, <1>13 DEF items, G, u, t

\* The places of the tracks that stay, and the rows and the ids at some places.
StayingPlaces(tracks, pids) == {n \in DOMAIN tracks : tracks[n].pid \notin pids}
RowsAt(tracks, P) == {tracks[n] : n \in P}
IdsAt(tracks, P) == {tracks[n].id : n \in P}

\* The tracks that stay are the tracks there were, in their order.
LEMMA TracksThatStay ==
  ASSUME NEW tracks \in Seq(TrackRows), TracksApart(tracks), NEW pids
  PROVE  LET P == StayingPlaces(tracks, pids)
             t == Selected(tracks, P)
         IN  /\ t \in Seq(TrackRows) /\ TracksApart(t)
             /\ Range(t) = RowsAt(tracks, P) /\ TrackIds(t) = IdsAt(tracks, P) /\ Pids(t) = Pids(tracks) \ pids
<1> DEFINE P == StayingPlaces(tracks, pids)
           t == Selected(tracks, P)
<1>0. P = {n \in DOMAIN tracks : tracks[n].pid \notin pids}
  BY DEF StayingPlaces
<1>1. Len(tracks) \in Nat /\ DOMAIN tracks = 1..Len(tracks)
  BY LenProperties
<1>2. P \in SUBSET (1..Len(tracks)) /\ P \in SUBSET Nat
  BY <1>0, <1>1
<1>3. t \in Seq(TrackRows) /\ \E pos : Places(tracks, P, t, pos)
  BY <1>2, SelectedPlaces
<1>4. PICK pos : Places(tracks, P, t, pos)
  BY <1>3
<1> HIDE DEF t, P
<1>5. Len(t) \in Nat /\ DOMAIN t = 1..Len(t)
  BY <1>3, LenProperties
<1>6. /\ \A k \in 1..Len(t) : pos[k] \in P /\ t[k] = tracks[pos[k]]
      /\ \A i \in P : \E k \in 1..Len(t) : pos[k] = i
  BY <1>4 DEF Places
<1>7. Range(t) = {tracks[n] : n \in P}
  BY <1>5, <1>6 DEF Range
<1>8. TrackIds(t) = {tracks[n].id : n \in P}
  BY <1>7 DEF TrackIds
<1>9. Pids(t) = Pids(tracks) \ pids
  <2>1. Pids(t) = {tracks[n].pid : n \in P}
    BY <1>7 DEF Pids
  <2>2. Pids(tracks) = {tracks[n].pid : n \in DOMAIN tracks}
    BY DEF Pids, Range
  <2> QED BY <1>0, <2>1, <2>2
<1>10. ASSUME NEW k \in 1..Len(t), NEW l \in 1..Len(t), t[k].id = t[l].id \/ t[k].pid = t[l].pid PROVE k = l
  <2>1. pos[k] \in DOMAIN tracks /\ pos[l] \in DOMAIN tracks
    BY <1>1, <1>2, <1>6
  <2>2. pos[k] = pos[l]
    BY <1>6, <1>10, <2>1 DEF TracksApart
  <2>3. P \in SUBSET Nat
    BY <1>2
  <2>4. Len(t) \in Nat
    BY <1>5
  <2> QED BY <1>4, <2>2, <2>3, <2>4, PlacesApart
<1>11. TracksApart(t)
  BY <1>5, <1>10 DEF TracksApart
<1> QED BY <1>3, <1>7, <1>8, <1>9, <1>11 DEF t, P, RowsAt, IdsAt

\* List m is list l without the items of the tracks ids.
ListWithout(m, l, ids) ==
  LET G == {i \in DOMAIN l.items : l.items[i].track \in ids}
  IN  /\ WellFormedList(l) /\ m.id = l.id /\ m.role = l.role /\ DOMAIN m = DOMAIN l
      /\ m.items = Renumbered(l.items, G) /\ ItemRecords(l.items) /\ G \in SUBSET DOMAIN l.items

\* What the removal does to a list.
LEMMA RemovedFromListIs ==
  ASSUME NEW l, WellFormedList(l), NEW ids, NEW gone
  PROVE  ListWithout(RemovedFromList(l, ids, gone), l, ids)
<1>1. DOMAIN l = {"id", "role", "name", "items", "index"}
  BY DEF WellFormedList
<1>2. ItemRecords(l.items)
  BY DEF WellFormedList, ItemRecords
<1> QED BY <1>1, <1>2 DEF RemovedFromList, ListWithout

\* The removal from a dataset removes from each of its lists.
LEMMA RemovedFromDatasetIs ==
  ASSUME NEW d, WellFormedDataset(d), NEW ids, NEW gone
  PROVE  LET r == RemovedFromDataset(d, ids, gone)
         IN  /\ DOMAIN r = {"kind", "lists"} /\ r.kind = d.kind /\ IsSeq(r.lists) /\ DOMAIN r.lists = DOMAIN d.lists
             /\ \A k \in DOMAIN d.lists : r.lists[k] = RemovedFromList(d.lists[k], ids, gone)
<1> DEFINE r == RemovedFromDataset(d, ids, gone)
           lists == [n \in DOMAIN d.lists |-> RemovedFromList(d.lists[n], ids, gone)]
           S == {RemovedFromList(d.lists[n], ids, gone) : n \in DOMAIN d.lists}
<1>1. DOMAIN d = {"kind", "lists"} /\ IsSeq(d.lists)
  BY DEF WellFormedDataset
<1>2. DOMAIN r = {"kind", "lists"} /\ r.kind = d.kind /\ r.lists = lists
  BY <1>1 DEF RemovedFromDataset
<1>3. Len(d.lists) \in Nat /\ DOMAIN d.lists = 1..Len(d.lists)
  BY <1>1, ItsRange
<1>4. lists \in [1..Len(d.lists) -> S]
  BY <1>3
<1>5. \A k \in DOMAIN d.lists : lists[k] = RemovedFromList(d.lists[k], ids, gone)
  OBVIOUS
<1> HIDE DEF lists, S
<1>6. IsSeq(lists) /\ DOMAIN lists = DOMAIN d.lists
  BY <1>3, <1>4, FunctionIsSeq
<1> HIDE DEF r
<1>7. /\ DOMAIN r = {"kind", "lists"} /\ r.kind = d.kind /\ IsSeq(r.lists) /\ DOMAIN r.lists = DOMAIN d.lists
      /\ \A k \in DOMAIN d.lists : r.lists[k] = RemovedFromList(d.lists[k], ids, gone)
  BY <1>2, <1>5, <1>6
<1> QED BY <1>7 DEF r

\* The items of the masters of a sound database.
LEMMA MasterItems ==
  ASSUME NEW db, NEW file, SoundDatabase(db, file), NEW n \in MasterDatasets(db, file)
  PROVE  /\ n \in DOMAIN db.datasets /\ 1 \in DOMAIN db.datasets[n].lists
         /\ db.datasets[n].lists[1].items = WholeItems(db.tracks)
         /\ db.datasets[n].lists[1].role = "master"
<1>1. WellFormed(db) /\ MastersWhole(db, file) /\ RolesClear(db, file)
  BY DEF SoundDatabase
<1>2. MasterDatasets(db, file) \subseteq DOMAIN db.datasets
  <2> DEFINE of(k) == {i \in DOMAIN db.datasets : db.datasets[i].kind = k}
  <2>1. IsSeq(db.datasets)
    BY <1>1 DEF WellFormed
  <2>2. of(2) \in SUBSET Nat /\ of(3) \in SUBSET Nat
    BY <2>1, ItsRange
  <2>3. (of(2) # {} => Min(of(2)) \in of(2)) /\ (of(3) # {} => Min(of(3)) \in of(3))
    <3> HIDE DEF of
    <3> QED BY <2>2, MinOfNats
  <2> QED BY <2>3 DEF MasterDatasets
<1>3. n \in DOMAIN db.datasets
  BY <1>2
<1>4. db.datasets[n].lists # <<>> /\ db.datasets[n].lists[1].role = "master"
  BY <1>1 DEF RolesClear
<1>5. IsSeq(db.datasets[n].lists)
  BY <1>1, <1>3, DatasetFacts DEF WellFormedDataset
<1>6. 1 \in DOMAIN db.datasets[n].lists
  BY <1>4, <1>5, ItsRange, EmptySeq DEF IsSeq
<1>7. db.datasets[n].lists[1] \in Masters(db, file)
  BY DEF Masters
<1>8. db.datasets[n].lists[1].items = WholeItems(db.tracks)
  BY <1>1, <1>7 DEF MastersWhole, WholeItems
<1> QED BY <1>3, <1>4, <1>6, <1>8

\* remove_tracks leaves a sound database.
LEMMA RemovedIsSound ==
  ASSUME NEW db, NEW file, Openable(db, file), NEW pids
  PROVE  Openable(RemovedTracks(db, pids), file)
<1> DEFINE d == RemovedTracks(db, pids)
           gone == {n - 1 : n \in {m \in DOMAIN db.tracks : db.tracks[m].pid \in pids}}
           ids == {db.tracks[p + 1].id : p \in gone}
           P == {n \in DOMAIN db.tracks : db.tracks[n].pid \notin pids}
           left == [n \in DOMAIN db.datasets |-> RemovedFromDataset(db.datasets[n], ids, gone)]
           S == {RemovedFromDataset(db.datasets[n], ids, gone) : n \in DOMAIN db.datasets}
           N == Len(db.tracks)
<1>1. SoundDatabase(db, file) /\ WellFormed(db) /\ MembersKnown(db)
  BY DEF Openable, SoundDatabase
<1>2. /\ DOMAIN db = {"tracks", "albums", "datasets", "count", "version"} /\ db.tracks \in Seq(TrackRows)
      /\ db.albums \in Seq(AlbumRows) /\ IsSeq(db.datasets) /\ db.version \in Nat
  BY <1>1 DEF WellFormed
<1>3. N \in Nat /\ DOMAIN db.tracks = 1..N
  BY <1>2, LenProperties
<1>4. /\ DOMAIN d = {"tracks", "albums", "datasets", "count", "version"} /\ d.tracks = Selected(db.tracks, P)
      /\ d.albums = db.albums /\ d.datasets = left /\ d.version = db.version
  BY <1>2 DEF RemovedTracks
<1>5. ids = {db.tracks[m].id : m \in DOMAIN db.tracks \ P}
  <2>1. \A m \in 1..N : (m - 1) + 1 = m
    OBVIOUS
  <2>2. ASSUME NEW x \in ids PROVE x \in {db.tracks[m].id : m \in DOMAIN db.tracks \ P}
    <3>1. PICK m \in DOMAIN db.tracks : db.tracks[m].pid \in pids /\ x = db.tracks[(m - 1) + 1].id
      OBVIOUS
    <3> QED BY <1>3, <2>1, <3>1
  <2>3. ASSUME NEW m \in DOMAIN db.tracks \ P PROVE db.tracks[m].id \in ids
    <3>1. m - 1 \in gone
      OBVIOUS
    <3>2. (m - 1) + 1 = m
      BY <1>3, <2>1
    <3> QED BY <3>1, <3>2
  <2> HIDE DEF ids
  <2> QED BY <2>2, <2>3
<1> HIDE DEF ids, gone
<1>6. TracksApart(db.tracks)
  BY <1>1 DEF MembersKnown
<1>19. P = StayingPlaces(db.tracks, pids)
  BY DEF StayingPlaces
<1>7. /\ d.tracks \in Seq(TrackRows) /\ TracksApart(d.tracks)
      /\ TrackIds(d.tracks) = {db.tracks[n].id : n \in P}
  <2> DEFINE t == Selected(db.tracks, P)
  <2> HIDE DEF P, d
  <2>1. t \in Seq(TrackRows) /\ TracksApart(t) /\ TrackIds(t) = IdsAt(db.tracks, P)
    BY <1>2, <1>6, <1>19, TracksThatStay
  <2> QED BY <1>4, <2>1 DEF IdsAt
<1>8. left \in [1..Len(db.datasets) -> S] /\ Len(db.datasets) \in Nat /\ DOMAIN db.datasets = 1..Len(db.datasets)
  BY <1>2, ItsRange
<1>9. \A n \in DOMAIN db.datasets : left[n] = RemovedFromDataset(db.datasets[n], ids, gone)
  OBVIOUS
<1> HIDE DEF left, S, d
<1>10. IsSeq(d.datasets) /\ DOMAIN d.datasets = DOMAIN db.datasets
  BY <1>4, <1>8, FunctionIsSeq
<1>11. ASSUME NEW n \in DOMAIN db.datasets
       PROVE  /\ DOMAIN d.datasets[n] = {"kind", "lists"} /\ d.datasets[n].kind = db.datasets[n].kind
              /\ IsSeq(d.datasets[n].lists) /\ DOMAIN d.datasets[n].lists = DOMAIN db.datasets[n].lists
              /\ \A k \in DOMAIN db.datasets[n].lists :
                   d.datasets[n].lists[k] = RemovedFromList(db.datasets[n].lists[k], ids, gone)
  <2>1. WellFormedDataset(db.datasets[n])
    BY <1>1, DatasetFacts
  <2>2. d.datasets[n] = RemovedFromDataset(db.datasets[n], ids, gone)
    BY <1>4, <1>9
  <2> QED BY <2>1, <2>2, RemovedFromDatasetIs
<1>12. ASSUME NEW n \in DOMAIN db.datasets, NEW k \in DOMAIN db.datasets[n].lists
       PROVE  LET l == db.datasets[n].lists[k]
                  m == d.datasets[n].lists[k]
                  G == {i \in DOMAIN l.items : l.items[i].track \in ids}
              IN  /\ WellFormedList(l) /\ m.id = l.id /\ m.role = l.role /\ DOMAIN m = DOMAIN l
                  /\ m.items = Renumbered(l.items, G) /\ ItemRecords(l.items) /\ G \in SUBSET DOMAIN l.items
  <2>1. WellFormedList(db.datasets[n].lists[k])
    BY <1>1, DatasetFacts
  <2>2. d.datasets[n].lists[k] = RemovedFromList(db.datasets[n].lists[k], ids, gone)
    BY <1>11
  <2>3. ListWithout(d.datasets[n].lists[k], db.datasets[n].lists[k], ids)
    BY <2>1, <2>2, RemovedFromListIs
  <2> QED BY <2>3 DEF ListWithout
<1>13. Rewritten(db, d)
  BY <1>10, <1>11, <1>12 DEF Rewritten
<1>14. ListsKnown(d)
  <2>1. SUFFICES ASSUME NEW n \in DOMAIN db.datasets, NEW k \in DOMAIN db.datasets[n].lists
                 PROVE  /\ WellFormedList(d.datasets[n].lists[k])
                        /\ ItemsKnown(d.datasets[n].lists[k], TrackIds(d.tracks))
    BY <1>10, <1>11 DEF ListsKnown
  <2> DEFINE l == db.datasets[n].lists[k]
             m == d.datasets[n].lists[k]
             G == {i \in DOMAIN l.items : l.items[i].track \in ids}
             r == Renumbered(l.items, G)
  <2>2. /\ WellFormedList(l) /\ m.id = l.id /\ m.role = l.role /\ DOMAIN m = DOMAIN l
        /\ m.items = r /\ ItemRecords(l.items) /\ G \in SUBSET DOMAIN l.items
    BY <1>12
  <2>3. ItemsKnown(l, TrackIds(db.tracks))
    BY <1>1, ListFacts
  <2>9. \A i \in DOMAIN l.items \ G : l.items[i].track \notin ids
    OBVIOUS
  <2> HIDE DEF l, m, G
  <2>4. /\ ItemRecords(r) /\ (Counted(l.items) => Counted(r))
        /\ \A i \in DOMAIN r : \E j \in DOMAIN l.items \ G : r[i].track = l.items[j].track
    BY <2>2, RenumberedKeeps
  <2> HIDE DEF r
  <2>5. WellFormedList(m)
    BY <2>2, <2>4 DEF WellFormedList, ItemRecords
  <2>6. ASSUME NEW i \in DOMAIN r PROVE r[i].track \in TrackIds(d.tracks) \cup {0}
    <3>1. PICK j \in DOMAIN l.items \ G : r[i].track = l.items[j].track
      BY <2>4
    <3>2. l.items[j].track \in TrackIds(db.tracks) \cup {0} /\ l.items[j].track \notin ids
      BY <2>3, <2>9 DEF ItemsKnown
    <3>3. TrackIds(db.tracks) = {db.tracks[x].id : x \in DOMAIN db.tracks}
      BY DEF TrackIds, Range
    <3> QED BY <1>5, <1>7, <3>1, <3>2, <3>3
  <2>7. l.role = "list" => Counted(l.items)
    BY <2>3 DEF ItemsKnown, Counted
  <2>8. ItemsKnown(m, TrackIds(d.tracks))
    BY <2>2, <2>4, <2>6, <2>7 DEF ItemsKnown, Counted
  <2> QED BY <2>5, <2>8 DEF m
<1>15. SameRewrites(db, d)
  BY <1>11 DEF SameRewrites
<1>16. MastersWhole(d, file)
  <2>1. ASSUME NEW n \in MasterDatasets(d, file) PROVE d.datasets[n].lists[1].items = WholeItems(d.tracks)
    <3>1. n \in MasterDatasets(db, file)
      BY <1>13, SameMasters
    <3>2. /\ n \in DOMAIN db.datasets /\ 1 \in DOMAIN db.datasets[n].lists
          /\ db.datasets[n].lists[1].items = WholeItems(db.tracks)
      BY <1>1, <3>1, MasterItems
    <3> DEFINE l == db.datasets[n].lists[1]
               G == {i \in DOMAIN l.items : l.items[i].track \in ids}
    <3>3. d.datasets[n].lists[1].items = Renumbered(l.items, G)
      BY <1>12, <3>2
    <3>4. G = DOMAIN db.tracks \ P
      <4>4. DOMAIN WholeItems(db.tracks) = DOMAIN db.tracks
        BY <1>2, WholeItemsAre
      <4>5. \A i \in DOMAIN db.tracks : WholeItems(db.tracks)[i].track = db.tracks[i].id
        BY <1>2, WholeItemsAre
      <4>1. \A i \in DOMAIN db.tracks : l.items[i].track = db.tracks[i].id
        BY <3>2, <4>5
      <4>2. DOMAIN l.items = DOMAIN db.tracks
        BY <3>2, <4>4
      <4>3. \A i \in DOMAIN db.tracks : db.tracks[i].id \in ids <=> i \notin P
        BY <1>5, <1>6 DEF TracksApart
      <4> QED BY <4>1, <4>2, <4>3
    <3>5. P \in SUBSET DOMAIN db.tracks
      OBVIOUS
    <3> HIDE DEF l, G, P
    <3>6. Renumbered(WholeItems(db.tracks), DOMAIN db.tracks \ P) = WholeItems(Selected(db.tracks, P))
      BY <1>2, <3>5, RenumberedMaster
    <3>7. l.items = WholeItems(db.tracks)
      BY <3>2 DEF l
    <3> QED BY <1>4, <3>3, <3>4, <3>6, <3>7
  <2> QED BY <2>1 DEF MastersWhole, Masters, WholeItems
<1> HIDE DEF P
<1>17. d.albums \in Seq(AlbumRows) /\ d.version \in Nat /\ DOMAIN d = {"tracks", "albums", "datasets", "count", "version"}
  BY <1>2, <1>4
<1>18. Openable(d, file)
  BY <1>7, <1>13, <1>14, <1>15, <1>16, <1>17, PointwiseSound
<1> QED BY <1>18 DEF d

------------------------------------------------------------------------------
(* Addition. *)

\* The greatest number of a set, or 0.
LEMMA MaxOfIs ==
  ASSUME NEW S \in SUBSET Nat, IsFiniteSet(S)
  PROVE  MaxOf(S) \in Nat /\ \A x \in S : x <= MaxOf(S)
<1> DEFINE T == S \cup {0}
<1>1. T \in SUBSET Nat /\ IsFiniteSet(T) /\ T # {} /\ S \subseteq T
  BY FS_AddElement
<1>2. MaxOf(S) = Max(T)
  BY DEF MaxOf
<1> HIDE DEF T
<1>3. Max(T) \in T /\ \A y \in T : Max(T) >= y
  BY <1>1, MaxOfNats
<1>4. Max(T) \in Nat /\ \A y \in T : y \in Nat
  BY <1>1, <1>3
<1>5. \A x \in S : x <= Max(T)
  BY <1>1, <1>3, <1>4
<1> QED BY <1>2, <1>4, <1>5

\* The numbers in a field of the rows of a table.
LEMMA NumbersAreFinite ==
  ASSUME NEW n \in Nat, NEW f \in [1..n -> Nat]
  PROVE  Range(f) \in SUBSET Nat /\ IsFiniteSet(Range(f))
<1>1. Range(f) \in SUBSET Nat
  BY DEF Range
<1>2. IsFiniteSet(1..n)
  BY FS_Interval
<1>3. f \in Surjection(1..n, Range(f))
  BY DEF Surjection, Range
<1>4. IsFiniteSet(Range(f))
  BY <1>2, <1>3, FS_Surjection
<1> QED BY <1>1, <1>4

\* The first of some places of a table.
LEMMA FirstPlace ==
  ASSUME NEW S, NEW s \in Seq(S), NEW P \in SUBSET DOMAIN s, P # {}
  PROVE  Min(P) \in P /\ Min(P) \in DOMAIN s /\ s[Min(P)] \in S
<1>1. DOMAIN s = 1..Len(s) /\ Len(s) \in Nat
  BY LenProperties
<1>2. P \in SUBSET Nat
  BY <1>1
<1>3. Min(P) \in P
  BY <1>2, MinOfNats
<1>4. Min(P) \in DOMAIN s
  BY <1>3
<1> QED BY <1>3, <1>4, SeqFacts

\* The tags of an addition, and the artist of its album.
LEMMA AdditionIs ==
  ASSUME NEW a \in AdditionRows
  PROVE  /\ a.pid \in Nat /\ a.title \in Names /\ a.artist \in Names /\ a.album \in Names /\ a.genre \in Names
         /\ a.number \in Nat /\ a.kind \in MediaKinds /\ AlbumArtist(a) \in Names
         /\ a.genre # NoName => "genre" \in a.given
         /\ \A p \in Nat : [a EXCEPT !.pid = p] \in AdditionRows
<1>1. /\ a.pid \in Nat /\ a.title \in Names /\ a.artist \in Names /\ a.album \in Names /\ a.genre \in Names
      /\ a.albumArtist \in Names /\ a.number \in Nat /\ a.kind \in MediaKinds /\ (a.genre # NoName => "genre" \in a.given)
  BY DEF AdditionRows
<1>2. AlbumArtist(a) \in Names
  BY <1>1 DEF AlbumArtist
<1>3. ASSUME NEW p \in Nat PROVE [a EXCEPT !.pid = p] \in AdditionRows
  BY DEF AdditionRows
<1> QED BY <1>1, <1>2, <1>3

\* The tags of a record.
LEMMA TrackIs ==
  ASSUME NEW t \in TrackRows
  PROVE  /\ t.pid \in Nat /\ t.id \in Nat /\ t.id # 0 /\ t.fields \subseteq FieldNames /\ t.title \in Names
         /\ t.artist \in Names /\ t.album \in Names /\ t.genre \in Names /\ t.albumArtist \in Names
         /\ t.number \in Nat /\ t.header \in Nat /\ t.kind \in MediaKinds /\ t.albumId \in Nat /\ t.ref \in Nat
         /\ "title" \in t.fields /\ (t.artist # NoName => "artist" \in t.fields)
BY DEF TrackRows

\* The album and the artist of an addition have numbers.
LEMMA LinksAreNats ==
  ASSUME NEW db, WellFormed(db), NEW a \in AdditionRows
  PROVE  /\ AlbumIdFor(db.albums, a) \in Nat /\ ArtistRefFor(db.tracks, a) \in Nat
         /\ TrackIds(db.tracks) \in SUBSET Nat /\ IsFiniteSet(TrackIds(db.tracks))
<1> DEFINE tracks == db.tracks
           albums == db.albums
<1>1. tracks \in Seq(TrackRows) /\ albums \in Seq(AlbumRows)
  BY DEF WellFormed
<1>2. \A n \in DOMAIN tracks : tracks[n] \in TrackRows
  BY <1>1, SeqFacts
<1>3. \A n \in DOMAIN albums : albums[n] \in AlbumRows
  BY <1>1, SeqFacts
<1> HIDE DEF tracks, albums
<1>4. TrackIds(tracks) \in SUBSET Nat /\ IsFiniteSet(TrackIds(tracks))
  <2> DEFINE f == [n \in DOMAIN tracks |-> tracks[n].id]
  <2>1. \A n \in DOMAIN tracks : f[n] \in Nat /\ f[n] = tracks[n].id
    BY <1>2 DEF TrackRows
  <2>2. f \in [1..Len(tracks) -> Nat] /\ Len(tracks) \in Nat
    BY <1>1, <2>1, LenProperties
  <2>3. TrackIds(tracks) = Range(f)
    BY DEF TrackIds, Range
  <2> HIDE DEF f
  <2>4. Range(f) \in SUBSET Nat /\ IsFiniteSet(Range(f))
    BY <2>2, NumbersAreFinite
  <2> QED BY <2>3, <2>4
<1>5. AlbumIdFor(albums, a) \in Nat
  <2> DEFINE found == FoundAlbums(albums, a.album, AlbumArtist(a))
             f == [n \in DOMAIN albums |-> albums[n].id]
             ids == {r.id : r \in Range(albums)}
  <2>1. \A n \in DOMAIN albums : f[n] \in Nat /\ f[n] = albums[n].id
    BY <1>3 DEF AlbumRows
  <2>2. f \in [1..Len(albums) -> Nat] /\ Len(albums) \in Nat
    BY <1>1, <2>1, LenProperties
  <2>3. ids = Range(f)
    BY DEF Range
  <2> HIDE DEF f
  <2>4. Range(f) \in SUBSET Nat /\ IsFiniteSet(Range(f))
    BY <2>2, NumbersAreFinite
  <2>5. MaxOf(ids) \in Nat
    BY <2>3, <2>4, MaxOfIs
  <2>6. found \in SUBSET DOMAIN albums
    BY DEF FoundAlbums
  <2>7. ASSUME found # {} PROVE albums[Min(found)].id \in Nat
    <3> HIDE DEF found
    <3>1. Min(found) \in DOMAIN albums
      BY <1>1, <2>6, <2>7, FirstPlace
    <3> QED BY <2>1, <3>1
  <2>8. AlbumIdFor(albums, a) = IF found # {} THEN albums[Min(found)].id ELSE MaxOf(ids) + 1
    BY DEF AlbumIdFor
  <2> HIDE DEF found, ids
  <2> QED BY <2>5, <2>7, <2>8
<1>6. ArtistRefFor(tracks, a) \in Nat
  <2> DEFINE same == {n \in DOMAIN tracks : a.artist # NoName /\ tracks[n].artist = a.artist}
             f == [n \in DOMAIN tracks |-> tracks[n].ref]
             refs == {t.ref : t \in Range(tracks)}
  <2>1. \A n \in DOMAIN tracks : f[n] \in Nat /\ f[n] = tracks[n].ref
    BY <1>2 DEF TrackRows
  <2>2. f \in [1..Len(tracks) -> Nat] /\ Len(tracks) \in Nat
    BY <1>1, <2>1, LenProperties
  <2>3. refs = Range(f)
    BY DEF Range
  <2> HIDE DEF f
  <2>4. Range(f) \in SUBSET Nat /\ IsFiniteSet(Range(f))
    BY <2>2, NumbersAreFinite
  <2>5. MaxOf(refs) \in Nat
    BY <2>3, <2>4, MaxOfIs
  <2>6. same \in SUBSET DOMAIN tracks
    OBVIOUS
  <2>7. ASSUME same # {} PROVE tracks[Min(same)].ref \in Nat
    <3> HIDE DEF same
    <3>1. Min(same) \in DOMAIN tracks
      BY <1>1, <2>6, <2>7, FirstPlace
    <3> QED BY <2>1, <3>1
  <2>8. ArtistRefFor(tracks, a) = IF same # {} THEN tracks[Min(same)].ref ELSE MaxOf(refs) + 1
    BY DEF ArtistRefFor
  <2> HIDE DEF same, refs
  <2> QED BY <2>5, <2>7, <2>8
<1> QED BY <1>4, <1>5, <1>6 DEF tracks, albums

\* A record is built with a number that no other has.
LEMMA NewTrackIs ==
  ASSUME NEW db, NEW file, WellFormed(db), NEW a \in AdditionRows
  PROVE  NewTrack(db, file, a) \in TrackRows /\ NewTrack(db, file, a).pid = a.pid /\ NewTrack(db, file, a).id \notin TrackIds(db.tracks)
<1> DEFINE profile == TrackProfile(db.tracks)
           written == {f \in profile : f # "genre" \/ "genre" \in a.given}
           text(f, value) == IF f \in written THEN value ELSE NoName
           new == NewTrack(db, file, a)
           highest == MaxOf(TrackIds(db.tracks))
           size == HeaderSize(db, file)
           albumId == AlbumIdFor(db.albums, a)
           ref == ArtistRefFor(db.tracks, a)
<1>1. /\ AlbumIdFor(db.albums, a) \in Nat /\ ArtistRefFor(db.tracks, a) \in Nat
      /\ TrackIds(db.tracks) \in SUBSET Nat /\ IsFiniteSet(TrackIds(db.tracks))
  BY LinksAreNats
<1>2. highest \in Nat /\ \A x \in TrackIds(db.tracks) : x <= highest
  BY <1>1, MaxOfIs
<1>3. profile \subseteq FieldNames /\ "title" \in profile
  <2>1. db.tracks \in Seq(TrackRows)
    BY DEF WellFormed
  <2>2. Range(db.tracks) \in SUBSET TrackRows
    BY <2>1, RangeOfSeq
  <2>3. \A t \in Range(db.tracks) : t.fields \subseteq FieldNames /\ "title" \in t.fields
    BY <2>2, TrackIs
  <2>4. ASSUME db.tracks # <<>> PROVE Range(db.tracks) # {}
    <3>1. Len(db.tracks) \in Nat /\ Len(db.tracks) # 0 /\ DOMAIN db.tracks = 1..Len(db.tracks)
      BY <2>1, <2>4, EmptySeq, SeqFacts
    <3>2. 1 \in DOMAIN db.tracks
      BY <3>1
    <3> QED BY <2>1, <3>2, SeqFacts
  <2> QED BY <2>3, <2>4 DEF TrackProfile, FieldNames, SortedFields
<1>11. size \in Nat
  <2>1. FirstHeader(db.version) \in Nat
    BY DEF FirstHeader
  <2>2. db.tracks \in Seq(TrackRows)
    BY DEF WellFormed
  <2>3. ASSUME db.tracks # <<>> PROVE db.tracks[1].header \in Nat
    <3>1. Len(db.tracks) \in Nat /\ Len(db.tracks) # 0 /\ DOMAIN db.tracks = 1..Len(db.tracks)
      BY <2>2, <2>3, EmptySeq, SeqFacts
    <3>2. 1 \in DOMAIN db.tracks
      BY <3>1
    <3>3. db.tracks[1] \in TrackRows
      BY <2>2, <3>2, SeqFacts
    <3> QED BY <3>3, TrackIs
  <2> QED BY <2>1, <2>3 DEF HeaderSize
<1>4. new = [pid |-> a.pid, id |-> highest + 1, fields |-> written,
             title |-> text("title", a.title), artist |-> text("artist", a.artist),
             album |-> text("album", a.album), genre |-> text("genre", a.genre),
             albumArtist |-> text("albumArtist", AlbumArtist(a)),
             number |-> a.number, header |-> size,
             kind |-> IF size >= KindRoom THEN a.kind ELSE "song",
             albumId |-> IF size >= AlbumRoom THEN albumId ELSE 0,
             ref |-> IF size >= RefRoom THEN ref ELSE 0]
  BY DEF NewTrack
<1>5. written \in SUBSET FieldNames /\ "title" \in written
  BY <1>3
<1>6. NoName \in Names
  BY NamesAssumption
<1>7. /\ text("title", a.title) \in Names /\ text("artist", a.artist) \in Names
      /\ text("album", a.album) \in Names /\ text("genre", a.genre) \in Names
      /\ text("albumArtist", AlbumArtist(a)) \in Names
      /\ a.pid \in Nat /\ a.number \in Nat /\ a.kind \in MediaKinds
  BY <1>6, AdditionIs
<1>12. text("artist", a.artist) # NoName => "artist" \in written
  OBVIOUS
<1>13. "song" \in MediaKinds
  BY DEF MediaKinds
<1> HIDE DEF text, written, highest, new, size, albumId, ref
<1>8. highest + 1 \in Nat \ {0} /\ highest + 1 \notin TrackIds(db.tracks)
  <2>1. ~ (highest + 1 <= highest)
    BY <1>2
  <2> QED BY <1>2, <2>1
<1>14. /\ new.pid \in Nat /\ new.id \in Nat \ {0} /\ new.fields \in SUBSET FieldNames /\ new.title \in Names
       /\ new.artist \in Names /\ new.album \in Names /\ new.genre \in Names /\ new.albumArtist \in Names
       /\ new.number \in Nat /\ new.header \in Nat /\ new.kind \in MediaKinds
       /\ new.albumId \in Nat /\ new.ref \in Nat
       /\ "title" \in new.fields /\ (new.artist # NoName => "artist" \in new.fields)
  <2>1. albumId \in Nat /\ ref \in Nat
    BY <1>1 DEF albumId, ref
  <2> QED BY <1>4, <1>5, <1>7, <1>8, <1>11, <1>12, <1>13, <2>1
<1>9. new \in TrackRows
  BY <1>4, <1>14 DEF TrackRows
<1>10. new.pid = a.pid /\ new.id = highest + 1
  BY <1>4
<1> QED BY <1>8, <1>9, <1>10 DEF new

\* The tracks with one more.
LEMMA OneTrackMore ==
  ASSUME NEW tracks \in Seq(TrackRows), TracksApart(tracks), NEW new \in TrackRows,
         new.id \notin TrackIds(tracks), new.pid \notin Pids(tracks)
  PROVE  LET t == Append(tracks, new)
         IN  /\ t \in Seq(TrackRows) /\ TracksApart(t) /\ Range(t) = Range(tracks) \cup {new}
             /\ TrackIds(t) = TrackIds(tracks) \cup {new.id} /\ Pids(t) = Pids(tracks) \cup {new.pid}
<1> DEFINE t == Append(tracks, new)
           N == Len(tracks)
<1>1. N \in Nat /\ DOMAIN tracks = 1..N
  BY LenProperties
<1>2. t \in Seq(TrackRows) /\ Len(t) = N + 1 /\ t[N + 1] = new /\ \A n \in 1..N : t[n] = tracks[n]
  BY AppendProperties
<1> HIDE DEF t
<1>3. DOMAIN t = 1..(N + 1)
  BY <1>2, LenProperties
<1>4. \A n \in DOMAIN t : n = N + 1 \/ n \in 1..N
  BY <1>1, <1>3
<1>5. N + 1 \in DOMAIN t /\ \A n \in 1..N : n \in DOMAIN t
  BY <1>1, <1>3
<1>6. Range(t) = Range(tracks) \cup {new}
  BY <1>1, <1>2, <1>4, <1>5 DEF Range
<1>7. TrackIds(t) = TrackIds(tracks) \cup {new.id}
  BY <1>6 DEF TrackIds
<1>8. Pids(t) = Pids(tracks) \cup {new.pid}
  BY <1>6 DEF Pids
<1>9. \A n \in 1..N : tracks[n].id \in TrackIds(tracks) /\ tracks[n].pid \in Pids(tracks)
  BY <1>1 DEF TrackIds, Pids, Range
<1>10. ASSUME NEW i \in DOMAIN t, NEW j \in DOMAIN t, t[i].id = t[j].id \/ t[i].pid = t[j].pid PROVE i = j
  <2>1. CASE i \in 1..N /\ j \in 1..N
    BY <1>1, <1>2, <1>10, <2>1 DEF TracksApart
  <2>2. CASE i = N + 1 /\ j \in 1..N
    BY <1>2, <1>9, <1>10, <2>2
  <2>3. CASE i \in 1..N /\ j = N + 1
    BY <1>2, <1>9, <1>10, <2>3
  <2> QED BY <1>4, <2>1, <2>2, <2>3
<1>11. TracksApart(t)
  BY <1>10 DEF TracksApart
<1> QED BY <1>2, <1>6, <1>7, <1>8, <1>11 DEF t

\* rewrite_master_playlist writes a whole master.
LEMMA MasterWithIs ==
  ASSUME NEW l, WellFormedList(l), NEW tracks \in Seq(TrackRows), NEW new \in TrackRows, NEW a
  PROVE  LET m == MasterWith(l, tracks, a, new.id)
         IN  DOMAIN m = DOMAIN l /\ m.id = l.id /\ m.role = l.role /\ m.items = WholeItems(Append(tracks, new))
<1> DEFINE ids == Append([n \in DOMAIN tracks |-> tracks[n].id], new.id)
           old == [n \in DOMAIN tracks |-> tracks[n].id]
           t == Append(tracks, new)
           N == Len(tracks)
           m == MasterWith(l, tracks, a, new.id)
<1>1. N \in Nat /\ DOMAIN tracks = 1..N /\ \A n \in 1..N : tracks[n] \in TrackRows
  BY SeqFacts
<1>2. old \in [1..N -> Nat] /\ new.id \in Nat /\ \A n \in 1..N : old[n] = tracks[n].id
  BY <1>1 DEF TrackRows
<1>3. ids = Append(old, new.id)
  OBVIOUS
<1> HIDE DEF old
<1>4. old \in Seq(Nat) /\ Len(old) = N
  BY <1>1, <1>2, FunctionIsSeq
<1>5. ids \in Seq(Nat) /\ Len(ids) = N + 1 /\ ids[N + 1] = new.id /\ \A n \in 1..N : ids[n] = old[n]
  BY <1>2, <1>3, <1>4, AppendProperties
<1>6. t \in Seq(TrackRows) /\ Len(t) = N + 1 /\ t[N + 1] = new /\ \A n \in 1..N : t[n] = tracks[n]
  BY AppendProperties
<1>7. DOMAIN l = {"id", "role", "name", "items", "index"}
  BY DEF WellFormedList
<1>8. /\ DOMAIN m = DOMAIN l /\ m.id = l.id /\ m.role = l.role
      /\ m.items = [n \in DOMAIN ids |-> MemberItem(ids[n], n - 1)]
  BY <1>7 DEF MasterWith
<1> HIDE DEF ids, t, m
<1>9. DOMAIN ids = 1..(N + 1) /\ DOMAIN t = 1..(N + 1)
  BY <1>5, <1>6, LenProperties
<1>10. ASSUME NEW n \in 1..(N + 1) PROVE ids[n] = t[n].id
  <2>1. n = N + 1 \/ n \in 1..N
    BY <1>1
  <2> QED BY <1>2, <1>5, <1>6, <2>1
<1>11. [n \in DOMAIN ids |-> MemberItem(ids[n], n - 1)] = WholeItems(t)
  BY <1>9, <1>10 DEF WholeItems
<1>12. DOMAIN m = DOMAIN l /\ m.id = l.id /\ m.role = l.role /\ m.items = WholeItems(t)
  BY <1>8, <1>11
<1> QED BY <1>12 DEF m, t

\* One list of a dataset is replaced.
LEMMA OneListReplaced ==
  ASSUME NEW x, WellFormedDataset(x), 1 \in DOMAIN x.lists, NEW m
  PROVE  LET r == [x EXCEPT !.lists[1] = m]
         IN  /\ DOMAIN r = {"kind", "lists"} /\ r.kind = x.kind /\ IsSeq(r.lists) /\ DOMAIN r.lists = DOMAIN x.lists
             /\ r.lists[1] = m /\ \A k \in DOMAIN x.lists : k # 1 => r.lists[k] = x.lists[k]
<1> DEFINE r == [x EXCEPT !.lists[1] = m]
           S == Range(x.lists) \cup {m}
           lists == [x.lists EXCEPT ![1] = m]
<1>1. DOMAIN x = {"kind", "lists"} /\ IsSeq(x.lists)
  BY DEF WellFormedDataset
<1>2. DOMAIN r = {"kind", "lists"} /\ r.kind = x.kind /\ r.lists = lists
  BY <1>1
<1>3. Len(x.lists) \in Nat /\ DOMAIN x.lists = 1..Len(x.lists) /\ x.lists \in [1..Len(x.lists) -> Range(x.lists)]
  BY <1>1, ItsRange
<1>4. lists \in [1..Len(x.lists) -> S]
  BY <1>3
<1>5. lists[1] = m /\ \A k \in DOMAIN x.lists : k # 1 => lists[k] = x.lists[k]
  BY <1>3
<1> HIDE DEF lists, S, r
<1>6. IsSeq(lists) /\ DOMAIN lists = DOMAIN x.lists
  BY <1>3, <1>4, FunctionIsSeq
<1>7. /\ DOMAIN r = {"kind", "lists"} /\ r.kind = x.kind /\ IsSeq(r.lists) /\ DOMAIN r.lists = DOMAIN x.lists
      /\ r.lists[1] = m /\ \A k \in DOMAIN x.lists : k # 1 => r.lists[k] = x.lists[k]
  BY <1>2, <1>5, <1>6
<1> QED BY <1>7 DEF r

\* The album table has at most one row more.
LEMMA AlbumsWithIs ==
  ASSUME NEW db, WellFormed(db), NEW a \in AdditionRows
  PROVE  AlbumsWith(db.albums, a) \in Seq(AlbumRows)
<1>1. db.albums \in Seq(AlbumRows)
  BY DEF WellFormed
<1>2. AlbumIdFor(db.albums, a) \in Nat
  BY LinksAreNats
<1>3. [id |-> AlbumIdFor(db.albums, a), name |-> a.album, artist |-> AlbumArtist(a)] \in AlbumRows
  BY <1>2, AdditionIs DEF AlbumRows
<1> QED BY <1>1, <1>3, AppendProperties DEF AlbumsWith

\* add_track leaves a sound database.
LEMMA AddedIsSound ==
  ASSUME NEW db, NEW file, Openable(db, file), NEW a \in AdditionRows, a.pid \notin Pids(db.tracks)
  PROVE  Openable(AddedTrack(db, file, a), file)
<1> DEFINE d == AddedTrack(db, file, a)
           new == NewTrack(db, file, a)
           t == Append(db.tracks, new)
           M == MasterDatasets(db, file)
           Master(n) == MasterWith(db.datasets[n].lists[1], db.tracks, a, new.id)
           Put(n) == IF n \in M THEN [db.datasets[n] EXCEPT !.lists[1] = Master(n)] ELSE db.datasets[n]
           sets == [n \in DOMAIN db.datasets |-> Put(n)]
           S == {Put(n) : n \in DOMAIN db.datasets}
<1>1. SoundDatabase(db, file) /\ WellFormed(db) /\ MembersKnown(db)
  BY DEF Openable, SoundDatabase
<1>2. /\ DOMAIN db = {"tracks", "albums", "datasets", "count", "version"} /\ db.tracks \in Seq(TrackRows)
      /\ db.albums \in Seq(AlbumRows) /\ IsSeq(db.datasets) /\ db.version \in Nat
  BY <1>1 DEF WellFormed
<1>3. new \in TrackRows /\ new.pid = a.pid /\ new.id \notin TrackIds(db.tracks)
  BY <1>1, NewTrackIs
<1>4. /\ DOMAIN d = {"tracks", "albums", "datasets", "count", "version"} /\ d.tracks = t
      /\ d.albums = AlbumsWith(db.albums, a) /\ d.version \in Nat
  BY <1>2 DEF AddedTrack
<1>5. d.datasets = sets
  BY <1>2 DEF AddedTrack, WithMaster
<1> HIDE DEF new, d
<1>6. /\ t \in Seq(TrackRows) /\ TracksApart(t) /\ TrackIds(t) = TrackIds(db.tracks) \cup {new.id}
  <2>1. TracksApart(db.tracks)
    BY <1>1 DEF MembersKnown
  <2> QED BY <1>2, <1>3, <2>1, OneTrackMore
<1> HIDE DEF t
<1>7. ASSUME NEW n \in M
      PROVE  /\ n \in DOMAIN db.datasets /\ 1 \in DOMAIN db.datasets[n].lists
             /\ db.datasets[n].lists[1].role = "master"
  BY <1>1, MasterItems
<1>8. sets \in [1..Len(db.datasets) -> S] /\ Len(db.datasets) \in Nat /\ DOMAIN db.datasets = 1..Len(db.datasets)
  BY <1>2, ItsRange
<1>9. \A n \in DOMAIN db.datasets : sets[n] = Put(n)
  OBVIOUS
<1> HIDE DEF sets, S, Master, Put, M
<1>10. IsSeq(d.datasets) /\ DOMAIN d.datasets = DOMAIN db.datasets
  BY <1>5, <1>8, FunctionIsSeq
<1>11. ASSUME NEW n \in DOMAIN db.datasets
       PROVE  /\ DOMAIN d.datasets[n] = {"kind", "lists"} /\ d.datasets[n].kind = db.datasets[n].kind
              /\ IsSeq(d.datasets[n].lists) /\ DOMAIN d.datasets[n].lists = DOMAIN db.datasets[n].lists
              /\ n \in M => d.datasets[n].lists[1] = Master(n)
              /\ \A k \in DOMAIN db.datasets[n].lists :
                   n \notin M \/ k # 1 => d.datasets[n].lists[k] = db.datasets[n].lists[k]
  <2>1. WellFormedDataset(db.datasets[n]) /\ d.datasets[n] = Put(n)
    BY <1>1, <1>5, <1>9, DatasetFacts
  <2>2. CASE n \in M
    <3> DEFINE r == [db.datasets[n] EXCEPT !.lists[1] = Master(n)]
    <3>1. r = Put(n) /\ 1 \in DOMAIN db.datasets[n].lists
      BY <1>7, <2>2 DEF Put
    <3>2. /\ DOMAIN r = {"kind", "lists"} /\ r.kind = db.datasets[n].kind /\ IsSeq(r.lists)
          /\ DOMAIN r.lists = DOMAIN db.datasets[n].lists
          /\ r.lists[1] = Master(n) /\ \A k \in DOMAIN db.datasets[n].lists : k # 1 => r.lists[k] = db.datasets[n].lists[k]
      BY <2>1, <3>1, OneListReplaced
    <3> HIDE DEF r
    <3> QED BY <2>1, <2>2, <3>1, <3>2
  <2>3. CASE n \notin M
    <3>1. d.datasets[n] = db.datasets[n]
      BY <2>1, <2>3 DEF Put
    <3> QED BY <2>1, <2>3, <3>1 DEF WellFormedDataset
  <2> QED BY <2>2, <2>3
<1>12. ASSUME NEW n \in M
       PROVE  LET m == Master(n)
                  l == db.datasets[n].lists[1]
              IN  DOMAIN m = DOMAIN l /\ m.id = l.id /\ m.role = l.role /\ m.items = WholeItems(t) /\ WellFormedList(l)
  <2>1. WellFormedList(db.datasets[n].lists[1])
    BY <1>1, <1>7, DatasetFacts
  <2> QED BY <1>2, <1>3, <2>1, MasterWithIs DEF Master, t
<1>13. Rewritten(db, d)
  <2>1. ASSUME NEW n \in DOMAIN db.datasets, NEW k \in DOMAIN db.datasets[n].lists
        PROVE  /\ d.datasets[n].lists[k].id = db.datasets[n].lists[k].id
               /\ d.datasets[n].lists[k].role = db.datasets[n].lists[k].role
    <3>1. CASE n \in M /\ k = 1
      BY <1>11, <1>12, <3>1
    <3>2. CASE n \notin M \/ k # 1
      BY <1>11, <3>2
    <3> QED BY <3>1, <3>2
  <2> QED BY <1>10, <1>11, <2>1 DEF Rewritten
<1>14. ListsKnown(d)
  <2>1. SUFFICES ASSUME NEW n \in DOMAIN db.datasets, NEW k \in DOMAIN db.datasets[n].lists
                 PROVE  /\ WellFormedList(d.datasets[n].lists[k])
                        /\ ItemsKnown(d.datasets[n].lists[k], TrackIds(d.tracks))
    BY <1>10, <1>11 DEF ListsKnown
  <2>2. CASE n \in M /\ k = 1
    <3> DEFINE m == Master(n)
    <3>1. /\ DOMAIN m = DOMAIN db.datasets[n].lists[1] /\ m.role = "master" /\ m.items = WholeItems(t)
          /\ WellFormedList(db.datasets[n].lists[1])
      BY <1>7, <1>12, <2>2
    <3> HIDE DEF m
    <3>2. ItemRecords(WholeItems(t)) /\ DOMAIN WholeItems(t) = DOMAIN t
          /\ \A i \in DOMAIN t : WholeItems(t)[i].track = t[i].id
      BY <1>6, WholeItemsAre
    <3>3. WellFormedList(m)
      BY <3>1, <3>2 DEF WellFormedList, ItemRecords
    <3>4. ItemsKnown(m, TrackIds(t))
      BY <3>1, <3>2 DEF ItemsKnown, TrackIds, Range
    <3>5. d.datasets[n].lists[k] = m
      BY <1>11, <2>2 DEF m
    <3> QED BY <1>4, <3>3, <3>4, <3>5
  <2>3. CASE n \notin M \/ k # 1
    <3>1. d.datasets[n].lists[k] = db.datasets[n].lists[k]
      BY <1>11, <2>3
    <3>2. WellFormedList(db.datasets[n].lists[k]) /\ ItemsKnown(db.datasets[n].lists[k], TrackIds(db.tracks))
      BY <1>1, DatasetFacts, ListFacts
    <3>3. TrackIds(db.tracks) \subseteq TrackIds(d.tracks)
      BY <1>4, <1>6
    <3> QED BY <3>1, <3>2, <3>3 DEF ItemsKnown
  <2> QED BY <2>2, <2>3
<1>15. SameRewrites(db, d)
  <2>1. SUFFICES ASSUME NEW n \in DOMAIN db.datasets, NEW i \in DOMAIN db.datasets,
                        NEW k \in DOMAIN db.datasets[n].lists, NEW j \in DOMAIN db.datasets[i].lists,
                        db.datasets[n].lists[k] = db.datasets[i].lists[j], db.datasets[n].lists[k].role = "list"
                 PROVE  d.datasets[n].lists[k] = d.datasets[i].lists[j]
    BY DEF SameRewrites
  <2>2. ~ (n \in M /\ k = 1) /\ ~ (i \in M /\ j = 1)
    BY <1>7, <2>1
  <2>3. d.datasets[n].lists[k] = db.datasets[n].lists[k] /\ d.datasets[i].lists[j] = db.datasets[i].lists[j]
    BY <1>11, <2>2
  <2> QED BY <2>1, <2>3
<1>16. MastersWhole(d, file)
  <2>1. ASSUME NEW n \in MasterDatasets(d, file) PROVE d.datasets[n].lists[1].items = WholeItems(d.tracks)
    <3>1. n \in M
      BY <1>13, SameMasters DEF M
    <3>2. n \in DOMAIN db.datasets
      BY <1>7, <3>1
    <3> QED BY <1>4, <1>11, <1>12, <3>1, <3>2
  <2> QED BY <2>1 DEF MastersWhole, Masters, WholeItems
<1>17. d.albums \in Seq(AlbumRows)
  BY <1>1, <1>4, AlbumsWithIs
<1>18. d.tracks \in Seq(TrackRows) /\ TracksApart(d.tracks)
  BY <1>4, <1>6
<1>19. Openable(d, file)
  BY <1>4, <1>13, <1>14, <1>15, <1>16, <1>17, <1>18, PointwiseSound
<1> QED BY <1>19 DEF d

------------------------------------------------------------------------------
(* The datasets of a Classic, whatever their order. *)

ListsOf(D, kinds) == UNION {Range(d.lists) : d \in {x \in D : x.kind \in kinds}}
IdsOf(U) == {l.id : l \in U}

\* A dataset of sound lists that begins with a whole master.
SoundDataset(d, tracks) ==
  /\ WellFormedDataset(d) /\ \A l \in Range(d.lists) : ItemsKnown(l, TrackIds(tracks))
  /\ d.kind \in {2, 3} => /\ 1 \in DOMAIN d.lists /\ d.lists[1].role = "master"
                          /\ d.lists[1].items = WholeItems(tracks)

\* An id is of one kind of list, and of one ordinary list.
Clear(U) ==
  /\ \A l, m \in U : l.id = m.id => l.role = m.role
  /\ \A l, m \in U : l.id = m.id /\ l.role = "list" => l = m
  /\ Drawn(U, PodcastId)

SoundSet(D, tracks) ==
  /\ \A d \in D : SoundDataset(d, tracks)
  /\ Clear(ListsOf(D, {2, 3}))
  /\ {2, 3} \subseteq {d.kind : d \in D} => IdsOf(ListsOf(D, {2})) = IdsOf(ListsOf(D, {3}))

\* The records of a database beside its datasets.
SoundRecords(db) ==
  /\ DOMAIN db = {"tracks", "albums", "datasets", "count", "version"} /\ db.tracks \in Seq(TrackRows)
  /\ db.albums \in Seq(AlbumRows) /\ TracksApart(db.tracks) /\ IsSeq(db.datasets) /\ db.version \in Nat

\* The lists of a set of datasets.
LEMMA ListsOfIs ==
  ASSUME NEW D, NEW kinds
  PROVE  \A l : l \in ListsOf(D, kinds) <=> \E d \in D : d.kind \in kinds /\ l \in Range(d.lists)
BY DEF ListsOf

\* The masters of a Classic are those of both universes.
LEMMA ClassicMasters ==
  ASSUME NEW db
  PROVE  MasterDatasets(db, "iTunesDB") = {n \in DOMAIN db.datasets : db.datasets[n].kind \in {2, 3}}
BY DEF MasterDatasets

\* A Classic may be opened if its records and its set of datasets are sound.
LEMMA ClassicOpenable ==
  ASSUME NEW db, SoundRecords(db), SoundSet(Range(db.datasets), db.tracks)
  PROVE  Openable(db, "iTunesDB")
<1> DEFINE D == Range(db.datasets)
<1>1. IsSeq(db.datasets) /\ \A d : d \in D <=> \E n \in DOMAIN db.datasets : d = db.datasets[n]
  BY ItsRange DEF SoundRecords
<1>2. \A d \in D : SoundDataset(d, db.tracks)
  BY DEF SoundSet
<1>3. \A kinds : Universe(db, kinds) = ListsOf(D, kinds)
  BY DEF Universe, ListsOf
<1>4. Kinds(db) = {d.kind : d \in D}
  BY <1>1 DEF Kinds
<1> HIDE DEF D
<1>5. WellFormed(db)
  BY <1>1, <1>2 DEF WellFormed, SoundDataset, SoundRecords, D
<1>6. MembersKnown(db)
  <2>1. ASSUME NEW l \in Universe(db, {2, 3, 5}) PROVE ItemsKnown(l, TrackIds(db.tracks))
    <3>1. PICK d \in D : l \in Range(d.lists)
      BY <1>3, ListsOfIs
    <3> QED BY <1>2, <3>1 DEF SoundDataset
  <2> QED BY <2>1 DEF MembersKnown, SoundRecords
<1>7. Clear(Universe(db, {2, 3}))
  BY <1>3 DEF SoundSet, D
<1>8. UniversesEqual(db)
  <2>1. {2, 3} \subseteq Kinds(db) => IdsOf(Universe(db, {2})) = IdsOf(Universe(db, {3}))
    BY <1>3, <1>4 DEF SoundSet, D
  <2> QED BY <1>7, <2>1 DEF UniversesEqual, Clear, IdsOf
<1>9. ASSUME NEW n \in MasterDatasets(db, "iTunesDB")
      PROVE  /\ 1 \in DOMAIN db.datasets[n].lists /\ db.datasets[n].lists[1].role = "master"
             /\ db.datasets[n].lists[1].items = WholeItems(db.tracks)
  <2>1. n \in DOMAIN db.datasets /\ db.datasets[n].kind \in {2, 3}
    BY ClassicMasters
  <2>2. SoundDataset(db.datasets[n], db.tracks)
    BY <1>1, <1>2, <2>1
  <2> QED BY <2>1, <2>2 DEF SoundDataset
<1>10. RolesClear(db, "iTunesDB")
  <2>1. ASSUME NEW n \in MasterDatasets(db, "iTunesDB") PROVE db.datasets[n].lists # <<>>
    BY <1>9
  <2> QED BY <1>7, <1>9, <2>1 DEF RolesClear, Clear
<1>11. MastersWhole(db, "iTunesDB")
  BY <1>9 DEF MastersWhole, Masters, WholeItems
<1>12. Drawn(Universe(db, {2, 3}), PodcastId)
  BY <1>7 DEF Clear
<1> QED BY <1>5, <1>6, <1>8, <1>10, <1>11, <1>12 DEF Openable, SoundDatabase

\* And they are sound if it may be opened.
LEMMA ClassicOpened ==
  ASSUME NEW db, Openable(db, "iTunesDB")
  PROVE  SoundRecords(db) /\ SoundSet(Range(db.datasets), db.tracks)
<1> DEFINE D == Range(db.datasets)
<1>0. /\ SoundDatabase(db, "iTunesDB") /\ WellFormed(db) /\ MembersKnown(db) /\ UniversesEqual(db)
      /\ RolesClear(db, "iTunesDB") /\ Drawn(Universe(db, {2, 3}), PodcastId)
  BY DEF Openable, SoundDatabase
<1>1. SoundRecords(db)
  BY <1>0 DEF SoundRecords, WellFormed, MembersKnown
<1>2. \A d : d \in D <=> \E n \in DOMAIN db.datasets : d = db.datasets[n]
  BY <1>1, ItsRange DEF SoundRecords
<1>3. \A kinds : Universe(db, kinds) = ListsOf(D, kinds)
  BY DEF Universe, ListsOf
<1>4. Kinds(db) = {d.kind : d \in D}
  BY <1>2 DEF Kinds
<1>5. ASSUME NEW n \in DOMAIN db.datasets PROVE SoundDataset(db.datasets[n], db.tracks)
  <2> DEFINE d == db.datasets[n]
  <2>1. WellFormedDataset(d)
    BY <1>0, DatasetFacts
  <2>2. ASSUME NEW l \in Range(d.lists) PROVE ItemsKnown(l, TrackIds(db.tracks))
    <3>1. PICK k \in DOMAIN d.lists : l = d.lists[k]
      BY <2>1, ItsRange DEF WellFormedDataset
    <3> QED BY <1>0, <3>1, ListFacts
  <2>3. ASSUME d.kind \in {2, 3}
        PROVE  1 \in DOMAIN d.lists /\ d.lists[1].role = "master" /\ d.lists[1].items = WholeItems(db.tracks)
    <3>1. n \in MasterDatasets(db, "iTunesDB")
      BY <2>3, ClassicMasters
    <3> QED BY <1>0, <3>1, MasterItems
  <2> QED BY <2>1, <2>2, <2>3 DEF SoundDataset
<1>6. \A d \in D : SoundDataset(d, db.tracks)
  BY <1>2, <1>5
<1> HIDE DEF D
<1>7. Clear(ListsOf(D, {2, 3}))
  BY <1>0, <1>3 DEF Clear, RolesClear, UniversesEqual
<1>8. {2, 3} \subseteq {d.kind : d \in D} => IdsOf(ListsOf(D, {2})) = IdsOf(ListsOf(D, {3}))
  BY <1>0, <1>3, <1>4 DEF UniversesEqual, IdsOf
<1> QED BY <1>1, <1>6, <1>7, <1>8 DEF SoundSet, D

------------------------------------------------------------------------------
(* Playlist edits. *)

\* The edits that create are put in the order of their ids, each once.
LEMMA CreationsAre ==
  ASSUME NEW queue, SoundEdits(queue)
  PROVE  /\ IsSeq(Creations(queue))
         /\ Range(Creations(queue)) = {e \in queue : e.op = "create"}
<1> DEFINE new == {e \in queue : e.op = "create"}
           N == Cardinality(new)
           Lower(e) == {f \in new : f.id < e.id}
           rank == [e \in new |-> Cardinality(Lower(e))]
           c == [n \in 1..N |-> CHOOSE e \in new : Cardinality(Lower(e)) = n - 1]
<1>1. IsFiniteSet(new) /\ N \in Nat
  <2>1. IsFiniteSet(queue) /\ new \in SUBSET queue
    BY DEF SoundEdits
  <2> HIDE DEF new
  <2> QED BY <2>1, CountIsNat
<1>2. (\A e \in new : e.id \in Nat) /\ (\A e, f \in new : e.id = f.id => e = f)
  BY DEF SoundEdits
<1>3. Creations(queue) = c
  BY DEF Creations
<1> HIDE DEF new
<1>4. ASSUME NEW e \in new PROVE Cardinality(Lower(e)) \in 0..(N - 1) /\ IsFiniteSet(Lower(e))
  <2> DEFINE L == Lower(e)
  <2>1. L \in SUBSET (new \ {e})
    BY <1>2
  <2>2. IsFiniteSet(new \ {e}) /\ Cardinality(new \ {e}) = N - 1
    BY <1>1, FS_RemoveElement
  <2> HIDE DEF L
  <2>3. IsFiniteSet(L) /\ Cardinality(L) <= N - 1
    BY <2>1, <2>2, FS_Subset
  <2>4. Cardinality(L) \in Nat
    BY <2>3, FS_CardinalityType
  <2>5. Cardinality(L) \in 0..(N - 1)
    BY <1>1, <2>3, <2>4
  <2> QED BY <2>3, <2>5 DEF L
<1>5. ASSUME NEW e \in new, NEW f \in new, e.id < f.id PROVE Cardinality(Lower(e)) < Cardinality(Lower(f))
  <2> DEFINE L == Lower(e)
             K == Lower(f)
  <2>1. L \in SUBSET (K \ {e}) /\ e \in K
    BY <1>2, <1>5
  <2>0. IsFiniteSet(K) /\ Cardinality(K) \in 0..(N - 1) /\ Cardinality(L) \in 0..(N - 1)
    BY <1>4
  <2> HIDE DEF L, K
  <2>2. IsFiniteSet(K) /\ Cardinality(K) \in Nat /\ Cardinality(L) \in Nat
    BY <1>1, <2>0
  <2>3. IsFiniteSet(K \ {e}) /\ Cardinality(K \ {e}) = Cardinality(K) - 1
    BY <2>1, <2>2, FS_RemoveElement
  <2>4. Cardinality(L) <= Cardinality(K) - 1
    BY <2>1, <2>3, FS_Subset
  <2>5. Cardinality(L) < Cardinality(K)
    BY <2>2, <2>4
  <2> QED BY <2>5 DEF L, K
<1>6. rank \in [new -> 0..(N - 1)] /\ \A e \in new : rank[e] = Cardinality(Lower(e))
  BY <1>4
<1>7. ASSUME NEW e \in new, NEW f \in new, rank[e] = rank[f] PROVE e = f
  <2>1. rank[e] \in Nat /\ rank[f] \in Nat /\ e.id \in Nat /\ f.id \in Nat
    BY <1>1, <1>2, <1>6
  <2>4. Cardinality(Lower(e)) = rank[e] /\ Cardinality(Lower(f)) = rank[e]
    BY <1>6, <1>7
  <2> HIDE DEF Lower, rank
  <2>5. ~ (e.id < f.id)
    BY <1>5, <2>1, <2>4
  <2>6. ~ (f.id < e.id)
    BY <1>5, <2>1, <2>4
  <2>2. ~ (e.id < f.id) /\ ~ (f.id < e.id)
    BY <2>5, <2>6
  <2>3. e.id = f.id
    BY <2>1, <2>2
  <2> QED BY <1>2, <2>3
<1> HIDE DEF rank, Lower
<1>8. rank \in Injection(new, 0..(N - 1))
  BY <1>6, <1>7 DEF Injection, IsInjective
<1>9. IsFiniteSet(0..(N - 1)) /\ Cardinality(0..(N - 1)) = N
  <2>1. 0 \in Int /\ N - 1 \in Int
    BY <1>1
  <2>2. Cardinality(0..(N - 1)) = IF 0 > N - 1 THEN 0 ELSE N - 1 - 0 + 1
    BY <2>1, FS_Interval
  <2> QED BY <1>1, <2>1, <2>2, FS_Interval
<1>10. rank \in Surjection(new, 0..(N - 1))
  BY <1>8, <1>9, FS_Injection
<1>11. ASSUME NEW n \in 1..N PROVE c[n] \in new /\ rank[c[n]] = n - 1
  <2>1. n - 1 \in 0..(N - 1)
    BY <1>1
  <2>2. PICK e \in new : rank[e] = n - 1
    BY <1>10, <2>1 DEF Surjection
  <2>3. Cardinality(Lower(e)) = n - 1
    BY <1>6, <2>2
  <2>4. c[n] = CHOOSE x \in new : Cardinality(Lower(x)) = n - 1
    OBVIOUS
  <2>5. c[n] \in new /\ Cardinality(Lower(c[n])) = n - 1
    BY <2>3, <2>4
  <2> QED BY <1>6, <2>5
<1>12. c \in [1..N -> new]
  BY <1>11
<1>13. ASSUME NEW e \in new PROVE \E n \in 1..N : c[n] = e
  <2>1. rank[e] \in 0..(N - 1)
    BY <1>6
  <2>2. rank[e] + 1 \in 1..N /\ (rank[e] + 1) - 1 = rank[e]
    BY <1>1, <2>1
  <2>3. c[rank[e] + 1] \in new /\ rank[c[rank[e] + 1]] = rank[e]
    BY <1>11, <2>2
  <2>4. c[rank[e] + 1] = e
    BY <1>7, <2>3
  <2> QED BY <2>2, <2>4
<1> HIDE DEF c
<1>14. IsSeq(c) /\ DOMAIN c = 1..N
  BY <1>1, <1>12, FunctionIsSeq
<1>15. Range(c) = new
  BY <1>12, <1>13, <1>14 DEF Range
<1> QED BY <1>3, <1>14, <1>15 DEF new

\* The items of a member list are those of its tracks, numbered from 0.
LEMMA ItemsAre ==
  ASSUME NEW pids \in Seq(Nat), NEW tracks, tracks \in Seq(TrackRows), Range(pids) \subseteq Pids(tracks)
  PROVE  LET items == Items(pids, tracks)
         IN  /\ ItemRecords(items) /\ Counted(items) /\ DOMAIN items = DOMAIN pids
             /\ \A n \in DOMAIN items : items[n].track \in TrackIds(tracks)
<1> DEFINE Of(n) == CHOOSE t \in Range(tracks) : t.pid = pids[n]
           S == {MemberItem(Of(n).id, n - 1) : n \in DOMAIN pids}
           items == Items(pids, tracks)
<1>1. Len(pids) \in Nat /\ DOMAIN pids = 1..Len(pids)
  BY LenProperties
<1>2. ASSUME NEW n \in DOMAIN pids PROVE Of(n) \in Range(tracks)
  <2>1. pids[n] \in Pids(tracks)
    BY DEF Range
  <2>2. \E t \in Range(tracks) : t.pid = pids[n]
    BY <2>1 DEF Pids
  <2> QED BY <2>2
<1>3. items = [n \in DOMAIN pids |-> MemberItem(Of(n).id, n - 1)]
  BY DEF Items
<1> HIDE DEF Of, items
<1>4. items \in [1..Len(pids) -> S] /\ \A n \in DOMAIN pids : items[n] = MemberItem(Of(n).id, n - 1)
  BY <1>1, <1>3
<1> HIDE DEF S
<1>5. IsSeq(items) /\ DOMAIN items = DOMAIN pids
  BY <1>1, <1>4, FunctionIsSeq
<1>6. ASSUME NEW n \in DOMAIN pids
      PROVE  /\ items[n].track \in TrackIds(tracks) /\ items[n].position = n - 1
             /\ DOMAIN items[n] = {"track", "position", "gid", "group"}
  <2>1. /\ MemberItem(Of(n).id, n - 1).track = Of(n).id /\ MemberItem(Of(n).id, n - 1).position = n - 1
        /\ DOMAIN MemberItem(Of(n).id, n - 1) = {"track", "position", "gid", "group"}
    BY DEF MemberItem
  <2>2. Of(n).id \in TrackIds(tracks)
    BY <1>2 DEF TrackIds
  <2> QED BY <1>4, <2>1, <2>2
<1> QED BY <1>5, <1>6 DEF ItemRecords, Counted, items

\* What a queue of edits may do to a database.
QueueFits(queue, tracks) ==
  /\ SoundEdits(queue) /\ tracks \in Seq(TrackRows)
  /\ \A e \in queue : e.op \in {"create", "update"} => Range(e.members) \subseteq Pids(tracks)
  /\ \A e \in queue : e.op = "create" => e.id # PodcastId

\* Only an ordinary list is edited.
OnlyLists(l, queue) == \A e \in queue : e.id = l.id /\ e.op # "create" => l.role = "list"

\* An edited list is still sound, the same list, and another one is left alone.
LEMMA EditedListIs ==
  ASSUME NEW queue, NEW tracks, QueueFits(queue, tracks), NEW l, WellFormedList(l), ItemsKnown(l, TrackIds(tracks)),
         OnlyLists(l, queue)
  PROVE  LET m == EditedList(l, queue, tracks)
         IN  /\ WellFormedList(m) /\ ItemsKnown(m, TrackIds(tracks)) /\ m.id = l.id /\ m.role = l.role
             /\ l.role # "list" => m = l
<1> DEFINE of(op) == {e \in queue : e.id = l.id /\ e.op = op}
           m == EditedList(l, queue, tracks)
           named == CHOOSE e \in of("rename") : TRUE
           updated == CHOOSE e \in of("update") : TRUE
<1>1. m = IF of("rename") # {} THEN [l EXCEPT !.name = named.name]
          ELSE IF of("update") # {} THEN [l EXCEPT !.items = Items(updated.members, tracks)] ELSE l
  BY DEF EditedList
<1>2. DOMAIN l = {"id", "role", "name", "items", "index"}
  BY DEF WellFormedList
<1>3. of("rename") # {} \/ of("update") # {} => l.role = "list"
  BY DEF OnlyLists
<1>4. CASE of("rename") # {}
  <2>1. m = [l EXCEPT !.name = named.name]
    BY <1>1, <1>4
  <2> HIDE DEF m, named, of
  <2>2. DOMAIN m = DOMAIN l /\ m.id = l.id /\ m.role = l.role /\ m.items = l.items
    BY <1>2, <2>1
  <2>3. WellFormedList(m) /\ ItemsKnown(m, TrackIds(tracks))
    BY <2>2 DEF WellFormedList, ItemsKnown
  <2> QED BY <1>3, <1>4, <2>2, <2>3 DEF m
<1>5. CASE of("rename") = {} /\ of("update") # {}
  <2> DEFINE items == Items(updated.members, tracks)
  <2>1. m = [l EXCEPT !.items = items]
    BY <1>1, <1>5
  <2>2. updated \in of("update")
    BY <1>5
  <2>3. updated \in queue /\ updated.op = "update"
    BY <2>2
  <2>4. updated.members \in Seq(Nat) /\ Range(updated.members) \subseteq Pids(tracks) /\ tracks \in Seq(TrackRows)
    BY <2>3 DEF QueueFits, SoundEdits
  <2> HIDE DEF m, updated, of
  <2>5. /\ ItemRecords(items) /\ Counted(items) /\ \A n \in DOMAIN items : items[n].track \in TrackIds(tracks)
    BY <2>4, ItemsAre
  <2> HIDE DEF items
  <2>6. DOMAIN m = DOMAIN l /\ m.id = l.id /\ m.role = l.role /\ m.items = items
    BY <1>2, <2>1
  <2>7. WellFormedList(m)
    BY <2>5, <2>6 DEF WellFormedList, ItemRecords
  <2>8. ItemsKnown(m, TrackIds(tracks))
    BY <2>5, <2>6 DEF ItemsKnown, Counted
  <2> QED BY <1>3, <1>5, <2>6, <2>7, <2>8 DEF m
<1>6. CASE of("rename") = {} /\ of("update") = {}
  <2>1. m = l
    BY <1>1, <1>6
  <2> QED BY <2>1
<1> QED BY <1>4, <1>5, <1>6

\* A created list is sound.
LEMMA CreatedListIs ==
  ASSUME NEW queue, NEW tracks, QueueFits(queue, tracks), NEW e \in queue, e.op = "create"
  PROVE  LET m == CreatedList(e, tracks)
         IN  WellFormedList(m) /\ ItemsKnown(m, TrackIds(tracks)) /\ m.id = e.id /\ m.role = "list"
<1> DEFINE m == CreatedList(e, tracks)
           items == Items(e.members, tracks)
<1>1. e.members \in Seq(Nat) /\ Range(e.members) \subseteq Pids(tracks) /\ tracks \in Seq(TrackRows)
  BY DEF QueueFits, SoundEdits
<1>2. ItemRecords(items) /\ Counted(items) /\ \A n \in DOMAIN items : items[n].track \in TrackIds(tracks)
  BY <1>1, ItemsAre
<1>3. DOMAIN m = {"id", "role", "name", "items", "index"} /\ m.id = e.id /\ m.role = "list" /\ m.items = items
  BY DEF CreatedList
<1> HIDE DEF items, m
<1>4. WellFormedList(m)
  BY <1>2, <1>3 DEF WellFormedList, ItemRecords
<1>5. ItemsKnown(m, TrackIds(tracks))
  BY <1>2, <1>3 DEF ItemsKnown, Counted
<1> QED BY <1>3, <1>4, <1>5 DEF m

\* The first element stays the first if it stays.
LEMMA FirstSelected ==
  ASSUME NEW S, NEW s \in Seq(S), NEW P \in SUBSET (1..Len(s)), 1 \in P
  PROVE  1 \in DOMAIN Selected(s, P) /\ Selected(s, P)[1] = s[1]
<1> DEFINE t == Selected(s, P)
<1>1. t \in Seq(S) /\ \E pos : Places(s, P, t, pos)
  BY SelectedPlaces
<1>2. PICK pos : Places(s, P, t, pos)
  BY <1>1
<1> HIDE DEF t
<1>3. Len(t) \in Nat /\ DOMAIN t = 1..Len(t) /\ Len(s) \in Nat
  BY <1>1, LenProperties
<1>4. PICK k \in 1..Len(t) : pos[k] = 1
  BY <1>2 DEF Places
<1>5. 1 \in 1..Len(t)
  BY <1>3, <1>4
<1>6. pos[1] \in P /\ t[1] = s[pos[1]]
  BY <1>2, <1>5 DEF Places
<1>7. pos[1] \in 1..Len(s)
  BY <1>6
<1>8. k = 1
  <2>1. SUFFICES ASSUME k # 1 PROVE FALSE
    OBVIOUS
  <2>2. 1 < k
    BY <1>3, <2>1
  <2>3. pos[1] < pos[k]
    BY <1>2, <1>5, <2>2 DEF Places
  <2> QED BY <1>4, <1>7, <2>3
<1> QED BY <1>3, <1>4, <1>5, <1>6, <1>8 DEF t

\* What Selected returns has the elements at the places.
LEMMA SelectedRange ==
  ASSUME NEW S, NEW s \in Seq(S), NEW P \in SUBSET (1..Len(s))
  PROVE  /\ Selected(s, P) \in Seq(S) /\ \A x : x \in Range(Selected(s, P)) <=> \E n \in P : x = s[n]
<1> DEFINE t == Selected(s, P)
<1>1. t \in Seq(S) /\ \E pos : Places(s, P, t, pos)
  BY SelectedPlaces
<1>2. PICK pos : Places(s, P, t, pos)
  BY <1>1
<1> HIDE DEF t
<1>3. DOMAIN t = 1..Len(t)
  BY <1>1, LenProperties
<1>4. \A x : x \in Range(t) <=> \E k \in 1..Len(t) : x = t[k]
  BY <1>3 DEF Range
<1>5. /\ \A k \in 1..Len(t) : pos[k] \in P /\ t[k] = s[pos[k]]
      /\ \A i \in P : \E k \in 1..Len(t) : pos[k] = i
  BY <1>2 DEF Places
<1>6. ASSUME NEW x, x \in Range(t) PROVE \E n \in P : x = s[n]
  <2>1. PICK k \in 1..Len(t) : x = t[k]
    BY <1>4, <1>6
  <2> QED BY <1>5, <2>1
<1>7. ASSUME NEW n \in P PROVE s[n] \in Range(t)
  <2>1. PICK k \in 1..Len(t) : pos[k] = n
    BY <1>5
  <2>2. t[k] = s[n]
    BY <1>5, <2>1
  <2> QED BY <1>4, <2>2
<1>8. \A x : x \in Range(t) <=> \E n \in P : x = s[n]
  BY <1>6, <1>7
<1> QED BY <1>1, <1>8 DEF t

\* Two sequences one after the other.
LEMMA JoinedIs ==
  ASSUME NEW S, NEW s \in Seq(S), NEW t \in Seq(S)
  PROVE  /\ s \o t \in Seq(S) /\ \A x : x \in Range(s \o t) <=> x \in Range(s) \/ x \in Range(t)
         /\ 1 \in DOMAIN s => 1 \in DOMAIN (s \o t) /\ (s \o t)[1] = s[1]
<1> DEFINE u == s \o t
           m == Len(s)
           n == Len(t)
<1>1. /\ u \in Seq(S) /\ Len(u) = m + n
      /\ \A i \in 1..(m + n) : u[i] = IF i <= m THEN s[i] ELSE t[i - m]
  BY ConcatProperties
<1>2. m \in Nat /\ n \in Nat /\ DOMAIN s = 1..m /\ DOMAIN t = 1..n /\ DOMAIN u = 1..(m + n)
  BY <1>1, LenProperties
<1>3. /\ \A x : x \in Range(s) <=> \E i \in 1..m : x = s[i]
      /\ \A x : x \in Range(t) <=> \E i \in 1..n : x = t[i]
      /\ \A x : x \in Range(u) <=> \E i \in 1..(m + n) : x = u[i]
  BY <1>2 DEF Range
<1> HIDE DEF u, m, n
<1>4. ASSUME NEW x, x \in Range(u) PROVE x \in Range(s) \/ x \in Range(t)
  <2>1. PICK i \in 1..(m + n) : x = u[i]
    BY <1>3, <1>4
  <2>2. CASE i <= m
    <3>1. i \in 1..m /\ x = s[i]
      BY <1>1, <1>2, <2>1, <2>2
    <3> QED BY <1>3, <3>1
  <2>3. CASE ~(i <= m)
    <3>1. i - m \in 1..n /\ x = t[i - m]
      BY <1>1, <1>2, <2>1, <2>3
    <3> QED BY <1>3, <3>1
  <2> QED BY <2>2, <2>3
<1>5. ASSUME NEW x, x \in Range(s) PROVE x \in Range(u)
  <2>1. PICK i \in 1..m : x = s[i]
    BY <1>3, <1>5
  <2>2. i \in 1..(m + n) /\ u[i] = s[i]
    BY <1>1, <1>2
  <2> QED BY <1>3, <2>1, <2>2
<1>6. ASSUME NEW x, x \in Range(t) PROVE x \in Range(u)
  <2>1. PICK i \in 1..n : x = t[i]
    BY <1>3, <1>6
  <2>2. i + m \in 1..(m + n) /\ ~(i + m <= m) /\ (i + m) - m = i
    BY <1>2
  <2>3. u[i + m] = t[i]
    BY <1>1, <2>2
  <2> QED BY <1>3, <2>1, <2>2, <2>3
<1>7. ASSUME 1 \in DOMAIN s PROVE 1 \in DOMAIN u /\ u[1] = s[1]
  <2>1. 1 \in 1..(m + n) /\ 1 <= m
    BY <1>2, <1>7
  <2> QED BY <1>1, <1>2, <2>1
<1> QED BY <1>1, <1>4, <1>5, <1>6, <1>7 DEF u

\* A list built element by element from another.
LEMMA MappedIs ==
  ASSUME NEW s, IsSeq(s), NEW S, NEW f, f \in [DOMAIN s -> S]
  PROVE  f \in Seq(S) /\ DOMAIN f = DOMAIN s /\ \A x : x \in Range(f) <=> \E n \in DOMAIN s : x = f[n]
<1>1. Len(s) \in Nat /\ DOMAIN s = 1..Len(s)
  BY ItsRange
<1>2. f \in [1..Len(s) -> S]
  BY <1>1
<1>3. f \in Seq(S)
  BY <1>1, <1>2, FunctionIsSeq
<1> QED BY <1>1, <1>2, <1>3 DEF Range

\* The playlists that a queue deletes, and what it leaves of some lists.
Deleted(queue) == {e.id : e \in {x \in queue : x.op = "delete"}}
IsEdited(x, L, queue, tracks) ==
  \/ \E l \in L : l.id \notin Deleted(queue) /\ x = EditedList(l, queue, tracks)
  \/ \E e \in queue : e.op = "create" /\ x = CreatedList(e, tracks)

\* What an edit finds in a dataset that it applies to.
LEMMA AppliedIs ==
  ASSUME NEW queue, NEW tracks, NEW d, SoundDataset(d, tracks), \A e \in queue : EditApplies(d, e)
  PROVE  /\ \A l \in Range(d.lists) : OnlyLists(l, queue)
         /\ \A l \in Range(d.lists) : \A e \in queue : e.op = "create" => e.id # l.id
<1>1. IsSeq(d.lists)
  BY DEF SoundDataset, WellFormedDataset
<1>2. ASSUME NEW l \in Range(d.lists), NEW e \in queue
      PROVE  (e.id = l.id /\ e.op # "create" => l.role = "list") /\ (e.op = "create" => e.id # l.id)
  <2>1. PICK n \in DOMAIN d.lists : l = d.lists[n]
    BY <1>1, ItsRange
  <2>2. EditApplies(d, e)
    OBVIOUS
  <2>3. e.id = l.id => n \in Targets(d, e)
    BY <2>1 DEF Targets
  <2> QED BY <2>1, <2>2, <2>3 DEF EditApplies
<1> QED BY <1>2 DEF OnlyLists

\* An edited dataset is sound.
LEMMA EditedDatasetIs ==
  ASSUME NEW queue, NEW tracks, QueueFits(queue, tracks), NEW d, SoundDataset(d, tracks), d.kind \in {2, 3},
         \A e \in queue : EditApplies(d, e)
  PROVE  LET r == EditedDataset(d, queue, tracks)
         IN  /\ SoundDataset(r, tracks) /\ r.kind = d.kind /\ r.lists[1] = d.lists[1]
             /\ \A x : x \in Range(r.lists) <=> IsEdited(x, Range(d.lists), queue, tracks)
<1> DEFINE lists == d.lists
           L == Range(d.lists)
           P == {n \in DOMAIN lists : lists[n].id \notin Deleted(queue)}
           kept == Selected(lists, P)
           created == Creations(queue)
           S == {EditedList(l, queue, tracks) : l \in L} \cup {CreatedList(e, tracks) : e \in queue}
           front == [n \in DOMAIN kept |-> EditedList(kept[n], queue, tracks)]
           back == [n \in DOMAIN created |-> CreatedList(created[n], tracks)]
           r == EditedDataset(d, queue, tracks)
<1>1. /\ DOMAIN d = {"kind", "lists"} /\ IsSeq(lists) /\ (\A l \in L : WellFormedList(l))
      /\ (\A l \in L : ItemsKnown(l, TrackIds(tracks))) /\ SoundEdits(queue)
      /\ 1 \in DOMAIN lists /\ lists[1].role = "master" /\ lists[1].items = WholeItems(tracks)
  BY DEF SoundDataset, WellFormedDataset, QueueFits
<1>2. r = [d EXCEPT !.lists = front \o back]
  BY DEF EditedDataset, Deleted
<1>3. \A l \in L : OnlyLists(l, queue)
  BY AppliedIs
<1>4. lists \in Seq(L) /\ Len(lists) \in Nat /\ DOMAIN lists = 1..Len(lists) /\ \A x : x \in L <=> \E n \in DOMAIN lists : x = lists[n]
  BY <1>1, ItsRange DEF IsSeq
<1>5. P \in SUBSET (1..Len(lists)) /\ \A n : n \in P <=> n \in DOMAIN lists /\ lists[n].id \notin Deleted(queue)
  BY <1>4
<1>6. 1 \in P
  <2>1. SUFFICES ASSUME lists[1].id \in Deleted(queue) PROVE FALSE
    BY <1>1, <1>5
  <2>2. PICK e \in queue : e.op = "delete" /\ e.id = lists[1].id
    BY <2>1 DEF Deleted
  <2>3. lists[1] \in L
    BY <1>1, <1>4
  <2>4. lists[1].role = "list"
    BY <1>3, <2>2, <2>3 DEF OnlyLists
  <2> QED BY <1>1, <2>4
<1>7. IsSeq(created) /\ Range(created) = {e \in queue : e.op = "create"}
  BY <1>1, CreationsAre
<1> HIDE DEF created, P, L, lists
<1>8. kept \in Seq(L) /\ \A x : x \in Range(kept) <=> \E n \in P : x = lists[n]
  BY <1>4, <1>5, SelectedRange
<1>9. 1 \in DOMAIN kept /\ kept[1] = lists[1]
  BY <1>4, <1>5, <1>6, FirstSelected
<1> HIDE DEF kept
<1>10. IsSeq(kept) /\ Range(kept) \subseteq L
  BY <1>8, SeqFacts
<1>11. \A n \in DOMAIN kept : kept[n] \in Range(kept)
  BY DEF Range
<1>12. \A n \in DOMAIN created : created[n] \in Range(created)
  BY DEF Range
<1>13. front \in [DOMAIN kept -> S] /\ back \in [DOMAIN created -> S]
  BY <1>7, <1>10, <1>11, <1>12
<1>14. front \in Seq(S) /\ DOMAIN front = DOMAIN kept /\ \A x : x \in Range(front) <=> \E n \in DOMAIN kept : x = front[n]
  <2> HIDE DEF front, back, S
  <2> QED BY <1>10, <1>13, MappedIs
<1>15. back \in Seq(S) /\ DOMAIN back = DOMAIN created /\ \A x : x \in Range(back) <=> \E n \in DOMAIN created : x = back[n]
  <2>1. IsSeq(created) /\ back \in [DOMAIN created -> S]
    BY <1>7, <1>13
  <2> HIDE DEF front, back, S, r
  <2>2. back \in Seq(S)
    BY <2>1, MappedIs
  <2>3. DOMAIN back = DOMAIN created
    BY <2>1
  <2> QED BY <2>2, <2>3 DEF Range
<1>16. front[1] = EditedList(lists[1], queue, tracks)
  BY <1>9
<1>17. \A x : x \in Range(front) <=> \E l \in Range(kept) : x = EditedList(l, queue, tracks)
  <2>1. \A x : x \in Range(kept) <=> \E n \in DOMAIN kept : x = kept[n]
    BY <1>10, ItsRange
  <2>2. \A n \in DOMAIN kept : front[n] = EditedList(kept[n], queue, tracks)
    OBVIOUS
  <2> HIDE DEF front
  <2> QED BY <1>14, <2>1, <2>2
<1>18. \A x : x \in Range(back) <=> \E e \in Range(created) : x = CreatedList(e, tracks)
  <2>1. \A x : x \in Range(created) <=> \E n \in DOMAIN created : x = created[n]
    BY <1>7, ItsRange
  <2>2. \A n \in DOMAIN created : back[n] = CreatedList(created[n], tracks)
    OBVIOUS
  <2> HIDE DEF back
  <2> QED BY <1>15, <2>1, <2>2
<1> HIDE DEF front, back, S
<1>19. /\ front \o back \in Seq(S) /\ \A x : x \in Range(front \o back) <=> x \in Range(front) \/ x \in Range(back)
       /\ 1 \in DOMAIN (front \o back) /\ (front \o back)[1] = front[1]
  BY <1>9, <1>14, <1>15, JoinedIs
<1>20. IsSeq(front \o back)
  BY <1>19, SeqFacts
<1> DEFINE all == front \o back
<1>21. DOMAIN r = {"kind", "lists"} /\ r.kind = d.kind /\ r.lists = all
  BY <1>1, <1>2
<1> HIDE DEF r, all
<1>22. \A x : x \in Range(all) <=> IsEdited(x, L, queue, tracks)
  <2>1. \A l : l \in Range(kept) <=> l \in L /\ l.id \notin Deleted(queue)
    BY <1>4, <1>5, <1>8
  <2>2. \A e : e \in Range(created) <=> e \in queue /\ e.op = "create"
    BY <1>7
  <2> QED BY <1>17, <1>18, <1>19, <2>1, <2>2 DEF IsEdited, all
<1>23. ASSUME NEW x \in Range(all) PROVE WellFormedList(x) /\ ItemsKnown(x, TrackIds(tracks))
  <2>1. CASE \E l \in L : x = EditedList(l, queue, tracks)
    <3>1. PICK l \in L : x = EditedList(l, queue, tracks)
      BY <2>1
    <3>2. WellFormedList(l) /\ ItemsKnown(l, TrackIds(tracks)) /\ OnlyLists(l, queue)
      BY <1>1, <1>3 DEF L
    <3> QED BY <3>1, <3>2, EditedListIs
  <2>2. CASE \E e \in queue : e.op = "create" /\ x = CreatedList(e, tracks)
    <3>1. PICK e \in queue : e.op = "create" /\ x = CreatedList(e, tracks)
      BY <2>2
    <3> QED BY <3>1, CreatedListIs
  <2> QED BY <1>22, <2>1, <2>2 DEF IsEdited
<1>24. all[1] = lists[1]
  <2>1. lists[1] \in L
    BY <1>1, <1>4 DEF lists
  <2>2. WellFormedList(lists[1]) /\ ItemsKnown(lists[1], TrackIds(tracks)) /\ OnlyLists(lists[1], queue)
    BY <1>1, <1>3, <2>1 DEF L, lists
  <2>3. lists[1].role # "list"
    BY <1>1 DEF lists
  <2>4. EditedList(lists[1], queue, tracks) = lists[1]
    BY <2>2, <2>3, EditedListIs
  <2> QED BY <1>16, <1>19, <2>4 DEF all
<1>25. 1 \in DOMAIN all /\ all[1].role = "master" /\ all[1].items = WholeItems(tracks)
  BY <1>1, <1>19, <1>24 DEF all, lists
<1>26. SoundDataset(r, tracks)
  BY <1>20, <1>21, <1>23, <1>25 DEF SoundDataset, WellFormedDataset, all
<1>27. r.lists[1] = d.lists[1]
  BY <1>21, <1>24 DEF lists
<1> QED BY <1>21, <1>22, <1>26, <1>27 DEF r, L

\* U is what the queue makes of the lists L, and editing keeps the ids of those lists.
EditedInto(U, L, queue, tracks) ==
  /\ \A x : x \in U <=> IsEdited(x, L, queue, tracks)
  /\ \A l \in L : EditedList(l, queue, tracks).id = l.id
\* The ids of U are those of L that are not deleted and those created.
IdsEdited(U, L, queue) ==
  \A i : i \in IdsOf(U) <=>
           (i \in IdsOf(L) /\ i \notin Deleted(queue)) \/ \E e \in queue : e.op = "create" /\ i = e.id

\* Editing the same lists gives the same ids.
LEMMA EditedIds ==
  ASSUME NEW queue, NEW tracks, NEW L, NEW U, EditedInto(U, L, queue, tracks),
         \A e \in queue : e.op = "create" => CreatedList(e, tracks).id = e.id
  PROVE  IdsEdited(U, L, queue)
<1> USE DEF EditedInto
<1>1. ASSUME NEW x \in U
      PROVE  (x.id \in IdsOf(L) /\ x.id \notin Deleted(queue)) \/ \E e \in queue : e.op = "create" /\ x.id = e.id
  <2>1. IsEdited(x, L, queue, tracks)
    OBVIOUS
  <2> QED BY <2>1 DEF IsEdited, IdsOf
<1>2. ASSUME NEW l \in L, l.id \notin Deleted(queue) PROVE l.id \in IdsOf(U)
  <2> DEFINE x == EditedList(l, queue, tracks)
  <2>1. x \in U /\ x.id = l.id
    BY <1>2 DEF IsEdited
  <2> HIDE DEF x
  <2> QED BY <2>1 DEF IdsOf
<1>3. ASSUME NEW e \in queue, e.op = "create" PROVE e.id \in IdsOf(U)
  <2> DEFINE x == CreatedList(e, tracks)
  <2>1. x \in U /\ x.id = e.id
    BY <1>3 DEF IsEdited
  <2> HIDE DEF x
  <2> QED BY <2>1 DEF IdsOf
<1>4. ASSUME NEW i, i \in IdsOf(U)
      PROVE  (i \in IdsOf(L) /\ i \notin Deleted(queue)) \/ \E e \in queue : e.op = "create" /\ i = e.id
  BY <1>1, <1>4 DEF IdsOf
<1>5. ASSUME NEW i, i \in IdsOf(L), i \notin Deleted(queue) PROVE i \in IdsOf(U)
  <2>1. PICK l \in L : i = l.id
    BY <1>5 DEF IdsOf
  <2> QED BY <1>2, <1>5, <2>1
<1> QED BY <1>3, <1>4, <1>5 DEF IdsEdited

\* Edited lists are as clear as what they were.
LEMMA EditedClear ==
  ASSUME NEW queue, NEW tracks, NEW L, Clear(L), SoundEdits(queue),
         \A e \in queue : e.op = "create" => e.id # PodcastId,
         \A l \in L : /\ EditedList(l, queue, tracks).id = l.id /\ EditedList(l, queue, tracks).role = l.role
                      /\ \A e \in queue : e.op = "create" => e.id # l.id,
         \A e \in queue : e.op = "create" => CreatedList(e, tracks).id = e.id /\ CreatedList(e, tracks).role = "list",
         NEW U, \A x : x \in U <=> IsEdited(x, L, queue, tracks)
  PROVE  Clear(U)
<1>1. \A e, f \in queue : e.id = f.id => e = f
  BY DEF SoundEdits
<1>2. ASSUME NEW x \in U, NEW y \in U, x.id = y.id PROVE x.role = y.role /\ (x.role = "list" => x = y)
  <2>1. IsEdited(x, L, queue, tracks) /\ IsEdited(y, L, queue, tracks)
    OBVIOUS
  <2>2. ASSUME NEW l \in L, x = EditedList(l, queue, tracks), NEW m \in L, y = EditedList(m, queue, tracks)
        PROVE  x.role = y.role /\ (x.role = "list" => x = y)
    <3>1. x.id = l.id /\ x.role = l.role /\ y.id = m.id /\ y.role = m.role
      BY <2>2
    <3>2. l.id = m.id
      BY <1>2, <3>1
    <3>3. l.role = m.role /\ (l.role = "list" => l = m)
      BY <3>2 DEF Clear
    <3> QED BY <2>2, <3>1, <3>3
  <2>3. ASSUME NEW e \in queue, e.op = "create", x = CreatedList(e, tracks),
               NEW f \in queue, f.op = "create", y = CreatedList(f, tracks)
        PROVE  x.role = y.role /\ (x.role = "list" => x = y)
    <3>1. x.id = e.id /\ x.role = "list" /\ y.id = f.id /\ y.role = "list"
      BY <2>3
    <3>2. e.id = f.id
      BY <1>2, <3>1
    <3>3. e = f
      BY <1>1, <3>2
    <3> QED BY <2>3, <3>1, <3>3
  <2>4. ASSUME NEW l \in L, NEW e \in queue, e.op = "create" PROVE EditedList(l, queue, tracks).id # CreatedList(e, tracks).id
    BY <2>4
  <2>5. CASE \E l \in L : x = EditedList(l, queue, tracks)
    <3>1. PICK l \in L : x = EditedList(l, queue, tracks)
      BY <2>5
    <3>2. \A e \in queue : e.op = "create" => y # CreatedList(e, tracks)
      BY <1>2, <2>4, <3>1
    <3>3. \E m \in L : y = EditedList(m, queue, tracks)
      BY <2>1, <3>2 DEF IsEdited
    <3> QED BY <2>2, <3>1, <3>3
  <2>6. CASE \E e \in queue : e.op = "create" /\ x = CreatedList(e, tracks)
    <3>1. PICK e \in queue : e.op = "create" /\ x = CreatedList(e, tracks)
      BY <2>6
    <3>2. \A m \in L : y # EditedList(m, queue, tracks)
      BY <1>2, <2>4, <3>1
    <3>3. \E f \in queue : f.op = "create" /\ y = CreatedList(f, tracks)
      BY <2>1, <3>2 DEF IsEdited
    <3> QED BY <2>3, <3>1, <3>3
  <2> QED BY <2>1, <2>5, <2>6 DEF IsEdited
<1>3. ASSUME NEW x \in U, x.id = PodcastId PROVE x.role = "podcast"
  <2>1. IsEdited(x, L, queue, tracks)
    OBVIOUS
  <2>2. \A e \in queue : e.op = "create" => x # CreatedList(e, tracks)
    BY <1>3
  <2>3. PICK l \in L : x = EditedList(l, queue, tracks)
    BY <2>1, <2>2 DEF IsEdited
  <2>4. x.id = l.id /\ x.role = l.role
    BY <2>3
  <2> QED BY <1>3, <2>4 DEF Clear, Drawn
<1> QED BY <1>2, <1>3 DEF Clear, Drawn

\* edit_playlists leaves a sound database.
LEMMA EditedIsSound ==
  ASSUME NEW db, Openable(db, "iTunesDB"), NEW queue, SoundEdits(queue), Editable(db, queue),
         \A e \in queue : e.op = "create" => e.id # PodcastId
  PROVE  Openable(EditedLists(db, queue), "iTunesDB")
<1> DEFINE tracks == db.tracks
           D == Range(db.datasets)
           L(kinds) == ListsOf(D, kinds)
           Put(n) == IF db.datasets[n].kind \in {2, 3} THEN EditedDataset(db.datasets[n], queue, tracks) ELSE db.datasets[n]
           sets == [n \in DOMAIN db.datasets |-> Put(n)]
           S == {Put(n) : n \in DOMAIN db.datasets}
           E == Range(sets)
           r == EditedLists(db, queue)
<1>1. SoundRecords(db) /\ SoundSet(D, tracks)
  BY ClassicOpened
<1>2. IsSeq(db.datasets) /\ tracks \in Seq(TrackRows) /\ DOMAIN db = {"tracks", "albums", "datasets", "count", "version"}
  BY <1>1 DEF SoundRecords
<1>3. QueueFits(queue, tracks)
  BY <1>2 DEF QueueFits, Editable
<1>4. \A x : x \in D <=> \E n \in DOMAIN db.datasets : x = db.datasets[n]
  BY <1>2, ItsRange
<1>5. /\ \A d \in D : SoundDataset(d, tracks)
      /\ Clear(L({2, 3})) /\ ({2, 3} \subseteq {d.kind : d \in D} => IdsOf(L({2})) = IdsOf(L({3})))
  BY <1>1 DEF SoundSet
<1>6. \A n \in DOMAIN db.datasets : db.datasets[n].kind \in {2, 3} => \A e \in queue : EditApplies(db.datasets[n], e)
  BY DEF Editable, EditedDatasets
<1>7. r = [db EXCEPT !.datasets = sets]
  BY <1>2 DEF EditedLists, EditedDatasets
<1>8. sets \in [DOMAIN db.datasets -> S]
  OBVIOUS
<1>9. sets \in Seq(S) /\ DOMAIN sets = DOMAIN db.datasets /\ \A x : x \in E <=> \E n \in DOMAIN db.datasets : x = sets[n]
  <2>1. IsSeq(db.datasets)
    BY <1>2
  <2> HIDE DEF sets, S, r
  <2> QED BY <1>8, <2>1, MappedIs
<1>10. IsSeq(sets)
  BY <1>9, SeqFacts
<1>11. ASSUME NEW n \in DOMAIN db.datasets
       PROVE  /\ SoundDataset(sets[n], tracks) /\ sets[n].kind = db.datasets[n].kind
              /\ sets[n].kind \in {2, 3} =>
                   \A x : x \in Range(sets[n].lists) <=> IsEdited(x, Range(db.datasets[n].lists), queue, tracks)
  <2> DEFINE d == db.datasets[n]
  <2>1. SoundDataset(d, tracks)
    BY <1>4, <1>5
  <2>2. CASE d.kind \in {2, 3}
    <3>1. sets[n] = EditedDataset(d, queue, tracks)
      BY <2>2
    <3>2. \A e \in queue : EditApplies(d, e)
      BY <1>6, <2>2
    <3> HIDE DEF d, sets
    <3> QED BY <1>3, <2>1, <2>2, <3>1, <3>2, EditedDatasetIs DEF d
  <2>3. CASE d.kind \notin {2, 3}
    <3>1. sets[n] = d
      BY <2>3
    <3> HIDE DEF sets
    <3> QED BY <2>1, <2>3, <3>1
  <2> QED BY <2>2, <2>3
<1>12. DOMAIN r = DOMAIN db /\ r.tracks = tracks /\ r.albums = db.albums /\ r.datasets = sets /\ r.version = db.version
  BY <1>2, <1>7
<1> HIDE DEF sets, S, r, E, D
<1>13. SoundRecords(r)
  BY <1>1, <1>10, <1>12 DEF SoundRecords
<1>14. \A d \in E : SoundDataset(d, tracks)
  BY <1>9, <1>11
<1>15. ASSUME NEW kinds \in SUBSET {2, 3}
       PROVE  \A x : x \in ListsOf(E, kinds) <=> \E d \in D : d.kind \in kinds /\ IsEdited(x, Range(d.lists), queue, tracks)
  <2>1. \A x : x \in ListsOf(E, kinds) <=>
                 \E n \in DOMAIN db.datasets : sets[n].kind \in kinds /\ x \in Range(sets[n].lists)
    BY <1>9, ListsOfIs
  <2>2. \A x : x \in ListsOf(E, kinds) <=>
                 \E n \in DOMAIN db.datasets : /\ db.datasets[n].kind \in kinds
                                               /\ IsEdited(x, Range(db.datasets[n].lists), queue, tracks)
    BY <1>11, <2>1
  <2> QED BY <1>4, <2>2
<1>16. ASSUME NEW kinds \in SUBSET {2, 3}, \E d \in D : d.kind \in kinds
       PROVE  \A x : x \in ListsOf(E, kinds) <=> IsEdited(x, L(kinds), queue, tracks)
  <2>1. \A x : x \in L(kinds) <=> \E d \in D : d.kind \in kinds /\ x \in Range(d.lists)
    BY ListsOfIs
  <2>2. \A x : (\E d \in D : d.kind \in kinds /\ IsEdited(x, Range(d.lists), queue, tracks)) => IsEdited(x, L(kinds), queue, tracks)
    BY <2>1 DEF IsEdited
  <2>3. \A x : IsEdited(x, L(kinds), queue, tracks) => \E d \in D : d.kind \in kinds /\ IsEdited(x, Range(d.lists), queue, tracks)
    BY <1>16, <2>1 DEF IsEdited
  <2> QED BY <1>15, <2>2, <2>3
<1>17. ASSUME NEW kinds \in SUBSET {2, 3}, NEW l \in L(kinds)
       PROVE  /\ EditedList(l, queue, tracks).id = l.id /\ EditedList(l, queue, tracks).role = l.role
              /\ \A e \in queue : e.op = "create" => e.id # l.id
  <2>1. PICK d \in D : d.kind \in kinds /\ l \in Range(d.lists)
    BY ListsOfIs
  <2>2. PICK n \in DOMAIN db.datasets : d = db.datasets[n]
    BY <1>4
  <2>3. (\A e \in queue : EditApplies(d, e)) /\ SoundDataset(d, tracks)
    BY <1>5, <1>6, <2>1, <2>2
  <2>4. OnlyLists(l, queue) /\ \A e \in queue : e.op = "create" => e.id # l.id
    BY <2>1, <2>3, AppliedIs
  <2>5. WellFormedList(l) /\ ItemsKnown(l, TrackIds(tracks))
    BY <2>1, <2>3 DEF SoundDataset, WellFormedDataset
  <2> QED BY <1>3, <2>4, <2>5, EditedListIs
<1>18. \A e \in queue : e.op = "create" => CreatedList(e, tracks).id = e.id /\ CreatedList(e, tracks).role = "list"
  BY <1>3, CreatedListIs
<1>19. {d.kind : d \in E} = {d.kind : d \in D}
  <2>1. \A k : k \in {d.kind : d \in E} <=> \E n \in DOMAIN db.datasets : k = sets[n].kind
    BY <1>9
  <2>2. \A k : k \in {d.kind : d \in D} <=> \E n \in DOMAIN db.datasets : k = db.datasets[n].kind
    BY <1>4
  <2>3. \A n \in DOMAIN db.datasets : sets[n].kind = db.datasets[n].kind
    BY <1>11
  <2> DEFINE KE == {d.kind : d \in E}
             KD == {d.kind : d \in D}
  <2>4. (\A k : k \in KE <=> \E n \in DOMAIN db.datasets : k = sets[n].kind)
        /\ \A k : k \in KD <=> \E n \in DOMAIN db.datasets : k = db.datasets[n].kind
    BY <2>1, <2>2
  <2> HIDE DEF KE, KD
  <2>5. \A k : k \in KE <=> k \in KD
    BY <2>3, <2>4
  <2>6. KE = KD
    BY <2>5
  <2> QED BY <2>6 DEF KE, KD
<1>20. Clear(ListsOf(E, {2, 3}))
  <2>1. CASE \E d \in D : d.kind \in {2, 3}
    <3>1. \A x : x \in ListsOf(E, {2, 3}) <=> IsEdited(x, L({2, 3}), queue, tracks)
      BY <1>16, <2>1
    <3>2. \A l \in L({2, 3}) :
            /\ EditedList(l, queue, tracks).id = l.id /\ EditedList(l, queue, tracks).role = l.role
            /\ \A e \in queue : e.op = "create" => e.id # l.id
      BY <1>17
    <3> HIDE DEF L
    <3> QED BY <1>5, <1>18, <3>1, <3>2, EditedClear
  <2>2. CASE ~ \E d \in D : d.kind \in {2, 3}
    <3>1. ~ \E d \in E : d.kind \in {2, 3}
      BY <1>19, <2>2
    <3>2. ListsOf(E, {2, 3}) = {}
      BY <3>1, ListsOfIs
    <3> QED BY <3>2 DEF Clear, Drawn
  <2> QED BY <2>1, <2>2
<1>21. ASSUME {2, 3} \subseteq {d.kind : d \in E} PROVE IdsOf(ListsOf(E, {2})) = IdsOf(ListsOf(E, {3}))
  <2>1. (\E d \in D : d.kind \in {2}) /\ (\E d \in D : d.kind \in {3}) /\ {2, 3} \subseteq {d.kind : d \in D}
    BY <1>19, <1>21
  <2>2. \A x : x \in ListsOf(E, {2}) <=> IsEdited(x, L({2}), queue, tracks)
    BY <1>16, <2>1
  <2>3. \A x : x \in ListsOf(E, {3}) <=> IsEdited(x, L({3}), queue, tracks)
    BY <1>16, <2>1
  <2>4. (\A l \in L({2}) : EditedList(l, queue, tracks).id = l.id) /\ (\A l \in L({3}) : EditedList(l, queue, tracks).id = l.id)
    BY <1>17
  <2>5. \A e \in queue : e.op = "create" => CreatedList(e, tracks).id = e.id
    BY <1>18
  <2>6. IdsOf(L({2})) = IdsOf(L({3}))
    BY <1>5, <2>1
  <2> DEFINE L2 == L({2})
             L3 == L({3})
             E2 == ListsOf(E, {2})
             E3 == ListsOf(E, {3})
  <2>a. EditedInto(E2, L2, queue, tracks)
    BY <2>2, <2>4 DEF EditedInto
  <2>b. EditedInto(E3, L3, queue, tracks)
    BY <2>3, <2>4 DEF EditedInto
  <2> HIDE DEF L2, L3, E2, E3, tracks
  <2>7. IdsEdited(E2, L2, queue)
    BY <2>a, <2>5, EditedIds
  <2>8. IdsEdited(E3, L3, queue)
    BY <2>b, <2>5, EditedIds
  <2>9. \A i : i \in IdsOf(E2) <=> i \in IdsOf(E3)
    BY <2>6, <2>7, <2>8 DEF L2, L3, IdsEdited
  <2> QED BY <2>9 DEF E2, E3
<1>22. SoundSet(Range(r.datasets), r.tracks)
  BY <1>12, <1>14, <1>20, <1>21 DEF SoundSet, E
<1>23. Openable(r, "iTunesDB")
  BY <1>13, <1>22, ClassicOpenable
<1> QED BY <1>23 DEF r

------------------------------------------------------------------------------
(* Sequences that are built from others. *)

\* A sequence of elements of a smaller set.
LEMMA SeqNarrow ==
  ASSUME NEW S, NEW s \in Seq(S), NEW T, Range(s) \subseteq T
  PROVE  s \in Seq(T)
<1>1. IsSeq(s)
  BY SeqFacts
<1>2. Len(s) \in Nat /\ DOMAIN s = 1..Len(s) /\ s \in [1..Len(s) -> Range(s)]
  BY <1>1, ItsRange
<1>3. s \in [1..Len(s) -> T]
  BY <1>2
<1> QED BY <1>2, <1>3, FunctionIsSeq

\* The turns of the loop of FlattenSeq.
Joins(seqs, f, N) == \A i \in 1..N : f[i] = IF i = 1 THEN seqs[i] ELSE f[i - 1] \o seqs[i]

\* The loop keeps to the elements.
LEMMA JoinKeeps ==
  ASSUME NEW S, NEW N \in Nat, NEW seqs, \A i \in 1..N : seqs[i] \in Seq(S), NEW f, Joins(seqs, f, N)
  PROVE  \A i \in 1..N : f[i] \in Seq(S)
<1> DEFINE Bad == {i \in 1..N : f[i] \notin Seq(S)}
<1>1. SUFFICES ASSUME Bad # {} PROVE FALSE
  OBVIOUS
<1>2. PICK n \in Bad : \A m \in Bad : n <= m
  <2>1. Bad \in SUBSET Nat
    OBVIOUS
  <2> HIDE DEF Bad
  <2> QED BY <1>1, <2>1, NatHasMin
<1>3. n \in 1..N /\ seqs[n] \in Seq(S)
  BY <1>2
<1>4. CASE n = 1
  BY <1>2, <1>3, <1>4 DEF Joins
<1>5. CASE n # 1
  <2>1. n - 1 \in 1..N /\ ~(n <= n - 1)
    BY <1>3, <1>5
  <2>2. f[n - 1] \in Seq(S)
    BY <1>2, <2>1
  <2>3. f[n - 1] \o seqs[n] \in Seq(S)
    BY <1>3, <2>2, ConcatProperties
  <2>4. f[n] = f[n - 1] \o seqs[n]
    BY <1>3, <1>5 DEF Joins
  <2> QED BY <1>2, <2>3, <2>4
<1> QED BY <1>4, <1>5

\* The loop runs to its end.
LEMMA JoinRuns ==
  ASSUME NEW S, NEW N \in Nat, NEW seqs, \A i \in 1..N : seqs[i] \in Seq(S)
  PROVE  \E f : f = [i \in 1..N |-> f[i]] /\ Joins(seqs, f, N)
<1> DEFINE Runs(n) == \E f : f = [i \in 1..n |-> f[i]] /\ Joins(seqs, f, n)
           Stuck == {n \in 0..N : ~ Runs(n)}
<1>1. SUFFICES ASSUME Stuck # {} PROVE FALSE
  OBVIOUS
<1>2. PICK n \in Stuck : \A m \in Stuck : n <= m
  <2>1. Stuck \in SUBSET Nat
    OBVIOUS
  <2> HIDE DEF Stuck
  <2> QED BY <1>1, <2>1, NatHasMin
<1>3. n # 0
  <2> DEFINE z == [i \in 1..0 |-> <<>>]
  <2>1. z = [i \in 1..0 |-> z[i]]
    OBVIOUS
  <2> HIDE DEF z
  <2>2. Runs(0)
    BY <2>1 DEF Joins
  <2> QED BY <1>2, <2>2
<1>4. n \in 1..N /\ n - 1 \in 0..N /\ ~(n <= n - 1)
  BY <1>2, <1>3
<1>5. Runs(n - 1)
  <2> HIDE DEF Runs
  <2> QED BY <1>2, <1>4
<1>6. PICK f : f = [i \in 1..(n - 1) |-> f[i]] /\ Joins(seqs, f, n - 1)
  BY <1>5
<1> DEFINE last == IF n = 1 THEN seqs[n] ELSE f[n - 1] \o seqs[n]
           g == [i \in 1..n |-> IF i = n THEN last ELSE f[i]]
<1>7. g[n] = last /\ g = [i \in 1..n |-> g[i]]
  BY <1>4
<1>8. \A i \in 1..(n - 1) : g[i] = f[i]
  BY <1>4
<1> HIDE DEF g
<1>9. ASSUME NEW i \in 1..n PROVE g[i] = IF i = 1 THEN seqs[i] ELSE g[i - 1] \o seqs[i]
  <2>1. CASE i = n
    <3>1. n # 1 => n - 1 \in 1..(n - 1)
      BY <1>4
    <3>2. n # 1 => g[n - 1] = f[n - 1]
      BY <1>8, <3>1
    <3> QED BY <1>7, <2>1, <3>2
  <2>2. CASE i # n
    <3>1. i \in 1..(n - 1) /\ (i # 1 => i - 1 \in 1..(n - 1))
      BY <1>4, <2>2
    <3>2. g[i] = f[i] /\ (i # 1 => g[i - 1] = f[i - 1])
      BY <1>8, <3>1
    <3>3. f[i] = IF i = 1 THEN seqs[i] ELSE f[i - 1] \o seqs[i]
      BY <1>6, <3>1 DEF Joins
    <3> QED BY <3>2, <3>3
  <2> QED BY <2>1, <2>2
<1>10. Runs(n)
  BY <1>7, <1>9 DEF Joins
<1> QED BY <1>2, <1>10

\* What FlattenSeq joins has no other elements.
LEMMA FlattenedIs ==
  ASSUME NEW S, NEW seqs \in Seq(Seq(S))
  PROVE  FlattenSeq(seqs) \in Seq(S)
<1> DEFINE N == Len(seqs)
           Step(f) == [i \in 1..N |-> IF i = 1 THEN seqs[i] ELSE f[i - 1] \o seqs[i]]
           flatten == CHOOSE f : f = Step(f)
<1>1. N \in Nat /\ \A i \in 1..N : seqs[i] \in Seq(S)
  BY LenProperties, ElementOfSeq
<1>2. FlattenSeq(seqs) = IF N = 0 THEN seqs ELSE flatten[N]
  BY DEF FlattenSeq
<1> HIDE DEF N
<1>3. PICK f : f = [i \in 1..N |-> f[i]] /\ Joins(seqs, f, N)
  BY <1>1, JoinRuns
<1>4. f = Step(f)
  <2>1. \A i \in 1..N : f[i] = Step(f)[i]
    BY <1>3 DEF Joins
  <2> QED BY <1>3, <2>1
<1>5. flatten = Step(flatten)
  BY <1>4
<1> HIDE DEF flatten
<1>6. Joins(seqs, flatten, N)
  BY <1>5 DEF Joins
<1>7. \A i \in 1..N : flatten[i] \in Seq(S)
  BY <1>1, <1>6, JoinKeeps
<1>8. CASE N = 0
  <2>1. seqs = <<>>
    BY <1>8, EmptySeq DEF N
  <2> QED BY <1>2, <1>8, <2>1, EmptySeq
<1>9. CASE N # 0
  BY <1>1, <1>2, <1>7, <1>9
<1> QED BY <1>8, <1>9

\* A part of a sequence.
LEMMA PartIs ==
  ASSUME NEW S, NEW s \in Seq(S), NEW m \in 1..(Len(s) + 1), NEW n \in 0..Len(s)
  PROVE  SubSeq(s, m, n) \in Seq(S) /\ \A x : x \in Range(SubSeq(s, m, n)) <=> \E i \in m..n : x = s[i]
<1> DEFINE t == SubSeq(s, m, n)
<1>1. Len(s) \in Nat /\ m \in Int /\ n \in Int /\ \A i \in m..n : s[i] \in S
  <2>1. Len(s) \in Nat /\ \A i \in 1..Len(s) : s[i] \in S
    BY LenProperties, ElementOfSeq
  <2> QED BY <2>1
<1>2. t \in Seq(S) /\ Len(t) = (IF m <= n THEN n - m + 1 ELSE 0) /\ \A i \in 1..(n - m + 1) : t[i] = s[m + i - 1]
  BY <1>1, SubSeqProperties
<1>3. DOMAIN t = 1..Len(t)
  BY <1>2, LenProperties
<1> HIDE DEF t
<1>4. ASSUME NEW x, x \in Range(t) PROVE \E i \in m..n : x = s[i]
  <2>1. PICK j \in DOMAIN t : x = t[j]
    BY <1>4 DEF Range
  <2>2. j \in 1..(n - m + 1) /\ m + j - 1 \in m..n
    BY <1>1, <1>2, <1>3, <2>1
  <2> QED BY <1>2, <2>1, <2>2
<1>5. ASSUME NEW i \in m..n PROVE s[i] \in Range(t)
  <2> DEFINE j == i - m + 1
  <2>1. j \in 1..(n - m + 1) /\ m + j - 1 = i /\ j \in 1..Len(t)
    BY <1>1, <1>2
  <2> HIDE DEF j
  <2>2. t[j] = s[i]
    BY <1>2, <2>1
  <2> QED BY <1>3, <2>1, <2>2 DEF Range
<1> QED BY <1>2, <1>4, <1>5 DEF t

\* A sequence with one element taken out, and with one put in.
LEMMA RemoveAtIs ==
  ASSUME NEW S, NEW s \in Seq(S), NEW k \in 1..Len(s)
  PROVE  /\ RemoveAt(s, k) \in Seq(S) /\ Len(RemoveAt(s, k)) = Len(s) - 1
         /\ \A x : x \in Range(RemoveAt(s, k)) <=> \E i \in 1..Len(s) : i # k /\ x = s[i]
<1> DEFINE a == SubSeq(s, 1, k - 1)
           b == SubSeq(s, k + 1, Len(s))
<1>1. Len(s) \in Nat /\ \A i \in 1..Len(s) : s[i] \in S
  BY LenProperties, ElementOfSeq
<1>2. 1 \in 1..(Len(s) + 1) /\ k - 1 \in 0..Len(s) /\ k + 1 \in 1..(Len(s) + 1) /\ Len(s) \in 0..Len(s)
  BY <1>1
<1>3. a \in Seq(S) /\ \A x : x \in Range(a) <=> \E i \in 1..(k - 1) : x = s[i]
  BY <1>2, PartIs
<1>4. b \in Seq(S) /\ \A x : x \in Range(b) <=> \E i \in (k + 1)..Len(s) : x = s[i]
  BY <1>2, PartIs
<1>5. Len(a) = k - 1
  <2>1. 1 \in Int /\ k - 1 \in Int /\ \A i \in 1..(k - 1) : s[i] \in S
    BY <1>1
  <2>2. Len(a) = IF 1 <= k - 1 THEN k - 1 - 1 + 1 ELSE 0
    BY <2>1, SubSeqProperties
  <2> QED BY <1>1, <2>2
<1>6. Len(b) = Len(s) - k
  <2>1. k + 1 \in Int /\ Len(s) \in Int /\ \A i \in (k + 1)..Len(s) : s[i] \in S
    BY <1>1
  <2>2. Len(b) = IF k + 1 <= Len(s) THEN Len(s) - (k + 1) + 1 ELSE 0
    BY <2>1, SubSeqProperties
  <2> QED BY <1>1, <2>2
<1>7. RemoveAt(s, k) = a \o b
  BY DEF RemoveAt
<1> HIDE DEF a, b
<1>8. a \o b \in Seq(S) /\ \A x : x \in Range(a \o b) <=> x \in Range(a) \/ x \in Range(b)
  BY <1>3, <1>4, JoinedIs
<1>9. Len(a \o b) = Len(a) + Len(b)
  BY <1>3, <1>4, ConcatProperties
<1>10. \A i : i \in 1..Len(s) /\ i # k <=> i \in 1..(k - 1) \/ i \in (k + 1)..Len(s)
  BY <1>1
<1>11. Len(RemoveAt(s, k)) = Len(s) - 1
  BY <1>1, <1>5, <1>6, <1>7, <1>9
<1>12. \A x : x \in Range(a \o b) <=> \E i \in 1..Len(s) : i # k /\ x = s[i]
  BY <1>3, <1>4, <1>8, <1>10
<1> QED BY <1>7, <1>8, <1>11, <1>12

\* What InsertAt returns has one element more.
LEMMA InsertAtIs ==
  ASSUME NEW S, NEW s \in Seq(S), NEW k \in 1..(Len(s) + 1), NEW e \in S
  PROVE  /\ InsertAt(s, k, e) \in Seq(S)
         /\ \A x : x \in Range(InsertAt(s, k, e)) <=> x = e \/ x \in Range(s)
<1> DEFINE a == SubSeq(s, 1, k - 1)
           b == SubSeq(s, k, Len(s))
           one == <<e>>
<1>1. Len(s) \in Nat /\ DOMAIN s = 1..Len(s)
  BY LenProperties
<1>2. 1 \in 1..(Len(s) + 1) /\ k - 1 \in 0..Len(s) /\ Len(s) \in 0..Len(s)
  BY <1>1
<1>3. a \in Seq(S) /\ \A x : x \in Range(a) <=> \E i \in 1..(k - 1) : x = s[i]
  BY <1>2, PartIs
<1>4. b \in Seq(S) /\ \A x : x \in Range(b) <=> \E i \in k..Len(s) : x = s[i]
  BY <1>2, PartIs
<1>5. one \in Seq(S) /\ \A x : x \in Range(one) <=> x = e
  <2>1. DOMAIN one = 1..1 /\ one[1] = e
    OBVIOUS
  <2>2. one \in Seq(S)
    OBVIOUS
  <2> QED BY <2>1, <2>2 DEF Range
<1>6. InsertAt(s, k, e) = (a \o one) \o b
  BY DEF InsertAt
<1> HIDE DEF a, b, one
<1>7. a \o one \in Seq(S) /\ \A x : x \in Range(a \o one) <=> x \in Range(a) \/ x \in Range(one)
  BY <1>3, <1>5, JoinedIs
<1> DEFINE c == a \o one
<1>8. c \in Seq(S)
  BY <1>7
<1> HIDE DEF c
<1>9. c \o b \in Seq(S) /\ \A x : x \in Range(c \o b) <=> x \in Range(c) \/ x \in Range(b)
  BY <1>4, <1>8, JoinedIs
<1>10. \A x : x \in Range(s) <=> \E i \in 1..Len(s) : x = s[i]
  BY <1>1 DEF Range
<1>11. \A i : i \in 1..Len(s) <=> i \in 1..(k - 1) \/ i \in k..Len(s)
  BY <1>1
<1>12. \A x : x \in Range(c) <=> x = e \/ \E i \in 1..(k - 1) : x = s[i]
  BY <1>3, <1>5, <1>7 DEF c
<1> QED BY <1>4, <1>6, <1>9, <1>10, <1>11, <1>12 DEF c

------------------------------------------------------------------------------
(* The Podcasts list. *)

\* The lists of both universes, in sequences.
LEMMA OfKindIs ==
  ASSUME NEW db, SoundRecords(db), \A d \in Range(db.datasets) : SoundDataset(d, db.tracks), NEW kind \in {2, 3}
  PROVE  OfKind(db, kind) \in Seq(ListsOf(Range(db.datasets), {2, 3}))
<1> DEFINE U == ListsOf(Range(db.datasets), {2, 3})
           Q == Seq(U)
           seqs == [n \in DOMAIN db.datasets |-> IF db.datasets[n].kind = kind THEN db.datasets[n].lists ELSE <<>>]
<1>1. IsSeq(db.datasets)
  BY DEF SoundRecords
<1>2. ASSUME NEW n \in DOMAIN db.datasets PROVE seqs[n] \in Q
  <2> DEFINE d == db.datasets[n]
  <2>1. d \in Range(db.datasets)
    BY DEF Range
  <2>2. IsSeq(d.lists)
    BY <2>1 DEF SoundDataset, WellFormedDataset
  <2>3. CASE d.kind = kind
    <3>1. Range(d.lists) \subseteq U
      BY <2>1, <2>3, ListsOfIs
    <3>2. d.lists \in Seq(Range(d.lists))
      BY <2>2 DEF IsSeq
    <3> HIDE DEF U
    <3>3. d.lists \in Seq(U)
      BY <3>1, <3>2, SeqNarrow
    <3> QED BY <2>3, <3>3
  <2>4. CASE d.kind # kind
    <3> HIDE DEF U
    <3> QED BY <2>4, EmptySeq
  <2> QED BY <2>3, <2>4
<1>3. seqs \in [DOMAIN db.datasets -> Q]
  BY <1>2
<1> HIDE DEF seqs
<1>4. seqs \in Seq(Q)
  <2> HIDE DEF Q
  <2> QED BY <1>1, <1>3, MappedIs
<1> HIDE DEF U
<1>5. FlattenSeq(seqs) \in Seq(U)
  BY <1>4, FlattenedIs
<1> QED BY <1>5 DEF OfKind, seqs, U

\* The Podcasts lists among some.
LEMMA PodcastsIs ==
  ASSUME NEW S, NEW s \in Seq(S)
  PROVE  Podcasts(s) \in Seq(S) /\ \A x \in Range(Podcasts(s)) : x \in S /\ IsPodcast(x)
<1> DEFINE P == {n \in DOMAIN s : IsPodcast(s[n])}
<1>1. DOMAIN s = 1..Len(s) /\ \A n \in 1..Len(s) : s[n] \in S
  BY LenProperties, ElementOfSeq
<1>2. P \in SUBSET (1..Len(s)) /\ \A n \in P : IsPodcast(s[n])
  BY <1>1
<1>3. Podcasts(s) = Selected(s, P)
  BY DEF Podcasts
<1> HIDE DEF P
<1>4. Selected(s, P) \in Seq(S) /\ \A x : x \in Range(Selected(s, P)) <=> \E n \in P : x = s[n]
  BY <1>2, SelectedRange
<1> QED BY <1>1, <1>2, <1>3, <1>4

\* What the library reads is of the universes.
LEMMA ReadListsAre ==
  ASSUME NEW db, SoundRecords(db), \A d \in Range(db.datasets) : SoundDataset(d, db.tracks)
  PROVE  ReadLists(db) \in Seq(ListsOf(Range(db.datasets), {2, 3}))
<1> DEFINE U == ListsOf(Range(db.datasets), {2, 3})
           flat == OfKind(db, 2)
           other == OfKind(db, 3)
           P == {n \in DOMAIN other : other[n].role = "podcast" /\ \A f \in Range(flat) : f.id # other[n].id}
<1>1. flat \in Seq(U) /\ other \in Seq(U)
  BY OfKindIs
<1>2. ReadLists(db) = flat \o Selected(other, P)
  BY DEF ReadLists
<1> HIDE DEF flat, other, U
<1>3. P \in SUBSET (1..Len(other))
  BY <1>1, LenProperties
<1> HIDE DEF P
<1>4. Selected(other, P) \in Seq(U)
  BY <1>1, <1>3, SelectedRange
<1>5. flat \o Selected(other, P) \in Seq(U)
  BY <1>1, <1>4, ConcatProperties
<1> QED BY <1>2, <1>5 DEF U

\* The list that the Podcasts lists are made of.
LEMMA TemplateIs ==
  ASSUME NEW db, SoundRecords(db), \A d \in Range(db.datasets) : SoundDataset(d, db.tracks)
  PROVE  /\ DOMAIN PodcastTemplate(db) = {"id", "role", "name", "items", "index"} /\ PodcastTemplate(db).role = "podcast"
         /\ PodcastTemplate(db) \in ListsOf(Range(db.datasets), {2, 3}) \/ PodcastTemplate(db).id = PodcastId
<1> DEFINE U == ListsOf(Range(db.datasets), {2, 3})
           a == PodcastLists(db, 2)
           b == PodcastLists(db, 3)
           lists == a \o b
           fresh == [id |-> PodcastId, role |-> "podcast", name |-> "Podcasts", items |-> <<>>, index |-> <<>>]
           t == PodcastTemplate(db)
<1>1. OfKind(db, 2) \in Seq(U) /\ OfKind(db, 3) \in Seq(U)
  BY OfKindIs
<1>2. t = IF lists # <<>> THEN lists[1] ELSE fresh
  BY DEF PodcastTemplate
<1>3. ASSUME NEW l \in U PROVE DOMAIN l = {"id", "role", "name", "items", "index"}
  <2>1. PICK d \in Range(db.datasets) : l \in Range(d.lists)
    BY ListsOfIs
  <2> QED BY <2>1 DEF SoundDataset, WellFormedDataset, WellFormedList
<1>4. DOMAIN fresh = {"id", "role", "name", "items", "index"} /\ fresh.role = "podcast" /\ fresh.id = PodcastId
  OBVIOUS
<1> HIDE DEF U, fresh
<1>5. a \in Seq(U) /\ \A x \in Range(a) : IsPodcast(x)
  BY <1>1, PodcastsIs DEF PodcastLists
<1>6. b \in Seq(U) /\ \A x \in Range(b) : IsPodcast(x)
  BY <1>1, PodcastsIs DEF PodcastLists
<1> HIDE DEF a, b, t
<1>7. lists \in Seq(U) /\ \A x : x \in Range(lists) <=> x \in Range(a) \/ x \in Range(b)
  BY <1>5, <1>6, JoinedIs
<1> HIDE DEF lists
<1>8. CASE lists # <<>>
  <2>1. 1 \in DOMAIN lists /\ lists[1] \in U
    BY <1>7, <1>8, EmptySeq, LenProperties, ElementOfSeq
  <2>2. IsPodcast(lists[1])
    BY <1>5, <1>6, <1>7, <2>1 DEF Range
  <2> QED BY <1>2, <1>3, <1>8, <2>1, <2>2 DEF IsPodcast, U, t
<1>9. CASE lists = <<>>
  BY <1>2, <1>4, <1>9 DEF t
<1> QED BY <1>8, <1>9

\* The first of its equals stays.
LEMMA FirstsAre ==
  ASSUME NEW S, NEW s \in Seq(S)
  PROVE  Firsts(s) \in Seq(S)
<1> DEFINE P == {n \in DOMAIN s : \A m \in 1..(n - 1) : s[m] # s[n]}
<1>1. P \in SUBSET (1..Len(s))
  BY LenProperties
<1>2. Firsts(s) = Selected(s, P)
  BY DEF Firsts
<1> HIDE DEF P
<1> QED BY <1>1, <1>2, SelectedRange

\* The episodes are tracks.
LEMMA EpisodesAre ==
  ASSUME NEW db, SoundRecords(db)
  PROVE  /\ Episodes(db) \in Seq(TrackRows) /\ Range(Episodes(db)) \subseteq Range(db.tracks)
         /\ EpisodeIds(db) \subseteq TrackIds(db.tracks)
<1> DEFINE P == {n \in DOMAIN db.tracks : db.tracks[n].kind = "podcast"}
<1>1. db.tracks \in Seq(TrackRows)
  BY DEF SoundRecords
<1>2. P \in SUBSET (1..Len(db.tracks)) /\ DOMAIN db.tracks = 1..Len(db.tracks)
  BY <1>1, LenProperties
<1>3. Episodes(db) = Selected(db.tracks, P)
  BY DEF Episodes
<1> HIDE DEF P
<1>4. Selected(db.tracks, P) \in Seq(TrackRows) /\ \A x : x \in Range(Selected(db.tracks, P)) <=> \E n \in P : x = db.tracks[n]
  BY <1>1, <1>2, SelectedRange
<1>5. Range(Episodes(db)) \subseteq Range(db.tracks)
  BY <1>2, <1>3, <1>4 DEF Range
<1> QED BY <1>3, <1>4, <1>5 DEF EpisodeIds, TrackIds

\* The Podcasts list is given tracks of the database.
LEMMA FlatEpisodesAre ==
  ASSUME NEW db, SoundRecords(db), \A d \in Range(db.datasets) : SoundDataset(d, db.tracks)
  PROVE  FlatEpisodes(db) \in Seq(TrackIds(db.tracks))
<1> DEFINE U == ListsOf(Range(db.datasets), {2, 3})
           T == TrackIds(db.tracks)
           existing == ExistingPodcasts(db)
           members == IF existing = <<>> THEN <<>> ELSE MemberIds(existing[1])
           P == {n \in DOMAIN members : members[n] \in EpisodeIds(db)}
           chosen == Selected(members, P)
           listed == Firsts(chosen)
           episodes == Episodes(db)
           Q == {n \in DOMAIN episodes : episodes[n].id \notin Range(listed)}
           others == Selected(episodes, Q)
           back == [n \in DOMAIN others |-> others[n].id]
<1>1. ReadLists(db) \in Seq(U)
  BY ReadListsAre
<1>2. existing \in Seq(U)
  <2> HIDE DEF U
  <2> QED BY <1>1, PodcastsIs DEF ExistingPodcasts
<1>3. ASSUME NEW l \in U PROVE IsSeq(l.items)
  <2>1. PICK d \in Range(db.datasets) : l \in Range(d.lists)
    BY ListsOfIs
  <2> QED BY <2>1 DEF SoundDataset, WellFormedDataset, WellFormedList
<1>4. FlatEpisodes(db) = listed \o back
  BY DEF FlatEpisodes
<1>5. episodes \in Seq(TrackRows) /\ Range(episodes) \subseteq Range(db.tracks) /\ EpisodeIds(db) \subseteq T
  BY EpisodesAre
<1> HIDE DEF U, T, existing, episodes
<1>6. \E S : members \in Seq(S)
  <2>1. CASE existing = <<>>
    BY <2>1, EmptySeq
  <2>2. CASE existing # <<>>
    <3> DEFINE l == existing[1]
               ids == [n \in DOMAIN l.items |-> l.items[n].track]
               S == {l.items[n].track : n \in DOMAIN l.items}
               R == {n \in DOMAIN ids : ids[n] # 0}
    <3>1. l \in U
      BY <1>2, <2>2, EmptySeq, LenProperties, ElementOfSeq
    <3>2. IsSeq(l.items)
      BY <1>3, <3>1
    <3>3. ids \in [DOMAIN l.items -> S] /\ DOMAIN ids = DOMAIN l.items
      OBVIOUS
    <3> HIDE DEF l, ids, S
    <3>4. ids \in Seq(S)
      <4> DEFINE its == l.items
      <4>1. IsSeq(its) /\ ids \in [DOMAIN its -> S]
        BY <3>2, <3>3
      <4> HIDE DEF its
      <4> QED BY <4>1, MappedIs
    <3>5. R \in SUBSET (1..Len(ids))
      BY <3>4, LenProperties
    <3>6. members = Selected(ids, R)
      BY <2>2 DEF MemberIds, ids, l
    <3> HIDE DEF R, members
    <3>7. members \in Seq(S)
      BY <3>4, <3>5, <3>6, SelectedRange
    <3> QED BY <3>7
  <2> QED BY <2>1, <2>2
<1> HIDE DEF members
<1>7. PICK S : members \in Seq(S)
  BY <1>6
<1>8. P \in SUBSET (1..Len(members)) /\ \A n \in P : members[n] \in T
  BY <1>5, <1>7, LenProperties
<1> HIDE DEF P
<1>9. chosen \in Seq(S) /\ \A x : x \in Range(chosen) <=> \E n \in P : x = members[n]
  BY <1>7, <1>8, SelectedRange
<1>10. Range(chosen) \subseteq T
  BY <1>8, <1>9
<1> HIDE DEF chosen
<1>11. chosen \in Seq(T)
  BY <1>9, <1>10, SeqNarrow
<1>12. listed \in Seq(T)
  BY <1>11, FirstsAre
<1> HIDE DEF listed
<1>13. Q \in SUBSET (1..Len(episodes)) /\ DOMAIN episodes = 1..Len(episodes)
  BY <1>5, LenProperties
<1> HIDE DEF Q
<1>14. others \in Seq(TrackRows) /\ \A x : x \in Range(others) <=> \E n \in Q : x = episodes[n]
  BY <1>5, <1>13, SelectedRange
<1> HIDE DEF others
<1>15. IsSeq(others)
  BY <1>14, SeqFacts
<1>16. ASSUME NEW n \in DOMAIN others PROVE back[n] \in T
  <2>1. PICK m \in Q : others[n] = episodes[m]
    BY <1>14 DEF Range
  <2>2. episodes[m] \in Range(db.tracks)
    BY <1>5, <1>13 DEF Range
  <2> QED BY <2>1, <2>2 DEF TrackIds, T
<1>17. back \in [DOMAIN others -> T]
  BY <1>16
<1> HIDE DEF back
<1>18. back \in Seq(T)
  BY <1>15, <1>17, MappedIs
<1>19. listed \o back \in Seq(T)
  BY <1>12, <1>18, ConcatProperties
<1> QED BY <1>4, <1>19 DEF T

\* The grouped list has headers and tracks of the database.
LEMMA GroupedItemsAre ==
  ASSUME NEW db, NEW T, NEW members \in Seq(T), NEW first
  PROVE  /\ ItemRecords(GroupedItems(db, members, first))
         /\ \A n \in DOMAIN GroupedItems(db, members, first) : GroupedItems(db, members, first)[n].track \in T \cup {0}
<1> DEFINE shows == Shows(db, members)
           of(k) == OfShow(db, members, shows[k])
           gid(k, n) == HeadOf(db, members, first, k) + n
           H == {Header(gid(k, 0)) : k \in DOMAIN shows}
           EpisodesAt(k) == {Episode(of(k)[n], gid(k, n), gid(k, 0)) : n \in DOMAIN of(k)}
           S == H \cup UNION {EpisodesAt(k) : k \in DOMAIN shows}
           Q == Seq(S)
           Group(k) == <<Header(gid(k, 0))>> \o [n \in DOMAIN of(k) |-> Episode(of(k)[n], gid(k, n), gid(k, 0))]
           seqs == [k \in DOMAIN shows |-> Group(k)]
           items == GroupedItems(db, members, first)
<1>1. items = FlattenSeq(seqs)
  BY DEF GroupedItems
<1>2. DOMAIN members = 1..Len(members) /\ Len(members) \in Nat /\ IsSeq(members)
  BY SeqFacts
<1>3. \E V : shows \in Seq(V)
  <2> DEFINE names == [n \in DOMAIN members |-> ShowOf(db, members[n])]
             V == {ShowOf(db, members[n]) : n \in DOMAIN members}
  <2>1. names \in [DOMAIN members -> V]
    OBVIOUS
  <2>2. shows = Firsts(names)
    BY DEF Shows
  <2> HIDE DEF names, V, shows
  <2>3. names \in Seq(V)
    BY <1>2, <2>1, MappedIs
  <2>4. shows \in Seq(V)
    BY <2>2, <2>3, FirstsAre
  <2> QED BY <2>4
<1>4. ASSUME NEW k \in DOMAIN shows PROVE of(k) \in Seq(T)
  <2> DEFINE P == {n \in DOMAIN members : ShowOf(db, members[n]) = shows[k]}
  <2>1. P \in SUBSET (1..Len(members))
    BY <1>2
  <2>2. of(k) = Selected(members, P)
    BY DEF OfShow
  <2> HIDE DEF P, of
  <2> QED BY <2>1, <2>2, SelectedRange
<1> HIDE DEF shows
<1>5. PICK V : shows \in Seq(V)
  BY <1>3
<1>6. IsSeq(shows)
  BY <1>5, SeqFacts
<1> HIDE DEF of, gid, items
<1>7. ASSUME NEW x \in S PROVE DOMAIN x = {"track", "position", "gid", "group"} /\ x.track \in T \cup {0}
  <2>1. ASSUME NEW g PROVE DOMAIN Header(g) = {"track", "position", "gid", "group"} /\ Header(g).track = 0
    BY DEF Header
  <2>2. ASSUME NEW i, NEW g, NEW h PROVE DOMAIN Episode(i, g, h) = {"track", "position", "gid", "group"} /\ Episode(i, g, h).track = i
    BY DEF Episode
  <2>3. CASE x \in H
    BY <2>1, <2>3
  <2>4. CASE x \notin H
    <3>1. PICK k \in DOMAIN shows : x \in EpisodesAt(k)
      BY <2>4
    <3>2. PICK n \in DOMAIN of(k) : x = Episode(of(k)[n], gid(k, n), gid(k, 0))
      BY <3>1
    <3>3. of(k)[n] \in T
      BY <1>4, <3>2, LenProperties, ElementOfSeq
    <3> QED BY <2>2, <3>2, <3>3
  <2> QED BY <2>3, <2>4
<1>8. ASSUME NEW k \in DOMAIN shows PROVE Group(k) \in Seq(S)
  <2> DEFINE eps == [n \in DOMAIN of(k) |-> Episode(of(k)[n], gid(k, n), gid(k, 0))]
             o == of(k)
  <2>1. IsSeq(o)
    BY <1>4, SeqFacts
  <2>2. EpisodesAt(k) \subseteq S /\ Header(gid(k, 0)) \in S
    OBVIOUS
  <2>3. eps \in [DOMAIN o -> S]
    BY <2>2
  <2> HIDE DEF S, eps, o
  <2>4. eps \in Seq(S)
    BY <2>1, <2>3, MappedIs
  <2>5. <<Header(gid(k, 0))>> \in Seq(S)
    BY <2>2
  <2>6. <<Header(gid(k, 0))>> \o eps \in Seq(S)
    BY <2>4, <2>5, ConcatProperties
  <2> QED BY <2>6 DEF eps
<1> HIDE DEF S, Group
<1>9. seqs \in [DOMAIN shows -> Q]
  BY <1>8
<1> HIDE DEF seqs
<1>10. seqs \in Seq(Q)
  <2> HIDE DEF Q
  <2> QED BY <1>6, <1>9, MappedIs
<1>11. items \in Seq(S)
  BY <1>1, <1>10, FlattenedIs
<1>12. IsSeq(items) /\ \A n \in DOMAIN items : items[n] \in S
  BY <1>11, SeqFacts
<1> QED BY <1>7, <1>12 DEF ItemRecords, items

\* The Podcasts list of a dataset is replaced, or added at the end.
LEMMA ReplacedPodcastIs ==
  ASSUME NEW lists, IsSeq(lists), 1 \in DOMAIN lists, ~ IsPodcast(lists[1]), NEW list, IsPodcast(list)
  PROVE  LET r == ReplacedPodcast(lists, list)
         IN  /\ IsSeq(r) /\ 1 \in DOMAIN r /\ r[1] = lists[1]
             /\ \A x : x \in Range(r) <=> x = list \/ (x \in Range(lists) /\ ~ IsPodcast(x))
<1> DEFINE r == ReplacedPodcast(lists, list)
           L == Range(lists)
           S == L \cup {list}
           N == Len(lists)
<1>1. N \in Nat /\ DOMAIN lists = 1..N /\ \A x : x \in L <=> \E n \in DOMAIN lists : x = lists[n]
  BY ItsRange
<1>2. lists \in Seq(S)
  <2>1. lists \in Seq(L) /\ L \subseteq S
    BY DEF IsSeq
  <2> HIDE DEF L, S
  <2> QED BY <2>1, SeqNarrow
<1>3. CASE \E n \in DOMAIN lists : IsPodcast(lists[n])
  <2> DEFINE f == [n \in DOMAIN lists |-> IF IsPodcast(lists[n]) THEN list ELSE lists[n]]
  <2>1. r = f
    BY <1>3 DEF ReplacedPodcast
  <2>2. f \in [DOMAIN lists -> S]
    BY <1>1
  <2>3. \A n \in DOMAIN lists : f[n] = IF IsPodcast(lists[n]) THEN list ELSE lists[n]
    OBVIOUS
  <2> HIDE DEF f, S, r, L
  <2>4. f \in Seq(S) /\ DOMAIN f = DOMAIN lists /\ \A x : x \in Range(f) <=> \E n \in DOMAIN lists : x = f[n]
    BY <2>2, MappedIs
  <2>5. IsSeq(f)
    BY <2>4, SeqFacts
  <2>6. ASSUME NEW x, x \in Range(f) PROVE x = list \/ (x \in L /\ ~ IsPodcast(x))
    <3>1. PICK n \in DOMAIN lists : x = f[n]
      BY <2>4, <2>6
    <3> QED BY <1>1, <2>3, <3>1
  <2>7. ASSUME NEW x, x \in L, ~ IsPodcast(x) PROVE x \in Range(f)
    <3>1. PICK n \in DOMAIN lists : x = lists[n]
      BY <1>1, <2>7
    <3> QED BY <2>3, <2>4, <2>7, <3>1
  <2>8. list \in Range(f)
    BY <1>3, <2>3, <2>4
  <2>9. f[1] = lists[1]
    BY <2>3
  <2> QED BY <2>1, <2>4, <2>5, <2>6, <2>7, <2>8, <2>9 DEF r, L
<1>4. CASE ~ \E n \in DOMAIN lists : IsPodcast(lists[n])
  <2>1. r = Append(lists, list)
    BY <1>4 DEF ReplacedPodcast
  <2>2. list \in S
    OBVIOUS
  <2> HIDE DEF S, r, L
  <2>3. r \in Seq(S) /\ Len(r) = N + 1 /\ (\A i \in 1..N : r[i] = lists[i]) /\ r[N + 1] = list
    BY <1>2, <2>1, <2>2, AppendProperties
  <2>4. DOMAIN r = 1..(N + 1) /\ IsSeq(r)
    BY <2>3, SeqFacts
  <2> HIDE DEF N
  <2>5. 1 \in 1..N /\ 1 \in 1..(N + 1)
    BY <1>1
  <2>6. ASSUME NEW x, x \in Range(r) PROVE x = list \/ (x \in L /\ ~ IsPodcast(x))
    <3>1. PICK n \in 1..(N + 1) : x = r[n]
      BY <2>4, <2>6 DEF Range
    <3>2. CASE n = N + 1
      BY <2>3, <3>1, <3>2
    <3>3. CASE n # N + 1
      <4>1. n \in 1..N
        BY <1>1, <3>1, <3>3
      <4> QED BY <1>1, <1>4, <2>3, <3>1, <4>1
    <3> QED BY <3>2, <3>3
  <2>7. ASSUME NEW x, x \in L PROVE x \in Range(r)
    <3>1. PICK n \in 1..N : x = lists[n]
      BY <1>1, <2>7
    <3>2. n \in 1..(N + 1) /\ r[n] = x
      BY <1>1, <2>3, <3>1
    <3> QED BY <2>4, <3>2 DEF Range
  <2>8. list \in Range(r)
    <3>1. N + 1 \in 1..(N + 1)
      BY <1>1
    <3> QED BY <2>3, <2>4, <3>1 DEF Range
  <2> QED BY <2>3, <2>4, <2>5, <2>6, <2>7, <2>8 DEF r, L
<1> QED BY <1>3, <1>4

\* Two of a set that has at most one are the same.
LEMMA AtMostOne ==
  ASSUME NEW S, IsFiniteSet(S), Cardinality(S) <= 1, NEW x \in S, NEW y \in S
  PROVE  x = y
<1>1. SUFFICES ASSUME x # y PROVE FALSE
  OBVIOUS
<1> DEFINE P == {x}
           Q == P \cup {y}
<1>2. IsFiniteSet(P) /\ Cardinality(P) = 1
  BY FS_Singleton
<1>3. y \notin P
  BY <1>1
<1> HIDE DEF P
<1>4. IsFiniteSet(Q) /\ Cardinality(Q) = Cardinality(P) + 1
  BY <1>2, <1>3, FS_AddElement
<1>5. Q \subseteq S
  BY DEF P
<1> HIDE DEF Q
<1>6. Cardinality(Q) <= Cardinality(S) /\ Cardinality(S) \in Nat
  BY <1>5, FS_Subset, FS_CardinalityType
<1> QED BY <1>2, <1>4, <1>6

\* The order of the two universes may change, the datasets stay.
LEMMA GroupedFirstIs ==
  ASSUME NEW datasets, IsSeq(datasets), \E n \in DOMAIN datasets : datasets[n].kind = 2,
         \E n \in DOMAIN datasets : datasets[n].kind = 3
  PROVE  IsSeq(GroupedFirst(datasets)) /\ \A x : x \in Range(GroupedFirst(datasets)) <=> x \in Range(datasets)
<1> DEFINE S == Range(datasets)
           N == Len(datasets)
           p == CHOOSE n \in DOMAIN datasets : datasets[n].kind = 2
           q == CHOOSE n \in DOMAIN datasets : datasets[n].kind = 3
           e == datasets[q]
           t == RemoveAt(datasets, q)
           u == InsertAt(t, p, e)
<1>1. N \in Nat /\ DOMAIN datasets = 1..N /\ datasets \in Seq(S) /\ \A x : x \in S <=> \E n \in DOMAIN datasets : x = datasets[n]
  BY ItsRange DEF IsSeq
<1>2. p \in 1..N /\ datasets[p].kind = 2
  BY <1>1
<1>3. q \in 1..N /\ datasets[q].kind = 3
  BY <1>1
<1>4. GroupedFirst(datasets) = IF q < p THEN datasets ELSE u
  BY DEF GroupedFirst
<1> HIDE DEF p, q, S
<1>5. CASE q < p
  BY <1>4, <1>5
<1>6. CASE ~(q < p)
  <2>1. /\ t \in Seq(S) /\ Len(t) = N - 1
        /\ \A x : x \in Range(t) <=> \E i \in 1..N : i # q /\ x = datasets[i]
    BY <1>1, <1>3, RemoveAtIs
  <2> HIDE DEF t, e, N
  <2>2. p \in 1..(Len(t) + 1)
    BY <1>1, <1>2, <2>1
  <2>3. e \in S
    BY <1>1, <1>3 DEF e
  <2>4. u \in Seq(S) /\ \A x : x \in Range(u) <=> x = e \/ x \in Range(t)
    BY <2>1, <2>2, <2>3, InsertAtIs
  <2> HIDE DEF u
  <2>5. IsSeq(u)
    BY <2>4, SeqFacts
  <2>6. \A x : x \in Range(u) <=> x \in S
    BY <1>1, <1>3, <2>1, <2>4 DEF e
  <2> QED BY <1>4, <1>6, <2>5, <2>6 DEF S
<1> QED BY <1>5, <1>6

\* A dataset for the missing universe, copied from the other.
Copy(o, kind) == [o EXCEPT !.kind = kind]

\* What a seeded database has.
SeededFrom(ds, E) ==
  \/ E = ds /\ \A k \in {2, 3} : \E d \in Range(ds) : d.kind = k
  \/ \E k \in {2, 3} : \E o \in Range(ds) :
       /\ o.kind = 5 - k /\ \A d \in Range(ds) : d.kind # k
       /\ E = Append(ds, Copy(o, k))

\* A library that has one universe is given the other.
LEMMA SeededIs ==
  ASSUME NEW db, IsSeq(db.datasets), Kinds(db) \cap {2, 3} # {}, DOMAIN db = {"tracks", "albums", "datasets", "count", "version"},
         \A d \in Range(db.datasets) : DOMAIN d = {"kind", "lists"}
  PROVE  SeededFrom(db.datasets, Seeded(db).datasets)
<1> DEFINE ds == db.datasets
           Of(k) == {n \in DOMAIN ds : ds[n].kind = k}
           N == Len(ds)
<1>1. N \in Nat /\ DOMAIN ds = 1..N /\ \A d : d \in Range(ds) <=> \E n \in DOMAIN ds : d = ds[n]
  BY ItsRange
<1>2. Seeded(db).datasets = SeededWith(SeededWith(ds, 2), 3)
  BY DEF Seeded
<1>3. \A s, k : (\E n \in DOMAIN s : s[n].kind = k) => SeededWith(s, k) = s
  BY DEF SeededWith
<1>4. ASSUME NEW k \in {2, 3}, Of(k) = {}, NEW j, j = 5 - k, Of(j) # {}
      PROVE  \E o \in Range(ds) : o.kind = j /\ SeededWith(ds, k) = Append(ds, Copy(o, k))
  <2> DEFINE M == Min({n \in DOMAIN ds : ds[n].kind = 5 - k})
  <2>1. SeededWith(ds, k) = Append(ds, Copy(ds[M], k))
    BY <1>4 DEF SeededWith, Copy
  <2>2. Of(j) \in SUBSET Nat /\ Of(j) # {} /\ M = Min(Of(j))
    BY <1>1, <1>4
  <2> HIDE DEF M, Of
  <2>3. M \in Of(j)
    BY <2>2, MinOfNats
  <2> QED BY <1>1, <2>1, <2>3 DEF Of
<1>5. Of(2) # {} \/ Of(3) # {}
  BY DEF Kinds
<1>6. CASE Of(2) # {} /\ Of(3) # {}
  <2>1. SeededWith(ds, 2) = ds /\ SeededWith(ds, 3) = ds
    BY <1>3, <1>6
  <2>2. (\E d \in Range(ds) : d.kind = 2) /\ \E d \in Range(ds) : d.kind = 3
    BY <1>1, <1>6
  <2> QED BY <1>2, <2>1, <2>2 DEF SeededFrom
<1>7. CASE Of(2) # {} /\ Of(3) = {}
  <2>1. SeededWith(ds, 2) = ds
    BY <1>3, <1>7
  <2> HIDE DEF ds
  <2>2. 3 \in {2, 3} /\ 2 = 5 - 3
    OBVIOUS
  <2>3. PICK o \in Range(ds) : o.kind = 2 /\ SeededWith(ds, 3) = Append(ds, Copy(o, 3))
    BY <1>4, <1>7, <2>2
  <2>4. \A d \in Range(ds) : d.kind # 3
    BY <1>1, <1>7
  <2> QED BY <1>2, <2>1, <2>2, <2>3, <2>4 DEF SeededFrom, ds
<1>8. CASE Of(2) = {} /\ Of(3) # {}
  <2> HIDE DEF ds
  <2>1. 2 \in {2, 3} /\ 3 = 5 - 2
    OBVIOUS
  <2>2. PICK o \in Range(ds) : o.kind = 3 /\ SeededWith(ds, 2) = Append(ds, Copy(o, 2))
    BY <1>4, <1>8, <2>1
  <2> DEFINE S == Range(ds) \cup {Copy(o, 2)}
             s == Append(ds, Copy(o, 2))
  <2>3. ds \in Seq(S) /\ Copy(o, 2) \in S
    <3>1. ds \in Seq(Range(ds)) /\ Range(ds) \subseteq S
      BY DEF IsSeq, ds
    <3> HIDE DEF S
    <3>2. ds \in Seq(S)
      BY <3>1, SeqNarrow
    <3> QED BY <3>2 DEF S
  <2> HIDE DEF S
  <2>4. s \in Seq(S) /\ Len(s) = N + 1 /\ \A i \in 1..N : s[i] = ds[i]
    BY <2>3, AppendProperties
  <2> HIDE DEF s
  <2>5. PICK n \in 1..N : ds[n].kind = 3
    BY <1>1, <1>8
  <2>6. n \in DOMAIN s /\ s[n].kind = 3
    BY <1>1, <2>4, <2>5, LenProperties
  <2>7. SeededWith(s, 3) = s
    BY <1>3, <2>6
  <2>8. \A d \in Range(ds) : d.kind # 2
    BY <1>1, <1>8
  <2> QED BY <1>2, <2>1, <2>2, <2>7, <2>8 DEF SeededFrom, ds, s
<1> QED BY <1>5, <1>6, <1>7, <1>8

\* And it is as sound.
LEMMA SeededIsSound ==
  ASSUME NEW ds, IsSeq(ds), NEW tracks, SoundSet(Range(ds), tracks), NEW E, SeededFrom(ds, E),
         \A d, e \in Range(ds) : d.kind = e.kind /\ d.kind \in {2, 3} => d = e
  PROVE  /\ IsSeq(E) /\ SoundSet(Range(E), tracks) /\ \A k \in {2, 3} : \E d \in Range(E) : d.kind = k
         /\ ListsOf(Range(E), {2, 3}) = ListsOf(Range(ds), {2, 3})
<1> DEFINE D == Range(ds)
<1>1. (\A d \in D : SoundDataset(d, tracks)) /\ Clear(ListsOf(D, {2, 3}))
  BY DEF SoundSet
<1>2. CASE \E k \in {2, 3} : \E o \in D : o.kind = 5 - k /\ (\A d \in D : d.kind # k) /\ E = Append(ds, Copy(o, k))
  <2>1. PICK k \in {2, 3}, o \in D : o.kind = 5 - k /\ (\A d \in D : d.kind # k) /\ E = Append(ds, Copy(o, k))
    BY <1>2
  <2> DEFINE c == Copy(o, k)
             S == D \cup {c}
             N == Len(ds)
  <2>2. N \in Nat /\ DOMAIN ds = 1..N /\ \A d : d \in D <=> \E n \in DOMAIN ds : d = ds[n]
    BY ItsRange
  <2>3. ds \in Seq(S) /\ c \in S
    <3>1. ds \in Seq(D) /\ D \subseteq S
      BY DEF IsSeq
    <3> HIDE DEF S, D
    <3>2. ds \in Seq(S)
      BY <3>1, SeqNarrow
    <3> QED BY <3>2 DEF S
  <2>4. DOMAIN o = {"kind", "lists"} /\ SoundDataset(o, tracks)
    BY <1>1 DEF SoundDataset, WellFormedDataset
  <2>5. DOMAIN c = {"kind", "lists"} /\ c.kind = k /\ c.lists = o.lists
    BY <2>4 DEF Copy
  <2> HIDE DEF S, c, D
  <2>6. E \in Seq(S) /\ Len(E) = N + 1 /\ (\A i \in 1..N : E[i] = ds[i]) /\ E[N + 1] = c
    BY <2>1, <2>3, AppendProperties DEF c
  <2>7. DOMAIN E = 1..(N + 1) /\ IsSeq(E)
    BY <2>6, SeqFacts
  <2> HIDE DEF N
  <2>8. \A d : d \in Range(E) <=> d \in D \/ d = c
    <3>1. ASSUME NEW d, d \in Range(E) PROVE d \in D \/ d = c
      <4>1. PICK i \in 1..(N + 1) : d = E[i]
        BY <2>7, <3>1 DEF Range
      <4>2. i = N + 1 \/ i \in 1..N
        BY <2>2, <4>1
      <4> QED BY <2>2, <2>6, <4>1, <4>2
    <3>2. ASSUME NEW d, d \in D PROVE d \in Range(E)
      <4>1. PICK i \in 1..N : d = ds[i]
        BY <2>2, <3>2
      <4>2. i \in 1..(N + 1) /\ E[i] = d
        BY <2>2, <2>6, <4>1
      <4> QED BY <2>7, <4>2 DEF Range
    <3>3. c \in Range(E)
      <4>1. N + 1 \in 1..(N + 1)
        BY <2>2
      <4> QED BY <2>6, <2>7, <4>1 DEF Range
    <3> QED BY <3>1, <3>2, <3>3
  <2>9. o.kind \in {2, 3} /\ o.kind # k /\ {o.kind, k} = {2, 3}
    BY <2>1
  <2>10. SoundDataset(c, tracks)
    BY <2>4, <2>5, <2>9 DEF SoundDataset, WellFormedDataset
  <2>11. \A x, kinds : x \in ListsOf(Range(E), kinds) <=> \E d \in Range(E) : d.kind \in kinds /\ x \in Range(d.lists)
    BY ListsOfIs
  <2>12. \A x, kinds : x \in ListsOf(D, kinds) <=> \E d \in D : d.kind \in kinds /\ x \in Range(d.lists)
    BY ListsOfIs
  <2>13. \A x : x \in ListsOf(Range(E), {2, 3}) <=> x \in ListsOf(D, {2, 3})
    <3>1. ASSUME NEW x, x \in ListsOf(Range(E), {2, 3}) PROVE x \in ListsOf(D, {2, 3})
      <4>1. PICK d \in Range(E) : d.kind \in {2, 3} /\ x \in Range(d.lists)
        BY <2>11, <3>1
      <4>2. CASE d = c
        BY <2>1, <2>5, <2>9, <2>12, <4>1, <4>2 DEF D
      <4>3. CASE d # c
        BY <2>8, <2>12, <4>1, <4>3
      <4> QED BY <4>2, <4>3
    <3>2. ASSUME NEW x, x \in ListsOf(D, {2, 3}) PROVE x \in ListsOf(Range(E), {2, 3})
      BY <2>8, <2>11, <2>12, <3>2
    <3> QED BY <3>1, <3>2
  <2>14. ListsOf(Range(E), {2, 3}) = ListsOf(D, {2, 3})
    BY <2>13
  <2>15. \A x : x \in ListsOf(Range(E), {k}) <=> x \in Range(o.lists)
    BY <2>1, <2>5, <2>8, <2>11 DEF D
  <2>16. \A x : x \in ListsOf(Range(E), {o.kind}) <=> x \in Range(o.lists)
    <3>1. o \in Range(E) /\ c.kind # o.kind
      BY <2>1, <2>5, <2>8, <2>9 DEF D
    <3>2. ASSUME NEW d \in Range(E), d.kind = o.kind PROVE d = o
      BY <2>1, <2>8, <2>9, <3>1, <3>2 DEF D
    <3> QED BY <2>11, <3>1, <3>2
  <2>17. ListsOf(Range(E), {k}) = ListsOf(Range(E), {o.kind})
    BY <2>15, <2>16
  <2>18. ListsOf(Range(E), {2}) = ListsOf(Range(E), {3})
    BY <2>9, <2>17
  <2>19. \A d \in Range(E) : SoundDataset(d, tracks)
    BY <1>1, <2>8, <2>10 DEF D
  <2>20. SoundSet(Range(E), tracks)
    BY <1>1, <2>14, <2>18, <2>19 DEF SoundSet, D
  <2>21. \A j \in {2, 3} : \E d \in Range(E) : d.kind = j
    BY <2>1, <2>5, <2>8, <2>9 DEF D
  <2> QED BY <2>7, <2>14, <2>20, <2>21 DEF D
<1>3. CASE E = ds /\ \A k \in {2, 3} : \E d \in D : d.kind = k
  BY <1>3
<1> QED BY <1>2, <1>3 DEF SeededFrom

\* The Podcasts list that a universe is given.
PodcastOf(flat, grouped, kind) == IF kind = 2 THEN flat ELSE grouped

\* A dataset with its Podcasts list put.
WithPodcast(d, flat, grouped) ==
  CASE d.kind = 2 -> [d EXCEPT !.lists = ReplacedPodcast(@, flat)]
    [] d.kind = 3 -> [d EXCEPT !.lists = ReplacedPodcast(@, grouped)]
    [] OTHER -> d

\* It is as sound, if the list is.
LEMMA WithPodcastIs ==
  ASSUME NEW d, NEW tracks, SoundDataset(d, tracks), NEW flat, NEW grouped,
         \A l \in {flat, grouped} : WellFormedList(l) /\ ItemsKnown(l, TrackIds(tracks)) /\ IsPodcast(l)
  PROVE  LET r == WithPodcast(d, flat, grouped)
         IN  /\ SoundDataset(r, tracks) /\ r.kind = d.kind
             /\ r.kind \in {2, 3} =>
                  \A x : x \in Range(r.lists) <=> x = PodcastOf(flat, grouped, d.kind) \/ (x \in Range(d.lists) /\ ~ IsPodcast(x))
<1> DEFINE r == WithPodcast(d, flat, grouped)
           l == PodcastOf(flat, grouped, d.kind)
           lists == ReplacedPodcast(d.lists, l)
<1>1. DOMAIN d = {"kind", "lists"} /\ d.kind \in {2, 3, 5} /\ IsSeq(d.lists) /\ \A m \in Range(d.lists) : WellFormedList(m) /\ ItemsKnown(m, TrackIds(tracks))
  BY DEF SoundDataset, WellFormedDataset
<1>2. CASE d.kind \in {2, 3}
  <2>1. 1 \in DOMAIN d.lists /\ d.lists[1].role = "master" /\ d.lists[1].items = WholeItems(tracks)
    BY <1>2 DEF SoundDataset
  <2>2. ~ IsPodcast(d.lists[1])
    BY <2>1 DEF IsPodcast
  <2>3. WellFormedList(l) /\ ItemsKnown(l, TrackIds(tracks)) /\ IsPodcast(l)
    BY DEF PodcastOf
  <2>4. r = [d EXCEPT !.lists = lists]
    BY <1>2 DEF WithPodcast, PodcastOf
  <2> HIDE DEF l, r
  <2>5. /\ IsSeq(lists) /\ 1 \in DOMAIN lists /\ lists[1] = d.lists[1]
        /\ \A x : x \in Range(lists) <=> x = l \/ (x \in Range(d.lists) /\ ~ IsPodcast(x))
    BY <1>1, <2>1, <2>2, <2>3, ReplacedPodcastIs
  <2> HIDE DEF lists
  <2>6. DOMAIN r = {"kind", "lists"} /\ r.kind = d.kind /\ r.lists = lists
    BY <1>1, <2>4
  <2>7. \A m \in Range(lists) : WellFormedList(m) /\ ItemsKnown(m, TrackIds(tracks))
    BY <1>1, <2>3, <2>5
  <2>8. SoundDataset(r, tracks)
    BY <1>1, <2>1, <2>5, <2>6, <2>7 DEF SoundDataset, WellFormedDataset
  <2> QED BY <2>5, <2>6, <2>8 DEF r, l
<1>3. CASE d.kind \notin {2, 3}
  <2>1. r = d
    BY <1>3 DEF WithPodcast
  <2> HIDE DEF r
  <2>2. r.kind \notin {2, 3} /\ r.kind = d.kind /\ SoundDataset(r, tracks)
    BY <1>3, <2>1
  <2> QED BY <2>2 DEF r
<1> QED BY <1>2, <1>3

\* The universes stay clear, if the Podcasts list is of the id of one, or drawn.
LEMMA PodcastsClear ==
  ASSUME NEW L, Clear(L), NEW t, IsPodcast(t), t \in L \/ t.id = PodcastId, NEW flat, NEW grouped,
         flat.id = t.id, grouped.id = t.id, IsPodcast(flat), IsPodcast(grouped),
         NEW U, \A x \in U : x = flat \/ x = grouped \/ (x \in L /\ ~ IsPodcast(x))
  PROVE  Clear(U)
<1>1. ASSUME NEW l \in L, l.id = t.id PROVE IsPodcast(l)
  BY <1>1 DEF Clear, Drawn, IsPodcast
<1>2. ASSUME NEW x \in U, NEW y \in U, x.id = y.id PROVE x.role = y.role /\ (x.role = "list" => x = y)
  <2>1. CASE x = flat \/ x = grouped
    <3>1. x.id = t.id /\ x.role = "podcast"
      BY <2>1 DEF IsPodcast
    <3>2. y = flat \/ y = grouped
      BY <1>1, <1>2, <3>1
    <3>3. y.role = "podcast"
      BY <3>2 DEF IsPodcast
    <3> QED BY <3>1, <3>3
  <2>2. CASE y = flat \/ y = grouped
    <3>1. y.id = t.id /\ y.role = "podcast"
      BY <2>2 DEF IsPodcast
    <3>2. x = flat \/ x = grouped
      BY <1>1, <1>2, <3>1
    <3>3. x.role = "podcast"
      BY <3>2 DEF IsPodcast
    <3> QED BY <3>1, <3>3
  <2>3. CASE x \in L /\ y \in L
    BY <1>2, <2>3 DEF Clear
  <2> QED BY <2>1, <2>2, <2>3
<1>3. ASSUME NEW x \in U, x.id = PodcastId PROVE x.role = "podcast"
  <2>1. CASE x = flat \/ x = grouped
    BY <2>1 DEF IsPodcast
  <2>2. CASE x \in L
    BY <1>3, <2>2 DEF Clear, Drawn
  <2> QED BY <2>1, <2>2
<1> QED BY <1>2, <1>3 DEF Clear, Drawn

\* A list is of one universe if its id is of the other.
LEMMA PodcastIds ==
  ASSUME NEW U, NEW L, NEW l, \A x : x \in U <=> x = l \/ (x \in L /\ ~ IsPodcast(x))
  PROVE  \A i : i \in IdsOf(U) <=> i = l.id \/ \E x \in L : ~ IsPodcast(x) /\ i = x.id
BY DEF IdsOf

\* A database that can be synced has at most one dataset of each universe.
LEMMA OnePerKind ==
  ASSUME NEW db, IsSeq(db.datasets), Syncable(db)
  PROVE  \A d, e \in Range(db.datasets) : d.kind = e.kind /\ d.kind \in {2, 3} => d = e
<1> DEFINE ds == db.datasets
           D == Range(ds)
           Of(k) == {n \in DOMAIN ds : ds[n].kind = k}
<1>1. Len(ds) \in Nat /\ DOMAIN ds = 1..Len(ds) /\ \A d : d \in D <=> \E n \in DOMAIN ds : d = ds[n]
  BY ItsRange
<1>2. ASSUME NEW k \in {2, 3}, NEW m \in Of(k), NEW n \in Of(k) PROVE m = n
  <2>1. Cardinality(Of(k)) <= 1
    BY DEF Syncable
  <2>2. PICK N \in Nat : N = Len(ds) /\ DOMAIN ds = 1..N
    BY <1>1
  <2>3. 1 \in Int /\ N \in Int
    BY <2>2
  <2>4. IsFiniteSet(1..N)
    BY <2>3, FS_Interval
  <2>5. Of(k) \subseteq 1..N
    BY <2>2
  <2> HIDE DEF Of
  <2>6. IsFiniteSet(Of(k))
    BY <2>4, <2>5, FS_Subset
  <2> QED BY <2>1, <2>6, AtMostOne
<1>3. ASSUME NEW d \in D, NEW e \in D, d.kind = e.kind, d.kind \in {2, 3} PROVE d = e
  <2>1. PICK m \in DOMAIN ds : d = ds[m]
    BY <1>1
  <2>2. PICK n \in DOMAIN ds : e = ds[n]
    BY <1>1
  <2>3. m \in Of(d.kind) /\ n \in Of(d.kind)
    BY <1>3, <2>1, <2>2
  <2> HIDE DEF Of
  <2> QED BY <1>2, <1>3, <2>1, <2>2, <2>3
<1> QED BY <1>3

\* sync_podcasts leaves a sound database.
LEMMA SyncedIsSound ==
  ASSUME NEW db, Openable(db, "iTunesDB"), Syncable(db)
  PROVE  Openable(SyncedPodcasts(db), "iTunesDB")
<1> DEFINE tracks == db.tracks
           D == Range(db.datasets)
           ds == db.datasets
           E == Seeded(db).datasets
           t == PodcastTemplate(db)
           members == FlatEpisodes(db)
           items == [n \in DOMAIN members |-> MemberItem(members[n], n - 1)]
           shows == GroupedItems(db, members, NextGroupId(db))
           flat == [t EXCEPT !.items = items]
           grouped == [t EXCEPT !.items = shows]
           S == {WithPodcast(E[n], flat, grouped) : n \in DOMAIN E}
           written == [n \in DOMAIN E |-> WithPodcast(E[n], flat, grouped)]
           W == Range(written)
           ordered == GroupedFirst(written)
           r == [db EXCEPT !.datasets = ordered, !.count = Declared(db, ordered)]
           L(kinds) == ListsOf(Range(E), kinds)
<1>1. SoundRecords(db) /\ SoundSet(D, tracks)
  BY ClassicOpened
<1>2. /\ IsSeq(ds) /\ DOMAIN db = {"tracks", "albums", "datasets", "count", "version"} /\ tracks \in Seq(TrackRows)
      /\ \A d \in D : SoundDataset(d, tracks)
  BY <1>1 DEF SoundRecords, SoundSet
<1>3. Len(ds) \in Nat /\ DOMAIN ds = 1..Len(ds) /\ \A d : d \in D <=> \E n \in DOMAIN ds : d = ds[n]
  BY <1>2, ItsRange
<1>4. \A d, e \in D : d.kind = e.kind /\ d.kind \in {2, 3} => d = e
  BY <1>2, OnePerKind
<1>5. SyncedPodcasts(db) = IF Episodes(db) = <<>> /\ ExistingPodcasts(db) = <<>> THEN db ELSE r
  BY DEF SyncedPodcasts, WithPodcast
<1> HIDE DEF E, t, members, shows
<1>6. SeededFrom(ds, E)
  <2>1. Kinds(db) \cap {2, 3} # {}
    BY DEF Syncable
  <2>2. \A d \in D : DOMAIN d = {"kind", "lists"}
    BY <1>2 DEF SoundDataset, WellFormedDataset
  <2> QED BY <1>2, <2>1, <2>2, SeededIs DEF E
<1>7. /\ IsSeq(E) /\ SoundSet(Range(E), tracks) /\ \A k \in {2, 3} : \E d \in Range(E) : d.kind = k
      /\ L({2, 3}) = ListsOf(D, {2, 3})
  <2> HIDE DEF ds, tracks
  <2>1. IsSeq(ds) /\ SoundSet(Range(ds), tracks) /\ \A d, e \in Range(ds) : d.kind = e.kind /\ d.kind \in {2, 3} => d = e
    BY <1>1, <1>2, <1>4 DEF ds
  <2>2. /\ IsSeq(E) /\ SoundSet(Range(E), tracks) /\ \A k \in {2, 3} : \E d \in Range(E) : d.kind = k
        /\ ListsOf(Range(E), {2, 3}) = ListsOf(Range(ds), {2, 3})
    BY <1>6, <2>1, SeededIsSound
  <2> QED BY <2>2 DEF ds
<1>8. /\ \A d \in Range(E) : SoundDataset(d, tracks)
      /\ Clear(L({2, 3})) /\ ({2, 3} \subseteq {d.kind : d \in Range(E)} => IdsOf(L({2})) = IdsOf(L({3})))
  BY <1>7 DEF SoundSet
<1>9. /\ DOMAIN t = {"id", "role", "name", "items", "index"} /\ IsPodcast(t)
      /\ t \in ListsOf(D, {2, 3}) \/ t.id = PodcastId
  BY <1>1, <1>2, TemplateIs DEF t, IsPodcast
<1>10. members \in Seq(TrackIds(tracks))
  BY <1>1, <1>2, FlatEpisodesAre DEF members
<1>11. ItemRecords(shows) /\ \A n \in DOMAIN shows : shows[n].track \in TrackIds(tracks) \cup {0}
  <2> DEFINE T == TrackIds(tracks)
             first == NextGroupId(db)
  <2>1. members \in Seq(T)
    BY <1>10
  <2> HIDE DEF T, first
  <2>2. /\ ItemRecords(GroupedItems(db, members, first))
        /\ \A n \in DOMAIN GroupedItems(db, members, first) : GroupedItems(db, members, first)[n].track \in T \cup {0}
    BY <2>1, GroupedItemsAre
  <2> QED BY <2>2 DEF shows, T, first
<1>12. ItemRecords(items) /\ \A n \in DOMAIN items : items[n].track \in TrackIds(tracks) \cup {0}
  <2> DEFINE I == {MemberItem(members[n], n - 1) : n \in DOMAIN members}
  <2>1. IsSeq(members) /\ \A n \in DOMAIN members : members[n] \in TrackIds(tracks)
    BY <1>10, SeqFacts
  <2>2. items \in [DOMAIN members -> I]
    OBVIOUS
  <2>3. \A n \in DOMAIN members : /\ DOMAIN items[n] = {"track", "position", "gid", "group"}
                                  /\ items[n].track = members[n]
    BY DEF MemberItem
  <2> HIDE DEF items, I
  <2>4. items \in Seq(I) /\ DOMAIN items = DOMAIN members
    BY <2>1, <2>2, MappedIs
  <2>5. IsSeq(items)
    BY <2>4, SeqFacts
  <2> QED BY <2>1, <2>3, <2>4, <2>5 DEF ItemRecords
<1> HIDE DEF items
<1>13. /\ DOMAIN flat = DOMAIN t /\ flat.id = t.id /\ flat.role = t.role /\ flat.items = items
       /\ DOMAIN grouped = DOMAIN t /\ grouped.id = t.id /\ grouped.role = t.role /\ grouped.items = shows
  BY <1>9
<1> HIDE DEF flat, grouped
<1>14. \A l \in {flat, grouped} : WellFormedList(l) /\ ItemsKnown(l, TrackIds(tracks)) /\ IsPodcast(l)
  <2>1. WellFormedList(flat) /\ ItemsKnown(flat, TrackIds(tracks)) /\ IsPodcast(flat)
    BY <1>9, <1>12, <1>13 DEF WellFormedList, ItemsKnown, IsPodcast, ItemRecords
  <2>2. WellFormedList(grouped) /\ ItemsKnown(grouped, TrackIds(tracks)) /\ IsPodcast(grouped)
    BY <1>9, <1>11, <1>13 DEF WellFormedList, ItemsKnown, IsPodcast, ItemRecords
  <2> QED BY <2>1, <2>2
<1>15. \A d : d \in Range(E) <=> \E n \in DOMAIN E : d = E[n]
  BY <1>7, ItsRange
<1>16. written \in [DOMAIN E -> S] /\ \A n \in DOMAIN E : written[n] = WithPodcast(E[n], flat, grouped)
  OBVIOUS
<1> HIDE DEF written, S
<1>17. written \in Seq(S) /\ DOMAIN written = DOMAIN E /\ \A x : x \in W <=> \E n \in DOMAIN E : x = written[n]
  BY <1>7, <1>16, MappedIs
<1>18. IsSeq(written)
  BY <1>17, SeqFacts
<1>19. \A x : x \in W <=> \E d \in Range(E) : x = WithPodcast(d, flat, grouped)
  BY <1>15, <1>16, <1>17
<1>20. ASSUME NEW d \in Range(E)
       PROVE  LET w == WithPodcast(d, flat, grouped)
              IN  /\ SoundDataset(w, tracks) /\ w.kind = d.kind
                  /\ w.kind \in {2, 3} =>
                       \A x : x \in Range(w.lists) <=> x = PodcastOf(flat, grouped, d.kind) \/ (x \in Range(d.lists) /\ ~ IsPodcast(x))
  <2>1. SoundDataset(d, tracks)
    BY <1>8
  <2> QED BY <1>14, <2>1, WithPodcastIs
<1> HIDE DEF W, D
<1>21. \A w \in W : SoundDataset(w, tracks)
  BY <1>19, <1>20
<1>22. ASSUME NEW k \in {2, 3}
       PROVE  \A x : x \in ListsOf(W, {k}) <=> x = PodcastOf(flat, grouped, k) \/ (x \in L({k}) /\ ~ IsPodcast(x))
  <2>1. \A x : x \in L({k}) <=> \E d \in Range(E) : d.kind = k /\ x \in Range(d.lists)
    BY ListsOfIs
  <2>2. \A x : x \in ListsOf(W, {k}) <=> \E w \in W : w.kind = k /\ x \in Range(w.lists)
    BY ListsOfIs
  <2>3. \A x : x \in ListsOf(W, {k}) <=>
                 \E d \in Range(E) : d.kind = k /\ (x = PodcastOf(flat, grouped, k) \/ (x \in Range(d.lists) /\ ~ IsPodcast(x)))
    <3> DEFINE Wp(d) == WithPodcast(d, flat, grouped)
               New == PodcastOf(flat, grouped, k)
    <3>1. ASSUME NEW d \in Range(E), d.kind = k
          PROVE  Wp(d).kind = k /\ Wp(d) \in W /\ \A x : x \in Range(Wp(d).lists) <=> x = New \/ (x \in Range(d.lists) /\ ~ IsPodcast(x))
      <4>1. Wp(d).kind = d.kind /\ Wp(d) \in W
        BY <1>19, <1>20
      <4>2. Wp(d).kind \in {2, 3}
        BY <3>1, <4>1
      <4> QED BY <1>20, <3>1, <4>1, <4>2
    <3>2. ASSUME NEW w \in W, w.kind = k PROVE \E d \in Range(E) : d.kind = k /\ w = Wp(d)
      <4>1. PICK d \in Range(E) : w = Wp(d)
        BY <1>19
      <4>2. Wp(d).kind = d.kind
        BY <1>20
      <4> QED BY <3>2, <4>1, <4>2
    <3> HIDE DEF Wp, New
    <3>3. \A x : x \in ListsOf(W, {k}) <=> \E d \in Range(E) : d.kind = k /\ (x = New \/ (x \in Range(d.lists) /\ ~ IsPodcast(x)))
      <4>1. ASSUME NEW x, x \in ListsOf(W, {k})
            PROVE  \E d \in Range(E) : d.kind = k /\ (x = New \/ (x \in Range(d.lists) /\ ~ IsPodcast(x)))
        <5>1. PICK w \in W : w.kind = k /\ x \in Range(w.lists)
          BY <2>2, <4>1
        <5>2. PICK d \in Range(E) : d.kind = k /\ w = Wp(d)
          BY <3>2, <5>1
        <5> QED BY <3>1, <5>1, <5>2
      <4>2. ASSUME NEW x, NEW d \in Range(E), d.kind = k, x = New \/ (x \in Range(d.lists) /\ ~ IsPodcast(x))
            PROVE  x \in ListsOf(W, {k})
        <5>1. Wp(d).kind = k /\ Wp(d) \in W /\ x \in Range(Wp(d).lists)
          BY <3>1, <4>2
        <5> QED BY <2>2, <5>1
      <4> QED BY <4>1, <4>2
    <3> QED BY <3>3 DEF New
  <2>4. \E d \in Range(E) : d.kind = k
    BY <1>7
  <2> HIDE DEF L
  <2> QED BY <2>1, <2>3, <2>4
<1>23. \A x : x \in ListsOf(W, {2, 3}) <=> x \in ListsOf(W, {2}) \/ x \in ListsOf(W, {3})
  BY ListsOfIs
<1>24. \A x : x \in L({2}) \/ x \in L({3}) => x \in L({2, 3})
  BY ListsOfIs
<1>25. PodcastOf(flat, grouped, 2) = flat /\ PodcastOf(flat, grouped, 3) = grouped
  BY DEF PodcastOf
<1>26. Clear(ListsOf(W, {2, 3}))
  <2> DEFINE A == L({2, 3})
             U == ListsOf(W, {2, 3})
  <2>1. \A x \in U : x = flat \/ x = grouped \/ (x \in A /\ ~ IsPodcast(x))
    BY <1>22, <1>23, <1>24, <1>25
  <2>2. Clear(A) /\ (t \in A \/ t.id = PodcastId) /\ IsPodcast(flat) /\ IsPodcast(grouped)
    BY <1>7, <1>8, <1>9, <1>14
  <2> HIDE DEF A, U
  <2>3. Clear(U)
    BY <1>9, <1>13, <2>1, <2>2, PodcastsClear
  <2> QED BY <2>3 DEF U
<1>27. IdsOf(ListsOf(W, {2})) = IdsOf(ListsOf(W, {3}))
  <2> DEFINE A == L({2})
             B == L({3})
             U == ListsOf(W, {2})
             V == ListsOf(W, {3})
  <2>1. IdsOf(A) = IdsOf(B)
    <3>1. {2, 3} \subseteq {d.kind : d \in Range(E)}
      BY <1>7
    <3> QED BY <1>8, <3>1
  <2>2. \A x \in A : \A y \in B : x.id = y.id => x.role = y.role
    BY <1>8, <1>24 DEF Clear
  <2>3. \A x : x \in U <=> x = flat \/ (x \in A /\ ~ IsPodcast(x))
    BY <1>22, <1>25
  <2>4. \A x : x \in V <=> x = grouped \/ (x \in B /\ ~ IsPodcast(x))
    BY <1>22, <1>25
  <2> HIDE DEF A, B, U, V
  <2>5. \A i : i \in IdsOf(U) <=> i = flat.id \/ \E x \in A : ~ IsPodcast(x) /\ i = x.id
    BY <2>3, PodcastIds
  <2>6. \A i : i \in IdsOf(V) <=> i = grouped.id \/ \E x \in B : ~ IsPodcast(x) /\ i = x.id
    BY <2>4, PodcastIds
  <2>7. \A i : (\E x \in A : ~ IsPodcast(x) /\ i = x.id) <=> (\E x \in B : ~ IsPodcast(x) /\ i = x.id)
    <3>1. ASSUME NEW x \in A, ~ IsPodcast(x) PROVE \E y \in B : ~ IsPodcast(y) /\ x.id = y.id
      <4>1. x.id \in IdsOf(B)
        BY <2>1 DEF IdsOf
      <4>2. PICK y \in B : x.id = y.id
        BY <4>1 DEF IdsOf
      <4> QED BY <2>2, <3>1, <4>2 DEF IsPodcast
    <3>2. ASSUME NEW y \in B, ~ IsPodcast(y) PROVE \E x \in A : ~ IsPodcast(x) /\ y.id = x.id
      <4>1. y.id \in IdsOf(A)
        BY <2>1 DEF IdsOf
      <4>2. PICK x \in A : x.id = y.id
        BY <4>1 DEF IdsOf
      <4> QED BY <2>2, <3>2, <4>2 DEF IsPodcast
    <3> QED BY <3>1, <3>2
  <2>8. \A i : i \in IdsOf(U) <=> i \in IdsOf(V)
    BY <1>13, <2>5, <2>6, <2>7
  <2> QED BY <2>8 DEF U, V
<1>28. SoundSet(W, tracks)
  BY <1>21, <1>26, <1>27 DEF SoundSet
<1>29. (\E n \in DOMAIN written : written[n].kind = 2) /\ \E n \in DOMAIN written : written[n].kind = 3
  <2>1. ASSUME NEW k \in {2, 3} PROVE \E n \in DOMAIN written : written[n].kind = k
    <3>1. PICK d \in Range(E) : d.kind = k
      BY <1>7
    <3>2. PICK n \in DOMAIN E : d = E[n]
      BY <1>15
    <3>3. written[n].kind = k
      BY <1>16, <1>20, <3>1, <3>2
    <3> QED BY <1>17, <3>2, <3>3
  <2> QED BY <2>1
<1>30. IsSeq(ordered) /\ \A x : x \in Range(ordered) <=> x \in W
  BY <1>18, <1>29, GroupedFirstIs DEF W
<1>31. Range(ordered) = W
  BY <1>30
<1> HIDE DEF ordered
<1>32. DOMAIN r = DOMAIN db /\ r.tracks = tracks /\ r.albums = db.albums /\ r.datasets = ordered /\ r.version = db.version
  BY <1>2
<1> HIDE DEF r
<1>33. SoundRecords(r)
  BY <1>1, <1>30, <1>32 DEF SoundRecords
<1>34. SoundSet(Range(r.datasets), r.tracks)
  BY <1>28, <1>31, <1>32
<1>35. Openable(r, "iTunesDB")
  BY <1>33, <1>34, ClassicOpenable
<1> QED BY <1>5, <1>35

------------------------------------------------------------------------------
(* The invariant of the specification. *)

\* A queue of playlist edits that a session may have.
Queueing(queue) == SoundEdits(queue) /\ \A e \in queue : e.op = "create" => e.id # PodcastId

Phases == {"idle", "remove", "add", "playlists", "podcasts", "verify", "staged", "refused"}

Typed ==
  /\ container \in Containers /\ container \in {"iTunesDB", "iTunesCDB"} /\ podcasts \in BOOLEAN /\ edits \in 0..MaxEdits
  /\ request.additions \in Seq(AdditionRows) /\ added \in 0..Len(request.additions)
  /\ request.playlists = {} \/ (Classic /\ Queueing(request.playlists))
  /\ phase \in Phases /\ (phase = "refused" <=> why # "")

Sound == Openable(installed, container) /\ Openable(work, container)

\* The tracks of the database that is staged, when the edit does not both remove
\* and add: the additions so far are the first of the request.
PidsOfFirst(additions, n) == {additions[i].pid : i \in 1..n}
Following ==
  (request.removals = {} \/ request.additions = <<>>) /\ phase \notin {"idle", "refused"} =>
    /\ phase = "remove" => added = 0 /\ Pids(work.tracks) = Pids(installed.tracks)
    /\ phase = "add" =>
         Pids(work.tracks) = (Pids(installed.tracks) \ request.removals) \cup PidsOfFirst(request.additions, added)
    /\ phase \notin {"remove", "add"} =>
         Pids(work.tracks) = (Pids(installed.tracks) \ request.removals)
                             \cup PidsOfFirst(request.additions, Len(request.additions))

BInv == Typed /\ Sound /\ Following

\* The invariant says so much of the parameters.
LEMMA ParametersAre ==
  /\ \A db \in InitialDatabases, file \in Containers : Openable(db, file)
  /\ Containers \subseteq {"iTunesDB", "iTunesCDB"} /\ NewPids \in Seq(Nat) /\ Additions \subseteq AdditionRows
  /\ \A queue \in PlaylistEdits : Queueing(queue)
  /\ MaxAdditions \in Nat /\ MaxEdits \in Nat
BY BinaryAssumption DEF Openable, Queueing

\* The invariant holds of what is opened.
LEMMA OpenedIsSound == Init => BInv
<1>1. SUFFICES ASSUME Init PROVE BInv
  OBVIOUS
<1>a. /\ container \in Containers /\ podcasts \in BOOLEAN /\ edits = 0
      /\ phase = "idle" /\ why = "" /\ added = 0
  BY <1>1 DEF Init
<1>b. container \in {"iTunesDB", "iTunesCDB"}
  BY <1>a, ParametersAre
<1>c. edits \in 0..MaxEdits
  <2>1. MaxEdits \in Nat
    BY ParametersAre
  <2>2. edits = 0
    BY <1>a
  <2> QED BY <2>1, <2>2
<1>2. /\ container \in Containers /\ container \in {"iTunesDB", "iTunesCDB"} /\ podcasts \in BOOLEAN /\ edits \in 0..MaxEdits
      /\ phase = "idle" /\ why = "" /\ added = 0
  BY <1>a, <1>b, <1>c
<1>3. request = NoRequest
  BY <1>1 DEF Init
<1>4. request.additions = <<>> /\ request.playlists = {}
  BY <1>3 DEF NoRequest
<1>5. request.additions \in Seq(AdditionRows) /\ added \in 0..Len(request.additions)
  <2>1. <<>> \in Seq(AdditionRows) /\ Len(<<>>) = 0
    BY EmptySeq
  <2> DEFINE s == request.additions
  <2>2. s = <<>>
    BY <1>4
  <2> HIDE DEF s
  <2>3. s \in Seq(AdditionRows) /\ Len(s) = 0
    BY <2>1, <2>2
  <2>4. added = 0
    BY <1>2
  <2>5. added \in 0..Len(s)
    BY <2>3, <2>4
  <2> QED BY <2>3, <2>5 DEF s
<1>6. Typed
  BY <1>2, <1>4, <1>5 DEF Typed, Phases
<1>7. Sound
  BY <1>1, ParametersAre DEF Init, Sound
<1>8. Following
  BY <1>2 DEF Following
<1> QED BY <1>6, <1>7, <1>8 DEF BInv

\* The pids that are drawn are numbers.
LEMMA FreePidsAre ==
  ASSUME NEW n \in 0..Min({MaxAdditions, Len(FreePids)}), NEW i \in 1..n
  PROVE  FreePids[i] \in Nat
<1> DEFINE P == {m \in DOMAIN NewPids : NewPids[m] \notin Pids(installed.tracks)}
           S == {MaxAdditions, Len(FreePids)}
<1>1. NewPids \in Seq(Nat) /\ MaxAdditions \in Nat
  BY ParametersAre
<1>2. P \in SUBSET (1..Len(NewPids))
  BY <1>1, LenProperties
<1>3. FreePids = Selected(NewPids, P)
  BY DEF FreePids
<1> HIDE DEF P
<1>4. FreePids \in Seq(Nat)
  BY <1>1, <1>2, <1>3, SelectedRange
<1>5. Len(FreePids) \in Nat
  BY <1>4, LenProperties
<1>6. S \in SUBSET Nat /\ S # {} /\ Len(FreePids) \in S
  BY <1>1, <1>5
<1> HIDE DEF S
<1>7. Min(S) \in S /\ \A y \in S : Min(S) <= y
  BY <1>6, MinOfNats
<1>8. n \in 0..Min(S)
  BY DEF S
<1>9. Min(S) \in Nat /\ Min(S) <= Len(FreePids)
  BY <1>6, <1>7
<1>10. i \in 1..Len(FreePids)
  BY <1>5, <1>8, <1>9
<1> QED BY <1>4, <1>10, ElementOfSeq

\* What a caller asks for is of its type.
LEMMA BegunIsSound ==
  ASSUME BInv, Begin
  PROVE  BInv'
<1>1. PICK removals \in Removals, edit \in PlaylistEdits, n \in 0..Min({MaxAdditions, Len(FreePids)}) :
        \E new \in [1..n -> Additions] :
          /\ edit # {} => Classic
          /\ request' = [removals |-> removals, additions |-> [i \in 1..n |-> WithPid(new[i], FreePids[i])], playlists |-> edit]
  BY DEF Begin
<1>2. PICK new \in [1..n -> Additions] :
        /\ edit # {} => Classic
        /\ request' = [removals |-> removals, additions |-> [i \in 1..n |-> WithPid(new[i], FreePids[i])], playlists |-> edit]
  BY <1>1
<1>3. /\ work' = installed /\ added' = 0 /\ phase' = "remove" /\ why' = "" /\ edits' = edits + 1 /\ edits < MaxEdits
      /\ installed' = installed /\ container' = container /\ podcasts' = podcasts
  BY DEF Begin
<1>4. Typed /\ Sound
  BY DEF BInv
<1> DEFINE a == [i \in 1..n |-> WithPid(new[i], FreePids[i])]
<1>5. request'.additions = a /\ request'.playlists = edit
  BY <1>2
<1>6. n \in Nat
  OBVIOUS
<1>7. a \in [1..n -> AdditionRows]
  <2>1. ASSUME NEW i \in 1..n PROVE WithPid(new[i], FreePids[i]) \in AdditionRows
    <3>1. FreePids[i] \in Nat
      BY FreePidsAre
    <3>2. new[i] \in AdditionRows
      BY ParametersAre
    <3> DEFINE b == new[i]
               p == FreePids[i]
    <3> HIDE DEF b, p
    <3>3. b \in AdditionRows /\ p \in Nat
      BY <3>1, <3>2 DEF b, p
    <3>4. [b EXCEPT !.pid = p] \in AdditionRows
      BY <3>3, AdditionIs
    <3> QED BY <3>4 DEF WithPid, b, p
  <2> QED BY <2>1
<1> HIDE DEF a
<1>8. a \in Seq(AdditionRows) /\ Len(a) = n
  BY <1>6, <1>7, FunctionIsSeq
<1>9. Typed'
  <2>1. added' \in 0..Len(request'.additions) /\ request'.additions \in Seq(AdditionRows)
    <3> DEFINE s == request'.additions
    <3>1. s = a
      BY <1>5
    <3> HIDE DEF s
    <3>2. s \in Seq(AdditionRows) /\ Len(s) \in Nat
      BY <1>6, <1>8, <3>1
    <3>3. added' = 0
      BY <1>3
    <3>4. added' \in 0..Len(s)
      BY <3>2, <3>3
    <3> QED BY <3>2, <3>4 DEF s
  <2>2. edits' \in 0..MaxEdits
    <3>1. edits \in 0..MaxEdits
      BY <1>4 DEF Typed
    <3>2. MaxEdits \in Nat
      BY ParametersAre
    <3>3. edits' = edits + 1 /\ edits < MaxEdits
      BY <1>3
    <3> QED BY <3>1, <3>2, <3>3
  <2>3. edit = {} \/ (Classic /\ Queueing(edit))
    BY <1>2, ParametersAre
  <2>4. request'.playlists = {} \/ (Classic' /\ Queueing(request'.playlists))
    BY <1>3, <1>5, <2>3 DEF Classic
  <2> QED BY <1>3, <1>4, <2>1, <2>2, <2>4 DEF Typed, Phases
<1>10. Sound'
  BY <1>3, <1>4 DEF Sound
<1>11. Following'
  BY <1>3 DEF Following
<1> QED BY <1>9, <1>10, <1>11 DEF BInv

\* A refusal and a pass that does nothing change nothing that is sound.
LEMMA RefusedIsSound ==
  ASSUME BInv, NEW reason, reason # "", Refuse(reason)
  PROVE  BInv'
<1>1. /\ installed' = installed /\ container' = container /\ podcasts' = podcasts /\ request' = request /\ edits' = edits
      /\ work' = work /\ added' = added /\ phase' = "refused" /\ why' = reason
  BY DEF Refuse, unstaged
<1> QED BY <1>1 DEF BInv, Typed, Sound, Following, Classic, Phases

\* The tracks that a pass leaves.
LEMMA TracksOfPasses ==
  ASSUME NEW db, NEW file, Openable(db, file)
  PROVE  /\ \A pids : Pids(RemovedTracks(db, pids).tracks) = Pids(db.tracks) \ pids
         /\ \A a \in AdditionRows : a.pid \notin Pids(db.tracks) =>
              Pids(AddedTrack(db, file, a).tracks) = Pids(db.tracks) \cup {a.pid}
         /\ \A queue : EditedLists(db, queue).tracks = db.tracks
         /\ SyncedPodcasts(db).tracks = db.tracks
<1>1. DOMAIN db = {"tracks", "albums", "datasets", "count", "version"} /\ db.tracks \in Seq(TrackRows) /\ TracksApart(db.tracks) /\ WellFormed(db)
  BY DEF Openable, SoundDatabase, WellFormed, MembersKnown
<1>2. ASSUME NEW pids PROVE Pids(RemovedTracks(db, pids).tracks) = Pids(db.tracks) \ pids
  <2>1. RemovedTracks(db, pids).tracks = Selected(db.tracks, StayingPlaces(db.tracks, pids))
    BY <1>1 DEF RemovedTracks, StayingPlaces
  <2> QED BY <1>1, <2>1, TracksThatStay
<1>3. ASSUME NEW a \in AdditionRows, a.pid \notin Pids(db.tracks)
      PROVE  Pids(AddedTrack(db, file, a).tracks) = Pids(db.tracks) \cup {a.pid}
  <2>1. AddedTrack(db, file, a).tracks = Append(db.tracks, NewTrack(db, file, a))
    BY <1>1 DEF AddedTrack
  <2>2. NewTrack(db, file, a) \in TrackRows /\ NewTrack(db, file, a).pid = a.pid /\ NewTrack(db, file, a).id \notin TrackIds(db.tracks)
    BY <1>1, NewTrackIs
  <2>3. Pids(Append(db.tracks, NewTrack(db, file, a))) = Pids(db.tracks) \cup {NewTrack(db, file, a).pid}
    BY <1>1, <1>3, <2>2, OneTrackMore
  <2> QED BY <2>1, <2>2, <2>3
<1>4. ASSUME NEW queue PROVE EditedLists(db, queue).tracks = db.tracks
  BY <1>1 DEF EditedLists
<1>5. SyncedPodcasts(db).tracks = db.tracks
  <2> DEFINE s == SyncedPodcasts(db)
  <2>1. s = db \/ \E d, c : s = [db EXCEPT !.datasets = d, !.count = c]
    BY DEF SyncedPodcasts
  <2> HIDE DEF s
  <2>2. s.tracks = db.tracks
    BY <1>1, <2>1
  <2> QED BY <2>2 DEF s
<1> QED BY <1>2, <1>3, <1>4, <1>5

\* What a step that keeps the request leaves of the types.
LEMMA StaysTyped ==
  ASSUME BInv, phase # "refused", UNCHANGED <<unstaged, why>>, phase' \in Phases, phase' # "refused",
         added' \in 0..Len(request.additions)
  PROVE  Typed'
<1>1. /\ container' = container /\ podcasts' = podcasts /\ request' = request /\ edits' = edits /\ why' = why
  BY DEF unstaged
<1>2. Typed
  BY DEF BInv
<1>3. added' \in 0..Len(request'.additions) /\ request'.additions \in Seq(AdditionRows)
  BY <1>1, <1>2 DEF Typed
<1>4. request'.playlists = {} \/ (Classic' /\ Queueing(request'.playlists))
  BY <1>1, <1>2 DEF Typed, Classic
<1> QED BY <1>1, <1>2, <1>3, <1>4 DEF Typed

\* The pass of the removals.
LEMMA RemovalIsSound ==
  ASSUME BInv, RemoveTracks
  PROVE  BInv'
<1>1. Typed /\ Sound /\ Following
  BY DEF BInv
<1>2. phase = "remove"
  BY DEF RemoveTracks
<1> DEFINE Right == ~ Removable(work, request.removals)
<1>3. CASE request.removals # {} /\ ~ Removable(work, request.removals)
  <2>1. Refuse("removal")
    BY <1>3 DEF RemoveTracks
  <2> QED BY <2>1, RefusedIsSound
<1>4. CASE request.removals = {} \/ Removable(work, request.removals)
  <2>1. Continue("add") /\ added' = added
    BY <1>4 DEF RemoveTracks
  <2>2. /\ installed' = installed /\ container' = container /\ request' = request /\ phase' = "add"
        /\ UNCHANGED <<unstaged, why>>
    BY <2>1 DEF Continue, unstaged
  <2>3. Typed'
    <3>1. added' \in 0..Len(request.additions)
      BY <1>1, <2>1 DEF Typed
    <3> QED BY <1>2, <2>2, <3>1, StaysTyped DEF Phases
  <2>4. (request.removals = {} /\ work' = work) \/ (request.removals # {} /\ work' = RemovedTracks(work, request.removals))
    BY <1>4 DEF RemoveTracks
  <2>5. Openable(work, container) /\ Openable(installed, container)
    BY <1>1 DEF Sound
  <2>6. Openable(work', container) /\ Pids(work'.tracks) = Pids(work.tracks) \ request.removals
    <3>1. CASE request.removals = {} /\ work' = work
      BY <2>5, <3>1
    <3>2. CASE work' = RemovedTracks(work, request.removals)
      <4>1. Openable(RemovedTracks(work, request.removals), container)
        BY <2>5, RemovedIsSound
      <4>2. Pids(RemovedTracks(work, request.removals).tracks) = Pids(work.tracks) \ request.removals
        BY <2>5, TracksOfPasses
      <4> QED BY <3>2, <4>1, <4>2
    <3> QED BY <2>4, <3>1, <3>2
  <2>7. Sound'
    BY <2>2, <2>5, <2>6 DEF Sound
  <2>8. Following'
    <3>1. SUFFICES ASSUME request.removals = {} \/ request.additions = <<>>
                   PROVE  Pids(work'.tracks) = (Pids(installed.tracks) \ request.removals) \cup PidsOfFirst(request.additions, added)
      BY <2>1, <2>2 DEF Following
    <3>2. added = 0 /\ Pids(work.tracks) = Pids(installed.tracks)
      BY <1>1, <1>2, <3>1 DEF Following
    <3>3. PidsOfFirst(request.additions, added) = {}
      BY <3>2 DEF PidsOfFirst
    <3> QED BY <2>6, <3>2, <3>3
  <2> QED BY <2>3, <2>7, <2>8 DEF BInv
<1> QED BY <1>3, <1>4

\* One more of the additions.
LEMMA OneMorePid ==
  ASSUME NEW additions, NEW n \in Nat
  PROVE  PidsOfFirst(additions, n + 1) = PidsOfFirst(additions, n) \cup {additions[n + 1].pid}
<1>1. \A i : i \in 1..(n + 1) <=> i \in 1..n \/ i = n + 1
  OBVIOUS
<1> QED BY <1>1 DEF PidsOfFirst

\* The pass of the additions.
LEMMA AdditionIsSound ==
  ASSUME BInv, AddTrack
  PROVE  BInv'
<1> DEFINE a == request.additions[added + 1]
           base == AdditionBase
           N == Len(request.additions)
<1>1. Typed /\ Sound /\ Following
  BY DEF BInv
<1>2. phase = "add"
  BY DEF AddTrack
<1>3. Openable(work, container) /\ Openable(installed, container)
  BY <1>1 DEF Sound
<1>4. added \in 0..N /\ N \in Nat /\ request.additions \in Seq(AdditionRows)
  <2>1. request.additions \in Seq(AdditionRows) /\ added \in 0..N
    BY <1>1 DEF Typed
  <2> QED BY <2>1, LenProperties
<1>5. CASE added # N /\ ~ Addable(base, container, a)
  <2>1. Refuse("addition")
    BY <1>5 DEF AddTrack
  <2> QED BY <2>1, RefusedIsSound
<1>6. CASE added = N
  <2>1. Continue("playlists") /\ work' = work /\ added' = added
    BY <1>6 DEF AddTrack
  <2>2. /\ installed' = installed /\ container' = container /\ request' = request /\ phase' = "playlists"
        /\ UNCHANGED <<unstaged, why>>
    BY <2>1 DEF Continue, unstaged
  <2>3. Typed'
    <3>1. added' \in 0..N
      BY <1>4, <2>1
    <3> QED BY <1>2, <2>2, <3>1, StaysTyped DEF Phases
  <2>4. Sound'
    BY <1>3, <2>1, <2>2 DEF Sound
  <2>5. Following'
    BY <1>1, <1>2, <1>6, <2>1, <2>2 DEF Following
  <2> QED BY <2>3, <2>4, <2>5 DEF BInv
<1>7. CASE added # N /\ Addable(base, container, a)
  <2>1. work' = AddedTrack(base, container, a) /\ added' = added + 1 /\ Continue("add")
    BY <1>7 DEF AddTrack
  <2>2. /\ installed' = installed /\ container' = container /\ request' = request /\ phase' = "add"
        /\ UNCHANGED <<unstaged, why>>
    BY <2>1 DEF Continue, unstaged
  <2>3. added + 1 \in 1..N /\ added \in Nat
    BY <1>4, <1>7
  <2>4. a \in AdditionRows
    BY <1>4, <2>3, ElementOfSeq
  <2>5. base = work \/ (base = installed /\ added = 0)
    <3>1. ~(added > 0) => added = 0
      BY <2>3
    <3> QED BY <3>1 DEF AdditionBase
  <2>6. Openable(base, container)
    BY <1>3, <2>5
  <2>7. a.pid \notin Pids(base.tracks)
    BY <1>7 DEF Addable
  <2>8. Typed'
    <3>1. added' \in 0..N
      BY <1>4, <2>1, <2>3
    <3> QED BY <1>2, <2>2, <3>1, StaysTyped DEF Phases
  <2> HIDE DEF a, base
  <2>9. Sound'
    <3>1. Openable(AddedTrack(base, container, a), container)
      BY <2>4, <2>6, <2>7, AddedIsSound
    <3> QED BY <1>3, <2>1, <2>2, <3>1 DEF Sound, a, base
  <2>10. Following'
    <3>1. SUFFICES ASSUME request.removals = {} \/ request.additions = <<>>
                   PROVE  Pids(work'.tracks) = (Pids(installed.tracks) \ request.removals) \cup PidsOfFirst(request.additions, added + 1)
      BY <2>1, <2>2 DEF Following
    <3>2. Pids(work.tracks) = (Pids(installed.tracks) \ request.removals) \cup PidsOfFirst(request.additions, added)
      BY <1>1, <1>2, <3>1 DEF Following
    <3>3. Pids(base.tracks) = (Pids(installed.tracks) \ request.removals) \cup PidsOfFirst(request.additions, added)
      <4>1. CASE base = work
        BY <3>2, <4>1
      <4>2. CASE base = installed /\ added = 0
        <5>1. PidsOfFirst(request.additions, added) = {}
          BY <4>2 DEF PidsOfFirst
        <5>2. request.additions # <<>>
          <6>1. Len(<<>>) = 0
            BY EmptySeq
          <6> QED BY <1>7, <4>2, <6>1
        <5> QED BY <3>1, <4>2, <5>1, <5>2
      <4> QED BY <2>5, <4>1, <4>2
    <3>4. Pids(AddedTrack(base, container, a).tracks) = Pids(base.tracks) \cup {a.pid}
      <4>1. \A x \in AdditionRows : x.pid \notin Pids(base.tracks) =>
              Pids(AddedTrack(base, container, x).tracks) = Pids(base.tracks) \cup {x.pid}
        BY <2>6, TracksOfPasses
      <4> QED BY <2>4, <2>7, <4>1
    <3>5. PidsOfFirst(request.additions, added + 1) = PidsOfFirst(request.additions, added) \cup {a.pid}
      BY <2>3, OneMorePid DEF a
    <3> QED BY <2>1, <3>3, <3>4, <3>5 DEF a, base
  <2> QED BY <2>8, <2>9, <2>10 DEF BInv
<1> QED BY <1>5, <1>6, <1>7

\* A later pass, which keeps the tracks.
LEMMA LaterPassIsSound ==
  ASSUME BInv, phase \in {"playlists", "podcasts", "verify"}, NEW to, Continue(to),
         to \in {"podcasts", "verify", "staged"}, added' = added,
         Openable(work', container), work'.tracks = work.tracks
  PROVE  BInv'
<1>1. Typed /\ Sound /\ Following
  BY DEF BInv
<1>2. /\ installed' = installed /\ container' = container /\ request' = request /\ phase' = to
      /\ UNCHANGED <<unstaged, why>>
  BY DEF Continue, unstaged
<1>3. Typed'
  <2>1. added' \in 0..Len(request.additions)
    BY <1>1 DEF Typed
  <2> QED BY <1>2, <2>1, StaysTyped DEF Phases
<1>4. Sound'
  BY <1>1, <1>2 DEF Sound
<1>5. Following'
  BY <1>1, <1>2 DEF Following
<1> QED BY <1>3, <1>4, <1>5 DEF BInv

\* The pass of the playlists.
LEMMA PlaylistsAreSound ==
  ASSUME BInv, EditPlaylists
  PROVE  BInv'
<1>1. Typed /\ Openable(work, container)
  BY DEF BInv, Sound
<1>2. phase = "playlists"
  BY DEF EditPlaylists
<1> DEFINE Wrong == \E e \in request.playlists : Range(e.members) \cap request.removals # {}
<1>3. CASE request.playlists = {}
  <2>1. Continue("podcasts") /\ work' = work /\ added' = added
    BY <1>3 DEF EditPlaylists
  <2> QED BY <1>1, <1>2, <2>1, LaterPassIsSound
<1>4. CASE request.playlists # {} /\ Wrong
  <2>1. Refuse("members")
    BY <1>4 DEF EditPlaylists
  <2> QED BY <2>1, RefusedIsSound
<1>5. CASE request.playlists # {} /\ ~ Wrong /\ ~ Editable(work, request.playlists)
  <2>1. Refuse("playlists")
    BY <1>5 DEF EditPlaylists
  <2> QED BY <2>1, RefusedIsSound
<1>6. CASE request.playlists # {} /\ ~ Wrong /\ Editable(work, request.playlists)
  <2>1. work' = EditedLists(work, request.playlists) /\ Continue("podcasts") /\ added' = added
    BY <1>6 DEF EditPlaylists
  <2>2. container = "iTunesDB" /\ Queueing(request.playlists)
    BY <1>1, <1>6 DEF Typed, Classic
  <2> DEFINE queue == request.playlists
  <2>3. SoundEdits(queue) /\ Editable(work, queue) /\ \A e \in queue : e.op = "create" => e.id # PodcastId
    BY <1>6, <2>2 DEF Queueing
  <2>4. Openable(work, "iTunesDB")
    BY <1>1, <2>2
  <2>5. EditedLists(work, queue).tracks = work.tracks
    BY <1>1, TracksOfPasses
  <2> HIDE DEF queue
  <2>6. Openable(EditedLists(work, queue), "iTunesDB")
    BY <2>3, <2>4, EditedIsSound
  <2>7. Openable(work', container) /\ work'.tracks = work.tracks
    BY <2>1, <2>2, <2>5, <2>6 DEF queue
  <2> QED BY <1>2, <2>1, <2>7, LaterPassIsSound
<1> QED BY <1>3, <1>4, <1>5, <1>6

\* The pass of the podcasts.
LEMMA PodcastsAreSound ==
  ASSUME BInv, SyncPodcasts
  PROVE  BInv'
<1>1. Typed /\ Openable(work, container)
  BY DEF BInv, Sound
<1>2. phase = "podcasts"
  BY DEF SyncPodcasts
<1> DEFINE Needed == Classic /\ podcasts /\ EpisodesChanged
<1>3. CASE ~ Needed
  <2>1. Continue("verify") /\ work' = work /\ added' = added
    BY <1>3 DEF SyncPodcasts
  <2> QED BY <1>1, <1>2, <2>1, LaterPassIsSound
<1>4. CASE Needed /\ ~ Syncable(work)
  <2>1. Refuse("podcasts")
    BY <1>4 DEF SyncPodcasts
  <2> QED BY <2>1, RefusedIsSound
<1>5. CASE Needed /\ Syncable(work)
  <2>1. work' = SyncedPodcasts(work) /\ Continue("verify") /\ added' = added
    BY <1>5 DEF SyncPodcasts
  <2>2. container = "iTunesDB"
    BY <1>5 DEF Classic
  <2>3. Openable(work, "iTunesDB") /\ Syncable(work)
    BY <1>1, <1>5, <2>2
  <2>4. Openable(SyncedPodcasts(work), "iTunesDB")
    BY <2>3, SyncedIsSound
  <2>5. SyncedPodcasts(work).tracks = work.tracks
    BY <1>1, TracksOfPasses
  <2>6. Openable(work', container) /\ work'.tracks = work.tracks
    BY <2>1, <2>2, <2>4, <2>5
  <2> QED BY <1>2, <2>1, <2>6, LaterPassIsSound
<1> QED BY <1>3, <1>4, <1>5

\* The verification.
LEMMA VerifiedIsSound ==
  ASSUME BInv, Verify
  PROVE  BInv'
<1>1. Openable(work, container)
  BY DEF BInv, Sound
<1>2. phase = "verify"
  BY DEF Verify
<1> DEFINE Wrong == ~ Splits(work) \/ (Classic /\ ~ Semantics)
<1>3. CASE Wrong
  <2>1. Refuse("semantics")
    BY <1>3 DEF Verify
  <2> QED BY <2>1, RefusedIsSound
<1>4. CASE ~ Wrong
  <2>1. Continue("staged") /\ work' = work /\ added' = added
    BY <1>4 DEF Verify
  <2> QED BY <1>1, <1>2, <2>1, LaterPassIsSound
<1> QED BY <1>3, <1>4

\* The installation.
LEMMA InstalledIsSound ==
  ASSUME BInv, Install
  PROVE  BInv'
<1>1. Typed /\ Sound
  BY DEF BInv
<1>2. /\ installed' = work /\ work' = work /\ phase = "staged" /\ phase' = "idle" /\ added' = 0 /\ request' = NoRequest
      /\ container' = container /\ podcasts' = podcasts /\ why' = why /\ edits' = edits
  BY DEF Install
<1>3. request'.additions = <<>> /\ request'.playlists = {}
  BY <1>2 DEF NoRequest
<1>4. request'.additions \in Seq(AdditionRows) /\ added' \in 0..Len(request'.additions)
  <2> DEFINE s == request'.additions
  <2>1. s = <<>>
    BY <1>3
  <2> HIDE DEF s
  <2>2. s \in Seq(AdditionRows) /\ Len(s) = 0
    BY <2>1, EmptySeq
  <2>3. added' = 0
    BY <1>2
  <2>4. added' \in 0..Len(s)
    BY <2>2, <2>3
  <2> QED BY <2>2, <2>4 DEF s
<1>5. Typed'
  BY <1>1, <1>2, <1>3, <1>4 DEF Typed, Phases
<1>6. Sound'
  BY <1>1, <1>2 DEF Sound
<1>7. Following'
  BY <1>2 DEF Following
<1> QED BY <1>5, <1>6, <1>7 DEF BInv

\* Every database that an edit stages and installs is sound: it is well formed,
\* its masters hold the whole library, its lists name tracks that are there, and
\* its two playlist universes agree.
THEOREM BinaryInvariance == Spec => []BInv
<1>1. ASSUME BInv, [Next]_vars PROVE BInv'
  <2>1. CASE Begin
    BY <1>1, <2>1, BegunIsSound
  <2>2. CASE RemoveTracks
    BY <1>1, <2>2, RemovalIsSound
  <2>3. CASE AddTrack
    BY <1>1, <2>3, AdditionIsSound
  <2>4. CASE EditPlaylists
    BY <1>1, <2>4, PlaylistsAreSound
  <2>5. CASE SyncPodcasts
    BY <1>1, <2>5, PodcastsAreSound
  <2>6. CASE Verify
    BY <1>1, <2>6, VerifiedIsSound
  <2>7. CASE Install
    BY <1>1, <2>7, InstalledIsSound
  <2>8. CASE UNCHANGED vars
    BY <1>1, <2>8 DEF vars, BInv, Typed, Sound, Following, Classic
  <2> QED BY <1>1, <2>1, <2>2, <2>3, <2>4, <2>5, <2>6, <2>7, <2>8 DEF Next
<1> QED BY <1>1, OpenedIsSound, PTL DEF Spec

\* The types, and the roles of the lists that there are.
THEOREM BinaryTyped == Spec => []TypeOK
<1>1. ASSUME BInv PROVE TypeOK
  <2>1. Typed /\ Openable(installed, container)
    BY <1>1 DEF BInv, Sound
  <2>2. WellFormed(installed)
    BY <2>1 DEF Openable, SoundDatabase
  <2>3. ASSUME NEW l \in AllLists PROVE l.role \in {"master", "list", "podcast", "smart"}
    <3>1. PICK n \in DOMAIN installed.datasets : \E k \in DOMAIN installed.datasets[n].lists : l = installed.datasets[n].lists[k]
      BY <2>2, UniverseIs DEF AllLists
    <3>2. PICK k \in DOMAIN installed.datasets[n].lists : l = installed.datasets[n].lists[k]
      BY <3>1
    <3>3. WellFormedList(l)
      BY <2>2, <3>2, DatasetFacts
    <3> QED BY <3>3 DEF WellFormedList
  <2> QED BY <2>1, <2>3 DEF TypeOK, Typed
<1> QED BY <1>1, BinaryInvariance, PTL

\* The master lists hold the whole library, in its order and at its positions,
\* after every edit.
THEOREM MastersStayComplete == Spec => []MasterComplete
<1>1. BInv => MasterComplete
  BY DEF BInv, Sound, Openable, SoundDatabase, MasterComplete
<1> QED BY <1>1, BinaryInvariance, PTL

\* No edit leaves a list that names a track that is gone, or two tracks of one id.
THEOREM MembersStay == Spec => []MembersExist
<1>1. BInv => MembersExist
  BY DEF BInv, Sound, Openable, SoundDatabase, MembersExist
<1> QED BY <1>1, BinaryInvariance, PTL

\* The two playlist universes agree after every edit.
THEOREM UniversesStayEqual == Spec => []UniversesAgree
<1>1. BInv => UniversesAgree
  BY DEF BInv, Sound, Openable, SoundDatabase, UniversesAgree
<1> QED BY <1>1, BinaryInvariance, PTL

\* A staged companion has the tracks that the edit asks for, unless the edit
\* removes and adds at once.
THEOREM CompanionStaysWithTables == Spec => []CompanionFollows
<1>1. ASSUME BInv, phase = "staged", request.removals = {} \/ request.additions = <<>> PROVE TracksAsRequested
  <2>1. Typed /\ Following
    BY <1>1 DEF BInv
  <2>2. Pids(work.tracks) = (Pids(installed.tracks) \ request.removals)
                            \cup PidsOfFirst(request.additions, Len(request.additions))
    BY <1>1, <2>1 DEF Following
  <2>3. DOMAIN After.tracks = Pids(work.tracks) /\ DOMAIN Before.tracks = Pids(installed.tracks)
    BY DEF After, Before, ReadLibrary
  <2>4. Range(AddedPids) = PidsOfFirst(request.additions, Len(request.additions))
    <3>1. request.additions \in Seq(AdditionRows)
      BY <2>1 DEF Typed
    <3>2. DOMAIN request.additions = 1..Len(request.additions)
      BY <3>1, LenProperties
    <3> QED BY <3>2 DEF AddedPids, PidsOfFirst, Range
  <2> QED BY <2>2, <2>3, <2>4 DEF TracksAsRequested
<1>2. BInv => CompanionFollows
  BY <1>1 DEF CompanionFollows
<1> QED BY <1>2, BinaryInvariance, PTL

------------------------------------------------------------------------------
(* The links of the tracks to their albums and artists. *)

\* Fewer tracks are as well linked.
LEMMA FewerLinked ==
  ASSUME NEW db, Resolved(db), NEW r, r.albums = db.albums, r.tracks \in Seq(TrackRows),
         Range(r.tracks) \subseteq Range(db.tracks)
  PROVE  Resolved(r)
<1>1. ASSUME NEW t \in Range(r.tracks) PROVE TrackProfile(r.tracks) \subseteq TrackProfile(db.tracks)
  <2>1. r.tracks # <<>> /\ db.tracks # <<>>
    <3>1. t \in Range(db.tracks)
      BY <1>1
    <3> QED BY <1>1, <3>1 DEF Range
  <2> QED BY <2>1 DEF TrackProfile
<1>2. ASSUME NEW t \in Range(r.tracks), t.header >= AlbumRoom PROVE AlbumFound(t, r.albums, TrackProfile(r.tracks))
  <2>1. AlbumFound(t, db.albums, TrackProfile(db.tracks))
    BY <1>2 DEF Resolved
  <2> QED BY <1>1, <1>2, <2>1 DEF AlbumFound
<1>3. \A t, u \in Range(r.tracks) : RefsAgree(t, u)
  BY DEF Resolved
<1>4. \A i, j \in DOMAIN r.albums : r.albums[i].id = r.albums[j].id => i = j
  BY DEF Resolved
<1> QED BY <1>2, <1>3, <1>4 DEF Resolved

\* The other passes add no track.
LEMMA PassesKeepLinks ==
  ASSUME NEW db, NEW file, Openable(db, file), Resolved(db)
  PROVE  /\ \A pids : Resolved(RemovedTracks(db, pids))
         /\ \A queue : Resolved(EditedLists(db, queue))
         /\ Resolved(SyncedPodcasts(db))
<1>1. DOMAIN db = {"tracks", "albums", "datasets", "count", "version"} /\ db.tracks \in Seq(TrackRows) /\ TracksApart(db.tracks)
  BY DEF Openable, SoundDatabase, WellFormed, MembersKnown
<1>2. ASSUME NEW pids PROVE Resolved(RemovedTracks(db, pids))
  <2> DEFINE P == StayingPlaces(db.tracks, pids)
             r == RemovedTracks(db, pids)
  <2>1. r.tracks = Selected(db.tracks, P) /\ r.albums = db.albums
    BY <1>1 DEF RemovedTracks, StayingPlaces
  <2>2. P \in SUBSET (1..Len(db.tracks))
    BY <1>1, LenProperties DEF StayingPlaces
  <2>3. DOMAIN db.tracks = 1..Len(db.tracks)
    BY <1>1, LenProperties
  <2> HIDE DEF P, r
  <2>4. \A x : x \in Range(Selected(db.tracks, P)) <=> \E n \in P : x = db.tracks[n]
    BY <1>1, <2>2, SelectedRange
  <2>5. Range(r.tracks) \subseteq Range(db.tracks)
    BY <2>1, <2>2, <2>3, <2>4 DEF Range
  <2>7. r.tracks \in Seq(TrackRows)
    BY <1>1, <2>1, <2>2, SelectedRange
  <2>6. Resolved(r)
    BY <2>1, <2>5, <2>7, FewerLinked
  <2> QED BY <2>6 DEF r
<1>3. ASSUME NEW queue PROVE Resolved(EditedLists(db, queue))
  <2>1. EditedLists(db, queue).tracks = db.tracks /\ EditedLists(db, queue).albums = db.albums
    BY <1>1 DEF EditedLists
  <2> QED BY <1>1, <2>1, FewerLinked
<1>4. Resolved(SyncedPodcasts(db))
  <2> DEFINE s == SyncedPodcasts(db)
  <2>1. s = db \/ \E d, c : s = [db EXCEPT !.datasets = d, !.count = c]
    BY DEF SyncedPodcasts
  <2> HIDE DEF s
  <2>2. s.tracks = db.tracks /\ s.albums = db.albums
    BY <1>1, <2>1
  <2>3. Resolved(s)
    BY <1>1, <2>2, FewerLinked
  <2> QED BY <2>3 DEF s
<1> QED BY <1>2, <1>3, <1>4

\* The album of an addition, and those that there were.
LEMMA AlbumOfAddition ==
  ASSUME NEW db, WellFormed(db), NEW a \in AdditionRows,
         \A i, j \in DOMAIN db.albums : db.albums[i].id = db.albums[j].id => i = j
  PROVE  LET s == AlbumsWith(db.albums, a)
         IN  /\ \A i, j \in DOMAIN s : s[i].id = s[j].id => i = j
             /\ \A r \in Range(db.albums) : r \in Range(s)
             /\ \E r \in Range(s) : /\ r.id = AlbumIdFor(db.albums, a) /\ r.name = a.album
                                    /\ AlbumArtist(a) # NoName => r.artist \in {AlbumArtist(a), NoName}
<1> DEFINE albums == db.albums
           by == AlbumArtist(a)
           found == FoundAlbums(albums, a.album, by)
           s == AlbumsWith(albums, a)
           id == AlbumIdFor(albums, a)
           N == Len(albums)
           ids == {r.id : r \in Range(albums)}
           new == [id |-> id, name |-> a.album, artist |-> by]
<1>1. albums \in Seq(AlbumRows) /\ N \in Nat /\ DOMAIN albums = 1..N
  BY LenProperties DEF WellFormed
<1>2. \A n \in DOMAIN albums : albums[n] \in AlbumRows /\ albums[n] \in Range(albums)
  BY <1>1, SeqFacts
<1>3. \A n \in found : /\ n \in DOMAIN albums /\ albums[n].name = a.album
                       /\ by # NoName => albums[n].artist \in {by, NoName}
  BY DEF FoundAlbums
<1>4. id = IF found # {} THEN albums[Min(found)].id ELSE MaxOf(ids) + 1
  BY DEF AlbumIdFor
<1>5. s = IF found # {} THEN albums ELSE Append(albums, new)
  BY DEF AlbumsWith
<1>6. id \in Nat
  BY LinksAreNats
<1>7. \A x : x \in Range(albums) <=> \E n \in 1..N : x = albums[n]
  BY <1>1 DEF Range
<1>8. new \in AlbumRows /\ new.id = id /\ new.name = a.album /\ new.artist = by
  BY <1>6, AdditionIs DEF AlbumRows
<1>9. \A i, j \in 1..N : albums[i].id = albums[j].id => i = j
  BY <1>1
<1> HIDE DEF found, s, id, N, ids, new, by
<1>10. CASE found # {}
  <2>1. found \in SUBSET Nat
    BY <1>1, <1>3
  <2>2. Min(found) \in found
    BY <1>10, <2>1, MinOfNats
  <2> DEFINE r == albums[Min(found)]
  <2>3. r \in Range(albums) /\ r.id = id /\ r.name = a.album /\ (by # NoName => r.artist \in {by, NoName})
    BY <1>2, <1>3, <1>4, <1>10, <2>2
  <2> HIDE DEF r
  <2> QED BY <1>1, <1>5, <1>9, <1>10, <2>3 DEF s, id, by
<1>11. CASE found = {}
  <2>1. s = Append(albums, new)
    BY <1>5, <1>11
  <2>2. /\ s \in Seq(AlbumRows) /\ Len(s) = N + 1 /\ (\A i \in 1..N : s[i] = albums[i]) /\ s[N + 1] = new
    BY <1>1, <1>8, <2>1, AppendProperties DEF N
  <2>3. DOMAIN s = 1..(N + 1)
    BY <2>2, LenProperties
  <2>4. \A x : x \in Range(s) <=> \E i \in 1..(N + 1) : x = s[i]
    BY <2>3 DEF Range
  <2>5. new \in Range(s)
    <3>1. N + 1 \in 1..(N + 1)
      BY <1>1
    <3> QED BY <2>2, <2>4, <3>1
  <2>6. ASSUME NEW r \in Range(albums) PROVE r \in Range(s)
    <3>1. PICK i \in 1..N : r = albums[i]
      BY <1>7
    <3>2. i \in 1..(N + 1) /\ s[i] = r
      BY <1>1, <2>2, <3>1
    <3> QED BY <2>4, <3>2
  <2>7. \A i \in 1..N : albums[i].id # id
    <3>1. ids \in SUBSET Nat /\ IsFiniteSet(ids)
      <4> DEFINE f == [n \in 1..N |-> albums[n].id]
      <4>1. f \in [1..N -> Nat]
        BY <1>1, <1>2 DEF AlbumRows
      <4>2. Range(f) = ids
        <5>1. \A x : x \in Range(f) <=> \E n \in 1..N : x = albums[n].id
          BY DEF Range
        <5>2. \A x : x \in ids <=> \E n \in 1..N : x = albums[n].id
          BY <1>7 DEF ids
        <5> QED BY <5>1, <5>2
      <4> HIDE DEF f
      <4>3. Range(f) \in SUBSET Nat /\ IsFiniteSet(Range(f))
        BY <1>1, <4>1, NumbersAreFinite
      <4> QED BY <4>2, <4>3
    <3>2. MaxOf(ids) \in Nat /\ \A x \in ids : x <= MaxOf(ids)
      BY <3>1, MaxOfIs
    <3>3. id = MaxOf(ids) + 1
      BY <1>4, <1>11
    <3>4. ASSUME NEW i \in 1..N PROVE albums[i].id # id
      <4>1. albums[i].id \in ids /\ albums[i].id \in Nat
        BY <1>1, <1>2 DEF ids, AlbumRows
      <4> QED BY <3>2, <3>3, <4>1
    <3> QED BY <3>4
  <2>8. ASSUME NEW i \in 1..(N + 1), NEW j \in 1..(N + 1), s[i].id = s[j].id PROVE i = j
    <3>1. (i \in 1..N \/ i = N + 1) /\ (j \in 1..N \/ j = N + 1)
      BY <1>1
    <3> QED BY <1>8, <1>9, <2>2, <2>7, <2>8, <3>1
  <2> QED BY <1>8, <2>3, <2>5, <2>6, <2>8 DEF s, id, by
<1> QED BY <1>10, <1>11

\* The artist of an addition has the reference of his tracks, or one of his own.
LEMMA ArtistFound ==
  ASSUME NEW db, WellFormed(db), NEW a \in AdditionRows, \A t, u \in Range(db.tracks) : RefsAgree(t, u),
         ArtistRefFor(db.tracks, a) # 0
  PROVE  \A t \in Range(db.tracks) : t.ref # 0 /\ (t.artist # NoName \/ a.artist # NoName) =>
           (t.artist = a.artist <=> t.ref = ArtistRefFor(db.tracks, a))
<1> DEFINE tracks == db.tracks
           same == {n \in DOMAIN tracks : a.artist # NoName /\ tracks[n].artist = a.artist}
           ref == ArtistRefFor(tracks, a)
           refs == {t.ref : t \in Range(tracks)}
           N == Len(tracks)
<1>1. tracks \in Seq(TrackRows) /\ N \in Nat /\ DOMAIN tracks = 1..N
  BY LenProperties DEF WellFormed
<1>2. \A n \in DOMAIN tracks : tracks[n] \in TrackRows /\ tracks[n] \in Range(tracks)
  BY <1>1, SeqFacts
<1>3. ref = IF same # {} THEN tracks[Min(same)].ref ELSE MaxOf(refs) + 1
  BY DEF ArtistRefFor
<1>4. \A x : x \in Range(tracks) <=> \E n \in 1..N : x = tracks[n]
  BY <1>1 DEF Range
<1>5. \A n \in same : n \in DOMAIN tracks /\ a.artist # NoName /\ tracks[n].artist = a.artist
  OBVIOUS
<1>6. \A n \in 1..N : a.artist # NoName /\ tracks[n].artist = a.artist => n \in same
  BY <1>1
<1> HIDE DEF same, ref, refs, N
<1>7. CASE same # {}
  <2>1. same \in SUBSET Nat
    BY <1>1, <1>5
  <2>2. Min(same) \in same
    BY <1>7, <2>1, MinOfNats
  <2> DEFINE r == tracks[Min(same)]
  <2>3. r \in Range(tracks) /\ r.artist = a.artist /\ r.artist # NoName /\ r.ref = ref
    BY <1>2, <1>3, <1>5, <1>7, <2>2
  <2> HIDE DEF r
  <2>4. ASSUME NEW t \in Range(tracks), t.ref # 0 PROVE t.artist = a.artist <=> t.ref = ref
    <3>1. RefsAgree(r, t) /\ r.ref # 0
      BY <2>3 DEF ref
    <3> QED BY <2>3, <2>4, <3>1 DEF RefsAgree
  <2> QED BY <2>4 DEF ref
<1>8. CASE same = {}
  <2>1. refs \in SUBSET Nat /\ IsFiniteSet(refs)
    <3> DEFINE f == [n \in 1..N |-> tracks[n].ref]
    <3>1. f \in [1..N -> Nat]
      BY <1>1, <1>2 DEF TrackRows
    <3>2. Range(f) = refs
      <4>1. \A x : x \in Range(f) <=> \E n \in 1..N : x = tracks[n].ref
        BY DEF Range
      <4>2. \A x : x \in refs <=> \E n \in 1..N : x = tracks[n].ref
        BY <1>4 DEF refs
      <4> QED BY <4>1, <4>2
    <3> HIDE DEF f
    <3>3. Range(f) \in SUBSET Nat /\ IsFiniteSet(Range(f))
      BY <1>1, <3>1, NumbersAreFinite
    <3> QED BY <3>2, <3>3
  <2>2. MaxOf(refs) \in Nat /\ \A x \in refs : x <= MaxOf(refs)
    BY <2>1, MaxOfIs
  <2>3. ref = MaxOf(refs) + 1
    BY <1>3, <1>8
  <2>4. ASSUME NEW t \in Range(tracks), t.artist # NoName \/ a.artist # NoName PROVE t.artist = a.artist <=> t.ref = ref
    <3>1. t.ref \in refs
      BY DEF refs
    <3>2. t.ref # ref
      BY <2>1, <2>2, <2>3, <3>1
    <3>3. t.artist # a.artist
      BY <1>4, <1>6, <1>8, <2>4
    <3> QED BY <3>2, <3>3
  <2> QED BY <2>4 DEF ref
<1> QED BY <1>7, <1>8

\* A new track is linked, as far as it stores what it looks up.
LEMMA AddedIsLinked ==
  ASSUME NEW db, NEW file, Openable(db, file), Resolved(db), NEW a \in AdditionRows, a.pid \notin Pids(db.tracks)
  PROVE  Resolved(AddedTrack(db, file, a))
<1> DEFINE new == NewTrack(db, file, a)
           albums == AlbumsWith(db.albums, a)
           r == AddedTrack(db, file, a)
           tracks == db.tracks
           profile == TrackProfile(tracks)
           later == TrackProfile(Append(tracks, new))
           by == AlbumArtist(a)
           id == AlbumIdFor(db.albums, a)
           ref == ArtistRefFor(tracks, a)
<1>1. WellFormed(db) /\ DOMAIN db = {"tracks", "albums", "datasets", "count", "version"} /\ tracks \in Seq(TrackRows) /\ TracksApart(tracks)
  BY DEF Openable, SoundDatabase, WellFormed, MembersKnown
<1>2. r.tracks = Append(tracks, new) /\ r.albums = albums
  BY <1>1 DEF AddedTrack
<1>3. new \in TrackRows /\ new.pid = a.pid /\ new.id \notin TrackIds(tracks)
  BY <1>1, NewTrackIs
<1>4. /\ new.fields \subseteq profile
      /\ "album" \in profile => new.album = a.album
      /\ "albumArtist" \in profile => "albumArtist" \in new.fields /\ new.albumArtist = by
      /\ new.artist = IF "artist" \in profile THEN a.artist ELSE NoName
      /\ new.header >= AlbumRoom => new.albumId = id
      /\ new.ref # 0 => new.ref = ref
  BY DEF NewTrack
<1>5. Range(Append(tracks, new)) = Range(tracks) \cup {new}
  BY <1>1, <1>3, OneTrackMore
<1>6. \A t : t \in Range(r.tracks) <=> t \in Range(tracks) \/ t = new
  BY <1>2, <1>5
<1>7. \A t \in Range(tracks) : tracks # <<>> /\ t.fields \subseteq profile
  BY DEF TrackProfile, Range
<1> HIDE DEF new
<1>8. later \subseteq profile
  <2>1. Append(tracks, new) # <<>>
    BY <1>1, <1>3, AppendProperties, EmptySeq
  <2>2. later = UNION {t.fields : t \in Range(tracks) \cup {new}}
    BY <1>5, <2>1 DEF TrackProfile
  <2> HIDE DEF later, profile
  <2> QED BY <1>4, <1>7, <2>2
<1>9. \A t \in Range(tracks) : "artist" \notin profile => t.artist = NoName
  <2>1. \A t \in Range(tracks) : t \in TrackRows
    BY <1>1, SeqFacts
  <2> HIDE DEF profile
  <2> QED BY <1>7, <2>1, TrackIs
<1>10. \A i, j \in DOMAIN db.albums : db.albums[i].id = db.albums[j].id => i = j
  BY DEF Resolved
<1>11. /\ \A i, j \in DOMAIN albums : albums[i].id = albums[j].id => i = j
       /\ \A x \in Range(db.albums) : x \in Range(albums)
       /\ \E x \in Range(albums) : x.id = id /\ x.name = a.album /\ (by # NoName => x.artist \in {by, NoName})
  BY <1>1, <1>10, AlbumOfAddition DEF albums
<1>12. \A t, u \in Range(tracks) : RefsAgree(t, u)
  BY DEF Resolved
<1>13. ref # 0 => \A t \in Range(tracks) : t.ref # 0 /\ (t.artist # NoName \/ a.artist # NoName) =>
                    (t.artist = a.artist <=> t.ref = ref)
  BY <1>1, <1>12, ArtistFound
<1>14. ASSUME NEW t \in Range(tracks), t.header >= AlbumRoom PROVE AlbumFound(t, db.albums, profile)
  BY <1>14 DEF Resolved
<1> HIDE DEF albums, profile, later, by, id, ref, r
<1>15. ASSUME NEW t \in Range(r.tracks), t.header >= AlbumRoom PROVE AlbumFound(t, albums, later)
  <2>1. CASE t = new
    <3>1. "albumArtist" \in later => AlbumArtistOf(new) = by
      BY <1>4, <1>8 DEF AlbumArtistOf
    <3>2. "album" \in later => new.album = a.album
      BY <1>4, <1>8
    <3>3. new.albumId = id
      BY <1>4, <1>15, <2>1
    <3>4. AlbumFound(new, albums, later)
      BY <1>11, <3>1, <3>2, <3>3 DEF AlbumFound
    <3> QED BY <2>1, <3>4
  <2>2. CASE t \in Range(tracks)
    <3>1. AlbumFound(t, db.albums, profile)
      BY <1>14, <1>15, <2>2
    <3> QED BY <1>8, <1>11, <3>1 DEF AlbumFound
  <2> QED BY <1>6, <2>1, <2>2
<1>16. ASSUME NEW t \in Range(r.tracks), NEW u \in Range(r.tracks) PROVE RefsAgree(t, u)
  <2>1. CASE t = new /\ u = new
    BY <2>1 DEF RefsAgree
  <2>2. CASE t = new /\ u \in Range(tracks)
    BY <1>4, <1>9, <1>13, <2>2 DEF RefsAgree
  <2>3. CASE t \in Range(tracks) /\ u = new
    BY <1>4, <1>9, <1>13, <2>3 DEF RefsAgree
  <2>4. CASE t \in Range(tracks) /\ u \in Range(tracks)
    BY <1>12, <2>4
  <2> QED BY <1>6, <2>1, <2>2, <2>3, <2>4
<1>17. later = TrackProfile(r.tracks)
  BY <1>2 DEF later
<1> QED BY <1>2, <1>11, <1>15, <1>16, <1>17 DEF Resolved, r

\* The links of the device and of the database being staged.
LinkInv == Resolved(installed) /\ Resolved(work)

\* In every database that is installed, a track whose record has room for an
\* album id names the record of its album, by the artist of its album, and tracks
\* that have an artist reference share it exactly with tracks of their artist:
\* no pass leaves a link that another has made dangle.
THEOREM AlbumsStayResolved == Spec => []AlbumsResolve
<1>1. ASSUME Init PROVE LinkInv
  BY <1>1, LinksAssumption DEF Init, LinkInv
<1>2. ASSUME LinkInv, BInv, [Next]_vars PROVE LinkInv'
  <2>1. Typed /\ Openable(installed, container) /\ Openable(work, container)
    BY <1>2 DEF BInv, Sound
  <2>2. Resolved(installed) /\ Resolved(work)
    BY <1>2 DEF LinkInv
  <2>3. ASSUME NEW reason, Refuse(reason) PROVE LinkInv'
    BY <2>2, <2>3 DEF Refuse, unstaged, LinkInv
  <2>4. ASSUME NEW to, Continue(to), Resolved(work') PROVE LinkInv'
    BY <2>2, <2>4 DEF Continue, unstaged, LinkInv
  <2>5. CASE Begin
    BY <2>2, <2>5 DEF Begin, LinkInv
  <2>6. CASE RemoveTracks
    <3>1. CASE \E reason : Refuse(reason)
      BY <2>3, <3>1
    <3>2. CASE ~ \E reason : Refuse(reason)
      <4>1. Continue("add") /\ (work' = work \/ work' = RemovedTracks(work, request.removals))
        BY <2>6, <3>2 DEF RemoveTracks
      <4>2. Resolved(RemovedTracks(work, request.removals))
        BY <2>1, <2>2, PassesKeepLinks
      <4>3. Resolved(work')
        BY <2>2, <4>1, <4>2
      <4> QED BY <2>4, <4>1, <4>3
    <3> QED BY <3>1, <3>2
  <2>7. CASE AddTrack
    <3> DEFINE a == request.additions[added + 1]
               base == AdditionBase
               N == Len(request.additions)
    <3>1. CASE added = N
      <4>1. Continue("playlists") /\ work' = work
        BY <2>7, <3>1 DEF AddTrack
      <4> QED BY <2>2, <2>4, <4>1
    <3>2. CASE added # N /\ ~ Addable(base, container, a)
      <4>1. Refuse("addition")
        BY <2>7, <3>2 DEF AddTrack
      <4> QED BY <2>3, <4>1
    <3>3. CASE added # N /\ Addable(base, container, a)
      <4>1. Continue("add") /\ work' = AddedTrack(base, container, a)
        BY <2>7, <3>3 DEF AddTrack
      <4>2. request.additions \in Seq(AdditionRows) /\ added \in 0..N
        BY <2>1 DEF Typed
      <4>3. added + 1 \in 1..N
        BY <3>3, <4>2, LenProperties
      <4>4. a \in AdditionRows
        BY <4>2, <4>3, ElementOfSeq
      <4>5. a.pid \notin Pids(base.tracks)
        BY <3>3 DEF Addable
      <4>6. Openable(base, container) /\ Resolved(base)
        BY <2>1, <2>2 DEF AdditionBase
      <4> HIDE DEF a, base
      <4>7. Resolved(AddedTrack(base, container, a))
        BY <4>4, <4>5, <4>6, AddedIsLinked
      <4>8. Resolved(work')
        BY <4>1, <4>7 DEF a, base
      <4> QED BY <2>4, <4>1, <4>8
    <3> QED BY <3>1, <3>2, <3>3
  <2>8. CASE EditPlaylists
    <3>1. CASE \E reason : Refuse(reason)
      BY <2>3, <3>1
    <3>2. CASE ~ \E reason : Refuse(reason)
      <4>1. Continue("podcasts") /\ (work' = work \/ work' = EditedLists(work, request.playlists))
        BY <2>8, <3>2 DEF EditPlaylists
      <4>2. Resolved(EditedLists(work, request.playlists))
        BY <2>1, <2>2, PassesKeepLinks
      <4>3. Resolved(work')
        BY <2>2, <4>1, <4>2
      <4> QED BY <2>4, <4>1, <4>3
    <3> QED BY <3>1, <3>2
  <2>9. CASE SyncPodcasts
    <3>1. CASE \E reason : Refuse(reason)
      BY <2>3, <3>1
    <3>2. CASE ~ \E reason : Refuse(reason)
      <4>1. Continue("verify") /\ (work' = work \/ work' = SyncedPodcasts(work))
        BY <2>9, <3>2 DEF SyncPodcasts
      <4>2. Resolved(SyncedPodcasts(work))
        BY <2>1, <2>2, PassesKeepLinks
      <4>3. Resolved(work')
        BY <2>2, <4>1, <4>2
      <4> QED BY <2>4, <4>1, <4>3
    <3> QED BY <3>1, <3>2
  <2>10. CASE Verify
    <3>1. CASE \E reason : Refuse(reason)
      BY <2>3, <3>1
    <3>2. CASE ~ \E reason : Refuse(reason)
      <4>1. Continue("staged") /\ work' = work
        BY <2>10, <3>2 DEF Verify
      <4>2. Resolved(work')
        BY <2>2, <4>1
      <4> QED BY <2>4, <4>1, <4>2
    <3> QED BY <3>1, <3>2
  <2>11. CASE Install
    BY <2>2, <2>11 DEF Install, LinkInv
  <2>12. CASE UNCHANGED vars
    BY <2>2, <2>12 DEF vars, LinkInv
  <2> QED BY <1>2, <2>5, <2>6, <2>7, <2>8, <2>9, <2>10, <2>11, <2>12 DEF Next
<1>3. LinkInv => AlbumsResolve
  BY DEF LinkInv, AlbumsResolve
<1> QED BY <1>1, <1>2, <1>3, BinaryInvariance, PTL DEF Spec

------------------------------------------------------------------------------
(* The indexes: numbers that go and numbers that stay. *)

\* What is left of the numbers before x when those of G are gone.
Left(G, x) == x - Below(G, x)

\* The numbers of G from a and before b.
Within(G, a, b) == {n \in G : n >= a /\ n < b}

\* A set that another maps to, one to one, has as many elements.
LEMMA SameCount ==
  ASSUME NEW S, NEW T, IsFiniteSet(S), NEW f \in [S -> T],
         \A x, y \in S : f[x] = f[y] => x = y, \A y \in T : \E x \in S : f[x] = y
  PROVE  IsFiniteSet(T) /\ Cardinality(T) = Cardinality(S)
<1>1. f \in Bijection(S, T)
  BY DEF Bijection, Injection, Surjection, IsInjective
<1>2. ExistsBijection(S, T)
  BY <1>1 DEF ExistsBijection
<1> QED BY <1>2, FS_Bijection

\* An interval has as many numbers as its ends say.
LEMMA IntervalCount ==
  ASSUME NEW a \in Nat, NEW b \in Nat, a <= b
  PROVE  /\ IsFiniteSet({n \in Nat : n >= a /\ n < b})
         /\ Cardinality({n \in Nat : n >= a /\ n < b}) = b - a
<1>1. {n \in Nat : n >= a /\ n < b} = a..(b - 1)
  <2>1. \A n : n \in Nat /\ n >= a /\ n < b <=> n \in a..(b - 1)
    OBVIOUS
  <2> QED BY <2>1
<1>2. a \in Int /\ b - 1 \in Int
  OBVIOUS
<1>3. IsFiniteSet(a..(b - 1)) /\ Cardinality(a..(b - 1)) = IF a > b - 1 THEN 0 ELSE b - 1 - a + 1
  BY <1>2, FS_Interval
<1>4. (IF a > b - 1 THEN 0 ELSE b - 1 - a + 1) = b - a
  OBVIOUS
<1> QED BY <1>1, <1>3, <1>4

\* Numbers that go are counted piece by piece.
LEMMA WithinIs ==
  ASSUME NEW G \in SUBSET Nat, NEW a \in Nat, NEW b \in Nat, a <= b
  PROVE  /\ IsFiniteSet(Within(G, a, b)) /\ Cardinality(Within(G, a, b)) \in Nat
         /\ Cardinality(Within(G, a, b)) <= b - a
<1>1. Within(G, a, b) \in SUBSET {n \in Nat : n >= a /\ n < b}
  BY DEF Within
<1> DEFINE I == {n \in Nat : n >= a /\ n < b}
           W == Within(G, a, b)
<1>2. IsFiniteSet(I) /\ Cardinality(I) = b - a
  BY IntervalCount
<1>3. W \in SUBSET I
  BY <1>1
<1> HIDE DEF I, W
<1>4. IsFiniteSet(W) /\ Cardinality(W) <= Cardinality(I)
  BY <1>2, <1>3, FS_Subset
<1>5. Cardinality(W) \in Nat
  BY <1>4, FS_CardinalityType
<1>6. IsFiniteSet(W) /\ Cardinality(W) \in Nat /\ Cardinality(W) <= b - a
  BY <1>2, <1>4, <1>5
<1> QED BY <1>6 DEF W

\* No more numbers go before one than there are before it.
LEMMA BelowIs ==
  ASSUME NEW G \in SUBSET Nat, NEW a \in Nat
  PROVE  /\ Below(G, a) \in Nat /\ Below(G, a) <= a /\ Left(G, a) \in Nat
         /\ Below(G, 0) = 0 /\ Left(G, 0) = 0
<1>1. ASSUME NEW b \in Nat PROVE Below(G, b) \in Nat /\ Below(G, b) <= b
  <2>5. \A m \in G : m \in Nat /\ m >= 0
    OBVIOUS
  <2>1. {m \in G : m < b} = Within(G, 0, b)
    BY <2>5 DEF Within
  <2>2. 0 \in Nat /\ 0 <= b
    OBVIOUS
  <2>3. Cardinality(Within(G, 0, b)) \in Nat /\ Cardinality(Within(G, 0, b)) <= b - 0
    BY <2>2, WithinIs
  <2>4. Below(G, b) = Cardinality(Within(G, 0, b))
    BY <2>1 DEF Below
  <2> QED BY <2>3, <2>4
<1>2. Below(G, 0) = 0
  <2>1. Below(G, 0) \in Nat /\ Below(G, 0) <= 0
    BY <1>1
  <2> QED BY <2>1
<1>3. Below(G, a) \in Nat /\ Below(G, a) <= a
  BY <1>1
<1> QED BY <1>2, <1>3 DEF Left

\* What goes before b goes before a, or between the two.
LEMMA BelowAdds ==
  ASSUME NEW G \in SUBSET Nat, NEW a \in Nat, NEW b \in Nat, a <= b
  PROVE  /\ Below(G, b) = Below(G, a) + Cardinality(Within(G, a, b))
         /\ Left(G, b) = Left(G, a) + (b - a - Cardinality(Within(G, a, b)))
         /\ Left(G, a) <= Left(G, b)
<1> DEFINE L == Within(G, 0, a)
           W == Within(G, a, b)
           M == Within(G, 0, b)
<1>13. \A m \in G : m \in Nat /\ m >= 0
  OBVIOUS
<1>1. {m \in G : m < a} = L /\ {m \in G : m < b} = M
  BY <1>13 DEF Within
<1>2. Below(G, a) = Cardinality(L) /\ Below(G, b) = Cardinality(M)
  BY <1>1 DEF Below
<1>3. M = L \cup W /\ L \cap W = {}
  <2>1. \A m \in G : (m >= 0 /\ m < b <=> (m >= 0 /\ m < a) \/ (m >= a /\ m < b)) /\ ~ (m < a /\ m >= a)
    BY <1>13
  <2> QED BY <2>1 DEF Within
<1>11. 0 \in Nat /\ 0 <= a
  OBVIOUS
<1>4. IsFiniteSet(L) /\ Cardinality(L) \in Nat
  BY <1>11, WithinIs
<1>5. IsFiniteSet(W) /\ Cardinality(W) \in Nat /\ Cardinality(W) <= b - a
  BY WithinIs
<1> HIDE DEF L, W, M
<1>12. Cardinality(L \cup W) = Cardinality(L) + Cardinality(W) - Cardinality(L \cap W)
  BY <1>4, <1>5, FS_Union
<1>6. Cardinality(M) = Cardinality(L) + Cardinality(W) - Cardinality(L \cap W)
  BY <1>3, <1>12
<1>7. Cardinality(L \cap W) = 0
  BY <1>3, FS_EmptySet
<1>8. Below(G, b) = Below(G, a) + Cardinality(W)
  BY <1>2, <1>4, <1>5, <1>6, <1>7
<1>9. Below(G, a) \in Nat /\ Below(G, b) \in Nat
  BY BelowIs
<1>10. Left(G, b) = Left(G, a) + (b - a - Cardinality(W)) /\ Left(G, a) <= Left(G, b)
  BY <1>5, <1>8, <1>9 DEF Left
<1> QED BY <1>8, <1>10 DEF W

\* A number that stays makes a difference to what is after it.
LEMMA LeftGrows ==
  ASSUME NEW G \in SUBSET Nat, NEW a \in Nat \ G, NEW b \in Nat, a < b
  PROVE  Left(G, a) < Left(G, b)
<1>1. PICK c \in Nat : c = a + 1
  OBVIOUS
<1>2. a \in Nat /\ a <= c /\ c <= b
  BY <1>1
<1>3. Within(G, a, c) = {}
  <2>1. \A n \in G : ~ (n >= a /\ n < c)
    BY <1>1
  <2> QED BY <2>1 DEF Within
<1>4. Cardinality(Within(G, a, c)) = 0
  BY <1>3, FS_EmptySet
<1>5. Left(G, c) = Left(G, a) + (c - a - Cardinality(Within(G, a, c)))
  BY <1>2, BelowAdds
<1>6. Left(G, c) <= Left(G, b)
  BY <1>2, BelowAdds
<1>7. Left(G, a) \in Nat /\ Left(G, b) \in Nat /\ Left(G, c) \in Nat
  BY <1>2, BelowIs
<1> QED BY <1>1, <1>4, <1>5, <1>6, <1>7

------------------------------------------------------------------------------
(* The jump table that a removal leaves. *)

\* The record of an entry, and a jump table of such records.
EntryRecord(e) == DOMAIN e = {"letter", "start", "count"} /\ e.start \in Nat /\ e.count \in Nat
JumpRecords(jumps) == IsSeq(jumps) /\ \A k \in DOMAIN jumps : EntryRecord(jumps[k])

\* An entry, when the slots G are gone.
EntryWithout(e, G) ==
  [e EXCEPT !.start = @ - Below(G, @), !.count = @ - Cardinality({n \in G : n >= e.start /\ n < e.start + e.count})]

\* Entry r is what is left of entry e.
EntryLeft(r, e, G) == r.letter = e.letter /\ r.start = Left(G, e.start) /\ EndOf(r) = Left(G, EndOf(e))

\* An entry without some slots begins and ends at what is left of its ends.
LEMMA EntryWithoutIs ==
  ASSUME NEW G \in SUBSET Nat, NEW e, EntryRecord(e)
  PROVE  EntryRecord(EntryWithout(e, G)) /\ EntryLeft(EntryWithout(e, G), e, G)
<1> DEFINE r == EntryWithout(e, G)
<1>1. DOMAIN e = {"letter", "start", "count"} /\ e.start \in Nat /\ e.count \in Nat
  BY DEF EntryRecord
<1>2. PICK z \in Nat : z = EndOf(e) /\ z = e.start + e.count
  BY <1>1 DEF EndOf
<1>3. e.start <= z
  BY <1>1, <1>2
<1>4. /\ Left(G, z) = Left(G, e.start) + (z - e.start - Cardinality(Within(G, e.start, z)))
      /\ Left(G, e.start) <= Left(G, z)
  BY <1>1, <1>3, BelowAdds
<1>5. Left(G, e.start) \in Nat /\ Left(G, z) \in Nat
  BY <1>1, BelowIs
<1>6. IsFiniteSet(Within(G, e.start, z)) /\ Cardinality(Within(G, e.start, z)) \in Nat
      /\ Cardinality(Within(G, e.start, z)) <= z - e.start
  BY <1>1, <1>3, WithinIs
<1>7. {n \in G : n >= e.start /\ n < e.start + e.count} = Within(G, e.start, z)
  BY <1>2 DEF Within
<1>8. /\ DOMAIN r = {"letter", "start", "count"} /\ r.letter = e.letter
      /\ r.start = e.start - Below(G, e.start)
      /\ r.count = e.count - Cardinality(Within(G, e.start, z))
  BY <1>1, <1>7 DEF EntryWithout
<1> HIDE DEF r
<1>9. r.start = Left(G, e.start)
  BY <1>8 DEF Left
<1>10. r.count \in Nat
  BY <1>1, <1>2, <1>6, <1>8
<1>11. r.start + r.count = Left(G, z)
  BY <1>1, <1>2, <1>4, <1>5, <1>6, <1>8, <1>9
<1>12. EndOf(r) = Left(G, EndOf(e))
  BY <1>2, <1>11 DEF EndOf
<1>13. EntryRecord(r)
  BY <1>5, <1>8, <1>9, <1>10 DEF EntryRecord
<1>14. EntryLeft(r, e, G)
  BY <1>8, <1>9, <1>12 DEF EntryLeft
<1> QED BY <1>13, <1>14 DEF r

\* The entries that stay.
ShorterJumps(jumps, G) == [k \in DOMAIN jumps |-> EntryWithout(jumps[k], G)]
FullEntries(jumps, G) == {k \in DOMAIN jumps : EntryWithout(jumps[k], G).count > 0}

\* What remove_tracks keeps are the entries with a slot left, in their order.
LEMMA RemovedJumpsAre ==
  ASSUME NEW G \in SUBSET Nat, NEW jumps, JumpRecords(jumps)
  PROVE  LET t == RemovedJumps(jumps, G)
             P == FullEntries(jumps, G)
             s == ShorterJumps(jumps, G)
         IN  /\ P \in SUBSET (1..Len(jumps)) /\ JumpRecords(t)
             /\ \E pos : Places(s, P, t, pos)
             /\ \A k \in DOMAIN jumps : EntryRecord(s[k]) /\ EntryLeft(s[k], jumps[k], G)
             /\ DOMAIN s = DOMAIN jumps /\ \A k \in DOMAIN jumps : k \in P <=> s[k].count > 0
<1> DEFINE t == RemovedJumps(jumps, G)
           P == FullEntries(jumps, G)
           s == ShorterJumps(jumps, G)
           S == {EntryWithout(jumps[k], G) : k \in DOMAIN jumps}
<1>1. IsSeq(jumps) /\ \A k \in DOMAIN jumps : EntryRecord(jumps[k])
  BY DEF JumpRecords
<1>2. Len(jumps) \in Nat /\ DOMAIN jumps = 1..Len(jumps)
  BY <1>1, ItsRange
<1>3. s \in [1..Len(jumps) -> S] /\ \A k \in DOMAIN jumps : s[k] = EntryWithout(jumps[k], G)
  BY <1>2 DEF ShorterJumps
<1>4. DOMAIN s = DOMAIN jumps /\ P = {k \in DOMAIN s : s[k].count > 0}
  BY <1>3 DEF ShorterJumps, FullEntries
<1>5. t = Selected(s, P)
  BY <1>4 DEF RemovedJumps, ShorterJumps, EntryWithout
<1>6. \A k \in DOMAIN jumps : EntryRecord(s[k]) /\ EntryLeft(s[k], jumps[k], G)
  BY <1>1, <1>3, EntryWithoutIs
<1> HIDE DEF s, P, S, t
<1>7. s \in Seq(S) /\ Len(s) = Len(jumps)
  BY <1>2, <1>3, FunctionIsSeq
<1>8. P \in SUBSET (1..Len(s)) /\ P \in SUBSET (1..Len(jumps))
  BY <1>2, <1>4, <1>7
<1>9. t \in Seq(S) /\ \E pos : Places(s, P, t, pos)
  BY <1>5, <1>7, <1>8, SelectedPlaces
<1>10. PICK pos : Places(s, P, t, pos)
  BY <1>9
<1>11. IsSeq(t) /\ DOMAIN t = 1..Len(t)
  BY <1>9, SeqFacts
<1>12. ASSUME NEW k \in DOMAIN t PROVE EntryRecord(t[k])
  <2>1. pos[k] \in P /\ t[k] = s[pos[k]]
    BY <1>10, <1>11 DEF Places
  <2> QED BY <1>2, <1>6, <1>8, <2>1
<1>13. JumpRecords(t)
  BY <1>11, <1>12 DEF JumpRecords
<1>14. \A k \in DOMAIN jumps : k \in P <=> s[k].count > 0
  BY <1>4
<1> QED BY <1>4, <1>6, <1>8, <1>9, <1>13, <1>14 DEF s, P, t

\* Where entry k ends, and entry k + 1 begins.
Lead(jumps, k) == IF k = 0 THEN 0 ELSE EndOf(jumps[k])

\* The entries follow each other from 0 to n.
LEMMA LeadIs ==
  ASSUME NEW jumps, JumpRecords(jumps), NEW n, Divide(jumps, n)
  PROVE  /\ Len(jumps) \in Nat /\ DOMAIN jumps = 1..Len(jumps)
         /\ \A k \in 0..Len(jumps) : Lead(jumps, k) \in Nat
         /\ \A k \in DOMAIN jumps : jumps[k].start = Lead(jumps, k - 1) /\ EndOf(jumps[k]) = Lead(jumps, k)
         /\ n = Lead(jumps, Len(jumps)) /\ Lead(jumps, 0) = 0
<1>1. IsSeq(jumps) /\ \A k \in DOMAIN jumps : EntryRecord(jumps[k])
  BY DEF JumpRecords
<1>2. Len(jumps) \in Nat /\ DOMAIN jumps = 1..Len(jumps)
  BY <1>1, ItsRange
<1>3. ASSUME NEW k \in 0..Len(jumps) PROVE Lead(jumps, k) \in Nat
  <2>1. CASE k = 0
    BY <2>1 DEF Lead
  <2>2. CASE k # 0
    <3>1. k \in DOMAIN jumps
      BY <1>2, <2>2
    <3>2. jumps[k].start \in Nat /\ jumps[k].count \in Nat
      BY <1>1, <3>1 DEF EntryRecord
    <3> QED BY <2>2, <3>2 DEF Lead, EndOf
  <2> QED BY <2>1, <2>2
<1>4. ASSUME NEW k \in DOMAIN jumps PROVE jumps[k].start = Lead(jumps, k - 1) /\ EndOf(jumps[k]) = Lead(jumps, k)
  <2>1. jumps[k].start = IF k = 1 THEN 0 ELSE EndOf(jumps[k - 1])
    BY DEF Divide
  <2>2. k # 0 /\ (k - 1 = 0 <=> k = 1)
    BY <1>2
  <2> QED BY <2>1, <2>2 DEF Lead
<1>5. n = Lead(jumps, Len(jumps))
  <2>1. n = IF jumps = <<>> THEN 0 ELSE EndOf(jumps[Len(jumps)])
    BY DEF Divide
  <2>2. jumps = <<>> <=> Len(jumps) = 0
    <3>1. jumps \in Seq(Range(jumps))
      BY <1>1 DEF IsSeq
    <3> QED BY <3>1, EmptySeq
  <2> QED BY <2>1, <2>2 DEF Lead
<1> QED BY <1>2, <1>3, <1>4, <1>5 DEF Lead

\* The entries that are empty now do not move the others: after entries that are
\* dropped what is left ends where it did before them.
LEMMA LeadKept ==
  ASSUME NEW G \in SUBSET Nat, NEW jumps, JumpRecords(jumps), NEW n, Divide(jumps, n),
         NEW a \in 0..Len(jumps), NEW b \in 0..Len(jumps), a <= b,
         \A k \in FullEntries(jumps, G) : ~ (a < k /\ k <= b)
  PROVE  Left(G, Lead(jumps, a)) = Left(G, Lead(jumps, b))
<1> DEFINE N == Len(jumps)
           E(k) == Left(G, Lead(jumps, k))
           Apart == {k \in 0..N : a <= k /\ k <= b /\ E(k) # E(a)}
<1>1. /\ N \in Nat /\ DOMAIN jumps = 1..N
      /\ \A k \in 0..N : Lead(jumps, k) \in Nat
      /\ \A k \in DOMAIN jumps : jumps[k].start = Lead(jumps, k - 1) /\ EndOf(jumps[k]) = Lead(jumps, k)
  BY LeadIs
<1>2. SUFFICES ASSUME Apart # {} PROVE FALSE
  BY <1>1
<1>3. PICK k \in Apart : \A m \in Apart : k <= m
  <2>1. Apart \in SUBSET Nat
    BY <1>1
  <2> HIDE DEF Apart
  <2> QED BY <1>2, <2>1, NatHasMin
<1>4. k # a /\ k \in 1..N /\ k - 1 \in 0..N /\ a <= k - 1 /\ k - 1 <= b /\ k - 1 < k /\ a < k /\ k <= b /\ E(k) # E(a)
  BY <1>1, <1>3
<1>5. E(k - 1) = E(a)
  <2>1. k - 1 \notin Apart
    <3>1. k \in Nat /\ k - 1 \in Nat
      BY <1>4
    <3> HIDE DEF Apart
    <3> QED BY <1>3, <1>4, <3>1
  <2> HIDE DEF E
  <2> QED BY <1>4, <2>1
<1>6. k \notin FullEntries(jumps, G)
  BY <1>4
<1> DEFINE r == EntryWithout(jumps[k], G)
<1>7. EntryRecord(jumps[k])
  BY <1>1, <1>4 DEF JumpRecords
<1>8. EntryRecord(r) /\ EntryLeft(r, jumps[k], G)
  BY <1>7, EntryWithoutIs
<1>9. ~ (r.count > 0)
  BY <1>1, <1>4, <1>6 DEF FullEntries
<1> HIDE DEF r, E
<1>10. r.count = 0 /\ r.start \in Nat
  BY <1>8, <1>9 DEF EntryRecord
<1>11. r.start = EndOf(r)
  BY <1>10 DEF EndOf
<1>12. jumps[k].start = Lead(jumps, k - 1) /\ EndOf(jumps[k]) = Lead(jumps, k)
  BY <1>1, <1>4
<1>13. E(k - 1) = E(k)
  BY <1>8, <1>11, <1>12 DEF EntryLeft, E
<1> QED BY <1>4, <1>5, <1>13

\* What a removal leaves of a jump table divides what is left of the slots.
LEMMA RunsWithout ==
  ASSUME NEW G \in SUBSET Nat, NEW jumps, JumpRecords(jumps), NEW n, Divide(jumps, n)
  PROVE  LET t == RemovedJumps(jumps, G)
         IN  /\ JumpRecords(t) /\ Divide(t, Left(G, n))
             /\ \A k \in DOMAIN t : \E i \in DOMAIN jumps : EntryLeft(t[k], jumps[i], G)
<1> DEFINE t == RemovedJumps(jumps, G)
           P == FullEntries(jumps, G)
           s == ShorterJumps(jumps, G)
           N == Len(jumps)
           E(k) == Left(G, Lead(jumps, k))
<1>1. /\ P \in SUBSET (1..N) /\ JumpRecords(t)
      /\ \E pos : Places(s, P, t, pos)
      /\ \A k \in DOMAIN jumps : EntryRecord(s[k]) /\ EntryLeft(s[k], jumps[k], G)
      /\ DOMAIN s = DOMAIN jumps /\ \A k \in DOMAIN jumps : k \in P <=> s[k].count > 0
  BY RemovedJumpsAre
<1>2. PICK pos : Places(s, P, t, pos)
  BY <1>1
<1>3. /\ N \in Nat /\ DOMAIN jumps = 1..N
      /\ \A k \in 0..N : Lead(jumps, k) \in Nat
      /\ \A k \in DOMAIN jumps : jumps[k].start = Lead(jumps, k - 1) /\ EndOf(jumps[k]) = Lead(jumps, k)
      /\ n = Lead(jumps, N) /\ Lead(jumps, 0) = 0
  BY LeadIs
<1>4. ASSUME NEW a \in 0..N, NEW b \in 0..N, a <= b, \A k \in P : ~ (a < k /\ k <= b) PROVE E(a) = E(b)
  BY <1>4, LeadKept
<1>5. E(0) = 0 /\ E(N) = Left(G, n)
  BY <1>3, BelowIs
<1> HIDE DEF t, P, s, E
<1>6. IsSeq(t) /\ Len(t) \in Nat /\ DOMAIN t = 1..Len(t)
  BY <1>1, ItsRange DEF JumpRecords
<1>7. /\ pos \in [1..Len(t) -> P]
      /\ \A k \in 1..Len(t) : t[k] = s[pos[k]]
      /\ \A k, l \in 1..Len(t) : k < l => pos[k] < pos[l]
      /\ \A i \in P : \E k \in 1..Len(t) : pos[k] = i
  BY <1>2 DEF Places
<1>8. ASSUME NEW k \in 1..Len(t)
      PROVE  /\ pos[k] \in 1..N /\ EntryLeft(t[k], jumps[pos[k]], G) /\ t[k].count > 0
             /\ t[k].start = E(pos[k] - 1) /\ EndOf(t[k]) = E(pos[k])
  <2>1. pos[k] \in P /\ pos[k] \in 1..N /\ t[k] = s[pos[k]]
    BY <1>1, <1>7
  <2>2. EntryLeft(t[k], jumps[pos[k]], G) /\ t[k].count > 0
    BY <1>1, <1>3, <2>1
  <2>3. jumps[pos[k]].start = Lead(jumps, pos[k] - 1) /\ EndOf(jumps[pos[k]]) = Lead(jumps, pos[k])
    BY <1>3, <2>1
  <2> QED BY <2>1, <2>2, <2>3 DEF EntryLeft, E
<1>9. ASSUME NEW k \in 1..Len(t) PROVE t[k].start = IF k = 1 THEN 0 ELSE EndOf(t[k - 1])
  <2>1. CASE k = 1
    <3>1. \A i \in P : ~ (0 < i /\ i <= pos[k] - 1)
      <4>1. SUFFICES ASSUME NEW i \in P, i <= pos[k] - 1 PROVE FALSE
        OBVIOUS
      <4>2. PICK l \in 1..Len(t) : pos[l] = i
        BY <1>7
      <4>3. l # k
        BY <1>8, <4>1, <4>2
      <4>4. k < l
        BY <1>6, <2>1, <4>3
      <4>5. pos[k] < pos[l]
        BY <1>7, <4>4
      <4>6. pos[k] \in 1..N /\ i \in 1..N
        BY <1>1, <1>8
      <4> QED BY <1>3, <4>1, <4>2, <4>5, <4>6
    <3>2. pos[k] - 1 \in 0..N /\ 0 \in 0..N /\ 0 <= pos[k] - 1
      <4>1. pos[k] \in 1..N
        BY <1>8
      <4> QED BY <1>3, <4>1
    <3>3. E(0) = E(pos[k] - 1)
      BY <1>4, <3>1, <3>2
    <3> QED BY <1>5, <1>8, <2>1, <3>3
  <2>2. CASE k # 1
    <3>0. PICK h \in 1..Len(t) : h = k - 1 /\ h < k
      BY <1>6, <2>2
    <3>1. \A i \in P : ~ (pos[h] < i /\ i <= pos[k] - 1)
      <4>1. SUFFICES ASSUME NEW i \in P, pos[h] < i, i <= pos[k] - 1 PROVE FALSE
        OBVIOUS
      <4>2. PICK l \in 1..Len(t) : pos[l] = i
        BY <1>7
      <4>6. pos[k] \in 1..N /\ i \in 1..N /\ pos[h] \in 1..N
        BY <1>1, <1>8
      <4>3. i < pos[k]
        BY <1>3, <4>1, <4>6
      <4>4. h < l
        <5>1. SUFFICES ASSUME ~ (h < l) PROVE FALSE
          OBVIOUS
        <5>2. l = h \/ l < h
          BY <1>6, <5>1
        <5>3. pos[l] = pos[h] \/ pos[l] < pos[h]
          BY <1>7, <5>2
        <5> QED BY <4>1, <4>2, <4>6, <5>3
      <4>5. l < k
        <5>1. SUFFICES ASSUME ~ (l < k) PROVE FALSE
          OBVIOUS
        <5>2. l = k \/ k < l
          BY <1>6, <5>1
        <5>3. pos[l] = pos[k] \/ pos[k] < pos[l]
          BY <1>7, <5>2
        <5> QED BY <4>3, <4>2, <4>6, <5>3
      <4> QED BY <1>6, <3>0, <4>4, <4>5
    <3>2. pos[k] - 1 \in 0..N /\ pos[h] \in 0..N /\ pos[h] <= pos[k] - 1
      <4>1. pos[k] \in 1..N /\ pos[h] \in 1..N
        BY <1>8
      <4>2. pos[h] < pos[k]
        BY <1>7, <3>0
      <4> QED BY <1>3, <4>1, <4>2
    <3>3. E(pos[h]) = E(pos[k] - 1)
      BY <1>4, <3>1, <3>2
    <3>4. EndOf(t[h]) = E(pos[h]) /\ t[k].start = E(pos[k] - 1)
      BY <1>8
    <3> QED BY <2>2, <3>0, <3>3, <3>4
  <2> QED BY <2>1, <2>2
<1>10. Left(G, n) = IF t = <<>> THEN 0 ELSE EndOf(t[Len(t)])
  <2>0. t = <<>> <=> Len(t) = 0
    <3>1. t \in Seq(Range(t))
      BY <1>6 DEF IsSeq
    <3> QED BY <3>1, EmptySeq
  <2>1. CASE Len(t) = 0
    <3>1. \A i \in P : ~ (0 < i /\ i <= N)
      <4>1. 1..Len(t) = {}
        BY <2>1
      <4> QED BY <1>7, <4>1
    <3>2. 0 \in 0..N /\ N \in 0..N /\ 0 <= N
      BY <1>3
    <3>3. E(0) = E(N)
      BY <1>4, <3>1, <3>2
    <3> QED BY <1>5, <2>0, <2>1, <3>3
  <2>2. CASE Len(t) # 0
    <3>5. PICK k \in Nat : k = Len(t)
      BY <1>6
    <3>6. k \in 1..k /\ \A l \in 1..k : l = k \/ l < k
      BY <2>2, <3>5
    <3>0. k \in 1..Len(t) /\ k = Len(t) /\ \A l \in 1..Len(t) : l = k \/ l < k
      BY <3>5, <3>6
    <3>1. \A i \in P : ~ (pos[k] < i /\ i <= N)
      <4>1. SUFFICES ASSUME NEW i \in P, pos[k] < i PROVE FALSE
        OBVIOUS
      <4>2. PICK l \in 1..Len(t) : pos[l] = i
        BY <1>7
      <4>3. l = k \/ l < k
        BY <3>0
      <4>4. pos[l] = pos[k] \/ pos[l] < pos[k]
        BY <1>7, <3>0, <4>3
      <4>5. pos[k] \in 1..N /\ i \in 1..N
        BY <1>1, <1>8, <3>0
      <4> QED BY <4>1, <4>2, <4>4, <4>5
    <3>2. pos[k] \in 0..N /\ N \in 0..N /\ pos[k] <= N
      <4>1. pos[k] \in 1..N
        BY <1>8, <3>0
      <4> QED BY <1>3, <4>1
    <3>3. E(pos[k]) = E(N)
      BY <1>4, <3>1, <3>2
    <3>4. EndOf(t[k]) = E(pos[k])
      BY <1>8, <3>0
    <3> QED BY <1>5, <2>0, <2>2, <3>0, <3>3, <3>4
  <2> QED BY <2>1, <2>2
<1>11. Divide(t, Left(G, n))
  BY <1>6, <1>8, <1>9, <1>10 DEF Divide
<1>12. \A k \in DOMAIN t : \E i \in DOMAIN jumps : EntryLeft(t[k], jumps[i], G)
  <2>1. ASSUME NEW k \in DOMAIN t PROVE \E i \in DOMAIN jumps : EntryLeft(t[k], jumps[i], G)
    <3>1. pos[k] \in DOMAIN jumps /\ EntryLeft(t[k], jumps[pos[k]], G)
      BY <1>3, <1>6, <1>8
    <3> QED BY <3>1
  <2> QED BY <2>1
<1> QED BY <1>1, <1>11, <1>12 DEF t

------------------------------------------------------------------------------
(* The slots that a removal leaves. *)

\* The places that go, counted from 0.
OthersOf(N, P) == {m - 1 : m \in (1..N) \ P}

\* Elements of a set of places, before one and altogether.
LEMMA OthersBelow ==
  ASSUME NEW N \in Nat, NEW P \in SUBSET (1..N), NEW i \in 1..(N + 1)
  PROVE  /\ OthersOf(N, P) \in SUBSET (0..(N - 1))
         /\ IsFiniteSet(Preceding((1..N) \ P, i))
         /\ Below(OthersOf(N, P), i - 1) = Cardinality(Preceding((1..N) \ P, i))
<1> DEFINE M == (1..N) \ P
           S == Preceding(M, i)
           G == OthersOf(N, P)
           T == {m \in G : m < i - 1}
           g == [m \in S |-> m - 1]
<1>1. G \in SUBSET (0..(N - 1)) /\ \A x : x \in G <=> \E m \in M : x = m - 1
  <2>1. \A m \in 1..N : m - 1 \in 0..(N - 1)
    OBVIOUS
  <2> QED BY <2>1 DEF OthersOf
<1>2. \A m \in S : m \in Nat /\ m >= 1 /\ m <= N /\ m < i /\ m \in M
  BY DEF Preceding
<1>3. IsFiniteSet(S)
  <2>1. IsFiniteSet(1..N)
    BY FS_Interval
  <2>2. S \in SUBSET (1..N)
    BY DEF Preceding
  <2> HIDE DEF S
  <2> QED BY <2>1, <2>2, FS_Subset
<1>4. g \in [S -> T]
  <2>1. ASSUME NEW m \in S PROVE m - 1 \in T
    <3>1. m - 1 \in G
      BY <1>1, <1>2
    <3>2. m - 1 < i - 1
      BY <1>2
    <3> QED BY <3>1, <3>2
  <2> HIDE DEF S, T
  <2> QED BY <2>1
<1>5. ASSUME NEW x \in S, NEW y \in S, g[x] = g[y] PROVE x = y
  <2>1. x \in Nat /\ y \in Nat
    BY <1>2
  <2>2. g[x] = x - 1 /\ g[y] = y - 1
    OBVIOUS
  <2>3. x - 1 = y - 1
    BY <1>5, <2>2
  <2> QED BY <2>1, <2>3
<1>6. ASSUME NEW y \in T PROVE \E x \in S : g[x] = y
  <2>1. PICK m \in M : y = m - 1
    BY <1>1
  <2>2. m \in Nat /\ m < i
    BY <2>1
  <2>3. m \in S
    BY <2>1, <2>2 DEF Preceding
  <2>4. g[m] = y
    BY <2>1, <2>3
  <2> QED BY <2>3, <2>4
<1> HIDE DEF S, T, g
<1>7. Cardinality(T) = Cardinality(S)
  BY <1>3, <1>4, <1>5, <1>6, SameCount
<1>8. Below(G, i - 1) = Cardinality(T)
  BY DEF Below, T
<1> QED BY <1>1, <1>3, <1>7, <1>8 DEF S, G, M

\* Of N places the ones in P are left, t has them, and those of G are gone.
FewerPlaces(N, P, G, t, pos) ==
  /\ G \in SUBSET (0..(N - 1)) /\ G \in SUBSET Nat /\ Len(t) = Left(G, N)
  /\ \A k \in 1..Len(t) : /\ pos[k] \in 1..N /\ pos[k] \in P
                          /\ pos[k] - 1 \in Nat \ G /\ Left(G, pos[k] - 1) = k - 1

\* A place that stays comes after the places before it that stay.
LEMMA PlacesLeft ==
  ASSUME NEW N \in Nat, NEW P \in SUBSET (1..N), NEW s, NEW t, Len(t) \in Nat, NEW pos, Places(s, P, t, pos)
  PROVE  FewerPlaces(N, P, OthersOf(N, P), t, pos)
<1> DEFINE G == OthersOf(N, P)
           M == (1..N) \ P
<1>1. PICK z \in 1..(N + 1) : z = N + 1 /\ z - 1 = N
  OBVIOUS
<1>6. G \in SUBSET (0..(N - 1)) /\ Below(G, z - 1) = Cardinality(Preceding(M, z))
  BY OthersBelow
<1>2. G \in SUBSET (0..(N - 1)) /\ Below(G, N) = Cardinality(Preceding(M, z))
  BY <1>1, <1>6
<1>3. G \in SUBSET Nat
  BY <1>2
<1>4. ASSUME NEW k \in 1..Len(t)
      PROVE  pos[k] \in 1..N /\ pos[k] \in P /\ pos[k] - 1 \in Nat \ G /\ Left(G, pos[k] - 1) = k - 1
  <2>1. pos[k] \in P
    BY DEF Places
  <2>5. PICK i \in 1..N : i = pos[k]
    BY <2>1
  <2>2. i \in 1..(N + 1) /\ i \in Nat /\ i - 1 \in Nat
    BY <2>5
  <2>11. i \in 1..(N + 1)
    BY <2>2
  <2>3. Below(G, i - 1) = Cardinality(Preceding(M, i))
    BY <2>11, OthersBelow
  <2>4. P = (1..N) \ M /\ M \in SUBSET (1..N)
    OBVIOUS
  <2>6. i - 1 - Cardinality(Preceding(M, i)) = Cardinality(Preceding(P, i))
    BY <2>4, CountBefore
  <2>7. P \in SUBSET Nat
    OBVIOUS
  <2>8. Cardinality(Preceding(P, i)) = k - 1
    BY <2>5, <2>7, PlacesCount
  <2>9. Left(G, i - 1) = k - 1
    BY <2>3, <2>6, <2>8 DEF Left
  <2>10. i - 1 \notin G
    <3>1. SUFFICES ASSUME NEW m \in M, i - 1 = m - 1 PROVE FALSE
      BY DEF OthersOf
    <3>2. m \in Nat /\ m \notin P
      OBVIOUS
    <3>3. m = i
      BY <2>2, <3>1, <3>2
    <3> QED BY <2>1, <2>5, <3>2, <3>3
  <2> QED BY <2>1, <2>2, <2>5, <2>9, <2>10
<1>5. Len(t) = Left(G, N)
  <2>1. IsFiniteSet(1..N) /\ Cardinality(1..N) = N
    <3>1. 1 \in Int /\ N \in Int
      OBVIOUS
    <3>2. IsFiniteSet(1..N) /\ Cardinality(1..N) = IF 1 > N THEN 0 ELSE N - 1 + 1
      BY <3>1, FS_Interval
    <3> QED BY <3>2
  <2>2. Preceding(M, z) = M
    <3>1. \A m \in M : m < z
      BY <1>1
    <3> QED BY <3>1 DEF Preceding
  <2>3. M \in SUBSET (1..N) /\ P \cup M = 1..N /\ P \cap M = {}
    OBVIOUS
  <2> HIDE DEF M
  <2>4. IsFiniteSet(M) /\ Cardinality(M) \in Nat /\ IsFiniteSet(P) /\ Cardinality(P) \in Nat
    BY <2>1, <2>3, CountIsNat
  <2>5. Cardinality(P \cup M) = Cardinality(P) + Cardinality(M) - Cardinality(P \cap M)
    BY <2>4, FS_Union
  <2>6. Cardinality(P \cap M) = 0
    BY <2>3, FS_EmptySet
  <2>11. N = Cardinality(P) + Cardinality(M) - 0
    BY <2>1, <2>3, <2>5, <2>6
  <2>7. N = Cardinality(P) + Cardinality(M)
    BY <2>4, <2>11
  <2>8. Cardinality(P) = Len(t)
    <3> DEFINE L == Len(t)
    <3>1. IsFiniteSet(1..L) /\ Cardinality(1..L) = L
      <4>1. 1 \in Int /\ L \in Int
        OBVIOUS
      <4>2. IsFiniteSet(1..L) /\ Cardinality(1..L) = IF 1 > L THEN 0 ELSE L - 1 + 1
        BY <4>1, FS_Interval
      <4> QED BY <4>2
    <3>2. pos \in [1..L -> P] /\ \A y \in P : \E x \in 1..L : pos[x] = y
      BY DEF Places
    <3>3. ASSUME NEW x \in 1..L, NEW y \in 1..L, pos[x] = pos[y] PROVE x = y
      <4>1. P \in SUBSET Nat
        OBVIOUS
      <4> QED BY <3>3, <4>1, PlacesApart
    <3> HIDE DEF L
    <3>4. Cardinality(P) = Cardinality(1..L)
      BY <3>1, <3>2, <3>3, SameCount
    <3> QED BY <3>1, <3>4 DEF L
  <2>10. Below(G, N) = Cardinality(M)
    BY <1>2, <2>2
  <2> QED BY <2>4, <2>7, <2>8, <2>10 DEF Left
<1> QED BY <1>2, <1>3, <1>4, <1>5 DEF FewerPlaces

\* Slots that list each of N positions once.
WholeSlots(slots, N) ==
  IsSeq(slots) /\ Range(slots) = 0..(N - 1) /\ \A m, n \in DOMAIN slots : slots[m] = slots[n] => m = n

\* They are as many as the positions.
LEMMA WholeSlotsAre ==
  ASSUME NEW N \in Nat, NEW slots, WholeSlots(slots, N)
  PROVE  /\ Len(slots) = N /\ DOMAIN slots = 1..N /\ slots \in [1..N -> 0..(N - 1)] /\ slots \in Seq(0..(N - 1))
         /\ \A m, n \in 1..N : slots[m] = slots[n] => m = n
         /\ \A p \in 0..(N - 1) : \E n \in 1..N : slots[n] = p
<1>1. IsSeq(slots) /\ Range(slots) = 0..(N - 1) /\ \A m, n \in DOMAIN slots : slots[m] = slots[n] => m = n
  BY DEF WholeSlots
<1>2. /\ Len(slots) \in Nat /\ DOMAIN slots = 1..Len(slots) /\ slots \in [1..Len(slots) -> Range(slots)]
      /\ \A x : x \in Range(slots) <=> \E n \in DOMAIN slots : x = slots[n]
  BY <1>1, ItsRange
<1> DEFINE L == Len(slots)
           T == 0..(N - 1)
<1>3. /\ slots \in [1..L -> T] /\ \A m, n \in 1..L : slots[m] = slots[n] => m = n
      /\ \A p \in T : \E n \in 1..L : slots[n] = p
  BY <1>1, <1>2
<1>4. IsFiniteSet(1..L) /\ Cardinality(1..L) = L
  <2>1. 1 \in Int /\ L \in Int
    BY <1>2
  <2>2. IsFiniteSet(1..L) /\ Cardinality(1..L) = IF 1 > L THEN 0 ELSE L - 1 + 1
    BY <2>1, FS_Interval
  <2> HIDE DEF L
  <2> QED BY <1>2, <2>1, <2>2 DEF L
<1>5. IsFiniteSet(T) /\ Cardinality(T) = N
  <2>1. 0 \in Int /\ N - 1 \in Int
    OBVIOUS
  <2>2. IsFiniteSet(T) /\ Cardinality(T) = IF 0 > N - 1 THEN 0 ELSE N - 1 - 0 + 1
    BY <2>1, FS_Interval
  <2> HIDE DEF T
  <2> QED BY <2>1, <2>2
<1> HIDE DEF T, L
<1>6. Cardinality(T) = Cardinality(1..L)
  BY <1>3, <1>4, SameCount
<1>7. L = N
  BY <1>4, <1>5, <1>6
<1>8. slots \in Seq(T)
  BY <1>1 DEF IsSeq, T
<1> QED BY <1>2, <1>3, <1>7, <1>8 DEF L, T

\* Where the slots that stay come from.
SlotPlaces(t, slots, gone, pos) ==
  /\ \A k \in DOMAIN t :
       /\ pos[k] \in DOMAIN slots /\ slots[pos[k]] \notin gone /\ t[k] = Left(gone, slots[pos[k]])
       /\ pos[k] - 1 \in Nat \ GoneSlots(slots, gone) /\ Left(GoneSlots(slots, gone), pos[k] - 1) = k - 1
  /\ \A k, l \in DOMAIN t : k < l => pos[k] < pos[l]

\* What a removal leaves of the slots lists each position that is left once.
LEMMA SlotsWithout ==
  ASSUME NEW N \in Nat, NEW slots, WholeSlots(slots, N), NEW gone \in SUBSET (0..(N - 1))
  PROVE  LET t == RemovedSlots(slots, gone)
         IN  /\ WholeSlots(t, Left(gone, N))
             /\ GoneSlots(slots, gone) \in SUBSET Nat /\ Left(GoneSlots(slots, gone), N) = Left(gone, N)
             /\ \E pos : SlotPlaces(t, slots, gone, pos)
<1> DEFINE t == RemovedSlots(slots, gone)
           G == GoneSlots(slots, gone)
           P == {n \in DOMAIN slots : slots[n] \notin gone}
           kept == Selected(slots, P)
           L == Left(gone, N)
           T == 0..(N - 1)
<1>1. /\ Len(slots) = N /\ DOMAIN slots = 1..N /\ slots \in [1..N -> T] /\ slots \in Seq(T)
      /\ \A m, n \in 1..N : slots[m] = slots[n] => m = n
      /\ \A p \in T : \E n \in 1..N : slots[n] = p
  BY WholeSlotsAre
<1>2. P \in SUBSET (1..N) /\ P \in SUBSET (1..Len(slots)) /\ P = {n \in 1..N : slots[n] \notin gone}
  BY <1>1
<1>3. G = OthersOf(N, P)
  <2>1. {m \in DOMAIN slots : slots[m] \in gone} = (1..N) \ P
    BY <1>1
  <2> QED BY <2>1 DEF GoneSlots, OthersOf
<1>4. t = [n \in DOMAIN kept |-> kept[n] - Below(gone, kept[n])]
  BY DEF RemovedSlots
<1>5. kept \in Seq(T) /\ \E pos : Places(slots, P, kept, pos)
  BY <1>1, <1>2, SelectedPlaces
<1>6. PICK pos : Places(slots, P, kept, pos)
  BY <1>5
<1>16. gone \in SUBSET Nat /\ T \in SUBSET Nat
  OBVIOUS
<1> HIDE DEF P, kept, t, G, T
<1>7. Len(kept) \in Nat /\ DOMAIN kept = 1..Len(kept)
  BY <1>5, LenProperties
<1>8. /\ G \in SUBSET T /\ G \in SUBSET Nat /\ Len(kept) = Left(G, N)
      /\ \A k \in 1..Len(kept) : /\ pos[k] \in 1..N /\ pos[k] \in P
                                 /\ pos[k] - 1 \in Nat \ G /\ Left(G, pos[k] - 1) = k - 1
  <2>1. P \in SUBSET (1..N)
    BY <1>2
  <2>2. Len(kept) \in Nat
    BY <1>7
  <2>3. FewerPlaces(N, P, OthersOf(N, P), kept, pos)
    BY <1>6, <2>1, <2>2, PlacesLeft
  <2>4. FewerPlaces(N, P, G, kept, pos)
    BY <1>3, <2>3
  <2> QED BY <2>4 DEF FewerPlaces, T
<1>9. Left(G, N) = L
  <2> DEFINE g == [x \in G |-> slots[x + 1]]
  <2>1. \A x : x \in G <=> \E m \in 1..N : slots[m] \in gone /\ x = m - 1
    BY <1>1 DEF GoneSlots, G
  <2>2. \A x \in G : x + 1 \in 1..N /\ slots[x + 1] \in gone
    <3>1. SUFFICES ASSUME NEW x \in G PROVE x + 1 \in 1..N /\ slots[x + 1] \in gone
      OBVIOUS
    <3>2. PICK m \in 1..N : slots[m] \in gone /\ x = m - 1
      BY <2>1
    <3>3. x + 1 = m
      BY <3>2
    <3> QED BY <3>2, <3>3
  <2>3. g \in [G -> gone]
    BY <2>2
  <2>4. ASSUME NEW x \in G, NEW y \in G, g[x] = g[y] PROVE x = y
    <3>1. slots[x + 1] = slots[y + 1] /\ x + 1 \in 1..N /\ y + 1 \in 1..N
      BY <2>2, <2>4
    <3>2. x + 1 = y + 1
      BY <1>1, <3>1
    <3>3. x \in Nat /\ y \in Nat
      BY <1>8
    <3> QED BY <3>2, <3>3
  <2>5. ASSUME NEW y \in gone PROVE \E x \in G : g[x] = y
    <3>1. PICK n \in 1..N : slots[n] = y
      BY <1>1 DEF T
    <3>2. n - 1 \in G /\ (n - 1) + 1 = n
      BY <2>1, <3>1
    <3>3. g[n - 1] = y
      BY <3>1, <3>2
    <3> QED BY <3>2, <3>3
  <2>6. Below(G, N) = Cardinality(G)
    <3>1. \A x \in G : x < N
      BY <1>8 DEF T
    <3>2. {m \in G : m < N} = G
      BY <3>1
    <3> QED BY <3>2 DEF Below
  <2>7. Below(gone, N) = Cardinality(gone)
    <3>1. \A x \in gone : x < N
      OBVIOUS
    <3>2. {m \in gone : m < N} = gone
      BY <3>1
    <3> QED BY <3>2 DEF Below
  <2>8. IsFiniteSet(G)
    <3>1. IsFiniteSet(T)
      BY FS_Interval DEF T
    <3> QED BY <1>8, <3>1, FS_Subset
  <2> HIDE DEF g
  <2>9. Cardinality(gone) = Cardinality(G)
    BY <2>3, <2>4, <2>5, <2>8, SameCount
  <2> QED BY <2>6, <2>7, <2>9 DEF Left
<1>10. L \in Nat
  BY <1>16, BelowIs
<1>11. ASSUME NEW k \in 1..Len(kept)
       PROVE  /\ pos[k] \in 1..N /\ slots[pos[k]] \notin gone /\ slots[pos[k]] \in Nat
              /\ t[k] = Left(gone, slots[pos[k]]) /\ t[k] \in 0..(L - 1)
  <2>1. pos[k] \in 1..N /\ pos[k] \in P /\ kept[k] = slots[pos[k]]
    BY <1>6, <1>8 DEF Places
  <2>2. slots[pos[k]] \notin gone /\ slots[pos[k]] \in T
    BY <1>1, <1>2, <2>1
  <2>3. t[k] = Left(gone, slots[pos[k]])
    BY <1>4, <1>7, <2>1 DEF Left
  <2>4. PICK p \in T : p = slots[pos[k]]
    BY <2>2
  <2>5. p \in Nat \ gone /\ p < N /\ p \in Nat
    BY <2>2, <2>4 DEF T
  <2>6. Left(gone, p) < L
    BY <1>16, <2>5, LeftGrows
  <2>7. Left(gone, p) \in Nat
    BY <1>16, <2>5, BelowIs
  <2>8. Left(gone, p) \in 0..(L - 1)
    BY <1>10, <2>6, <2>7
  <2> QED BY <2>1, <2>2, <2>3, <2>4, <2>5, <2>8
<1>12. t \in [1..L -> 0..(L - 1)] /\ Len(kept) = L
  <2>1. Len(kept) = L
    BY <1>8, <1>9
  <2>2. DOMAIN t = 1..L /\ t = [n \in 1..L |-> t[n]]
    BY <1>4, <1>7, <2>1
  <2> HIDE DEF L
  <2> QED BY <1>11, <2>1, <2>2
<1>13. ASSUME NEW k \in 1..L, NEW l \in 1..L, t[k] = t[l] PROVE k = l
  <2>1. PICK p \in Nat \ gone : p = slots[pos[k]] /\ t[k] = Left(gone, p)
    BY <1>11, <1>12
  <2>2. PICK q \in Nat \ gone : q = slots[pos[l]] /\ t[l] = Left(gone, q)
    BY <1>11, <1>12
  <2>7. p \in Nat /\ q \in Nat
    OBVIOUS
  <2>8. Left(gone, p) \in Nat /\ Left(gone, q) \in Nat
    BY <1>16, <2>7, BelowIs
  <2>10. Left(gone, p) = Left(gone, q)
    BY <1>13, <2>1, <2>2
  <2>3. ~ (p < q)
    <3>1. SUFFICES ASSUME p < q PROVE FALSE
      OBVIOUS
    <3>3. gone \in SUBSET Nat
      BY <1>16
    <3>4. q \in Nat /\ p \in Nat \ gone
      BY <2>1, <2>7
    <3>2. Left(gone, p) < Left(gone, q)
      BY <3>1, <3>3, <3>4, LeftGrows
    <3> QED BY <2>8, <2>10, <3>2
  <2>4. ~ (q < p)
    <3>1. SUFFICES ASSUME q < p PROVE FALSE
      OBVIOUS
    <3>3. gone \in SUBSET Nat
      BY <1>16
    <3>4. p \in Nat /\ q \in Nat \ gone
      BY <2>2, <2>7
    <3>2. Left(gone, q) < Left(gone, p)
      BY <3>1, <3>3, <3>4, LeftGrows
    <3> QED BY <2>8, <2>10, <3>2
  <2>5. slots[pos[k]] = slots[pos[l]]
    BY <2>1, <2>2, <2>3, <2>4, <2>7
  <2>6. pos[k] = pos[l]
    BY <1>1, <1>11, <1>12, <2>5
  <2>9. P \in SUBSET Nat
    BY <1>2
  <2> HIDE DEF L
  <2> QED BY <1>6, <1>7, <1>12, <2>6, <2>9, PlacesApart
<1>14. WholeSlots(t, L)
  <2> HIDE DEF L
  <2>1. IsSeq(t) /\ DOMAIN t = 1..L
    BY <1>10, <1>12, FunctionIsSeq
  <2> DEFINE D == 1..L
             R == 0..(L - 1)
  <2>2. IsFiniteSet(D) /\ Cardinality(D) = L
    <3>1. 1 \in Int /\ L \in Int
      BY <1>10
    <3>2. IsFiniteSet(D) /\ Cardinality(D) = IF 1 > L THEN 0 ELSE L - 1 + 1
      BY <3>1, FS_Interval
    <3> HIDE DEF D
    <3> QED BY <1>10, <3>2
  <2>3. IsFiniteSet(R) /\ Cardinality(R) = L
    <3>1. 0 \in Int /\ L - 1 \in Int
      BY <1>10
    <3>2. IsFiniteSet(R) /\ Cardinality(R) = IF 0 > L - 1 THEN 0 ELSE L - 1 - 0 + 1
      BY <3>1, FS_Interval
    <3> HIDE DEF R
    <3> QED BY <1>10, <3>2
  <2>4. t \in [D -> R] /\ \A x, y \in D : t[x] = t[y] => x = y
    BY <1>12, <1>13
  <2> HIDE DEF D, R
  <2>5. t \in Injection(D, R)
    BY <2>4 DEF Injection, IsInjective
  <2>6. t \in Surjection(D, R)
    BY <2>2, <2>3, <2>5, FS_Injection
  <2>7. Range(t) = R
    BY <2>4, <2>6 DEF Range, Surjection
  <2> QED BY <2>1, <2>4, <2>7 DEF WholeSlots, D, R
<1>15. SlotPlaces(t, slots, gone, pos)
  <2> HIDE DEF L
  <2>1. DOMAIN t = 1..Len(kept)
    BY <1>12
  <2>2. \A k, l \in 1..Len(kept) : k < l => pos[k] < pos[l]
    BY <1>6 DEF Places
  <2>3. \A k \in 1..Len(kept) : /\ pos[k] \in DOMAIN slots /\ slots[pos[k]] \notin gone
                                /\ t[k] = Left(gone, slots[pos[k]])
    BY <1>1, <1>11
  <2>4. \A k \in 1..Len(kept) : pos[k] - 1 \in Nat \ G /\ Left(G, pos[k] - 1) = k - 1
    BY <1>8
  <2> QED BY <2>1, <2>2, <2>3, <2>4 DEF SlotPlaces, G
<1> HIDE DEF L
<1>17. WholeSlots(t, L) /\ G \in SUBSET Nat /\ Left(G, N) = L /\ \E q : SlotPlaces(t, slots, gone, q)
  BY <1>8, <1>9, <1>14, <1>15
<1> QED BY <1>17 DEF t, G, L

------------------------------------------------------------------------------
(* The jump table that an addition builds. *)

\* Where the runs of a letter start, and where run k is over.
RunStarts(letters) == {n \in DOMAIN letters : n = 1 \/ letters[n] # letters[n - 1]}
Starts(letters) == Selected([n \in DOMAIN letters |-> n], RunStarts(letters))
RunEnd(letters, k) == IF k = Len(Starts(letters)) THEN Len(letters) + 1 ELSE Starts(letters)[k + 1]

\* Run k goes from a to b.
IsRun(letters, k, a, b) ==
  /\ a \in 1..Len(letters) /\ b \in 1..(Len(letters) + 1) /\ a < b
  /\ a = Starts(letters)[k] /\ b = RunEnd(letters, k)
  /\ \A n \in RunStarts(letters) : ~ (a < n /\ n < b)

\* The runs follow each other, from the first letter to the last.
LEMMA RunsAre ==
  ASSUME NEW letters, IsSeq(letters)
  PROVE  LET starts == Starts(letters)
         IN  /\ Len(starts) \in Nat /\ DOMAIN starts = 1..Len(starts)
             /\ \A k \in DOMAIN starts : \E a, b \in Nat : IsRun(letters, k, a, b)
             /\ Len(starts) = 0 <=> Len(letters) = 0
             /\ Len(starts) # 0 => starts[1] = 1
<1> DEFINE N == Len(letters)
           P == RunStarts(letters)
           s == [n \in DOMAIN letters |-> n]
           t == Starts(letters)
<1>1. N \in Nat /\ DOMAIN letters = 1..N
  BY ItsRange
<1>2. s \in [1..N -> 1..N] /\ \A n \in 1..N : s[n] = n
  BY <1>1
<1>3. t = Selected(s, P)
  BY DEF Starts
<1>4. P \in SUBSET (1..N) /\ (1 \in 1..N => 1 \in P)
  BY <1>1 DEF RunStarts
<1> HIDE DEF s, P, t
<1>5. s \in Seq(1..N) /\ Len(s) = N
  <2> HIDE DEF N
  <2> QED BY <1>1, <1>2, FunctionIsSeq
<1>6. P \in SUBSET (1..Len(s))
  BY <1>4, <1>5
<1>7. t \in Seq(1..N) /\ \E pos : Places(s, P, t, pos)
  BY <1>3, <1>5, <1>6, SelectedPlaces
<1>8. PICK pos : Places(s, P, t, pos)
  BY <1>7
<1>9. PICK L \in Nat : L = Len(t) /\ DOMAIN t = 1..L
  BY <1>7, LenProperties
<1>10. /\ \A k \in 1..L : t[k] \in P /\ t[k] \in 1..N
       /\ \A k, l \in 1..L : k < l => t[k] < t[l]
       /\ \A n \in P : \E k \in 1..L : t[k] = n
  <2>1. /\ pos \in [1..L -> P] /\ \A k \in 1..L : t[k] = s[pos[k]]
        /\ \A k, l \in 1..L : k < l => pos[k] < pos[l]
        /\ \A n \in P : \E k \in 1..L : pos[k] = n
    BY <1>8, <1>9 DEF Places
  <2>2. \A k \in 1..L : t[k] = pos[k] /\ pos[k] \in P /\ pos[k] \in 1..N
    BY <1>2, <1>4, <2>1
  <2> QED BY <2>1, <2>2
<1>11. ASSUME NEW k \in 1..L PROVE \E a, b \in Nat : IsRun(letters, k, a, b)
  <2> DEFINE b == RunEnd(letters, k)
  <2>0. PICK a \in 1..N : a = t[k]
    BY <1>10
  <2>1. CASE k = L
    <3>1. b = N + 1
      BY <1>9, <2>1 DEF RunEnd, t
    <3>2. \A n \in P : ~ (a < n)
      <4>1. SUFFICES ASSUME NEW n \in P, a < n PROVE FALSE
        OBVIOUS
      <4>2. PICK l \in 1..L : t[l] = n
        BY <1>10
      <4>3. l = k \/ l < k
        BY <2>1
      <4>4. t[l] = t[k] \/ t[l] < t[k]
        BY <1>10, <4>3
      <4>5. n \in 1..N
        BY <1>4
      <4> QED BY <1>1, <2>0, <4>1, <4>2, <4>4, <4>5
    <3>3. a \in Nat /\ b \in Nat /\ b \in 1..(N + 1) /\ a < b /\ a \in 1..N
      <4> HIDE DEF b
      <4> QED BY <1>1, <2>0, <3>1
    <3> HIDE DEF b
    <3>4. IsRun(letters, k, a, b)
      BY <2>0, <3>2, <3>3 DEF IsRun, t, P, b
    <3> QED BY <3>3, <3>4
  <2>2. CASE k # L
    <3>0. PICK h \in 1..L : h = k + 1 /\ k < h
      BY <2>2
    <3>1. b = t[h] /\ b \in 1..N
      <4>1. k # Len(t)
        BY <1>9, <2>2
      <4> QED BY <1>10, <3>0, <4>1 DEF RunEnd, t
    <3>2. \A n \in P : ~ (a < n /\ n < b)
      <4>1. SUFFICES ASSUME NEW n \in P, a < n, n < b PROVE FALSE
        OBVIOUS
      <4>2. PICK l \in 1..L : t[l] = n
        BY <1>10
      <4>3. l = k \/ l < k \/ l = h \/ h < l
        BY <3>0
      <4>4. t[l] = t[k] \/ t[l] < t[k] \/ t[l] = t[h] \/ t[h] < t[l]
        BY <1>10, <4>3
      <4>5. n \in 1..N /\ t[k] \in 1..N /\ t[h] \in 1..N
        BY <1>4, <1>10
      <4>6. t[k] < t[l] /\ t[l] < t[h]
        BY <2>0, <3>1, <4>1, <4>2
      <4> HIDE DEF b
      <4> QED BY <1>1, <4>2, <4>4, <4>5, <4>6
    <3>3. a \in Nat /\ b \in Nat /\ b \in 1..(N + 1) /\ a < b /\ a \in 1..N
      <4>1. t[k] < t[h]
        BY <1>10, <3>0
      <4> HIDE DEF b
      <4> QED BY <1>1, <2>0, <3>1, <4>1
    <3> HIDE DEF b
    <3>4. IsRun(letters, k, a, b)
      BY <2>0, <3>2, <3>3 DEF IsRun, t, P, b
    <3> QED BY <3>3, <3>4
  <2> QED BY <2>1, <2>2
<1>12. L = 0 <=> N = 0
  <2>1. ASSUME N = 0 PROVE L = 0
    <3>1. 1..N = {}
      BY <2>1
    <3>2. ~ (1 \in 1..L)
      BY <1>10, <3>1
    <3> QED BY <3>2
  <2>2. ASSUME L = 0 PROVE N = 0
    <3>1. 1..L = {}
      BY <2>2
    <3>2. 1 \notin P
      BY <1>10, <3>1
    <3>3. ~ (1 \in 1..N)
      BY <1>4, <3>2
    <3> HIDE DEF N
    <3> QED BY <1>1, <3>3
  <2> QED BY <2>1, <2>2
<1>13. L # 0 => t[1] = 1
  <2>1. SUFFICES ASSUME L # 0 PROVE t[1] = 1
    OBVIOUS
  <2>2. 1 \in 1..L
    BY <2>1
  <2>3. 1 \in P
    <3>1. N # 0
      BY <1>12, <2>1
    <3>2. 1 \in 1..N
      <4> HIDE DEF N
      <4> QED BY <1>1, <3>1
    <3> QED BY <1>4, <3>2
  <2>4. PICK l \in 1..L : t[l] = 1
    BY <1>10, <2>3
  <2>5. t[1] \in 1..N
    BY <1>10, <2>2
  <2>6. l = 1 \/ 1 < l
    OBVIOUS
  <2>7. l = 1 \/ t[1] < t[l]
    BY <1>10, <2>2, <2>6
  <2> HIDE DEF N
  <2>8. ~ (t[1] < 1)
    BY <1>1, <2>5
  <2> QED BY <2>4, <2>7, <2>8
<1> QED BY <1>9, <1>11, <1>12, <1>13 DEF t

\* A run has one letter.
LEMMA RunLetter ==
  ASSUME NEW letters, IsSeq(letters), NEW k, NEW a \in Nat, NEW b \in Nat, IsRun(letters, k, a, b),
         NEW n \in a..(b - 1)
  PROVE  n \in DOMAIN letters /\ letters[n] = letters[a]
<1> DEFINE N == Len(letters)
           Other == {m \in a..(b - 1) : letters[m] # letters[a]}
<1>1. N \in Nat /\ DOMAIN letters = 1..N
  BY ItsRange
<1>2. a \in 1..N /\ b \in 1..(N + 1) /\ a < b /\ \A m \in RunStarts(letters) : ~ (a < m /\ m < b)
  BY DEF IsRun
<1> HIDE DEF N
<1>3. \A m \in a..(b - 1) : m \in 1..N /\ m \in Nat
  BY <1>1, <1>2
<1>4. Other = {}
  <2>1. SUFFICES ASSUME Other # {} PROVE FALSE
    OBVIOUS
  <2>2. PICK m \in Other : \A l \in Other : m <= l
    <3>1. Other \in SUBSET Nat
      BY <1>3
    <3> HIDE DEF Other
    <3> QED BY <2>1, <3>1, NatHasMin
  <2>3. m \in a..(b - 1) /\ letters[m] # letters[a] /\ m \in 1..N
    BY <1>3, <2>2
  <2>4. m # a /\ m \in Nat
    BY <2>3
  <2>5. a < m /\ m < b /\ m - 1 \in a..(b - 1) /\ m - 1 \in Nat /\ m - 1 < m
    BY <1>1, <1>2, <2>3, <2>4
  <2>6. m \notin RunStarts(letters)
    BY <1>2, <2>5
  <2>7. letters[m] = letters[m - 1]
    BY <1>1, <2>3, <2>6 DEF RunStarts
  <2>8. m - 1 \notin Other
    <3> HIDE DEF Other
    <3>1. m - 1 \in Other => m <= m - 1
      BY <2>2
    <3> QED BY <2>4, <2>5, <3>1
  <2>9. letters[m - 1] = letters[a]
    BY <2>5, <2>8
  <2> QED BY <2>3, <2>7, <2>9
<1>5. letters[n] = letters[a]
  BY <1>4
<1> QED BY <1>1, <1>3, <1>5

\* An entry has the letter of each of its slots.
Lettered(jumps, letters) ==
  \A k \in DOMAIN jumps : \A n \in Covers(jumps[k]) : n + 1 \in DOMAIN letters /\ letters[n + 1] = jumps[k].letter

\* The jump table of an addition divides the slots.
LEMMA JumpTableIs ==
  ASSUME NEW letters, IsSeq(letters)
  PROVE  LET jumps == JumpTable(letters)
         IN  JumpRecords(jumps) /\ Divide(jumps, Len(letters)) /\ Lettered(jumps, letters)
<1> DEFINE jumps == JumpTable(letters)
           starts == Starts(letters)
           Entry(k) == [letter |-> letters[starts[k]], start |-> starts[k] - 1, count |-> RunEnd(letters, k) - starts[k]]
           S == {Entry(k) : k \in DOMAIN starts}
<1>1. PICK L \in Nat : L = Len(starts)
  BY RunsAre
<1>2. /\ DOMAIN starts = 1..L
      /\ \A k \in 1..L : \E a, b \in Nat : IsRun(letters, k, a, b)
      /\ L = 0 <=> Len(letters) = 0
      /\ L # 0 => starts[1] = 1
  BY <1>1, RunsAre
<1>3. jumps = [k \in 1..L |-> Entry(k)]
  <2>1. jumps = [k \in DOMAIN starts |-> Entry(k)]
    BY DEF JumpTable, Starts, RunStarts, RunEnd
  <2> HIDE DEF jumps, Entry, starts
  <2> QED BY <1>2, <2>1
<1>4. jumps \in [1..L -> S] /\ \A k \in 1..L : jumps[k] = Entry(k)
  <2>1. \A k \in 1..L : Entry(k) \in S
    BY <1>2
  <2> HIDE DEF jumps, Entry, S
  <2> QED BY <1>3, <2>1
<1>5. PICK N \in Nat : N = Len(letters) /\ DOMAIN letters = 1..N
  BY ItsRange
<1> HIDE DEF jumps, S, starts
<1>6. IsSeq(jumps) /\ DOMAIN jumps = 1..L /\ Len(jumps) = L /\ jumps \in Seq(S)
  BY <1>4, FunctionIsSeq
<1>7. ASSUME NEW k \in 1..L
      PROVE  \E a, b \in Nat : /\ IsRun(letters, k, a, b) /\ EntryRecord(jumps[k]) /\ jumps[k].count > 0
                               /\ jumps[k].letter = letters[a] /\ jumps[k].start = a - 1 /\ EndOf(jumps[k]) = b - 1
                               /\ a \in 1..N /\ b \in 1..(N + 1) /\ a < b
  <2>1. PICK a \in Nat, b \in Nat : IsRun(letters, k, a, b)
    BY <1>2
  <2>2. a \in 1..N /\ b \in 1..(N + 1) /\ a < b /\ a = starts[k] /\ b = RunEnd(letters, k)
    BY <1>5, <2>1 DEF IsRun, starts
  <2> DEFINE e == [letter |-> letters[a], start |-> a - 1, count |-> b - a]
  <2>3. jumps[k] = e
    BY <1>4, <2>2
  <2>4. a - 1 \in Nat /\ b - a \in Nat /\ b - a > 0 /\ (a - 1) + (b - a) = b - 1
    BY <2>2
  <2>5. /\ DOMAIN e = {"letter", "start", "count"} /\ e.letter = letters[a] /\ e.start = a - 1 /\ e.count = b - a
    OBVIOUS
  <2> HIDE DEF e
  <2>6. EntryRecord(e) /\ e.count > 0 /\ EndOf(e) = b - 1
    BY <2>4, <2>5 DEF EntryRecord, EndOf
  <2> QED BY <2>1, <2>2, <2>3, <2>5, <2>6
<1>8. JumpRecords(jumps)
  BY <1>6, <1>7 DEF JumpRecords
<1>9. ASSUME NEW k \in 1..L PROVE jumps[k].count > 0 /\ jumps[k].start = IF k = 1 THEN 0 ELSE EndOf(jumps[k - 1])
  <2>1. PICK a \in Nat, b \in Nat : /\ IsRun(letters, k, a, b) /\ jumps[k].count > 0 /\ jumps[k].start = a - 1
    BY <1>7
  <2>2. a = starts[k]
    BY <2>1 DEF IsRun, starts
  <2>3. CASE k = 1
    <3>1. starts[1] = 1
      BY <1>2, <2>3
    <3> QED BY <2>1, <2>2, <2>3, <3>1
  <2>4. CASE k # 1
    <3>1. PICK h \in 1..L : h = k - 1 /\ h < k /\ k = h + 1
      BY <2>4
    <3>2. PICK c \in Nat, d \in Nat : IsRun(letters, h, c, d) /\ EndOf(jumps[h]) = d - 1
      BY <1>7
    <3>3. d = RunEnd(letters, h)
      BY <3>2 DEF IsRun
    <3>4. h # Len(Starts(letters))
      BY <1>1, <3>1 DEF starts
    <3>5. d = starts[k]
      BY <3>1, <3>3, <3>4 DEF RunEnd, starts
    <3>6. jumps[k].start = EndOf(jumps[h])
      BY <2>1, <2>2, <3>2, <3>5
    <3> QED BY <2>1, <2>4, <3>1, <3>6
  <2> QED BY <2>3, <2>4
<1>10. N = IF jumps = <<>> THEN 0 ELSE EndOf(jumps[Len(jumps)])
  <2>1. jumps = <<>> <=> Len(jumps) = 0
    BY <1>6, EmptySeq
  <2>2. CASE L = 0
    BY <1>2, <1>5, <1>6, <2>1, <2>2
  <2>3. CASE L # 0
    <3>1. L \in 1..L
      BY <2>3
    <3>2. PICK a \in Nat, b \in Nat : IsRun(letters, L, a, b) /\ EndOf(jumps[L]) = b - 1
      BY <1>7, <3>1
    <3>3. b = RunEnd(letters, L)
      BY <3>2 DEF IsRun
    <3>4. b = N + 1
      BY <1>1, <1>5, <3>3 DEF RunEnd, starts
    <3>5. EndOf(jumps[L]) = N
      BY <3>2, <3>4
    <3> QED BY <1>6, <2>1, <2>3, <3>5
  <2> QED BY <2>2, <2>3
<1>11. Divide(jumps, Len(letters))
  BY <1>5, <1>6, <1>9, <1>10 DEF Divide
<1>12. Lettered(jumps, letters)
  <2>1. ASSUME NEW k \in 1..L, NEW n \in Covers(jumps[k])
        PROVE  n + 1 \in DOMAIN letters /\ letters[n + 1] = jumps[k].letter
    <3>1. PICK a \in Nat, b \in Nat : /\ IsRun(letters, k, a, b)
                               /\ jumps[k].letter = letters[a] /\ jumps[k].start = a - 1 /\ EndOf(jumps[k]) = b - 1
                               /\ a \in 1..N /\ b \in 1..(N + 1) /\ a < b
      BY <1>7
    <3>2. n \in (a - 1)..(b - 1 - 1)
      BY <2>1, <3>1 DEF Covers
    <3>3. PICK m \in a..(b - 1) : m = n + 1
      BY <3>1, <3>2
    <3>4. m \in DOMAIN letters /\ letters[m] = letters[a]
      BY <3>1, RunLetter
    <3> QED BY <3>1, <3>3, <3>4
  <2> QED BY <1>6, <2>1 DEF Lettered
<1>13. JumpRecords(jumps) /\ Divide(jumps, Len(letters)) /\ Lettered(jumps, letters)
  BY <1>8, <1>11, <1>12
<1> QED BY <1>13 DEF jumps

------------------------------------------------------------------------------
(* Sorting by rank. *)

\* R orders the elements of S.
StrictOrder(S, R) ==
  /\ \A x \in S : <<x, x>> \notin R
  /\ \A x, y, z \in S : <<x, y>> \in R /\ <<y, z>> \in R => <<x, z>> \in R
  /\ \A x, y \in S : x = y \/ <<x, y>> \in R \/ <<y, x>> \in R

\* The elements before x, and how many they are.
Lower(S, R, x) == {y \in S : <<y, x>> \in R}
Rank(S, R, x) == Cardinality(Lower(S, R, x))

\* In a finite order each rank is the rank of one element.
LEMMA RanksAre ==
  ASSUME NEW S, IsFiniteSet(S), NEW R, StrictOrder(S, R), NEW N \in Nat, N = Cardinality(S)
  PROVE  /\ \A x \in S : Rank(S, R, x) \in 0..(N - 1)
         /\ \A x, y \in S : <<x, y>> \in R <=> Rank(S, R, x) < Rank(S, R, y)
         /\ \A x, y \in S : Rank(S, R, x) = Rank(S, R, y) => x = y
         /\ \A n \in 0..(N - 1) : \E x \in S : Rank(S, R, x) = n
<1>0. /\ \A x \in S : <<x, x>> \notin R
      /\ \A x, y, z \in S : <<x, y>> \in R /\ <<y, z>> \in R => <<x, z>> \in R
      /\ \A x, y \in S : x = y \/ <<x, y>> \in R \/ <<y, x>> \in R
  BY DEF StrictOrder
<1>1. ASSUME NEW x \in S PROVE Rank(S, R, x) \in 0..(N - 1) /\ IsFiniteSet(Lower(S, R, x))
  <2> DEFINE L == Lower(S, R, x)
  <2>1. L \in SUBSET (S \ {x})
    BY <1>0 DEF Lower
  <2>2. IsFiniteSet(S \ {x}) /\ Cardinality(S \ {x}) = N - 1
    BY FS_RemoveElement
  <2> HIDE DEF L
  <2>3. IsFiniteSet(L) /\ Cardinality(L) <= N - 1
    BY <2>1, <2>2, FS_Subset
  <2>4. Cardinality(L) \in Nat
    BY <2>3, FS_CardinalityType
  <2>5. Cardinality(L) \in 0..(N - 1)
    BY <2>3, <2>4
  <2> QED BY <2>3, <2>5 DEF L, Rank
<1>2. ASSUME NEW x \in S, NEW y \in S, <<x, y>> \in R PROVE Rank(S, R, x) < Rank(S, R, y)
  <2> DEFINE L == Lower(S, R, x)
             K == Lower(S, R, y)
  <2>1. L \in SUBSET (K \ {x}) /\ x \in K
    BY <1>0, <1>2 DEF Lower
  <2>2. IsFiniteSet(K) /\ Cardinality(K) \in Nat /\ Cardinality(L) \in Nat
    BY <1>1 DEF Rank
  <2> HIDE DEF L, K
  <2>3. IsFiniteSet(K \ {x}) /\ Cardinality(K \ {x}) = Cardinality(K) - 1
    BY <2>1, <2>2, FS_RemoveElement
  <2>4. Cardinality(L) <= Cardinality(K) - 1
    BY <2>1, <2>3, FS_Subset
  <2>5. Cardinality(L) < Cardinality(K)
    BY <2>2, <2>4
  <2> QED BY <2>5 DEF L, K, Rank
<1>3. ASSUME NEW x \in S, NEW y \in S PROVE Rank(S, R, x) \in Nat /\ Rank(S, R, y) \in Nat
  BY <1>1
<1> DEFINE rank == [x \in S |-> Rank(S, R, x)]
<1>4. rank \in [S -> 0..(N - 1)] /\ \A x \in S : rank[x] = Rank(S, R, x)
  BY <1>1
<1> HIDE DEF rank
<1>5. ASSUME NEW x \in S, NEW y \in S, rank[x] = rank[y] PROVE x = y
  <2>1. Rank(S, R, x) \in Nat /\ Rank(S, R, x) = Rank(S, R, y)
    BY <1>3, <1>4, <1>5
  <2>2. ~ (Rank(S, R, x) < Rank(S, R, y)) /\ ~ (Rank(S, R, y) < Rank(S, R, x))
    BY <2>1
  <2>3. <<x, y>> \notin R /\ <<y, x>> \notin R
    BY <1>2, <2>2
  <2> QED BY <1>0, <2>3
<1>6. IsFiniteSet(0..(N - 1)) /\ Cardinality(0..(N - 1)) = N
  <2>1. 0 \in Int /\ N - 1 \in Int
    OBVIOUS
  <2>2. IsFiniteSet(0..(N - 1)) /\ Cardinality(0..(N - 1)) = IF 0 > N - 1 THEN 0 ELSE N - 1 - 0 + 1
    BY <2>1, FS_Interval
  <2> QED BY <2>2
<1>7. rank \in Injection(S, 0..(N - 1))
  BY <1>4, <1>5 DEF Injection, IsInjective
<1>8. rank \in Surjection(S, 0..(N - 1))
  BY <1>6, <1>7, FS_Injection
<1>9. ASSUME NEW x \in S, NEW y \in S PROVE <<x, y>> \in R <=> Rank(S, R, x) < Rank(S, R, y)
  <2>1. SUFFICES ASSUME Rank(S, R, x) < Rank(S, R, y) PROVE <<x, y>> \in R
    BY <1>2
  <2>2. x # y
    BY <1>3, <2>1
  <2>3. <<y, x>> \notin R
    <3>1. SUFFICES ASSUME <<y, x>> \in R PROVE FALSE
      OBVIOUS
    <3>2. Rank(S, R, y) < Rank(S, R, x)
      BY <1>2, <3>1
    <3>3. Rank(S, R, x) \in Nat /\ Rank(S, R, y) \in Nat
      BY <1>3
    <3> QED BY <2>1, <3>2, <3>3
  <2> QED BY <1>0, <2>2, <2>3
<1>10. \A n \in 0..(N - 1) : \E x \in S : Rank(S, R, x) = n
  BY <1>4, <1>8 DEF Surjection
<1>11. \A x, y \in S : Rank(S, R, x) = Rank(S, R, y) => x = y
  BY <1>4, <1>5
<1> QED BY <1>1, <1>9, <1>10, <1>11

\* c puts the elements of S in the order R.
Sorted(c, S, R, N) ==
  /\ c \in [1..N -> S] /\ \A x \in S : \E n \in 1..N : c[n] = x
  /\ \A k, l \in 1..N : k < l => <<c[k], c[l]>> \in R

\* In the sorted order an element is where its rank says.
LEMMA SortedRank ==
  ASSUME NEW S, IsFiniteSet(S), NEW R, StrictOrder(S, R), NEW N \in Nat, N = Cardinality(S),
         NEW c, Sorted(c, S, R, N), NEW n \in 1..N
  PROVE  Rank(S, R, c[n]) = n - 1
<1> DEFINE D == 1..(n - 1)
           L == Lower(S, R, c[n])
           g == [k \in D |-> c[k]]
<1>1. /\ c \in [1..N -> S] /\ \A x \in S : \E k \in 1..N : c[k] = x
      /\ \A k, l \in 1..N : k < l => <<c[k], c[l]>> \in R
  BY DEF Sorted
<1>2. /\ \A x \in S : <<x, x>> \notin R
      /\ \A x, y, z \in S : <<x, y>> \in R /\ <<y, z>> \in R => <<x, z>> \in R
  BY DEF StrictOrder
<1>3. \A k \in D : k \in 1..N /\ k < n
  OBVIOUS
<1>4. g \in [D -> L]
  BY <1>1, <1>3 DEF Lower
<1>5. ASSUME NEW k \in 1..N, NEW l \in 1..N, c[k] = c[l] PROVE k = l
  <2>1. ~ (k < l) /\ ~ (l < k)
    BY <1>1, <1>2, <1>5
  <2> QED BY <2>1
<1>6. ASSUME NEW y \in L PROVE \E k \in D : g[k] = y
  <2>1. y \in S /\ <<y, c[n]>> \in R
    BY <1>6 DEF Lower
  <2>2. PICK k \in 1..N : c[k] = y
    BY <1>1, <2>1
  <2>3. k # n
    BY <1>1, <1>2, <2>1, <2>2
  <2>4. ~ (n < k)
    <3>1. SUFFICES ASSUME n < k PROVE FALSE
      OBVIOUS
    <3>2. <<c[n], c[k]>> \in R /\ c[n] \in S
      BY <1>1, <3>1
    <3> QED BY <1>2, <2>1, <2>2, <3>2
  <2>5. k \in D
    BY <2>3, <2>4
  <2> QED BY <2>2, <2>5
<1>7. \A k, l \in D : g[k] = g[l] => k = l
  BY <1>3, <1>5
<1>8. IsFiniteSet(D) /\ Cardinality(D) = n - 1
  <2>1. 1 \in Int /\ n - 1 \in Int
    OBVIOUS
  <2>2. IsFiniteSet(D) /\ Cardinality(D) = IF 1 > n - 1 THEN 0 ELSE n - 1 - 1 + 1
    BY <2>1, FS_Interval
  <2> HIDE DEF D
  <2> QED BY <2>2
<1> HIDE DEF D, L, g
<1>9. Cardinality(L) = n - 1
  BY <1>4, <1>6, <1>7, <1>8, SameCount
<1> QED BY <1>9 DEF L, Rank

\* It is the one that takes each element by its rank.
LEMMA RankedIs ==
  ASSUME NEW S, IsFiniteSet(S), NEW R, StrictOrder(S, R), NEW N \in Nat, N = Cardinality(S)
  PROVE  LET c == [n \in 1..N |-> CHOOSE x \in S : Rank(S, R, x) = n - 1]
         IN  Sorted(c, S, R, N) /\ \A d : Sorted(d, S, R, N) => d = c
<1> DEFINE c == [n \in 1..N |-> CHOOSE x \in S : Rank(S, R, x) = n - 1]
<1>1. /\ \A x \in S : Rank(S, R, x) \in 0..(N - 1)
      /\ \A x, y \in S : <<x, y>> \in R <=> Rank(S, R, x) < Rank(S, R, y)
      /\ \A x, y \in S : Rank(S, R, x) = Rank(S, R, y) => x = y
      /\ \A n \in 0..(N - 1) : \E x \in S : Rank(S, R, x) = n
  BY RanksAre
<1>2. ASSUME NEW n \in 1..N PROVE c[n] \in S /\ Rank(S, R, c[n]) = n - 1
  <2>1. n - 1 \in 0..(N - 1)
    OBVIOUS
  <2>2. \E x \in S : Rank(S, R, x) = n - 1
    BY <1>1, <2>1
  <2> QED BY <2>2
<1>3. DOMAIN c = 1..N /\ c = [n \in 1..N |-> c[n]]
  OBVIOUS
<1> HIDE DEF c
<1>4. c \in [1..N -> S]
  BY <1>2, <1>3
<1>5. ASSUME NEW x \in S PROVE \E n \in 1..N : c[n] = x
  <2>1. PICK n \in 1..N : n - 1 = Rank(S, R, x)
    <3>1. Rank(S, R, x) \in 0..(N - 1)
      BY <1>1
    <3>2. Rank(S, R, x) + 1 \in 1..N /\ (Rank(S, R, x) + 1) - 1 = Rank(S, R, x)
      BY <3>1
    <3> QED BY <3>2
  <2>2. c[n] = x
    BY <1>1, <1>2, <2>1
  <2> QED BY <2>2
<1>6. ASSUME NEW k \in 1..N, NEW l \in 1..N, k < l PROVE <<c[k], c[l]>> \in R
  <2>1. Rank(S, R, c[k]) < Rank(S, R, c[l]) /\ c[k] \in S /\ c[l] \in S
    BY <1>2, <1>6
  <2> QED BY <1>1, <2>1
<1>7. Sorted(c, S, R, N)
  BY <1>4, <1>5, <1>6 DEF Sorted
<1>8. ASSUME NEW d, Sorted(d, S, R, N) PROVE d = c
  <2>1. d \in [1..N -> S]
    BY <1>8 DEF Sorted
  <2>2. ASSUME NEW n \in 1..N PROVE d[n] = c[n]
    <3>1. Rank(S, R, d[n]) = n - 1
      BY <1>8, SortedRank
    <3> QED BY <1>1, <1>2, <2>1, <3>1
  <2> QED BY <1>4, <2>1, <2>2
<1> QED BY <1>7, <1>8 DEF c

------------------------------------------------------------------------------
(* The order of an index. *)

\* What the sort keys of a track are taken from.
Sortable(t) ==
  t.title \in Names /\ t.artist \in Names /\ t.album \in Names /\ t.genre \in Names /\ t.number \in Nat

\* Tracks that can be sorted.
SortableTracks(tracks) == IsSeq(tracks) /\ \A n \in DOMAIN tracks : Sortable(tracks[n])

\* The keys of a sort order are compared place by place.
LEMMA KeysAre ==
  ASSUME NEW sort \in Sorts
  PROVE  \E m \in Nat : \A t : Sortable(t) => SortFields(t, sort) \in [1..m -> Nat]
<1>1. SortKey \in [Names -> Nat]
  BY NamesAssumption
<1>2. ASSUME NEW t, Sortable(t)
      PROVE  SortKey[t.title] \in Nat /\ SortKey[t.artist] \in Nat /\ SortKey[t.album] \in Nat
             /\ SortKey[t.genre] \in Nat /\ t.number \in Nat
  BY <1>1, <1>2 DEF Sortable
<1>3. CASE sort = "title"
  <2>1. ASSUME NEW t, Sortable(t) PROVE SortFields(t, sort) \in [1..1 -> Nat]
    <3>1. SortFields(t, sort) = <<SortKey[t.title]>>
      BY <1>3 DEF SortFields
    <3>2. <<SortKey[t.title]>> \in [1..1 -> Nat]
      BY <1>2, <2>1
    <3> QED BY <3>1, <3>2
  <2> QED BY <2>1
<1>4. CASE sort = "album"
  <2>1. ASSUME NEW t, Sortable(t) PROVE SortFields(t, sort) \in [1..3 -> Nat]
    <3>1. SortFields(t, sort) = <<SortKey[t.album], t.number, SortKey[t.title]>>
      BY <1>4 DEF SortFields
    <3>2. <<SortKey[t.album], t.number, SortKey[t.title]>> \in [1..3 -> Nat]
      BY <1>2, <2>1
    <3> QED BY <3>1, <3>2
  <2> QED BY <2>1
<1>5. CASE sort = "genre"
  <2>1. ASSUME NEW t, Sortable(t) PROVE SortFields(t, sort) \in [1..5 -> Nat]
    <3>1. SortFields(t, sort) =
            <<SortKey[t.genre], SortKey[t.artist], SortKey[t.album], t.number, SortKey[t.title]>>
      BY <1>5 DEF SortFields
    <3>2. <<SortKey[t.genre], SortKey[t.artist], SortKey[t.album], t.number, SortKey[t.title]>> \in [1..5 -> Nat]
      BY <1>2, <2>1
    <3> QED BY <3>1, <3>2
  <2> QED BY <2>1
<1> QED BY <1>3, <1>4, <1>5 DEF Sorts

\* Keys are in a strict order.
LEMMA KeyOrder ==
  ASSUME NEW m \in Nat, NEW a \in [1..m -> Nat], NEW b \in [1..m -> Nat], NEW c \in [1..m -> Nat]
  PROVE  /\ ~ Precedes(a, a)
         /\ Precedes(a, b) /\ Precedes(b, c) => Precedes(a, c)
         /\ a = b \/ Precedes(a, b) \/ Precedes(b, a)
<1>1. ~ Precedes(a, a)
  BY DEF Precedes
<1>2. ASSUME Precedes(a, b), Precedes(b, c) PROVE Precedes(a, c)
  <2>1. PICK k \in 1..m : a[k] < b[k] /\ \A i \in 1..(k - 1) : a[i] = b[i]
    BY <1>2 DEF Precedes
  <2>2. PICK l \in 1..m : b[l] < c[l] /\ \A i \in 1..(l - 1) : b[i] = c[i]
    BY <1>2 DEF Precedes
  <2>3. CASE k <= l
    <3>1. a[k] < c[k]
      <4>1. a[k] \in Nat /\ b[k] \in Nat /\ c[k] \in Nat
        OBVIOUS
      <4>2. b[k] <= c[k]
        <5>1. k = l \/ k \in 1..(l - 1)
          BY <2>3
        <5> QED BY <2>2, <4>1, <5>1
      <4> QED BY <2>1, <4>1, <4>2
    <3>2. ASSUME NEW i \in 1..(k - 1) PROVE a[i] = c[i]
      <4>1. i \in 1..(l - 1)
        BY <2>3
      <4> QED BY <2>1, <2>2, <4>1
    <3> QED BY <3>1, <3>2 DEF Precedes
  <2>4. CASE l < k
    <3>1. a[l] < c[l]
      <4>1. a[l] = b[l]
        <5>1. l \in 1..(k - 1)
          BY <2>4
        <5> QED BY <2>1, <5>1
      <4> QED BY <2>2, <4>1
    <3>2. ASSUME NEW i \in 1..(l - 1) PROVE a[i] = c[i]
      <4>1. i \in 1..(k - 1)
        BY <2>4
      <4> QED BY <2>1, <2>2, <4>1
    <3> QED BY <3>1, <3>2 DEF Precedes
  <2> QED BY <2>3, <2>4
<1>3. a = b \/ Precedes(a, b) \/ Precedes(b, a)
  <2> DEFINE Apart == {i \in 1..m : a[i] # b[i]}
  <2>1. CASE Apart = {}
    <3>1. \A i \in 1..m : a[i] = b[i]
      BY <2>1
    <3> QED BY <3>1
  <2>2. CASE Apart # {}
    <3>1. PICK n \in Apart : \A i \in Apart : n <= i
      <4>1. Apart \in SUBSET Nat
        OBVIOUS
      <4> HIDE DEF Apart
      <4> QED BY <2>2, <4>1, NatHasMin
    <3>2. n \in 1..m /\ a[n] # b[n]
      BY <3>1
    <3>3. ASSUME NEW i \in 1..(n - 1) PROVE a[i] = b[i] /\ b[i] = a[i]
      <4>1. i \in 1..m /\ ~ (n <= i)
        BY <3>2
      <4> QED BY <3>1, <4>1
    <3>4. a[n] < b[n] \/ b[n] < a[n]
      <4>1. a[n] \in Nat /\ b[n] \in Nat
        BY <3>2
      <4> QED BY <3>2, <4>1
    <3>5. n \in DOMAIN a /\ n \in DOMAIN b
      BY <3>2
    <3> QED BY <3>3, <3>4, <3>5 DEF Precedes
  <2> QED BY <2>1, <2>2
<1> QED BY <1>1, <1>2, <1>3

\* The position q comes before the position p.
KeyAt(tracks, sort, p) == SortFields(tracks[p + 1], sort)
Earlier(tracks, sort, q, p) ==
  \/ Precedes(KeyAt(tracks, sort, q), KeyAt(tracks, sort, p))
  \/ KeyAt(tracks, sort, q) = KeyAt(tracks, sort, p) /\ q < p
TrackOrder(tracks, sort) ==
  {x \in Positions(tracks) \X Positions(tracks) : Earlier(tracks, sort, x[1], x[2])}

\* It is a strict order of the positions.
LEMMA TrackOrderIs ==
  ASSUME NEW tracks, SortableTracks(tracks), NEW sort \in Sorts
  PROVE  /\ StrictOrder(Positions(tracks), TrackOrder(tracks, sort))
         /\ \A p, q \in Positions(tracks) : <<q, p>> \in TrackOrder(tracks, sort) <=> Earlier(tracks, sort, q, p)
<1> DEFINE S == Positions(tracks)
           R == TrackOrder(tracks, sort)
           key(p) == KeyAt(tracks, sort, p)
<1>1. PICK N \in Nat : N = Len(tracks) /\ DOMAIN tracks = 1..N
  BY ItsRange DEF SortableTracks
<1>2. \A p \in S : p \in Nat /\ p + 1 \in DOMAIN tracks
  BY <1>1 DEF Positions
<1>3. PICK m \in Nat : \A t : Sortable(t) => SortFields(t, sort) \in [1..m -> Nat]
  BY KeysAre
<1>4. \A p \in S : key(p) \in [1..m -> Nat]
  BY <1>2, <1>3 DEF SortableTracks, KeyAt
<1>5. \A p, q \in S : <<q, p>> \in R <=> Earlier(tracks, sort, q, p)
  BY DEF TrackOrder
<1>6. ASSUME NEW p \in S, NEW q \in S
      PROVE  <<q, p>> \in R <=> Precedes(key(q), key(p)) \/ (key(q) = key(p) /\ q < p)
  BY <1>5 DEF Earlier
<1> HIDE DEF S, R, key
<1>7. ASSUME NEW p \in S PROVE <<p, p>> \notin R
  <2>1. ~ Precedes(key(p), key(p))
    BY <1>4, KeyOrder
  <2>2. ~ (p < p)
    BY <1>2
  <2> QED BY <1>6, <2>1, <2>2
<1>8. ASSUME NEW x \in S, NEW y \in S, NEW z \in S, <<x, y>> \in R, <<y, z>> \in R PROVE <<x, z>> \in R
  <2>1. Precedes(key(x), key(y)) \/ (key(x) = key(y) /\ x < y)
    BY <1>6, <1>8
  <2>2. Precedes(key(y), key(z)) \/ (key(y) = key(z) /\ y < z)
    BY <1>6, <1>8
  <2>3. x \in Nat /\ y \in Nat /\ z \in Nat
    BY <1>2
  <2>4. x < y /\ y < z => x < z
    BY <2>3
  <2>5. key(x) \in [1..m -> Nat] /\ key(y) \in [1..m -> Nat] /\ key(z) \in [1..m -> Nat]
    BY <1>4
  <2>6. Precedes(key(x), key(y)) /\ Precedes(key(y), key(z)) => Precedes(key(x), key(z))
    BY <2>5, KeyOrder
  <2>7. Precedes(key(x), key(z)) \/ (key(x) = key(z) /\ x < z)
    BY <2>1, <2>2, <2>4, <2>6
  <2> QED BY <1>6, <2>7
<1>9. ASSUME NEW x \in S, NEW y \in S PROVE x = y \/ <<x, y>> \in R \/ <<y, x>> \in R
  <2>1. x \in Nat /\ y \in Nat
    BY <1>2
  <2>2. x = y \/ x < y \/ y < x
    BY <2>1
  <2>3. key(x) \in [1..m -> Nat] /\ key(y) \in [1..m -> Nat]
    BY <1>4
  <2>4. key(x) = key(y) \/ Precedes(key(x), key(y)) \/ Precedes(key(y), key(x))
    BY <2>3, KeyOrder
  <2> QED BY <1>6, <2>2, <2>4
<1>10. StrictOrder(S, R)
  BY <1>7, <1>8, <1>9 DEF StrictOrder
<1> QED BY <1>5, <1>10 DEF S, R

\* The positions are as many as the tracks.
LEMMA PositionsAre ==
  ASSUME NEW tracks, IsSeq(tracks)
  PROVE  /\ Len(tracks) \in Nat /\ DOMAIN tracks = 1..Len(tracks)
         /\ Positions(tracks) = 0..(Len(tracks) - 1)
         /\ IsFiniteSet(Positions(tracks)) /\ Len(tracks) = Cardinality(Positions(tracks))
<1>1. PICK N \in Nat : N = Len(tracks) /\ DOMAIN tracks = 1..N
  BY ItsRange
<1>2. 0 \in Int /\ N - 1 \in Int
  OBVIOUS
<1>3. IsFiniteSet(0..(N - 1)) /\ Cardinality(0..(N - 1)) = IF 0 > N - 1 THEN 0 ELSE N - 1 - 0 + 1
  BY <1>2, FS_Interval
<1>4. Cardinality(0..(N - 1)) = N
  BY <1>3
<1> QED BY <1>1, <1>3, <1>4 DEF Positions

\* The index is the one sequence of the positions in their order.
InTrackOrder(slots, tracks, sort) == Sorted(slots, Positions(tracks), TrackOrder(tracks, sort), Len(tracks))

\* SortedIndex is that sequence, and no other is.
LEMMA SortedIndexIs ==
  ASSUME NEW tracks, SortableTracks(tracks), NEW sort \in Sorts
  PROVE  /\ InTrackOrder(SortedIndex(tracks, sort), tracks, sort)
         /\ \A d : InTrackOrder(d, tracks, sort) => d = SortedIndex(tracks, sort)
<1> DEFINE S == Positions(tracks)
           R == TrackOrder(tracks, sort)
           c == [n \in 1..Len(tracks) |-> CHOOSE x \in S : Rank(S, R, x) = n - 1]
<1>1. /\ Len(tracks) \in Nat /\ DOMAIN tracks = 1..Len(tracks)
      /\ IsFiniteSet(S) /\ Len(tracks) = Cardinality(S)
  BY PositionsAre DEF SortableTracks
<1>2. StrictOrder(S, R) /\ \A p, q \in S : <<q, p>> \in R <=> Earlier(tracks, sort, q, p)
  BY TrackOrderIs
<1>3. SortedIndex(tracks, sort) = c
  <2> DEFINE place(p) == Cardinality({q \in S : Earlier(tracks, sort, q, p)})
  <2>1. ASSUME NEW p \in S PROVE Rank(S, R, p) = place(p)
    BY <1>2 DEF Rank, Lower
  <2>2. SortedIndex(tracks, sort) = [n \in DOMAIN tracks |-> CHOOSE p \in S : place(p) = n - 1]
    BY DEF SortedIndex, KeyAt, Earlier
  <2>3. \A p \in S : Rank(S, R, p) = place(p)
    BY <2>1
  <2> HIDE DEF place, S, R
  <2>4. \A n \in 1..Len(tracks) : (CHOOSE p \in S : place(p) = n - 1) = (CHOOSE p \in S : Rank(S, R, p) = n - 1)
    BY <2>3
  <2> QED BY <1>1, <2>2, <2>4
<1> DEFINE N == Len(tracks)
<1>4. N \in Nat /\ N = Cardinality(S) /\ IsFiniteSet(S)
  BY <1>1
<1>5. c = [n \in 1..N |-> CHOOSE x \in S : Rank(S, R, x) = n - 1]
  OBVIOUS
<1> HIDE DEF S, R, N, c
<1>6. Sorted(c, S, R, N) /\ \A d : Sorted(d, S, R, N) => d = c
  BY <1>2, <1>4, <1>5, RankedIs
<1> QED BY <1>3, <1>6 DEF InTrackOrder, S, R, N

\* It lists each position once.
LEMMA SortedIsWhole ==
  ASSUME NEW tracks, SortableTracks(tracks), NEW sort \in Sorts, NEW slots, InTrackOrder(slots, tracks, sort)
  PROVE  WholeSlots(slots, Len(tracks))
<1> DEFINE S == Positions(tracks)
           R == TrackOrder(tracks, sort)
<1>1. PICK N \in Nat : N = Len(tracks) /\ S = 0..(N - 1)
  BY PositionsAre DEF SortableTracks
<1>2. /\ slots \in [1..N -> S] /\ \A x \in S : \E n \in 1..N : slots[n] = x
      /\ \A k, l \in 1..N : k < l => <<slots[k], slots[l]>> \in R
  BY <1>1 DEF InTrackOrder, Sorted
<1>3. \A x \in S : <<x, x>> \notin R
  BY TrackOrderIs DEF StrictOrder
<1> HIDE DEF S, R
<1>4. IsSeq(slots) /\ DOMAIN slots = 1..N
  BY <1>2, FunctionIsSeq
<1>5. Range(slots) = S
  BY <1>2, <1>4 DEF Range
<1>6. ASSUME NEW k \in 1..N, NEW l \in 1..N, slots[k] = slots[l] PROVE k = l
  <2>1. ~ (k < l) /\ ~ (l < k)
    BY <1>2, <1>3, <1>6
  <2> QED BY <2>1
<1> QED BY <1>1, <1>4, <1>5, <1>6 DEF WholeSlots

------------------------------------------------------------------------------
(* An index that a removal maintains. *)

\* The tracks u are the tracks without those at the positions gone.
FewerTracks(u, tracks, gone) ==
  /\ IsSeq(u) /\ Len(u) = Left(gone, Len(tracks))
  /\ gone \in SUBSET (0..(Len(tracks) - 1))
  /\ \A p \in Positions(tracks) \ gone : Left(gone, p) \in Positions(u) /\ u[Left(gone, p) + 1] = tracks[p + 1]

\* A removal leaves each track that stays at what is left of its position.
LEMMA FewerTracksAre ==
  ASSUME NEW tracks, IsSeq(tracks), NEW P \in SUBSET DOMAIN tracks
  PROVE  FewerTracks(Selected(tracks, P), tracks, OthersOf(Len(tracks), P))
<1> DEFINE u == Selected(tracks, P)
           gone == OthersOf(Len(tracks), P)
           S == Range(tracks)
<1>1. PICK N \in Nat : N = Len(tracks) /\ DOMAIN tracks = 1..N /\ Positions(tracks) = 0..(N - 1)
  BY PositionsAre
<1>2. tracks \in Seq(S) /\ P \in SUBSET (1..Len(tracks)) /\ P \in SUBSET (1..N)
  BY <1>1 DEF IsSeq
<1> HIDE DEF S
<1>3. u \in Seq(S) /\ \E pos : Places(tracks, P, u, pos)
  BY <1>2, SelectedPlaces
<1>4. PICK pos : Places(tracks, P, u, pos)
  BY <1>3
<1> HIDE DEF u
<1>5. Len(u) \in Nat
  BY <1>3, LenProperties
<1>6. FewerPlaces(N, P, OthersOf(N, P), u, pos)
  BY <1>2, <1>4, <1>5, PlacesLeft
<1>7. gone = OthersOf(N, P)
  BY <1>1
<1> HIDE DEF gone
<1>8. /\ gone \in SUBSET (0..(N - 1)) /\ Len(u) = Left(gone, N)
      /\ \A k \in 1..Len(u) : pos[k] \in 1..N /\ Left(gone, pos[k] - 1) = k - 1
  BY <1>6, <1>7 DEF FewerPlaces
<1>9. ASSUME NEW p \in Positions(tracks) \ gone
      PROVE  Left(gone, p) \in Positions(u) /\ u[Left(gone, p) + 1] = tracks[p + 1]
  <2>1. PICK i \in 1..N : i = p + 1 /\ i - 1 = p
    BY <1>1
  <2>2. i \in P
    BY <1>7, <2>1 DEF OthersOf
  <2>3. PICK k \in 1..Len(u) : pos[k] = i /\ u[k] = tracks[pos[k]]
    BY <1>4, <2>2 DEF Places
  <2>4. Left(gone, p) = k - 1
    BY <1>8, <2>1, <2>3
  <2>5. k - 1 \in 0..(Len(u) - 1) /\ (k - 1) + 1 = k
    BY <1>5
  <2> QED BY <2>1, <2>3, <2>4, <2>5 DEF Positions
<1>10. IsSeq(u)
  BY <1>3, SeqFacts
<1>11. FewerTracks(u, tracks, gone)
  BY <1>1, <1>8, <1>9, <1>10 DEF FewerTracks
<1> QED BY <1>11 DEF u, gone

\* The entries are in order.
LEMMA LeadGrows ==
  ASSUME NEW jumps, JumpRecords(jumps), NEW n, Divide(jumps, n), NEW i \in DOMAIN jumps
  PROVE  n \in Nat /\ EndOf(jumps[i]) \in Nat /\ EndOf(jumps[i]) <= n /\ jumps[i].start <= EndOf(jumps[i])
<1> DEFINE N == Len(jumps)
           E(k) == Lead(jumps, k)
           Short == {k \in i..N : ~ (E(i) <= E(k))}
<1>1. /\ N \in Nat /\ DOMAIN jumps = 1..N
      /\ \A k \in 0..N : E(k) \in Nat
      /\ \A k \in DOMAIN jumps : jumps[k].start = E(k - 1) /\ EndOf(jumps[k]) = E(k)
      /\ n = E(N)
  BY LeadIs
<1> HIDE DEF N, E
<1>2. i \in 1..N /\ i \in 0..N /\ N \in 0..N /\ N \in i..N
  BY <1>1
<1>3. ASSUME NEW k \in 1..N PROVE E(k - 1) \in Nat /\ E(k) \in Nat /\ E(k - 1) <= E(k)
  <2>1. k - 1 \in 0..N /\ k \in 0..N /\ k \in DOMAIN jumps
    BY <1>1
  <2>2. E(k - 1) \in Nat /\ E(k) \in Nat /\ jumps[k].start = E(k - 1) /\ EndOf(jumps[k]) = E(k)
    BY <1>1, <2>1
  <2>3. jumps[k].count \in Nat /\ jumps[k].start \in Nat
    BY <2>1 DEF JumpRecords, EntryRecord
  <2>4. E(k) = E(k - 1) + jumps[k].count
    BY <2>2 DEF EndOf
  <2> QED BY <2>2, <2>3, <2>4
<1>4. Short = {}
  <2>1. SUFFICES ASSUME Short # {} PROVE FALSE
    OBVIOUS
  <2>2. PICK k \in Short : \A l \in Short : k <= l
    <3>1. Short \in SUBSET Nat
      BY <1>1, <1>2
    <3> HIDE DEF Short
    <3> QED BY <2>1, <3>1, NatHasMin
  <2>3. k \in i..N /\ ~ (E(i) <= E(k))
    BY <2>2
  <2>4. E(i) \in Nat
    BY <1>1, <1>2
  <2>5. k # i
    BY <2>3, <2>4
  <2>6. k \in 1..N /\ k - 1 \in i..N /\ k - 1 < k /\ k \in Nat /\ k - 1 \in Nat
    BY <1>1, <1>2, <2>3, <2>5
  <2>7. k - 1 \notin Short
    <3> HIDE DEF Short
    <3>1. k - 1 \in Short => k <= k - 1
      BY <2>2
    <3> QED BY <2>6, <3>1
  <2>8. E(i) <= E(k - 1)
    BY <2>6, <2>7
  <2>9. E(k - 1) \in Nat /\ E(k) \in Nat /\ E(k - 1) <= E(k)
    BY <1>3, <2>6
  <2> QED BY <2>3, <2>4, <2>8, <2>9
<1>5. E(i) <= E(N)
  BY <1>2, <1>4
<1>6. EndOf(jumps[i]) = E(i) /\ jumps[i].start = E(i - 1)
  BY <1>1, <1>2
<1>7. E(i - 1) <= E(i)
  BY <1>2, <1>3
<1>8. E(N) \in Nat /\ E(i) \in Nat
  BY <1>1, <1>2
<1> QED BY <1>1, <1>5, <1>6, <1>7, <1>8

\* The index without the tracks that go.
IndexWithout(i, gone) ==
  [slots |-> RemovedSlots(i.slots, gone), jumps |-> RemovedJumps(i.jumps, GoneSlots(i.slots, gone))]

\* A removal leaves an index whole.
LEMMA WholeWithout ==
  ASSUME NEW tracks, IsSeq(tracks), NEW gone, NEW u, FewerTracks(u, tracks, gone),
         NEW i, IndexRecord(i), WholeIndex(i, tracks)
  PROVE  /\ IndexRecord(IndexWithout(i, gone)) /\ WholeIndex(IndexWithout(i, gone), u)
         /\ GoneSlots(i.slots, gone) \in SUBSET Nat
         /\ \E pos : SlotPlaces(RemovedSlots(i.slots, gone), i.slots, gone, pos)
         /\ WholeSlots(i.slots, Len(tracks)) /\ WholeSlots(RemovedSlots(i.slots, gone), Len(u))
         /\ JumpRecords(i.jumps) /\ Divide(i.jumps, Len(i.slots))
         /\ \A k \in DOMAIN RemovedJumps(i.jumps, GoneSlots(i.slots, gone)) :
              \E j \in DOMAIN i.jumps :
                EntryLeft(RemovedJumps(i.jumps, GoneSlots(i.slots, gone))[k], i.jumps[j], GoneSlots(i.slots, gone))
<1> DEFINE s == i.slots
           G == GoneSlots(s, gone)
           t == RemovedSlots(s, gone)
           jumps == RemovedJumps(i.jumps, G)
           r == IndexWithout(i, gone)
<1>1. PICK N \in Nat : N = Len(tracks) /\ Positions(tracks) = 0..(N - 1)
  BY PositionsAre
<1>2. IsSeq(u) /\ Len(u) = Left(gone, N) /\ gone \in SUBSET (0..(N - 1))
  BY <1>1 DEF FewerTracks
<1>3. WholeSlots(s, N) /\ Divide(i.jumps, Len(s)) /\ JumpRecords(i.jumps)
  BY <1>1 DEF WholeIndex, IndexRecord, WholeSlots, JumpRecords, EntryRecord
<1>4. /\ WholeSlots(t, Left(gone, N)) /\ G \in SUBSET Nat /\ Left(G, N) = Left(gone, N)
      /\ \E pos : SlotPlaces(t, s, gone, pos)
  BY <1>2, <1>3, SlotsWithout
<1>5. Len(s) = N
  BY <1>3, WholeSlotsAre
<1>6. /\ r = [slots |-> t, jumps |-> jumps]
  BY DEF IndexWithout
<1>7. DOMAIN r = {"slots", "jumps"} /\ r.slots = t /\ r.jumps = jumps
  BY <1>6
<1> HIDE DEF G, t, jumps, r
<1>8. /\ JumpRecords(jumps) /\ Divide(jumps, Left(G, Len(s)))
      /\ \A k \in DOMAIN jumps : \E j \in DOMAIN i.jumps : EntryLeft(jumps[k], i.jumps[j], G)
  BY <1>3, <1>4, RunsWithout DEF jumps
<1>9. WholeSlots(t, Len(u)) /\ Left(G, Len(s)) = Len(u) /\ Len(u) \in Nat
  BY <1>1, <1>2, <1>4, <1>5, PositionsAre
<1>10. Len(t) = Len(u) /\ IsSeq(t)
  BY <1>9, WholeSlotsAre DEF WholeSlots
<1>11. IndexRecord(r)
  BY <1>7, <1>8, <1>10 DEF IndexRecord, JumpRecords, EntryRecord
<1>12. Positions(u) = 0..(Len(u) - 1)
  BY DEF Positions
<1>13. WholeIndex(r, u)
  <2>1. Range(r.slots) = Positions(u) /\ \A m, n \in DOMAIN r.slots : r.slots[m] = r.slots[n] => m = n
    BY <1>7, <1>9, <1>12 DEF WholeSlots
  <2>2. Divide(r.jumps, Len(r.slots))
    BY <1>7, <1>8, <1>9, <1>10
  <2> QED BY <2>1, <2>2 DEF WholeIndex
<1> QED BY <1>1, <1>3, <1>4, <1>8, <1>9, <1>11, <1>13 DEF r, t, jumps, G

\* And in order.
LEMMA OrderWithout ==
  ASSUME NEW tracks, SortableTracks(tracks), NEW gone, NEW u, FewerTracks(u, tracks, gone), SortableTracks(u),
         NEW i, IndexRecord(i), WholeIndex(i, tracks), NEW sort \in Sorts, InOrder(i, tracks, sort)
  PROVE  InOrder(IndexWithout(i, gone), u, sort)
<1> DEFINE s == i.slots
           G == GoneSlots(s, gone)
           t == RemovedSlots(s, gone)
           jumps == RemovedJumps(i.jumps, G)
           r == IndexWithout(i, gone)
<1>0. IsSeq(tracks)
  BY DEF SortableTracks
<1>1. PICK N \in Nat : N = Len(tracks) /\ Positions(tracks) = 0..(N - 1)
  BY <1>0, PositionsAre
<1>2. PICK L \in Nat : L = Len(u) /\ Positions(u) = 0..(L - 1)
  BY PositionsAre DEF SortableTracks
<1>3. /\ G \in SUBSET Nat /\ \E pos : SlotPlaces(t, s, gone, pos)
      /\ WholeSlots(s, Len(tracks)) /\ WholeSlots(t, Len(u))
      /\ JumpRecords(i.jumps) /\ Divide(i.jumps, Len(s))
      /\ \A k \in DOMAIN jumps : \E j \in DOMAIN i.jumps : EntryLeft(jumps[k], i.jumps[j], G)
  <2>1. /\ GoneSlots(i.slots, gone) \in SUBSET Nat
        /\ \E pos : SlotPlaces(RemovedSlots(i.slots, gone), i.slots, gone, pos)
        /\ WholeSlots(i.slots, Len(tracks)) /\ WholeSlots(RemovedSlots(i.slots, gone), Len(u))
        /\ JumpRecords(i.jumps) /\ Divide(i.jumps, Len(i.slots))
        /\ \A k \in DOMAIN RemovedJumps(i.jumps, GoneSlots(i.slots, gone)) :
             \E j \in DOMAIN i.jumps :
               EntryLeft(RemovedJumps(i.jumps, GoneSlots(i.slots, gone))[k], i.jumps[j], GoneSlots(i.slots, gone))
    BY <1>0, WholeWithout
  <2> QED BY <2>1
<1>4. r.slots = t /\ r.jumps = jumps
  BY DEF IndexWithout
<1>18. JumpRecords(jumps) /\ Divide(jumps, Len(t))
  <2>1. IndexRecord(r) /\ WholeIndex(r, u)
    BY <1>0, WholeWithout
  <2> HIDE DEF r, t, jumps
  <2> QED BY <1>4, <2>1 DEF WholeIndex, IndexRecord, JumpRecords, EntryRecord
<1> HIDE DEF G, t, jumps, r
<1>5. /\ gone \in SUBSET (0..(N - 1)) /\ gone \in SUBSET Nat
      /\ \A p \in Positions(tracks) \ gone : Left(gone, p) \in Positions(u) /\ u[Left(gone, p) + 1] = tracks[p + 1]
  BY <1>1 DEF FewerTracks
<1>6. /\ Len(s) = N /\ DOMAIN s = 1..N /\ s \in [1..N -> Positions(tracks)]
  BY <1>1, <1>3, WholeSlotsAre
<1>7. /\ Len(t) = L /\ DOMAIN t = 1..L /\ t \in [1..L -> Positions(u)]
      /\ \A p \in Positions(u) : \E n \in 1..L : t[n] = p
  <2>1. WholeSlots(t, L)
    BY <1>2, <1>3
  <2>2. Positions(u) = 0..(L - 1)
    BY <1>2
  <2>3. /\ Len(t) = L /\ DOMAIN t = 1..L /\ t \in [1..L -> 0..(L - 1)]
        /\ \A p \in 0..(L - 1) : \E n \in 1..L : t[n] = p
    BY <2>1, WholeSlotsAre
  <2> QED BY <2>2, <2>3
<1>8. PICK pos : SlotPlaces(t, s, gone, pos)
  BY <1>3
<1>9. ASSUME NEW k \in 1..L
      PROVE  /\ pos[k] \in 1..N /\ s[pos[k]] \in Positions(tracks) \ gone /\ t[k] = Left(gone, s[pos[k]])
             /\ u[t[k] + 1] = tracks[s[pos[k]] + 1]
             /\ pos[k] - 1 \in Nat \ G /\ Left(G, pos[k] - 1) = k - 1
  <2>1. /\ pos[k] \in DOMAIN s /\ s[pos[k]] \notin gone /\ t[k] = Left(gone, s[pos[k]])
        /\ pos[k] - 1 \in Nat \ G /\ Left(G, pos[k] - 1) = k - 1
    BY <1>7, <1>8 DEF SlotPlaces, G
  <2>2. s[pos[k]] \in Positions(tracks) \ gone
    BY <1>6, <2>1
  <2> QED BY <1>5, <1>6, <2>1, <2>2
<1>10. ASSUME NEW k \in 1..L, NEW l \in 1..L, k < l PROVE <<t[k], t[l]>> \in TrackOrder(u, sort)
  <2>1. pos[k] < pos[l]
    BY <1>7, <1>8, <1>10 DEF SlotPlaces
  <2>2. PICK q \in Positions(tracks) \ gone : q = s[pos[k]] /\ t[k] = Left(gone, q) /\ u[t[k] + 1] = tracks[q + 1]
    BY <1>9
  <2>3. PICK p \in Positions(tracks) \ gone : p = s[pos[l]] /\ t[l] = Left(gone, p) /\ u[t[l] + 1] = tracks[p + 1]
    BY <1>9
  <2>4. InTrackOrder(s, tracks, sort)
    BY SortedIndexIs DEF InOrder
  <2>5. <<q, p>> \in TrackOrder(tracks, sort)
    <3>1. pos[k] \in 1..N /\ pos[l] \in 1..N
      BY <1>9
    <3> QED BY <1>1, <2>1, <2>2, <2>3, <2>4, <3>1 DEF InTrackOrder, Sorted
  <2>6. Earlier(tracks, sort, q, p)
    BY <2>5, TrackOrderIs
  <2>7. KeyAt(u, sort, t[k]) = KeyAt(tracks, sort, q) /\ KeyAt(u, sort, t[l]) = KeyAt(tracks, sort, p)
    BY <2>2, <2>3 DEF KeyAt
  <2>8. q < p => t[k] < t[l]
    <3>1. SUFFICES ASSUME q < p PROVE t[k] < t[l]
      OBVIOUS
    <3>2. gone \in SUBSET Nat /\ q \in Nat \ gone /\ p \in Nat
      BY <1>1, <1>5, <2>2, <2>3
    <3>3. Left(gone, q) < Left(gone, p)
      BY <3>1, <3>2, LeftGrows
    <3> QED BY <2>2, <2>3, <3>3
  <2>9. Earlier(u, sort, t[k], t[l])
    BY <2>6, <2>7, <2>8 DEF Earlier
  <2>10. t[k] \in Positions(u) /\ t[l] \in Positions(u)
    BY <1>7
  <2> QED BY <2>9, <2>10, TrackOrderIs
<1>11. InTrackOrder(t, u, sort)
  BY <1>2, <1>7, <1>10 DEF InTrackOrder, Sorted
<1>12. t = SortedIndex(u, sort)
  BY <1>11, SortedIndexIs
<1>13. ASSUME NEW k \in DOMAIN jumps, NEW n \in Covers(jumps[k])
       PROVE  LetterOf(u[t[n + 1] + 1], sort) = jumps[k].letter
  <2>1. PICK j \in DOMAIN i.jumps : EntryLeft(jumps[k], i.jumps[j], G)
    BY <1>3
  <2> DEFINE e == i.jumps[j]
  <2>2. EndOf(jumps[k]) \in Nat /\ EndOf(jumps[k]) <= Len(t)
    BY <1>18, LeadGrows
  <2>3. EntryRecord(jumps[k]) /\ EntryRecord(e)
    BY <1>3, <1>18 DEF JumpRecords
  <2>4. n \in Nat /\ n >= jumps[k].start /\ n < EndOf(jumps[k]) /\ n + 1 \in 1..L /\ (n + 1) - 1 = n
    <3>1. jumps[k].start \in Nat
      BY <2>3 DEF EntryRecord
    <3>2. n \in (jumps[k].start)..(EndOf(jumps[k]) - 1)
      BY <1>13 DEF Covers
    <3> QED BY <1>7, <2>2, <3>1, <3>2
  <2>5. jumps[k].letter = e.letter /\ jumps[k].start = Left(G, e.start) /\ EndOf(jumps[k]) = Left(G, EndOf(e))
    BY <2>1 DEF EntryLeft
  <2>6. PICK m \in 1..L : m = n + 1 /\ m - 1 = n
    BY <2>4
  <2>7. PICK o \in Nat \ G : o = pos[m] - 1 /\ Left(G, o) = n /\ o + 1 = pos[m]
    BY <1>9, <2>6
  <2>8. e.start \in Nat /\ EndOf(e) \in Nat /\ o \in Nat /\ G \in SUBSET Nat
    BY <1>3, <2>3 DEF EntryRecord, EndOf
  <2> HIDE DEF e
  <2>9. ~ (o < e.start)
    <3>1. SUFFICES ASSUME o < e.start PROVE FALSE
      OBVIOUS
    <3>2. Left(G, o) < Left(G, e.start)
      <4>1. e.start \in Nat /\ G \in SUBSET Nat /\ o \in Nat \ G
        BY <2>7, <2>8
      <4> QED BY <3>1, <4>1, LeftGrows
    <3>3. Left(G, e.start) \in Nat
      BY <2>8, BelowIs
    <3> QED BY <2>4, <2>5, <2>7, <3>2, <3>3
  <2>10. ~ (EndOf(e) <= o)
    <3>1. SUFFICES ASSUME EndOf(e) <= o PROVE FALSE
      OBVIOUS
    <3>2. Left(G, EndOf(e)) <= Left(G, o)
      BY <2>8, <3>1, BelowAdds
    <3>3. Left(G, EndOf(e)) \in Nat
      BY <2>8, BelowIs
    <3> QED BY <2>4, <2>5, <2>7, <3>2, <3>3
  <2>11. o \in Covers(e)
    BY <2>8, <2>9, <2>10 DEF Covers
  <2>12. LetterOf(tracks[s[o + 1] + 1], sort) = e.letter
    <3>1. e \in Range(i.jumps)
      BY DEF e, Range
    <3> QED BY <2>11, <3>1 DEF InOrder
  <2>13. u[t[m] + 1] = tracks[s[pos[m]] + 1]
    BY <1>9
  <2> QED BY <2>5, <2>6, <2>7, <2>12, <2>13
<1>14. \A e \in Range(r.jumps) : \A n \in Covers(e) : LetterOf(u[r.slots[n + 1] + 1], sort) = e.letter
  <2>1. \A e \in Range(jumps) : \E k \in DOMAIN jumps : e = jumps[k]
    BY DEF Range
  <2> QED BY <1>4, <1>13, <2>1
<1>15. InOrder(r, u, sort)
  BY <1>4, <1>12, <1>14 DEF InOrder
<1> QED BY <1>15 DEF r

------------------------------------------------------------------------------
(* An index that an addition builds. *)

\* The slots of the entries are slots of the index.
LEMMA CoveredSlots ==
  ASSUME NEW tracks, IsSeq(tracks), NEW i, IndexRecord(i), WholeIndex(i, tracks),
         NEW e \in Range(i.jumps), NEW n \in Covers(e)
  PROVE  n + 1 \in DOMAIN i.slots /\ i.slots[n + 1] \in Positions(tracks) /\ i.slots[n + 1] + 1 \in DOMAIN tracks
<1>1. JumpRecords(i.jumps) /\ Divide(i.jumps, Len(i.slots)) /\ WholeSlots(i.slots, Len(tracks))
  BY DEF WholeIndex, IndexRecord, JumpRecords, EntryRecord, WholeSlots, Positions
<1>2. PICK k \in DOMAIN i.jumps : e = i.jumps[k]
  BY DEF Range
<1>3. PICK N \in Nat : N = Len(tracks) /\ DOMAIN tracks = 1..N /\ Positions(tracks) = 0..(N - 1)
  BY PositionsAre
<1>4. Len(i.slots) = N /\ DOMAIN i.slots = 1..N /\ i.slots \in [1..N -> 0..(N - 1)]
  BY <1>1, <1>3, WholeSlotsAre
<1>5. EndOf(e) \in Nat /\ EndOf(e) <= N
  BY <1>1, <1>2, <1>4, LeadGrows
<1>6. e.start \in Nat
  BY <1>1, <1>2 DEF JumpRecords, EntryRecord
<1>7. n + 1 \in 1..N
  <2>1. n \in (e.start)..(EndOf(e) - 1)
    BY DEF Covers
  <2> QED BY <1>5, <1>6, <2>1
<1>8. i.slots[n + 1] \in 0..(N - 1)
  BY <1>4, <1>7
<1>9. i.slots[n + 1] + 1 \in 1..N
  BY <1>8
<1> QED BY <1>3, <1>4, <1>7, <1>8, <1>9

\* An index is in order for any tracks with the same fields.
SameFields(u, tracks, sort) ==
  /\ Len(u) = Len(tracks)
  /\ \A n \in DOMAIN tracks :
       SortFields(u[n], sort) = SortFields(tracks[n], sort) /\ LetterOf(u[n], sort) = LetterOf(tracks[n], sort)

\* The sort order and the letters depend on nothing else of the tracks.
LEMMA SameOrder ==
  ASSUME NEW tracks, SortableTracks(tracks), NEW u, SortableTracks(u), NEW sort \in Sorts,
         SameFields(u, tracks, sort),
         NEW i, IndexRecord(i), WholeIndex(i, tracks), InOrder(i, tracks, sort)
  PROVE  WholeIndex(i, u) /\ InOrder(i, u, sort)
<1>1. IsSeq(tracks) /\ IsSeq(u)
  BY DEF SortableTracks
<1>2. /\ Len(u) = Len(tracks) /\ Positions(u) = Positions(tracks)
      /\ \A p \in Positions(tracks) : p + 1 \in DOMAIN tracks
  <2>1. PICK N \in Nat : N = Len(tracks) /\ DOMAIN tracks = 1..N /\ Positions(tracks) = 0..(N - 1)
    BY <1>1, PositionsAre
  <2>2. Len(u) = N
    BY <2>1 DEF SameFields
  <2> QED BY <2>1, <2>2 DEF Positions
<1>3. \A p \in Positions(tracks) : KeyAt(u, sort, p) = KeyAt(tracks, sort, p)
  BY <1>2 DEF SameFields, KeyAt
<1>4. TrackOrder(u, sort) = TrackOrder(tracks, sort)
  BY <1>2, <1>3 DEF TrackOrder, Earlier
<1>5. InTrackOrder(i.slots, tracks, sort)
  BY SortedIndexIs DEF InOrder
<1>6. InTrackOrder(i.slots, u, sort)
  BY <1>2, <1>4, <1>5 DEF InTrackOrder
<1>7. i.slots = SortedIndex(u, sort)
  BY <1>6, SortedIndexIs
<1>8. ASSUME NEW e \in Range(i.jumps), NEW n \in Covers(e) PROVE LetterOf(u[i.slots[n + 1] + 1], sort) = e.letter
  <2>1. i.slots[n + 1] + 1 \in DOMAIN tracks
    BY <1>1, CoveredSlots
  <2>2. LetterOf(tracks[i.slots[n + 1] + 1], sort) = e.letter
    BY DEF InOrder
  <2>3. \A m \in DOMAIN tracks : LetterOf(u[m], sort) = LetterOf(tracks[m], sort)
    BY DEF SameFields
  <2> QED BY <2>1, <2>2, <2>3
<1>9. WholeIndex(i, u)
  BY <1>2 DEF WholeIndex
<1>10. InOrder(i, u, sort)
  BY <1>7, <1>8 DEF InOrder
<1> QED BY <1>9, <1>10

\* What an addition builds is whole and in order.
LEMMA RebuiltIndexIs ==
  ASSUME NEW tracks, SortableTracks(tracks), NEW sort \in Sorts
  PROVE  LET i == RebuiltIndex(tracks, sort)
         IN  IndexRecord(i) /\ WholeIndex(i, tracks) /\ InOrder(i, tracks, sort)
<1> DEFINE s == SortedIndex(tracks, sort)
           letters == [n \in DOMAIN s |-> LetterOf(tracks[s[n] + 1], sort)]
           i == RebuiltIndex(tracks, sort)
           S == {LetterOf(tracks[s[n] + 1], sort) : n \in DOMAIN s}
<1>0. IsSeq(tracks)
  BY DEF SortableTracks
<1>1. PICK N \in Nat : N = Len(tracks) /\ DOMAIN tracks = 1..N /\ Positions(tracks) = 0..(N - 1)
  BY <1>0, PositionsAre
<1>2. InTrackOrder(s, tracks, sort)
  BY SortedIndexIs
<1>3. WholeSlots(s, N)
  BY <1>1, <1>2, SortedIsWhole
<1>4. i = [slots |-> s, jumps |-> JumpTable(letters)]
  BY DEF RebuiltIndex
<1>5. DOMAIN i = {"slots", "jumps"} /\ i.slots = s /\ i.jumps = JumpTable(letters)
  BY <1>4
<1> HIDE DEF s, i
<1>6. Len(s) = N /\ DOMAIN s = 1..N /\ s \in [1..N -> 0..(N - 1)] /\ IsSeq(s)
  BY <1>3, WholeSlotsAre DEF WholeSlots
<1>7. letters \in [1..N -> S] /\ \A n \in 1..N : letters[n] = LetterOf(tracks[s[n] + 1], sort)
  BY <1>6
<1> HIDE DEF letters, S
<1>8. IsSeq(letters) /\ Len(letters) = N /\ DOMAIN letters = 1..N
  BY <1>7, FunctionIsSeq
<1>9. JumpRecords(i.jumps) /\ Divide(i.jumps, N) /\ Lettered(i.jumps, letters)
  <2> DEFINE j == JumpTable(letters)
  <2>1. JumpRecords(j) /\ Divide(j, Len(letters)) /\ Lettered(j, letters)
    BY <1>8, JumpTableIs
  <2>2. i.jumps = j
    BY <1>5
  <2> HIDE DEF j
  <2> QED BY <1>8, <2>1, <2>2
<1>10. IndexRecord(i)
  BY <1>5, <1>6, <1>9 DEF IndexRecord, JumpRecords, EntryRecord
<1>11. WholeIndex(i, tracks)
  BY <1>1, <1>3, <1>5, <1>6, <1>9 DEF WholeIndex, WholeSlots
<1>12. InOrder(i, tracks, sort)
  <2>1. i.slots = SortedIndex(tracks, sort)
    BY <1>5 DEF s
  <2>2. ASSUME NEW e \in Range(i.jumps), NEW n \in Covers(e)
        PROVE  LetterOf(tracks[i.slots[n + 1] + 1], sort) = e.letter
    <3>1. PICK k \in DOMAIN i.jumps : e = i.jumps[k]
      BY DEF Range
    <3>2. n + 1 \in DOMAIN letters /\ letters[n + 1] = e.letter
      BY <1>9, <3>1 DEF Lettered
    <3> QED BY <1>5, <1>7, <1>8, <3>2
  <2> QED BY <2>1, <2>2 DEF InOrder
<1> QED BY <1>10, <1>11, <1>12 DEF i

\* An index of no track is empty, and in order.
LEMMA EmptyInOrder ==
  ASSUME NEW sort \in Sorts, NEW i, IndexRecord(i), WholeIndex(i, <<>>)
  PROVE  InOrder(i, <<>>, sort)
<1> DEFINE none == <<>>
<1>1. SortableTracks(none) /\ IsSeq(none) /\ Len(none) = 0 /\ DOMAIN none = {}
  <2>1. none \in Seq(Range(none)) /\ Len(none) = 0 /\ DOMAIN none = {}
    BY EmptySeq
  <2> QED BY <2>1 DEF SortableTracks, IsSeq
<1>2. ASSUME NEW e \in Range(i.jumps), NEW n \in Covers(e) PROVE FALSE
  <2>1. i.slots[n + 1] + 1 \in DOMAIN none
    BY <1>1, CoveredSlots
  <2> QED BY <1>1, <2>1
<1>3. Positions(none) = {} /\ 1..Len(none) = {}
  <2>1. 0..(0 - 1) = {} /\ 1..0 = {}
    OBVIOUS
  <2> QED BY <1>1, <2>1 DEF Positions
<1>4. InTrackOrder(i.slots, none, sort)
  <2>1. WholeSlots(i.slots, Len(none)) /\ Len(none) \in Nat
    BY <1>1 DEF WholeIndex, IndexRecord, WholeSlots, Positions
  <2>2. i.slots \in [1..Len(none) -> 0..(Len(none) - 1)]
    BY <2>1, WholeSlotsAre
  <2>3. i.slots \in [1..Len(none) -> Positions(none)]
    BY <2>2 DEF Positions
  <2> QED BY <1>3, <2>3 DEF InTrackOrder, Sorted
<1>5. i.slots = SortedIndex(none, sort)
  BY <1>1, <1>4, SortedIndexIs
<1> QED BY <1>2, <1>5 DEF InOrder

------------------------------------------------------------------------------
(* The indexes of the masters. *)

\* The index of a sort order, and the indexes of a master.
SoundIndex(i, s, tracks) ==
  /\ s \in Sorts /\ IndexRecord(i) /\ WholeIndex(i, tracks)
  /\ EveryFieldStored(tracks) => InOrder(i, tracks, s)

HeadSound(l, tracks) == \A s \in DOMAIN l.index : SoundIndex(l.index[s], s, tracks)

\* The indexes of a database are sound if those of each master are.
LEMMA SoundIndexesAre ==
  ASSUME NEW db, NEW file
  PROVE  SoundIndexes(db, file) <=> \A n \in MasterDatasets(db, file) : HeadSound(db.datasets[n].lists[1], db.tracks)
<1>1. SoundIndexes(db, file) <=> \A m \in Masters(db, file) : HeadSound(m, db.tracks)
  BY DEF SoundIndexes, HeadSound, SoundIndex
<1>2. \A m : m \in Masters(db, file) <=> \E n \in MasterDatasets(db, file) : m = db.datasets[n].lists[1]
  BY DEF Masters
<1> QED BY <1>1, <1>2

\* The tracks of a sound database can be sorted.
LEMMA RowsAreSortable ==
  ASSUME NEW tracks \in Seq(TrackRows)
  PROVE  SortableTracks(tracks)
<1>1. IsSeq(tracks) /\ \A n \in DOMAIN tracks : tracks[n] \in TrackRows
  BY SeqFacts
<1>2. \A t \in TrackRows : Sortable(t)
  BY TrackIs DEF Sortable
<1> QED BY <1>1, <1>2 DEF SortableTracks

\* A field that is stored when some tracks are gone was stored before.
LEMMA FieldsStayStored ==
  ASSUME NEW tracks \in Seq(TrackRows), NEW P \in SUBSET DOMAIN tracks,
         EveryFieldStored(Selected(tracks, P)), Selected(tracks, P) # <<>>
  PROVE  EveryFieldStored(tracks)
<1> DEFINE u == Selected(tracks, P)
<1>1. IsSeq(tracks) /\ Range(tracks) \subseteq TrackRows /\ DOMAIN tracks = 1..Len(tracks)
      /\ \A n \in DOMAIN tracks : tracks[n] \in Range(tracks)
  BY SeqFacts
<1>2. P \in SUBSET (1..Len(tracks))
  BY <1>1
<1>3. \A x : x \in Range(u) <=> \E n \in P : x = tracks[n]
  BY <1>2, SelectedRange
<1>4. SortedFields \subseteq UNION {t.fields : t \in Range(u)}
  BY DEF EveryFieldStored, TrackProfile
<1> HIDE DEF u
<1>5. Range(u) \subseteq Range(tracks)
  BY <1>1, <1>3
<1>6. SortedFields \subseteq UNION {t.fields : t \in Range(tracks)}
  BY <1>4, <1>5
<1> QED BY <1>6 DEF TrackProfile, EveryFieldStored, FieldNames

\* An index of a master stays sound when tracks go.
LEMMA IndexStaysSound ==
  ASSUME NEW tracks \in Seq(TrackRows), NEW P \in SUBSET DOMAIN tracks, NEW gone, gone = OthersOf(Len(tracks), P),
         NEW s, NEW i, SoundIndex(i, s, tracks)
  PROVE  SoundIndex(IndexWithout(i, gone), s, Selected(tracks, P))
<1> DEFINE u == Selected(tracks, P)
           r == IndexWithout(i, gone)
<1>1. s \in Sorts /\ IndexRecord(i) /\ WholeIndex(i, tracks) /\ (EveryFieldStored(tracks) => InOrder(i, tracks, s))
  BY DEF SoundIndex
<1>2. SortableTracks(tracks) /\ IsSeq(tracks)
  BY RowsAreSortable DEF SortableTracks
<1>3. u \in Seq(TrackRows)
  <2>1. P \in SUBSET (1..Len(tracks))
    BY SeqFacts
  <2> QED BY <2>1, SelectedPlaces
<1>4. FewerTracks(u, tracks, gone)
  BY <1>2, FewerTracksAre
<1>10. EveryFieldStored(u) /\ u # <<>> => EveryFieldStored(tracks)
  BY FieldsStayStored
<1> HIDE DEF u, r
<1>5. SortableTracks(u)
  BY <1>3, RowsAreSortable
<1>6. IndexRecord(r) /\ WholeIndex(r, u)
  BY <1>1, <1>2, <1>4, WholeWithout DEF r
<1>7. EveryFieldStored(u) => InOrder(r, u, s)
  <2>1. CASE u = <<>>
    <3>1. WholeIndex(r, <<>>)
      BY <1>6, <2>1
    <3>2. InOrder(r, <<>>, s)
      BY <1>1, <1>6, <3>1, EmptyInOrder
    <3> QED BY <2>1, <3>2
  <2>2. CASE u # <<>>
    <3>1. SUFFICES ASSUME EveryFieldStored(u) PROVE InOrder(r, u, s)
      OBVIOUS
    <3>2. InOrder(i, tracks, s)
      BY <1>1, <1>10, <2>2, <3>1
    <3> QED BY <1>1, <1>2, <1>4, <1>5, <3>2, OrderWithout DEF r
  <2> QED BY <2>1, <2>2
<1> QED BY <1>1, <1>6, <1>7 DEF SoundIndex, u, r

\* So the indexes of a master stay sound when tracks go.
LEMMA HeadWithout ==
  ASSUME NEW tracks \in Seq(TrackRows), NEW P \in SUBSET DOMAIN tracks, NEW gone, gone = OthersOf(Len(tracks), P),
         NEW l, WellFormedList(l), HeadSound(l, tracks), NEW ids
  PROVE  HeadSound(RemovedFromList(l, ids, gone), Selected(tracks, P))
<1> DEFINE m == RemovedFromList(l, ids, gone)
<1>1. DOMAIN l = {"id", "role", "name", "items", "index"}
  BY DEF WellFormedList
<1>2. m.index = [s \in DOMAIN l.index |-> IndexWithout(l.index[s], gone)]
  BY <1>1 DEF RemovedFromList, IndexWithout
<1> HIDE DEF m
<1>3. ASSUME NEW s \in DOMAIN m.index PROVE SoundIndex(m.index[s], s, Selected(tracks, P))
  <2>1. s \in DOMAIN l.index /\ m.index[s] = IndexWithout(l.index[s], gone)
    BY <1>2
  <2>2. SoundIndex(l.index[s], s, tracks)
    BY <2>1 DEF HeadSound
  <2> QED BY <2>1, <2>2, IndexStaysSound
<1> QED BY <1>3 DEF HeadSound, m

\* The datasets that have the masters.
LEMMA SameMasterSets ==
  ASSUME NEW db, NEW d, NEW file, DOMAIN d.datasets = DOMAIN db.datasets,
         \A n \in DOMAIN db.datasets : d.datasets[n].kind = db.datasets[n].kind
  PROVE  MasterDatasets(d, file) = MasterDatasets(db, file)
<1>1. \A k : {n \in DOMAIN d.datasets : d.datasets[n].kind = k} = {n \in DOMAIN db.datasets : db.datasets[n].kind = k}
  OBVIOUS
<1> QED BY <1>1 DEF MasterDatasets

\* remove_tracks leaves sound indexes.
LEMMA RemovedIndexes ==
  ASSUME NEW db, NEW file, SoundDatabase(db, file), SoundIndexes(db, file), NEW pids
  PROVE  SoundIndexes(RemovedTracks(db, pids), file)
<1> DEFINE d == RemovedTracks(db, pids)
           gone == {n - 1 : n \in {m \in DOMAIN db.tracks : db.tracks[m].pid \in pids}}
           ids == {db.tracks[p + 1].id : p \in gone}
           P == {n \in DOMAIN db.tracks : db.tracks[n].pid \notin pids}
<1>1. WellFormed(db)
  BY DEF SoundDatabase
<1>2. /\ DOMAIN db = {"tracks", "albums", "datasets", "count", "version"} /\ db.tracks \in Seq(TrackRows)
  BY <1>1 DEF WellFormed
<1>3. P \in SUBSET DOMAIN db.tracks /\ DOMAIN db.tracks = 1..Len(db.tracks)
  BY <1>2, SeqFacts
<1>4. gone = OthersOf(Len(db.tracks), P)
  <2>1. {m \in DOMAIN db.tracks : db.tracks[m].pid \in pids} = DOMAIN db.tracks \ P
    OBVIOUS
  <2> QED BY <1>3, <2>1 DEF OthersOf
<1>5. d.tracks = Selected(db.tracks, P)
      /\ d.datasets = [n \in DOMAIN db.datasets |-> RemovedFromDataset(db.datasets[n], ids, gone)]
  BY <1>2 DEF RemovedTracks
<1> HIDE DEF d, gone, ids, P
<1>6. ASSUME NEW n \in DOMAIN db.datasets
      PROVE  /\ d.datasets[n].kind = db.datasets[n].kind
             /\ \A k \in DOMAIN db.datasets[n].lists :
                  d.datasets[n].lists[k] = RemovedFromList(db.datasets[n].lists[k], ids, gone)
  <2>1. WellFormedDataset(db.datasets[n]) /\ d.datasets[n] = RemovedFromDataset(db.datasets[n], ids, gone)
    BY <1>1, <1>5, DatasetFacts
  <2> QED BY <2>1, RemovedFromDatasetIs
<1>7. MasterDatasets(d, file) = MasterDatasets(db, file)
  <2>1. DOMAIN d.datasets = DOMAIN db.datasets
    BY <1>5
  <2> QED BY <1>6, <2>1, SameMasterSets
<1>8. ASSUME NEW n \in MasterDatasets(db, file) PROVE HeadSound(d.datasets[n].lists[1], d.tracks)
  <2>1. n \in DOMAIN db.datasets /\ 1 \in DOMAIN db.datasets[n].lists
    BY MasterItems
  <2>2. WellFormedList(db.datasets[n].lists[1])
    BY <1>1, <2>1, DatasetFacts
  <2>3. HeadSound(db.datasets[n].lists[1], db.tracks)
    BY SoundIndexesAre
  <2>4. d.datasets[n].lists[1] = RemovedFromList(db.datasets[n].lists[1], ids, gone)
    BY <1>6, <2>1
  <2>5. HeadSound(RemovedFromList(db.datasets[n].lists[1], ids, gone), Selected(db.tracks, P))
    BY <1>2, <1>3, <1>4, <2>2, <2>3, HeadWithout
  <2> QED BY <1>5, <2>4, <2>5
<1>9. SoundIndexes(d, file)
  BY <1>7, <1>8, SoundIndexesAre
<1> QED BY <1>9 DEF d

\* If every field is stored with an addition, it has the fields it was asked for.
LEMMA FieldsOfNew ==
  ASSUME NEW db, NEW file, WellFormed(db), NEW a \in AdditionRows,
         EveryFieldStored(Append(db.tracks, NewTrack(db, file, a)))
  PROVE  LET new == NewTrack(db, file, a)
         IN  /\ new.title = a.title /\ new.artist = a.artist /\ new.album = a.album
             /\ new.genre = a.genre /\ new.number = a.number
<1> DEFINE tracks == db.tracks
           new == NewTrack(db, file, a)
           t == Append(tracks, new)
           profile == TrackProfile(tracks)
           written == {f \in profile : f # "genre" \/ "genre" \in a.given}
           text(f, value) == IF f \in written THEN value ELSE NoName
<1>1. tracks \in Seq(TrackRows) /\ new \in TrackRows
  BY NewTrackIs DEF WellFormed
<1>2. /\ new.fields = written /\ new.number = a.number
      /\ new.title = text("title", a.title) /\ new.artist = text("artist", a.artist)
      /\ new.album = text("album", a.album) /\ new.genre = text("genre", a.genre)
  BY DEF NewTrack
<1> HIDE DEF new, t, tracks
<1>3. Len(tracks) \in Nat /\ DOMAIN tracks = 1..Len(tracks)
  BY <1>1, SeqFacts
<1>4. /\ t \in Seq(TrackRows) /\ Len(t) = Len(tracks) + 1 /\ t[Len(tracks) + 1] = new
      /\ \A n \in 1..Len(tracks) : t[n] = tracks[n]
  BY <1>1, AppendProperties DEF t
<1>5. DOMAIN t = 1..(Len(tracks) + 1) /\ Len(t) # 0
  <2>1. DOMAIN t = 1..Len(t)
    BY <1>4, SeqFacts
  <2> QED BY <1>3, <1>4, <2>1
<1>6. t # <<>>
  <2>1. Len(<<>>) = 0
    BY EmptySeq
  <2> QED BY <1>5, <2>1
<1>7. SortedFields \subseteq TrackProfile(t)
  BY DEF EveryFieldStored, t, tracks, new
<1>8. \A x \in Range(t) : x = new \/ x \in Range(tracks)
  <2>1. ASSUME NEW n \in 1..(Len(tracks) + 1) PROVE t[n] = new \/ t[n] \in Range(tracks)
    <3>1. n = Len(tracks) + 1 \/ n \in 1..Len(tracks)
      BY <1>3
    <3> QED BY <1>3, <1>4, <3>1 DEF Range
  <2> QED BY <1>5, <2>1 DEF Range
<1>9. TrackProfile(t) = UNION {x.fields : x \in Range(t)}
  BY <1>6 DEF TrackProfile
<1>10. SortedFields \subseteq profile
  <2>1. CASE tracks = <<>>
    BY <2>1 DEF TrackProfile, FieldNames
  <2>2. CASE tracks # <<>>
    <3>1. profile = UNION {x.fields : x \in Range(tracks)}
      BY <2>2 DEF TrackProfile
    <3>2. new.fields \subseteq profile
      BY <1>2
    <3> HIDE DEF profile
    <3>3. ASSUME NEW f \in SortedFields PROVE f \in profile
      <4>1. PICK x \in Range(t) : f \in x.fields
        BY <1>7, <1>9
      <4> QED BY <1>8, <3>1, <3>2, <4>1
    <3> QED BY <3>3
  <2> QED BY <2>1, <2>2
<1>11. "title" \in written /\ "artist" \in written /\ "album" \in written /\ ("genre" \in written <=> "genre" \in a.given)
  BY <1>10 DEF SortedFields
<1>13. a.genre # NoName => "genre" \in a.given
  BY AdditionIs
<1> HIDE DEF written
<1>12. /\ new.title = a.title /\ new.artist = a.artist /\ new.album = a.album
       /\ new.genre = a.genre /\ new.number = a.number
  BY <1>2, <1>11, <1>13
<1> QED BY <1>12 DEF new

\* A master that an addition writes has sound indexes: they are built from the
\* fields as they were asked for, and those are the ones stored if every field is.
LEMMA HeadWith ==
  ASSUME NEW db, NEW file, WellFormed(db), NEW a \in AdditionRows, NEW l, WellFormedList(l), HeadSound(l, db.tracks), NEW id
  PROVE  HeadSound(MasterWith(l, db.tracks, a, id), Append(db.tracks, NewTrack(db, file, a)))
<1> DEFINE tracks == db.tracks
           new == NewTrack(db, file, a)
           t == Append(tracks, new)
           all == Append(tracks, a)
           m == MasterWith(l, tracks, a, id)
           S == TrackRows \cup {a}
<1>1. tracks \in Seq(TrackRows) /\ new \in TrackRows
  BY NewTrackIs DEF WellFormed
<1>2. DOMAIN l = {"id", "role", "name", "items", "index"}
  BY DEF WellFormedList
<1>3. m.index = [s \in DOMAIN l.index |-> RebuiltIndex(all, s)]
  BY <1>2 DEF MasterWith
<1>4. EveryFieldStored(t) =>
        /\ new.title = a.title /\ new.artist = a.artist /\ new.album = a.album
        /\ new.genre = a.genre /\ new.number = a.number
  BY FieldsOfNew
<1> HIDE DEF m, new, t, tracks, all, S
<1>5. t \in Seq(TrackRows) /\ Len(t) = Len(tracks) + 1 /\ t[Len(tracks) + 1] = new /\ \A n \in 1..Len(tracks) : t[n] = tracks[n]
  BY <1>1, AppendProperties DEF t
<1>6. tracks \in Seq(S) /\ a \in S
  <2>1. tracks \in Seq(Range(tracks)) /\ Range(tracks) \subseteq S
    BY <1>1, SeqFacts DEF IsSeq, S
  <2> QED BY <2>1, SeqNarrow DEF S
<1>7. all \in Seq(S) /\ Len(all) = Len(tracks) + 1 /\ all[Len(tracks) + 1] = a /\ \A n \in 1..Len(tracks) : all[n] = tracks[n]
  BY <1>6, AppendProperties DEF all
<1>8. \A x \in S : Sortable(x)
  BY TrackIs, AdditionIs DEF Sortable, S
<1>9. SortableTracks(all)
  <2>1. IsSeq(all) /\ \A n \in DOMAIN all : all[n] \in S
    BY <1>7, SeqFacts
  <2> QED BY <1>8, <2>1 DEF SortableTracks
<1>10. SortableTracks(t)
  BY <1>5, RowsAreSortable
<1>11. Len(t) = Len(all) /\ Positions(t) = Positions(all)
  BY <1>5, <1>7 DEF Positions
<1>12. Len(tracks) \in Nat /\ DOMAIN all = 1..(Len(tracks) + 1)
  BY <1>1, <1>7, SeqFacts
<1>13. ASSUME NEW s \in DOMAIN m.index PROVE SoundIndex(m.index[s], s, t)
  <2> DEFINE i == m.index[s]
  <2>1. s \in DOMAIN l.index /\ i = RebuiltIndex(all, s)
    BY <1>3
  <2>2. s \in Sorts
    BY <2>1 DEF HeadSound, SoundIndex
  <2>3. IndexRecord(RebuiltIndex(all, s)) /\ WholeIndex(RebuiltIndex(all, s), all) /\ InOrder(RebuiltIndex(all, s), all, s)
    BY <1>9, <2>2, RebuiltIndexIs
  <2> HIDE DEF i
  <2>4. IndexRecord(i) /\ WholeIndex(i, all) /\ InOrder(i, all, s)
    BY <2>1, <2>3
  <2>5. WholeIndex(i, t)
    BY <1>11, <2>4 DEF WholeIndex
  <2>6. ASSUME EveryFieldStored(t) PROVE InOrder(i, t, s)
    <3>1. ASSUME NEW n \in DOMAIN all
          PROVE  SortFields(t[n], s) = SortFields(all[n], s) /\ LetterOf(t[n], s) = LetterOf(all[n], s)
      <4>1. n = Len(tracks) + 1 \/ n \in 1..Len(tracks)
        BY <1>12, <3>1
      <4>2. CASE n \in 1..Len(tracks)
        BY <1>5, <1>7, <4>2
      <4>3. CASE n = Len(tracks) + 1
        <5>1. t[n] = new /\ all[n] = a
          BY <1>5, <1>7, <4>3
        <5>2. /\ new.title = a.title /\ new.artist = a.artist /\ new.album = a.album
              /\ new.genre = a.genre /\ new.number = a.number
          BY <1>4, <2>6
        <5> QED BY <5>1, <5>2 DEF SortFields, LetterOf
      <4> QED BY <4>1, <4>2, <4>3
    <3>2. SameFields(t, all, s)
      BY <1>11, <3>1 DEF SameFields
    <3> QED BY <1>9, <1>10, <2>2, <2>4, <3>2, SameOrder
  <2>7. SoundIndex(i, s, t)
    BY <2>2, <2>4, <2>5, <2>6 DEF SoundIndex
  <2> QED BY <2>7 DEF i
<1> QED BY <1>13 DEF HeadSound, m, t, new, tracks

\* add_track leaves sound indexes.
LEMMA AddedIndexes ==
  ASSUME NEW db, NEW file, SoundDatabase(db, file), SoundIndexes(db, file), NEW a \in AdditionRows
  PROVE  SoundIndexes(AddedTrack(db, file, a), file)
<1> DEFINE d == AddedTrack(db, file, a)
           new == NewTrack(db, file, a)
           M == MasterDatasets(db, file)
           Master(n) == MasterWith(db.datasets[n].lists[1], db.tracks, a, new.id)
           Put(n) == IF n \in M THEN [db.datasets[n] EXCEPT !.lists[1] = Master(n)] ELSE db.datasets[n]
<1>1. WellFormed(db)
  BY DEF SoundDatabase
<1>2. DOMAIN db = {"tracks", "albums", "datasets", "count", "version"}
  BY <1>1 DEF WellFormed
<1>3. d.tracks = Append(db.tracks, new)
  BY <1>2 DEF AddedTrack
<1>4. d.datasets = [n \in DOMAIN db.datasets |-> Put(n)]
  BY <1>2 DEF AddedTrack, WithMaster
<1> HIDE DEF new, d
<1>5. DOMAIN d.datasets = DOMAIN db.datasets /\ \A n \in DOMAIN db.datasets : d.datasets[n] = Put(n)
  BY <1>4
<1>6. ASSUME NEW n \in M
      PROVE  /\ n \in DOMAIN db.datasets /\ WellFormedDataset(db.datasets[n]) /\ 1 \in DOMAIN db.datasets[n].lists
             /\ WellFormedList(db.datasets[n].lists[1])
  <2>1. n \in DOMAIN db.datasets /\ 1 \in DOMAIN db.datasets[n].lists
    BY MasterItems
  <2> QED BY <1>1, <2>1, DatasetFacts
<1> HIDE DEF M, Master
<1>7. ASSUME NEW n \in DOMAIN db.datasets
      PROVE  d.datasets[n].kind = db.datasets[n].kind /\ (n \in M => d.datasets[n].lists[1] = Master(n))
  <2>1. CASE n \in M
    <3> DEFINE r == [db.datasets[n] EXCEPT !.lists[1] = Master(n)]
    <3>1. WellFormedDataset(db.datasets[n]) /\ 1 \in DOMAIN db.datasets[n].lists
      BY <1>6, <2>1
    <3>2. r.kind = db.datasets[n].kind /\ r.lists[1] = Master(n)
      BY <3>1, OneListReplaced
    <3>3. d.datasets[n] = r
      BY <1>5, <2>1
    <3> HIDE DEF r
    <3> QED BY <3>2, <3>3
  <2>2. CASE n \notin M
    BY <1>5, <2>2
  <2> QED BY <2>1, <2>2
<1>8. MasterDatasets(d, file) = M
  BY <1>5, <1>7, SameMasterSets DEF M
<1>9. ASSUME NEW n \in M PROVE HeadSound(d.datasets[n].lists[1], d.tracks)
  <2> DEFINE l == db.datasets[n].lists[1]
  <2>1. HeadSound(l, db.tracks)
    BY SoundIndexesAre DEF M
  <2>2. WellFormedList(l)
    BY <1>6
  <2> HIDE DEF l
  <2>3. HeadSound(MasterWith(l, db.tracks, a, new.id), Append(db.tracks, NewTrack(db, file, a)))
    BY <1>1, <2>1, <2>2, HeadWith
  <2>4. d.datasets[n].lists[1] = MasterWith(l, db.tracks, a, new.id)
    BY <1>6, <1>7 DEF Master, l
  <2> QED BY <1>3, <2>3, <2>4 DEF new
<1>10. SoundIndexes(d, file)
  BY <1>8, <1>9, SoundIndexesAre
<1> QED BY <1>10 DEF d

\* A queue of edits leaves the indexes of a Classic alone.
LEMMA EditedIndexes ==
  ASSUME NEW db, Openable(db, "iTunesDB"), SoundIndexes(db, "iTunesDB"),
         NEW queue, SoundEdits(queue), Editable(db, queue), \A e \in queue : e.op = "create" => e.id # PodcastId
  PROVE  SoundIndexes(EditedLists(db, queue), "iTunesDB")
<1> DEFINE tracks == db.tracks
           D == Range(db.datasets)
           Put(n) == IF db.datasets[n].kind \in {2, 3} THEN EditedDataset(db.datasets[n], queue, tracks) ELSE db.datasets[n]
           r == EditedLists(db, queue)
<1>1. SoundRecords(db) /\ SoundSet(D, tracks)
  BY ClassicOpened
<1>2. IsSeq(db.datasets) /\ tracks \in Seq(TrackRows) /\ DOMAIN db = {"tracks", "albums", "datasets", "count", "version"}
  BY <1>1 DEF SoundRecords
<1>3. QueueFits(queue, tracks)
  BY <1>2 DEF QueueFits, Editable
<1>4. \A n \in DOMAIN db.datasets : SoundDataset(db.datasets[n], tracks)
  BY <1>1, <1>2, ItsRange DEF SoundSet
<1>5. r.tracks = tracks /\ r.datasets = [n \in DOMAIN db.datasets |-> Put(n)]
  BY <1>2 DEF EditedLists, EditedDatasets
<1> HIDE DEF r, tracks, D
<1>6. DOMAIN r.datasets = DOMAIN db.datasets /\ \A n \in DOMAIN db.datasets : r.datasets[n] = Put(n)
  BY <1>5
<1>7. ASSUME NEW n \in DOMAIN db.datasets
      PROVE  /\ r.datasets[n].kind = db.datasets[n].kind
             /\ db.datasets[n].kind \in {2, 3} => r.datasets[n].lists[1] = db.datasets[n].lists[1]
  <2>1. CASE db.datasets[n].kind \in {2, 3}
    <3>1. \A e \in queue : EditApplies(db.datasets[n], e)
      BY <2>1 DEF Editable, EditedDatasets
    <3>2. r.datasets[n] = EditedDataset(db.datasets[n], queue, tracks)
      BY <1>6, <2>1
    <3> DEFINE x == db.datasets[n]
    <3>3. SoundDataset(x, tracks) /\ x.kind \in {2, 3} /\ \A e \in queue : EditApplies(x, e)
      BY <1>4, <2>1, <3>1
    <3> HIDE DEF x
    <3>4. EditedDataset(x, queue, tracks).kind = x.kind /\ EditedDataset(x, queue, tracks).lists[1] = x.lists[1]
      BY <1>3, <3>3, EditedDatasetIs
    <3> QED BY <3>2, <3>4 DEF x
  <2>2. CASE db.datasets[n].kind \notin {2, 3}
    BY <1>6, <2>2
  <2> QED BY <2>1, <2>2
<1>8. MasterDatasets(r, "iTunesDB") = MasterDatasets(db, "iTunesDB")
  BY <1>6, <1>7, SameMasterSets
<1>9. ASSUME NEW n \in MasterDatasets(db, "iTunesDB") PROVE HeadSound(r.datasets[n].lists[1], r.tracks)
  <2>1. n \in DOMAIN db.datasets /\ db.datasets[n].kind \in {2, 3}
    BY ClassicMasters
  <2>2. HeadSound(db.datasets[n].lists[1], db.tracks)
    BY SoundIndexesAre
  <2> QED BY <1>5, <1>7, <2>1, <2>2 DEF tracks
<1>10. SoundIndexes(r, "iTunesDB")
  BY <1>8, <1>9, SoundIndexesAre
<1> QED BY <1>10 DEF r

\* The masters of the datasets of a Classic have sound indexes.
HeadsSound(D, tracks) == \A d \in D : d.kind \in {2, 3} => HeadSound(d.lists[1], tracks)

\* The indexes of a Classic depend on the set of its datasets only.
LEMMA ClassicIndexes ==
  ASSUME NEW db, IsSeq(db.datasets)
  PROVE  SoundIndexes(db, "iTunesDB") <=> HeadsSound(Range(db.datasets), db.tracks)
<1>1. \A d : d \in Range(db.datasets) <=> \E n \in DOMAIN db.datasets : d = db.datasets[n]
  BY ItsRange
<1>2. SoundIndexes(db, "iTunesDB") <=>
        \A n \in DOMAIN db.datasets : db.datasets[n].kind \in {2, 3} => HeadSound(db.datasets[n].lists[1], db.tracks)
  BY SoundIndexesAre, ClassicMasters
<1> QED BY <1>1, <1>2 DEF HeadsSound

\* A universe that is copied from the other has a master with the same indexes.
LEMMA SeededHeads ==
  ASSUME NEW ds, IsSeq(ds), \A d \in Range(ds) : DOMAIN d = {"kind", "lists"}, NEW tracks, HeadsSound(Range(ds), tracks),
         NEW E, SeededFrom(ds, E)
  PROVE  HeadsSound(Range(E), tracks)
<1> DEFINE D == Range(ds)
<1>1. CASE \E k \in {2, 3} : \E o \in D : o.kind = 5 - k /\ (\A d \in D : d.kind # k) /\ E = Append(ds, Copy(o, k))
  <2>1. PICK k \in {2, 3}, o \in D : o.kind = 5 - k /\ E = Append(ds, Copy(o, k))
    BY <1>1
  <2> DEFINE c == Copy(o, k)
             S == D \cup {c}
             N == Len(ds)
  <2>2. N \in Nat /\ DOMAIN ds = 1..N /\ \A n \in 1..N : ds[n] \in D
    BY ItsRange
  <2>3. ds \in Seq(S) /\ c \in S
    <3>1. ds \in Seq(D) /\ D \subseteq S
      BY DEF IsSeq
    <3> HIDE DEF S, D
    <3>2. ds \in Seq(S)
      BY <3>1, SeqNarrow
    <3> QED BY <3>2 DEF S
  <2>4. c.lists = o.lists /\ o.kind \in {2, 3}
    BY <2>1 DEF Copy
  <2> HIDE DEF S, c, D
  <2>5. E \in Seq(S) /\ Len(E) = N + 1 /\ (\A i \in 1..N : E[i] = ds[i]) /\ E[N + 1] = c
    BY <2>1, <2>3, AppendProperties DEF c
  <2>6. DOMAIN E = 1..(N + 1)
    BY <2>5, SeqFacts
  <2> HIDE DEF N
  <2>7. ASSUME NEW i \in 1..(N + 1), E[i].kind \in {2, 3} PROVE HeadSound(E[i].lists[1], tracks)
    <3>1. i = N + 1 \/ i \in 1..N
      BY <2>2
    <3>2. CASE i \in 1..N
      <4>1. E[i] \in D
        BY <2>2, <2>5, <3>2
      <4> QED BY <2>7, <4>1 DEF HeadsSound, D
    <3>3. CASE i = N + 1
      <4>1. HeadSound(o.lists[1], tracks)
        BY <2>4 DEF HeadsSound, D
      <4> QED BY <2>4, <2>5, <3>3, <4>1
    <3> QED BY <3>1, <3>2, <3>3
  <2> QED BY <2>6, <2>7 DEF HeadsSound, Range
<1>2. CASE E = ds
  BY <1>2
<1> QED BY <1>1, <1>2 DEF SeededFrom

\* A Podcasts list is put beside the master of a dataset.
LEMMA PodcastHead ==
  ASSUME NEW d, NEW tracks, SoundDataset(d, tracks), NEW flat, NEW grouped, IsPodcast(flat), IsPodcast(grouped),
         d.kind \in {2, 3}
  PROVE  WithPodcast(d, flat, grouped).kind = d.kind /\ WithPodcast(d, flat, grouped).lists[1] = d.lists[1]
<1> DEFINE r == WithPodcast(d, flat, grouped)
           l == PodcastOf(flat, grouped, d.kind)
           lists == ReplacedPodcast(d.lists, l)
<1>1. DOMAIN d = {"kind", "lists"} /\ IsSeq(d.lists) /\ \A m \in Range(d.lists) : WellFormedList(m)
  BY DEF SoundDataset, WellFormedDataset
<1>2. 1 \in DOMAIN d.lists /\ d.lists[1].role = "master"
  BY DEF SoundDataset
<1>3. ~ IsPodcast(d.lists[1])
  BY <1>2 DEF IsPodcast
<1>4. IsPodcast(l)
  BY DEF PodcastOf
<1>5. r = [d EXCEPT !.lists = lists]
  BY DEF WithPodcast, PodcastOf
<1> HIDE DEF l, r
<1>6. lists[1] = d.lists[1]
  BY <1>1, <1>2, <1>3, <1>4, ReplacedPodcastIs
<1> HIDE DEF lists
<1>7. r.kind = d.kind /\ r.lists = lists
  BY <1>1, <1>5
<1> QED BY <1>6, <1>7 DEF r

\* sync_podcasts leaves the indexes of a Classic alone, in the universe that it
\* seeds as well.
LEMMA SyncedIndexes ==
  ASSUME NEW db, Openable(db, "iTunesDB"), SoundIndexes(db, "iTunesDB"), Syncable(db)
  PROVE  SoundIndexes(SyncedPodcasts(db), "iTunesDB")
<1> DEFINE tracks == db.tracks
           D == Range(db.datasets)
           ds == db.datasets
           E == Seeded(db).datasets
           t == PodcastTemplate(db)
           members == FlatEpisodes(db)
           flat == [t EXCEPT !.items = [n \in DOMAIN members |-> MemberItem(members[n], n - 1)]]
           grouped == [t EXCEPT !.items = GroupedItems(db, members, NextGroupId(db))]
           S == {WithPodcast(E[n], flat, grouped) : n \in DOMAIN E}
           written == [n \in DOMAIN E |-> WithPodcast(E[n], flat, grouped)]
           ordered == GroupedFirst(written)
           r == [db EXCEPT !.datasets = ordered, !.count = Declared(db, ordered)]
<1>1. SoundRecords(db) /\ SoundSet(D, tracks)
  BY ClassicOpened
<1>2. /\ IsSeq(ds) /\ DOMAIN db = {"tracks", "albums", "datasets", "count", "version"} /\ tracks \in Seq(TrackRows)
      /\ \A d \in D : SoundDataset(d, tracks)
  BY <1>1 DEF SoundRecords, SoundSet
<1>3. Len(ds) \in Nat /\ DOMAIN ds = 1..Len(ds) /\ \A d : d \in D <=> \E n \in DOMAIN ds : d = ds[n]
  BY <1>2, ItsRange
<1>4. \A d, e \in D : d.kind = e.kind /\ d.kind \in {2, 3} => d = e
  BY <1>2, OnePerKind
<1>5. SyncedPodcasts(db) = IF Episodes(db) = <<>> /\ ExistingPodcasts(db) = <<>> THEN db ELSE r
  BY DEF SyncedPodcasts, WithPodcast
<1>6. HeadsSound(D, tracks)
  BY <1>2, ClassicIndexes
<1>7. SeededFrom(ds, E)
  <2>1. Kinds(db) \cap {2, 3} # {}
    BY DEF Syncable
  <2>2. \A d \in D : DOMAIN d = {"kind", "lists"}
    BY <1>2 DEF SoundDataset, WellFormedDataset
  <2> QED BY <1>2, <2>1, <2>2, SeededIs
<1> HIDE DEF E
<1>8. /\ IsSeq(E) /\ (\A d \in Range(E) : SoundDataset(d, tracks)) /\ (\A k \in {2, 3} : \E d \in Range(E) : d.kind = k)
      /\ HeadsSound(Range(E), tracks)
  <2> HIDE DEF ds, tracks
  <2>1. /\ IsSeq(ds) /\ SoundSet(Range(ds), tracks) /\ HeadsSound(Range(ds), tracks)
        /\ \A d, e \in Range(ds) : d.kind = e.kind /\ d.kind \in {2, 3} => d = e
    BY <1>1, <1>2, <1>4, <1>6 DEF ds
  <2>2. IsSeq(E) /\ SoundSet(Range(E), tracks) /\ \A k \in {2, 3} : \E d \in Range(E) : d.kind = k
    BY <1>7, <2>1, SeededIsSound
  <2>3. \A d \in Range(ds) : DOMAIN d = {"kind", "lists"}
    BY <1>2 DEF SoundDataset, WellFormedDataset, ds
  <2>4. HeadsSound(Range(E), tracks)
    BY <1>7, <2>1, <2>3, SeededHeads
  <2> QED BY <2>2, <2>4 DEF SoundSet
<1>9. IsPodcast(flat) /\ IsPodcast(grouped)
  <2>1. DOMAIN t = {"id", "role", "name", "items", "index"} /\ t.role = "podcast"
    BY <1>1, <1>2, TemplateIs
  <2> HIDE DEF t
  <2> QED BY <2>1 DEF IsPodcast
<1> HIDE DEF t, members, flat, grouped
<1>10. \A d : d \in Range(E) <=> \E n \in DOMAIN E : d = E[n]
  BY <1>8, ItsRange
<1>11. written \in [DOMAIN E -> S] /\ \A n \in DOMAIN E : written[n] = WithPodcast(E[n], flat, grouped)
  OBVIOUS
<1> HIDE DEF written, S
<1>12. written \in Seq(S) /\ DOMAIN written = DOMAIN E /\ \A x : x \in Range(written) <=> \E n \in DOMAIN E : x = written[n]
  BY <1>8, <1>11, MappedIs
<1>13. IsSeq(written)
  BY <1>12, SeqFacts
<1>14. ASSUME NEW n \in DOMAIN E
       PROVE  /\ written[n].kind = E[n].kind
              /\ E[n].kind \in {2, 3} => written[n].lists[1] = E[n].lists[1]
  <2>1. CASE E[n].kind \in {2, 3}
    <3>1. SoundDataset(E[n], tracks)
      BY <1>8, <1>10
    <3> QED BY <1>9, <1>11, <2>1, <3>1, PodcastHead
  <2>2. CASE E[n].kind \notin {2, 3}
    BY <1>11, <2>2 DEF WithPodcast
  <2> QED BY <2>1, <2>2
<1>15. HeadsSound(Range(written), tracks)
  <2>1. ASSUME NEW x \in Range(written), x.kind \in {2, 3} PROVE HeadSound(x.lists[1], tracks)
    <3>1. PICK n \in DOMAIN E : x = written[n]
      BY <1>12
    <3>2. E[n].kind \in {2, 3} /\ x.lists[1] = E[n].lists[1]
      BY <1>14, <2>1, <3>1
    <3>3. E[n] \in Range(E)
      BY <1>10
    <3> QED BY <1>8, <3>2, <3>3 DEF HeadsSound
  <2> QED BY <2>1 DEF HeadsSound
<1>16. ASSUME NEW k \in {2, 3} PROVE \E n \in DOMAIN written : written[n].kind = k
  <2>1. PICK d \in Range(E) : d.kind = k
    BY <1>8
  <2>2. PICK n \in DOMAIN E : d = E[n]
    BY <1>10
  <2> QED BY <1>12, <1>14, <2>1, <2>2
<1>17. IsSeq(ordered) /\ \A x : x \in Range(ordered) <=> x \in Range(written)
  BY <1>13, <1>16, GroupedFirstIs
<1> HIDE DEF ordered
<1>18. HeadsSound(Range(ordered), tracks)
  BY <1>15, <1>17 DEF HeadsSound
<1>19. r.tracks = tracks /\ r.datasets = ordered
  BY <1>2
<1> HIDE DEF r
<1>20. SoundIndexes(r, "iTunesDB")
  BY <1>17, <1>18, <1>19, ClassicIndexes
<1> QED BY <1>5, <1>20

\* The indexes on the device and of the database being staged are sound.
IndexInv == SoundIndexes(installed, container) /\ SoundIndexes(work, container)

\* The indexes of the masters stay sound.
LEMMA IndexStep == BInv /\ IndexInv /\ [Next]_vars => IndexInv'
<1>1. SUFFICES ASSUME BInv, IndexInv, [Next]_vars PROVE IndexInv'
  OBVIOUS
<1>2. Typed /\ Openable(installed, container) /\ Openable(work, container)
  BY <1>1 DEF BInv, Sound
<1>3. SoundIndexes(installed, container) /\ SoundIndexes(work, container)
  BY <1>1 DEF IndexInv
<1>4. SoundDatabase(installed, container) /\ SoundDatabase(work, container)
  BY <1>2 DEF Openable
<1>5. ASSUME NEW reason, Refuse(reason) PROVE IndexInv'
  BY <1>3, <1>5 DEF Refuse, unstaged, IndexInv
<1>6. ASSUME NEW to, Continue(to), SoundIndexes(work', container) PROVE IndexInv'
  BY <1>3, <1>6 DEF Continue, unstaged, IndexInv
<1>7. CASE Begin
  BY <1>3, <1>7 DEF Begin, IndexInv
<1>8. CASE RemoveTracks
  <2>1. CASE \E reason : Refuse(reason)
    BY <1>5, <2>1
  <2>2. CASE ~ \E reason : Refuse(reason)
    <3>1. Continue("add") /\ (work' = work \/ work' = RemovedTracks(work, request.removals))
      BY <1>8, <2>2 DEF RemoveTracks
    <3>2. SoundIndexes(RemovedTracks(work, request.removals), container)
      BY <1>3, <1>4, RemovedIndexes
    <3>3. SoundIndexes(work', container)
      BY <1>3, <3>1, <3>2
    <3> QED BY <1>6, <3>1, <3>3
  <2> QED BY <2>1, <2>2
<1>9. CASE AddTrack
  <2> DEFINE a == request.additions[added + 1]
             base == AdditionBase
             N == Len(request.additions)
  <2>1. CASE added = N
    <3>1. Continue("playlists") /\ work' = work
      BY <1>9, <2>1 DEF AddTrack
    <3>2. SoundIndexes(work', container)
      BY <1>3, <3>1
    <3> QED BY <1>6, <3>1, <3>2
  <2>2. CASE added # N /\ ~ Addable(base, container, a)
    <3>1. Refuse("addition")
      BY <1>9, <2>2 DEF AddTrack
    <3> QED BY <1>5, <3>1
  <2>3. CASE added # N /\ Addable(base, container, a)
    <3>1. Continue("add") /\ work' = AddedTrack(base, container, a)
      BY <1>9, <2>3 DEF AddTrack
    <3>2. request.additions \in Seq(AdditionRows) /\ added \in 0..N
      BY <1>2 DEF Typed
    <3>3. added + 1 \in 1..N
      BY <2>3, <3>2, LenProperties
    <3>4. a \in AdditionRows
      BY <3>2, <3>3, ElementOfSeq
    <3>5. SoundDatabase(base, container) /\ SoundIndexes(base, container)
      BY <1>3, <1>4 DEF AdditionBase
    <3> HIDE DEF a, base
    <3>6. SoundIndexes(AddedTrack(base, container, a), container)
      BY <3>4, <3>5, AddedIndexes
    <3>7. SoundIndexes(work', container)
      BY <3>1, <3>6
    <3> QED BY <1>6, <3>1, <3>7
  <2> QED BY <2>1, <2>2, <2>3
<1>10. CASE EditPlaylists
  <2> DEFINE queue == request.playlists
  <2>1. CASE queue = {}
    <3>1. Continue("podcasts") /\ work' = work
      BY <1>10, <2>1 DEF EditPlaylists
    <3>2. SoundIndexes(work', container)
      BY <1>3, <3>1
    <3> QED BY <1>6, <3>1, <3>2
  <2>2. CASE \E reason : Refuse(reason)
    BY <1>5, <2>2
  <2>3. CASE queue # {} /\ ~ \E reason : Refuse(reason)
    <3>1. Continue("podcasts") /\ work' = EditedLists(work, queue) /\ Editable(work, queue)
      BY <1>10, <2>3 DEF EditPlaylists
    <3>2. Queueing(queue) /\ container = "iTunesDB"
      BY <1>2, <2>3 DEF Typed, Classic
    <3> HIDE DEF queue
    <3>3. SoundEdits(queue) /\ \A e \in queue : e.op = "create" => e.id # PodcastId
      BY <3>2 DEF Queueing
    <3>4. Openable(work, "iTunesDB") /\ SoundIndexes(work, "iTunesDB")
      BY <1>2, <1>3, <3>2
    <3>5. SoundIndexes(EditedLists(work, queue), "iTunesDB")
      BY <3>1, <3>3, <3>4, EditedIndexes
    <3>6. SoundIndexes(work', container)
      BY <3>1, <3>2, <3>5
    <3> QED BY <1>6, <3>1, <3>6
  <2> QED BY <2>1, <2>2, <2>3
<1>11. CASE SyncPodcasts
  <2>1. CASE ~(Classic /\ podcasts /\ EpisodesChanged)
    <3>1. Continue("verify") /\ work' = work
      BY <1>11, <2>1 DEF SyncPodcasts
    <3>2. SoundIndexes(work', container)
      BY <1>3, <3>1
    <3> QED BY <1>6, <3>1, <3>2
  <2>2. CASE \E reason : Refuse(reason)
    BY <1>5, <2>2
  <2>3. CASE Classic /\ podcasts /\ EpisodesChanged /\ ~ \E reason : Refuse(reason)
    <3>1. Continue("verify") /\ work' = SyncedPodcasts(work) /\ Syncable(work) /\ container = "iTunesDB"
      BY <1>11, <2>3 DEF SyncPodcasts, Classic
    <3>2. Openable(work, "iTunesDB") /\ SoundIndexes(work, "iTunesDB")
      BY <1>2, <1>3, <3>1
    <3>3. SoundIndexes(SyncedPodcasts(work), "iTunesDB")
      BY <3>1, <3>2, SyncedIndexes
    <3>4. SoundIndexes(work', container)
      BY <3>1, <3>3
    <3> QED BY <1>6, <3>1, <3>4
  <2> QED BY <2>1, <2>2, <2>3
<1>12. CASE Verify
  <2>1. CASE \E reason : Refuse(reason)
    BY <1>5, <2>1
  <2>2. CASE ~ \E reason : Refuse(reason)
    <3>1. Continue("staged") /\ work' = work
      BY <1>12, <2>2 DEF Verify
    <3>2. SoundIndexes(work', container)
      BY <1>3, <3>1
    <3> QED BY <1>6, <3>1, <3>2
  <2> QED BY <2>1, <2>2
<1>13. CASE Install
  BY <1>3, <1>13 DEF Install, IndexInv
<1>14. CASE UNCHANGED vars
  BY <1>3, <1>14 DEF vars, IndexInv
<1> QED BY <1>1, <1>7, <1>8, <1>9, <1>10, <1>11, <1>12, <1>13, <1>14 DEF Next

\* Every database that is installed, and every one a pass leaves, has indexes
\* that are whole, and in order as long as every field is stored.
THEOREM IndexInvariance == Spec => []IndexInv
<1>1. Init => IndexInv
  BY IndexesAssumption DEF Init, IndexInv
<1> QED BY <1>1, IndexStep, BinaryInvariance, PTL DEF Spec

\* Slot arithmetic never loses or repeats a track: each index of a master lists
\* every position once, and its jump table divides the slots without gap.
THEOREM IndexesStayWhole == Spec => []IndexesWhole
<1>1. IndexInv => IndexesWhole
  BY DEF IndexInv, SoundIndexes, IndexesWhole, Tracks
<1> QED BY <1>1, IndexInvariance, PTL

\* An index that removals maintain by arithmetic is the stable sort that an
\* addition would build, and its jump table has the letters of its tracks, as
\* long as every field an addition had is stored.
THEOREM IndexesStaySorted == Spec => []IndexesSortedIfStored
<1>1. IndexInv => IndexesSortedIfStored
  BY DEF IndexInv, SoundIndexes, IndexesSortedIfStored, IndexesSorted, Tracks
<1> QED BY <1>1, IndexInvariance, PTL
=============================================================================
