---------------------------- MODULE BinaryPodcasts ----------------------------
(* The special Podcasts list of a Classic (storage/binary/classic_edit/         *)
(* podcasts.rs): flat in dataset 2, grouped by show in dataset 3.               *)
EXTENDS BinaryTables

CONSTANT PodcastId   \* the id drawn for a Podcasts list that is new

Episodes(db) == Selected(db.tracks, {n \in DOMAIN db.tracks : db.tracks[n].kind = "podcast"})
EpisodeIds(db) == {t.id : t \in Range(Episodes(db))}
ShowOf(db, id) == (CHOOSE t \in Range(db.tracks) : t.id = id).album

IsPodcast(list) == list.role = "podcast"
Podcasts(lists) == Selected(lists, {n \in DOMAIN lists : IsPodcast(lists[n])})
PodcastLists(db, kind) == Podcasts(OfKind(db, kind))

\* The list the library shows: dataset 2 first.
ExistingPodcasts(db) == Podcasts(ReadLists(db))

\* Mutant of Declared: the header keeps its number of datasets.
DeclaredBefore(db, datasets) == db.count

\* finalize patches the header with the number of datasets there are now.
Declared(db, datasets) == Len(datasets) + 2

\* A library may lack dataset 3, or 2: it is seeded from the other.
SeededWith(datasets, kind) ==
  LET others == {n \in DOMAIN datasets : datasets[n].kind = 5 - kind}
  IN  IF \E n \in DOMAIN datasets : datasets[n].kind = kind THEN datasets
      ELSE Append(datasets, [datasets[Min(others)] EXCEPT !.kind = kind])

Seeded(db) == [db EXCEPT !.datasets = SeededWith(SeededWith(@, 2), 3)]

Syncable(db) ==
  /\ Splits(db)
  /\ Kinds(db) \cap {2, 3} # {}
  /\ \A k \in {2, 3} : Cardinality({n \in DOMAIN db.datasets : db.datasets[n].kind = k}) <= 1
  /\ \A k \in {2, 3} : Len(PodcastLists(Seeded(db), k)) <= 1
  /\ \A l, m \in Range(PodcastLists(db, 2) \o PodcastLists(db, 3)) : l.id = m.id

Firsts(s) ==
  Selected(s, {n \in DOMAIN s : \A m \in 1..(n - 1) : s[m] # s[n]})

\* The episodes the list had, in its order, then the others in track order.
FlatEpisodes(db) ==
  LET existing == ExistingPodcasts(db)
      members  == IF existing = <<>> THEN <<>> ELSE MemberIds(existing[1])
      listed   == Firsts(Selected(members, {n \in DOMAIN members : members[n] \in EpisodeIds(db)}))
      episodes == Episodes(db)
      others   == Selected(episodes, {n \in DOMAIN episodes : episodes[n].id \notin Range(listed)})
  IN  listed \o [n \in DOMAIN others |-> others[n].id]

NextGroupId(db) ==
  1 + MaxOf({i.gid : i \in UNION {Range(l.items) : l \in Range(OfKind(db, 2) \o OfKind(db, 3))}})

Header(gid) == [track |-> 0, position |-> NoPosition, gid |-> gid, group |-> 0]
Episode(id, gid, group) == [track |-> id, position |-> gid, gid |-> gid, group |-> group]

Shows(db, members) == Firsts([n \in DOMAIN members |-> ShowOf(db, members[n])])
OfShow(db, members, show) == Selected(members, {n \in DOMAIN members : ShowOf(db, members[n]) = show})

\* The number of the header of the k-th show.
HeadOf(db, members, first, k) ==
  FoldLeftDomain(LAMBDA sum, j : IF j < k THEN sum + 1 + Len(OfShow(db, members, Shows(db, members)[j])) ELSE sum,
                 first, Shows(db, members))

\* A header and its episodes for each show, numbered through from first.
GroupedItems(db, members, first) ==
  LET shows == Shows(db, members)
      of(k) == OfShow(db, members, shows[k])
      gid(k, n) == HeadOf(db, members, first, k) + n
  IN  FlattenSeq([k \in DOMAIN shows |->
        <<Header(gid(k, 0))>> \o [n \in DOMAIN of(k) |-> Episode(of(k)[n], gid(k, n), gid(k, 0))]])

ReplacedPodcast(lists, list) ==
  IF \E n \in DOMAIN lists : IsPodcast(lists[n])
  THEN [n \in DOMAIN lists |-> IF IsPodcast(lists[n]) THEN list ELSE lists[n]]
  ELSE Append(lists, list)

PodcastTemplate(db) ==
  LET lists == PodcastLists(db, 2) \o PodcastLists(db, 3)
  IN  IF lists # <<>> THEN lists[1]
      ELSE [id |-> PodcastId, role |-> "podcast", name |-> "Podcasts", items |-> <<>>, index |-> <<>>]

\* The grouped dataset comes before the flat one.
GroupedFirst(datasets) ==
  LET at(k) == CHOOSE n \in DOMAIN datasets : datasets[n].kind = k
  IN  IF at(3) < at(2) THEN datasets
      ELSE InsertAt(RemoveAt(datasets, at(3)), at(2), datasets[at(3)])

SyncedPodcasts(db) ==
  LET seeded   == Seeded(db)
      template == PodcastTemplate(db)
      members  == FlatEpisodes(db)
      flat     == [template EXCEPT !.items = [n \in DOMAIN members |-> MemberItem(members[n], n - 1)]]
      grouped  == [template EXCEPT !.items = GroupedItems(db, members, NextGroupId(db))]
      written  == [n \in DOMAIN seeded.datasets |->
                     LET d == seeded.datasets[n]
                     IN  CASE d.kind = 2 -> [d EXCEPT !.lists = ReplacedPodcast(@, flat)]
                           [] d.kind = 3 -> [d EXCEPT !.lists = ReplacedPodcast(@, grouped)]
                           [] OTHER -> d]
      ordered  == GroupedFirst(written)
  IN  IF Episodes(db) = <<>> /\ ExistingPodcasts(db) = <<>> THEN db
      ELSE [db EXCEPT !.datasets = ordered, !.count = Declared(db, ordered)]
==============================================================================
