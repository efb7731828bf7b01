----------------------------- MODULE BinaryTables -----------------------------
(* The records of a binary database (iTunesDB, or the payload of iTunesCDB)     *)
(* and the rewrites of storage/binary.  A database is                           *)
(*   tracks   : the mhit records of dataset 1, in order                         *)
(*   albums   : the mhia records of dataset 4                                   *)
(*   datasets : the playlist datasets in file order, [kind |-> 2, 3 or 5, lists] *)
(*   count    : the number of datasets the header declares                      *)
(*   version  : the database version of the header                              *)
(* A list has items (mhip) and, the master, an index for each sort order: the   *)
(* type-52 slots, positions of dataset 1 from 0, and the type-53 jump table.    *)
EXTENDS Selection, SequencesExt, FiniteSetsExt, TLC

CONSTANTS SortKey,    \* name |-> rank of sort_key(name)
          Letter,     \* name |-> jump_letter(name)
          NoName      \* the empty string

Names == DOMAIN SortKey

ASSUME NamesAssumption == SortKey \in [Names -> Nat] /\ Names \subseteq DOMAIN Letter /\ NoName \in Names

NoPosition == -1
MaxOf(S) == Max(S \cup {0})
Positions(tracks) == 0..(Len(tracks) - 1)
TrackIds(tracks) == {t.id : t \in Range(tracks)}
Pids(tracks) == {t.pid : t \in Range(tracks)}

------------------------------------------------------------------------------
\* Indexes

SortFields(t, sort) ==
  CASE sort = "title" -> <<SortKey[t.title]>>
    [] sort = "album" -> <<SortKey[t.album], t.number, SortKey[t.title]>>
    [] sort = "genre" -> <<SortKey[t.genre], SortKey[t.artist], SortKey[t.album], t.number, SortKey[t.title]>>

Precedes(a, b) == \E n \in DOMAIN a : a[n] < b[n] /\ \A m \in 1..(n - 1) : a[m] = b[m]

\* A stable sort of the track positions: each is where the number of those
\* before it says.
SortedIndex(tracks, sort) ==
  LET key(p)   == SortFields(tracks[p + 1], sort)
      place(p) == Cardinality({q \in Positions(tracks) : Precedes(key(q), key(p)) \/ (key(q) = key(p) /\ q < p)})
  IN  [n \in DOMAIN tracks |-> CHOOSE p \in Positions(tracks) : place(p) = n - 1]

LetterOf(t, sort) == Letter[CASE sort = "title" -> t.title [] sort = "album" -> t.album [] sort = "genre" -> t.genre]

\* One entry for each run of a letter in the sorted order.
JumpTable(letters) ==
  LET starts == Selected([n \in DOMAIN letters |-> n], {n \in DOMAIN letters : n = 1 \/ letters[n] # letters[n - 1]})
      After(k) == IF k = Len(starts) THEN Len(letters) + 1 ELSE starts[k + 1]
  IN  [k \in DOMAIN starts |-> [letter |-> letters[starts[k]], start |-> starts[k] - 1, count |-> After(k) - starts[k]]]

RebuiltIndex(tracks, sort) ==
  LET slots == SortedIndex(tracks, sort)
  IN  [slots |-> slots,
       jumps |-> JumpTable([n \in DOMAIN slots |-> LetterOf(tracks[slots[n] + 1], sort)])]

Below(S, n) == Cardinality({m \in S : m < n})

RemovedSlots(slots, gone) ==
  LET kept == Selected(slots, {n \in DOMAIN slots : slots[n] \notin gone})
  IN  [n \in DOMAIN kept |-> kept[n] - Below(gone, kept[n])]

\* The slots of the index, from 0, that the removal takes out.
GoneSlots(slots, gone) == {n - 1 : n \in {m \in DOMAIN slots : slots[m] \in gone}}

\* Mutant of RemovedJumps: an entry counts what is left, and starts where it did.
RemovedJumpsUnshifted(jumps, goneSlots) ==
  LET inside(e) == {n \in goneSlots : n >= e.start /\ n < e.start + e.count}
      shorter   == [k \in DOMAIN jumps |-> [jumps[k] EXCEPT !.count = @ - Cardinality(inside(jumps[k]))]]
  IN  Selected(shorter, {k \in DOMAIN shorter : shorter[k].count > 0})

RemovedJumps(jumps, goneSlots) ==
  LET inside(e) == {n \in goneSlots : n >= e.start /\ n < e.start + e.count}
      shorter   == [k \in DOMAIN jumps |->
                      [jumps[k] EXCEPT !.start = @ - Below(goneSlots, @), !.count = @ - Cardinality(inside(jumps[k]))]]
  IN  Selected(shorter, {k \in DOMAIN shorter : shorter[k].count > 0})

------------------------------------------------------------------------------
\* Removal

MemberItem(id, position) == [track |-> id, position |-> position, gid |-> 0, group |-> 0]

\* Mutant of Renumbered: what is left keeps its position.
RenumberedNot(items, gone) ==
  Selected(items, DOMAIN items \ gone)

\* Positions count the removed items of the same list that came before.
Renumbered(items, gone) ==
  LET before(n) == Cardinality({m \in gone : items[m].position # NoPosition /\ items[m].position < items[n].position})
      moved     == [n \in DOMAIN items |->
                      IF items[n].position = NoPosition THEN items[n] ELSE [items[n] EXCEPT !.position = @ - before(n)]]
  IN  Selected(moved, DOMAIN items \ gone)

\* ids and gone are the track ids and the positions of the removed tracks.
RemovedFromList(list, ids, gone) ==
  [list EXCEPT
     !.items = Renumbered(@, {n \in DOMAIN @ : list.items[n].track \in ids}),
     !.index = [s \in DOMAIN @ |->
                  [slots |-> RemovedSlots(list.index[s].slots, gone),
                   jumps |-> RemovedJumps(list.index[s].jumps, GoneSlots(list.index[s].slots, gone))]]]

\* split_datasets compares the datasets it finds with the header.
Splits(db) == db.count = Len(db.datasets) + 2

Removable(db, pids) ==
  /\ Splits(db)
  /\ \A p \in pids : Cardinality({n \in DOMAIN db.tracks : db.tracks[n].pid = p}) = 1

\* Mutant of RemovedFromDataset: the smart lists of dataset 5 are forgotten.
RemovedFromUniverse(dataset, ids, gone) ==
  IF dataset.kind = 5 THEN dataset
  ELSE [dataset EXCEPT !.lists = [n \in DOMAIN @ |-> RemovedFromList(dataset.lists[n], ids, gone)]]

RemovedFromDataset(dataset, ids, gone) ==
  [dataset EXCEPT !.lists = [n \in DOMAIN @ |-> RemovedFromList(dataset.lists[n], ids, gone)]]

RemovedTracks(db, pids) ==
  LET gone == {n - 1 : n \in {m \in DOMAIN db.tracks : db.tracks[m].pid \in pids}}
      ids  == {db.tracks[p + 1].id : p \in gone}
  IN  [db EXCEPT
         !.tracks   = Selected(@, {n \in DOMAIN @ : @[n].pid \notin pids}),
         !.datasets = [n \in DOMAIN @ |-> RemovedFromDataset(db.datasets[n], ids, gone)]]

------------------------------------------------------------------------------
\* Addition: a is one of the AdditionRows

\* The string fields of a record, and those the modelled indexes sort by.
SortedFields == {"title", "artist", "album", "genre"}
FieldNames == SortedFields \cup {"albumArtist"}
MediaKinds == {"song", "podcast"}

\* given: the optional tags the caller has set, perhaps to the empty string.
AdditionRows ==
  {a \in [pid : Nat, title : Names, artist : Names, album : Names, genre : Names, albumArtist : Names,
          given : SUBSET {"genre", "albumArtist"}, number : Nat, kind : MediaKinds] :
     a.genre # NoName => "genre" \in a.given}


\* The artist of an addition's album: its album artist, or else its artist.
AlbumArtist(a) == IF "albumArtist" \in a.given THEN a.albumArtist ELSE a.artist

FoundAlbums(albums, name, artist) ==
  LET exact == {n \in DOMAIN albums : albums[n].name = name /\ albums[n].artist = artist}
      bare  == {n \in DOMAIN albums : albums[n].name = name /\ albums[n].artist = NoName}
      any   == {n \in DOMAIN albums : albums[n].name = name}
  IN  IF artist = NoName THEN (IF bare # {} THEN bare ELSE any)
      ELSE IF exact # {} THEN exact ELSE bare

\* The album of an addition, found or next after the highest id.
AlbumIdFor(albums, a) ==
  LET found == FoundAlbums(albums, a.album, AlbumArtist(a))
  IN  IF found # {} THEN albums[Min(found)].id ELSE MaxOf({r.id : r \in Range(albums)}) + 1

\* Mutant of AlbumsWith: a new album is by the artist of its first track.
AlbumsWithTrackArtist(albums, a) ==
  IF FoundAlbums(albums, a.album, AlbumArtist(a)) # {} THEN albums
  ELSE Append(albums, [id |-> AlbumIdFor(albums, a), name |-> a.album, artist |-> a.artist])

AlbumsWith(albums, a) ==
  IF FoundAlbums(albums, a.album, AlbumArtist(a)) # {} THEN albums
  ELSE Append(albums, [id |-> AlbumIdFor(albums, a), name |-> a.album, artist |-> AlbumArtist(a)])

ArtistRefFor(tracks, a) ==
  LET same == {n \in DOMAIN tracks : a.artist # NoName /\ tracks[n].artist = a.artist}
  IN  IF same # {} THEN tracks[Min(same)].ref ELSE MaxOf({t.ref : t \in Range(tracks)}) + 1

\* The string fields a new record is given: those some track has already.
TrackProfile(tracks) ==
  IF tracks = <<>> THEN FieldNames
  ELSE UNION {t.fields : t \in Range(tracks)}

\* The header of a first record, by the version of the database.
FirstHeader(version) ==
  CASE version <= 18 -> 156
    [] version \in 19..25 -> 328
    [] version \in 26..45 -> 504
    [] OTHER -> 624

\* A record has the header of the first one; in a companion always the longest.
HeaderSize(db, container) ==
  IF container = "iTunesCDB" THEN 624
  ELSE IF db.tracks # <<>> THEN db.tracks[1].header ELSE FirstHeader(db.version)

\* The headers that have room for a media type, an album id, an artist reference.
KindRoom == 212
AlbumRoom == 292
RefRoom == 484

\* build_mhit: a field outside the profile is not written, a genre that is not
\* given neither.  What the header has no room for is dropped, and read as 0.
NewTrack(db, container, a) ==
  LET profile == TrackProfile(db.tracks)
      written == {f \in profile : f # "genre" \/ "genre" \in a.given}
      size    == HeaderSize(db, container)
      text(f, value) == IF f \in written THEN value ELSE NoName
  IN  [pid |-> a.pid, id |-> MaxOf(TrackIds(db.tracks)) + 1, fields |-> written,
       title |-> text("title", a.title), artist |-> text("artist", a.artist),
       album |-> text("album", a.album), genre |-> text("genre", a.genre),
       albumArtist |-> text("albumArtist", AlbumArtist(a)),
       number |-> a.number, header |-> size,
       kind |-> IF size >= KindRoom THEN a.kind ELSE "song",
       albumId |-> IF size >= AlbumRoom THEN AlbumIdFor(db.albums, a) ELSE 0,
       ref |-> IF size >= RefRoom THEN ArtistRefFor(db.tracks, a) ELSE 0]

\* Mutant of MasterWith: the master is extended where it ends.
MasterWithAppended(list, tracks, a, id) ==
  [list EXCEPT !.items = Append(@, MemberItem(id, Len(@))),
               !.index = [s \in DOMAIN @ |-> [slots |-> Append(list.index[s].slots, Len(tracks)), jumps |-> list.index[s].jumps]]]

\* rewrite_master_playlist: every track in the order of dataset 1, the new one
\* last, and every index rebuilt, with the fields as they were asked for.
MasterWith(list, tracks, a, id) ==
  LET all == Append(tracks, a)
      ids == Append([n \in DOMAIN tracks |-> tracks[n].id], id)
  IN  [list EXCEPT !.items = [n \in DOMAIN ids |-> MemberItem(ids[n], n - 1)],
                   !.index = [s \in DOMAIN @ |-> RebuiltIndex(all, s)]]

WithMaster(dataset, tracks, a, id) == [dataset EXCEPT !.lists[1] = MasterWith(@, tracks, a, id)]

Kinds(db) == {db.datasets[n].kind : n \in DOMAIN db.datasets}

\* The datasets whose master gets the addition: both of a Classic, one of a Nano.
MasterDatasets(db, container) ==
  LET of(k) == {n \in DOMAIN db.datasets : db.datasets[n].kind = k}
  IN  IF container = "iTunesDB" THEN of(2) \cup of(3)
      ELSE IF of(2) # {} THEN {Min(of(2))} ELSE IF of(3) # {} THEN {Min(of(3))} ELSE {}

\* An episode writes byte 178 of its record unchecked: there the call panics.
EpisodeFits(db, container, a) == a.kind = "podcast" => HeaderSize(db, container) > 178

Addable(db, container, a) ==
  /\ Splits(db) /\ EpisodeFits(db, container, a)
  /\ a.pid \notin Pids(db.tracks)
  /\ MasterDatasets(db, container) # {}
  /\ \A n \in MasterDatasets(db, container) : db.datasets[n].lists # <<>>

AddedTrack(db, container, a) ==
  LET new == NewTrack(db, container, a)
  IN  [db EXCEPT
         !.tracks   = Append(@, new),
         !.albums   = AlbumsWith(@, a),
         !.datasets = [n \in DOMAIN @ |-> IF n \in MasterDatasets(db, container)
                                         THEN WithMaster(@[n], db.tracks, a, new.id) ELSE @[n]]]

------------------------------------------------------------------------------
\* What the crate reads back: the tracks, the lists of dataset 2, and a podcast
\* list that only dataset 3 has.  Group headers and unknown ids are not members.

OfKind(db, kind) == FlattenSeq([n \in DOMAIN db.datasets |-> IF db.datasets[n].kind = kind THEN db.datasets[n].lists ELSE <<>>])

MemberIds(list) ==
  LET ids == [n \in DOMAIN list.items |-> list.items[n].track]
  IN  Selected(ids, {n \in DOMAIN ids : ids[n] # 0})

ReadList(list, tracks) ==
  LET ids   == MemberIds(list)
      known == Selected(ids, {n \in DOMAIN ids : ids[n] \in TrackIds(tracks)})
      pidOf(id) == (CHOOSE t \in Range(tracks) : t.id = id).pid
  IN  [id |-> list.id, name |-> list.name, role |-> list.role, members |-> [n \in DOMAIN known |-> pidOf(known[n])]]

ReadLists(db) ==
  LET flat  == OfKind(db, 2)
      other == OfKind(db, 3)
      only(l) == l.role = "podcast" /\ \A f \in Range(flat) : f.id # l.id
  IN  flat \o Selected(other, {n \in DOMAIN other : only(other[n])})

ReadLibrary(db) ==
  [tracks |-> [p \in Pids(db.tracks) |-> (CHOOSE t \in Range(db.tracks) : t.pid = p).kind],
   lists  |-> LET lists == ReadLists(db) IN [n \in DOMAIN lists |-> ReadList(lists[n], db.tracks)]]

------------------------------------------------------------------------------
\* Playlist edits: e is [id, op, name, members], op "create", "rename", "update" or "delete".

Items(pids, tracks) ==
  [n \in DOMAIN pids |-> MemberItem((CHOOSE t \in Range(tracks) : t.pid = pids[n]).id, n - 1)]

Targets(dataset, e) == {n \in DOMAIN dataset.lists : dataset.lists[n].id = e.id}

\* Master, hidden, podcast and smart lists cannot be edited.
EditApplies(dataset, e) ==
  IF e.op = "create" THEN Targets(dataset, e) = {} /\ \E l \in Range(dataset.lists) : l.role # "smart"
  ELSE Targets(dataset, e) # {} /\ \A n \in Targets(dataset, e) : dataset.lists[n].role = "list"

\* Mutant of EditedDatasets: the grouped lists of dataset 3 are left alone.
EditedDatasetsFlat == {2}

\* The kinds of dataset a playlist edit rewrites.
EditedDatasets == {2, 3}

Editable(db, edits) ==
  /\ Splits(db)
  /\ \A e \in edits : e.op \in {"create", "update"} => Range(e.members) \subseteq Pids(db.tracks)
  /\ EditedDatasets \cap Kinds(db) # {}
  /\ \A n \in DOMAIN db.datasets : db.datasets[n].kind \in EditedDatasets =>
       \A e \in edits : EditApplies(db.datasets[n], e)

CreatedList(e, tracks) ==
  [id |-> e.id, role |-> "list", name |-> e.name, items |-> Items(e.members, tracks), index |-> <<>>]

EditedList(list, edits, tracks) ==
  LET of(op) == {e \in edits : e.id = list.id /\ e.op = op}
  IN  IF of("rename") # {} THEN [list EXCEPT !.name = (CHOOSE e \in of("rename") : TRUE).name]
      ELSE IF of("update") # {} THEN [list EXCEPT !.items = Items((CHOOSE e \in of("update") : TRUE).members, tracks)]
      ELSE list

\* The playlists that are created, in the order of their ids.
Creations(edits) ==
  LET new == {e \in edits : e.op = "create"}
  IN  [n \in 1..Cardinality(new) |-> CHOOSE e \in new : Cardinality({f \in new : f.id < e.id}) = n - 1]

EditedDataset(dataset, edits, tracks) ==
  LET deleted == {e.id : e \in {x \in edits : x.op = "delete"}}
      kept    == Selected(dataset.lists, {n \in DOMAIN dataset.lists : dataset.lists[n].id \notin deleted})
      created == Creations(edits)
  IN  [dataset EXCEPT !.lists = [n \in DOMAIN kept |-> EditedList(kept[n], edits, tracks)]
                                \o [n \in DOMAIN created |-> CreatedList(created[n], tracks)]]

EditedLists(db, edits) ==
  [db EXCEPT !.datasets = [n \in DOMAIN @ |-> IF @[n].kind \in EditedDatasets
                                              THEN EditedDataset(@[n], edits, db.tracks) ELSE @[n]]]

------------------------------------------------------------------------------
(* A sound database, which an edit finds and has to leave *)

\* A record has a title (and a location, so build_mhit finds two fields to write).
TrackRows ==
  {t \in [pid : Nat, id : Nat \ {0}, fields : SUBSET FieldNames, title : Names, artist : Names,
          album : Names, genre : Names, albumArtist : Names, number : Nat, header : Nat,
          kind : MediaKinds, albumId : Nat, ref : Nat] :
     "title" \in t.fields /\ (t.artist # NoName => "artist" \in t.fields)}
AlbumRows == [id : Nat, name : Names, artist : Names]

IsSeq(s) == s \in Seq(Range(s))

WellFormedList(l) ==
  /\ DOMAIN l = {"id", "role", "name", "items", "index"}
  /\ l.role \in {"master", "list", "podcast", "smart"}
  /\ IsSeq(l.items) /\ \A n \in DOMAIN l.items : DOMAIN l.items[n] = {"track", "position", "gid", "group"}

WellFormedDataset(d) ==
  /\ DOMAIN d = {"kind", "lists"} /\ d.kind \in {2, 3, 5}
  /\ IsSeq(d.lists) /\ \A l \in Range(d.lists) : WellFormedList(l)

WellFormed(db) ==
  /\ DOMAIN db = {"tracks", "albums", "datasets", "count", "version"} /\ db.version \in Nat
  /\ db.tracks \in Seq(TrackRows) /\ db.albums \in Seq(AlbumRows)
  /\ IsSeq(db.datasets) /\ \A d \in Range(db.datasets) : WellFormedDataset(d)

\* The playlist universes, one list after the other.
Universe(db, kinds) == UNION {Range(d.lists) : d \in {x \in Range(db.datasets) : x.kind \in kinds}}

\* The master lists that hold the whole library: in a companion only one does.
Masters(db, container) == {db.datasets[n].lists[1] : n \in MasterDatasets(db, container)}

\* A master has every track in the order of dataset 1, at its position.
MastersWhole(db, container) ==
  \A m \in Masters(db, container) :
    m.items = [n \in DOMAIN db.tracks |-> MemberItem(db.tracks[n].id, n - 1)]

\* An index and its jump table.
Sorts == {"title", "album", "genre"}
EndOf(e) == e.start + e.count
Covers(e) == e.start..(EndOf(e) - 1)

IndexRecord(i) ==
  /\ DOMAIN i = {"slots", "jumps"} /\ IsSeq(i.slots) /\ IsSeq(i.jumps)
  /\ \A k \in DOMAIN i.jumps : /\ DOMAIN i.jumps[k] = {"letter", "start", "count"}
                               /\ i.jumps[k].start \in Nat /\ i.jumps[k].count \in Nat

\* The entries follow each other without gap, from 0 to n, and none is empty.
Divide(jumps, n) ==
  /\ \A k \in DOMAIN jumps : /\ jumps[k].count > 0
                             /\ jumps[k].start = IF k = 1 THEN 0 ELSE EndOf(jumps[k - 1])
  /\ n = IF jumps = <<>> THEN 0 ELSE EndOf(jumps[Len(jumps)])

\* An index lists each position once, and its jump table divides the slots.
WholeIndex(i, tracks) ==
  /\ Range(i.slots) = Positions(tracks) /\ \A m, n \in DOMAIN i.slots : i.slots[m] = i.slots[n] => m = n
  /\ Divide(i.jumps, Len(i.slots))

\* An index is the stable sort of the tracks by the fields they are stored with,
\* and an entry of the jump table has the letter of each of its tracks.
InOrder(i, tracks, sort) ==
  /\ i.slots = SortedIndex(tracks, sort)
  /\ \A e \in Range(i.jumps) : \A n \in Covers(e) : LetterOf(tracks[i.slots[n + 1] + 1], sort) = e.letter

\* Every field that an index sorts by is stored with some track, so with additions.
EveryFieldStored(tracks) == SortedFields \subseteq TrackProfile(tracks)

SoundIndexes(db, container) ==
  \A m \in Masters(db, container) : \A s \in DOMAIN m.index :
    /\ s \in Sorts /\ IndexRecord(m.index[s]) /\ WholeIndex(m.index[s], db.tracks)
    /\ EveryFieldStored(db.tracks) => InOrder(m.index[s], db.tracks, s)

\* Ids and pids name one track each.
TracksApart(tracks) ==
  \A i, j \in DOMAIN tracks : tracks[i].id = tracks[j].id \/ tracks[i].pid = tracks[j].pid => i = j

\* A list names tracks that are there, and an ordinary one is numbered from 0
\* without gap.
ItemsKnown(l, ids) ==
  \A n \in DOMAIN l.items :
    /\ l.items[n].track \in ids \cup {0}
    /\ l.role = "list" => l.items[n].position = n - 1

MembersKnown(db) ==
  TracksApart(db.tracks) /\ \A l \in Universe(db, {2, 3, 5}) : ItemsKnown(l, TrackIds(db.tracks))

\* The two playlist universes have the same lists, and an ordinary list is the
\* same wherever it is.
UniversesEqual(db) ==
  /\ {2, 3} \subseteq Kinds(db) => {l.id : l \in Universe(db, {2})} = {l.id : l \in Universe(db, {3})}
  /\ \A l, m \in Universe(db, {2, 3}) : l.id = m.id /\ l.role = "list" => l = m

\* An id is of one kind of list, and the first list of a universe is its master.
RolesClear(db, container) ==
  /\ \A l, m \in Universe(db, {2, 3}) : l.id = m.id => l.role = m.role
  /\ \A n \in MasterDatasets(db, container) :
       db.datasets[n].lists # <<>> /\ db.datasets[n].lists[1].role = "master"

SoundDatabase(db, container) ==
  /\ WellFormed(db) /\ MastersWhole(db, container) /\ MembersKnown(db)
  /\ UniversesEqual(db) /\ RolesClear(db, container)

\* The artist of a stored track's album.
AlbumArtistOf(t) == IF "albumArtist" \in t.fields THEN t.albumArtist ELSE t.artist

\* A track's album id names a record: one of its album, if the library stores
\* albums, by the artist of its album or by nobody, if it stores album artists.
AlbumFound(t, albums, profile) ==
  \E r \in Range(albums) :
    /\ r.id = t.albumId
    /\ "album" \in profile => r.name = t.album
    /\ "albumArtist" \in profile /\ AlbumArtistOf(t) # NoName => r.artist \in {AlbumArtistOf(t), NoName}

\* Two tracks of an artist share a reference and two artists do not, as far as
\* the tracks have one.
RefsAgree(t, u) == t.artist # NoName /\ t.ref # 0 /\ u.ref # 0 => (t.artist = u.artist <=> t.ref = u.ref)

\* An album record has an id of its own; a track finds the record of its album,
\* if its header has room for an album id.
Resolved(db) ==
  /\ \A i, j \in DOMAIN db.albums : db.albums[i].id = db.albums[j].id => i = j
  /\ \A t \in Range(db.tracks) : t.header >= AlbumRoom => AlbumFound(t, db.albums, TrackProfile(db.tracks))
  /\ \A t, u \in Range(db.tracks) : RefsAgree(t, u)

\* The edits of a session: one for a playlist.
SoundEdits(edits) ==
  /\ IsFiniteSet(edits) /\ \A e, f \in edits : e.id = f.id => e = f
  /\ \A e \in edits : /\ DOMAIN e = {"id", "op", "name", "members"} /\ e.id \in Nat /\ e.members \in Seq(Nat)
                      /\ e.op \in {"create", "update", "rename", "delete"}
==============================================================================
