----------------------------- MODULE SqliteTables -----------------------------
(* The relational part of a SQLite-era library and the statements libopod     *)
(* runs on it: edit_staged_databases (edit/mod.rs), add_tracks_to_staged_-     *)
(* databases (edit/add.rs) and edit_staged_playlists (edit/playlist.rs).       *)
(* A database is a record of tables; a table is a function from keys to rows, *)
(* 0 is the absent key.  `artist` is the table of album artists, and an       *)
(* item's key is the one its album_artist_order ranks; track artists and      *)
(* composers have tables and orders of their own that behave alike.           *)
EXTENDS Naturals, FiniteSets, FiniteSetsExt, Sequences

CONSTANTS SortKey,    \* name |-> the key sort_key(name) normalizes it to
          StoredKey,  \* name |-> the key of the sort name a new row stores: sort_key drops an article of its own
          NoName,     \* an absent tag
          MasterList, \* db_info.primary_container_pid
          PodcastList,\* the random pid of a new podcast container
          Companions  \* tables keyed by the item: location, avformat_info, item_stats, podcast_info

Names == DOMAIN SortKey

ASSUME NamesAssumption ==
  /\ SortKey \in [Names -> Nat] /\ StoredKey \in [Names -> Nat] /\ NoName \in Names
  /\ PodcastList \in Nat \ {0}

ItemsOf(items, field, key) == {p \in DOMAIN items : items[p][field] = key}
Rank(value, values) == 100 * (1 + Cardinality({v \in values : v < value}))

\* INSERT of a row under a new key.
Inserted(table, key, row) == [k \in DOMAIN table \cup {key} |-> IF k = key THEN row ELSE table[k]]

\* The first of some rows by order, then by pid, or none.
FirstOr0(table, keys) ==
  IF keys = {} THEN 0
  ELSE CHOOSE k \in keys : \A l \in keys :
         table[k].order < table[l].order \/ (table[k].order = table[l].order /\ k <= l)

MembersOf(db, c) == {m \in db.members : m.container = c}

\* ORDER BY physical_order: the order in which the firmware and Library read.
Listed(db, c) ==
  LET rows == MembersOf(db, c)
  IN  [i \in 1..Cardinality(rows) |->
        (CHOOSE m \in rows : Cardinality({n \in rows : n.order < m.order}) = i - 1).item]

------------------------------------------------------------------------------
(* Removal *)

\* An album that loses a track is counted again, or goes with its last one.
AlbumsAfter(db, items, touched) ==
  LET art(a) == {p \in ItemsOf(items, "album", a) : items[p].art}
  IN  [a \in {b \in DOMAIN db.album : b \in touched /\ b # 0 => ItemsOf(items, "album", b) # {}} |->
        IF a \in touched /\ ItemsOf(items, "album", a) # {}
        THEN [db.album[a] EXCEPT !.count = Cardinality(ItemsOf(items, "album", a)),
                                 !.art = FirstOr0(items, art(a))]
        ELSE db.album[a]]

\* Mutant of ArtistsAfter: rows go, but those that stay keep their cover.
ArtistsAfterStale(db, items, albums, touched) ==
  [r \in {s \in DOMAIN db.artist : ItemsOf(items, "artist", s) # {}} |->
    [db.artist[r] EXCEPT !.albums = Cardinality({items[p].album : p \in ItemsOf(items, "artist", r)})]]

\* An artist's representative album is looked for among the albums that stay.
ArtistsAfter(db, items, albums, touched) ==
  LET covers(r) == {a \in DOMAIN albums : albums[a].artist = r /\ albums[a].art # 0}
  IN  [r \in {s \in DOMAIN db.artist : s \in touched /\ s # 0 => ItemsOf(items, "artist", s) # {}} |->
        IF r \in touched /\ ItemsOf(items, "artist", r) # {}
        THEN [db.artist[r] EXCEPT !.albums = Cardinality({items[p].album : p \in ItemsOf(items, "artist", r)}),
                                  !.art = FirstOr0(albums, covers(r))]
        ELSE db.artist[r]]

\* The counts of a genre row, taken from the items that carry it.
GenreCounts(row, items, g) ==
  [row EXCEPT !.albums = Cardinality({items[p].album : p \in ItemsOf(items, "genre", g)}),
              !.artists = Cardinality({items[p].artist : p \in ItemsOf(items, "genre", g)})]

\* Mutant of GenresAfter: rows go, but those that stay are not counted again.
GenresAfterUncounted(db, items, touched) ==
  [g \in {h \in DOMAIN db.genre : ItemsOf(items, "genre", h) # {}} |-> db.genre[g]]

GenresAfter(db, items, touched) ==
  [g \in {h \in DOMAIN db.genre : h \in touched /\ h # 0 => ItemsOf(items, "genre", h) # {}} |->
    IF g \in touched THEN GenreCounts(db.genre[g], items, g) ELSE db.genre[g]]

\* Mutant of RenumberedMembers: the gaps of the removed rows stay.
UnnumberedMembers(rows) == rows

\* Mutant of RenumberedMembers: numbered from the end.
RenumberedBackwards(rows) ==
  {[m EXCEPT !.order = Cardinality({n \in rows : n.container = m.container /\ n.order > m.order})] : m \in rows}

\* ROW_NUMBER() OVER (PARTITION BY container_pid ORDER BY physical_order) - 1
RenumberedMembers(rows) ==
  {[m EXCEPT !.order = Cardinality({n \in rows : n.container = m.container /\ n.order < m.order})] : m \in rows}

Renumbered(items) ==
  [p \in DOMAIN items |->
    [items[p] EXCEPT !.order = Cardinality({q \in DOMAIN items :
        \/ items[q].order < items[p].order
        \/ items[q].order = items[p].order /\ q < p})]]

SizeOf(items) == MapThenSumSet(LAMBDA p : items[p].size, DOMAIN items)

\* The temporary tables of affected aggregates.
Touched(db, removals, field) == {db.item[p][field] : p \in removals}

Removed(db, removals) ==
  LET items  == [p \in DOMAIN db.item \ removals |-> db.item[p]]
      albums == AlbumsAfter(db, items, Touched(db, removals, "album"))
  IN  [db EXCEPT !.item = Renumbered(items),
                 !.album = albums,
                 !.artist = ArtistsAfter(db, items, albums, Touched(db, removals, "artist")),
                 !.genre = GenresAfter(db, items, Touched(db, removals, "genre")),
                 !.members = RenumberedMembers({m \in @ : m.item \notin removals}),
                 !.rows = {row \in @ : row[2] \notin removals},
                 !.size = SizeOf(items)]

\* lo = 0, hi = n - 1 and no order used twice, in every container.
Contiguous(members) ==
  \A m \in members :
    LET rows == {n \in members : n.container = m.container}
    IN  {n.order : n \in rows} = 0..(Cardinality(rows) - 1)

RemovalValid(db, removals) ==
  /\ DOMAIN db.item \cap removals = {}
  /\ \A row \in db.rows : row[2] \notin removals
  /\ \A m \in db.members : m.item \notin removals
  /\ {db.item[p].order : p \in DOMAIN db.item} = 0..(Cardinality(DOMAIN db.item) - 1)
  /\ Contiguous(db.members)

------------------------------------------------------------------------------
(* Browse orders *)

ArtistKeys(db) == {db.artist[r].sort : r \in DOMAIN db.artist}

\* reindex_named_table: by distinct sort key.
ReindexedArtists(db) ==
  [db EXCEPT !.artist = [r \in DOMAIN @ |-> [@[r] EXCEPT !.order = Rank(db.artist[r].sort, ArtistKeys(db))]]]

\* An item's album_artist_order ranks its own key among those of all items.
ReindexedItems(db) ==
  LET keys == {db.item[p].key : p \in DOMAIN db.item}
  IN  [db EXCEPT !.item = [p \in DOMAIN @ |-> [@[p] EXCEPT !.artistOrder = Rank(db.item[p].key, keys)]]]

\* An album takes a slot of its own by its sort name, ties in pid order.
AlbumPosition(db, a) ==
  LET before(b) == \/ db.album[b].sort < db.album[a].sort
                   \/ db.album[b].sort = db.album[a].sort /\ b < a
  IN  100 * (1 + Cardinality({b \in DOMAIN db.album : before(b)}))

\* Mutant of AlbumArtistOrder: only a new album gets the rank of its artist.
AlbumArtistOrderKept(db, a) == db.album[a].artistOrder

\* Its artist_order is looked up by the artist's name, not its sort name.
AlbumArtistOrder(db, a) ==
  LET r   == db.album[a].artist
      key == SortKey[IF r \in DOMAIN db.artist THEN db.artist[r].name ELSE NoName]
  IN  IF key \in ArtistKeys(db) THEN Rank(key, ArtistKeys(db)) ELSE db.album[a].artistOrder

ReindexedAlbums(db) ==
  [db EXCEPT !.album = [a \in DOMAIN @ |-> [@[a] EXCEPT !.order = AlbumPosition(db, a),
                                                        !.artistOrder = AlbumArtistOrder(db, a)]]]

Reindexed(db) == ReindexedAlbums(ReindexedItems(ReindexedArtists(db)))

------------------------------------------------------------------------------
(* Addition *)

\* Mutant of Matching: only the exact spelling is looked up.
MatchingExact(table, rows, name) == {k \in rows : table[k].name = name}

\* A row with the exact name, then one whose normalized name is the same.
Matching(table, rows, name) ==
  LET exact == {k \in rows : table[k].name = name}
      alike == {k \in rows : SortKey[table[k].name] = SortKey[name]}
  IN  IF exact # {} THEN exact ELSE alike

NextPid(db) == Max(DOMAIN db.album \cup DOMAIN db.artist \cup {0}) + 1

ResolvedArtist(db, name) ==
  IF name = NoName THEN 0
  ELSE LET found == Matching(db.artist, DOMAIN db.artist, name)
       IN  IF found # {} THEN Min(found) ELSE NextPid(db)

WithArtist(db, r, name) ==
  IF r = 0 \/ r \in DOMAIN db.artist THEN db
  ELSE [db EXCEPT !.artist =
         Inserted(@, r, [name |-> name, sort |-> StoredKey[name], albums |-> 1, art |-> 0,
                         order |-> Rank(SortKey[name], {SortKey[@[s].name] : s \in DOMAIN @})])]

ResolvedAlbum(db, name, r) ==
  LET found == Matching(db.album, {a \in DOMAIN db.album : db.album[a].artist = r}, name)
  IN  IF found # {} THEN Min(found) ELSE NextPid(db)

WithAlbum(db, a, name, r) ==
  IF a \in DOMAIN db.album THEN db
  ELSE [db EXCEPT !.album =
         Inserted(@, a, [name |-> name, sort |-> StoredKey[name], artist |-> r, count |-> 1, art |-> 0,
                         order |-> Rank(SortKey[name], {SortKey[@[b].name] : b \in DOMAIN @}),
                         artistOrder |-> Rank(SortKey[db.artist[r].name], {SortKey[db.artist[s].name] : s \in DOMAIN db.artist})])]

ResolvedGenre(db, name) ==
  IF name = NoName THEN 0
  ELSE LET found == Matching(db.genre, DOMAIN db.genre, name)
       IN  IF found # {} THEN Min(found) ELSE Max(DOMAIN db.genre \cup {0}) + 1

WithGenre(db, g, name) ==
  IF g = 0 \/ g \in DOMAIN db.genre THEN db
  ELSE [db EXCEPT !.genre = Inserted(@, g, [name |-> name, albums |-> 1, artists |-> 1])]

Joined(db, p, c) ==
  [db EXCEPT !.members = @ \cup {[container |-> c, item |-> p,
                                  order |-> Max({m.order + 1 : m \in MembersOf(db, c)} \cup {0})]}]

Container(name, hidden, kind) ==
  [name |-> name, hidden |-> hidden, smart |-> FALSE, kind |-> kind, parent |-> 0]

PodcastLists(db) == {c \in DOMAIN db.container : db.container[c].kind = "podcasts"}
PodcastContainer(db) == IF PodcastLists(db) = {} THEN PodcastList ELSE Min(PodcastLists(db))

WithPodcastList(db) ==
  IF PodcastLists(db) # {} THEN db
  ELSE [db EXCEPT !.container = Inserted(@, PodcastList, Container("Podcasts", TRUE, "podcasts")),
                  !.ui = @ \cup {PodcastList}]

ListedIn(db, p, podcast) ==
  IF podcast THEN Joined(WithPodcastList(Joined(db, p, MasterList)), p, PodcastContainer(db))
  ELSE Joined(db, p, MasterList)

\* The companion rows an addition needs; a podcast episode has two more.
CompanionRows(podcast) ==
  IF podcast THEN Companions ELSE Companions \ {"podcast_info", "item_stats"}

\* update_derived_rows of the addition, and link_artwork_rows.
Derived(db, add, r, a, g) ==
  LET items == db.item
      cover == IF add.art /\ db.album[a].art = 0 THEN add.pid ELSE db.album[a].art
      shown == IF add.art /\ db.artist[r].art = 0 THEN a ELSE db.artist[r].art
  IN  [db EXCEPT
        !.album[a] = [@ EXCEPT !.count = Cardinality(ItemsOf(items, "album", a)), !.art = cover],
        !.artist = [s \in DOMAIN @ |->
                     IF s # r THEN @[s]
                     ELSE [@[s] EXCEPT !.albums = Cardinality({items[p].album : p \in ItemsOf(items, "artist", r)}),
                                       !.art = shown]],
        !.genre = [h \in DOMAIN @ |-> IF h = g THEN GenreCounts(@[h], items, g) ELSE @[h]],
        !.size = @ + add.size]

ItemOrder(db, key) == Rank(key, {db.item[p].key : p \in DOMAIN db.item})

\* COALESCE(MAX(physical_order), -1) + 1
ItemRow(db, add, r, a, g) ==
  [album |-> a, artist |-> r, genre |-> g, art |-> add.art, size |-> add.size,
   order |-> Max({db.item[p].order + 1 : p \in DOMAIN db.item} \cup {0}),
   key |-> StoredKey[add.artist], artistOrder |-> ItemOrder(db, SortKey[add.artist])]

Added(db, add) ==
  LET r  == ResolvedArtist(db, add.artist)
      d1 == WithArtist(db, r, add.artist)
      a  == ResolvedAlbum(d1, add.album, r)
      d2 == WithAlbum(d1, a, add.album, r)
      g  == ResolvedGenre(d2, add.genre)
      d3 == WithGenre(d2, g, add.genre)
      d4 == [d3 EXCEPT !.item = Inserted(@, add.pid, ItemRow(db, add, r, a, g)),
                       !.rows = @ \cup (CompanionRows(add.podcast) \X {add.pid})]
  IN  Derived(ListedIn(d4, add.pid, add.podcast), add, r, a, g)

\* insert_track refuses a used id; a new album needs the row of its artist.
Addable(db, add) ==
  LET r == ResolvedArtist(db, add.artist)
      d == WithArtist(db, r, add.artist)
  IN  /\ add.pid # 0 /\ add.pid \notin DOMAIN db.item
      /\ ResolvedAlbum(d, add.album, r) \in DOMAIN d.album \/ r \in DOMAIN d.artist

AdditionsValid(db, adds) ==
  /\ \A i \in DOMAIN adds :
       LET p == adds[i].pid
       IN  /\ CompanionRows(adds[i].podcast) \X {p} = {row \in db.rows : row[2] = p}
           /\ Cardinality({m \in db.members : m.item = p}) = IF adds[i].podcast THEN 2 ELSE 1
  /\ Contiguous(db.members)
  /\ \A a \in DOMAIN db.album : db.album[a].count = Cardinality(ItemsOf(db.item, "album", a))

------------------------------------------------------------------------------
(* Playlists *)

Standard(db, c) == c \in DOMAIN db.container /\ ~db.container[c].hidden /\ ~db.container[c].smart
MembersExist(db, members) == \A i \in DOMAIN members : members[i] \in DOMAIN db.item

\* DELETE FROM item_to_container, then one row per position.
ReplacedMembers(db, c, members) ==
  [db EXCEPT !.members = {m \in @ : m.container # c}
                \cup {[container |-> c, item |-> members[i], order |-> i - 1] : i \in DOMAIN members}]

WithName(db, c, name) ==
  IF name = NoName THEN db ELSE [db EXCEPT !.container[c].name = name]

Applicable(db, c, edit) ==
  CASE edit.op = "create" -> c \notin DOMAIN db.container /\ c \notin DOMAIN db.item /\ MembersExist(db, edit.members)
    [] edit.op = "update" -> Standard(db, c) /\ MembersExist(db, edit.members)
    [] edit.op = "rename" -> Standard(db, c)
    [] edit.op = "delete" -> Standard(db, c)

PlaylistEdited(db, c, edit) ==
  CASE edit.op = "create" ->
         ReplacedMembers([db EXCEPT !.container = Inserted(@, c, Container(edit.name, FALSE, "list")),
                                    !.ui = @ \cup {c}], c, edit.members)
    [] edit.op = "update" -> ReplacedMembers(WithName(db, c, edit.name), c, edit.members)
    [] edit.op = "rename" -> WithName(db, c, edit.name)
    [] edit.op = "delete" ->
         [db EXCEPT !.members = {m \in @ : m.container # c},
                    !.ui = @ \ {c},
                    !.container = [d \in DOMAIN @ \ {c} |-> @[d]]]

PlaylistsValid(db, c, edit) ==
  /\ \A m \in db.members : m.container \in DOMAIN db.container /\ m.item \in DOMAIN db.item
  /\ db.ui \subseteq DOMAIN db.container
  /\ Contiguous(db.members)
  /\ edit.op = "delete" => c \notin DOMAIN db.container /\ c \notin db.ui
  /\ edit.op # "delete" => c \in DOMAIN db.container /\ c \in db.ui

------------------------------------------------------------------------------
(* A sound library, which an edit finds and has to leave *)

Tables == {"item", "album", "artist", "genre", "container", "ui", "members", "rows", "size"}
ItemRows == [album : Nat, artist : Nat, genre : Nat, art : BOOLEAN, size : Nat, order : Nat,
             key : Nat, artistOrder : Nat]
AlbumRows == [name : Names, sort : Nat, artist : Nat, count : Nat, art : Nat, order : Nat, artistOrder : Nat]
ArtistRows == [name : Names, sort : Nat, albums : Nat, art : Nat, order : Nat]
GenreRows == [name : Names, albums : Nat, artists : Nat]

IsTable(table, rows) ==
  /\ IsFiniteSet(DOMAIN table) /\ DOMAIN table \subseteq Nat \ {0}
  /\ table \in [DOMAIN table -> rows]

Typed(db) ==
  /\ DOMAIN db = Tables
  /\ IsTable(db.item, ItemRows) /\ IsTable(db.album, AlbumRows)
  /\ IsTable(db.artist, ArtistRows) /\ IsTable(db.genre, GenreRows)
  /\ DOMAIN db.container \subseteq Nat \ {0}
  /\ \A c \in DOMAIN db.container : DOMAIN db.container[c] = {"name", "hidden", "smart", "kind", "parent"}
  /\ \A m \in db.members : DOMAIN m = {"container", "item", "order"}

\* No row points to a row that is gone: items to album, artist and genre, albums
\* to artist and cover, artists to the album that shows for them, memberships
\* and UI rows to their containers.
References(db) ==
  /\ \A p \in DOMAIN db.item :
       /\ db.item[p].album \in DOMAIN db.album
       /\ db.item[p].artist \in DOMAIN db.artist \cup {0}
       /\ db.item[p].genre \in DOMAIN db.genre \cup {0}
  /\ \A a \in DOMAIN db.album :
       /\ db.album[a].artist \in DOMAIN db.artist \cup {0}
       /\ db.album[a].art # 0 => db.album[a].art \in {p \in ItemsOf(db.item, "album", a) : db.item[p].art}
  /\ \A r \in DOMAIN db.artist :
       LET a == db.artist[r].art
       IN  a # 0 => a \in DOMAIN db.album /\ db.album[a].artist = r /\ db.album[a].art # 0
  /\ \A m \in db.members : m.container \in DOMAIN db.container /\ m.item \in DOMAIN db.item
  /\ db.ui = DOMAIN db.container
  /\ \A row \in db.rows : row[2] \in DOMAIN db.item

\* Counts kept in rows are what counting would give.
Counts(db) ==
  /\ \A a \in DOMAIN db.album : db.album[a].count = Cardinality(ItemsOf(db.item, "album", a))
  /\ \A r \in DOMAIN db.artist :
       db.artist[r].albums = Cardinality({db.item[p].album : p \in ItemsOf(db.item, "artist", r)})
  /\ \A g \in DOMAIN db.genre : db.genre[g] = GenreCounts(db.genre[g], db.item, g)
  /\ db.size = SizeOf(db.item)

\* No album, artist or genre is without a track, and no two artists, or albums
\* of an artist, differ in spelling only.
Earned(db) ==
  /\ \A a \in DOMAIN db.album : ItemsOf(db.item, "album", a) # {}
  /\ \A r \in DOMAIN db.artist : ItemsOf(db.item, "artist", r) # {}
  /\ \A g \in DOMAIN db.genre : ItemsOf(db.item, "genre", g) # {}
  /\ \A r, s \in DOMAIN db.artist : SortKey[db.artist[r].name] = SortKey[db.artist[s].name] => r = s
  /\ \A a, b \in DOMAIN db.album :
       /\ SortKey[db.album[a].name] = SortKey[db.album[b].name]
       /\ db.album[a].artist = db.album[b].artist
       => a = b

\* Browse lists are sorted: a smaller key never has a greater order, equal
\* artists share a rank and no two albums do.
Sorted(db) ==
  /\ \A r, s \in DOMAIN db.artist :
       db.artist[r].sort < db.artist[s].sort <=> db.artist[r].order < db.artist[s].order
  /\ \A p, q \in DOMAIN db.item : db.item[p].key < db.item[q].key <=> db.item[p].artistOrder < db.item[q].artistOrder
  /\ \A a, b \in DOMAIN db.album :
       /\ db.album[a].sort < db.album[b].sort => db.album[a].order < db.album[b].order
       /\ db.album[a].order = db.album[b].order => a = b

\* The artist_order of the albums of some artists is the rank of their artist.
RanksOf(db, artists) ==
  \A a \in DOMAIN db.album, r \in artists :
    db.album[a].artist = r => db.album[a].artistOrder = db.artist[r].order

RanksAgree(db) == RanksOf(db, DOMAIN db.artist)

\* Artists that sort as they are called, by the key that reindexing looks up.
Plain(db) == {r \in DOMAIN db.artist : db.artist[r].sort = SortKey[db.artist[r].name]}
PlainRanksAgree(db) == RanksOf(db, Plain(db))

\* A track is by the artist of its album, and the master list cannot be edited.
Coherent(db) ==
  /\ \A p \in DOMAIN db.item : db.item[p].artist = db.album[db.item[p].album].artist
  /\ MasterList \in DOMAIN db.container /\ db.container[MasterList].hidden

\* A container is a row of these columns.
IsContainer(row) ==
  row = [name |-> row.name, hidden |-> row.hidden, smart |-> row.smart, kind |-> row.kind, parent |-> row.parent]

\* The lists are as validate_relational_invariants wants them, and the one podcast
\* list is neither the master list nor one that a session may edit.
ListsSound(db) ==
  /\ \A c \in DOMAIN db.container : IsContainer(db.container[c]) /\ IsFiniteSet(MembersOf(db, c))
  /\ Contiguous(db.members)
  /\ \A c \in PodcastLists(db) : db.container[c].hidden /\ c # MasterList
  /\ \A c, d \in PodcastLists(db) : c = d
  /\ PodcastList \in DOMAIN db.container => PodcastList \in PodcastLists(db)

\* What each pass keeps; the browse orders wait for the end of the additions.
Consistent(db) == Typed(db) /\ References(db) /\ Counts(db) /\ Earned(db) /\ Coherent(db)

\* A track that is asked for, with the pid it has been given; `artist` is its
\* album artist, or else its artist.
AdditionRows == [pid : Nat, artist : Names, album : Names, genre : Names, art : BOOLEAN,
                 podcast : BOOLEAN, size : Nat]
==============================================================================
