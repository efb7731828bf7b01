------------------------------ MODULE BinaryEdit ------------------------------
(* Edits of a binary database, one after the other: all of stage_classic on an  *)
(* iTunesDB, and what stage_sqlite does to the iTunesCDB beside the SQLite      *)
(* tables.  Each pass parses what the pass before has written.                  *)
EXTENDS BinaryPodcasts

CONSTANTS InitialDatabases,  \* databases a device may be opened with
          Containers,        \* "iTunesDB", "iTunesCDB"
          NewPids,           \* pids generate_unique_pid may return, in order
          Additions,         \* tracks a caller may add, their pid still to be drawn
          PlaylistEdits,     \* playlist edits of a session: sets of at most one each
          Removals,          \* sets of tracks a caller may remove
          MaxAdditions,      \* bound on the additions of an edit
          MaxEdits           \* bound on the edits staged

\* An id that is drawn for a new list is the id of no other.
Drawn(lists, id) == \A l \in lists : l.id = id => l.role = "podcast"

\* The opened database is sound, and what a caller asks for has its type.
ASSUME BinaryAssumption ==
  /\ \A db \in InitialDatabases : /\ \A file \in Containers : SoundDatabase(db, file)
                                  /\ Drawn(Universe(db, {2, 3}), PodcastId)
  /\ Containers \subseteq {"iTunesDB", "iTunesCDB"}
  /\ NewPids \in Seq(Nat) /\ Additions \subseteq AdditionRows
  /\ \A queue \in PlaylistEdits : SoundEdits(queue) /\ \A e \in queue : e.op = "create" => e.id # PodcastId
  /\ MaxAdditions \in Nat /\ MaxEdits \in Nat

\* What the links of the tracks need besides.
ASSUME LinksAssumption == \A db \in InitialDatabases : Resolved(db)

\* What the sorted indexes need.
ASSUME IndexesAssumption == \A db \in InitialDatabases : \A file \in Containers : SoundIndexes(db, file)

VARIABLES installed,  \* the database on the device
          work,       \* the database being staged
          container,  \* the file it is kept in
          podcasts,   \* DeviceProfile::supports_podcasts
          request,    \* [removals, additions, playlists]
          added,      \* additions staged so far
          phase, why, edits

vars == <<installed, work, container, podcasts, request, added, phase, why, edits>>
unstaged == <<installed, container, podcasts, request, edits>>

NoRequest == [removals |-> {}, additions |-> <<>>, playlists |-> {}]
Classic == container = "iTunesDB"

Init ==
  /\ installed \in InitialDatabases /\ work = installed
  /\ container \in Containers /\ podcasts \in BOOLEAN
  /\ Classic => 2 \in Kinds(installed)
  /\ request = NoRequest /\ added = 0 /\ phase = "idle" /\ why = "" /\ edits = 0

Before == ReadLibrary(installed)
After == ReadLibrary(work)

\* What an EditSession lets through: known tracks and editable playlists.
Queueable(e) ==
  /\ Range(e.members) \subseteq DOMAIN Before.tracks
  /\ IF e.op = "create" THEN \A l \in Range(Before.lists) : l.id # e.id
     ELSE \E l \in Range(Before.lists) : l.id = e.id /\ l.role = "list"

FreePids == Selected(NewPids, {n \in DOMAIN NewPids : NewPids[n] \notin Pids(installed.tracks)})
WithPid(a, p) == [a EXCEPT !.pid = p]

Begin ==
  /\ phase = "idle" /\ edits < MaxEdits
  /\ \E removals \in Removals, edit \in PlaylistEdits, n \in 0..Min({MaxAdditions, Len(FreePids)}) :
       \E new \in [1..n -> Additions] :
         /\ removals \subseteq Pids(installed.tracks)
         /\ \A e \in edit : Queueable(e)
         /\ \A i \in 1..n : new[i].kind = "podcast" => podcasts
         /\ edit # {} => Classic
         /\ request' = [removals |-> removals, additions |-> [i \in 1..n |-> WithPid(new[i], FreePids[i])], playlists |-> edit]
  /\ request' # NoRequest
  /\ work' = installed /\ added' = 0
  /\ phase' = "remove" /\ why' = "" /\ edits' = edits + 1
  /\ UNCHANGED <<installed, container, podcasts>>

\* Mutant of Refuse: the staging ends without its error.
RefuseSilently(reason) == phase' = "refused" /\ UNCHANGED <<unstaged, why, work, added>>

Refuse(reason) == phase' = "refused" /\ why' = reason /\ UNCHANGED <<unstaged, work, added>>
Continue(to) == phase' = to /\ UNCHANGED <<unstaged, why>>

\* remove_tracks of the database, or remove_tracks_from_cdb of the live companion.
RemoveTracks ==
  /\ phase = "remove"
  /\ IF request.removals = {} THEN Continue("add") /\ UNCHANGED <<work, added>>
     ELSE IF ~Removable(work, request.removals) THEN Refuse("removal")
     ELSE work' = RemovedTracks(work, request.removals) /\ Continue("add") /\ UNCHANGED added

\* Mutant of AdditionBase: every addition starts from the live companion.
AdditionBaseLive == IF Classic THEN work ELSE installed

\* The first addition to a companion starts from the live file.
AdditionBase == IF Classic \/ added > 0 THEN work ELSE installed

\* add_track, or add_track_to_cdb, for the next addition.
AddTrack ==
  LET a    == request.additions[added + 1]
      base == AdditionBase
  IN  /\ phase = "add"
      /\ IF added = Len(request.additions) THEN Continue("playlists") /\ UNCHANGED <<work, added>>
         ELSE IF ~Addable(base, container, a) THEN Refuse("addition")
         ELSE work' = AddedTrack(base, container, a) /\ added' = added + 1 /\ Continue("add")

\* edit_playlists; a requested member must not be queued for removal.
EditPlaylists ==
  /\ phase = "playlists"
  /\ IF request.playlists = {} THEN Continue("podcasts") /\ UNCHANGED <<work, added>>
     ELSE IF \E e \in request.playlists : Range(e.members) \cap request.removals # {} THEN Refuse("members")
     ELSE IF ~Editable(work, request.playlists) THEN Refuse("playlists")
     ELSE work' = EditedLists(work, request.playlists) /\ Continue("podcasts") /\ UNCHANGED added

\* Mutant of EpisodesChanged: only additions rebuild the show groups.
EpisodesAdded == \E i \in DOMAIN request.additions : request.additions[i].kind = "podcast"

EpisodesChanged ==
  \/ \E i \in DOMAIN request.additions : request.additions[i].kind = "podcast"
  \/ \E p \in request.removals : Before.tracks[p] = "podcast"

\* sync_podcasts, when episodes come or go.
SyncPodcasts ==
  /\ phase = "podcasts"
  /\ IF ~(Classic /\ podcasts /\ EpisodesChanged) THEN Continue("verify") /\ UNCHANGED <<work, added>>
     ELSE IF ~Syncable(work) THEN Refuse("podcasts")
     ELSE work' = SyncedPodcasts(work) /\ Continue("verify") /\ UNCHANGED added

------------------------------------------------------------------------------
(* validate_semantics *)

AddedPids == [i \in DOMAIN request.additions |-> request.additions[i].pid]
PodcastPids == Selected(AddedPids, {i \in DOMAIN AddedPids : request.additions[i].kind = "podcast"})
Edits(id, op) == {e \in request.playlists : e.id = id /\ e.op = op}
The(S) == CHOOSE x \in S : TRUE

Kept == {l \in Range(Before.lists) : Edits(l.id, "delete") = {}}
NewLists(l) == {m \in Range(After.lists) : m.id = l.id}
ExpectedName(l) == IF Edits(l.id, "rename") # {} THEN The(Edits(l.id, "rename")).name ELSE l.name
Remaining(l) ==
  IF Edits(l.id, "update") # {} THEN The(Edits(l.id, "update")).members
  ELSE Selected(l.members, {n \in DOMAIN l.members : l.members[n] \notin request.removals})

Joining == {l \in Kept : l.role # "podcast" /\ \E m \in NewLists(l) : m.members = Remaining(l) \o AddedPids}
NewPodcastList == PodcastPids # <<>> /\ \A l \in Range(Before.lists) : l.role # "podcast"

TracksAsRequested ==
  DOMAIN After.tracks = (DOMAIN Before.tracks \ request.removals) \cup Range(AddedPids)

ListAsRequested(l) ==
  \E m \in NewLists(l) :
    /\ m.name = ExpectedName(l) /\ m.role = l.role
    /\ IF l.role = "podcast" THEN m.members = Remaining(l) \o PodcastPids
       ELSE l \in Joining \/ m.members = Remaining(l)

CreatedAsRequested ==
  /\ \A e \in request.playlists : e.op = "create" =>
       \E m \in Range(After.lists) : m.id = e.id /\ m.name = e.name /\ m.role = "list" /\ m.members = e.members
  /\ NewPodcastList =>
       \E m \in Range(After.lists) : m.id = PodcastId /\ m.name = "Podcasts" /\ m.role = "podcast" /\ m.members = PodcastPids

Semantics ==
  /\ TracksAsRequested
  /\ \A l \in Kept : ListAsRequested(l)
  /\ CreatedAsRequested
  /\ {m.id : m \in Range(After.lists)} =
       {l.id : l \in Kept} \cup {e.id : e \in {x \in request.playlists : x.op = "create"}}
                           \cup (IF NewPodcastList THEN {PodcastId} ELSE {})
  /\ request.additions # <<>> => Cardinality(Joining) = 1

\* A companion is inspected, not read back: its datasets are counted.
Verify ==
  /\ phase = "verify"
  /\ IF ~Splits(work) \/ (Classic /\ ~Semantics) THEN Refuse("semantics")
     ELSE Continue("staged") /\ UNCHANGED <<work, added>>

\* The transaction of InstallTransaction, as one step.
Install ==
  /\ phase = "staged"
  /\ installed' = work /\ phase' = "idle" /\ request' = NoRequest /\ added' = 0
  /\ UNCHANGED <<work, container, podcasts, why, edits>>

Next == Begin \/ RemoveTracks \/ AddTrack \/ EditPlaylists \/ SyncPodcasts \/ Verify \/ Install
Spec == Init /\ [][Next]_vars

------------------------------------------------------------------------------
Tracks == installed.tracks
AllLists == Universe(installed, {2, 3, 5})

TypeOK ==
  /\ container \in Containers /\ podcasts \in BOOLEAN
  /\ edits \in 0..MaxEdits /\ added \in 0..Len(request.additions)
  /\ phase = "refused" <=> why # ""
  /\ \A l \in AllLists : l.role \in {"master", "list", "podcast", "smart"}

\* The master has every track in the order of dataset 1, at its position, in
\* both datasets of a Classic, whichever of removal (which renumbers what is
\* there) and addition (which writes it anew) came last.
MasterComplete == MastersWhole(installed, container)

\* An index lists each position once, and its jump table divides the slots into
\* consecutive runs without gap: slot arithmetic never loses or repeats one.
IndexesWhole ==
  \A m \in Masters(installed, container) : \A s \in DOMAIN m.index : WholeIndex(m.index[s], Tracks)

\* Every index is the stable sort of the tracks by the fields they are stored
\* with, and an entry of the jump table has the letter of each of its tracks.
IndexesSorted ==
  \A m \in Masters(installed, container) : \A s \in DOMAIN m.index : InOrder(m.index[s], Tracks, s)

\* An index that removal maintains by arithmetic is the one that addition would
\* build, as long as no addition had a field that it was not stored with.
IndexesSortedIfStored == EveryFieldStored(Tracks) => IndexesSorted

\* No list of any dataset names a track that is gone, ids name one track each,
\* and an ordinary list is numbered from 0 without gap.
MembersExist == MembersKnown(installed)

\* The two playlist universes have the same lists, and an ordinary list is the
\* same in both, whichever of the edits, which rewrite both, and the additions
\* and podcasts, which rewrite single lists of them, came last.
UniversesAgree == UniversesEqual(installed)

\* resolve_album, resolve_artist_id_ref: a track's album record is one of its
\* album, by the artist of that album (its album artist, or else its artist) or
\* by nobody, and an artist has one reference, whichever records the additions
\* have found or made, as far as the records have the fields and the room.
AlbumsResolve == Resolved(installed)

Flat == PodcastLists(installed, 2)
Grouped == PodcastLists(installed, 3)

\* mod.rs:669: no empty or dangling show group survives.  Each header of the
\* grouped list is followed by the episodes of one show, no show has two
\* headers, and the episodes are those of the flat list.
GroupsSound ==
  Classic /\ podcasts /\ Grouped # <<>> =>
    LET items   == Grouped[1].items
        headers == {n \in DOMAIN items : items[n].track = 0}
        owner(n) == Max({h \in headers : h <= n} \cup {0})
    IN  /\ items # <<>> => 1 \in headers
        /\ \A h \in headers : h + 1 \in DOMAIN items \ headers
        /\ \A n \in DOMAIN items \ headers : items[n].group = items[owner(n)].gid
        /\ \A m, n \in DOMAIN items \ headers :
             ShowOf(installed, items[m].track) = ShowOf(installed, items[n].track) <=> owner(m) = owner(n)
        /\ \A m, n \in DOMAIN items : items[m].gid = items[n].gid => m = n
        /\ Flat # <<>> => Range(MemberIds(Flat[1])) = Range(MemberIds(Grouped[1]))

\* The episodes that the Podcasts list of the library does not list.
Unlisted ==
  {p \in DOMAIN Before.tracks : Before.tracks[p] = "podcast"} \
    UNION {Range(l.members) : l \in {x \in Range(Before.lists) : x.role = "podcast"}}

\* What the session let through and does not contradict itself is staged, over
\* and over: no edit leaves a database that a later one is refused for.  The
\* exceptions are a library with an episode that its Podcasts list does not have,
\* and an episode whose record has no room for its kind.
SoundRequestsPass ==
  phase = "refused" =>
    \/ \E e \in request.playlists : Range(e.members) \cap request.removals # {}
    \/ Unlisted \ request.removals # {} /\ EpisodesChanged
    \/ PodcastPids # <<>> /\ HeaderSize(AdditionBase, container) < KindRoom

\* The companion is never compared with the tables, so this is what it has: the
\* tracks the edit asks for, unless it removes and adds at once.
CompanionFollows ==
  phase = "staged" /\ (request.removals = {} \/ request.additions = <<>>) => TracksAsRequested
==============================================================================
