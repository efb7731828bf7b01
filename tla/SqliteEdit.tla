------------------------------ MODULE SqliteEdit ------------------------------
(* stage_sqlite of edit/mod.rs on the databases: an edit is applied to a copy *)
(* of the installed generation (removals, additions, playlists, verification) *)
(* and replaces it when it is installed.  Edits follow each other.            *)
EXTENDS SqliteTables, Selection

CONSTANTS InitialDb,      \* the database of the opened device
          ItemPids,       \* ids an added track may be given
          Additions,      \* the tracks a caller may add, without their pid
          PlaylistEdits,  \* the playlist edits of a session: sets of [id, edit]
          MaxAdditions,   \* bound on the added tracks of a generation
          MaxEdits        \* bound on the edits installed one after the other

SoundLibrary(db) == Consistent(db) /\ Sorted(db) /\ PlainRanksAgree(db)

\* The edits of a session: one for a playlist, and no new id is drawn twice.
SoundQueue(queue) ==
  /\ IsFiniteSet(queue) /\ \A e, f \in queue : e.id = f.id => e = f
  /\ \A e \in queue :
       /\ DOMAIN e = {"id", "op", "name", "members"} /\ e.members \in Seq(Nat)
       /\ e.op \in {"create", "update", "rename", "delete"} /\ e.id \in Nat \ {0}
       /\ e.op = "create" => e.id \notin ItemPids \cup {PodcastList}

\* The opened library is sound, and what a caller asks for has its type.
ASSUME SqliteAssumption ==
  /\ SoundLibrary(InitialDb) /\ ListsSound(InitialDb)
  /\ ItemPids \subseteq Nat \ {0} /\ IsFiniteSet(ItemPids)
  /\ Additions \subseteq AdditionRows
  /\ \A queue \in PlaylistEdits : SoundQueue(queue)
  /\ MaxAdditions \in Nat /\ MaxEdits \in Nat

VARIABLES installed,  \* the generation on the device
          staged,     \* the copy being edited
          phase,      \* the next statement of stage_sqlite
          edit,       \* [removals, additions, playlists]
          added,      \* additions inserted so far
          applied,    \* ids of the playlist edits applied so far
          edits       \* edits begun

vars == <<installed, staged, phase, edit, added, applied, edits>>

NoEdit == [removals |-> {}, additions |-> <<>>, playlists |-> {}]

Init ==
  /\ installed = InitialDb /\ staged = InitialDb
  /\ phase = "idle" /\ edit = NoEdit /\ added = 0 /\ applied = {} /\ edits = 0

Resolved == {[add EXCEPT !.pid = p] : add \in Additions, p \in ItemPids \ DOMAIN installed.item}

\* What an EditSession lets through.
Queueable(e) ==
  /\ MembersExist(installed, e.members)
  /\ IF e.op = "create" THEN e.id \notin DOMAIN installed.container \cup DOMAIN installed.item
     ELSE Standard(installed, e.id)

\* copy_sqlite_set, and resolve_additions: only ids of the library are avoided.
Begin ==
  /\ phase = "idle" /\ edits < MaxEdits
  /\ \E n \in 0..(MaxAdditions - Cardinality(ItemPids \cap DOMAIN installed.item)) :
       edit' \in [removals : SUBSET DOMAIN installed.item,
                  additions : [1..n -> Resolved],
                  playlists : PlaylistEdits]
  /\ edit' # NoEdit /\ \A e \in edit'.playlists : Queueable(e)
  /\ staged' = installed /\ added' = 0 /\ applied' = {}
  /\ phase' = "remove" /\ edits' = edits + 1
  /\ UNCHANGED installed

Refused == phase' = "refused" /\ UNCHANGED <<installed, staged, edit, added, applied, edits>>

\* A pass that succeeds leaves the copy to the next one.
Continue(to, db) == phase' = to /\ staged' = db /\ UNCHANGED <<installed, edit, added, applied, edits>>

\* edit_staged_databases: one transaction, renumbered and checked.
RemoveTracks ==
  /\ phase = "remove"
  /\ LET db == Removed(staged, edit.removals)
     IN  IF edit.removals = {} THEN Continue("add", staged)
         ELSE IF ~RemovalValid(db, edit.removals) THEN Refused
         ELSE Continue("add", Reindexed(db))

\* add_tracks_to_staged_databases: one turn of its loop.
AddTrack ==
  /\ phase = "add" /\ added < Len(edit.additions)
  /\ LET add == edit.additions[added + 1]
     IN  IF ~Addable(staged, add) THEN Refused
         ELSE staged' = Added(staged, add) /\ added' = added + 1 /\ UNCHANGED <<installed, phase, edit, applied, edits>>

\* After the loop: what was added is checked, and the browse orders rewritten.
IndexTracks ==
  /\ phase = "add" /\ added = Len(edit.additions)
  /\ IF edit.additions = <<>> THEN Continue("playlists", staged)
     ELSE IF ~AdditionsValid(staged, edit.additions) THEN Refused
     ELSE Continue("playlists", Reindexed(staged))

\* edit_staged_playlists: one turn of its loop over the map, in the order of the ids.
EditPlaylist ==
  /\ phase = "playlists"
  /\ \E e \in edit.playlists :
       /\ e.id \notin applied /\ \A f \in edit.playlists : f.id < e.id => f.id \in applied
       /\ IF ~Applicable(staged, e.id, e) THEN Refused
          ELSE /\ staged' = PlaylistEdited(staged, e.id, e) /\ applied' = applied \cup {e.id}
               /\ UNCHANGED <<installed, phase, edit, added, edits>>

\* After the loop: the lists are checked.
CheckPlaylists ==
  /\ phase = "playlists" /\ \A e \in edit.playlists : e.id \in applied
  /\ IF \A e \in edit.playlists : PlaylistsValid(staged, e.id, e)
     THEN Continue("verify", staged) ELSE Refused

------------------------------------------------------------------------------
(* validate_semantics: the reparsed library against the request. *)

AddedPids == [i \in DOMAIN edit.additions |-> edit.additions[i].pid]
PodcastPids == Selected(AddedPids, {i \in DOMAIN edit.additions : edit.additions[i].podcast})
OfPlaylist(c) == {e \in edit.playlists : e.id = c}
OpOf(c) == IF OfPlaylist(c) = {} THEN "none" ELSE (CHOOSE e \in OfPlaylist(c) : TRUE).op
Requested(c) == CHOOSE e \in OfPlaylist(c) : TRUE

ExpectedName(c) ==
  IF OpOf(c) \in {"update", "rename"} /\ Requested(c).name # NoName
  THEN Requested(c).name ELSE installed.container[c].name

\* The old membership without the removed tracks, or the requested one.
ExpectedMembers(c) ==
  IF OpOf(c) = "update" THEN Requested(c).members
  ELSE LET old == Listed(installed, c) IN Selected(old, {i \in DOMAIN old : old[i] \notin edit.removals})

Kept == {c \in DOMAIN installed.container : OpOf(c) # "delete"}
Joining == {c \in Kept : /\ installed.container[c].kind # "podcasts"
                         /\ Listed(staged, c) = ExpectedMembers(c) \o AddedPids}

NewPodcastList ==
  PodcastPids # <<>> /\ \A c \in DOMAIN installed.container : installed.container[c].kind # "podcasts"

TracksAsRequested ==
  /\ Cardinality(DOMAIN staged.item) =
       Cardinality(DOMAIN installed.item) - Cardinality(edit.removals) + Len(edit.additions)
  /\ DOMAIN staged.item \cap edit.removals = {}
  /\ \A i \in DOMAIN AddedPids : AddedPids[i] \in DOMAIN staged.item

KeptAsRequested ==
  \A c \in Kept :
    /\ c \in DOMAIN staged.container
    /\ staged.container[c] = [installed.container[c] EXCEPT !.name = ExpectedName(c)]
    /\ IF installed.container[c].kind = "podcasts"
       THEN Listed(staged, c) = ExpectedMembers(c) \o PodcastPids
       ELSE c \in Joining \/ Listed(staged, c) = ExpectedMembers(c)

CreatedAsRequested ==
  /\ \A e \in edit.playlists : e.op = "create" =>
       /\ e.id \in DOMAIN staged.container
       /\ staged.container[e.id] = Container(e.name, FALSE, "list")
       /\ Listed(staged, e.id) = e.members
  /\ NewPodcastList =>
       /\ staged.container[PodcastList] = Container("Podcasts", TRUE, "podcasts")
       /\ Listed(staged, PodcastList) = PodcastPids

Semantics ==
  /\ TracksAsRequested
  /\ KeptAsRequested
  /\ CreatedAsRequested
  /\ DOMAIN staged.container =
       Kept \cup {e.id : e \in {x \in edit.playlists : x.op = "create"}}
            \cup (IF NewPodcastList THEN {PodcastList} ELSE {})
  /\ edit.additions # <<>> => Cardinality(Joining) = 1

Verify ==
  /\ phase = "verify"
  /\ Continue(IF Semantics THEN "staged" ELSE "rejected", staged)

\* The transaction of InstallTransaction, as one step.
Install ==
  /\ phase = "staged"
  /\ installed' = staged /\ phase' = "idle" /\ edit' = NoEdit /\ added' = 0 /\ applied' = {}
  /\ UNCHANGED <<staged, edits>>

Next == Begin \/ RemoveTracks \/ AddTrack \/ IndexTracks \/ EditPlaylist \/ CheckPlaylists \/ Verify \/ Install
Spec == Init /\ [][Next]_vars

------------------------------------------------------------------------------
Items == installed.item

\* No row of an installed generation points to a row that is gone, after any
\* removals, additions and playlist edits (the order of the statements of
\* update_derived_rows and delete_direct_references).
RefsIntact == References(installed)

\* Counts are exact, whichever of the removal and the addition, which maintain
\* them by different statements, ran last.
CountsExact == Counts(installed)

\* Rows come and go with the tracks, and a spelling does not make a second one
\* (resolve_named_entity, resolve_album).
RowsEarned == Earned(installed)

\* Browse lists are sorted after every edit (reindex_browse_orders).
BrowseSorted == Sorted(installed)

\* Staging never rejects its own work: what the three editing passes produce
\* together is what validate_semantics computes from the request.
OwnWorkAccepted == phase # "rejected"

\* A request whose ids and memberships are sound is not refused half way by
\* the checks inside a pass (orders, counts, companion rows) either.
Sound ==
  /\ \A i, j \in DOMAIN edit.additions : edit.additions[i].pid = edit.additions[j].pid => i = j
  /\ \A i \in DOMAIN edit.additions : edit.additions[i].artist # NoName
  /\ \A e \in edit.playlists :
       \A i \in DOMAIN e.members : e.members[i] \in DOMAIN Items \ edit.removals

SoundRequestsPass == phase = "refused" => ~Sound

\* add.rs:1074: an album's artist_order is the rank of its artist, after every
\* edit and whether or not the edit touched either.
AlbumFollowsArtist == RanksAgree(installed)

\* The same of the artists that sort under the key of their own name, which is
\* as far as the code goes: reindex_browse_orders (add.rs:1199-1218) looks a
\* rank up by the artist's name among the keys of the sort names.
AlbumFollowsPlainArtist == PlainRanksAgree(installed)
==============================================================================
