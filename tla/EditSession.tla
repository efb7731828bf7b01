----------------------------- MODULE EditSession -----------------------------
(* EditSession of edit/mod.rs: the queue of requested changes.  The session   *)
(* only reads the opened device; staging reads the queue.                     *)
EXTENDS Naturals, Sequences, FiniteSets, SequencesExt, TLC

CONSTANTS Tracks,           \* the tracks of the opened library
          MissingMedia,     \* those whose media file is absent
          Ids,              \* ids a random playlist id may take, the library's included
          Names,
          Memberships,      \* memberships a caller may ask for
          InitialPlaylists, \* id |-> [name, members, hidden, smart]
          Unset,            \* None: what an update leaves as it is
          MaxAdditions      \* bound on queued additions

ASSUME SessionAssumptions ==
  /\ MissingMedia \subseteq Tracks
  /\ DOMAIN InitialPlaylists \subseteq Ids
  /\ Unset \notin Names \cup Memberships
  /\ MaxAdditions \in Nat

VARIABLES device,        \* what Device::open learnt: [profile, library, guid]
          session,       \* "none", "open" or "refused"
          removals,      \* BTreeSet of track ids
          additions,     \* queued media kinds
          playlistEdits, \* id |-> PlaylistEdit
          policy,        \* MediaDeletionPolicy
          staged         \* the outcome of the last staging call

vars == <<device, session, removals, additions, playlistEdits, policy, staged>>
queues == <<removals, additions, playlistEdits>>
opened == <<device, session>>

\* The profiles a session distinguishes, and the signature each one needs.
Profiles == {"unknown", "nano7", "classic", "nano2", "unsigned"}
Backend(profile) == IF profile = "nano7" THEN "sqlite" ELSE "binary"
NeedsGuid(profile) == profile # "unsigned"
SupportsPodcasts(profile) == profile \in {"nano7", "classic"}
MediaKinds == {"music", "podcast"}

Create(name, members) == [op |-> "create", name |-> name, members |-> members]
Update(name, members) == [op |-> "update", name |-> name, members |-> members]
Delete == [op |-> "delete", name |-> Unset, members |-> Unset]

Queued(id) == id \in DOMAIN playlistEdits
Put(id, edit) ==
  playlistEdits' = [x \in DOMAIN playlistEdits \cup {id} |-> IF x = id THEN edit ELSE playlistEdits[x]]
InLibrary(members) == \A i \in DOMAIN members : members[i] \in Tracks

RequireEditable(id) ==
  /\ id \in DOMAIN InitialPlaylists
  /\ ~InitialPlaylists[id].hidden
  /\ ~InitialPlaylists[id].smart

Init ==
  /\ device \in [profile : Profiles, library : BOOLEAN, guid : BOOLEAN]
  /\ session = "none"
  /\ removals = {} /\ additions = <<>> /\ playlistEdits = [id \in {} |-> Delete]
  /\ policy = "KeepOrphan" /\ staged = "no"

\* Mutant of MayOpen: only HASHAB devices are asked for their identity.
MayOpenUnsigned ==
  /\ device.profile # "unknown"
  /\ device.library
  /\ Backend(device.profile) = "sqlite" => device.guid

\* EditSession::new refuses a device it could not sign for.
MayOpen ==
  /\ device.profile # "unknown"
  /\ device.library
  /\ Backend(device.profile) = "sqlite" \/ NeedsGuid(device.profile) => device.guid

Open ==
  /\ session = "none"
  /\ session' = IF MayOpen THEN "open" ELSE "refused"
  /\ UNCHANGED <<device, queues, policy, staged>>

SetMediaPolicy ==
  /\ policy' \in {"KeepOrphan", "Delete"}
  /\ UNCHANGED <<queues, staged>>

RemoveTrack(t) ==
  /\ removals' = removals \cup {t}
  /\ UNCHANGED <<additions, playlistEdits, policy, staged>>

RemoveMissingTracks ==
  /\ removals' = removals \cup MissingMedia
  /\ UNCHANGED <<additions, playlistEdits, policy, staged>>

AddTrack(kind) ==
  /\ kind = "podcast" => SupportsPodcasts(device.profile)
  /\ Len(additions) < MaxAdditions
  /\ additions' = Append(additions, kind)
  /\ UNCHANGED <<removals, playlistEdits, policy, staged>>

\* Mutant of CreatePlaylist: only the queue is searched for the id.
CreatePlaylistUnchecked(id, name, members) ==
  /\ InLibrary(members)
  /\ id \notin Tracks \cup DOMAIN playlistEdits
  /\ Put(id, Create(name, members))
  /\ UNCHANGED <<removals, additions, policy, staged>>

\* The random id is drawn again while a playlist, a track or an edit has it.
CreatePlaylist(id, name, members) ==
  /\ InLibrary(members)
  /\ id \notin DOMAIN InitialPlaylists \cup Tracks \cup DOMAIN playlistEdits
  /\ Put(id, Create(name, members))
  /\ UNCHANGED <<removals, additions, policy, staged>>

\* Mutant of RenamePlaylist: a second edit of a playlist replaces the first.
RenamePlaylistReplaces(id, name) ==
  /\ IF Queued(id) /\ playlistEdits[id].op = "create"
     THEN playlistEdits' = [playlistEdits EXCEPT ![id].name = name]
     ELSE RequireEditable(id) /\ ~(Queued(id) /\ playlistEdits[id].op = "delete") /\ Put(id, Update(name, Unset))
  /\ UNCHANGED <<removals, additions, policy, staged>>

RenamePlaylist(id, name) ==
  /\ IF Queued(id)
     THEN playlistEdits[id].op # "delete" /\ playlistEdits' = [playlistEdits EXCEPT ![id].name = name]
     ELSE RequireEditable(id) /\ Put(id, Update(name, Unset))
  /\ UNCHANGED <<removals, additions, policy, staged>>

\* Mutant of SetPlaylistTracks: the fields of the update are swapped.
SetPlaylistTracksSwapped(id, members) ==
  /\ InLibrary(members)
  /\ RequireEditable(id)
  /\ Put(id, Update(members, Unset))
  /\ UNCHANGED <<removals, additions, policy, staged>>

SetPlaylistTracks(id, members) ==
  /\ InLibrary(members)
  /\ IF Queued(id)
     THEN playlistEdits[id].op # "delete" /\ playlistEdits' = [playlistEdits EXCEPT ![id].members = members]
     ELSE RequireEditable(id) /\ Put(id, Update(Unset, members))
  /\ UNCHANGED <<removals, additions, policy, staged>>

DeletePlaylist(id) ==
  /\ IF Queued(id) /\ playlistEdits[id].op = "create"
     THEN playlistEdits' = [e \in DOMAIN playlistEdits \ {id} |-> playlistEdits[e]]
     ELSE IF Queued(id) /\ playlistEdits[id].op = "delete"
     THEN UNCHANGED playlistEdits
     ELSE RequireEditable(id) /\ Put(id, Delete)
  /\ UNCHANGED <<removals, additions, policy, staged>>

Empty == removals = {} /\ additions = <<>> /\ DOMAIN playlistEdits = {}

\* A membership that names a track queued for removal fails when it is staged.
RefersToRemoved ==
  \E id \in DOMAIN playlistEdits :
    /\ playlistEdits[id].members # Unset
    /\ \E i \in DOMAIN playlistEdits[id].members : playlistEdits[id].members[i] \in removals

\* The errors of stage_preview in the order the code reaches them.
Stage ==
  /\ staged' = IF Empty THEN "empty"
               ELSE IF device.profile = "unknown" THEN "unknown_profile"
               ELSE IF ~device.library THEN "no_library"
               ELSE IF RefersToRemoved THEN "removed_member"
               ELSE IF NeedsGuid(device.profile) /\ ~device.guid THEN "no_identity"
               ELSE "staged"
  /\ UNCHANGED <<queues, policy>>

Call ==
  /\ session = "open"
  /\ UNCHANGED opened
  /\ \/ SetMediaPolicy
     \/ RemoveMissingTracks
     \/ \E t \in Tracks : RemoveTrack(t)
     \/ \E kind \in MediaKinds : AddTrack(kind)
     \/ \E id \in Ids, name \in Names, members \in Memberships : CreatePlaylist(id, name, members)
     \/ \E id \in Ids, name \in Names : RenamePlaylist(id, name)
     \/ \E id \in Ids, members \in Memberships : SetPlaylistTracks(id, members)
     \/ \E id \in Ids : DeletePlaylist(id)
     \/ Stage

Next == Open \/ Call
Spec == Init /\ [][Next]_vars

------------------------------------------------------------------------------
\* The playlists a queue stands for: what staging writes, edit by edit.
Locked(id) == InitialPlaylists[id].hidden \/ InitialPlaylists[id].smart

Opened(id) == [name    |-> InitialPlaylists[id].name,
               members |-> InitialPlaylists[id].members,
               locked  |-> Locked(id)]

Over(new, old) == IF new = Unset THEN old ELSE new

Edited(id) ==
  IF ~Queued(id) THEN Opened(id)
  ELSE IF playlistEdits[id].op = "create"
  THEN [name |-> playlistEdits[id].name, members |-> playlistEdits[id].members, locked |-> FALSE]
  ELSE [name    |-> Over(playlistEdits[id].name, InitialPlaylists[id].name),
        members |-> Over(playlistEdits[id].members, InitialPlaylists[id].members),
        locked  |-> Locked(id)]

Deleted == {id \in DOMAIN playlistEdits : playlistEdits[id].op = "delete"}

RequestedPlaylists ==
  [id \in (DOMAIN InitialPlaylists \cup DOMAIN playlistEdits) \ Deleted |-> Edited(id)]

Store == INSTANCE PlaylistStore
           WITH playlists <- RequestedPlaylists,
                InitialPlaylists <- [id \in DOMAIN InitialPlaylists |-> Opened(id)]

PlaylistEdits ==
  [op : {"create", "update", "delete"}, name : Names \cup {Unset}, members : Memberships \cup {Unset}]

TypeOK ==
  /\ session \in {"none", "open", "refused"}
  /\ removals \subseteq Tracks
  /\ additions \in BoundedSeq(MediaKinds, MaxAdditions)
  /\ DOMAIN playlistEdits \subseteq Ids
  /\ \A id \in DOMAIN playlistEdits : playlistEdits[id] \in PlaylistEdits

\* The queue implements the store: whatever the order of the calls, what will
\* be staged is what applying each successful call at once would have given
\* (rename_playlist, set_playlist_tracks and delete_playlist merge edits).
ActsImmediately == Store!StoreSpec

\* Every identity and library check of staging is decided when the session is
\* opened: an open session never fails to stage for the lack of one, after
\* tracks have been copied and databases written.
ReadyToStage == staged \notin {"unknown_profile", "no_library", "no_identity"}

\* A queued edit cannot name both a playlist of the library and a new one: a
\* creation that is cancelled and an edit of the library never share an id.
CreationsAreNew ==
  \A id \in DOMAIN playlistEdits :
    playlistEdits[id].op = "create" <=> id \notin DOMAIN InitialPlaylists
==============================================================================
