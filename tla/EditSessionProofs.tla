--------------------------- MODULE EditSessionProofs ---------------------------
(* Proofs that the queue of an edit session implements PlaylistStore, and that *)
(* a session that opened is ready to stage, for every library and every order  *)
(* of calls.                                                                   *)
EXTENDS EditSession, SequenceTheorems, TLAPS

\* A queued creation is complete and new; every other edit is of a playlist of
\* the library that may be edited.
EditSound(id, e) ==
  /\ e \in PlaylistEdits
  /\ e.op = "create" => id \notin DOMAIN InitialPlaylists /\ e.name # Unset /\ e.members # Unset
  /\ e.op # "create" => RequireEditable(id)

\* The inductive invariant: the queue, and the device of an open session.
QueueSound ==
  /\ DOMAIN playlistEdits \subseteq Ids
  /\ playlistEdits = [id \in DOMAIN playlistEdits |-> playlistEdits[id]]
  /\ \A id \in DOMAIN playlistEdits : EditSound(id, playlistEdits[id])

SessionSound ==
  /\ session \in {"none", "open", "refused"}
  /\ session = "open" => MayOpen
  /\ ReadyToStage

ListsTyped ==
  /\ removals \subseteq Tracks
  /\ additions \in BoundedSeq(MediaKinds, MaxAdditions)

SInv == QueueSound /\ SessionSound /\ ListsTyped

\* How the calls change the queue: one edit is put, or one is taken back.
PutEdit(id, e) ==
  /\ DOMAIN playlistEdits' = DOMAIN playlistEdits \cup {id}
  /\ playlistEdits' = [x \in DOMAIN playlistEdits' |-> playlistEdits'[x]]
  /\ playlistEdits'[id] = e
  /\ \A x \in DOMAIN playlistEdits \ {id} : playlistEdits'[x] = playlistEdits[x]

------------------------------------------------------------------------------
\* Put adds an edit to the queue, or replaces one.
LEMMA PutPuts ==
  ASSUME NEW id, NEW e, Put(id, e)
  PROVE  PutEdit(id, e)
BY DEF Put, PutEdit

\* Changing the name in a queued edit is putting the edit with that name.
LEMMA NamePuts ==
  ASSUME NEW id \in DOMAIN playlistEdits, NEW name, QueueSound,
         playlistEdits' = [playlistEdits EXCEPT ![id].name = name]
  PROVE  PutEdit(id, [op |-> playlistEdits[id].op, name |-> name, members |-> playlistEdits[id].members])
<1>1. playlistEdits[id] \in PlaylistEdits
  BY DEF QueueSound, EditSound
<1>2. [playlistEdits[id] EXCEPT !.name = name]
        = [op |-> playlistEdits[id].op, name |-> name, members |-> playlistEdits[id].members]
  BY <1>1 DEF PlaylistEdits
<1>3. playlistEdits' = [x \in DOMAIN playlistEdits |->
                          IF x = id THEN [playlistEdits[id] EXCEPT !.name = name] ELSE playlistEdits[x]]
  BY DEF QueueSound
<1>q. QED BY <1>2, <1>3 DEF PutEdit

\* The same for the members of a queued edit.
LEMMA MembersPut ==
  ASSUME NEW id \in DOMAIN playlistEdits, NEW members, QueueSound,
         playlistEdits' = [playlistEdits EXCEPT ![id].members = members]
  PROVE  PutEdit(id, [op |-> playlistEdits[id].op, name |-> playlistEdits[id].name, members |-> members])
<1>1. playlistEdits[id] \in PlaylistEdits
  BY DEF QueueSound, EditSound
<1>2. [playlistEdits[id] EXCEPT !.members = members]
        = [op |-> playlistEdits[id].op, name |-> playlistEdits[id].name, members |-> members]
  BY <1>1 DEF PlaylistEdits
<1>3. playlistEdits' = [x \in DOMAIN playlistEdits |->
                          IF x = id THEN [playlistEdits[id] EXCEPT !.members = members] ELSE playlistEdits[x]]
  BY DEF QueueSound
<1>q. QED BY <1>2, <1>3 DEF PutEdit

\* A sound edit put into a sound queue leaves it sound.
LEMMA PutKeepsQueue ==
  ASSUME NEW id \in Ids, NEW e, QueueSound, PutEdit(id, e), EditSound(id, e)
  PROVE  QueueSound'
<1>1. \A x \in DOMAIN playlistEdits' : EditSound(x, playlistEdits'[x])
  BY DEF QueueSound, PutEdit
<1>q. QED BY <1>1 DEF QueueSound, PutEdit, EditSound, RequireEditable

\* A queued edit that changes the name stays sound.
LEMMA RenamedSound ==
  ASSUME NEW id, NEW e, NEW name \in Names, EditSound(id, e)
  PROVE  EditSound(id, [op |-> e.op, name |-> name, members |-> e.members])
BY SessionAssumptions DEF EditSound, PlaylistEdits

\* So does one that changes the members.
LEMMA RefilledSound ==
  ASSUME NEW id, NEW e, NEW members \in Memberships, EditSound(id, e)
  PROVE  EditSound(id, [op |-> e.op, name |-> e.name, members |-> members])
BY SessionAssumptions DEF EditSound, PlaylistEdits

------------------------------------------------------------------------------
\* What each call does to the queue, in terms of PutEdit.

\* create_playlist puts a complete edit under an id nothing has.
LEMMA CreateStep ==
  ASSUME NEW id \in Ids, NEW name \in Names, NEW members \in Memberships,
         CreatePlaylist(id, name, members)
  PROVE  /\ id \notin DOMAIN InitialPlaylists \cup DOMAIN playlistEdits
         /\ PutEdit(id, Create(name, members))
         /\ EditSound(id, Create(name, members))
<1>1. Create(name, members) \in PlaylistEdits
  BY DEF Create, PlaylistEdits
<1>2. EditSound(id, Create(name, members))
  BY <1>1, SessionAssumptions DEF EditSound, Create, CreatePlaylist
<1>q. QED BY <1>2, PutPuts DEF CreatePlaylist

\* rename_playlist puts the edit that was queued, or an empty update, with the
\* new name.
LEMMA RenameStep ==
  ASSUME NEW id \in Ids, NEW name \in Names, QueueSound, RenamePlaylist(id, name)
  PROVE  \E e : /\ PutEdit(id, [e EXCEPT !.name = name])
                /\ EditSound(id, [e EXCEPT !.name = name])
                /\ e = IF Queued(id) THEN playlistEdits[id] ELSE Update(Unset, Unset)
                /\ e.op # "delete"
                /\ Queued(id) \/ RequireEditable(id)
<1>1. CASE Queued(id)
  <2> DEFINE new == [op |-> playlistEdits[id].op, name |-> name, members |-> playlistEdits[id].members]
  <2>1. /\ playlistEdits[id].op # "delete"
        /\ playlistEdits' = [playlistEdits EXCEPT ![id].name = name]
        /\ id \in DOMAIN playlistEdits
    BY <1>1 DEF RenamePlaylist, Queued
  <2>2. EditSound(id, playlistEdits[id]) /\ playlistEdits[id] \in PlaylistEdits
    BY <2>1 DEF QueueSound, EditSound
  <2>3. new = [playlistEdits[id] EXCEPT !.name = name]
    BY <2>2 DEF PlaylistEdits
  <2>4. PutEdit(id, new) /\ EditSound(id, new)
    BY <2>1, <2>2, NamePuts, RenamedSound
  <2>q. QED BY <1>1, <2>1, <2>3, <2>4
<1>2. CASE ~Queued(id)
  <2> DEFINE none == Update(Unset, Unset)
  <2>1. Update(name, Unset) = [none EXCEPT !.name = name] /\ none.op # "delete"
    BY DEF Update
  <2>2. RequireEditable(id) /\ PutEdit(id, Update(name, Unset))
    BY <1>2, PutPuts DEF RenamePlaylist
  <2>3. EditSound(id, Update(name, Unset))
    BY <2>2 DEF EditSound, Update, PlaylistEdits
  <2>q. QED BY <1>2, <2>1, <2>2, <2>3
<1>q. QED BY <1>1, <1>2

\* set_playlist_tracks does the same with the members.
LEMMA MembersStep ==
  ASSUME NEW id \in Ids, NEW members \in Memberships, QueueSound, SetPlaylistTracks(id, members)
  PROVE  \E e : /\ PutEdit(id, [e EXCEPT !.members = members])
                /\ EditSound(id, [e EXCEPT !.members = members])
                /\ e = IF Queued(id) THEN playlistEdits[id] ELSE Update(Unset, Unset)
                /\ e.op # "delete"
                /\ Queued(id) \/ RequireEditable(id)
<1>1. CASE Queued(id)
  <2> DEFINE new == [op |-> playlistEdits[id].op, name |-> playlistEdits[id].name, members |-> members]
  <2>1. /\ playlistEdits[id].op # "delete"
        /\ playlistEdits' = [playlistEdits EXCEPT ![id].members = members]
        /\ id \in DOMAIN playlistEdits
    BY <1>1 DEF SetPlaylistTracks, Queued
  <2>2. EditSound(id, playlistEdits[id]) /\ playlistEdits[id] \in PlaylistEdits
    BY <2>1 DEF QueueSound, EditSound
  <2>3. new = [playlistEdits[id] EXCEPT !.members = members]
    BY <2>2 DEF PlaylistEdits
  <2>4. PutEdit(id, new) /\ EditSound(id, new)
    BY <2>1, <2>2, MembersPut, RefilledSound
  <2>q. QED BY <1>1, <2>1, <2>3, <2>4
<1>2. CASE ~Queued(id)
  <2> DEFINE none == Update(Unset, Unset)
  <2>1. Update(Unset, members) = [none EXCEPT !.members = members] /\ none.op # "delete"
    BY DEF Update
  <2>2. RequireEditable(id) /\ PutEdit(id, Update(Unset, members))
    BY <1>2, PutPuts DEF SetPlaylistTracks
  <2>3. EditSound(id, Update(Unset, members))
    BY <2>2 DEF EditSound, Update, PlaylistEdits
  <2>q. QED BY <1>2, <2>1, <2>2, <2>3
<1>q. QED BY <1>1, <1>2

\* What delete_playlist does to the queue when the queued edit is a creation.
TakeBack(id) ==
  /\ Queued(id) /\ playlistEdits[id].op = "create"
  /\ playlistEdits' = [x \in DOMAIN playlistEdits \ {id} |-> playlistEdits[x]]

\* delete_playlist takes a creation back, keeps a queued deletion, and otherwise
\* puts a deletion.
LEMMA DeleteStep ==
  ASSUME NEW id \in Ids, QueueSound, DeletePlaylist(id)
  PROVE  \/ TakeBack(id)
         \/ playlistEdits' = playlistEdits
         \/ /\ PutEdit(id, Delete) /\ EditSound(id, Delete)
            /\ ~(Queued(id) /\ playlistEdits[id].op \in {"create", "delete"})
<1>1. CASE Queued(id) /\ playlistEdits[id].op = "create"
  BY <1>1 DEF DeletePlaylist, TakeBack
<1>2. CASE Queued(id) /\ playlistEdits[id].op = "delete"
  BY <1>2 DEF DeletePlaylist
<1>3. CASE ~(Queued(id) /\ playlistEdits[id].op \in {"create", "delete"})
  <2>1. RequireEditable(id) /\ Put(id, Delete)
    BY <1>3 DEF DeletePlaylist
  <2>2. EditSound(id, Delete)
    BY <2>1 DEF EditSound, Delete, PlaylistEdits
  <2>q. QED BY <1>3, <2>1, <2>2, PutPuts
<1>q. QED BY <1>1, <1>2, <1>3

\* No call leaves the queue unsound.
LEMMA QueueStaysSound ==
  ASSUME QueueSound, [Next]_vars
  PROVE  QueueSound'
<1>1. CASE UNCHANGED playlistEdits
  BY <1>1 DEF QueueSound, EditSound, RequireEditable
<1>2. ASSUME NEW id \in Ids, NEW name \in Names, NEW members \in Memberships,
             CreatePlaylist(id, name, members)
      PROVE  QueueSound'
  BY <1>2, CreateStep, PutKeepsQueue
<1>3. ASSUME NEW id \in Ids, NEW name \in Names, RenamePlaylist(id, name)
      PROVE  QueueSound'
  BY <1>3, RenameStep, PutKeepsQueue
<1>4. ASSUME NEW id \in Ids, NEW members \in Memberships, SetPlaylistTracks(id, members)
      PROVE  QueueSound'
  BY <1>4, MembersStep, PutKeepsQueue
<1>5. ASSUME NEW id \in Ids, DeletePlaylist(id)
      PROVE  QueueSound'
  <2>1. CASE TakeBack(id)
    BY <2>1 DEF TakeBack, QueueSound, EditSound, RequireEditable
  <2>q. QED BY <1>1, <1>5, <2>1, DeleteStep, PutKeepsQueue
<1>q. QED
  BY <1>1, <1>2, <1>3, <1>4, <1>5
  DEF Next, vars, queues, opened, Open, Call, SetMediaPolicy, RemoveMissingTracks, RemoveTrack, AddTrack, Stage

\* Opening decides what staging needs: with MayOpen none of its identity and
\* library errors is reachable.
LEMMA SessionStaysSound ==
  ASSUME SessionSound, [Next]_vars
  PROVE  SessionSound'
<1>1. CASE UNCHANGED <<session, device, staged>>
  BY <1>1 DEF SessionSound, MayOpen, ReadyToStage
<1>2. CASE Open
  BY <1>2 DEF Open, SessionSound, MayOpen, ReadyToStage
<1>3. CASE session = "open" /\ UNCHANGED opened /\ Stage
  <2>1. MayOpen /\ UNCHANGED <<device, session>>
    BY <1>3 DEF SessionSound, opened
  <2>2. device.profile # "unknown" /\ device.library /\ ~(NeedsGuid(device.profile) /\ ~device.guid)
    BY <2>1 DEF MayOpen
  <2>3. ReadyToStage'
    BY <1>3, <2>2 DEF Stage, ReadyToStage
  <2>q. QED BY <2>1, <2>3 DEF SessionSound, MayOpen
<1>q. QED
  BY <1>1, <1>2, <1>3
  DEF Next, vars, opened, Call, SetMediaPolicy, RemoveMissingTracks, RemoveTrack, AddTrack,
      CreatePlaylist, RenamePlaylist, SetPlaylistTracks, DeletePlaylist

\* Appending one element to a short sequence keeps it bounded.
LEMMA AppendBounded ==
  ASSUME NEW S, NEW n \in Nat, NEW s \in BoundedSeq(S, n), NEW x \in S, Len(s) < n
  PROVE  Append(s, x) \in BoundedSeq(S, n)
<1>1. PICK m \in 0..n : s \in [1..m -> S]
  BY DEF BoundedSeq, SeqOf
<1>2. Len(s) = m /\ s \in Seq(S)
  BY <1>1
<1>3. Append(s, x) \in [1..(m + 1) -> S]
  <2>1. Append(s, x) \in Seq(S) /\ Len(Append(s, x)) = m + 1
    BY <1>2, AppendProperties
  <2>q. QED BY <2>1, LenProperties
<1>4. m + 1 \in 0..n
  BY <1>1, <1>2
<1>q. QED BY <1>3, <1>4 DEF BoundedSeq, SeqOf

\* The lists of removals and additions stay within the library and the bound.
LEMMA ListsStayTyped ==
  ASSUME ListsTyped, [Next]_vars
  PROVE  ListsTyped'
<1>1. CASE UNCHANGED <<removals, additions>>
  BY <1>1 DEF ListsTyped
<1>2. CASE RemoveMissingTracks
  BY <1>2, SessionAssumptions DEF RemoveMissingTracks, ListsTyped
<1>3. ASSUME NEW t \in Tracks, RemoveTrack(t)
      PROVE  ListsTyped'
  BY <1>3 DEF RemoveTrack, ListsTyped
<1>4. ASSUME NEW kind \in MediaKinds, AddTrack(kind)
      PROVE  ListsTyped'
  BY <1>4, AppendBounded, SessionAssumptions DEF AddTrack, ListsTyped
<1>q. QED
  BY <1>1, <1>2, <1>3, <1>4
  DEF Next, vars, queues, Open, Call, SetMediaPolicy, Stage,
      CreatePlaylist, RenamePlaylist, SetPlaylistTracks, DeletePlaylist

\* A session starts with an empty queue.
LEMMA InitSound == Init => SInv
<1> SUFFICES ASSUME Init PROVE SInv
  OBVIOUS
<1>1. QueueSound
  BY DEF Init, QueueSound
<1>2. SessionSound
  BY DEF Init, SessionSound, ReadyToStage
<1>3. ListsTyped
  <2>1. <<>> \in [1..0 -> MediaKinds] /\ 0 \in 0..MaxAdditions
    BY SessionAssumptions
  <2>q. QED BY <2>1 DEF Init, ListsTyped, BoundedSeq, SeqOf
<1>q. QED BY <1>1, <1>2, <1>3 DEF SInv

\* The invariant of EditSession: the queue is sound in every reachable state.
THEOREM SessionInvariant == Spec => []SInv
<1>1. SInv /\ [Next]_vars => SInv'
  BY QueueStaysSound, SessionStaysSound, ListsStayTyped DEF SInv
<1>q. QED BY <1>1, InitSound, PTL DEF Spec

\* Every variable of a session has its type.
THEOREM SessionTypes == Spec => []TypeOK
<1>1. SInv => TypeOK
  BY DEF SInv, QueueSound, EditSound, SessionSound, ListsTyped, TypeOK
<1>q. QED BY <1>1, SessionInvariant, PTL

\* EditSession::new already decides what stage needs of the device's identity,
\* so no staging of an open session fails for it.
THEOREM OpenIsReady == Spec => []ReadyToStage
<1>1. SInv => ReadyToStage
  BY DEF SInv, SessionSound
<1>q. QED BY <1>1, SessionInvariant, PTL

\* create_playlist never reuses an id of the library, and only creations are
\* queued under a new id.
THEOREM CreationsStayNew == Spec => []CreationsAreNew
<1>1. SInv => CreationsAreNew
  BY DEF SInv, QueueSound, EditSound, RequireEditable, CreationsAreNew
<1>q. QED BY <1>1, SessionInvariant, PTL

------------------------------------------------------------------------------
\* The refinement: how putting an edit and taking one back change what the
\* queue asks for.

\* A deletion put into the queue removes the playlist from what is asked for.
LEMMA PutDeletion ==
  ASSUME NEW id, PutEdit(id, Delete), id \in DOMAIN InitialPlaylists
  PROVE  RequestedPlaylists' = [p \in DOMAIN RequestedPlaylists \ {id} |-> RequestedPlaylists[p]]
<1>1. Deleted' = Deleted \cup {id}
  BY DEF Deleted, PutEdit, Delete
<1>2. DOMAIN RequestedPlaylists' = DOMAIN RequestedPlaylists \ {id}
  BY <1>1 DEF RequestedPlaylists, PutEdit
<1>3. ASSUME NEW p \in DOMAIN RequestedPlaylists \ {id}
      PROVE  Edited(p)' = Edited(p)
  BY <1>3 DEF RequestedPlaylists, Edited, Queued, PutEdit, Opened, Locked
<1>q. QED BY <1>2, <1>3 DEF RequestedPlaylists

\* Any other edit put into the queue changes that playlist and no other.
LEMMA PutOther ==
  ASSUME NEW id, NEW e, PutEdit(id, e), e.op # "delete",
         Queued(id) => playlistEdits[id].op # "delete"
  PROVE  RequestedPlaylists' = [p \in DOMAIN RequestedPlaylists \cup {id} |->
                                  IF p = id THEN Edited(id)' ELSE RequestedPlaylists[p]]
<1>1. Deleted' = Deleted /\ id \notin Deleted
  BY DEF Deleted, PutEdit, Queued
<1>2. DOMAIN RequestedPlaylists' = DOMAIN RequestedPlaylists \cup {id}
  BY <1>1 DEF RequestedPlaylists, PutEdit
<1>3. ASSUME NEW p \in DOMAIN RequestedPlaylists, p # id
      PROVE  Edited(p)' = Edited(p)
  BY <1>3 DEF RequestedPlaylists, Edited, Queued, PutEdit, Opened, Locked
<1>q. QED BY <1>1, <1>2, <1>3 DEF RequestedPlaylists

\* A creation taken back leaves no trace.
LEMMA TakenBack ==
  ASSUME NEW id, QueueSound, TakeBack(id)
  PROVE  RequestedPlaylists' = [p \in DOMAIN RequestedPlaylists \ {id} |-> RequestedPlaylists[p]]
<1>1. Deleted' = Deleted /\ id \notin DOMAIN InitialPlaylists
  BY DEF Deleted, TakeBack, Queued, QueueSound, EditSound
<1>2. DOMAIN RequestedPlaylists' = DOMAIN RequestedPlaylists \ {id}
  BY <1>1 DEF RequestedPlaylists, TakeBack, Queued
<1>3. ASSUME NEW p \in DOMAIN RequestedPlaylists \ {id}
      PROVE  Edited(p)' = Edited(p)
  BY <1>3 DEF RequestedPlaylists, Edited, Queued, TakeBack, Opened, Locked
<1>q. QED BY <1>2, <1>3 DEF RequestedPlaylists

\* What may be edited through the queue is an unlocked playlist of the store.
LEMMA EditableInStore ==
  ASSUME NEW id, QueueSound, Queued(id) \/ RequireEditable(id),
         ~(Queued(id) /\ playlistEdits[id].op = "delete")
  PROVE  /\ id \in DOMAIN RequestedPlaylists
         /\ RequestedPlaylists[id] = Edited(id)
         /\ Store!Editable(id)
<1>1. id \in DOMAIN RequestedPlaylists /\ RequestedPlaylists[id] = Edited(id)
  BY DEF RequestedPlaylists, Deleted, Queued, RequireEditable
<1>2. ~Edited(id).locked
  <2>1. CASE Queued(id) /\ playlistEdits[id].op = "create"
    BY <2>1 DEF Edited
  <2>2. CASE ~(Queued(id) /\ playlistEdits[id].op = "create")
    <3>1. RequireEditable(id)
      BY <2>2 DEF QueueSound, EditSound, Queued
    <3>2. Edited(id).locked = Locked(id)
      BY <2>2 DEF Edited, Opened
    <3>q. QED BY <3>1, <3>2 DEF RequireEditable, Locked
  <2>q. QED BY <2>1, <2>2
<1>q. QED BY <1>1, <1>2 DEF Store!Editable

\* Changing one field of a playlist is building it with the new value.
LEMMA ChangedPlaylist ==
  ASSUME NEW n, NEW m, NEW l, NEW new
  PROVE  /\ [[name |-> n, members |-> m, locked |-> l] EXCEPT !.name = new]
              = [name |-> new, members |-> m, locked |-> l]
         /\ [[name |-> n, members |-> m, locked |-> l] EXCEPT !.members = new]
              = [name |-> n, members |-> new, locked |-> l]
OBVIOUS

\* rename_playlist is a rename of the store.
LEMMA RenameImplements ==
  ASSUME NEW id \in Ids, NEW name \in Names, QueueSound, RenamePlaylist(id, name)
  PROVE  Store!StoreRename(id, name)
<1>1. PICK e : /\ PutEdit(id, [e EXCEPT !.name = name])
               /\ EditSound(id, [e EXCEPT !.name = name])
               /\ e = IF Queued(id) THEN playlistEdits[id] ELSE Update(Unset, Unset)
               /\ e.op # "delete"
               /\ Queued(id) \/ RequireEditable(id)
  BY RenameStep
<1> DEFINE new == [op |-> e.op, name |-> name, members |-> e.members]
<1>2. e \in PlaylistEdits /\ new = [e EXCEPT !.name = name]
  BY <1>1 DEF QueueSound, EditSound, Update, PlaylistEdits, Queued
<1>3. PutEdit(id, new) /\ new.op # "delete" /\ name # Unset
  BY <1>1, <1>2, SessionAssumptions
<1>4. Edited(id)' = [Edited(id) EXCEPT !.name = name]
  <2>1. playlistEdits'[id] = new /\ id \in DOMAIN playlistEdits'
    BY <1>3 DEF PutEdit
  <2>2. CASE Queued(id) /\ e.op = "create"
    <3>0. PICK free : free = FALSE
      OBVIOUS
    <3>1. Edited(id) = [name |-> e.name, members |-> e.members, locked |-> free]
      BY <1>1, <2>2, <3>0 DEF Edited
    <3>2. Edited(id)' = [name |-> name, members |-> e.members, locked |-> FALSE]
      BY <2>1, <2>2 DEF Edited, Queued
    <3>3. Edited(id)' = [name |-> name, members |-> e.members, locked |-> free]
      BY <3>0, <3>2, Zenon
    <3>q. QED BY <3>1, <3>3, ChangedPlaylist
  <2>3. CASE Queued(id) /\ e.op # "create"
    BY <1>1, <1>3, <2>1, <2>3 DEF Edited, Queued, Over, Locked
  <2>4. CASE ~Queued(id)
    BY <1>1, <1>3, <2>1, <2>4 DEF Edited, Queued, Over, Locked, Opened, Update
  <2>q. QED BY <2>2, <2>3, <2>4
<1>5. RequestedPlaylists' = [p \in DOMAIN RequestedPlaylists \cup {id} |->
                               IF p = id THEN Edited(id)' ELSE RequestedPlaylists[p]]
  BY <1>1, <1>3, PutOther DEF Queued
<1>6. id \in DOMAIN RequestedPlaylists /\ RequestedPlaylists[id] = Edited(id) /\ Store!Editable(id)
  BY <1>1, EditableInStore
<1>7. RequestedPlaylists' = [RequestedPlaylists EXCEPT ![id].name = name]
  BY <1>4, <1>5, <1>6 DEF RequestedPlaylists
<1>q. QED BY <1>6, <1>7 DEF Store!StoreRename

\* set_playlist_tracks is a change of members of the store.
LEMMA MembersImplements ==
  ASSUME NEW id \in Ids, NEW members \in Memberships, QueueSound, SetPlaylistTracks(id, members)
  PROVE  Store!StoreSetTracks(id, members)
<1>1. PICK e : /\ PutEdit(id, [e EXCEPT !.members = members])
               /\ EditSound(id, [e EXCEPT !.members = members])
               /\ e = IF Queued(id) THEN playlistEdits[id] ELSE Update(Unset, Unset)
               /\ e.op # "delete"
               /\ Queued(id) \/ RequireEditable(id)
  BY MembersStep
<1> DEFINE new == [op |-> e.op, name |-> e.name, members |-> members]
<1>2. e \in PlaylistEdits /\ new = [e EXCEPT !.members = members]
  BY <1>1 DEF QueueSound, EditSound, Update, PlaylistEdits, Queued
<1>3. PutEdit(id, new) /\ new.op # "delete" /\ members # Unset
  BY <1>1, <1>2, SessionAssumptions
<1>4. Edited(id)' = [Edited(id) EXCEPT !.members = members]
  <2>1. playlistEdits'[id] = new /\ id \in DOMAIN playlistEdits'
    BY <1>3 DEF PutEdit
  <2>2. CASE Queued(id) /\ e.op = "create"
    <3>0. PICK free : free = FALSE
      OBVIOUS
    <3>1. Edited(id) = [name |-> e.name, members |-> e.members, locked |-> free]
      BY <1>1, <2>2, <3>0 DEF Edited
    <3>2. Edited(id)' = [name |-> e.name, members |-> members, locked |-> FALSE]
      BY <2>1, <2>2 DEF Edited, Queued
    <3>3. Edited(id)' = [name |-> e.name, members |-> members, locked |-> free]
      BY <3>0, <3>2, Zenon
    <3>q. QED BY <3>1, <3>3, ChangedPlaylist
  <2>3. CASE Queued(id) /\ e.op # "create"
    BY <1>1, <1>3, <2>1, <2>3 DEF Edited, Queued, Over, Locked
  <2>4. CASE ~Queued(id)
    BY <1>1, <1>3, <2>1, <2>4 DEF Edited, Queued, Over, Locked, Opened, Update
  <2>q. QED BY <2>2, <2>3, <2>4
<1>5. RequestedPlaylists' = [p \in DOMAIN RequestedPlaylists \cup {id} |->
                               IF p = id THEN Edited(id)' ELSE RequestedPlaylists[p]]
  BY <1>1, <1>3, PutOther DEF Queued
<1>6. id \in DOMAIN RequestedPlaylists /\ RequestedPlaylists[id] = Edited(id) /\ Store!Editable(id)
  BY <1>1, EditableInStore
<1>7. RequestedPlaylists' = [RequestedPlaylists EXCEPT ![id].members = members]
  BY <1>4, <1>5, <1>6 DEF RequestedPlaylists
<1>q. QED BY <1>6, <1>7 DEF Store!StoreSetTracks

\* create_playlist is a creation of the store.
LEMMA CreateImplements ==
  ASSUME NEW id \in Ids, NEW name \in Names, NEW members \in Memberships,
         CreatePlaylist(id, name, members)
  PROVE  Store!StoreCreate(id, name, members)
<1>1. /\ id \notin DOMAIN InitialPlaylists \cup DOMAIN playlistEdits
      /\ PutEdit(id, Create(name, members))
  BY CreateStep
<1>2. RequestedPlaylists' = [p \in DOMAIN RequestedPlaylists \cup {id} |->
                               IF p = id THEN Edited(id)' ELSE RequestedPlaylists[p]]
  BY <1>1, PutOther DEF Create, Queued
<1>3. Edited(id)' = Store!CreatedPlaylist(name, members)
  BY <1>1 DEF Edited, Queued, PutEdit, Create, Store!CreatedPlaylist
<1>4. id \notin DOMAIN RequestedPlaylists
  BY <1>1 DEF RequestedPlaylists
<1>q. QED BY <1>2, <1>3, <1>4 DEF Store!StoreCreate

\* delete_playlist is a deletion of the store, or repeats one.
LEMMA DeleteImplements ==
  ASSUME NEW id \in Ids, QueueSound, DeletePlaylist(id)
  PROVE  Store!StoreDelete(id) \/ UNCHANGED RequestedPlaylists
<1>1. CASE TakeBack(id)
  <2>1. Store!Editable(id)
    BY <1>1, EditableInStore DEF TakeBack
  <2>q. QED BY <1>1, <2>1, TakenBack DEF Store!StoreDelete
<1>2. CASE playlistEdits' = playlistEdits
  BY <1>2 DEF RequestedPlaylists, Deleted, Edited, Queued
<1>3. CASE /\ PutEdit(id, Delete) /\ EditSound(id, Delete)
           /\ ~(Queued(id) /\ playlistEdits[id].op \in {"create", "delete"})
  <2>1. RequireEditable(id)
    BY <1>3 DEF EditSound, Delete
  <2>2. Store!Editable(id)
    BY <1>3, <2>1, EditableInStore
  <2>q. QED BY <1>3, <2>1, <2>2, PutDeletion DEF Store!StoreDelete, RequireEditable
<1>q. QED BY <1>1, <1>2, <1>3, DeleteStep

\* Every step of a session is a step of the store, or none.
LEMMA StepImplements ==
  ASSUME QueueSound, [Next]_vars
  PROVE  [Store!StoreNext]_RequestedPlaylists
<1>1. CASE UNCHANGED playlistEdits
  BY <1>1 DEF RequestedPlaylists, Deleted, Edited, Queued
<1>2. ASSUME NEW id \in Ids, NEW name \in Names, NEW members \in Memberships,
             CreatePlaylist(id, name, members)
      PROVE  Store!StoreNext
  BY <1>2, CreateImplements DEF Store!StoreNext
<1>3. ASSUME NEW id \in Ids, NEW name \in Names, RenamePlaylist(id, name)
      PROVE  Store!StoreNext
  BY <1>3, RenameImplements DEF Store!StoreNext
<1>4. ASSUME NEW id \in Ids, NEW members \in Memberships, SetPlaylistTracks(id, members)
      PROVE  Store!StoreNext
  BY <1>4, MembersImplements DEF Store!StoreNext
<1>5. ASSUME NEW id \in Ids, DeletePlaylist(id)
      PROVE  Store!StoreNext \/ UNCHANGED RequestedPlaylists
  BY <1>5, DeleteImplements DEF Store!StoreNext
<1>q. QED
  BY <1>1, <1>2, <1>3, <1>4, <1>5
  DEF Next, vars, queues, opened, Open, Call, SetMediaPolicy, RemoveMissingTracks, RemoveTrack, AddTrack, Stage

\* The queue implements the store: what is staged is what applying every
\* successful call at once would have given, whatever the calls and their order.
THEOREM QueueImplementsStore == Spec => ActsImmediately
<1>1. Init => Store!StoreInit
  BY DEF Init, Store!StoreInit, RequestedPlaylists, Deleted, Edited, Queued
<1>2. SInv /\ [Next]_vars => [Store!StoreNext]_RequestedPlaylists
  BY StepImplements DEF SInv
<1>q. QED BY <1>1, <1>2, SessionInvariant, PTL DEF Spec, ActsImmediately, Store!StoreSpec
==============================================================================
