---------------------------- MODULE PlaylistStore ----------------------------
(* What an edit session promises about playlists: every call that succeeds   *)
(* behaves as if it had been applied to the library at once.  A session keeps *)
(* a queue instead; EditSession shows that the queue implements this module.  *)
CONSTANTS Ids,         \* persistent ids a playlist may have
          Names,       \* valid playlist names
          Memberships, \* the ordered memberships callers ask for
          InitialPlaylists   \* the playlists of the opened library

VARIABLE playlists     \* id |-> [name, members, locked]

StoreInit == playlists = InitialPlaylists

Editable(id) == id \in DOMAIN playlists /\ ~playlists[id].locked

CreatedPlaylist(name, members) == [name |-> name, members |-> members, locked |-> FALSE]

StoreCreate(id, name, members) ==
  /\ id \notin DOMAIN playlists
  /\ playlists' = [p \in DOMAIN playlists \cup {id} |->
                     IF p = id THEN CreatedPlaylist(name, members) ELSE playlists[p]]

StoreRename(id, name) ==
  /\ Editable(id)
  /\ playlists' = [playlists EXCEPT ![id].name = name]

StoreSetTracks(id, members) ==
  /\ Editable(id)
  /\ playlists' = [playlists EXCEPT ![id].members = members]

StoreDelete(id) ==
  /\ Editable(id)
  /\ playlists' = [p \in DOMAIN playlists \ {id} |-> playlists[p]]

StoreNext ==
  \E id \in Ids :
    \/ StoreDelete(id)
    \/ \E name \in Names : StoreRename(id, name)
    \/ \E members \in Memberships : StoreSetTracks(id, members)
    \/ \E name \in Names, members \in Memberships : StoreCreate(id, name, members)

StoreSpec == StoreInit /\ [][StoreNext]_playlists
==============================================================================
