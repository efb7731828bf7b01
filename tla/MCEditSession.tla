---------------------------- MODULE MCEditSession ----------------------------
(* Two tracks, one of them without media; a master, a smart and an ordinary   *)
(* playlist in the library, and one id left for new playlists.               *)
EXTENDS EditSession

MCMemberships == {<<"t1", "t2">>, <<"t2", "t2">>}
MCPlaylists ==
  ("master" :> [name |-> "iPod", members |-> <<"t1", "t2">>, hidden |-> TRUE, smart |-> FALSE]) @@
  ("smart" :> [name |-> "recent", members |-> <<"t1">>, hidden |-> FALSE, smart |-> TRUE]) @@
  ("mix" :> [name |-> "mix", members |-> <<"t2">>, hidden |-> FALSE, smart |-> FALSE])

==============================================================================
