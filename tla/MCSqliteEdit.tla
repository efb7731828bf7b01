----------------------------- MODULE MCSqliteEdit -----------------------------
(* A library of three tracks: two on an album with a cover, by an artist and   *)
(* on an album that sort under other names, one on an album of its own.        *)
EXTENDS SqliteEdit, TLC

MCSortKey == ("" :> 0) @@ ("The A Team" :> 1) @@ ("The Doors" :> 3) @@ ("doors" :> 3) @@
             ("Bob Dylan" :> 2) @@ ("Rock" :> 1) @@ ("rock" :> 1) @@ ("Hits" :> 4) @@ ("HITS" :> 4) @@ ("Live" :> 5)

\* Of "The A Team" the sort name is "a team", whose key is "team".
MCStoredKey == ("The A Team" :> 6) @@ MCSortKey

Item(album, artist, genre, art, order, key, artistOrder) ==
  [album |-> album, artist |-> artist, genre |-> genre, art |-> art, size |-> 2, order |-> order,
   key |-> key, artistOrder |-> artistOrder]

List(name, hidden, smart, kind, parent) ==
  [name |-> name, hidden |-> hidden, smart |-> smart, kind |-> kind, parent |-> parent]

In(container, items) ==
  {[container |-> container, item |-> items[i], order |-> i - 1] : i \in DOMAIN items}

\* The iPod sorts artist 1 and its album under other names than their own.
MCDb ==
  [item |-> (1 :> Item(1, 1, 1, TRUE, 0, 2, 100)) @@ (2 :> Item(1, 1, 1, TRUE, 1, 2, 100)) @@
            (3 :> Item(2, 2, 1, FALSE, 2, 3, 200)),
   album |-> (1 :> [name |-> "Hits", sort |-> 6, artist |-> 1, count |-> 2, art |-> 1, order |-> 200, artistOrder |-> 200]) @@
             (2 :> [name |-> "Live", sort |-> 5, artist |-> 2, count |-> 1, art |-> 0, order |-> 100, artistOrder |-> 100]),
   artist |-> (1 :> [name |-> "Bob Dylan", sort |-> 5, albums |-> 1, art |-> 1, order |-> 200]) @@
              (2 :> [name |-> "The Doors", sort |-> 3, albums |-> 1, art |-> 0, order |-> 100]),
   genre |-> (1 :> [name |-> "Rock", albums |-> 2, artists |-> 2]),
   container |-> (100 :> List("iPod", TRUE, FALSE, "master", 0)) @@
                 (103 :> List("all", FALSE, FALSE, "list", 0)) @@
                 (102 :> List("mix", FALSE, FALSE, "list", 103)),
   ui |-> {100, 102, 103},
   members |-> In(100, <<1, 2, 3>>) \cup In(102, <<3, 1, 3>>),
   rows |-> {"location", "avformat_info"} \X {1, 2, 3},
   size |-> 6]

New(artist, album, genre, art, podcast) ==
  [pid |-> 0, artist |-> artist, album |-> album, genre |-> genre, art |-> art, podcast |-> podcast, size |-> 3]

MCAdditions == {New("doors", "HITS", "rock", TRUE, FALSE), New("The A Team", "Live", "", FALSE, TRUE),
                New("Bob Dylan", "HITS", "Rock", FALSE, FALSE), New("", "Live", "", FALSE, FALSE)}
MCPlaylistEdits == {{}, {[id |-> 102, op |-> "update", name |-> "", members |-> <<2, 2>>]},
                    {[id |-> 104, op |-> "create", name |-> "new", members |-> <<3>>],
                     [id |-> 103, op |-> "rename", name |-> "every", members |-> <<>>]},
                    {[id |-> 102, op |-> "delete", name |-> "", members |-> <<>>]}}
==============================================================================
