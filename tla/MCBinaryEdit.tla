----------------------------- MODULE MCBinaryEdit -----------------------------
(* Three tracks, one of them an episode, in the layouts of playlist datasets,   *)
(* with and without each field, with long and with short records.               *)
EXTENDS BinaryEdit

CONSTANT Layouts   \* the databases to start from

MCSortKey == ("" :> 0) @@ ("Dio" :> 1) @@ ("The Doors" :> 2) @@ ("Dylan" :> 3) @@ ("Eno" :> 4) @@
             ("Hits" :> 5) @@ ("Show" :> 6) @@ ("Rock" :> 7) @@ ("X" :> 8) @@ ("Y" :> 9)
\* jump_letter keeps the article that sort_key strips.
MCLetter == ("" :> "0") @@ ("Dio" :> "D") @@ ("The Doors" :> "T") @@ ("Dylan" :> "D") @@ ("Eno" :> "E") @@
            ("Hits" :> "H") @@ ("Show" :> "S") @@ ("Rock" :> "R") @@ ("X" :> "X") @@ ("Y" :> "Y")

\* An absent text has no field.
Song(n, title, artist, genre, albumArtist) ==
  [pid |-> 10 + n, id |-> 50 + n,
   fields |-> FieldNames \ ((IF genre = "" THEN {"genre"} ELSE {})
                            \cup (IF albumArtist = "" THEN {"albumArtist"} ELSE {})),
   title |-> title, artist |-> artist, album |-> "Hits", genre |-> genre, albumArtist |-> albumArtist,
   number |-> 1, header |-> 584, kind |-> "song", albumId |-> 1, ref |-> IF artist = "X" THEN 1 ELSE 2]
Cast(n, title) == [Song(n, title, "Y", "", "") EXCEPT !.album = "Show", !.kind = "podcast", !.albumId = 2]
\* A record without room for an artist reference.
Short(t) == [t EXCEPT !.header = 328, !.ref = 0]

ThreeTracks(genre) == <<Song(1, "Dylan", "X", genre, "Y"), Song(2, "The Doors", "X", "", ""), Cast(3, "Dio")>>
ShortTracks == <<Short(Song(1, "Dylan", "X", "Rock", "")), Short(Song(2, "The Doors", "X", "", "")), Short(Cast(3, "Dio"))>>

MasterOf(tracks) ==
  [id |-> 1, role |-> "master", name |-> "iPod",
   items |-> [n \in DOMAIN tracks |-> MemberItem(tracks[n].id, n - 1)],
   index |-> [s \in Sorts |-> RebuiltIndex(tracks, s)]]
ListOf(id, role, ids) ==
  [id |-> id, role |-> role, name |-> "mix", items |-> [n \in DOMAIN ids |-> MemberItem(ids[n], n - 1)], index |-> <<>>]
GroupedOf(ids) ==
  [id |-> 4, role |-> "podcast", name |-> "mix", index |-> <<>>,
   items |-> <<Header(1)>> \o [n \in DOMAIN ids |-> Episode(ids[n], 1 + n, 1)]]

\* listed: the episodes the Podcasts list has, <<>> for no such list.
ListsOf(tracks, kind, listed) ==
  <<MasterOf(tracks)>>
  \o (IF tracks = <<>> THEN <<>> ELSE <<ListOf(2, "list", <<53, 51, 53>>)>>)
  \o (IF listed = <<>> THEN <<>> ELSE <<IF kind = 3 THEN GroupedOf(listed) ELSE ListOf(4, "podcast", listed)>>)

SmartDataset(tracks) ==
  [kind |-> 5, lists |-> IF tracks = <<>> THEN <<>> ELSE <<ListOf(3, "smart", <<51, 52>>)>>]

DatabaseOf(tracks, kinds, listed) ==
  [tracks |-> tracks,
   albums |-> <<[id |-> 1, name |-> "Hits", artist |-> ""], [id |-> 2, name |-> "Show", artist |-> "Y"]>>,
   datasets |-> [n \in DOMAIN kinds |-> [kind |-> kinds[n], lists |-> ListsOf(tracks, kinds[n], listed)]]
                \o <<SmartDataset(tracks)>>,
   count |-> Len(kinds) + 3, version |-> 48]

MCDatabases ==
  {CASE l = "flat"     -> DatabaseOf(ThreeTracks("Rock"), <<2>>, <<53>>)
     [] l = "both"     -> DatabaseOf(ThreeTracks("Rock"), <<3, 2>>, <<53>>)
     [] l = "reset"    -> DatabaseOf(ShortTracks, <<3>>, <<>>)
     [] l = "unlisted" -> DatabaseOf(ThreeTracks("Rock") \o <<Cast(4, "Eno")>>, <<2>>, <<>>)
     [] l = "empty"    -> DatabaseOf(<<>>, <<2, 3>>, <<>>)
     [] l = "early"    -> [DatabaseOf(<<>>, <<2, 3>>, <<>>) EXCEPT !.version = 18]
     [] l = "plain"    -> DatabaseOf(ThreeTracks(""), <<2>>, <<53>>) : l \in Layouts}

New(title, artist, albumArtist, genre, given, kind) ==
  [pid |-> 0, title |-> title, artist |-> artist, album |-> "Show", genre |-> genre, albumArtist |-> albumArtist,
   given |-> given, number |-> 1, kind |-> kind]
MCAdditions == {New("The Doors", "X", "", "Rock", {"genre", "albumArtist"}, "song"), New("Eno", "", "", "", {}, "podcast"),
                New("Dylan", "Y", "X", "Rock", {"genre", "albumArtist"}, "song")}

MCPlaylistEdits == {{}, {[id |-> 2, op |-> "update", name |-> "", members |-> <<12, 12>>]},
                    {[id |-> 5, op |-> "create", name |-> "new", members |-> <<11>>]},
                    {[id |-> 2, op |-> "delete", name |-> "", members |-> <<>>]},
                    {[id |-> 2, op |-> "rename", name |-> "new", members |-> <<>>]}}
NoPlaylistEdits == {{}}
MCRemovals == {{}, {12}, {13}, {11, 13}}
MCNewPids == <<21, 22>>
==============================================================================
