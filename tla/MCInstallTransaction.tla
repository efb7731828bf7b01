------------------------ MODULE MCInstallTransaction ------------------------
EXTENDS RestorableInvariant
\* A track added to a Classic: its media, a grown thumbnail file, the database.
AddTrack == <<"new", "append", "replace">>
\* The same with a second replaced file (ArtworkDB) before the database.
AddTrackWithArt == <<"new", "append", "replace", "replace">>
\* A removal on a Nano 7G, reduced to one database companion.
OneCompanion == <<"replace">>
=============================================================================
