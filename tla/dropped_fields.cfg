CONSTANTS
  SortKey <- MCSortKey
  Letter <- MCLetter
  NoName = ""
  PodcastId = 9
  InitialDatabases <- MCDatabases
  Layouts = {"plain"}
  Containers = {"iTunesDB"}
  NewPids <- MCNewPids
  Additions <- MCAdditions
  PlaylistEdits <- MCPlaylistEdits
  Removals <- MCRemovals
  MaxAdditions = 1
  MaxEdits = 2
SPECIFICATION Spec
CHECK_DEADLOCK FALSE
INVARIANTS IndexesSorted
