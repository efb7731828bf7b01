CONSTANTS
  SortKey <- MCSortKey
  Letter <- MCLetter
  NoName = ""
  PodcastId = 9
  InitialDatabases <- MCDatabases
  Layouts = {"flat", "both", "reset", "unlisted", "empty", "early", "plain"}
  Containers = {"iTunesDB", "iTunesCDB"}
  NewPids <- MCNewPids
  Additions <- MCAdditions
  PlaylistEdits <- MCPlaylistEdits
  Removals <- MCRemovals
  MaxAdditions = 2
  MaxEdits = 2
SPECIFICATION Spec
CHECK_DEADLOCK FALSE
INVARIANTS TypeOK MasterComplete IndexesWhole IndexesSortedIfStored MembersExist UniversesAgree AlbumsResolve GroupsSound SoundRequestsPass CompanionFollows
