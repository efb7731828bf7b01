CONSTANTS
  SortKey <- MCSortKey
  StoredKey <- MCStoredKey
  NoName = ""
  MasterList = 100
  PodcastList = 101
  Companions = {"location", "avformat_info", "podcast_info", "item_stats"}
  InitialDb <- MCDb
  ItemPids = {4, 5}
  Additions <- MCAdditions
  PlaylistEdits <- MCPlaylistEdits
  MaxAdditions = 2
  MaxEdits = 2
SPECIFICATION Spec
CHECK_DEADLOCK FALSE
INVARIANTS RefsIntact CountsExact RowsEarned BrowseSorted OwnWorkAccepted SoundRequestsPass AlbumFollowsPlainArtist
