CONSTANTS
  SortKey <- MCSortKey
  StoredKey <- MCStoredKey
  NoName = ""
  MasterList = 100
  PodcastList = 101
  Companions = {"location", "avformat_info", "podcast_info", "item_stats"}
  InitialDb <- MCDb
  ItemPids = {4, 5}
  Additions <- MCAdditions
  PlaylistEdits <- MCPlaylistEdits
  MaxAdditions = 1
  MaxEdits = 1
SPECIFICATION Spec
CHECK_DEADLOCK FALSE
INVARIANTS AlbumFollowsArtist
