CONSTANTS
  Tracks = {"t1", "t2"}
  MissingMedia = {"t2"}
  Ids = {"master", "smart", "mix", "n1"}
  Names = {"a", "b"}
  Memberships <- MCMemberships
  InitialPlaylists <- MCPlaylists
  Unset = Unset
  MaxAdditions = 1
SPECIFICATION Spec
CHECK_DEADLOCK FALSE
INVARIANTS TypeOK ReadyToStage CreationsAreNew
PROPERTY ActsImmediately
