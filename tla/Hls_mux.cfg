SPECIFICATION Spec
CONSTANTS
  Second = 4
  FragmentDuration = 4
  FragmentNum = 2
  ForceFactor = 2
  negMaxfraglen = 4
  maxAudioCacheDelayByAudio = 0
  maxAudioCacheDelayByVideo = 1
  Deltas <- Mixed
  MaxMsgs = 5
INVARIANTS
  PlaylistsTrue
  StandsAlone
  NoJumpInside
PROPERTIES
  NothingLost
CHECK_DEADLOCK FALSE
