SPECIFICATION QueueSpec
CONSTANTS
  maxQueueSize = 3
  TsMod = 8
  Wrap <- Late
  start <- Starts
  Reads <- Interleaving
  MaxFed = 4
  LastClock = 3
  None = None
  tcp = tcp
  udpAudio = udpAudio
  udpVideo = udpVideo
INVARIANTS
  NothingLost
  InterleavedUnlessFull
CHECK_DEADLOCK FALSE
