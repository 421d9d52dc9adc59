SPECIFICATION Spec
CONSTANTS
  MaxTs = 3
  TsMod = 8
  None = None
  audio = audio
  video = video
  control = control
  Csids = {audio, video}
  Control = control
  LocalChunkSize = 2
  defaultChunkSize = 1
  PeerSizes = {1, 3}
  Lens = {0, 1, 3}
  Timestamps = {1, 3, 5}
  MaxMsgs = 3
INVARIANTS
  InSync
PROPERTIES
  ImplementsChannel
CHECK_DEADLOCK FALSE
