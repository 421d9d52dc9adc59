SPECIFICATION ReceiverSpec
CONSTANTS
  Window = 16
  First = 60
  Frames <- MixedFrames
  maxSize = 6
  Late = 3
  MaxDups = 1
  Byte = 8
  MaxReports = 1
INVARIANTS
  FramesWhole
  OutputInOrder
  BufferSound
  LossTrue
CHECK_DEADLOCK FALSE
