SPECIFICATION TsSpec
CONSTANTS
  PacketSize = 188
  Sizes <- MCSizes
  Highs = {0}
  SmallKeys = FALSE
  FirstCCs = {0, 254}
  MaxFrames = 2
INVARIANTS
  CarriedWhole
CHECK_DEADLOCK FALSE
