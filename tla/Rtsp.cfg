SPECIFICATION FairSpec
CONSTANTS
  c1 = c1
  c2 = c2
  OwnConns = {c1}
  PeerConns = {c2}
  Media = {"video", "audio"}
  QuietWhenDropped = TRUE
  DoTimeout = FALSE
  Transports <- OneOverTCP
  MaxMedia = 1
  OneRole = TRUE
  None = None
INVARIANTS SessionsReleased ChannelsAgree
PROPERTIES DoEnds EndTold
CHECK_DEADLOCK FALSE
