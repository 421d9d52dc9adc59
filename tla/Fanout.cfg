SPECIFICATION FanSpec
CONSTANTS
  r = r
  f = f
  t = t
  Numbers = {1, 2, 3, 4, 5, 6}
  HeaderKinds = {"vsh", "ash"}
  HeaderOrder <- MCOrder
  Headers <- MCHeaders
  Keys <- MCKeys
  Others <- MCOthers
  Video <- MCVideo
  VideoHeader = "vsh"
  GopNum = 1
  MaxGopLen = 6
  None = None
  RtmpSubs = {}
  FlvSubs = {f}
  TsSubs = {t}
  Locked = TRUE
  HeadersChange = FALSE
  MaxFed = 6
  MaxInputs = 2
  MaxPlayers = 1
INVARIANTS EachMessageOnce HeadersBeforeMedia StartsAtKeyFrame
PROPERTIES ImplementsWindow
CHECK_DEADLOCK FALSE
