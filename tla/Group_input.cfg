SPECIFICATION Spec
CONSTANTS
  RtmpPubs = {p1, p2}
  RtspPubs = {r1}
  RtmpSubs = {}
  HttpSubs = {h1}
  RtspSubs = {t1}
  Pulls = {q1}
  Pushers = {}
  Urls = {}
  HlsEnable = TRUE
  RelayPullEnable = TRUE
  CheckInterval = 2
  None = None
INVARIANTS
  AtMostOneInput
  NoGhostSession
  NoLostSession
  CacheOfInput
PROPERTIES
  InputSlot
SYMMETRY Symmetry
CHECK_DEADLOCK FALSE
