SPECIFICATION FairSpec
CONSTANTS
  RtmpPubs = {p1}
  RtspPubs = {}
  RtmpSubs = {s1}
  HttpSubs = {}
  RtspSubs = {}
  Pulls = {q1}
  Pushers = {g1, g2}
  Urls = {u1}
  HlsEnable = FALSE
  RelayPullEnable = TRUE
  CheckInterval = 2
  None = None
INVARIANTS
  PushOwned
PROPERTIES
  StalledPubReleased
  StalledSubReleased
  PushRetried
  UnwatchedPullStops
  QuietErased
CHECK_DEADLOCK FALSE
