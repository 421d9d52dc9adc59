SPECIFICATION FairSpec
CONSTANTS
  RtmpPubs = {}
  RtspPubs = {r1}
  RtmpSubs = {}
  HttpSubs = {}
  RtspSubs = {t1}
  Pulls = {}
  Pushers = {}
  Urls = {}
  HlsEnable = FALSE
  RelayPullEnable = FALSE
  CheckInterval = 2
  None = None
PROPERTIES
  StalledSubReleased
CHECK_DEADLOCK FALSE
