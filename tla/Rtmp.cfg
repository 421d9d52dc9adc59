SPECIFICATION FairSpec
CONSTANTS
  PullConns = {}
  PushConns = {c2}
  PeerConns = {c3}
  DoTimeout = TRUE
  MaxMedia = 1
  MaxSays = 2
  OneRole = TRUE
  Waits = TRUE
  None = None
INVARIANTS RegistrationReleased StatusBeforeMedia NoNilObserver
PROPERTIES ConnectedDoReturns
CHECK_DEADLOCK FALSE
