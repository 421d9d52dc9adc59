SPECIFICATION FairSpec
CONSTANTS
  Names = {n1}
  RtmpPubs = {p1}
  RtspPubs = {p2}
  RtmpSubs = {s1}
  FlvSubs = {s1}
  TsSubs = {s1}
  RtspSubs = {s4}
  Callers = {c1}
  MaxTaskLen = 1
  NotifyOn = {"pub"}
  None = None
INVARIANTS NoLostSession StopAfterStart
PROPERTIES DisposeEndsRunLoop LeftoversRemoved
CHECK_DEADLOCK FALSE
