SPECIFICATION FairSpec
CONSTANTS
  Pids = {p1, p2}
  Clients = {c1}
  Windows = {w1}
  Workspaces = {ws1, ws2}
  MaxRequests = 2
  MaxSessions = 2
  MaxDepth = 2
  PidReuse = FALSE
  Init_ = Init_
  None = None
INVARIANTS TypeOK NoCrossPollination RaceCaughtUp GoneStaysGone
PROPERTIES ReachesCanvas
CHECK_DEADLOCK FALSE
