SPECIFICATION FairSpec
CONSTANTS
  Frontends = {f1}
  Dispatch = dispatch
  Workspaces = {ws1, ws2}
  Windows = {w1, w2}
  MaxEdits = 3
INVARIANTS TypeOK SerialCaptureMatches
PROPERTIES CaptureFollows
CHECK_DEADLOCK FALSE
