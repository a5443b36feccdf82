SPECIFICATION Spec
CONSTANTS
  Frontends = {f1, f2}
  Dispatch = dispatch
  Workspaces = {ws1}
  Windows = {w1}
  MaxEdits = 3
INVARIANTS CaptureMatches
CHECK_DEADLOCK FALSE
