SPECIFICATION ListSpec
CONSTANTS
  Sidecars = {s1, s2}
  Toplevels = {w1, w2}
  WlFrontends = {f1, f2}
  Early = {f1}
  MaxEvents = 5
  Losses = 2
INVARIANTS ListTypeOK OrderConsistent ListFollows
CHECK_DEADLOCK FALSE
