SPECIFICATION FairSpec
CONSTANTS
  Windows = {w1}
  Tiles = {t1}
  MaxParts = 2
  IdSpace = 4
  NetCap = 2
  MaxFrames = 4
  None = None
INVARIANTS TypeOK WholeFrames ReplayCovers
PROPERTIES NeverGoesBack LastFrameArrives
CHECK_DEADLOCK FALSE
