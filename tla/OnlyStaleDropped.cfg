SPECIFICATION FairSpec
CONSTANTS
  Windows = {w1, w2}
  Tiles = {t1}
  MaxParts = 1
  IdSpace = 8
  NetCap = 2
  MaxFrames = 3
  None = None
PROPERTIES OnlyStaleDropped
CHECK_DEADLOCK FALSE
