SPECIFICATION FairSpec
CONSTANTS
  Toplevels = {a, b}
  Popups = {}
  Tiles = {t1}
  Sizes = {1, 2}
  WmStates = {"Normal", "Minimized", "Maximized"}
  MaxInFlight = 1
  MaxSessions = 2
  MaxInputs = 5
  None = None
INVARIANTS TypeOK NoLostDamage FocusValid
PROPERTIES Converges ImplementsFrameCredit
