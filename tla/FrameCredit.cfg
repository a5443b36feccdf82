SPECIFICATION FairSpec
CONSTANTS
  Windows = {w1, w2}
  MaxInFlight = 2
  MaxSessions = 2
  None = None
INVARIANTS
  TypeOK
  InFlightBounded
  CreditBacked
PROPERTIES
  CallbackReleased

