SPECIFICATION Spec
CONSTANTS
  r1 = r1
  r2 = r2
  r3 = r3
  Requests <- ThreeRequests
  Second = 2
  Ttl = 2
  MaxTokens = 4
  MaxClock = 3
SYMMETRY Symmetry
INVARIANTS
  AtMostOneWinner
  LosersHaveAWinner
PROPERTIES
  ClosedForGood
  SuspensionEndsRefreshes
CHECK_DEADLOCK FALSE
