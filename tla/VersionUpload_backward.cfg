SPECIFICATION Spec
CONSTANTS
  c1 = c1
  c2 = c2
  good = good
  other = other
  bad = bad
  NoObject = NoObject
  Calls = {c1, c2}
  Contents = {good}
  Matching = {good}
  MaxVersions = 3
  StaleJoin = TRUE
PROPERTIES
  NeverMovesBackward
CHECK_DEADLOCK FALSE
