SPECIFICATION Spec
CONSTANTS
  c1 = c1
  c2 = c2
  good = good
  other = other
  bad = bad
  NoObject = NoObject
  Calls = {c1, c2}
  Contents = {good, other}
  Matching = {good, other}
  MaxVersions = 1
  StaleJoin = TRUE
PROPERTIES
  FinalIsImmutable
CHECK_DEADLOCK FALSE
