SPECIFICATION LibrarySpec
CONSTANTS
  c1 = c1
  c2 = c2
  good = good
  other = other
  bad = bad
  f1 = f1
  f2 = f2
  f3 = f3
  d1 = d1
  r1 = r1
  r2 = r2
  NoObject = NoObject
  Calls = {c1, c2}
  Contents = {good, other, bad}
  Matching = {good, other}
  MaxVersions = 2
  StaleJoin = TRUE
  Root = Root
  Folders = {f1, f2, f3}
  Documents = {d1}
  Requests = {r1, r2}
  SerialMoves = TRUE
SYMMETRY Symmetry
INVARIANTS
  OneEventPerReceipt
  
  Acyclic
PROPERTIES
  FinalSettles
  NothingAfterDelete
CHECK_DEADLOCK FALSE
