SPECIFICATION FolderSpec
CONSTANTS
  f1 = f1
  f2 = f2
  f3 = f3
  d1 = d1
  r1 = r1
  r2 = r2
  Root = Root
  Folders = {f1, f2}
  Documents = {}
  Requests = {r1, r2}
  SerialMoves = FALSE
INVARIANTS
  Acyclic
CHECK_DEADLOCK FALSE
