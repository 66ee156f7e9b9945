SPECIFICATION FairSpec
CONSTANTS
  d1 = d1
  d2 = d2
  k1 = k1
  b1 = b1
  b2 = b2
  c1 = c1
  c2 = c2
  NewDocument = NewDocument
  Free = Free
  Documents <- TwoDocuments
  Keys <- OneKey
  Bodies <- TwoBodies
  Calls <- TwoCalls
  Ttl = 1
  MaxClock = 1
  MaxVersions = 2
INVARIANTS
  OneVersionPerKey
  AnswersItsOwnRequest
  LocksSuffice
PROPERTIES
  NoVersionAfterDelete
  CallsEnd
CHECK_DEADLOCK FALSE
