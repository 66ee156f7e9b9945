SPECIFICATION FairSpec
CONSTANTS
  r1 = r1
  r2 = r2
  e1 = e1
  e2 = e2
  i1 = i1
  i2 = i2
  NoOwner = NoOwner
  NoEvent = NoEvent
  Events = {e1, e2}
  Unroutable = {e2}
  Relays = {r1, r2}
  Instances = {i1, i2}
  InstanceOf <- DistinctInstances
  BatchSize = 2
  MaxPublishAttempts = 3
  MaxFaults = 3
INVARIANTS
  OneJobPerEvent
  ClaimIsFenced
  GivenUpOnlyAfterFaults
  OrphanedClaimsComeFromFaults
PROPERTIES
  ImplementsDelivery
  EventuallySettled
