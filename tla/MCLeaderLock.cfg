CONSTANTS
  i1 = i1
  i2 = i2
  i3 = i3
  Instance = {i1, i2, i3}
  NoHolder = NoHolder
  LeaseTicks = 3
  RetryInterval = 1
  MaxRetries = 3
  Faults <- LockFaultKinds
SPECIFICATION FairLockSpec
INVARIANTS LockTypeOK LeaseAgrees
PROPERTIES AcquiredIsLeased ImplementsLease CrashedHolderExpires AcquireReturns
