CONSTANTS
  r1 = r1
  r2 = r2
  x = x
  y = y
  r3 = r3
  Instance = {r1, r2}
  NoHolder = NoHolder
  LeaseTicks = 1
  RetryInterval = 1
  MaxRetries = 2
  Version <- MCVersion
  Module = {1}
  Content = {x, y}
  Absent = Absent
  Mixed = Mixed
  Manifest <- OneRelease
  Deployed <- FreshDatabase
  Jobs = {"apply"}
  Faults = {}
SPECIFICATION Spec
INVARIANT OneShot
