CONSTANTS
  f1 = f1
  f2 = f2
  h1 = h1
  h2 = h2
  h3 = h3
  good = good
  better = better
  bad = bad
  File = {f1, f2}
  Text = {good, bad}
  Graphless = {bad}
  None = None
  Handler = {h1, h2}
  MaxEvents = 6
SPECIFICATION Spec
INVARIANTS ServerTypeOK ClosedHasNoOverlay CacheFollowsDisk
PROPERTY AloneSaveRefreshes
SYMMETRY Interchangeable
CHECK_DEADLOCK FALSE
