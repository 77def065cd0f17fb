CONSTANTS
  f1 = f1
  f2 = f2
  h1 = h1
  h2 = h2
  h3 = h3
  good = good
  better = better
  bad = bad
  File = {f1, f2}
  Text = {good, better}
  Graphless = {}
  None = None
  Handler = {h1, h2}
  MaxEvents = 5
SPECIFICATION Spec
INVARIANT CacheIsFresh
SYMMETRY Interchangeable
CHECK_DEADLOCK FALSE
