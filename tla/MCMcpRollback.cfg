CONSTANTS
  c1 = c1
  c2 = c2
  x = x
  y = y
  Call = {c1, c2}
  Tools = {"exec", "load_project", "load_manifest", "rollback"}
  Overlapping = 2
  Projects <- EditedProject
  Namespace = {"default", "app"}
  DbName = {"default", "main"}
  PlainName = {"default", "main"}
  Modules = 1
  Versions = 2
  Content = {x, y}
  Written <- WaysOfTexts
  Absent = Absent
  Mixed = Mixed
  Failing = FALSE
SPECIFICATION Spec
PROPERTY RollbackRebuilds
SYMMETRY Interchangeable
CHECK_DEADLOCK FALSE
