CONSTANTS
  c1 = c1
  c2 = c2
  x = x
  y = y
  Call = {c1, c2}
  Tools = {"exec", "reset", "load_project", "load_manifest", "verify", "rollback"}
  Overlapping = 2
  Projects <- RenamedProject
  Namespace = {"default", "app"}
  DbName = {"default", "main", "my-db"}
  PlainName = {"default", "main"}
  Modules = 1
  Versions = 2
  Content = {x, y}
  Written <- WaysOfTexts
  Absent = Absent
  Mixed = Mixed
  Failing = TRUE
SPECIFICATION Spec
INVARIANT TypeOK
PROPERTIES NoFalseDrift LoadProjectIsExact NoErrorMeansLoaded RollbackIsExact RollbackStopsAtError
SYMMETRY Interchangeable
CHECK_DEADLOCK FALSE
