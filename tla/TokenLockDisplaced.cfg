SPECIFICATION Spec
CONSTANTS
  a = a
  b = b
  c1 = c1
  p1 = p1
  p2 = p2
  p3 = p3
  Contenders = {a, b, c1}
  Pids = {p1, p2}
  PidOf <- Together
  MaxStart = 0
  MaxHandles = 2
  MaxRaces = 3
  Planted = {"none"}
  MayDie = FALSE
  MayReturn = FALSE
  MayStop = FALSE
  MayReplace = TRUE
INVARIANT HandlesExclude
PROPERTY ReleasesItsOwn
CHECK_DEADLOCK FALSE
