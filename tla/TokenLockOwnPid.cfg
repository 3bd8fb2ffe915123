SPECIFICATION FairSpec
CONSTANTS
  a = a
  b = b
  c1 = c1
  p1 = p1
  p2 = p2
  p3 = p3
  Contenders = {a, b, c1}
  Pids = {p1, p2}
  PidOf <- Together
  MaxStart = 1
  MaxHandles = 2
  MaxRaces = 3
  Planted = {"none"}
  MayDie = TRUE
  MayReturn = TRUE
  MayStop = FALSE
  MayReplace = FALSE
PROPERTY FreeLockYields
CHECK_DEADLOCK FALSE
