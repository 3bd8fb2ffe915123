SPECIFICATION FairSpec
CONSTANTS
  a = a
  b = b
  c1 = c1
  p1 = p1
  p2 = p2
  p3 = p3
  Contenders = {a, b}
  Pids = {p1, p2}
  PidOf <- ApartTwo
  MaxStart = 2
  MaxHandles = 2
  MaxRaces = 3
  Planted = {"none", "garbage", "corpse"}
  MayDie = TRUE
  MayReturn = TRUE
  MayStop = TRUE
  MayReplace = TRUE
INVARIANT OneHolder
PROPERTY FreeLockYields
CHECK_DEADLOCK FALSE
