SPECIFICATION Spec
CONSTANTS
  c1 = c1  c2 = c2  c3 = c3  p1 = p1  p2 = p2  p3 = p3
  Clients = {c1, c2, c3}
  IAIDs = {0,1}
  Classes = {1, 2}
  PoolIds = {p1, p2, p3}
  Pools <- TwoClasses
  Size <- TwoAndOne
  Tails = {0,1}
  Supported <- FirstNotForC2
  Exception <- ReservedForC3
  NoPrefix = NoPrefix
  ClntMaxLease = 1
  ULong = 6
  MaxOptions = 2
  MaxRestarts = 1
INVARIANTS TypeOK NotTwice CountersExact ClientLimit
CHECK_DEADLOCK FALSE
