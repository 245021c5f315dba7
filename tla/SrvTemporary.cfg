SPECIFICATION Spec
CONSTANTS
  c1 = c1  c2 = c2  a1 = a1  a2 = a2
  Clients = {c1, c2}
  IAIDs = {1, 2}
  Addrs = {a1, a2}
  TaPool <- Pools
  Supported = {c1, c2}
  Exempt = {c2}
  ClassMaxLease = 1
  IfaceMaxLease = 1
  ClntMaxLease = 2
  RapidCommit = TRUE
  ULong = 8
  MaxOther = 2
  MaxRestarts = 1
INVARIANTS TypeOK UsedIsLeased NotShared ClientLimit
PROPERTIES LeftoversEnd
CHECK_DEADLOCK FALSE
