SPECIFICATION Spec
CONSTANTS
  c1 = c1  c2 = c2  a1 = a1  a2 = a2  a3 = a3  i1 = i1  i2 = i2
  Clients = {c1, c2}
  Declined = X
  IAIDs = {0}
  Addrs = {a1, a2}
  Ifaces = {i1, i2}
  Classes = {1, 2}
  ClassIface <- TwoClassIface
  Pool <- OneEach
  ClassMaxLease <- LimitFive
  AcceptClnt <- NoLists
  RejedClnt <- NoLists
  Exception <- NoExceptions
  NoAddr = NoAddr
  ClntMaxLease <- LeasesOne
  RapidCommit <- NotRapid
  CacheMaxSize = 0
  PerformanceMode = FALSE
  ULong = 8
  MaxOptions = 1
  MaxAssigned = 3
  MaxRestarts = 1
INVARIANT HintSearchEnds
