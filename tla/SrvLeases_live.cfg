SPECIFICATION FairSpec
CONSTANTS
  c1 = c1  c2 = c2  a1 = a1  a2 = a2  a3 = a3  i1 = i1  i2 = i2
  Clients = {c1, c2}
  Declined = X
  IAIDs = {0, 1}
  Addrs = {a1, a2}
  Ifaces = {i1}
  Classes = {1, 2}
  ClassIface <- BothClassesIface
  Pool <- OneEach
  ClassMaxLease <- LimitFive
  AcceptClnt <- FirstClassForC2
  RejedClnt <- NoLists
  Exception <- NoExceptions
  NoAddr = NoAddr
  ClntMaxLease <- LeasesOne
  RapidCommit <- Rapid
  CacheMaxSize = 2
  PerformanceMode = FALSE
  ULong = 4
  MaxOptions = 2
  MaxAssigned = 2
  MaxRestarts = 0
CHECK_DEADLOCK FALSE
INVARIANTS HintSearchEnds ClientLimit SupportedOnly CountersExact CacheSound
PROPERTIES AlwaysReturns ExpiredEnds
