SPECIFICATION Spec
CONSTANTS
  c1 = c1  c2 = c2  a1 = a1  a2 = a2  a3 = a3  i1 = i1  i2 = i2
  Clients = {c1, c2}
  Declined = X
  IAIDs = {0}
  Addrs = {a1, a2, a3}
  Ifaces = {i1, i2}
  Classes = {1, 2}
  ClassIface <- TwoClassIface
  Pool <- OneEach
  ClassMaxLease <- LimitFive
  AcceptClnt <- NoLists
  RejedClnt <- NoLists
  Exception <- OutOfPool
  NoAddr = NoAddr
  ClntMaxLease <- LeasesTwo
  RapidCommit <- NotRapid
  CacheMaxSize = 1
  PerformanceMode = FALSE
  ULong = 6
  MaxOptions = 2
  MaxAssigned = 2
  MaxRestarts = 1
CHECK_DEADLOCK FALSE
INVARIANTS
  TypeOK Exclusive OneAddressPerIA CountersCover Durable
PROPERTIES
  TableSpec
  NoForeignRevocation
