SPECIFICATION FairSpec
CONSTANTS
  c1 = c1  c2 = c2  c3 = c3  r1 = r1  r2 = r2
  i0 = i0  i1 = i1  i2 = i2  i3 = i3  s1 = s1  s2 = s2  s3 = s3
  Clients = {c1}
  Relays = {r1, r2}
  Server = Server
  Ifaces = {i0, i1, i2, i3}
  Attached <- Circle
  FirstIface <- FirstOf
  Omitting = {}
  Guessing = {}
  SrvOrder = "after"
  Subnets = {s1, s2, s3}
  NoSubnet = NoSubnet
  SubnetOfId <- ById
  SubnetOfLink <- NoLinks
  AnyRelay = NoSubnet
  NoId = NoId
  HopCountLimit = 3
  MaxQuestions = 2
CHECK_DEADLOCK FALSE
INVARIANTS TypeOK SubnetOfClient HopsBounded
