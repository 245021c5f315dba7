SPECIFICATION FairSpec
CONSTANTS
  c1 = c1  c2 = c2  c3 = c3  r1 = r1  r2 = r2
  i0 = i0  i1 = i1  i2 = i2  i3 = i3  s1 = s1  s2 = s2  s3 = s3
  Clients = {c1, c2, c3}
  Relays = {r1, r2}
  Server = Server
  Ifaces = {i0, i1, i2, i3}
  Attached <- Cascade
  FirstIface <- FirstOf
  Omitting = {r2}
  Guessing = {r2}
  SrvOrder = "after"
  Subnets = {s1, s2, s3}
  NoSubnet = NoSubnet
  SubnetOfId <- ById
  SubnetOfLink <- ByLink
  AnyRelay = NoSubnet
  NoId = NoId
  HopCountLimit = 2
  MaxQuestions = 1
CHECK_DEADLOCK FALSE
INVARIANTS ComesHome
PROPERTIES Answered
