\* Two connections, two peers and two addresses over tables for one of them.
CONSTANTS
  Inbound = {c1, c2}
  Peers = {p1, p2}
  Ips = {i1, i2}
  MaxConcurrent = 2
  MaxBuckets = 1
  Capacity = 3
  Refill = 2
  MaxIps = 1
  IpCapacity = 1
  IpRefill = 1
  MaxEntries = 1
  BanStrikes = 2
  MaxU32 = 3
  QuarantineSecs = 1
  Costs = {2, 4}
  MaxClock = 3
SPECIFICATION GateSpec
INVARIANT RateBound
PROPERTY Escalation
SYMMETRY Symmetry
CHECK_DEADLOCK FALSE
