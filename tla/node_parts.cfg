\* Every part at the bounds where its tables and counters are full: three peers
\* in a replay table for two, messages that fill the inbox exactly and one that
\* never fits, two versions and two requests of the store, three imports by two
\* tasks, a session to its last number, two supervised endpoints past the cap of
\* the delay, as many shards as four nodes can hold, a routing table for two of
\* three nodes, one of them silent, every contribution that classify_tier tells
\* apart, three posts by two tasks, and five calls on a network of up to three
\* centres.
CONSTANTS
  Peers = {p1, p2, p3}
  MaxPeers = 2
  Window = 3
  MaxSequence = 4
  MaxGeneration = 5
  m1 = m1
  m2 = m2
  m3 = m3
  m4 = m4
  Messages = {m1, m2, m3, m4}
  Size <- MCSize
  MaxMessages = 3
  MaxBytes = 4
  Versions = {v1, v2}
  Capabilities = {c1}
  Needs <- MCNeeds
  StoreTasks = {t1, t2}
  MaxStoreOps = 3
  NoFile = NoFile
  TornFile = TornFile
  ImportFiles <- MCImportFiles
  ImportTasks = {i1, i2}
  OwnCentre = OwnCentre
  NoCentre = NoCentre
  TornConfig = TornConfig
  MaxImports = 3
  MaxNumber = 3
  MaxOffers = 4
  Endpoints = {e1, e2}
  InitialBackoff = 2
  MaxBackoff = 10
  AttemptsCap = 6
  MaxWord = 16
  MaxAttempts = 8
  StorageNodes = {n1, n2, n3, n4}
  PlanShards = 4
  PlanReplicas = 3
  MaxPerNode = 3
  Remotes = {r1, r2, r3}
  Silent = {r3}
  PeerAddresses = {a, b}
  MaxAddresses = 2
  Advertised <- MCAdvertised
  MaxRouting = 2
  MaxKnown = 1
  Times = {0, 1}
  Now = 1
  Alpha = 2
  MaxRounds = 2
  Offers = {o1, o2}
  PostedResources <- MCPostedResources
  PostTasks = {q1, q2}
  MaxPosts = 3
  TornBank = TornBank
  Centres = {x, y, z}
  TopologyNodes = {1, 2, 3}
  GroupIds = {g, h}
  Scores = {0, 1}
  MaxTopologyOps = 5
SPECIFICATION PartsSpec
INVARIANTS
  WindowIsExact BytesBoundedTwice EachTakenOnce OneVersionSurvives JoinsSurvive
  ShownExactly BackoffDoubles PlanCompletes TierMonotone AnsweredIsKept TopologyHolds
PROPERTIES
  EndpointKept LookupEnds
CHECK_DEADLOCK FALSE
