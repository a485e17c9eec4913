\* One file of two shards, one of which rebuilds it, on up to four nodes.
CONSTANTS
  Self = 1
  Peers = {2, 3, 4}
  Shards = {0, 1}
  DataShards = 1
  Rank <- MCRank
  MaxUploads = 1
  MaxGets = 1
  MaxEvents = 1
  MaxNet = 1
  Loses = TRUE
  NoManifest = NoManifest
  Torn = Torn
SPECIFICATION Spec
INVARIANTS SharesNeverLeave StoredIsServed
PROPERTIES RepairWritesNothing OperationsEnd
CHECK_DEADLOCK FALSE
