\* The comment of the upload about unacknowledged transfers, as an invariant:
\* no frame is lost, and every receiver has handled what it was sent.
CONSTANTS
  Self = 1
  Peers = {2, 3, 4}
  Shards = {0, 1}
  DataShards = 1
  Rank <- MCRank
  MaxUploads = 1
  MaxGets = 1
  MaxEvents = 1
  MaxNet = 1
  Loses = FALSE
  NoManifest = NoManifest
  Torn = Torn
SPECIFICATION Spec
INVARIANT StoredIsHeld
CHECK_DEADLOCK FALSE
