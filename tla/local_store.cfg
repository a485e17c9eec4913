\* Three requests and two files that share a shard; room for one shard.
CONSTANTS
  f1 = f1
  f2 = f2
  s1 = s1
  s2 = s2
  s3 = s3
  Tasks = {t1, t2, t3}
  StoredShards = {s1, s2, s3}
  Files = {f1, f2}
  Placed <- MCPlaced
  Size <- MCSize
  Quota = 1
  MaxCrashes = 1
  MaxErrors = 1
SPECIFICATION DiskSpec
INVARIANTS AckedIsStored RacesHeal QuotaOverrun
SYMMETRY Symmetry
CHECK_DEADLOCK FALSE
