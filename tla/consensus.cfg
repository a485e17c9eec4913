\* Three validators, two heights, one crash and one failed write.
CONSTANTS
  MaxIds = 3
  MaxAtoms = 1000
  GenesisAllocation = 10
  JoinDistribution = 2
  AtomsPerScore = 1
  MaxRewardAtoms = 5
  Validators = {1, 2, 3}
  Payloads <- MCPayloads
  MaxHeight = 2
  MaxProposals = 2
  MaxPending = 2
  MaxCrashes = 1
  MaxSaveErrors = 1
SPECIFICATION Spec
INVARIANTS FinalizedByQuorum AnnouncedIsDurable StateLoads ForkNeedsDoubleVote LedgerIsReplay
PROPERTIES FileOnlyGrows
CHECK_DEADLOCK FALSE
