\* Two proposers spend the same coin differently; nothing fails.
CONSTANTS
  MaxIds = 3
  MaxAtoms = 1000
  GenesisAllocation = 10
  JoinDistribution = 2
  AtomsPerScore = 1
  MaxRewardAtoms = 5
  Validators = {1, 2, 3}
  Payloads <- MCConflicting
  MaxHeight = 1
  MaxProposals = 2
  MaxPending = 2
  MaxCrashes = 0
  MaxSaveErrors = 0
SPECIFICATION Spec
INVARIANT NoConflictingSpends
CHECK_DEADLOCK FALSE
