\* Two wallets, two sends each: lost, doubled and reordered deliveries, failing
\* and torn writes, one crash.
CONSTANTS
  MaxIds = 2
  MaxAtoms = 100000
  GenesisAllocation = 203
  JoinDistribution = 2
  AtomsPerScore = 1
  MaxRewardAtoms = 5
  SendAmounts = {100}
  MaxSends = 2
  MaxCrashes = 1
  IoFailures = TRUE
  TornWrites = TRUE
SPECIFICATION WalletSpec
INVARIANTS NoInflation LedgersAccounted
CHECK_DEADLOCK FALSE
