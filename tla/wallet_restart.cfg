\* A wallet that received a transfer is stopped and started again.
CONSTANTS
  MaxIds = 2
  MaxAtoms = 100000
  GenesisAllocation = 203
  JoinDistribution = 2
  AtomsPerScore = 1
  MaxRewardAtoms = 5
  SendAmounts = {100}
  MaxSends = 2
  MaxCrashes = 1
  IoFailures = FALSE
  TornWrites = FALSE
SPECIFICATION WalletSpec
PROPERTY RestartKeepsWallet
CHECK_DEADLOCK FALSE
