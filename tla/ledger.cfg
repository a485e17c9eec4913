\* MaxAtoms is within reach: balances, the issued total and the fee account saturate.
CONSTANTS
  MaxIds = 2
  MaxAtoms = 20500
  GenesisAllocation = 10000
  JoinDistribution = 40
  AtomsPerScore = 3
  MaxRewardAtoms = 200
  Amounts = {50, 9990, 20400}
  FeeRates = {500, 501}
  Receipts <- MCReceipts
  Prices = {99, 10000}
  MaxTransfers = 2
  MaxVerifierList = 2
  MaxIncoming = 1
SPECIFICATION Spec
INVARIANTS MemberStateConsistent SupplyConserved
PROPERTY TransferDebitsOnce
CHECK_DEADLOCK FALSE
