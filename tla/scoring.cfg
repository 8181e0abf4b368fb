SPECIFICATION Spec
CONSTANTS
  Wallets = {"w1", "w2", "w3"}
  Buys <- SomeBuys
  Transfers <- SomeTransfers
  MaxTransfers = 4
  Labels = {"a", "x"}
  MaxBuyers = 2
  MaxBranch = 2
  MaxHops = 2
INVARIANTS TypeOK PathsReal PathsComplete CompleteReportHolds
CHECK_DEADLOCK FALSE
