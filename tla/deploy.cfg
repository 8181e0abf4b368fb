SPECIFICATION DeploySpec
CONSTANTS
  MaxTx = 3
  InitTip = 1
  Kinds = {"launch", "trade"}
  FilterLogs = TRUE
  PageLimits = {4}
  Width = 2
  FlushEvery = 2
  ListingLag = 0
  FirstLag = 0
  ReorderWindow = 0
  Unreadable = FALSE
  MaxFaults = 1
  MaxCrashes = 0
INVARIANTS TwoCursorsSafe NothingBetweenEither IInvEither
PROPERTY LogSteps
