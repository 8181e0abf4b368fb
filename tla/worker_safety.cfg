SPECIFICATION Spec
CONSTANTS
  MaxTx = 4
  InitTip = 1
  Kinds = {"launch", "trade"}
  FilterLogs = TRUE
  PageLimits = {2, 4}
  Width = 2
  FlushEvery = 2
  ListingLag = 0
  FirstLag = 0
  ReorderWindow = 0
  Unreadable = FALSE
  MaxFaults = 1
  MaxCrashes = 2
INVARIANTS TypeOK IInv CursorNeverPassesCreation NothingBetween StopKeepsProgress
PROPERTY Implements
