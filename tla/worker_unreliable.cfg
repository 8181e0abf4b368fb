SPECIFICATION Spec
CONSTANTS
  MaxTx = 4
  InitTip = 0
  Kinds = {"launch", "trade"}
  FilterLogs = TRUE
  PageLimits = {4}
  Width = 2
  FlushEvery = 2
  ListingLag = 1
  FirstLag = 1
  ReorderWindow = 1
  Unreadable = TRUE
  MaxFaults = 2
  MaxCrashes = 1
PROPERTY ResumeNeverRegresses
