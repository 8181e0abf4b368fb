SPECIFICATION FairSpec
CONSTANTS
  MaxTx = 3
  InitTip = 1
  Kinds = {"hidden", "opaque", "failed"}
  FilterLogs = TRUE
  PageLimits = {1, 4}
  Width = 2
  FlushEvery = 2
  ListingLag = 0
  FirstLag = 0
  ReorderWindow = 0
  Unreadable = FALSE
  MaxFaults = 1
  MaxCrashes = 1
INVARIANTS CursorNeverPassesCreation NothingBetween
PROPERTY RecordedOrReported
