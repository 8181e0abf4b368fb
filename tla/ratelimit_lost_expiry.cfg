SPECIFICATION FairSpec
CONSTANTS
  Threads = {t1, t2, t3}
  Limits = {1, 2}
  MaxRequests = 4
  MaxFaults = 1
PROPERTY TryAgainInAMinute
CHECK_DEADLOCK FALSE
