SPECIFICATION FairSpec
CONSTANTS
  Threads = {t1, t2, t3}
  Limits = {1, 2}
  MaxRequests = 4
  MaxFaults = 2
INVARIANTS TypeOK AdmittedWithinLimit SomeoneSetsExpiry
PROPERTY RefusalsEnd
CHECK_DEADLOCK FALSE
