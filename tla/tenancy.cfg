SPECIFICATION Spec
CONSTANTS
  Threads = {t1, t2}
  Orgs = {o1, o2}
  Keys = {k1}
  Hooks = {h1, h2, h3, h4}
  Messages = {m1}
  Names = {n1}
  Passwords = {p1, p2}
  Bundles = {b1, b2}
  NoOrg = NoOrg
  Plans = {"free", "pro"}
  Free = "free"
  MaxWebhooks <- TwoPlans
  Workloads <- AllWork
  MaxNotices = 2
  MaxFaults = 1
SYMMETRY RowSymmetry
INVARIANTS TypeOK OvershootBounded PlanFollowsProvider OnlyOwnHooksHear EveryHookHears
INVARIANTS StaleRequestsBounded ApprovalAnswersHold AccountsKeepTheirPassword
PROPERTY DeletedStaysDeleted
CHECK_DEADLOCK FALSE
