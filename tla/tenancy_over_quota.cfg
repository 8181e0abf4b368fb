SPECIFICATION Spec
CONSTANTS
  Threads = {t1, t2}
  Orgs = {o1}
  Keys = {k1}
  Hooks = {h1, h2, h3}
  Messages = {m1}
  Names = {n1}
  Passwords = {p1, p2}
  Bundles = {b1, b2}
  NoOrg = NoOrg
  Plans = {"free", "pro"}
  Free = "free"
  MaxWebhooks <- TwoPlans
  Workloads <- HookWork
  MaxNotices = 0
  MaxFaults = 0
SYMMETRY RowSymmetry
INVARIANT WithinPlan
CHECK_DEADLOCK FALSE
