SPECIFICATION Spec
CONSTANTS
  Bindings = {b1}
  Deployments = {d1}
  Enabled <- EnabledEverywhere
  MaxTicks = 1
  Manual = {m1}
  Workers = {w1, w2}
  Reconcilers = {p1}
  None = None
  CronTimeout = 1
  MaxFaults = 2
  Faults = {"workerCrash", "runtimeCrash", "redisError", "dbError"}
INVARIANTS OneActiveRun
PROPERTIES ImplementsRunLedger
SYMMETRY Symmetry
CHECK_DEADLOCK FALSE
