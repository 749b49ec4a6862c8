SPECIFICATION FairSpec
CONSTANTS
  Bindings = {b1}
  Deployments = {d1, d2}
  Enabled <- EnabledApart
  MaxTicks = 1
  Manual = {}
  Workers = {w1}
  Reconcilers = {p1, p2}
  None = None
  CronTimeout = 1
  MaxFaults = 1
  Faults = {"workerCrash", "runtimeCrash", "dbError", "redisError", "rebuild"}
PROPERTIES RunsSettle SchedulersConverge
CHECK_DEADLOCK FALSE
