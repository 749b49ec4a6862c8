SPECIFICATION FairSpec
CONSTANTS
  Endpoints = {e1, e2}
  Schedule = sched
  Workers = {w1, w2}
  Operators = {o1}
  None = none
  HasCron = TRUE
  MaxDev = 1
  MaxProd = 0
  MaxDraft = 1
  Attempts = 2
  MaxStalls = 1
  MaxCrashes = 1
  Requests = {"deploy"}
  Faults = {"stall", "workerCrash"}
CHECK_DEADLOCK FALSE
PROPERTIES
  DeploymentSettles
