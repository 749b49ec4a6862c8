SPECIFICATION Spec
CONSTANTS
  Endpoints = {e1}
  Schedule = sched
  Workers = {w1, w2}
  Operators = {o1}
  None = none
  HasCron = TRUE
  MaxDev = 1
  MaxProd = 0
  MaxDraft = 1
  Attempts = 2
  MaxStalls = 1
  MaxCrashes = 3
  Requests = {"deploy"}
  Faults = {"stall", "workerCrash", "apiCrash", "dbError", "lostAck"}
CHECK_DEADLOCK FALSE
SYMMETRY Symmetry
INVARIANTS
  LiveIsFullyBuilt
  OnlyActivatedServed
PROPERTIES
  ImplementsLedger
