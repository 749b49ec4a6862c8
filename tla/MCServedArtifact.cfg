SPECIFICATION Spec
CONSTANTS
  Endpoints = {e1}
  Schedule = sched
  Workers = {w1, w2}
  Operators = {o1}
  None = none
  HasCron = TRUE
  MaxDev = 1
  MaxProd = 0
  MaxDraft = 2
  Attempts = 2
  MaxStalls = 1
  MaxCrashes = 1
  Requests = {"deploy"}
  Faults = {"stall"}
CHECK_DEADLOCK FALSE
PROPERTIES
  ServedArtifactImmutable
