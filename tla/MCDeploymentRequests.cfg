SPECIFICATION Spec
CONSTANTS
  Endpoints = {e1, e2}
  Schedule = sched
  Workers = {w1}
  Operators = {o1, o2}
  None = none
  HasCron = TRUE
  MaxDev = 2
  MaxProd = 2
  MaxDraft = 2
  Attempts = 1
  MaxStalls = 0
  MaxCrashes = 0
  Requests = {"deploy", "rollback", "release", "disable", "enable", "archive"}
  Faults = {}
CONSTRAINT OneAtATime
CHECK_DEADLOCK FALSE
SYMMETRY Symmetry
INVARIANTS
  LiveIsActive
  ArtifactsMatchLive
  ReleasePromotesActivated
  PointersAgree
PROPERTIES
  AtomicActivation
