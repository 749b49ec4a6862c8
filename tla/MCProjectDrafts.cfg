SPECIFICATION Spec
CONSTANTS
  Functions = {f1}
  Libraries = {l1}
  Secrets = {s1}
  Connections = {d1}
  QueryIds = {q1}
  Names = {n1, n2}
  Schedules = {t1}
  Codes = {c1, c2}
  Requests = {r1, r2}
  Areas <- EveryArea
  MaxRequests = 4
  None = None
  Keys = {k1, k2}
  Texts = {x1}
  Policies = {p1, p2}
PROPERTIES ImplementsVersionLedger OnlyStaleMetadataUnversions EditsMerge 
SYMMETRY Symmetry
CHECK_DEADLOCK FALSE
