SPECIFICATION BothSpec
CONSTANTS
  f1 = f1
  f2 = f2
  f3 = f3
  Functions = {f1, f2, f3}
  ProjectEnvironments = {"development", "production"}
  Home = "development"
  Codes <- SomeCodes
  Hosts = {"internal", "metadata"}
  Metadata = {"metadata"}
  Networks <- SomeNetworks
  Starts = {}
  MaxEdits = 0
  Edited = {f1, f2}
  Requests = {r1, r2}
  Snapshots <- SomeSnapshots
  Slugs = {s}
  Keys = {"k", "l"}
  Callees = {f1, f2, f3}
  Values = {v1}
  Kinds = {"http"}
  Stamps = {1}
  Second = 2
  Tolerance = 1
  Subjects = {"deliveries"}
  MaxTime = 5
  MaxChanges = 0
  None = None
  Demos = {d1, d2}
  Changed = {d1}
  SeedEndpoints = {"mcp", "http"}
  MemberEndpoints = {e1}
  MaxSeeds = 0
  MaxMoves = 0
INVARIANTS AcceptedOnce
CHECK_DEADLOCK FALSE
