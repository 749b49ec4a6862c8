SPECIFICATION BothSpec
CONSTANTS
  f1 = f1
  f2 = f2
  f3 = f3
  Functions = {f1, f2, f3}
  ProjectEnvironments = {"development", "production"}
  Home = "development"
  Codes <- SomeCodes
  Hosts = {"internal", "metadata"}
  Metadata = {"metadata"}
  Networks <- SomeNetworks
  Starts <- SomeStarts
  MaxEdits = 2
  Edited = {f1, f2}
  Requests = {r1, r2}
  Snapshots <- SomeSnapshots
  Slugs = {s, t}
  Keys = {"k", "l"}
  Callees = {f1, f2, f3}
  Values = {v1, v2}
  Kinds = {"mcp", "http"}
  Stamps = {1, 2}
  Second = 2
  Tolerance = 1
  Subjects = {"deliveries", "changes"}
  MaxTime = 7
  MaxChanges = 2
  None = None
  Demos = {d1, d2}
  Changed = {d1}
  SeedEndpoints = {"mcp", "http"}
  MemberEndpoints = {e1}
  MaxSeeds = 3
  MaxMoves = 2
INVARIANTS AcceptedAgainOnlyLate ServedAsConfigured BuildsDecide ArtifactsComplete SeedsConverge SeedsKeepLive
SYMMETRY Symmetry
CHECK_DEADLOCK FALSE
