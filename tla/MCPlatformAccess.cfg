SPECIFICATION Spec
CONSTANTS
  None = None
  Users = {ada, bob}
  Projects = {1, 2}
  Browsers = {b1, b2}
  GivenRoles = {"owner", "viewer"}
  MaxRequests = 4
  Approvals = {1}
  Codes = {1, 2}
  Grants = {1, 2}
  McpSessions = {s1, s2}
  Clients = {c1, c2}
  MaxCalls = 3
  MaxTools = 2
  Budgets <- MCBudgets
INVARIANTS OneFounder
PROPERTIES AuthorityChangeEndsSessions RememberedUntilInactive ToolsAnswerable ImplementsCredentialLedger
SYMMETRY Symmetry
CHECK_DEADLOCK FALSE
