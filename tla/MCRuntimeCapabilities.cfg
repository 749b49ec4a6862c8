SPECIFICATION Spec
CONSTANTS
  Callers = {c1, c2}
  Subjects <- EverySubject
  MaxCalls <- CallsOf
  None = None
  Ids = {1, 2, 3}
  Values = {1, 2}
  Orders <- SomeOrders
  Limits = {1, 2}
  Grants <- SomeGrants
  Keys = {1, 2}
  Contents = {v1}
  Patterns <- SomePatterns
  PageLimits = {1}
  Ttls <- SomeTtls
  DefaultTtl = 1
  MaxTtl = 2
  MaxNow = 3
  Bytes <- SomeBytes
  MaxEntries = 2
  MaxBytes = 3
  Batch = 1
  LogLimits = {1}
  MaxAged = 1
  RowSizes = {1, 5}
  MaxRows = 2
  MaxResult = 10
  Radix = 2
  Urls = {u1, u2}
  Admitted = {u1}
  MaxRedirects = 1
  Providers = {"local", "container"}
  MaxRpcs = 2
INVARIANTS PagesComplete EntriesAsAsked UpstreamsAccounted SandboxContained
PROPERTIES ImplementsRecordLedger RetentionKeepsNewest
SYMMETRY Symmetry
CHECK_DEADLOCK FALSE
