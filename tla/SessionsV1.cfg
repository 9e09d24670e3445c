SPECIFICATION Spec
CONSTANTS
  Users = {u1}
  SessionIds = {s1}
  Contents = {c1, c2}
  ClientIds = {}
  NULL = NULL
  MINUTE = 1
  MaxFuture = 1
  Requests = {r1, r2, r3}
  Kinds = {"start", "v1", "end"}
  MaxAttempts = 1
  MaxClock = 2
SYMMETRY Symmetry
INVARIANTS ReportsComplete AcknowledgedLogsStored OneEndSucceeds
PROPERTIES ImplementsLedger
