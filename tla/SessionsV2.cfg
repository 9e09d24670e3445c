SPECIFICATION PlannedSpec
CONSTANTS
  Users = {u1, u2}
  SessionIds = {s1, s2}
  Contents = {c1}
  ClientIds = {i1, i2}
  NULL = NULL
  MINUTE = 2
  MaxFuture = 2
  Requests = {r1, r2}
  Kinds = {"start", "v1", "v2", "end"}
  MaxAttempts = 2
  MaxClock = 2
SYMMETRY Symmetry
VIEW View
INVARIANTS OneActivePerUser OneLogPerMeasurement TimesAgree

