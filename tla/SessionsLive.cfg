SPECIFICATION FairSpec
CONSTANTS
  Users = {u1}
  SessionIds = {s1}
  Contents = {c1}
  ClientIds = {i1}
  NULL = NULL
  MINUTE = 1
  MaxFuture = 0
  Requests = {r1, r2}
  Kinds = {"start", "v1", "v2", "end"}
  MaxAttempts = 3
  MaxClock = 1
PROPERTIES EveryRequestAnswered
