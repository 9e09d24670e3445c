SPECIFICATION PlannedSpec
CONSTANTS
  Users = {u1, u2, u3}
  InvitationIds = {i1, i2}
  Calls = {c1, c2}
  Kinds = {"create", "invite", "join", "role", "remove"}
  Validity = 1
  MaxClock = 1
  NULL = NULL
SYMMETRY Symmetry
INVARIANTS OnePendingPerTarget AtMostOneOwner
PROPERTIES AdmittedByInvitation InvitationsSettle ImplementsRoster RankRespected
VIEW View
