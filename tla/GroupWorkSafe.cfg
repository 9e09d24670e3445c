SPECIFICATION PlannedSpec
CONSTANTS
  NULL = NULL
  Stranger = Stranger
  ann = ann
  bob = bob
  x1 = x1
  Users = {ann, bob}
  Goals = {g1, g2}
  Feedbacks = {f1}
  Sessions = {x1}
  OwnerOf <- BobsSession
  Ranks = {"OWNER", "MANAGER", "MEMBER"}
  Lists <- AllLists
  Sharers = {ann, bob}
  Visibilities = {"PRIVATE", "PUBLIC"}
  Kinds = {"create", "assign", "give", "dashboard", "goals", "feedbacks", "group", "groups"}
  Calls = {c1, c2}
SYMMETRY Symmetry
VIEW View
INVARIANTS OneWinner WithinTheGroup RolesInForce StatsShared
