SPECIFICATION PlannedSpec
CONSTANTS
  ann = ann
  bob = bob
  x1 = x1
  Users = {ann, bob}
  Sessions = {x1}
  Groups = {g1}
  ShareIds = {s1, s2}
  Reactions = {like}
  OwnerOf <- AnnsSession
  Choices <- AnnChooses
  Kinds = {"share", "feed", "react", "unreact"}
  Calls = {c1, c2}
  NULL = NULL
SYMMETRY Symmetry
VIEW View
INVARIANTS OneSharePerAudience AudienceOnly ListedIffReachable LimitsInForce
