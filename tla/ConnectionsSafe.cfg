SPECIFICATION Spec
CONSTANTS
  Users = {u1, u2}
  RequestIds = {i1, i2}
  Calls = {c1, c2}
  NULL = NULL
SYMMETRY Symmetry
INVARIANTS OnePendingPerPair FriendsByConsent AnswersTruthful
PROPERTIES ResolvedOnce ImplementsFriendship
