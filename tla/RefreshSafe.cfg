SPECIFICATION PlannedSpec
CONSTANTS
  Users = {u1}
  TokenIds = {t1, t2, t3}
  Calls = {c1, c2}
  Kinds = {"register", "login", "refresh", "logout", "use"}
  MaxAttempts = 2
  Second = 2
  JwtLife = 1
  TokenLife = 1
  MaxClock = 3
  NULL = NULL
SYMMETRY Symmetry
VIEW View
INVARIANTS OneLivePerFamily LogoutComplete
PROPERTIES ReuseClosesFamily LoggedOutStaysOut ImplementsFamilies
