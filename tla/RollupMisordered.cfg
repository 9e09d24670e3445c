SPECIFICATION Spec
CONSTANTS
  Sessions = {s1}
  LogIds = {l1, l2, l3}
  Workers = {w1}
  RawDays = 2
  HourlyDays = 1
  DailyDays = 8
  MaxDelay = 60
  Instants = {5, 1000, 3400, 5800}
SYMMETRY Symmetry
INVARIANTS Conserved
