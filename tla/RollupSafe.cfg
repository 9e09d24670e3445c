SPECIFICATION Spec
CONSTANTS
  Sessions = {s1}
  LogIds = {l1, l2, l3}
  Workers = {w1, w2}
  RawDays = 1
  HourlyDays = 2
  DailyDays = 8
  MaxDelay = 60
  Instants = {5, 55, 65, 1470, 1500, 4330, 21700}
SYMMETRY Symmetry
INVARIANTS Conserved WholeBuckets StagesFinish
PROPERTIES OneTierUp
