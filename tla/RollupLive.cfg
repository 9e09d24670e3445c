SPECIFICATION FairSpec
CONSTANTS
  Sessions = {s1}
  LogIds = {l1}
  Workers = {w1, w2}
  RawDays = 1
  HourlyDays = 1
  DailyDays = 1
  MaxDelay = 0
  Instants = {5, 4330, 21700}
PROPERTIES EveryLogArchived
