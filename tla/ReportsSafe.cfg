SPECIFICATION PlannedSpec
CONSTANTS
  s1 = s1
  s2 = s2
  s3 = s3
  l1 = l1
  l2 = l2
  Users = {1, 2}
  SessionIds = {s1, s2, s3}
  LogIds = {l1, l2}
  OwnerOf <- Owners
  Score <- Scores
  DAY = 2
  SECOND = 2
  DaysIn <- TwoAndThree
  Top = 1
  Limit = 1
  KEEP = 2
  Dates = {1}
  Kinds = {"weekly", "monthly", "report", "session", "sessions", "ranking"}
  MaxClock = 4
  NULL = NULL
VIEW View
INVARIANTS FinishedAgree PeriodOfOneMoment RankingOfOneMoment
