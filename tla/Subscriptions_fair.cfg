SPECIFICATION NoTrialSpec
CONSTANTS
  s1 = s1
  s2 = s2
  Requests = {s1, s2}
  Cron = cron
  App = app
  Kinds = {"balance", "gift", "suspend"}
  Days = {2}
  TrialDays = 1
  MaxRows = 2
  MaxTime = 1
  MaxOps = 2
  MaxFailures = 1
PROPERTIES LapsedIsMarked KeysComeBack EverySessionEnds
CHECK_DEADLOCK FALSE
