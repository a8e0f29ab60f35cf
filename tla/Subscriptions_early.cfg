SPECIFICATION Spec
CONSTANTS
  s1 = s1
  s2 = s2
  Requests = {s1}
  Cron = cron
  App = app
  Kinds = {"balance"}
  Days = {2}
  TrialDays = 1
  MaxRows = 1
  MaxTime = 1
  MaxOps = 1
  MaxFailures = 0
INVARIANT ExpiredMeansOver
CHECK_DEADLOCK FALSE
