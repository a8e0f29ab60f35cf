SPECIFICATION Spec
CONSTANTS
  s1 = s1
  s2 = s2
  Requests = {s1, s2}
  Cron = cron
  App = app
  Kinds = {"gateway"}
  Days = {2}
  TrialDays = 1
  MaxRows = 1
  MaxTime = 1
  MaxOps = 2
  MaxFailures = 0
INVARIANT DaysNotLost
CHECK_DEADLOCK FALSE
