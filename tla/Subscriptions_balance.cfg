SPECIFICATION EitherSpec
CONSTANTS
  s1 = s1
  s2 = s2
  Requests = {s1, s2}
  Cron = cron
  App = app
  Kinds = {"balance", "suspend", "look", "hub"}
  Days = {2}
  TrialDays = 1
  MaxRows = 2
  MaxTime = 2
  MaxOps = 3
  MaxFailures = 1
  Devices = {d1}
  Configs = {k1, k2}
  Syncs = {y1, y2}
  MaxTraffic = 3
  MaxRestarts = 1
  MaxChanges = 1
SYMMETRY Symmetric
INVARIANTS BothTypeOK DaysKept OneSubscription EarlyExpiryNeedsOverlap CountedWasUsed
PROPERTIES RenewalsAddUp
CHECK_DEADLOCK FALSE
