SPECIFICATION ScriptsSpec
CONSTANTS
  c1 = c1
  c2 = c2
  s1 = s1
  s2 = s2
  Clients = {c1, c2}
  NoClient = NoClient
  Requests = {s1, s2}
  Cron = cron
  MaxOps = 2
  MaxLapses = 1
  MaxFailures = 1
  Nodes = {n1, n2}
  Refreshes = {f1, f2}
  Deployed = {16}
  Breakable = {"repositories"}
  MaxRollouts = 2
  MaxDeaths = 1
INVARIANTS FileGetsLoaded ScriptsTypeOK ShownAnswered InStep CheckedFirst
PROPERTY ConvergesUnlessFailed
CHECK_DEADLOCK FALSE
