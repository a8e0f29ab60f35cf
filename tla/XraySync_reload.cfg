SPECIFICATION FairSpec
CONSTANTS
  c1 = c1
  c2 = c2
  s1 = s1
  s2 = s2
  Clients = {c1, c2}
  NoClient = NoClient
  Requests = {s1, s2}
  Cron = cron
  MaxOps = 1
  MaxLapses = 1
  MaxFailures = 1
PROPERTY Converges
