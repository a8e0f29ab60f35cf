SPECIFICATION OthersSpec
CONSTANTS
  w1 = w1
  c1 = c1
  poller = poller
  u1 = u1
  Orders = {1, 2, 3}
  Users = {u1}
  Owner <- MCOwner
  Purpose <- PurchaseFirst
  Mismatched = {3}
  Webhooks = {w1}
  Checkers = {c1}
  Poller = poller
  PollLimit = 3
  MaxFailures = 1
  NoOrder = NoOrder
  NoSession = NoSession
  p1 = p1
  p2 = p2
  People = {p1, p2}
  Links = {l1}
  Legacy <- MCLegacy
  NoOne = NoOne
  Transactions = {t1, t2}
  MaxAttributions = 5
  Customers = {u1}
  Everybody = Everybody
  Nothing = Nothing
  Handlers = {h1, h2}
  MaxUpdates = 5
  NewNames = {"retired"}
  MaxRow = 3
  MaxEdits = 3
  Subscribed = {p1}
  Banned = {}
  MaxLeft = 4
  FirstAfter = 1
  Interval = 2
  Batch = 1
  MaxDays = 4
  MaxRuns = 3
  MaxRenewals = 1
INVARIANTS TypeOK OthersTypeOK CreditedAtMostOnce SettledIffCredited CreditedOnlyIfPaid AttributionKept SentAsShown OneDefault RemindedOnce
PROPERTY KeepsPromise
CHECK_DEADLOCK FALSE
