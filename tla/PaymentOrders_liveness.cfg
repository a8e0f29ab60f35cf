SPECIFICATION PlacedSpec
CONSTANTS
  w1 = w1
  c1 = c1
  poller = poller
  u1 = u1
  Orders = {1, 2, 3}
  Users = {u1}
  Owner <- MCOwner
  Purpose <- PurchaseFirst
  Mismatched = {}
  Webhooks = {w1}
  Checkers = {}
  Poller = poller
  PollLimit = 3
  MaxFailures = 1
  NoOrder = NoOrder
  NoSession = NoSession
PROPERTIES PaidDepositsAreCredited EverySessionEnds
CHECK_DEADLOCK FALSE
