SPECIFICATION FairSpec
CONSTANTS
  w1 = w1
  c1 = c1
  poller = poller
  u1 = u1
  Orders = {1, 2}
  Users = {u1}
  Owner <- MCOwner
  Purpose <- TwoDeposits
  Mismatched = {}
  Webhooks = {w1}
  Checkers = {}
  Poller = poller
  PollLimit = 1
  MaxFailures = 0
  NoOrder = NoOrder
  NoSession = NoSession
PROPERTY PollIsSafetyNet
CHECK_DEADLOCK FALSE
