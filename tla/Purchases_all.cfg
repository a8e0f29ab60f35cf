SPECIFICATION FairSpec
CONSTANTS
  inviter = inviter
  friend = friend
  s1 = s1
  s2 = s2
  NoUser = NoUser
  Users = {inviter, friend}
  Referrer <- MCReferrer
  Sessions = {s1, s2}
  Price = 2
  Discount = 1
  MaxUses = 1
  MaxPerUser = 1
  Percent = 100
  Deposits = {2}
  Adjustments <- TopUps
  MaxOps = 3
  MaxFailures = 1
INVARIANTS TypeOK NeverOverdrawn DriftNeedsOverlap PromoCounterBounded
CHECK_DEADLOCK FALSE
PROPERTY EverySessionEnds
