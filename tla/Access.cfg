SPECIFICATION AccessSpec
CONSTANTS
  d1 = d1
  d2 = d2
  ph = ph
  s1 = s1
  s2 = s2
  Devices = {d1, d2, ph}
  Phantoms = {ph}
  Old = {ph}
  Sessions = {s1, s2}
  Slots = 1
  MaxOps = 3
  Ids = {1, 2, 3}
  Configs = {c1, c2}
  Limit = 1
  MaxCredentialOps = 2
INVARIANTS AccessTypeOK KeepsSlot OverflowToldOnce OldLinksDie LinksLast DeviceLimit
PROPERTIES InLineAtLast KeepsLinks
CHECK_DEADLOCK FALSE
