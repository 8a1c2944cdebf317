SPECIFICATION MCSpec
CONSTANTS
  Items <- MCItems
  NoItem = NoItem
  Pushers = {u1, u2}
  Poppers = {p1, p2}
INVARIANTS
  TypeOK
  GoroutineOfPop
  AlertIsServed
PROPERTIES
  AlertLeadsToEmpty
  BlockedPopReturns
CHECK_DEADLOCK FALSE
