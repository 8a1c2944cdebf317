SPECIFICATION MCSpec
CONSTANTS
  Items <- MCItems
  NoItem = NoItem
  Pushers = {u1}
  Poppers = {p1}
INVARIANT
  NoLostWakeup
CHECK_DEADLOCK FALSE
