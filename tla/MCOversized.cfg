SPECIFICATION FairSpec
CONSTANTS
  Requests <- MCOversizedRequests
  Items <- MCOversizedItems
  NoItem = NoItem
  Drainer = drainer
  Pushers = {h1, drainer}
  Poppers = {drainer}
  MaxClock = 2
  MaxFailures = 0
PROPERTY
  NormalIsDequeued
CHECK_DEADLOCK FALSE
