SPECIFICATION FairSpec
CONSTANTS
  Requests <- MCRequests
  Items <- MCItems
  NoItem = NoItem
  Drainer = drainer
  Pushers = {h1, h2, drainer}
  Poppers = {drainer}
  MaxClock = 2
  MaxFailures = 2
INVARIANTS
  TypeOKGateway
  Conservation
  DuplicatesExplained
  NoOvertaking
PROPERTIES
  AcceptedIsStored
  ImplementsOutbox
CHECK_DEADLOCK FALSE
