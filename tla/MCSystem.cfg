SPECIFICATION FairSpec
CONSTANTS
  Environments <- MCEnvironments
  Literals <- MCLiterals
  BrokerURL <- MCBrokerURL
  Files <- MCFiles
  Texts <- MCTexts
  Scalars <- MCScalars
  Notifications = {x}
  MaxCopies = 2
  Targets = {k1, k2}
  MaxFaults = 2
INVARIANTS
  TypeOK
  StreamIsThere
  AcceptedIsSomewhere
  NotReadyOnceClosed
  LoadFollowsPriority
PROPERTIES
  ServicesComeUp
  StopsWhenTold
  TakenIsDelivered
CHECK_DEADLOCK FALSE
