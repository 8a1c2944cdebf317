SPECIFICATION Spec
CONSTANTS
  Messages <- MCNotification
  NoMessage = NoMessage
  Workers = {w1}
  Config <- MCSlack
  Statuses = {200, 202, 500}
  MaxAttempts = 3
  Capacity = 2
  SlowAttempts = 3
  FaultKinds = {"cancel"}
  MaxFaults = 1
INVARIANT
  FailuresAreKept
CHECK_DEADLOCK FALSE
