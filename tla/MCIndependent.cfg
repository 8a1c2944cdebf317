SPECIFICATION Spec
CONSTANTS
  Messages <- MCNotification
  NoMessage = NoMessage
  Workers = {w1, w2}
  Config <- MCWebhook
  Statuses = {200, 202, 500}
  MaxAttempts = 3
  Capacity = 2
  SlowAttempts = 4
  FaultKinds = {"slow"}
  MaxFaults = 1
INVARIANT
  ChannelsAreIndependent
CHECK_DEADLOCK FALSE
