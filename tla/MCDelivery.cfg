SPECIFICATION FairSpec
CONSTANTS
  Messages <- MCMessages
  NoMessage = NoMessage
  Workers = {w1, w2}
  Config <- MCWebhook
  Statuses = {200, 202, 500}
  MaxAttempts = 3
  Capacity = 1
  SlowAttempts = 0
  FaultKinds = {"cancel", "crash", "lostAck", "slow"}
  MaxFaults = 2
INVARIANTS
  TypeOK
  ProgressIsSettled
  AckedIsSettled
  NoSpuriousDuplicates
PROPERTIES
  StoredIsSettled
  ImplementsAtLeastOnce
CHECK_DEADLOCK FALSE
