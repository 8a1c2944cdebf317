SPECIFICATION FairSpec
CONSTANTS
  Recorders = {r1, r2}
  Readers = {d1, d2}
  Calls <- MCCalls
  Nobody = Nobody
INVARIANTS
  TypeOK
  SnapshotIsPointInTime
PROPERTY CallsReturn
