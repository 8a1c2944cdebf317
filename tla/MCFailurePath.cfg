SPECIFICATION FairSpecPath
CONSTANTS
  Options <- MCOptions
  Letters <- MCLetters
  Empty = Empty
  Capacity = 3
  MaxArrays = 2
INVARIANTS
  TypeOK
  TypeOKMemory
  ResultIsTrue
  DelayIsBounded
  DrainedIsStable
PROPERTIES
  CancelledReturns
  ImplementsBoundedQueue
