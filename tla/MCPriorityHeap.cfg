SPECIFICATION Spec
CONSTANTS
  Items <- MCItems
  NoItem = NoItem
INVARIANTS
  TypeOK
  NoDuplicates
  HeapShape
  RootIsBest
PROPERTY
  ImplementsQueue
