SPECIFICATION SpecPath
CONSTANTS
  Options <- MCOptions
  Letters <- MCLetters
  Empty = Empty
  Capacity = 3
  MaxArrays = 2
INVARIANT
  WaitsAreCapped
