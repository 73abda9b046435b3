SPECIFICATION SpecGen
CONSTANTS
  MaxScopes = 3
  Capacity = 4
  Lengths <- MCLengths
  MaxCalls = 8
INVARIANTS
  WritesJson
  StaysInBuffer
CHECK_DEADLOCK FALSE
