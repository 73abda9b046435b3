SPECIFICATION Spec
CONSTANTS
  MaxPages = 2
  PerPage = 1
  Maxes <- MCMaxes
INVARIANT NoMoreDataGivesNull
CHECK_DEADLOCK FALSE
