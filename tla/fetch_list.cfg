SPECIFICATION FairSpec
CONSTANTS
  MaxPages = 4
  PerPage = 2
  Maxes <- MCMaxes
INVARIANTS
  TypeOK
  MemorySafe
  CompleteOrEnough
  OvershootsByLessThanAPage
PROPERTIES
  Terminates
  ImplementsListing
CHECK_DEADLOCK FALSE
