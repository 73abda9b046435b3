SPECIFICATION FairSpec
CONSTANTS
  Clients = {"c1", "c2", "c3"}
  Users = {"u1", "u2"}
  Work <- MCWork
INVARIANTS
  TypeOK
  SubmitIsComplete
  ReviewersStay
PROPERTIES
  DeletesMergedOnly
  SubmitEnds
CHECK_DEADLOCK FALSE
