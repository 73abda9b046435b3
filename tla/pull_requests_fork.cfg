SPECIFICATION Spec
CONSTANTS
  Clients = {"c1", "c2", "c3"}
  Users = {"u1", "u2"}
  Work <- MCWork
INVARIANT SourceBranchDeleted
CHECK_DEADLOCK FALSE
