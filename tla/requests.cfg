SPECIFICATION Spec
CONSTANTS
  MaxAssets = 2
  Commands <- CommandLines
  Effects <- MCEffects
  Plan <- MCPlan
  Promise <- MCPromise
  Required <- MCRequired
  Asking <- MCAsking
  Careless <- MCCareless
  Misread <- MCMisread
  Compound <- MCCompound
INVARIANTS
  TypeOK
  InOrder
  SuccessIsComplete
  FailureChangesNothing
PROPERTIES
  AsksFirst
CHECK_DEADLOCK FALSE
