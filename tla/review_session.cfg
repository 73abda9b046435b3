SPECIFICATION Spec
CONSTANTS
  Pulls <- MCPulls
  MaxPushes = 1
  MaxNotes = 2
INVARIANTS
  TypeOK
  VerdictAfterTheNotes
  SuccessIsComplete
  PickUpAgain
  AnchoredAsWritten
  NotesReachTheirPull
