SPECIFICATION Spec
CONSTANTS
  i1 = i1
  p1 = p1
  c1 = c1
  Threads <- MCThreads
  Kind <- MCKind
  Discussion <- MCDiscussion
  MaxRows = 2
  PipeSize = 2
INVARIANTS
  TypeOK
  ShowsTheThread
  OneReader
PROPERTY BackToPrompt
CHECK_DEADLOCK FALSE
