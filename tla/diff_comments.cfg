SPECIFICATION Spec
CONSTANT Sources <- MCSources
INVARIANTS
  TypeOK
  AcceptsTheManual
  ReadsTheManual
  CommentsStayInTheirHunk
CHECK_DEADLOCK FALSE
