SPECIFICATION Spec
CONSTANT Lines <- MCLines
INVARIANT SourceBranchKept
CHECK_DEADLOCK FALSE
