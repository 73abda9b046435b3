SPECIFICATION FairSpec
CONSTANT Lines <- MCLines
INVARIANTS
  TypeOK
  FollowsTheLine
  ZeroMeansAllRead
PROPERTY Terminates
CHECK_DEADLOCK FALSE
