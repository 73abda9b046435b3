SPECIFICATION SpecMain
CONSTANTS
  None = None
  Error = Error
  MaxRemotes = 3
  MaxAsked = 2
  Inputs <- MCInputs
  Commands <- MCCommands
  Dictionary <- MCDictionary
INVARIANTS
  MainTypeOK
  RunsTheCommandMeant
  AnswersFollowPrecedence
  RepositoryOnItsForge
CHECK_DEADLOCK FALSE
