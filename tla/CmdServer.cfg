SPECIFICATION FairSpec
CONSTANTS
  Clients = {c1, c2}
  Commands <- AllCommands
  IsSimulink = FALSE
  HangUps = TRUE
  StartFails = TRUE
  MaxCalls = 2
  Failed = Failed
  NoAnswer = NoAnswer
  None = None
INVARIANTS
  NoStrayCommand
PROPERTIES
  ServesCalls
  Answered
  EngineFollows
