SPECIFICATION FairSpec
CONSTANTS
  Clients = {c1, c2}
  Commands <- ModelCommands
  IsSimulink = TRUE
  HangUps = TRUE
  StartFails = FALSE
  MaxCalls = 2
  Failed = Failed
  NoAnswer = NoAnswer
  None = None
PROPERTIES
  Answered
