SPECIFICATION FairSpec
CONSTANTS
  Clients = {c1, c2}
  Commands <- AllCommands
  IsSimulink = TRUE
  HangUps = FALSE
  StartFails = FALSE
  MaxCalls = 2
  Failed = Failed
  NoAnswer = NoAnswer
  None = None
PROPERTIES
  DelayedFinishes
