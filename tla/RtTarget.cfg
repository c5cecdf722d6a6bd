SPECIFICATION FairSpec
CONSTANTS
  FinalTime = 3
  Start = 2
  ExtMode = TRUE
  FramesLost = TRUE
  ModelFails = TRUE
  LogFails = TRUE
  TimerFails = TRUE
  None = None
INVARIANTS
  FreshSamples
  InStep
  StepsEnd
  EveryStep
  LastOutputsSent
  ExtModeOver
PROPERTIES
  Ends
