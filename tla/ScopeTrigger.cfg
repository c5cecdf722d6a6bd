SPECIFICATION Spec
CONSTANTS
  MaxSamp = 5
  Frames = {3}
  Downs = {0}
  DacDown = 0
  Prerolls = {1}
  PrerollDen = 3
  Taps = 2
  IsSimulink = FALSE
  Commands <- Switching
  PausedOnly = {}
  UnarmedOnly = {"pause"}
  PollFirst = TRUE
  MaxStoreLag = 1
  MaxCopyLag = 1
  MaxSamples = 8
INVARIANTS
  FrameConsecutive
PROPERTIES
  CopyFlagged
  PrerollPassed
  TriggerPlaced
