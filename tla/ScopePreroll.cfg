SPECIFICATION Spec
CONSTANTS
  MaxSamp = 8
  Frames = {4}
  Downs = {0}
  DacDown = 0
  Prerolls = {1}
  PrerollDen = 4
  Taps = 2
  IsSimulink = FALSE
  Commands <- Triggering
  PausedOnly = {}
  UnarmedOnly = {}
  PollFirst = TRUE
  MaxStoreLag = 0
  MaxCopyLag = 0
  MaxSamples = 11
PROPERTIES
  PrerollPassed
