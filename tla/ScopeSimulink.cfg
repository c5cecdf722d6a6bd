SPECIFICATION Spec
CONSTANTS
  MaxSamp = 6
  Frames = {3}
  Downs = {0}
  DacDown = 0
  Prerolls = {0, 1}
  PrerollDen = 3
  Taps = 2
  IsSimulink = TRUE
  Commands <- Triggering
  PausedOnly = {}
  UnarmedOnly = {"pause"}
  PollFirst = TRUE
  MaxStoreLag = 1
  MaxCopyLag = 1
  MaxSamples = 9
PROPERTIES
  HaltStopsSampling
