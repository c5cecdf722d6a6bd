SPECIFICATION Spec
CONSTANTS
  MaxSamp = 4
  Frames = {2}
  Downs = {1, 2}
  DacDown = 0
  Prerolls = {0}
  PrerollDen = 2
  Taps = 2
  IsSimulink = FALSE
  Commands <- FreeRunning
  PausedOnly = {"set_ndown"}
  UnarmedOnly = {}
  PollFirst = TRUE
  MaxStoreLag = 1
  MaxCopyLag = 1
  MaxSamples = 6
INVARIANTS
  FrameConsecutive
  CopyConsecutive
  DeliveryAdvances
  RateKept
  CopyInRing
