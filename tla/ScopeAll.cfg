SPECIFICATION Spec
CONSTANTS
  MaxSamp = 2
  Frames = {1, 2}
  Downs = {0, 1}
  DacDown = 1
  Prerolls = {0}
  PrerollDen = 2
  Taps = 2
  IsSimulink = FALSE
  Commands <- AllCommands
  PausedOnly = {}
  UnarmedOnly = {}
  PollFirst = FALSE
  MaxStoreLag = 0
  MaxCopyLag = 0
  MaxSamples = 2
INVARIANTS
  LinkFollowsMeasurement
