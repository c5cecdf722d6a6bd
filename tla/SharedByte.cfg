SPECIFICATION Spec
CONSTANTS
  ElHalf = 8
  ElBound = 5
  ElReach = 20
  EbHalf = 3
  EbBound = 2
  EbHome = 2
  EbReach = 2
  Buses <- MCBuses
  MaxLinks = 3
  MaxStarts = 2
  MaxPort = 1
  Volts = {"high", "over"}
  Nsec = 8
  Cycle = 5
  Settle = 2
  MaxTicks = 7
  Latencies = {0, 1, 2}
  Durations = {0, 7}
  Den = 2
  Freqs = {2, 9}
  SetTypes = {"MULTISINE", "WHISTLE"}
  Intervals = {1}
  MaxWidth = 2
  EndTime = 2
  FirTaps = 3
  FirSamples = {1, 2, 3}
  FirDesigns = {1, 2}
  FsHead = 3
  FsData = 3
  MaxBuf = 4
  Uses <- MCUses
  MaxTimeouts = 1
  MaxLife = 2
  IoBuses <- MCIoBuses
  MaxSegment = 2
  IoChannels = {0}
  Objects <- MCObjects
  MaxCalls = 2
  MaxLate = 2
  MaxLost = 1
INVARIANTS
  OwnChannels
CHECK_DEADLOCK FALSE
