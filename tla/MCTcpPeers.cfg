SPECIFICATION Spec
CONSTANTS
  RemoteStart = 10
  LocalStart = 100
  SegLen = 2
  Segs = 1
  ServerBytes = 3
  SndBuf = 4
  WindowUnit = 1
  MaxWindow = 3
  AppBuf = 2
  Mss = 2
  MaxHeader = 0
  TunYield = 2
  UpBound = 2
  Socks5 = FALSE
  Faults = {"server", "abort"}
INVARIANTS
  OnlyPeersEnd
  AppLearnsOfEnd
  AppInSync
  WindowRespected
