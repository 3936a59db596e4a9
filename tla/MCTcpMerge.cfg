SPECIFICATION FairSpec
CONSTANTS
  RemoteStart = 10
  LocalStart = 100
  SegLen = 2
  Segs = 2
  ServerBytes = 0
  SndBuf = 5
  WindowUnit = 1
  MaxWindow = 5
  AppBuf = 3
  Mss = 1
  MaxHeader = 1
  TunYield = 2
  UpBound = 2
  Socks5 = FALSE
  Faults = {"retransmit", "repack"}
PROPERTIES
  QueueDrains
