SPECIFICATION Spec
CONSTANTS
  RemoteStart = 10
  LocalStart = 100
  SegLen = 2
  Segs = 3
  ServerBytes = 1
  SndBuf = 4
  WindowUnit = 2
  MaxWindow = 2
  AppBuf = 3
  Mss = 2
  MaxHeader = 1
  TunYield = 2
  UpBound = 2
  Socks5 = FALSE
  Faults = {"retransmit"}
INVARIANTS
  TypeOK
  ServerStreamIntact
  RemoteSeqCounts
  AckedIsForwarded
  QueueBounded
  QueueNotBlocked
