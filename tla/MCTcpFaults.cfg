SPECIFICATION Spec
CONSTANTS
  RemoteStart = 10
  LocalStart = 100
  SegLen = 2
  Segs = 1
  ServerBytes = 1
  SndBuf = 4
  WindowUnit = 2
  MaxWindow = 2
  AppBuf = 3
  Mss = 2
  MaxHeader = 1
  TunYield = 2
  UpBound = 2
  Socks5 = TRUE
  Faults = {"server", "abort", "syndata", "tunwrite", "idle", "forbid", "reload"}
INVARIANTS
  SocketMatchesState
  EventsHaveSession
  RemoteSeqCounts
PROPERTIES
  NeverReopens
  ImplementsLife
