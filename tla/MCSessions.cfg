SPECIFICATION Spec
CONSTANTS
  Ptr = {p1, p2, p3}
  Udp = {"udp", "dns"}
  Icmp = {"ping"}
  Tcp = {"tcp"}
  Dns = {"dns"}
  Ids = {1}
  MaxSessions = 1
  TunYield = 2
  UdpTimeout = 1
  DnsTimeout = 0
  IcmpTimeout = 0
  TcpTimeouts = {0, 1}
  UdpKeep = 0
  TcpKeep = 0
  AgeBound = 1
  LeakBound = 1
  Fwd53 = TRUE
  Faults = {"open", "network", "forbid", "restart"}
SYMMETRY Symmetry
INVARIANTS
  TypeOK
  SocketMatchesState
  NoDescriptorLeak
  EventsHaveSession
  OneSessionPerFlow
  SessionsLimited
PROPERTIES
  FollowsLife
