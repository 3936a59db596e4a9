SPECIFICATION Spec
CONSTANTS
  Ptr = {p1, p2, p3}
  Udp = {"udp", "dns"}
  Icmp = {"ping"}
  Tcp = {"tcp"}
  Dns = {"dns"}
  Ids = {1, 2}
  MaxSessions = 2
  TunYield = 1
  UdpTimeout = 2
  DnsTimeout = 1
  IcmpTimeout = 1
  TcpTimeouts = {1, 2}
  UdpKeep = 1
  TcpKeep = 1
  AgeBound = 2
  LeakBound = 0
  Fwd53 = TRUE
  Faults = {}
INVARIANTS
  EchoKeepsId
