SPECIFICATION FairSpec
CONSTANTS
  Ptr = {p1, p2, p3}
  Udp = {"udp", "dns"}
  Icmp = {}
  Tcp = {"tcp"}
  Dns = {"dns"}
  Ids = {1}
  MaxSessions = 2
  TunYield = 2
  UdpTimeout = 2
  DnsTimeout = 1
  IcmpTimeout = 1
  TcpTimeouts = {1, 2}
  UdpKeep = 1
  TcpKeep = 1
  AgeBound = 2
  LeakBound = 0
  Fwd53 = FALSE
  Faults = {"forbid", "network"}
PROPERTIES
  EndedIsFreed
  OnlyIdleTimedOut
