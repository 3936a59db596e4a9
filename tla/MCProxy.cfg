SPECIFICATION FairSpec
CONSTANTS
  Servers = {s1}
  Handshakes = {h1, h2, h3}
  Proxies = {p1}
  DataBound = 3
  Faults = {"connect", "latch", "context", "bind", "stream"}
INVARIANTS
  TypeOK
  StatusHonest
  EventsInOrder
  NoSocketLeak
PROPERTIES
  ThreadsEnd
CHECK_DEADLOCK FALSE
