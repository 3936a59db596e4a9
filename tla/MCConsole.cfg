SPECIFICATION FairSpec
CONSTANTS
  Writers = {w1, w2}
  MainThread = w2
  MessageBound = 3
  ConsoleBound = 2
  CacheBound = 2
INVARIANTS
  TypeOK
  FramesSeparate
  Accounted
PROPERTIES
  LockReleased
CHECK_DEADLOCK FALSE
