SPECIFICATION FairSpec
CONSTANTS
  IntentBound = 4
  Faults = {"establish", "exit"}
INVARIANTS
  TypeOK
  EngineHasTun
  TunsAccounted
PROPERTIES
  JoinReturns
  ImplementsTunnel
CHECK_DEADLOCK FALSE
