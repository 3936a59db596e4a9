SPECIFICATION Spec
CONSTANTS
  IntentBound = 3
  Faults = {"establish", "exit", "stale"}
INVARIANTS
  EngineHasTun
CHECK_DEADLOCK FALSE
