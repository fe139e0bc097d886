SPECIFICATION Spec
CONSTANTS
  Cancellers = {k1}
  MaxCalls = 1
  MaxAttempts = 1
  MaxDeadLetters = 0
  MaxRestarts = 0
  MaxLostFacts = 0
  ReserveWorlds <- ReservedWorld
  HoldWorlds <- StableHoldWorlds
PROPERTY
  ReleaseFirst
CHECK_DEADLOCK FALSE
