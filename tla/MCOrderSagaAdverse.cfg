SPECIFICATION Spec
CONSTANTS
  Cancellers = {k1}
  MaxCalls = 1
  MaxAttempts = 1
  MaxDeadLetters = 1
  MaxRestarts = 1
  MaxLostFacts = 1
  ReserveWorlds <- AnyReserveWorld
  HoldWorlds <- AnyHoldWorld
ACTION_CONSTRAINT OneDeadLetter
INVARIANTS
  FailureReportedOnce
  NeverShipUnbacked
  BackingInv
CHECK_DEADLOCK FALSE
