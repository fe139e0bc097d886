SPECIFICATION FairSpec
CONSTANTS
  Cancellers = {k1}
  MaxCalls = 1
  MaxAttempts = 1
  MaxDeadLetters = 0
  MaxRestarts = 1
  MaxLostFacts = 0
  ReserveWorlds <- ReservedWorld
  HoldWorlds <- StableHoldWorlds
PROPERTIES
  AcceptedCancelResolves
  RespondersKeepContracts
INVARIANT AcceptedCancelUnwinds
CHECK_DEADLOCK FALSE
