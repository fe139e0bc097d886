SPECIFICATION FairSpec
CONSTANTS
  Cancellers = {}
  MaxCalls = 2
  MaxAttempts = 1
  MaxDeadLetters = 0
  MaxRestarts = 1
  MaxLostFacts = 0
  ReserveWorlds <- ReconsideredReserve
  HoldWorlds <- ReconsideredHold
ACTION_CONSTRAINT OneMishap
INVARIANTS
  NothingStranded
  CompletedIsSettled
PROPERTIES
  FollowsLifecycle
  ReleaseFirst
  AutomatedPartEnds
  PaidCompletes
CHECK_DEADLOCK FALSE
