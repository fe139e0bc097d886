SPECIFICATION FairSpec
CONSTANTS
  o1 = o1 o2 = o2 r1 = r1 w1 = w1 w2 = w2
  Order = {o1, o2}
  Instance = {r1}
  Worker = {w1, w2}
  Emits <- MCEmits
  BatchSize = 2
  MaxFaults = 2
  MaxAttempts = 1
  MaxSendAttempts = 2
  Consumed <- SagaFacts
INVARIANTS
  TypeOK
  EffectsOnceInOrder
  NoticesAccounted
PROPERTIES
  ImplementsFactLog
  Drains
CHECK_DEADLOCK FALSE
