SPECIFICATION FairSpec
CONSTANTS
  a = a b = b x = x o1 = o1 o2 = o2 o3 = o3 o4 = o4 d1 = d1 d2 = d2
  r1 = r1 s1 = s1 r2 = r2 r3 = r3 r4 = r4 l1 = l1 k1 = k1 k2 = k2 f1 = f1 f2 = f2
  Product <- MCProduct
  Known <- MCKnown
  Rank <- MCRank
  Order <- MCOrder
  Delivery <- MCDelivery
  Demand <- MCDemand
  InitialUnits <- MCInitialUnits
  Call <- MCCall
  Operation <- MCOperation
  Target <- MCTarget
  MaxStarted = 4
INVARIANTS
  TypeOK
  CountersMatch
  LockingInv
  UnitsConserved
  AllOrNothing
  DespatchedIsConsumed
PROPERTIES
  ImplementsContract
  EveryRequestEnds
CHECK_DEADLOCK FALSE
