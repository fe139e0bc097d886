SPECIFICATION FairSpec
CONSTANTS
  l1 = l1 l2 = l2 lx = lx o1 = o1 o2 = o2 o3 = o3 o4 = o4 o5 = o5 r1 = r1 r2 = r2
  h1 = h1 g1 = g1 f1 = f1 h2 = h2 h3 = h3 h4 = h4 h5 = h5 x1 = x1
  i1 = i1 e1 = e1 i3 = i3 p1 = p1 d1 = d1 q1 = q1 w1 = w1 p3 = p3
  NoOrder = NoOrder Sequence = Sequence
  Line <- MCLine
  Known <- MCKnown
  Limit <- MCLimit
  Order <- MCOrder
  LineOf <- MCLineOf
  Amount <- MCAmount
  Reference <- MCReference
  Call <- MCCall
  Operation <- MCOperation
  Target <- MCTarget
  ReferenceOf <- MCReferenceOf
  PaidAmount <- MCPaidAmount
  Near <- MCNear
  Foreign <- MCForeign
  Mixes <- MCMixes
  Unlucky = {i1, p1}
  Draws = {FALSE}
  MaxAttempts = 2
INVARIANTS
  TypeOK
  WithinLimit
  CreditReturnsOnce
  OnePaymentEach
  RemittanceAnswers
  NumbersGapFree
PROPERTIES
  EveryRequestEnds
  ImplementsContract
CHECK_DEADLOCK FALSE
