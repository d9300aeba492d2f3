SPECIFICATION MCSpec
CONSTANTS
  o1 = o1
  o2 = o2
  NoOrder = NoOrder
  Orders <- MCOrders
  Kinds <- MCKinds
  Weight <- MCWeight
  Fundings = {2}
  Lifespan = 1
  ExecTime = 0
  RetryProb = 20
  MaxLag = 1
  MaxEntries = 2
INVARIANTS LmTypeOK Accounted SinglePlace InvalidatesMissing
PROPERTIES NoEarlyResubmit NotEvictedEarly Drains ImplementsBacklog
