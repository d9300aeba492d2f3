SPECIFICATION LmSpec
CONSTANTS
  o1 = o1
  o2 = o2
  NoOrder = NoOrder
  Orders <- MCOrders
  Kinds <- MCKinds
  Weight <- MCWeight
  Fundings <- MCFundings
  Lifespan = 0
  ExecTime = 0
  RetryProb = 20
  MaxLag = 0
  MaxEntries = 1
INVARIANT NoLimbo
