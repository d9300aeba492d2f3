SPECIFICATION FairSpec
CONSTANTS
  p1 = p1
  p2 = p2
  Pools <- MCPools
  Rank <- MCRank
  Start <- MCStart
  EpochLen <- MCEpochLen
  EpochNum = 2
  Suspension = 1
  MaxTx = 1
  MaxHeight = 2
PROPERTY RetriedAfter
