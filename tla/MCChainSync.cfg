SPECIFICATION FairSpec
CONSTANTS
  a1 = a1
  a2 = a2
  a3 = a3
  a4 = a4
  a5 = a5
  b2 = b2
  b3 = b3
  b4 = b4
  c1 = c1
  c2 = c2
  NoBlock = NoBlock
  Blocks <- MCBlocks
  Parent <- MCParent
  Height <- MCHeight
  StartHeight = 1
  MaxDepth = 3
  MaxMoves = 4
  MaxRestarts = 1
INVARIANTS TypeOK CanUndo NoPanic
PROPERTIES FollowsChain CatchesUp
CHECK_DEADLOCK FALSE
