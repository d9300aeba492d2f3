SPECIFICATION FairSpec
CONSTANTS
  p1 = p1
  p2 = p2
  Pools <- MCPools
  Rank <- MCRank
  Start <- MCStart
  EpochLen <- MCEpochLen
  EpochNum = 2
  Suspension = 1
  MaxTx = 3
  MaxHeight = 3
INVARIANTS TypeOK ScheduleTracksLedger OneTick
PROPERTIES DeferralKept KeepsDistributing
