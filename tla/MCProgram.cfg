SPECIFICATION MCSpec
CONSTANTS
  alice = alice
  bob = bob
  carol = carol
  Stakers = {alice, bob, carol}
  Deployer = alice
  Amounts = {1, 2}
  InitialLq = 1
  Delegations = {1, 2}
  MaxValue = 40
  EpochLen = 2
  EpochNum = 2
  ProgramStart = 1
  RedeemDelta = 2
  ProgramBudget = 15
  MaxRoundingError = 3
  StuckPool = FALSE
  BatchSize = 2
  Ergs = {1, 7}
  Funds = {4, 9}
  MinBox = 1
  FatBox = 2
  SafeUserMin = 4
  MinerFee = 2
  CompoundFee = 4
  MaxHeight = 7
  MaxOrders = 1
  Wallets <- MCWallets
  TxFee = 1
  ErgPerBox = 1
  StartMargin = 1
  MinLq = 1
  DustLimit = 1
  MaxAttempts = 2
INVARIANTS CompoundsAccepted StuckOnlyByRounding ChainIsSound
PROPERTIES KeepsCustody SkippedOwedLittle
CHECK_DEADLOCK FALSE
