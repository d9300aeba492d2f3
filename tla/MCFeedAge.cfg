SPECIFICATION MCSpec
CONSTANTS
  topup = topup
  pay = pay
  payRest = payRest
  deploy = deploy
  compound = compound
  compoundBoth = compoundBoth
  redeemA = redeemA
  askDeposit = askDeposit
  deposit = deposit
  askRedeem = askRedeem
  redeemC = redeemC
  f1 = f1
  f2 = f2
  g1 = g1
  p0 = p0
  p1 = p1
  p2 = p2
  p3 = p3
  q1 = q1
  q2 = q2
  a1 = a1
  a2 = a2
  a3 = a3
  c1 = c1
  A = A
  C = C
  dOrder = dOrder
  rOrder = rOrder
  key = key
  u1 = u1
  u2 = u2
  NoBox = NoBox
  Txs <- MCTxs
  Inputs <- MCInputs
  Outputs <- MCOutputs
  Genesis = {u1, u2}
  MaxQueue = 2
  Wallet = {f1, f2, g1}
  Value <- MCValue
  KeyOrder <- MCKeyOrder
  Targets = {1, 3}
  BundleOf <- MCBundleOf
  EpochsLeft <- MCEpochsLeft
  PoolBoxes = {p0, p1, p2, p3, q1, q2}
  EpochNum = 2
  OrderBoxes = {dOrder, rOrder}
  RedeemOf <- MCRedeemOf
  Now = 500
  Stamp <- MCStampOld
  OrderLifespan = 10000
INVARIANT NoOldOrders
