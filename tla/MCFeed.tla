------------------------------- MODULE MCFeed -------------------------------
(***************************************************************************)
(* Small instance of the followers of the ledger.  A behaviour has the     *)
(* transactions of one of three scopes:                                    *)
(*   wallet  of the operator: boxes that funding follows;                  *)
(*   stakes  of a pool and its bundles, with the executor;                 *)
(*   orders  of orders and of the bundles they redeem.                     *)
(***************************************************************************)
EXTENDS Followers

CONSTANTS
    topup, pay, payRest,           \* transactions of the wallet
    deploy, compound, compoundBoth, redeemA,   \* of the pool
    askDeposit, deposit, askRedeem, redeemC,
    f1, f2, g1,                    \* wallet boxes
    p0, p1, p2, p3, q1, q2,        \* pool boxes
    a1, a2, a3, c1, A, C,          \* states of the bundles A and C
    dOrder, rOrder, key,           \* order boxes; the box with C's bundle key
    u1, u2                         \* boxes older than the first event

VARIABLE scope

WalletTxs == {topup, pay, payRest}
StakeTxs == {deploy, compound, compoundBoth, redeemA}
OrderTxs == {deploy, askDeposit, deposit, askRedeem, redeemC}
TxsOf == [wallet |-> WalletTxs, stakes |-> StakeTxs, orders |-> OrderTxs]

MCTxs == WalletTxs \cup StakeTxs \cup OrderTxs
MCInputs ==
    [t \in MCTxs |->
        CASE t = topup -> {u1}
          [] t = pay -> {f1}
          [] t = payRest -> {f2, g1}
          [] t = deploy -> {u1}
          [] t \in {compound, compoundBoth} -> {p0, a1}
          [] t = redeemA -> {p1, a2}
          [] t = askDeposit -> {u2}
          [] t = deposit -> {p0, dOrder}
          [] t = askRedeem -> {key}
          [] t = redeemC -> {q1, c1, rOrder}]
MCOutputs ==
    [t \in MCTxs |->
        CASE t = topup -> {f1, f2}
          [] t = pay -> {g1}
          [] t = payRest -> {}
          [] t = deploy -> {p0, a1}
          [] t = compound -> {p1, a2}
          [] t = compoundBoth -> {p2, a3}
          [] t = redeemA -> {p3}
          [] t = askDeposit -> {dOrder}
          [] t = deposit -> {q1, c1, key}
          [] t = askRedeem -> {rOrder}
          [] t = redeemC -> {q2}]

MCValue == [b \in {f1, f2, g1} |-> IF b = f1 THEN 2 ELSE 1]
MCKeyOrder == [b \in {f1, f2, g1} |-> IF b = f1 THEN 1 ELSE IF b = f2 THEN 2 ELSE 3]
MCBundleOf == [s \in {a1, a2, a3, c1} |-> IF s = c1 THEN C ELSE A]
MCEpochsLeft ==
    [s \in {a1, a2, a3, c1} |->
        IF s \in {a1, c1} THEN 2 ELSE IF s = a2 THEN 1 ELSE 0]
MCRedeemOf == [o \in {rOrder} |-> C]
MCStamp == [t \in MCTxs |-> 500000]
\* The block with the deposit order is older than the lifespan.
MCStampOld == [t \in MCTxs |-> IF t = askDeposit THEN 1000 ELSE 500000]

MCInit == scope \in DOMAIN TxsOf /\ FollowersInit

\* Steps of FollowersNext: only in the scope of the stakes does the executor
\* resolve and predict bundles, and only in that of the wallet is there funding.
MCNext ==
    /\ \/ \E t \in TxsOf[scope] : AppliedRound(t) \/ UnappliedRound(t)
       \/ scope = "wallet" /\ FundingSteps
       \/ scope = "stakes" /\ BundleSteps
       \/ scope = "orders" /\ TrackBundle /\ UNCHANGED <<fundOnlyVars, orderVars>>
       \/ scope = "orders" /\ OrderSteps
       \/ FollowersRestart
    /\ UNCHANGED scope

MCSpec == MCInit /\ [][MCNext]_<<scope, followersVars>>
=============================================================================
