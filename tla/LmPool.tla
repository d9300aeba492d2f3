------------------------------- MODULE LmPool -------------------------------
(***************************************************************************)
(* The life of a liquidity mining program: the pool arithmetic of          *)
(* data/pool.rs, the orders of data/order.rs that drive it, and what the   *)
(* executor does with their verdicts.  A program pays ProgramBudget over   *)
(* EpochNum epochs.  A deposit turns liquidity into a bundle of virtual    *)
(* liquidity (vlq) and of temporal tokens (tmp, vlq for each epoch left);  *)
(* a compound pays a batch of bundles for the epochs they have lived       *)
(* through and takes that many tmp back; a redeem gives the liquidity back.*)
(*                                                                         *)
(* The pool box is guarded by POOL_VALIDATOR, a contract: a transaction    *)
(* the bot makes counts only if the contract accepts it.                   *)
(***************************************************************************)
EXTENDS Integers, FiniteSets, FiniteSetsExt

CONSTANTS
    Stakers,            \* bundle ids, one for each owner of liquidity
    Deployer,           \* the staker whose bundle the deployment creates
    Amounts,            \* liquidity of an order
    InitialLq,          \* initial_lq_token_deposit
    Delegations,        \* possible num_epochs_to_delegate
    MaxValue,           \* MAX_VALUE: all the vlq, and all the tmp, there is
    EpochLen, EpochNum, ProgramStart, RedeemDelta,    \* ProgramConfig
    ProgramBudget, MaxRoundingError,
    StuckPool,          \* the pool has the id stuck_pool_id
    BatchSize,          \* batch_size of the scheduler
    Ergs,               \* ERG in an order box
    Funds,              \* ERG that the funding repository may collect
    MinBox, FatBox,     \* MIN_SAFE_BOX_VALUE, MIN_SAFE_FAT_BOX_VALUE
    SafeUserMin,        \* BoxValue::SAFE_USER_MIN
    MinerFee, CompoundFee,   \* DEFAULT_MINER_FEE, .._FOR_COMPOUND_TX
    MaxHeight,          \* bound: height of the network
    MaxOrders           \* bound: orders in the backlog

ASSUME PoolAssumption ==
    /\ Deployer \in Stakers
    /\ Amounts \subseteq Nat \ {0}
    /\ InitialLq \in Amounts
    /\ Delegations \subseteq Nat
    /\ EpochLen \in Nat \ {0}
    /\ EpochNum \in Nat \ {0}
    /\ ProgramBudget \in Nat
    /\ ProgramBudget >= EpochNum
    /\ {MaxValue, ProgramStart, RedeemDelta, MaxRoundingError, BatchSize} \subseteq Nat
    /\ {MaxHeight, MaxOrders} \subseteq Nat
    /\ StuckPool \in BOOLEAN
    /\ Ergs \cup Funds \cup {MinBox, FatBox, SafeUserMin, MinerFee, CompoundFee} \subseteq Nat

VARIABLES
    height,     \* ctx.height
    pool,       \* budget_rem, reserves_lq, reserves_vlq, reserves_tmp, epoch_ix
    bundles,    \* staker -> bundle, for the bundles there are
    orders,     \* staker -> its order in the backlog
    lastBatch,  \* history: size of the last batch compounded
    panicked    \* history: the bot panicked

poolVars == <<height, pool, bundles, orders, lastBatch, panicked>>

DepositOrder == [kind : {"deposit"}, lq : Amounts, epochs : 0 .. EpochNum, erg : Ergs]
RedeemOrder == [kind : {"redeem"}, lq : Amounts, erg : Ergs]

With(f, x, v) == [y \in DOMAIN f \cup {x} |-> IF y = x THEN v ELSE f[y]]
Without(f, x) == [y \in DOMAIN f \ {x} |-> f[y]]
SatSub(a, b) == IF a >= b THEN a - b ELSE 0

\* Before the deployment all vlq and tmp are in the hands of the deployer.
PoolInit ==
    /\ height = 0
    /\ pool = [budget |-> 0, lq |-> 0, vlq |-> MaxValue, tmp |-> MaxValue, epochIx |-> 0]
    /\ bundles = [s \in {} |-> 0]
    /\ orders = [s \in {} |-> 0]
    /\ lastBatch = 0
    /\ panicked = FALSE

Live == pool.lq > 0 /\ ~panicked
-----------------------------------------------------------------------------
EpochAlloc == ProgramBudget \div EpochNum

EpochCompleted(p) == p.budget % EpochAlloc <= MaxRoundingError

CurrentEpochIx(h) ==
    LET blockIx == h - ProgramStart + 1
        ix == blockIx \div EpochLen
    IN  IF blockIx < 0 THEN 0 ELSE IF blockIx % EpochLen > 0 THEN ix + 1 ELSE ix

NumEpochsRemain(h) == SatSub(EpochNum, CurrentEpochIx(h))

\* MUTANT of EpochsLeftToProcess: the quotient is rounded down.
EpochsLeftRoundedDown(p) == SatSub(p.budget, MaxRoundingError) \div EpochAlloc

\* epochs_left_to_process: a quotient rounded up.
EpochsLeftToProcess(p) ==
    LET unpaid == SatSub(p.budget, MaxRoundingError)
    IN  unpaid \div EpochAlloc + (IF unpaid % EpochAlloc > 0 THEN 1 ELSE 0)

\* The epoch that the schedule of the pool has next.
NextEpoch(p) == EpochNum - EpochsLeftToProcess(p) + 1

\* Pool and bundle as the last deployment transaction makes them.
FreshPool(d) ==
    [budget |-> ProgramBudget, lq |-> InitialLq, vlq |-> MaxValue - InitialLq,
     tmp |-> MaxValue - InitialLq * d, epochIx |-> 0]
FreshBundle(d) == [vlq |-> InitialLq, tmp |-> InitialLq * d]

\* apply_deposit: the early returns, in their order.
DepositVerdict(p, o) ==
    LET change == SatSub(SatSub(SatSub(o.erg, FatBox), FatBox), MinerFee)
    IN  IF NumEpochsRemain(height) < 1 THEN "fatal"
        ELSE IF ~EpochCompleted(p) THEN "suspend"
        ELSE IF o.epochs # NumEpochsRemain(height) \/ change < MinBox THEN "fatal" ELSE "ok"

Deposited(p, o) ==
    [p EXCEPT !.lq = @ + o.lq, !.vlq = @ - o.lq,
              !.tmp = @ - NumEpochsRemain(height) * o.lq]

\* apply_redeem.  One pool, known to be stuck, need not complete its epoch.
RedeemVerdict(p, b, o) ==
    LET change == SatSub(SatSub(o.erg + FatBox, MinBox), MinerFee)
    IN  IF o.lq # b.vlq THEN "fatal"
        ELSE IF ~StuckPool /\ ~EpochCompleted(p) THEN "suspend"
        ELSE IF change < MinBox THEN "fatal" ELSE "ok"

\* MUTANT of Redeemed: the virtual liquidity is not put back.
RedeemedOnly(p, b, o) == [p EXCEPT !.lq = @ - o.lq, !.tmp = @ + b.tmp]

Redeemed(p, b, o) == [p EXCEPT !.lq = @ - o.lq, !.vlq = @ + b.vlq, !.tmp = @ + b.tmp]
-----------------------------------------------------------------------------
\* distribute_rewards: the epoch to pay for follows from the budget left.
EpochIx(p) ==
    LET ix == EpochNum + 1 - p.budget \div EpochAlloc
    IN  IF EpochCompleted(p) THEN ix ELSE ix - 1

EpochsRemain(p) == SatSub(EpochNum, EpochIx(p))
EpochsBurned(p, b) == SatSub(b.tmp \div b.vlq, EpochsRemain(p))
ActualTmp(p) == SatSub(SatSub(MaxValue, p.tmp), p.lq * EpochsRemain(p))
AllocRem(p) == SatSub(SatSub(p.budget, (ProgramBudget * EpochsRemain(p)) \div EpochNum), 1)

\* MUTANT of Reward: every bundle is paid as if it were the only one.
RewardUndivided(p, b) == IF ActualTmp(p) > 0 THEN AllocRem(p) \div 2 ELSE 0

\* MUTANT of Reward: the share of a bundle is rounded before it is paid for.
RewardRoundedTwice(p, b) ==
    IF ActualTmp(p) > 0
    THEN (AllocRem(p) \div ActualTmp(p)) * b.vlq * EpochsBurned(p, b)
    ELSE 0

Reward(p, b) ==
    IF ActualTmp(p) > 0
    THEN (AllocRem(p) * b.vlq * EpochsBurned(p, b)) \div ActualTmp(p)
    ELSE 0

ChargedTmp(p, b) == b.tmp - EpochsRemain(p) * b.vlq

Distributed(p, batch) ==
    [p EXCEPT !.budget = @ - SumFunction([s \in batch |-> Reward(p, bundles[s])]),
              !.tmp = @ + SumFunction([s \in batch |-> ChargedTmp(p, bundles[s])]),
              !.epochIx = EpochIx(p)]

\* A bundle already compounded spoils its batch.
Distributable(p, batch) == \A s \in batch : EpochsBurned(p, bundles[s]) >= 1

\* What the transaction pays in ERG: the reward boxes and the miner's fee.
CompoundCost(batch) == Cardinality(batch) * MinBox + CompoundFee
EstimatedMinValue(batch) == Cardinality(batch) * SafeUserMin
-----------------------------------------------------------------------------
\* POOL_VALIDATOR: all epochs before the current one are paid for.
PrevEpochsCompounded(p) ==
    LET past == IF CurrentEpochIx(height) <= EpochNum
                THEN CurrentEpochIx(height) - 1 ELSE EpochNum
    IN  (ProgramBudget - p.budget) + MaxRoundingError >= past * EpochAlloc

AcceptsRedeem(p, b) ==
    /\ \/ PrevEpochsCompounded(p)
       \/ height >= ProgramStart + EpochNum * EpochLen + RedeemDelta
    /\ CurrentEpochIx(height) <= EpochNum => b.tmp >= b.vlq * NumEpochsRemain(height)

AcceptsCompound(p, next) ==
    LET r == EpochNum - next.epochIx
        owed == p.budget - (ProgramBudget * r) \div EpochNum - 1
        actual == MaxValue - p.tmp - p.lq * r
    IN  /\ next.epochIx <= CurrentEpochIx(height) - 1
        /\ p.budget - r * EpochAlloc <= EpochAlloc + MaxRoundingError
        /\ next.tmp > p.tmp
        /\ actual > 0
        /\ p.budget - next.budget <= (owed * (next.tmp - p.tmp)) \div actual
-----------------------------------------------------------------------------
NewBlock ==
    /\ height < MaxHeight
    /\ height' = height + 1
    /\ UNCHANGED <<pool, bundles, orders, lastBatch, panicked>>

Create(d) ==
    /\ pool.lq = 0
    /\ bundles = [s \in {} |-> 0]
    /\ pool' = FreshPool(d)
    /\ bundles' = With(bundles, Deployer, FreshBundle(d))
    /\ UNCHANGED <<height, orders, lastBatch, panicked>>

\* Users send their orders; a bundle, or an order, is sent for once.
AskDeposit(s, n, erg) ==
    /\ Live
    /\ s \notin DOMAIN orders \cup DOMAIN bundles
    /\ Cardinality(DOMAIN orders) < MaxOrders
    /\ orders' = With(orders, s, [kind |-> "deposit", lq |-> n,
                                  epochs |-> NumEpochsRemain(height), erg |-> erg])
    /\ UNCHANGED <<height, pool, bundles, lastBatch, panicked>>

AskRedeem(s, n, erg) ==
    /\ Live
    /\ s \in DOMAIN bundles \ DOMAIN orders
    /\ Cardinality(DOMAIN orders) < MaxOrders
    /\ orders' = With(orders, s, [kind |-> "redeem", lq |-> n, erg |-> erg])
    /\ UNCHANGED <<height, pool, bundles, lastBatch, panicked>>

\* Deposit::try_run.  A fatal verdict removes the order and a suspended one
\* is tried again, which changes nothing; an order whose transaction the
\* contract refuses is not returned to the backlog.
RunDeposit(s) ==
    /\ Live
    /\ s \in DOMAIN orders
    /\ orders[s].kind = "deposit"
    /\ DepositVerdict(pool, orders[s]) # "suspend"
    /\ orders' = Without(orders, s)
    /\ IF DepositVerdict(pool, orders[s]) = "ok" /\ PrevEpochsCompounded(pool)
       THEN /\ pool' = Deposited(pool, orders[s])
            /\ bundles' = With(bundles, s, [vlq |-> orders[s].lq,
                                  tmp |-> NumEpochsRemain(height) * orders[s].lq])
       ELSE UNCHANGED <<pool, bundles>>
    /\ UNCHANGED <<height, lastBatch, panicked>>

\* Redeem::try_run.  The pool box cannot be built without liquidity: the
\* conversion of a zero amount to a token panics.
RunRedeem(s) ==
    /\ Live
    /\ s \in DOMAIN orders
    /\ orders[s].kind = "redeem"
    /\ LET o == orders[s]
           verdict == RedeemVerdict(pool, bundles[s], o)
           next == Redeemed(pool, bundles[s], o)
       IN  /\ verdict # "suspend"
           /\ orders' = Without(orders, s)
           /\ panicked' = (verdict = "ok" /\ next.lq = 0)
           /\ IF verdict = "ok" /\ next.lq > 0 /\ AcceptsRedeem(pool, bundles[s])
              THEN pool' = next /\ bundles' = Without(bundles, s)
              ELSE UNCHANGED <<pool, bundles>>
    /\ UNCHANGED <<height, lastBatch>>

\* Compound::try_run for a batch of the scheduler, with the funding that
\* collect returned.  It fails when the budget would be spent.  When the
\* funding does not cover the cost, the ERG of the outputs exceeds that of the
\* inputs and the node refuses.
RunCompound(batch, funding) ==
    /\ Live
    /\ Distributable(pool, batch)
    /\ funding >= EstimatedMinValue(batch)
    /\ funding >= CompoundCost(batch)
    /\ \E next \in {Distributed(pool, batch)} :
         next.budget > 0 /\ AcceptsCompound(pool, next) /\ pool' = next
    /\ bundles' = [s \in DOMAIN bundles |->
                     IF s \in batch
                     THEN [bundles[s] EXCEPT !.tmp = @ - ChargedTmp(pool, bundles[s])]
                     ELSE bundles[s]]
    /\ lastBatch' = Cardinality(batch)
    /\ UNCHANGED <<height, orders, panicked>>

\* lower_epoch_ix: the first epoch that the bundle has not been paid for.
LowerEpochIx(b) == EpochNum - b.tmp \div b.vlq + 1

\* The bundles that select returns for the next epoch of the schedule.
Eligible == {s \in DOMAIN bundles : LowerEpochIx(bundles[s]) = NextEpoch(pool)}

\* Any batch: an order may be older than the state it is run on.
Batches == {b \in SUBSET DOMAIN bundles : Cardinality(b) \in 1 .. BatchSize}

RunOrder(s) == RunDeposit(s) \/ RunRedeem(s)

SomeCompound == \E batch \in Batches, f \in Funds : RunCompound(batch, f)

PoolNext ==
    \/ NewBlock
    \/ SomeCompound
    \/ \E s \in Stakers :
         \/ \E n \in Amounts, erg \in Ergs : AskDeposit(s, n, erg) \/ AskRedeem(s, n, erg)
         \/ RunOrder(s)

LmPoolNext == PoolNext \/ \E d \in Delegations : Create(d)

LmPoolSpec == PoolInit /\ [][LmPoolNext]_poolVars
-----------------------------------------------------------------------------
Custody ==
    INSTANCE Vault WITH held <- pool.lq, issued <- MaxValue - pool.vlq,
                        claims <- [s \in DOMAIN bundles |-> bundles[s].vlq]

(***************************************************************************)
(* The pool keeps the promise of Vault: apply_deposit takes what the order *)
(* brings, apply_redeem gives back exactly that, and no other operation    *)
(* moves liquidity.                                                        *)
(***************************************************************************)
KeepsCustody == Custody!Spec

(***************************************************************************)
(* Scheduler, pool arithmetic and contract agree.  The epoch for which the *)
(* scheduler selects stakers is the one distribute_rewards pays for, and a *)
(* batch for which that succeeds, of an epoch that is over, is one whose   *)
(* rewards the contract lets pass, and which leaves some of the budget.    *)
(* So no epoch is paid from what later epochs need, in however many        *)
(* batches and whatever was deposited and redeemed in between.  (A bundle  *)
(* that is not paid when the last epoch counts as completed, its reward    *)
(* being within the rounding error, is charged for an epoch after the      *)
(* last, which the contract refuses.)                                      *)
(***************************************************************************)
CompoundsAccepted ==
    Live =>
        /\ NextEpoch(pool) = EpochIx(pool)
        /\ EpochIx(pool) <= EpochNum /\ EpochIx(pool) < CurrentEpochIx(height) =>
              \A batch \in Batches : Distributable(pool, batch) =>
                  \A next \in {Distributed(pool, batch)} :
                      next.budget > 0 /\ AcceptsCompound(pool, next)

(***************************************************************************)
(* Rounding keeps an epoch open that nobody is left to be paid for, which  *)
(* blocks the pool for good, only if max_rounding_error is smaller than    *)
(* the number of later epochs and the size of the last batch together; the *)
(* validation of a deployment only compares it with the number of epochs.  *)
(***************************************************************************)
Overdue == {s \in DOMAIN bundles : LowerEpochIx(bundles[s]) < NextEpoch(pool)}

StuckOnlyByRounding ==
    Live /\ pool.epochIx > 0 /\ ~EpochCompleted(pool) /\ Eligible \cup Overdue = {}
        => MaxRoundingError < EpochNum - pool.epochIx + lastBatch

(***************************************************************************)
(* An epoch may count as completed before everybody is paid: the scheduler *)
(* goes on to the next epoch and does not offer the bundles left out again *)
(* (they are overdue).  What they were owed when the epoch was closed is   *)
(* no more than max_rounding_error, all of them together, those left out   *)
(* in earlier epochs included.                                             *)
(***************************************************************************)
SkippedOwedLittle ==
    [][Live /\ NextEpoch(pool') > NextEpoch(pool) =>
          LET skipped == {s \in DOMAIN bundles : /\ EpochsBurned(pool, bundles[s]) >= 1
                                                 /\ bundles'[s] = bundles[s]}
          IN  SumFunction([s \in skipped |-> Reward(pool, bundles[s])])
                <= MaxRoundingError]_poolVars
=============================================================================
