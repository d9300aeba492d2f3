# TLA+ verification of spectrum-offchain-ergo

The repository is an off-chain bot for Ergo liquidity-mining (LM) pools. It
follows the blockchain of an Ergo node, keeps what it sees in RocksDB stores,
collects the orders of users (deposit, redeem) and its own compound orders in a
backlog, executes them one at a time against the latest known pool state and
submits the transactions. The modules here model the parts of it whose
correctness depends on interleaving, reorganisations, restarts, time and
rounding; TLC checks them on small instances and TLAPS proves the main
properties for all instances.

## 1. The system

`spectrum-offchain-lm/src/main.rs` runs ONE tokio task that polls seven streams
(`select_all`). Nothing runs in parallel, but every `.await` is a point where
another stream may go on; each repository is behind a tokio `Mutex` that a
stream holds for one method call or, rarely, for a few. So one call under the
lock is one action of a model, and everything between two calls interleaves.

    node --blocks--> ChainSync --> tx events --> handlers --channels--> streams --> repositories
                                                                                     |   ^
    scheduler (ticks) --compound orders--> backlog <--pop, reports-- executor <------+   |
                                                                       +--predictions----+

| Component | State | Operations | Modelled in |
|---|---|---|---|
| Order backlog (`spectrum-offchain/src/backlog*`) | store, pending and suspended priority queues, revisit queue | put, try_pop, suspend, check_later, recharge, remove, restart | `Backlog` |
| LM executor (`spectrum-offchain-lm/src/executor.rs`, `spectrum-offchain/src/executor.rs`) | the order in work, the transaction being submitted | try_execute_next and its error paths, generate_invalidations | `LmExecutor` |
| Entity repository, resolver, update handler (`spectrum-offchain/src/box_resolver*`, `event_sink/handlers/entity.rs`) | states, prediction links, last confirmed and last predicted index, channel of updates | put_confirmed, put_predicted, invalidate, eliminate, resolve_entity_state, try_handle | `EntityTracker` |
| Chain synchroniser and cache (`ergo-chain-sync/src`) | next height; block keys, child keys, best and oldest block | try_upgrade, append_block, take_best_block, init | `ChainSync` |
| Scheduler (`spectrum-offchain-lm/src/scheduler*`, `event_sink/handlers/schedule.rs`) | schedules, pending and deferred ticks | update_schedule, peek, defer, remove, clean; distribution stream | `Scheduler` |
| Event source and sink (`event_source.rs`, `event_sink.rs`) | none | split blocks into transaction events, offer each to every handler | `LedgerFeed`, `Followers` |
| Order handler, LM backlog stream (`event_sink/handlers/order.rs`, `backlog_stream.rs`) | channel of order updates | try_handle, convert_order_proto, put and remove in the backlog | `Orders` |
| Bundle and program repositories (`bundle*`, `program*` and their handlers) | states, epoch index, links, last confirmed and predicted; programs | put_confirmed, put_predicted, invalidate, eliminate, select, resolve_bundle_state, try_handle | `Bundles` |
| Funding repository (`funding*` and its handler) | boxes under a key with a priority, index | collect, put_confirmed, put_predicted, remove, try_handle | `Funding` |
| Pool and orders (`data/pool.rs`, `data/order.rs`, `data/bundle.rs`) | pool box, bundle boxes | apply_deposit, apply_redeem, distribute_rewards, try_run | `LmPool`, `Vault` |
| Deployment tool (`spectrum-deploy-lm-pool`) | the wallet, six transactions | validate, build, submit | `Deploy` |
| Mempool synchroniser, in-memory stores | | | not modelled: no binary uses them |
| Network client, prover, box parsing, serialisation | none of their own | | not modelled |

What is hard here, and what the properties are for (`PROJECT.json`, "hazards",
has the complete list with lines):

* **lags between handler, channel and repository**: a handler looks spent boxes
  up in a repository that has not yet applied what the same handler sent;
* **reorganisations**, which undo transactions in reverse order and may switch
  forks while a block is in flight;
* **predictions**: the executor works on states the ledger does not have yet,
  and invalidates them after awaits during which the ledger moved;
* **lazy deletion** in queues and indices, with entries that outlive what they
  refer to and are compared by their own timestamp;
* **restarts**: stores persist, queues and channels do not;
* **error paths** of the executor, which must give the order back;
* **rounding**: an epoch is paid in batches, each rounded down, and whether it is
  completed is decided by a remainder within an error;
* **starvation**: fixed scan orders (heaviest first, lowest height first) over
  entries that may fail for ever.

## 2. Modules

### Backlog

`store`, `pending`, `suspended`, `revisit` are the fields of `BacklogService`
and its store. A timestamp is modelled by its distance from the present, its
*age*; `Tick` makes everything older, and ages saturate at the first value that
no comparison distinguishes, so time is unbounded. `hand` and `told` are the
client side: which order `try_execute_next` holds and what it has reported. The
methods on the order in hand are `SuspendHeld`, `CheckLaterHeld`,
`RechargeHeld` and `RemoveHeld`; `Suspend`, `CheckLater`, `Recharge`, `Discard`
add the condition under which a client may call them. `Put` contains the
removal from the other queues, `TryPopPending` and `TryPopSuspended` contain
the release of the revisit queue and the skipping of expired and removed
entries, as in the code. `Restart` rebuilds the pending queue from the store.
`dropped`, `raced` and `known` are history: orders let go of without a report,
orders put while in work, and the earliest time an order was announced.

### LmExecutor

Extends `Backlog` and replaces its abstract client by the code of
`try_execute_next`: pop, resolve the pool, load bundle and funding, run, sign,
submit, and the branches of every answer of the node; the invalidations are
carried out one by one as the code does (`todo`). Boxes are a role and a
number. `TxInputs` builds the input list the way the three `try_run` functions
do, and `Invalidations` does the index arithmetic of `generate_invalidations`.
`Others` is every other client of the backlog. `ImplementsBacklog` is the
refinement: the same variables, so the mapping is the identity, and the
detailed steps must be steps of `Backlog` or leave its variables alone.

### EntityTracker

One entity. States form a forest (`Parent`), because the box a transaction
creates is determined by the one it spends. The ledger moves along the forest
in both directions; the handler sends updates into `queue`; `Track` applies
them; the executor resolves in two critical sections (`ReadStates`, then
`StartWalk`/`WalkStep` holding the lock) and reports with `SubmitOk`,
`SubmitMissing` or `GiveUp`. Restarts lose the channel (`RestartBare`) or
replay the last block (`RestartReplay`).

### ChainSync

A forest of blocks, a node whose best chain changes at any time, also between
the request and the processing of a block (`fetched`). The cache keeps the keys
of the code: `stored` (`:p :h :t`), `bodies` (transactions), `child` (`:c`),
`best`, `oldest`; each `unwrap` that can fail is a `Panic`. `view` is what a
consumer of the stream has applied.

### Scheduler

Keys of pending (`ticks`) and deferred (`deferred`) ticks in the order of the
database, by height and then pool id. The stream peeks, asks for the height,
selects stakers, and defers or drops the tick in separate steps; ledger events
come in between. A deferral is the time left of it. Heights of keys are named
by their epoch, which a positive epoch length makes equivalent; a box of a pool
is represented by the number of completed epochs computed from its budget. The
compound orders themselves go to the backlog and are not repeated here; whether
an epoch has stakers is a free choice.

### LedgerFeed, Funding, Bundles, Orders, Followers

`LedgerFeed` is the ledger as the handlers see it: transactions with the boxes
they spend and create, applied and undone one at a time in the manner of a
stack. A block is no unit here, because `event_source.rs` emits one event per
transaction and nothing downstream knows about blocks. `Funding`, `Bundles` and
`Orders` follow it in the same way, handler, channel, stream, store, and each handler
recognises spent boxes by asking the store that it feeds itself.

* `Funding`: one entry per key (priority, box) and the index from a box to its
  key. `Collect` takes entries in the order of the keys until the target is
  reached and moves all it looked at to the lowest priority, also when it fails.
  `MayExist` is `key_may_exist` of RocksDB, which may err on the side of yes. The
  executor collects, and then submits, gives up, or purges missing boxes one by
  one; updates come in between.
* `Bundles`: repository with its epoch index, handler with the program
  repository (`programKnown`; a bundle indexed before the program is known gets
  `INIT_EPOCH_IX`), stream, resolver in two critical sections, predictions.
* `Orders` extends `Bundles`: `AppliedEvent` and `UnappliedEvent` are one round of
  `process_events`, the order handler before the bundle handler before the program
  handler as `main.rs` lists them. `TrackOrder` needs the bundle of a redeem order,
  which is in a store fed by another channel. Of the backlog only the store is
  kept; `Backlog` has the rest.
* `Followers` composes `Funding` and `Orders` as `main.rs` does: an event is offered to
  all handlers before the next one is read (`AppliedRound`, `UnappliedRound`), streams
  and executor take turns, a restart loses all channels at once. What the executor does
  to funding and what it does to bundles may interleave freely, which allows more than
  the code does. The handlers of pools and schedules get the same events; they share
  no store with these and are in `EntityTracker` and `Scheduler`, each with the
  ledger of one pool.

### LmPool, Vault, Deploy

`LmPool` is a program on the ledger. The pool is its five amounts, a bundle its
virtual liquidity and temporal tokens. `DepositVerdict`, `Deposited`,
`RedeemVerdict`, `Redeemed`, `EpochIx`, `Reward`, `Distributed` are
`apply_deposit`, `apply_redeem` and `distribute_rewards`, with saturating
subtraction where the code saturates; `RunDeposit`, `RunRedeem` and `RunCompound`
are `try_run` of the three orders with what the executor does about the verdict.
`NextEpoch`, `LowerEpochIx` and `Eligible` are the scheduler's view of the same
amounts. The contract of the pool (`POOL_VALIDATOR` in `validators.rs`, present
only as a serialised tree) is marked external: `PrevEpochsCompounded`,
`AcceptsRedeem` and `AcceptsCompound` are its conditions on the amounts, decoded
from that tree; its conditions on scripts and token ids are left out.
`StuckPool` is the exemption of one pool id in `apply_redeem`.

`Vault` is the abstract specification: liquidity held, virtual liquidity issued,
and what each staker may take back. `KeepsCustody` is the refinement
(`INSTANCE Vault WITH held <- pool.lq, issued <- MaxValue - pool.vlq, claims <- ...`).

`Deploy` extends `LmPool` by the tool that creates the pool: validation, six
transactions built on each other's outputs with the library's box selector
(external), and submission until the node refuses one; its last step is `Create`
of `LmPool`. The tool can be run again, on what the failed run left. `outs` lists
the outputs in the order of the code, which `FundsFor` (swap_remove) and
`FindBoxWithToken` rely on; the explorer may list the wallet in any order. The
selector is stated by rank (`Hits`, `Sooner`, `Ahead`): which box comes when is a
matter of how many boxes come before it. A box is `<<attempt, transaction, place>>`,
boxes of the wallet at the start are of attempt 0.

## 3. What is model-checked

Runs that pass:

| Run | Properties | Shows |
|---|---|---|
| `backlog` | LmTypeOK, Accounted, SinglePlace, InvalidatesMissing, NoEarlyResubmit, NotEvictedEarly, Drains, ImplementsBacklog | no order is lost, queued twice, resubmitted or evicted early, and a heavy order that fails for ever does not make the others immortal; every path of the executor keeps the protocol of the backlog, and missing inputs are attributed to the right repository |
| `entity` | TypeOK, NoDangling, ResolvedSafe, ConfirmedTracksLedger, LockReleased | the repository follows the ledger through reorganisations, and resolution is safe and ends |
| `chain` | TypeOK, CanUndo, NoPanic, FollowsChain, CatchesUp | the consumer's view is a walk on the block tree, can be undone, and reaches the tip |
| `scheduler` | TypeOK, ScheduleTracksLedger, OneTick, DeferralKept, KeepsDistributing | schedules follow the ledger; one tick per pool; the stream never idles while a tick is due |
| `feed` | FeedTypeOK, IndexRefers, CollectCovers, FundsKnown, FundsUnspent, StakersKnown, NoGhostStakers, ResolvedFollows, OrdersKnown, OrdersUnspent, DropsOnlyUnknown | funding, stakers and orders in the stores are those of the ledger once the channels are empty, through reorganisations, predictions and restarts, up to the exceptions named |
| `program` | CompoundsAccepted, StuckOnlyByRounding, ChainIsSound, KeepsCustody, SkippedOwedLittle | a program from the operator's wallet to its last epoch: liquidity is kept, the bot pays what the contract accepts, an epoch stays open with nobody left to be paid only because of rounding, and what an epoch leaves unpaid is within the rounding error |

Runs that end in a counterexample, each a statement of the repository that the
code does not keep (details under "findings"):

| Run | Property | What happens |
|---|---|---|
| `executor_limbo` | NoLimbo | a popped order is neither executed nor reported when bundle or funding is missing, signing fails, or the node's error is not understood; it stays in the store and in no queue until a restart |
| `entity_lag` | CaughtUpIsConfirmed | a box created and spent before the first update is applied stays "last confirmed" for ever |
| `entity_stale` | InvalidatesOnlyIts | invalidating an old state moves the last-confirmed index of a newer one |
| `chain_link` | AppendsToBest | the height key of a rolled back block survives, so a block on top of it is taken to link |
| `scheduler_retry` | RetriedAfter | a pool that never completes its epoch is always first among the deferred ticks: due, it is chosen; not due, it ends the loop. The next pool is never tried again |
| `orders_age` | NoOldOrders | the age of an order is a time in seconds minus a timestamp in milliseconds, so the guard against orders older than the lifespan refuses nothing: an order of any age gets into the backlog |

One statement of the repository is wrong without harm. The comment in
`generate_invalidations` (`spectrum-offchain/src/executor.rs:197`) puts the first
bundle of a compound at index `input_funding_box_ids.len()`, which is the last
funding box; the code below it compares with `>` and is right.
`InvalidatesMissing` holds of the code and fails for its mutant
`MissingBundlesFromLen`, which is the comment's version.

Properties that hold "unless" something happened name that exception in a
history variable (`raced`, `dropped`, `missed`, `disturbed`, `taint`; in the
modules of `feed` `doubled`, `lingering`, `unlisted`, `unsure`, `touched`,
`missing`, `unseen`). The exceptions are the behaviours of the second table, the
like of them in the other handlers, and restarts; the passing runs show that
nothing else goes wrong. Such a property does not cover the exception itself:
where a hazard IS the exception (`PROJECT.json`, "hazards"), its note says so.
The lines where this is the case: `backlog.rs:293` (an old queue entry evicts a
newly put order: `known` is the earliest announcement), `ergo-chain-sync/src/lib.rs:98`
(restarts), `scheduler/process.rs:125` (an overtaken deferral, `taint`),
`handlers/order.rs:56` (`unseen`, `missing`), `backlog_stream.rs:37` (a redeem order
is dropped while the update of its bundle is on its way), `scheduler/process.rs:64` (the
stream acts on an index that lags), `bundle/rocksdb.rs:143` (`touched`),
`funding.rs:147` (`doubled`) and `handlers/funding.rs:37` (`lingering`).

What these exceptions say about the code, for a reader who maintains it:

* A wallet box, an order or a bundle that is created and spent before the stream
  has applied the first update stays in the store (`lingering`, `unseen`,
  `unsure`), as the pool does in `entity_lag`.
* When a transaction is undone, the wallet boxes it spent are not restored
  (`unlisted`) and the orders it executed are not announced again (`missing`).
* `put_confirmed` of a bundle deletes the epoch key right before the new one only.
  Predictions, rollbacks, bundles compounded for two epochs at once and bundles
  indexed before the program is known leave keys behind, for which `select` returns
  the bundle again (`touched`).
* A box that the executor predicts and the ledger confirms, before or after, has
  two entries; `collect` may count it twice (`doubled`).
* An epoch counts as completed as soon as the budget is within
  `max_rounding_error` of its multiple, also when a bundle with a small reward has
  not been paid. The scheduler goes on to the next epoch and does not offer this
  bundle again; its temporal tokens stay out, so that its share is reserved in
  every later batch, and if that share exceeds the rounding error the epoch never
  completes: deposits and redeems are then blocked for good. `SkippedOwedLittle`
  bounds what all those passed over at once are owed; that their shares add up
  over epochs, and block a later one, is not excluded. `pool.rs:233` names a pool to
  which something like this happened. No property says that an epoch is completed
  at last: besides rounding it would need that the pool is offered again, and
  `scheduler_retry` shows that it may not be.
* `validate_pool` wants `max_rounding_error > epoch_num`. `StuckOnlyByRounding`
  shows what is enough: the later epochs and the size of a batch together. It is
  proved of the programs that `validate_pool` lets through and whose first bundle
  is delegated to for all epochs but the first at least (`DelegatesAll`, next item,
  which no code checks), except for the one pool that `apply_redeem` exempts
  (`StuckPool`): there a bundle may be redeemed while its epoch is open, and what it
  was owed stays in the budget.
* `num_epochs_to_delegate` is not validated by the tool. `distribute_rewards` takes
  the temporal tokens missing from the pool, less one per staked token for every
  epoch to come, as what the open epoch still has to be shared among. A first bundle
  that was given fewer epochs than all but the first makes that divisor too small,
  down to 0 (then every reward is 0), and the contract refuses batches of other
  bundles too. `CompoundsAccepted` and `SkippedOwedLittle` fail then (an instance with
  `Delegations = {0}` shows it). The run leaves such programs out, and every theorem
  about rewards assumes `DelegatesAll`.
* The tool panics on a change box of no value: when the wallet has exactly the ERG
  it asks for, and when tokens are left over, because the rest of the ERG is set
  aside with them. What a partial deployment leaves in the wallet makes
  `check_utxos` refuse the next run.
* Redeeming the last liquidity panics in `into_candidate` (`panicked`).

### Bounds

* `backlog`: `MCBacklog` chooses the client in the initial state. *any*: the
  protocol of `Backlog` on 2 orders of different weight; two orders are enough for
  one to hide or overtake the other. *executor*: `LmExecutor` on one order of any of
  the three kinds, with 1 or 2 bundles and 2 funding boxes, so that every boundary
  between the groups of inputs lies between two boxes. Lifespan 1, execution time
  0, an event is at most 1 old, `put` only while fewer than 2 queue entries exist:
  an order in work that is put again, or a stale entry next to a live one, is the
  second entry; lifespan > execution time separates all comparisons (an age of 0
  is not yet above the execution time, 1 is above that and not above the
  lifespan). The theorems hold without any of these bounds, and for any number of
  orders with the executor as client.
* `executor_limbo`: `MCLmExecutor`, the executor alone, with two orders.
* `entity`: states s1 -> s2 -> s3 and a fork s1 -> t2, at most 2 updates in the
  channel: a reorganisation with a detour, and one update overtaken by another.
* `chain`: a chain of five blocks, forks at heights 2 to 4 and at the starting
  height, depth 3 (so pruning happens, also after a rollback), 4 moves of the
  node, 1 restart. `CHECK_DEADLOCK FALSE`: after the last move the system is
  idle, and after a panic it is stopped.
* `scheduler`: 2 pools, 2 epochs, with ends that coincide once, 3 boxes per
  pool (start, first and last epoch), height up to 3, a suspension of 1.
  `scheduler_retry` has one box per pool, to show the starvation without any
  movement of the ledger.
* `feed`: three scopes of transactions for `Followers`, chosen in the initial state,
  because funding shares nothing but the ledger with the other stores. *wallet*: a payment that creates two boxes, one that
  spends the first and has a change box, one that spends the rest; a target that
  one box meets and one that takes two. *stakes*: a bundle that is created,
  compounded for one epoch or for two at once, and redeemed. *orders*: a deposit
  order, the deposit, a redeem order of the new bundle, the redeem. At most 2
  updates in each channel: one may overtake a lookup while another waits. No
  block is older than the lifespan; `orders_age` has the same scopes, with the block
  of the deposit order older.
  `MCNext` lists the steps of `FollowersNext` that a scope has: the executor resolves and
  predicts bundles in *stakes* only; elsewhere it would add
  nothing but what *stakes* has. Deadlock is checked.
* `program`: 3 stakers (one of them the deployer), amounts 1 and 2, 2 epochs of 2
  blocks, 15 tokens of budget (7 per epoch, so the program keeps a remainder),
  rounding error 3 (the least that `validate_pool` accepts here), batches of at
  most 2, one order at a time, height up to 7, which is beyond the end of the
  program and its redeem delay. The bundle of the deployer is delegated for 1 or 2
  epochs, so that bundles with different numbers of epochs meet in one batch. Five
  wallets: enough in one box, tokens in two boxes, tokens left over, exactly the
  ERG needed, a foreign token. The tool runs at most twice, and a program that the
  second run deployed is not followed further (it differs in the names of boxes
  only). The limits 100 of `validate_pool` are scaled to 1. `CHECK_DEADLOCK FALSE`:
  height and attempts are bounded, and the bot may have panicked.

Bounds appear only in guards of the environment (`Put`, `NodeMoves`, `AppliedTx`,
`NewBlock`, `AskDeposit`, `AskRedeem`, `StartTool`, the channels, `Restart` of
`ChainSync`).

### Fairness

* Backlog: weak fairness of time and of the return of `try_execute_next` (its
  HTTP calls end); strong fairness of both branches of `try_pop`, because the
  branch is drawn at random at every call with a probability strictly between 0
  and 1 in the configuration shipped.
* EntityTracker: weak fairness of `WalkStep`: the task holding the lock waits
  for nothing but RocksDB.
* ChainSync: weak fairness of the request and of processing its answer; errors
  may happen any number of times, but not for ever at a request that can be
  answered.
* Scheduler: weak fairness of the stream's own steps, of time and of the tip
  signal; strong fairness of `HeightReached`: the node may fail to answer
  `get_height` again and again, but not always. Whether there are stakers is
  never assumed.

No fairness is assumed of the ledger, of users or of a node's verdicts.

## 4. What is proved

All theorems hold for every value of the constants that satisfies the `ASSUME`
of the module (`BacklogAssumption`, `ExecutorAssumption`, `EntityAssumption`,
`ChainAssumption`, `SchedulerAssumption`, `PoolAssumption`, `FeedAssumption`, `FundingAssumption`,
`BundlesAssumption`, `OrdersAssumption`): any set of orders with any weights and
limits, any forest of states, any pools and programs, any stakers and wallets, any
transactions. `FeedAssumption` says of transactions what ids derived from hashes
give: no two create the same box, none spends a box it creates, each has finitely
many inputs and outputs. `ChainAssumption` says that the blocks form a forest whose
roots are at the starting height. `BundlesAssumption` says that there are finitely many
bundle boxes, that a transaction spends and makes one box of a bundle at most, and that
no two transactions mint the same bundle key (a token id is the id of an input box).
`OrdersAssumption` says that boxes of orders are neither in the ledger at the start nor
boxes of bundles, and that a redeem order names a bundle; the clock, the timestamps
and the lifespan are any numbers.

**BacklogProofs**

* `TypeCorrect`, `AccountedInvariant`: `Accounted` is inductive together with
  `TypeOK`; the work is in `TryPopIsPopStep` and `RevivedFacts`, which state what
  a pop removes from and adds to the queues.
* `SinglePlaceInvariant`: needs `SuspendedOnce` in the induction, which says
  where the entry of a suspended order can still be.
* `NoEarlyResubmitHolds`: from `SinglePlace`: an order handed out was popped
  from a queue, so a remaining entry in the revisit queue would be a second one;
  an entry released in the same step was older than the execution time.
* `NotEvictedEarlyHolds`: from `AgeBound` (every entry, stored or queued, is at
  most as old as the first announcement of its order), because the entry that
  decides about eviction need not be the stored one.
* `ExecutorImplementsBacklog`: `LmSpec => Spec` of Backlog. The invariant
  `Protocol` relates the step of the executor to `hand` and `told`; its essential
  part is that in the remaining invalidations `remove` comes last
  (`RemoveComesLast`), so that no order is suspended after its removal.
* `ExecutorAccounted`: hence `Accounted` holds of the real executor too.
* `ExecutorTypeCorrect` and `InvalidatesMissingHolds` from `ExecInv`: what the executor
  has dropped and what its remaining invalidations will drop are together what the node
  reported (`DroppedBy`). That `generate_invalidations` computes such invalidations is
  index arithmetic about the input lists of the three kinds of orders (`IsCompound`,
  `CountFunding`), for any number of bundles and funding boxes.

**EntityTrackerProofs**

* `TypeCorrect`; `NoDanglingInvariant` and `ResolvedSafeInvariant` from
  `SafeInv`: links lead to the parent, indices and links point to stored states,
  the head of the walk is the predicted state or an ancestor of it
  (`WalkDescends`), whatever changed between the two critical sections.
* `ConfirmedTracksLedgerInvariant` from `Tracked`: the last update in the channel,
  or the index when it is empty, is the ledger's state, and nothing that the
  executor did in between matters unless `disturbed`.

**ChainSyncProofs**

* `TypeCorrect`, `NeverPanics`, `UndoIsPossible` and `StreamFollowsChain` from
  `SyncInv`. `PathInv` says that the consumer's view is a path in the forest from the
  starting height to the best block; it holds until a restart or a return to a fork
  that was left. `CacheInv` says for some `k` (`KeepsFrom`) that the cache holds the
  blocks of the view from the `k`-th on, their child keys, and nothing else, and that
  these are no more than the rollback depth. A block that links is a child of the
  consumer's last block because heights separate the blocks of a path (`LinksToLast`);
  that the best chain of the node has a block at a height is by a well-founded minimum,
  since the chain of parents is a recursive function.

**SchedulerProofs**

* `TypeCorrect`, `ScheduleTracksLedgerInvariant`, `OneTickInvariant`,
  `DeferralKeptHolds`, all from `IInv`. `update_schedule` deletes the keys one
  epoch before and one after the new one and no others; that this is enough rests
  on `Steady` (consecutive boxes of a pool differ by at most one epoch, so an
  event moves the schedule by at most one) and on `OneTick` itself
  (`UpdateKeeps`). `StreamBusy` says that a pool whose tick the stream works on
  has not lost its tick, so that a deferral cannot bring a dropped one back.

**SumProofs**

* Amounts are summed with the folds of the community modules, which are recursive
  functions on sets. `SumsExist` and `SumsAgree` prove that such a function exists and
  is unique on the subsets of a finite set; from these `SumAdd`, `SumRemove` and the
  lemmas on bounds (`SumBound`, `SumGap`), on linear combinations (`SumLinear`) and on
  changes (`SumWith`, `SumWithout`, `SumLess`). The induction theorems of the library
  take an operator as a parameter, which no prover here instantiates. `Induction` and
  `SetInduction` say the same about a set instead of an operator, and follow from the
  well-foundedness of `<` by a minimal counterexample.

**ProgramProofs**

* `PoolKeepsCustody`: `LmPoolSpec` implies `Vault!Spec` under the mapping. The
  inductive invariant `CustodyInv` says that the liquidity of the pool is all the
  virtual liquidity outside of it, that a deposit order has no bundle yet and the
  bundle of a redeem order is still there (`OrdersMatch`), and that there are no
  orders before there is liquidity. It says nothing about budget and temporal
  tokens: no property of the rewards is needed for custody, which is the point.
* `ProgramKeepsCustody`: the same of `ProgramSpec`, because every step of the
  deployment tool leaves the pool alone or is `Create`.
* `EpochsAgree`: the ceiling of `epochs_left_to_process` and the floor with its case
  distinction in `distribute_rewards` name the same epoch, for every budget and every
  rounding error below the allocation of an epoch; by uniqueness of quotient and
  remainder (`Quotient`).

* `PoolCompoundsAccepted`, `ProgramCompoundsAccepted`: `CompoundsAccepted` from
  `CustodyInv` and `RewardInv`. Its core `StakeInv` relates budget, temporal tokens and
  bundles: each bundle has tokens for all the epochs that the pool has still to pay for,
  at least, and the tokens outside the pool are those of the bundles. So the sum of what
  bundles can be charged is what code and contract compute from the pool alone
  (`ActualFacts`), and rewards rounded down stay within the share of the batch, of any
  size (`BatchFacts`). That a new bundle has enough tokens is where `apply_deposit` and
  the contract must work together (`DepositRemain`): the one wants the present epoch
  completed, the other all past epochs paid. `Validated` is what `validate_pool` checks
  of budget, epochs and rounding error; the theorem on `ProgramSpec` does not assume it,
  since a program that is not validated never gets a pool (`ToolInv`). `DelegatesAll`
  (see above) remains an assumption of both: the tool does not check it.
* `ToolChainIsSound`: `ChainIsSound` from `ChainInv`, for every set of wallets that
  satisfies `DeployAssumption` (finitely many boxes with amounts in `Nat`) and all fees,
  margins and limits. `ChainInv` says of each transaction that is built that it gives
  back what it takes (`Balanced`), what its outputs look like (`Shaped`) and which boxes
  of the transactions before it its inputs can be (`Sourced`); an input that is spent
  twice would then have been made in two places (`Spot`, `SpotsDiffer`). The amounts
  rest on the target balances: each transaction leaves the next one exactly what that
  one asks for (`Targets`). Tokens are where it could go wrong, since a minting
  transaction returns none of the tokens it takes: its selection must find the value in
  the last and the second box before it comes to a box with tokens (`MintSelects`, by
  way of `LastFirst`: nothing is wanted, so the boxes come in reverse). When tokens were
  left over in TX 0 their box is set aside by its amounts; then nothing but the second
  box is selected, the change of TX 1 has no value, and the tool panics before anything
  is submitted (`SetAside`).
* `PoolStuckOnlyByRounding`, `ProgramStuckOnlyByRounding`: from `StuckInv` in addition.
  A bundle has equally many temporal tokens for each virtual one (`WholeEpochs`), so
  that each reward loses less than one token (`RoundingFacts`), and a batch after which
  nobody is left to be paid leaves less than one token for each of its bundles
  (`LastBatch`). No deposit and no redeem changes that while the epoch is open, unless
  the pool is the exempted one: both theorems assume `~StuckPool`, and
  `DelegatesAll` as those above, because `RewardInv` needs it.
* `PoolSkipsLittle`, `ProgramSkipsLittle`: when `NextEpoch` moves, it was a compound that
  moved it (`SameEpoch`, `OrderBudget`), and the rewards of those it did not pay are
  part of what was left of the epoch's share, because the eligible bundles' claims sum up
  to at most the divisor (`CompoundSkips`); the epoch counts as completed only when
  that is within the rounding error. `DelegatesAll` is assumed here too.

**FundingProofs**

* The first part is about `LedgerFeed`. `AppliedFacts` and `UnappliedFacts`: what an
  event does to the set of unspent boxes, from `ChainInv` (a transaction is on the
  stack once, above those whose boxes it spends). `WillHave`: whether a box will be in
  the store when the channel has run empty, that is by its last update in the channel
  or, without one, by the store; `MoreUpdates` and `NextUpdate` say what a handler and
  a step of the stream make of it.
* `IndexIsSound`, `FundsAreKnown`, `FundsAreUnspent` from `FundInv`. The properties
  speak of an empty channel and are not inductive; `WillBeKnown` and `WillBeUnspent`
  say the same of every state, with `WillHave` for membership. That `remove` empties
  the repository of a box needs that the box has one entry, the one of the index
  (`RepoInv`), and for that a box that was not doubled must be announced once, before
  anything else about it (`Announced`).
* `CollectIsCovered` from `CoverInv`: the entries that `collect` takes are a finite set
  worth the target; when each box has one entry (`OneEach`), moving them to the lowest
  priority keeps their sum (a bijection). `FundingTypeCorrect`.

**OrdersProofs**

* `OrdersAreKnown`, `OrdersAreUnspent` from `OrdersInv`, by the same argument with
  `WillBeListed` and `WillBeLive`; no one-entry argument is needed because the store of
  the backlog is keyed by the order. `OrdersAreKnown` is about orders not older than
  the lifespan: their blocks pass the guard of the handler (`OrdersFacts`), whose
  mixed units err to the side of accepting.
* `BundlesTypeCorrect`, `StakersAreKnown` from `StakesInv`. `StakesChain`: a bundle has
  one unspent box at most, and the boxes of a bundle form a line, because a key is
  minted once. `WillKnow`: the last update in the channel about a bundle, or the
  repository when there is none, names its state on the ledger. One event may send
  several updates in any order, about different bundles (`Batch`), so the argument is
  about the updates of one bundle among those of others (`About`, `FirstAbout`,
  `LastAbout`).
* `NoGhosts` from `GhostInv`: a bundle that was not touched is `Tidy`. It has one key,
  that of its last confirmed state; updates in the channel put states that are new and
  one epoch later at most, which is why deleting the key before the new one is enough;
  an elimination is the only update of its bundle and comes last.
* `ResolutionFollows` from `FollowInv`: a link leads to the state that was spent; the
  walk along the links (a recursive function) is a chain of such steps (`Iterates`).
* `OrdersImplementBundles`: every step of the composition is a step of `Bundles` or
  leaves its variables alone, so that the theorems on `BundlesSpec` hold of
  `OrdersSpec`. From it `OrdersTypeCorrect` and `DropsAreJustified`: when the stream
  refuses a redeem order and no update of the bundle is in the channel, `WillKnow` says
  that the repository knows the bundle if the ledger has it.
* `FollowersImplementBoth`: every step of `Followers` is a step of `Funding` or leaves
  its variables alone, and likewise of `Orders` (`StepsFunding`, `StepsOrders`): only an
  event moves the ledger, and it moves it in the same way for both. So the theorems
  above hold of the composition; `FollowersTypeCorrect` and `FollowersFollowLedger` say so
  of the types and of what the stores know of the ledger.

**Only model-checked**: liveness (`Drains`, `LockReleased`, `CatchesUp`,
`KeepsDistributing`), which is outside of what the proof system
does.

## 5. What is not modelled, and why

* HTTP, JSON, RocksDB encodings, key prefixes, box parsing: their effect is in
  the models (order of keys, failures as choices), their bytes are not.
* Signing, wallet, BIP-39, validators: cryptography without protocol state.
* The `Tracing` wrappers, which only log.
* `put_unconfirmed` and `UnconfirmedUpgradeHandler`: no binary uses them.
* The in-memory repositories and cache: used by tests only.
* The mempool synchroniser and every handler of mempool events: no binary of the
  repository installs them.
* The widths of integers in the pool arithmetic: the code computes rewards in
  `u128` and amounts in `u64`, far above what a program holds; the `f64` quotient and
  remainder of `epochs_left_to_process` and `epoch_completed` are exact below 2^53
  and treated as exact.
* The gate of `executor_stream` and `distribution_stream` on the tip signal, which
  any failed request of the synchroniser opens: it would need a composition of all
  streams. Nothing that is checked here assumes that the gate is closed.
* The awaits inside a handler's round over one event: the round is one step, and what
  streams do at its lookups and sends is taken to come before it or after it.
* Reading the configuration of the bot and of the tool.

## 6. Plan

Done, in this order: `Backlog`, `LmExecutor` (composition with and refinement of
`Backlog`), `EntityTracker`, `ChainSync`, `Scheduler`; `LedgerFeed` with `Funding`,
`Bundles`, `Orders` (composition of two handlers and their streams) and `Followers`
(composition of all three with the executor); `LmPool`
with its abstract specification `Vault`; `Deploy` (composition with `LmPool`); proofs
of every safety property that the passing runs check. Next:

1. A composition of `Scheduler` with `Bundles` and `LmPool`: whether an epoch is
   completed at last depends on the selection of stakers (which lags), the order of
   retries (`scheduler_retry`) and rounding together, and no property says so now.
2. The gate on the tip signal, with all streams behind it.
