------------------------------ MODULE Scheduler ------------------------------
(***************************************************************************)
(* When a pool distributes its rewards: the schedule repository of         *)
(* spectrum-offchain-lm/src/scheduler.rs, the handler that keeps it up to  *)
(* date with the ledger (event_sink/handlers/schedule.rs) and the stream   *)
(* that turns due ticks into compound orders (scheduler/process.rs).       *)
(*                                                                         *)
(* Each operation of the repository runs under its lock; the stream peeks, *)
(* asks the node for the height, selects the stakers and defers the tick   *)
(* in separate critical sections, and ledger events arrive in between.     *)
(* The compound orders go to the backlog (Put and RemoveOrder of Backlog)  *)
(* and are not kept here; whether an epoch has stakers is up to the bundle *)
(* repository, hence a free choice.                                        *)
(*                                                                         *)
(* A tick key holds the height of an epoch's end; with a positive epoch    *)
(* length the model names it by the epoch, and orders keys by the height.  *)
(* A deferral is modelled by the time that is left of it.                  *)
(***************************************************************************)
EXTENDS Naturals, Sequences, SequencesExt

CONSTANTS
    Pools,       \* pool ids
    Rank,        \* Rank[p]: place of the pool's id in the order of the keys
    EpochNum,    \* ProgramConfig.epoch_num
    Start,       \* Start[p]: ProgramConfig.program_start
    EpochLen,    \* EpochLen[p]: ProgramConfig.epoch_len
    Suspension,  \* TICK_SUSPENSION_DURATION
    MaxTx,       \* bound: boxes of a pool on the ledger
    MaxHeight    \* bound: height of the ledger

ASSUME SchedulerAssumption ==
    /\ Rank \in [Pools -> Nat]
    /\ \A p, q \in Pools : Rank[p] = Rank[q] => p = q
    /\ EpochNum \in Nat \ {0}
    /\ Start \in [Pools -> Nat]
    /\ EpochLen \in [Pools -> Nat \ {0}]
    /\ Suspension \in Nat \ {0}
    /\ MaxTx \in Nat
    /\ MaxHeight \in Nat

VARIABLES
    boxes,      \* ledger: boxes[p], the last completed epochs of the pool's boxes
    height,     \* ledger: height
    tipReached, \* tip_reached
    schedule,   \* repository "sc:": pool -> last_completed_epoch_ix
    ticks,      \* repository "ts:": the pending keys
    deferred,   \* repository "tr:ts:": key -> what is left of the deferral
    pc,         \* stream: where it is
    tick,       \* stream: the tick it peeked
    wait,       \* stream: what is left of the deferral it has computed
    emptied,    \* history: pools whose tick was removed for want of stakers
    taint       \* history: why schedule and ledger may have parted

ledger == <<boxes, height>>
repo == <<schedule, ticks, deferred>>
stream == <<pc, tick, wait>>
vars == <<boxes, height, tipReached, schedule, ticks, deferred, pc, tick, wait,
          emptied, taint>>

Epochs == 1..EpochNum
NoTick == [pool |-> {}, epoch |-> 0]

TypeOK ==
    /\ boxes \in [Pools -> Seq(0..EpochNum)]
    /\ height \in 0..MaxHeight
    /\ tipReached \in BOOLEAN
    /\ DOMAIN schedule \subseteq Pools
    /\ schedule \in [DOMAIN schedule -> 0..(EpochNum - 1)]
    /\ ticks \subseteq [pool : Pools, epoch : Epochs]
    /\ DOMAIN deferred \subseteq [pool : Pools, epoch : Epochs]
    /\ deferred \in [DOMAIN deferred -> 0..Suspension]
    /\ pc \in {"idle", "peeked", "selecting", "putting", "dropping"}
    /\ tick \in [pool : Pools, epoch : Epochs] \cup {NoTick}
    /\ wait \in 0..Suspension
    /\ emptied \subseteq Pools
    /\ taint \subseteq {"missed", "raced"}

Init ==
    /\ boxes = [p \in Pools |-> <<>>]
    /\ height = 0
    /\ tipReached = FALSE
    /\ schedule = [p \in {} |-> 0]
    /\ ticks = {}
    /\ deferred = [k \in {} |-> 0]
    /\ pc = "idle"
    /\ tick = NoTick
    /\ wait = 0
    /\ emptied = {}
    /\ taint = {}
-----------------------------------------------------------------------------
(***************************************************************************)
(* The repository.                                                         *)
(***************************************************************************)
Tick(p, e) == [pool |-> p, epoch |-> e]

\* Height of a tick: next_compounding_at of the schedule before that epoch.
HeightOf(k) == Start[k.pool] + k.epoch * EpochLen[k.pool]

\* MUTANT of Neighbours: the key after the new one is not removed.
NeighboursBefore(p, e) == {Tick(p, e)}

\* The keys before and after the one of the epoch that follows e.
Neighbours(p, e) == {Tick(p, e), Tick(p, e + 2)}

WithoutKeys(ks) == [k \in DOMAIN deferred \ ks |-> deferred[k]]

\* MUTANT of HasNext: the end of the program is not checked.
HasNextUnchecked(e) == e <= EpochNum

\* next_compounding_at: there is an epoch after e.
HasNext(e) == e < EpochNum

\* update_schedule, unless the program is exhausted: nothing is written when the
\* tick is there already, pending or deferred.
UpdateSchedule(p, e) ==
    LET next == Tick(p, e + 1)
        known == next \in ticks \/ next \in DOMAIN deferred
    IN  /\ HasNext(e)
        /\ schedule' = IF known THEN schedule
                       ELSE [q \in DOMAIN schedule \cup {p} |-> IF q = p THEN e ELSE schedule[q]]
        /\ ticks' = IF known THEN ticks ELSE (ticks \cup {next}) \ Neighbours(p, e)
        /\ deferred' = IF known THEN deferred ELSE WithoutKeys(Neighbours(p, e))
        /\ emptied' = IF known THEN emptied ELSE emptied \ {p}

\* MUTANT of Clean: the schedule itself stays.
CleanTicks(p) ==
    /\ UNCHANGED schedule
    /\ ticks' = {k \in ticks : k.pool # p}
    /\ deferred' = WithoutKeys({k \in DOMAIN deferred : k.pool = p})
    /\ emptied' = emptied \ {p}

\* clean: all keys that end in the pool's id.
Clean(p) ==
    /\ schedule' = [q \in DOMAIN schedule \ {p} |-> schedule[q]]
    /\ ticks' = {k \in ticks : k.pool # p}
    /\ deferred' = WithoutKeys({k \in DOMAIN deferred : k.pool = p})
    /\ emptied' = emptied \ {p}

\* The order of the keys in the database.
Before(j, k) ==
    \/ HeightOf(j) < HeightOf(k)
    \/ HeightOf(j) = HeightOf(k) /\ Rank[j.pool] < Rank[k.pool]

\* Tick::try_from the schedule that a key of the pool leads to.
TickOf(p) == Tick(p, schedule[p] + 1)

\* The first pending key whose pool has a schedule.
PendingChoice ==
    {TickOf(k.pool) : k \in {j \in ticks :
        /\ j.pool \in DOMAIN schedule
        /\ \A i \in ticks : Before(i, j) => i.pool \notin DOMAIN schedule}}

\* MUTANT of DeferredChoice: a deferral that is not over does not stop the loop.
DeferredChoiceEager ==
    {TickOf(k.pool) : k \in {j \in DOMAIN deferred :
        /\ j.pool \in DOMAIN schedule
        /\ \A i \in DOMAIN deferred : Before(i, j) => i.pool \notin DOMAIN schedule}}

\* Likewise for the deferred keys; the loop stops at a key that is not due.
DeferredChoice ==
    {TickOf(k.pool) : k \in {j \in DOMAIN deferred :
        /\ j.pool \in DOMAIN schedule
        /\ deferred[j] = 0
        /\ \A i \in DOMAIN deferred :
              Before(i, j) => deferred[i] = 0 /\ i.pool \notin DOMAIN schedule}}

\* MUTANT of PeekChoice: pending ticks come first, whatever their height.
PeekChoicePendingFirst ==
    PendingChoice \cup {d \in DeferredChoice : PendingChoice = {}}

\* What peek returns: the lower one of the two.
PeekChoice ==
    {t \in PendingChoice : \A d \in DeferredChoice : HeightOf(t) < HeightOf(d)}
    \cup {d \in DeferredChoice : \A t \in PendingChoice : HeightOf(t) >= HeightOf(d)}
-----------------------------------------------------------------------------
(***************************************************************************)
(* ConfirmedScheduleUpdateHandler: ledger events about a pool.             *)
(***************************************************************************)
\* The first box of a pool has no completed epoch; a transaction completes at
\* most one more.
NextBox(p) ==
    IF boxes[p] = <<>> THEN {0}
    ELSE {Last(boxes[p]), Last(boxes[p]) + 1} \cap (0..EpochNum)

AppliedTx(p) ==
    /\ Len(boxes[p]) < MaxTx
    /\ \E e \in NextBox(p) :
          /\ boxes' = [boxes EXCEPT ![p] = Append(@, e)]
          /\ UpdateSchedule(p, e) \/ (~HasNext(e) /\ Clean(p))
    /\ UNCHANGED <<height, tipReached, stream, taint>>

\* The last transaction of the pool is unapplied and the box it spent is known.
UnappliedTx(p) ==
    /\ Len(boxes[p]) > 1
    /\ boxes' = [boxes EXCEPT ![p] = Front(@)]
    /\ LET e == Last(boxes'[p])
       IN  UpdateSchedule(p, e) \/ (~HasNext(e) /\ Clean(p))
    /\ UNCHANGED <<height, tipReached, stream, taint>>

\* The same when the pool repository does not know that box, or when there was
\* none: the schedule stays.
UnappliedUnknown(p) ==
    /\ Len(boxes[p]) > 0
    /\ boxes' = [boxes EXCEPT ![p] = Front(@)]
    /\ taint' = taint \cup {"missed"}
    /\ UNCHANGED <<height, tipReached, repo, stream, emptied>>
-----------------------------------------------------------------------------
(***************************************************************************)
(* distribution_stream.                                                    *)
(***************************************************************************)
Peek ==
    /\ pc = "idle" /\ tipReached
    /\ \E t \in PeekChoice : tick' = t
    /\ pc' = "peeked"
    /\ UNCHANGED <<ledger, tipReached, repo, wait, emptied, taint>>

\* The stream waits for its next turn.
Rest == /\ pc' = "idle" /\ tick' = NoTick /\ wait' = 0

\* get_height, which returns 0 when the node cannot be asked.
HeightReached ==
    /\ pc = "peeked"
    /\ HeightOf(tick) <= height
    /\ pc' = "selecting"
    /\ UNCHANGED <<ledger, tipReached, repo, tick, wait, emptied, taint>>

TooEarly ==
    /\ pc = "peeked"
    /\ HeightOf(tick) > height
    /\ Rest
    /\ UNCHANGED <<ledger, tipReached, repo, emptied, taint>>

HeightUnknown ==
    /\ pc = "peeked"
    /\ HeightOf(tick) > 0
    /\ Rest
    /\ UNCHANGED <<ledger, tipReached, repo, emptied, taint>>

\* BundleRepo::select found stakers: a compound order per batch is put.
StakersLeft ==
    /\ pc = "selecting"
    /\ pc' = "putting"
    /\ wait' = Suspension
    /\ UNCHANGED <<ledger, tipReached, repo, tick, emptied, taint>>

\* There are none: the compound orders of the epoch are removed.
NoStakers ==
    /\ pc = "selecting"
    /\ pc' = "dropping"
    /\ UNCHANGED <<ledger, tipReached, repo, tick, wait, emptied, taint>>

\* The schedule has changed since peek.
Outdated == tick.pool \notin DOMAIN schedule \/ TickOf(tick.pool) # tick

\* MUTANT of Defer: the pending key stays.
DeferKeepsTick ==
    /\ pc = "putting"
    /\ UNCHANGED <<ticks, schedule>>
    /\ deferred' = [k \in DOMAIN deferred \cup {tick} |-> IF k = tick THEN wait ELSE deferred[k]]
    /\ taint' = IF Outdated THEN taint \cup {"raced"} ELSE taint
    /\ Rest
    /\ UNCHANGED <<ledger, tipReached, emptied>>

\* defer, after the orders have been put.
Defer ==
    /\ pc = "putting"
    /\ ticks' = ticks \ {tick}
    /\ deferred' = [k \in DOMAIN deferred \cup {tick} |-> IF k = tick THEN wait ELSE deferred[k]]
    /\ taint' = IF Outdated THEN taint \cup {"raced"} ELSE taint
    /\ Rest
    /\ UNCHANGED <<ledger, tipReached, schedule, emptied>>

\* defer and remove, after the orders have been removed.
DropTick ==
    /\ pc = "dropping"
    /\ ticks' = ticks \ {tick}
    /\ deferred' = WithoutKeys({tick})
    /\ emptied' = IF Outdated THEN emptied ELSE emptied \cup {tick.pool}
    /\ Rest
    /\ UNCHANGED <<ledger, tipReached, schedule, taint>>
-----------------------------------------------------------------------------
NewBlock ==
    /\ height < MaxHeight
    /\ height' = height + 1
    /\ UNCHANGED <<boxes, tipReached, repo, stream, emptied, taint>>

TipReached ==
    /\ ~tipReached
    /\ tipReached' = TRUE
    /\ UNCHANGED <<ledger, repo, stream, emptied, taint>>

\* A unit of time passes.
Less(n) == IF n = 0 THEN 0 ELSE n - 1

TimePasses ==
    /\ deferred' = [k \in DOMAIN deferred |-> Less(deferred[k])]
    /\ wait' = Less(wait)
    /\ UNCHANGED <<ledger, tipReached, schedule, ticks, pc, tick, emptied, taint>>

\* The process stops and starts; the repository is persistent.
Restart ==
    /\ tipReached' = FALSE
    /\ Rest
    /\ UNCHANGED <<ledger, repo, emptied, taint>>

Next ==
    \/ \E p \in Pools : AppliedTx(p) \/ UnappliedTx(p) \/ UnappliedUnknown(p)
    \/ Peek \/ HeightReached \/ TooEarly \/ HeightUnknown
    \/ StakersLeft \/ NoStakers \/ Defer \/ DropTick
    \/ NewBlock \/ TipReached \/ TimePasses \/ Restart

Spec == Init /\ [][Next]_vars

\* The stream is polled for ever, time passes, and the node answers get_height
\* again and again.
FairSpec ==
    /\ Spec
    /\ WF_vars(Peek)
    /\ SF_vars(HeightReached)
    /\ WF_vars(TooEarly)
    /\ WF_vars(StakersLeft \/ NoStakers)
    /\ WF_vars(Defer)
    /\ WF_vars(DropTick)
    /\ WF_vars(TimePasses)
    /\ WF_vars(TipReached)
-----------------------------------------------------------------------------
InStep == taint = {}
KeysOf(p) == {k \in ticks \cup DOMAIN deferred : k.pool = p}

(***************************************************************************)
(* The schedule of a pool is the one of its last box on the ledger, also   *)
(* through reorganisations and at the end of the program, unless the       *)
(* handler did not know a spent box or the stream deferred a tick that the *)
(* ledger had overtaken.                                                   *)
(***************************************************************************)
ScheduleTracksLedger ==
    InStep => \A p \in Pools :
        IF boxes[p] # <<>> /\ Last(boxes[p]) < EpochNum
        THEN p \in DOMAIN schedule /\ schedule[p] = Last(boxes[p])
        ELSE p \notin DOMAIN schedule

(***************************************************************************)
(* A pool has a key for its next epoch and for no other, pending or        *)
(* deferred but not both; it has none only after its stakers ran out.      *)
(* update_schedule removes the keys before and after for this reason: a    *)
(* leftover key would be peeked for ever.                                  *)
(***************************************************************************)
OneTick ==
    InStep =>
        /\ \A p \in Pools :
              KeysOf(p) = IF p \in DOMAIN schedule \ emptied THEN {TickOf(p)} ELSE {}
        /\ ticks \cap DOMAIN deferred = {}

(***************************************************************************)
(* A tick that is deferred is not handed out before its time.              *)
(***************************************************************************)
DeferralKept ==
    [][InStep /\ pc = "idle" /\ pc' = "peeked" /\ tick' \in DOMAIN deferred
          => deferred[tick'] = 0]_vars

(***************************************************************************)
(* The stream does not run idle: while some pool has a tick whose height   *)
(* has been reached, some tick is processed sooner or later, although the  *)
(* loop over the deferred keys stops at the first one that is not due.     *)
(***************************************************************************)
KeepsDistributing ==
    []<>(pc = "selecting" \/ ~InStep \/ ~tipReached
         \/ \A k \in ticks \cup DOMAIN deferred : HeightOf(k) > height)

\* "Tried ticks (queue): (PREFIX:H:PoolId -> RETRY_AFTER)" (scheduler.rs): a tick
\* that was tried is tried again, or disappears, after that time.
RetriedAfter ==
    \A p \in Pools, e \in Epochs :
        [](Tick(p, e) \in DOMAIN deferred /\ HeightOf(Tick(p, e)) <= height =>
              <>(tick = Tick(p, e) \/ Tick(p, e) \notin DOMAIN deferred
                 \/ ~InStep \/ ~tipReached))
=============================================================================
