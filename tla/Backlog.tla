------------------------------- MODULE Backlog -------------------------------
(***************************************************************************)
(* The order backlog of spectrum-offchain/src/backlog.rs together with the *)
(* part of its clients' behaviour that decides which calls it can receive. *)
(*                                                                         *)
(* The backlog is a persistent store (RocksDB: order id -> order and       *)
(* timestamp) and three in-memory queues.  Every method runs under the     *)
(* tokio Mutex that guards the backlog, so one method call is one action.  *)
(* Its clients are the stream of order events (put, remove) and the one    *)
(* executor task (try_pop, then suspend, check_later, recharge or remove   *)
(* on the order it got); they interleave freely between the calls.         *)
(*                                                                         *)
(* The code stores a timestamp and only ever uses its distance from the    *)
(* current time.  The model stores that distance, the AGE, and Tick makes  *)
(* everything older; ages stop at OldAge, where no comparison of the code  *)
(* tells them apart any more.  Time is therefore unbounded in the model.   *)
(***************************************************************************)
EXTENDS Naturals, Sequences, FiniteSets, SequencesExt

CONSTANTS
    Orders,      \* order ids
    Weight,      \* Weight[o]: OrderWeight of the order with id o
    Lifespan,    \* BacklogConfig.order_lifespan
    ExecTime,    \* BacklogConfig.order_exec_time
    RetryProb,   \* BacklogConfig.retry_suspended_prob, in percent
    MaxLag,      \* bound: age of an order event when put handles it
    MaxEntries,  \* bound: entries in the queues for put to be called
    NoOrder      \* "no order": try_pop returned None

ASSUME BacklogAssumption ==
    /\ Weight \in [Orders -> Nat]
    /\ Lifespan \in Nat
    /\ ExecTime \in Nat
    /\ RetryProb \in 0..100
    /\ MaxLag \in 0..Lifespan
    /\ MaxEntries \in Nat
    /\ NoOrder \notin Orders

VARIABLES
    store,      \* BacklogStore: stored order id -> age of its timestamp
    pending,    \* pending_pq: the WeightedOrders in it (keyed by id and time)
    suspended,  \* suspended_pq: likewise
    revisit,    \* revisit_queue: VecDeque of WeightedOrders, front first
    hand,       \* the order try_execute_next is working on
    told,       \* what the executor has reported to the backlog about that order
    dropped,    \* history: orders the executor let go of without a report
    raced,      \* history: orders put while the executor was working on them
    known       \* history: announced order id -> age of its earliest timestamp

queues == <<pending, suspended, revisit>>
history == <<dropped, raced, known>>
vars == <<store, pending, suspended, revisit, hand, told, dropped, raced, known>>

OldAge == IF Lifespan < ExecTime THEN ExecTime + 1 ELSE Lifespan + 1
Ages == 0..OldAge
Older(a) == IF a < OldAge THEN a + 1 ELSE OldAge
Entry == [id : Orders, age : Ages]

Ids(es) == {e.id : e \in es}
RevisitIds == {revisit[i].id : i \in DOMAIN revisit}
Queued(o) == o \in Ids(pending) \/ o \in Ids(suspended) \/ o \in RevisitIds

\* BacklogStore::put on a key that is not there, and ::remove of some keys.
StoreWith(st, o, a) == [x \in DOMAIN st \cup {o} |-> IF x = o THEN a ELSE st[x]]
StoreWithout(st, os) == [x \in DOMAIN st \ os |-> st[x]]

\* MUTANT of Expired: the comparison is not strict.
ExpiredOnTheDot(e) == e.age >= Lifespan

Expired(e) == e.age > Lifespan

\* The queue entry of an order, WeightedOrder::from.
WeightedOrder(o, a) == [id |-> o, age |-> a]

\* MUTANT of StoredEntry: the entry gets the current time.
StoredEntryWithNow(o) == WeightedOrder(o, 0)

\* The queue entry of a stored order, with the timestamp of the store.
StoredEntry(o) == WeightedOrder(o, store[o])

Reports == {"nothing", "suspended", "settled"}

TypeOK ==
    /\ DOMAIN store \subseteq Orders
    /\ store \in [DOMAIN store -> Ages]
    /\ pending \subseteq Entry
    /\ suspended \subseteq Entry
    /\ revisit \in Seq(Entry)
    /\ hand \in Orders \cup {NoOrder}
    /\ told \in Reports
    /\ dropped \subseteq Orders
    /\ raced \subseteq Orders
    /\ DOMAIN known \subseteq Orders
    /\ known \in [DOMAIN known -> Ages]

Init ==
    /\ store = [o \in {} |-> 0]
    /\ pending = {}
    /\ suspended = {}
    /\ revisit = <<>>
    /\ hand = NoOrder
    /\ told = "nothing"
    /\ dropped = {}
    /\ raced = {}
    /\ known = [o \in {} |-> 0]
-----------------------------------------------------------------------------
(***************************************************************************)
(* put: an OrderUpdate::NewOrder, or a compound order of the scheduler.    *)
(* lag is the age of the order's timestamp by the time put handles it.     *)
(***************************************************************************)
\* MUTANT of ForgetRevisit: put leaves the revisit queue alone.
KeepRevisit(o) == UNCHANGED revisit

\* VecDeque::remove of the first revisit entry of o, if there is one.
ForgetRevisit(o) ==
    \/ o \notin RevisitIds /\ UNCHANGED revisit
    \/ \E k \in DOMAIN revisit :
          /\ revisit[k].id = o
          /\ \A i \in 1..(k - 1) : revisit[i].id # o
          /\ revisit' = RemoveAt(revisit, k)

\* MUTANT of ForgetSuspended: put leaves the suspended queue alone.
KeepSuspended(o) == UNCHANGED suspended

\* One suspended entry of o is looked up and removed, if there is one.
ForgetSuspended(o) ==
    \/ o \notin Ids(suspended) /\ UNCHANGED suspended
    \/ \E e \in suspended : e.id = o /\ suspended' = suspended \ {e}

Put(o, lag) ==
    /\ Cardinality(pending) + Cardinality(suspended) + Len(revisit) < MaxEntries
    /\ store' = IF o \in DOMAIN store THEN store ELSE StoreWith(store, o, lag)
    /\ ForgetRevisit(o)
    /\ ForgetSuspended(o)
    /\ pending' = IF o \in Ids(pending) THEN pending
                  ELSE pending \cup {WeightedOrder(o, lag)}
    /\ UNCHANGED <<hand, told>>
    /\ dropped' = dropped \ {o}
    /\ raced' = IF hand = o THEN raced \cup {o} ELSE raced
    /\ known' = IF o \in DOMAIN known /\ known[o] >= lag THEN known
                ELSE StoreWith(known, o, lag)

\* remove: an OrderUpdate::OrderEliminated, or a compound order of the scheduler
\* that lost its stakers.  The queues keep their entries of the order, and the
\* executor, if it is working on the order, does not notice.
RemoveOrder(o) ==
    /\ o \in DOMAIN store
    /\ store' = StoreWithout(store, {o})
    /\ dropped' = dropped \ {o}
    /\ UNCHANGED <<queues, hand, told, raced, known>>
-----------------------------------------------------------------------------
(***************************************************************************)
(* try_pop: first revisit_progressing_orders, then try_pop_max_order on    *)
(* the pending or, with probability RetryProb, on the suspended queue.     *)
(***************************************************************************)
\* The loop of revisit_progressing_orders stops after the first n entries.
IsDuePrefix(n) ==
    /\ \A i \in 1..n : revisit[i].age > ExecTime
    /\ n < Len(revisit) => revisit[n + 1].age <= ExecTime

\* Of those, the ones past their lifespan leave the store ...
Outlived(n) == {revisit[i].id : i \in {j \in 1..n : Expired(revisit[j])}}

\* MUTANT of Revived: the loop drops the last entry it looked at.
RevivedButLast(n) ==
    {StoredEntry(revisit[i].id) :
        i \in {j \in 1..(n - 1) : revisit[j].id \in DOMAIN store}}

\* ... and the others are pending again, with the timestamp of the store,
\* if the store still has the order when the loop gets to them.
Revived(n) ==
    {StoredEntry(revisit[i].id) :
        i \in {j \in 1..n :
                 /\ ~Expired(revisit[j])
                 /\ revisit[j].id \in DOMAIN store
                 /\ \A k \in 1..(j - 1) :
                       revisit[k].id = revisit[j].id => ~Expired(revisit[k])}}

\* try_pop_max_order on queue pq and store st.  The loop pops by weight, entries
\* of equal weight in any order, and skips an entry that has expired, whose
\* order it removes from the store, or whose order the store does not have.
TryPopMaxOrder(st, pq, rest) ==
    \E skipped \in SUBSET pq :
       LET left == StoreWithout(st, Ids({e \in skipped : Expired(e)}))
       IN  /\ \A e \in skipped : Expired(e) \/ e.id \notin DOMAIN left
           /\ store' = left
           /\ \/ /\ skipped = pq
                 /\ rest = {}
                 /\ hand' = NoOrder
              \/ \E e \in pq \ skipped :
                    /\ ~Expired(e)
                    /\ e.id \in DOMAIN left
                    /\ \A s \in skipped : Weight[s.id] >= Weight[e.id]
                    /\ \A s \in pq \ skipped : Weight[s.id] <= Weight[e.id]
                    /\ rest = pq \ (skipped \cup {e})
                    /\ hand' = e.id

TryPopPending ==
    /\ hand = NoOrder
    /\ RetryProb < 100
    /\ \E n \in 0..Len(revisit) :
          /\ IsDuePrefix(n)
          /\ TryPopMaxOrder(StoreWithout(store, Outlived(n)), pending \cup Revived(n), pending')
          /\ revisit' = SubSeq(revisit, n + 1, Len(revisit))
    /\ told' = "nothing"
    /\ UNCHANGED <<suspended, history>>

TryPopSuspended ==
    /\ hand = NoOrder
    /\ RetryProb > 0
    /\ \E n \in 0..Len(revisit) :
          /\ IsDuePrefix(n)
          /\ pending' = pending \cup Revived(n)
          /\ TryPopMaxOrder(StoreWithout(store, Outlived(n)), suspended, suspended')
          /\ revisit' = SubSeq(revisit, n + 1, Len(revisit))
    /\ told' = "nothing"
    /\ UNCHANGED history
-----------------------------------------------------------------------------
(***************************************************************************)
(* The methods of the backlog that the executor calls on the order it      *)
(* holds.                                                                  *)
(***************************************************************************)
SuspendHeld ==
    /\ suspended' = IF hand \in DOMAIN store
                    THEN suspended \cup {StoredEntry(hand)}
                    ELSE suspended
    /\ told' = "suspended"
    /\ UNCHANGED <<store, pending, revisit, hand, history>>

CheckLaterHeld ==
    /\ revisit' = IF hand \in DOMAIN store
                  THEN Append(revisit, WeightedOrder(hand, 0))
                  ELSE revisit
    /\ told' = "settled"
    /\ UNCHANGED <<store, pending, suspended, hand, history>>

RechargeHeld ==
    /\ pending' = IF hand \in DOMAIN store
                  THEN pending \cup {StoredEntry(hand)}
                  ELSE pending
    /\ told' = "settled"
    /\ UNCHANGED <<store, suspended, revisit, hand, history>>

\* remove, called by the executor: a fatal error, or the order's box is spent.
RemoveHeld ==
    /\ store' = StoreWithout(store, {hand})
    /\ told' = "settled"
    /\ dropped' = dropped \ {hand}
    /\ UNCHANGED <<queues, hand, raced, known>>

(***************************************************************************)
(* The protocol of the executor: it calls them only while it holds an      *)
(* order.  One execution may suspend twice, and may suspend and then       *)
(* remove (generate_invalidations yields a list); check_later or recharge  *)
(* is the only call.  LmExecutor shows that the executor keeps to this.    *)
(***************************************************************************)
Suspend == hand # NoOrder /\ told # "settled" /\ SuspendHeld

CheckLater == hand # NoOrder /\ told = "nothing" /\ CheckLaterHeld

Recharge == hand # NoOrder /\ told = "nothing" /\ RechargeHeld

Discard == hand # NoOrder /\ told # "settled" /\ RemoveHeld

\* try_execute_next returns.  Its error paths that report nothing (no funding,
\* no bundle, signing failure, unhandled node error) drop the order.
Return ==
    /\ hand # NoOrder
    /\ hand' = NoOrder
    /\ dropped' = IF told = "nothing" THEN dropped \cup {hand} ELSE dropped
    /\ told' = "nothing"
    /\ UNCHANGED <<store, queues, raced, known>>
-----------------------------------------------------------------------------
\* The process stops and starts: BacklogService::new makes every stored order
\* pending; the in-memory queues and the executor's order are gone.
Restart ==
    /\ pending' = {StoredEntry(o) : o \in DOMAIN store}
    /\ suspended' = {}
    /\ revisit' = <<>>
    /\ hand' = NoOrder
    /\ told' = "nothing"
    /\ dropped' = {}
    /\ raced' = {}
    /\ UNCHANGED <<store, known>>

\* The clock advances: everything with a timestamp is one unit older.
Aged(es) == {[id |-> e.id, age |-> Older(e.age)] : e \in es}

Tick ==
    /\ store' = [o \in DOMAIN store |-> Older(store[o])]
    /\ pending' = Aged(pending)
    /\ suspended' = Aged(suspended)
    /\ revisit' = [i \in DOMAIN revisit |->
                      [id |-> revisit[i].id, age |-> Older(revisit[i].age)]]
    /\ known' = [o \in DOMAIN known |-> Older(known[o])]
    /\ UNCHANGED <<hand, told, dropped, raced>>

Next ==
    \/ \E o \in Orders, lag \in 0..MaxLag : Put(o, lag)
    \/ \E o \in Orders : RemoveOrder(o)
    \/ TryPopPending
    \/ TryPopSuspended
    \/ Suspend
    \/ CheckLater
    \/ Recharge
    \/ Discard
    \/ Return
    \/ Restart
    \/ Tick

Spec == Init /\ [][Next]_vars

\* Time passes, try_execute_next returns, and the random draw of try_pop selects
\* either queue again and again (see README on fairness).
FairSpec ==
    /\ Spec
    /\ WF_vars(Tick)
    /\ WF_vars(Return)
    /\ SF_vars(TryPopPending)
    /\ SF_vars(TryPopSuspended)
-----------------------------------------------------------------------------
(***************************************************************************)
(* No stored order is forgotten by the backlog itself: as long as the      *)
(* store has an order, it is in a queue, or the executor still owes a      *)
(* report on it, or the executor dropped it without a report.  (put must   *)
(* re-queue, lazily deleted entries must not hide a live order, restart    *)
(* must requeue everything.)                                               *)
(***************************************************************************)
Accounted ==
    \A o \in DOMAIN store : Queued(o) \/ (hand = o /\ told = "nothing") \/ o \in dropped

(***************************************************************************)
(* An order has at most one entry in the three queues together, and none   *)
(* while the executor has it and has not reported, except when put arrived *)
(* while the executor was working on the order.  This is what the removals *)
(* in put are for.                                                         *)
(***************************************************************************)
SinglePlace ==
    /\ \A e, f \in pending : e.id = f.id => e = f \/ e.id \in raced
    /\ \A e, f \in suspended : e.id = f.id => e = f \/ e.id \in raced
    /\ \A i, j \in DOMAIN revisit :
          revisit[i].id = revisit[j].id => i = j \/ revisit[i].id \in raced
    /\ Ids(pending) \cap Ids(suspended) \subseteq raced
    /\ Ids(pending) \cap RevisitIds \subseteq raced
    /\ Ids(suspended) \cap RevisitIds \subseteq raced
    /\ hand # NoOrder /\ told = "nothing" /\ Queued(hand) => hand \in raced

(***************************************************************************)
(* An order that was submitted and waits in the revisit queue is not       *)
(* handed to the executor again before its execution time has passed       *)
(* (order_exec_time), again unless put raced with the execution.           *)
(***************************************************************************)
NoEarlyResubmit ==
    [][hand = NoOrder /\ hand' # NoOrder /\ hand' \notin raced =>
          \A i \in DOMAIN revisit :
             revisit[i].id = hand' => revisit[i].age > ExecTime]_vars

(***************************************************************************)
(* Expiry is never early: an order that leaves the store other than by     *)
(* remove has been known for longer than its lifespan.  Queue entries      *)
(* survive remove and a later put of the same order, so the age that       *)
(* decides need not be the age in the store.                               *)
(***************************************************************************)
NotEvictedEarly ==
    [][\A o \in DOMAIN store :
          \/ o \in DOMAIN store'
          \/ RemoveOrder(o)
          \/ hand = o /\ Discard
          \/ known[o] > Lifespan]_vars

(***************************************************************************)
(* No order is immortal: once no more orders are put, every stored order   *)
(* is eventually removed or evicted, unless the executor dropped it.  A    *)
(* heavy order that fails for ever and is suspended again and again must   *)
(* not starve the others beyond its lifespan.                              *)
(***************************************************************************)
Drains ==
    <>[][\A o \in Orders, lag \in 0..MaxLag : ~Put(o, lag)]_vars
       => \A o \in Orders : [](o \in DOMAIN store =>
                                  <>(o \notin DOMAIN store \/ o \in dropped))
=============================================================================
