------------------------------- MODULE Orders -------------------------------
(***************************************************************************)
(* How orders get from the ledger into the backlog: the handler            *)
(* event_sink/handlers/order.rs, the conversion backlog_stream.rs of the   *)
(* LM bot, which needs the bundle of a redeem order, and the stream of     *)
(* backlog/process.rs.  Composed with the handlers of bundles and programs *)
(* as event_sink.rs does: each event goes to all of them, in that order.   *)
(* The backlog is its store; module Backlog has the rest of it.            *)
(***************************************************************************)
EXTENDS Bundles, Integers

CONSTANTS
    OrderBoxes,     \* boxes that OrderProto::try_from_box recognises
    RedeemOf,       \* redeem order -> bundle whose key it carries
    Now,            \* Utc::now().timestamp(), in seconds
    Stamp,          \* Stamp[t]: timestamp of the block of t, in milliseconds
    OrderLifespan   \* order_lifespan, in milliseconds

ASSUME OrdersAssumption ==
    /\ OrderBoxes \cap (Genesis \cup BundleBoxes) = {}
    /\ RedeemOf \in [DOMAIN RedeemOf -> BundleIds]
    /\ DOMAIN RedeemOf \subseteq OrderBoxes
    /\ Now \in Nat
    /\ Stamp \in [Txs -> Nat]
    /\ OrderLifespan \in Nat

VARIABLES
    backlog,     \* orders in the store of the backlog
    orderQueue,  \* channel of OrderUpdates
    dropped,     \* history: redeem orders whose conversion returned None
    missing,     \* history: orders the backlog lost, or was not told of again
    unseen       \* history: orders spent before the backlog had them

orderVars == <<backlog, orderQueue, dropped, missing, unseen>>

OrdersTypeOK ==
    /\ backlog \subseteq OrderBoxes
    /\ orderQueue \in Seq([op : {"new", "eliminated"}, box : OrderBoxes])
    /\ dropped \cup missing \cup unseen \subseteq OrderBoxes

OrdersInit ==
    /\ backlog = {}
    /\ orderQueue = <<>>
    /\ dropped = {}
    /\ missing = {}
    /\ unseen = {}

\* MUTANT of Recent: the operands are swapped.
RecentSwapped(t) == Stamp[t] - Now <= OrderLifespan

\* The age of the block is the difference of a time in seconds and one in
\* milliseconds.
Recent(t) == Now - Stamp[t] <= OrderLifespan

\* MUTANT of OrderUpdates: an order is not looked for among the inputs.
OrderUpdatesCreated(t) == Events("new", Outputs[t] \cap OrderBoxes)

OrderUpdates(t) ==
    Events("eliminated", Inputs[t] \cap backlog)
      \o Events("new", IF Recent(t) THEN Outputs[t] \cap OrderBoxes ELSE {})

HandleOrdersApplied(t) ==
    /\ Len(orderQueue) + Len(OrderUpdates(t)) <= MaxQueue
    /\ orderQueue' = orderQueue \o OrderUpdates(t)
    /\ unseen' = unseen \cup ((Inputs[t] \cap OrderBoxes) \ backlog)
    /\ UNCHANGED <<backlog, dropped, missing>>

\* The orders an undone transaction executed are not announced again.
HandleOrdersUnapplied(t) ==
    /\ Len(orderQueue) + Cardinality(Outputs[t] \cap OrderBoxes) <= MaxQueue
    /\ orderQueue' = orderQueue \o Events("eliminated", Outputs[t] \cap OrderBoxes)
    /\ missing' = missing \cup (Inputs[t] \cap OrderBoxes)
    /\ UNCHANGED <<backlog, dropped, unseen>>

\* process_events: one event, all handlers.
AppliedEvent(t) == HandleOrdersApplied(t) /\ HandleBundlesApplied(t)
UnappliedEvent(t) == HandleOrdersUnapplied(t) /\ HandleBundlesUnapplied(t)

\* convert_order_proto: a redeem order needs the bundle's last confirmed state.
Convertible(o) ==
    o \in DOMAIN RedeemOf => Lookup(lastConf, RedeemOf[o]) # NoBox

\* backlog_stream: put or remove, unless the conversion returned None.
TrackOrder ==
    /\ orderQueue # <<>>
    /\ LET u == Head(orderQueue)
       IN  \/ /\ u.op = "new"
              /\ Convertible(u.box)
              /\ backlog' = backlog \cup {u.box}
              /\ UNCHANGED dropped
           \/ /\ u.op = "new"
              /\ ~Convertible(u.box)
              /\ dropped' = dropped \cup {u.box}
              /\ UNCHANGED backlog
           \/ /\ u.op = "eliminated"
              /\ backlog' = backlog \ {u.box}
              /\ UNCHANGED dropped
    /\ orderQueue' = Tail(orderQueue)
    /\ UNCHANGED <<missing, unseen, bundleVars>>

\* The executor settles the order or gives it up, or the backlog evicts it.
OrderLeaves(o) ==
    /\ o \in backlog
    /\ backlog' = backlog \ {o}
    /\ missing' = missing \cup {o}
    /\ UNCHANGED <<orderQueue, dropped, unseen, bundleVars>>

OrdersRestart ==
    /\ BundlesRestart
    /\ LET lost == {u.box : u \in ToSet(orderQueue)}
       IN  missing' = missing \cup lost /\ unseen' = unseen \cup lost
    /\ orderQueue' = <<>>
    /\ UNCHANGED <<backlog, dropped>>

OrdersNext ==
    \/ \E t \in Txs : AppliedEvent(t) \/ UnappliedEvent(t)
    \/ TrackOrder
    \/ (TrackBundle \/ ExecutorOnBundles) /\ UNCHANGED orderVars
    \/ \E o \in OrderBoxes : OrderLeaves(o)
    \/ OrdersRestart

OrdersSpec ==
    FeedInit /\ BundlesInit /\ OrdersInit /\ [][OrdersNext]_<<bundleVars, orderVars>>
-----------------------------------------------------------------------------
\* Orders whose block is, in one unit, not older than order_lifespan.
FreshOrders ==
    {o \in OrderBoxes : \A t \in Txs :
        o \in Outputs[t] => 1000 * Now - Stamp[t] <= OrderLifespan}

(***************************************************************************)
(* With the channel empty, every unspent order whose block is not older    *)
(* than order_lifespan is in the backlog, except one that left it, whose   *)
(* execution was undone, whose conversion failed, or whose announcement a  *)
(* restart lost.                                                           *)
(***************************************************************************)
OrdersKnown ==
    orderQueue = <<>> => Unspent \cap FreshOrders \subseteq backlog \cup dropped \cup missing

(***************************************************************************)
(* The handler announces the orders of a block only if the block is not    *)
(* older than order_lifespan: no older order gets into the backlog.  Does  *)
(* not hold: order.rs:62 subtracts milliseconds from seconds.              *)
(***************************************************************************)
NoOldOrders == backlog \subseteq FreshOrders

(***************************************************************************)
(* With the channel empty, the backlog has no spent order, except one that *)
(* was spent before the backlog had it, or with updates a restart lost.    *)
(***************************************************************************)
OrdersUnspent == orderQueue = <<>> => backlog \subseteq Unspent \cup unseen

(***************************************************************************)
(* A redeem order is dropped only when its bundle is not on the ledger or  *)
(* the repository cannot know it: an update of the bundle is on its way,   *)
(* or its confirmed state is unsure.                                       *)
(***************************************************************************)
UpdateOf(u) == BundleOf[IF u.new = NoBox THEN u.old ELSE u.new]

DropsOnlyUnknown ==
    [][\A o \in dropped' \ dropped :
          \/ \A s \in BundleBoxes : LiveState(s) => BundleOf[s] # RedeemOf[o]
          \/ \E i \in DOMAIN bundleQueue : UpdateOf(bundleQueue[i]) = RedeemOf[o]
          \/ RedeemOf[o] \in unsure]_<<bundleVars, orderVars>>
=============================================================================
