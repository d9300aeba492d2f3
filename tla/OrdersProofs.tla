---------------------------- MODULE OrdersProofs ----------------------------
(***************************************************************************)
(* The backlog's store and the staking bundles follow the ledger: Orders   *)
(* and Bundles for any transactions, order boxes, bundles, block times and *)
(* length of the channels.                                                 *)
(***************************************************************************)
EXTENDS Followers, FundingProofs

OrderUpdate == [op : {"new", "eliminated"}, box : OrderBoxes]

WillBeListed ==
    \A o \in (Unspent \cap FreshOrders) \ (dropped \cup missing) :
        WillHave(orderQueue, backlog, o, "new")

WillBeLive ==
    \A o \in OrderBoxes \ unseen : WillHave(orderQueue, backlog, o, "new") => o \in Unspent

OrdersInv ==
    /\ ChainInv
    /\ backlog \subseteq OrderBoxes
    /\ orderQueue \in Seq(OrderUpdate)
    /\ WillBeListed
    /\ WillBeLive
-----------------------------------------------------------------------------
LEMMA OrdersFacts ==
    /\ OrderBoxes \cap Genesis = {}
    /\ FreshOrders \subseteq OrderBoxes
    /\ \A t \in Txs : FreshOrders \cap Outputs[t] # {} => Recent(t)
<1>1. /\ Now \in Nat /\ OrderLifespan \in Nat /\ OrderBoxes \cap Genesis = {}
      /\ \A t \in Txs : Stamp[t] \in Nat
  BY OrdersAssumption
<1>2. ASSUME NEW t \in Txs, NEW o \in FreshOrders \cap Outputs[t]
      PROVE  Recent(t)
  <2>1. 1000 * Now - Stamp[t] <= OrderLifespan
    BY DEF FreshOrders
  <2> QED
    BY <1>1, <2>1 DEF Recent
<1> QED
  BY <1>1, <1>2 DEF FreshOrders

\* Without a new event and with the channel as it is, the ledger stays too.
LEMMA SameLedger ==
    ASSUME ChainInv, chain' = chain
    PROVE  Unspent' = Unspent /\ ChainInv'
  BY DEF ChainInv, Unspent, Spent, Created

LEMMA OrdersInitInv == FeedInit /\ BundlesInit /\ OrdersInit => OrdersInv
<1> SUFFICES ASSUME FeedInit, OrdersInit
             PROVE  OrdersInv
  OBVIOUS
<1>1. ChainInv
  BY FeedInitChain
<1>2. backlog = {} /\ DOMAIN orderQueue = {} /\ orderQueue \in Seq(OrderUpdate)
  BY DEF OrdersInit
<1>3. Unspent \cap FreshOrders = {}
  <2>1. Created = Genesis
    BY DEF FeedInit, Created, ToSet
  <2> QED
    BY <2>1, OrdersFacts DEF Unspent
<1>4. WillBeListed
  BY <1>3 DEF WillBeListed
<1>5. WillBeLive
  BY <1>2 DEF WillBeLive, WillHave, LastIs
<1> QED
  BY <1>1, <1>2, <1>4, <1>5 DEF OrdersInv

\* What the updates e add to a channel, when they remove the orders of gone and
\* announce those of made.
LEMMA Announcements ==
    ASSUME OrdersInv, NEW gone, NEW made, gone \cap made = {},
           gone \subseteq OrderBoxes, made \subseteq OrderBoxes,
           IsFiniteSet(gone), IsFiniteSet(made)
    PROVE  LET e == Events("eliminated", gone) \o Events("new", made)
           IN  /\ orderQueue \o e \in Seq(OrderUpdate)
               /\ \A o : WillHave(orderQueue \o e, backlog, o, "new") <=>
                           \/ o \in made
                           \/ o \notin gone \cup made /\ WillHave(orderQueue, backlog, o, "new")
<1> DEFINE d == Events("eliminated", gone)
           c == Events("new", made)
           e == d \o c
<1>0. IsFiniteSet(gone) /\ IsFiniteSet(made)
  OBVIOUS
<1>1. d \in Seq(OrderUpdate) /\ c \in Seq(OrderUpdate)
  <2>1. d \in Seq([op : {"eliminated"}, box : gone])
    BY EventsFacts
  <2>2. c \in Seq([op : {"new"}, box : made])
    BY EventsFacts
  <2>3. /\ [op : {"eliminated"}, box : gone] \subseteq OrderUpdate
        /\ [op : {"new"}, box : made] \subseteq OrderUpdate
    BY DEF OrderUpdate
  <2> HIDE DEF d, c
  <2>4. d \in Seq(OrderUpdate)
    BY ONLY <2>1, <2>3, SeqMonotonic
  <2>5. c \in Seq(OrderUpdate)
    BY ONLY <2>2, <2>3, SeqMonotonic
  <2> QED
    BY <2>4, <2>5
<1>2. /\ \A b : Touches(d, b) <=> b \in gone
      /\ \A b : ~LastIs(d, b, "new")
  <2>1. /\ \A b : Touches(d, b) <=> b \in gone
        /\ \A b, o : LastIs(d, b, o) <=> b \in gone /\ o = "eliminated"
    BY ONLY <1>0, EventsFacts
  <2> HIDE DEF d
  <2> QED
    BY <2>1
<1>3. /\ \A b : Touches(c, b) <=> b \in made
      /\ \A b : LastIs(c, b, "new") <=> b \in made
  <2>1. /\ \A b : Touches(c, b) <=> b \in made
        /\ \A b, o : LastIs(c, b, o) <=> b \in made /\ o = "new"
    BY ONLY <1>0, EventsFacts
  <2> HIDE DEF c
  <2> QED
    BY <2>1
<1> HIDE DEF d, c
<1>5. /\ e \in Seq(OrderUpdate)
      /\ \A b : Touches(e, b) <=> b \in gone \cup made
      /\ \A b : LastIs(e, b, "new") <=> b \in made
  <2>1. e \in Seq(OrderUpdate)
    BY <1>1, ConcatProperties
  <2>2. ASSUME NEW b
        PROVE  /\ Touches(e, b) <=> b \in gone \cup made
               /\ LastIs(e, b, "new") <=> b \in made
    <3>1. /\ Touches(d \o c, b) <=> Touches(d, b) \/ Touches(c, b)
          /\ LastIs(d \o c, b, "new") <=>
                LastIs(c, b, "new") \/ (~Touches(c, b) /\ LastIs(d, b, "new"))
      BY ONLY <1>1, ConcatFacts
    <3> QED
      BY <1>2, <1>3, <3>1
  <2> QED
    BY <2>1, <2>2
<1> HIDE DEF e
<1>6. orderQueue \in Seq(OrderUpdate) /\ orderQueue \o e \in Seq(OrderUpdate)
  BY <1>5, ConcatProperties DEF OrdersInv
<1>7. ASSUME NEW o
      PROVE  WillHave(orderQueue \o e, backlog, o, "new") <=>
               \/ LastIs(e, o, "new")
               \/ ~Touches(e, o) /\ WillHave(orderQueue, backlog, o, "new")
  <2>1. orderQueue \in Seq(OrderUpdate) /\ e \in Seq(OrderUpdate)
    BY <1>5, <1>6
  <2> QED
    BY ONLY <2>1, MoreUpdates
<1>8. \A o : WillHave(orderQueue \o e, backlog, o, "new") <=>
               \/ o \in made
               \/ o \notin gone \cup made /\ WillHave(orderQueue, backlog, o, "new")
  BY <1>5, <1>7
<1> QED
  BY <1>6, <1>8 DEF c, d, e

LEMMA AppliedEventInv ==
    ASSUME OrdersInv, NEW t \in Txs, AppliedEvent(t)
    PROVE  OrdersInv'
<1> DEFINE gone == Inputs[t] \cap backlog
           made == IF Recent(t) THEN Outputs[t] \cap OrderBoxes ELSE {}
           e == OrderUpdates(t)
<1>1. /\ orderQueue' = orderQueue \o e
      /\ unseen' = unseen \cup ((Inputs[t] \cap OrderBoxes) \ backlog)
      /\ backlog' = backlog /\ dropped' = dropped /\ missing' = missing
  BY DEF AppliedEvent, HandleOrdersApplied
<1>2. ChainInv' /\ Unspent' = (Unspent \ Inputs[t]) \cup Outputs[t]
  BY AppliedFacts DEF OrdersInv, AppliedEvent, HandleBundlesApplied
<1>3. e = Events("eliminated", gone) \o Events("new", made)
  BY DEF OrderUpdates
<1>4. /\ gone \cap made = {} /\ gone \subseteq OrderBoxes /\ made \subseteq OrderBoxes
      /\ gone \subseteq Inputs[t] \cup Outputs[t] /\ made \subseteq Inputs[t] \cup Outputs[t]
  BY FeedFacts DEF OrdersInv
<1>5. /\ gone = Inputs[t] \cap backlog /\ made \subseteq Outputs[t]
      /\ FreshOrders \cap Outputs[t] \subseteq made
  BY OrdersFacts
<1> HIDE DEF gone, made, e
<1>6. IsFiniteSet(gone) /\ IsFiniteSet(made)
  <2>1. IsFiniteSet(Inputs[t] \cup Outputs[t])
    BY FeedFacts
  <2> QED
    BY <1>4, <2>1, FS_Subset
<1>7. /\ orderQueue \o e \in Seq(OrderUpdate)
      /\ \A o : WillHave(orderQueue \o e, backlog, o, "new") <=>
                  \/ o \in made
                  \/ o \notin gone \cup made /\ WillHave(orderQueue, backlog, o, "new")
  BY <1>3, <1>4, <1>6, Announcements
<1>8. WillBeListed'
  <2> SUFFICES ASSUME NEW o \in (Unspent' \cap FreshOrders) \ (dropped' \cup missing')
               PROVE  WillHave(orderQueue', backlog', o, "new")
    BY DEF WillBeListed
  <2>1. o \in made \/ (o \in Unspent /\ o \notin gone \cup made)
    BY <1>2, <1>5
  <2>2. o \in Unspent => WillHave(orderQueue, backlog, o, "new")
    BY <1>1 DEF OrdersInv, WillBeListed
  <2> QED
    BY <1>1, <1>7, <2>1, <2>2
<1>9. WillBeLive'
  <2> SUFFICES ASSUME NEW o \in OrderBoxes \ unseen',
                      WillHave(orderQueue', backlog', o, "new")
               PROVE  o \in Unspent'
    BY DEF WillBeLive
  <2>1. CASE o \in made
    BY <1>2, <1>5, <2>1
  <2>2. CASE o \notin made
    <3>1. o \notin gone /\ WillHave(orderQueue, backlog, o, "new")
      BY <1>1, <1>7, <2>2
    <3>2. o \in Unspent
      BY <1>1, <3>1 DEF OrdersInv, WillBeLive
    <3>3. o \notin Inputs[t]
      BY <1>1, <1>5, <3>1
    <3> QED
      BY <1>2, <3>2, <3>3
  <2> QED
    BY <2>1, <2>2
<1> QED
  BY <1>1, <1>2, <1>7, <1>8, <1>9 DEF OrdersInv

LEMMA UnappliedEventInv ==
    ASSUME OrdersInv, NEW t \in Txs, UnappliedEvent(t)
    PROVE  OrdersInv'
<1> DEFINE gone == Outputs[t] \cap OrderBoxes
           d == Events("eliminated", gone)
           none == {}
           e == d \o Events("new", none)
<1>1. /\ orderQueue' = orderQueue \o d
      /\ missing' = missing \cup (Inputs[t] \cap OrderBoxes)
      /\ backlog' = backlog /\ dropped' = dropped /\ unseen' = unseen
  BY DEF UnappliedEvent, HandleOrdersUnapplied
<1>2. /\ ChainInv'
      /\ Unspent \ Outputs[t] \subseteq Unspent'
      /\ Unspent' \subseteq (Unspent \ Outputs[t]) \cup Inputs[t]
  BY UnappliedFacts DEF OrdersInv, UnappliedEvent, HandleBundlesUnapplied
<1>3. gone = Outputs[t] \cap OrderBoxes /\ gone \subseteq Inputs[t] \cup Outputs[t]
  OBVIOUS
<1> HIDE DEF gone
<1>4. IsFiniteSet(gone) /\ IsFiniteSet({})
  <2>1. IsFiniteSet(Inputs[t] \cup Outputs[t])
    BY FeedFacts
  <2> QED
    BY <1>3, <2>1, FS_Subset, FS_EmptySet
<1>5. e = d
  <2>1. d \in Seq([op : {"eliminated"}, box : gone])
    BY ONLY <1>4, EventsFacts
  <2>2. Events("new", {}) = <<>>
    <3>1. Events("new", {}) \in Seq([op : {"new"}, box : {}])
      BY <1>4, EventsFacts
    <3>2. [op : {"new"}, box : {}] = {}
      OBVIOUS
    <3> QED
      BY <3>1, <3>2, EmptySeq
  <2> HIDE DEF d
  <2> QED
    BY <2>1, <2>2, ConcatEmptySeq
<1>6. e = Events("eliminated", gone) \o Events("new", none)
  OBVIOUS
<1>6a. /\ gone \cap none = {} /\ gone \subseteq OrderBoxes /\ none \subseteq OrderBoxes
       /\ IsFiniteSet(none) /\ \A o : o \notin none
  BY <1>3, <1>4
<1> HIDE DEF d, e, none
<1>7. /\ orderQueue \o e \in Seq(OrderUpdate)
      /\ \A o : WillHave(orderQueue \o e, backlog, o, "new") <=>
                  \/ o \in none
                  \/ o \notin gone \cup none /\ WillHave(orderQueue, backlog, o, "new")
  BY <1>4, <1>6, <1>6a, Announcements
<1>8. /\ orderQueue' \in Seq(OrderUpdate)
      /\ \A o : WillHave(orderQueue', backlog', o, "new") <=>
                  o \notin gone /\ WillHave(orderQueue, backlog, o, "new")
  BY <1>1, <1>5, <1>6a, <1>7
<1>9. WillBeListed'
  <2> SUFFICES ASSUME NEW o \in (Unspent' \cap FreshOrders) \ (dropped' \cup missing')
               PROVE  WillHave(orderQueue', backlog', o, "new")
    BY DEF WillBeListed
  <2>1. o \in Unspent /\ o \notin gone /\ o \notin missing /\ o \notin dropped
    BY <1>1, <1>2, <1>3, OrdersFacts
  <2>2. WillHave(orderQueue, backlog, o, "new")
    BY <2>1 DEF OrdersInv, WillBeListed
  <2> QED
    BY <1>8, <2>1, <2>2
<1>10. WillBeLive'
  <2> SUFFICES ASSUME NEW o \in OrderBoxes \ unseen',
                      WillHave(orderQueue', backlog', o, "new")
               PROVE  o \in Unspent'
    BY DEF WillBeLive
  <2>1. o \notin gone /\ WillHave(orderQueue, backlog, o, "new")
    BY <1>8
  <2>2. o \in Unspent
    BY <1>1, <2>1 DEF OrdersInv, WillBeLive
  <2> QED
    BY <1>2, <1>3, <2>1, <2>2
<1> QED
  BY <1>1, <1>2, <1>8, <1>9, <1>10 DEF OrdersInv

LEMMA TrackOrderInv ==
    ASSUME OrdersInv, TrackOrder
    PROVE  OrdersInv'
<1> DEFINE u == Head(orderQueue)
<1>1. /\ orderQueue # <<>> /\ orderQueue \in Seq(OrderUpdate) /\ orderQueue' = Tail(orderQueue)
      /\ chain' = chain /\ missing' = missing /\ unseen' = unseen
  BY DEF OrdersInv, TrackOrder, bundleVars
<1>2. Unspent' = Unspent /\ ChainInv'
  BY <1>1, SameLedger DEF OrdersInv
<1>3. u \in OrderUpdate /\ orderQueue' \in Seq(OrderUpdate)
  BY <1>1, HeadTailProperties
<1>4. u.box \in OrderBoxes /\ u.op \in {"new", "eliminated"}
  BY <1>3 DEF OrderUpdate
<1>5. \/ u.op = "new" /\ backlog' = backlog \cup {u.box} /\ dropped' = dropped
      \/ u.op = "new" /\ dropped' = dropped \cup {u.box} /\ backlog' = backlog
      \/ u.op = "eliminated" /\ backlog' = backlog \ {u.box} /\ dropped' = dropped
  BY DEF TrackOrder
<1>6. ASSUME NEW o
      PROVE  /\ u.box # o =>
                  /\ Touches(orderQueue, o) <=> Touches(orderQueue', o)
                  /\ LastIs(orderQueue, o, "new") <=> LastIs(orderQueue', o, "new")
             /\ u.box = o =>
                  /\ Touches(orderQueue, o)
                  /\ LastIs(orderQueue, o, "new") <=>
                        \/ LastIs(orderQueue', o, "new")
                        \/ ~Touches(orderQueue', o) /\ u.op = "new"
  BY <1>1, TailFacts
<1> HIDE DEF u
<1>7. backlog' \subseteq OrderBoxes /\ dropped \subseteq dropped'
  BY <1>4, <1>5 DEF OrdersInv
<1>8. ASSUME NEW o
      PROVE  /\ o \notin dropped' /\ WillHave(orderQueue, backlog, o, "new")
                   => WillHave(orderQueue', backlog', o, "new")
             /\ WillHave(orderQueue', backlog', o, "new")
                   => WillHave(orderQueue, backlog, o, "new")
  <2>1. CASE u.box # o
    <3>1. o \in backlog <=> o \in backlog'
      BY <1>5, <2>1
    <3> QED
      BY <1>6, <2>1, <3>1 DEF WillHave
  <2>2. CASE u.box = o
    <3>1. u.op = "new" /\ o \notin dropped' => o \in backlog'
      BY <1>5, <2>2
    <3>2. u.op # "new" => o \notin backlog'
      BY <1>5, <2>2
    <3> QED
      BY <1>6, <2>2, <3>1, <3>2 DEF WillHave
  <2> QED
    BY <2>1, <2>2
<1>9. WillBeListed'
  BY <1>1, <1>2, <1>7, <1>8 DEF OrdersInv, WillBeListed
<1>10. WillBeLive'
  BY <1>1, <1>2, <1>8 DEF OrdersInv, WillBeLive
<1> QED
  BY <1>2, <1>3, <1>7, <1>9, <1>10 DEF OrdersInv

LEMMA OrderLeavesInv ==
    ASSUME OrdersInv, NEW o \in OrderBoxes, OrderLeaves(o)
    PROVE  OrdersInv'
<1>1. /\ backlog' = backlog \ {o} /\ missing' = missing \cup {o}
      /\ orderQueue' = orderQueue /\ dropped' = dropped /\ unseen' = unseen
      /\ chain' = chain
  BY DEF OrderLeaves, bundleVars
<1>2. Unspent' = Unspent /\ ChainInv'
  BY <1>1, SameLedger DEF OrdersInv
<1>3. WillBeListed'
  BY <1>1, <1>2 DEF OrdersInv, WillBeListed, WillHave
<1>4. WillBeLive'
  BY <1>1, <1>2 DEF OrdersInv, WillBeLive, WillHave
<1> QED
  BY <1>1, <1>2, <1>3, <1>4 DEF OrdersInv

LEMMA OrdersRestartInv ==
    ASSUME OrdersInv, OrdersRestart
    PROVE  OrdersInv'
<1> DEFINE lost == {u.box : u \in ToSet(orderQueue)}
<1>1. /\ missing' = missing \cup lost /\ unseen' = unseen \cup lost
      /\ orderQueue' = <<>> /\ backlog' = backlog /\ dropped' = dropped /\ chain' = chain
  BY DEF OrdersRestart, BundlesRestart
<1>2. Unspent' = Unspent /\ ChainInv'
  BY <1>1, SameLedger DEF OrdersInv
<1>3. \A o : o \notin lost => ~Touches(orderQueue, o) /\ ~LastIs(orderQueue, o, "new")
  BY DEF Touches, LastIs, ToSet
<1>4. DOMAIN orderQueue' = {} /\ orderQueue' \in Seq(OrderUpdate)
  BY <1>1
<1>5. \A o : WillHave(orderQueue', backlog', o, "new") <=> o \in backlog
  BY <1>1, <1>4 DEF WillHave, Touches, LastIs
<1> HIDE DEF lost
<1>6. \A o : o \notin lost => (WillHave(orderQueue, backlog, o, "new") <=> o \in backlog)
  BY <1>3 DEF WillHave
<1>7. WillBeListed'
  BY <1>1, <1>2, <1>5, <1>6 DEF OrdersInv, WillBeListed
<1>8. WillBeLive'
  BY <1>1, <1>2, <1>5, <1>6 DEF OrdersInv, WillBeLive
<1> QED
  BY <1>1, <1>2, <1>4, <1>7, <1>8 DEF OrdersInv

\* The stream of bundles, and stuttering.
LEMMA OrdersIdleInv ==
    ASSUME OrdersInv, chain' = chain, UNCHANGED orderVars
    PROVE  OrdersInv'
<1>1. Unspent' = Unspent /\ ChainInv'
  BY SameLedger DEF OrdersInv
<1> QED
  BY <1>1 DEF OrdersInv, orderVars, WillBeListed, WillBeLive

LEMMA OnlyEventsMove == TrackBundle \/ ExecutorOnBundles => chain' = chain
  BY DEF TrackBundle, ExecutorOnBundles, ReadBundle, ResolveBundle, PredictBundle, PredictDeposit,
         BundleMissing, BundleUnused

LEMMA OrdersStepInv == OrdersInv /\ [OrdersNext]_<<bundleVars, orderVars>> => OrdersInv'
<1> SUFFICES ASSUME OrdersInv, [OrdersNext]_<<bundleVars, orderVars>>
             PROVE  OrdersInv'
  OBVIOUS
<1>1. ASSUME NEW t \in Txs, AppliedEvent(t)
      PROVE  OrdersInv'
  BY <1>1, AppliedEventInv
<1>2. ASSUME NEW t \in Txs, UnappliedEvent(t)
      PROVE  OrdersInv'
  BY <1>2, UnappliedEventInv
<1>3. CASE TrackOrder
  BY <1>3, TrackOrderInv
<1>4. CASE (TrackBundle \/ ExecutorOnBundles) /\ UNCHANGED orderVars
  <2>1. chain' = chain
    BY <1>4, OnlyEventsMove
  <2> QED
    BY <1>4, <2>1, OrdersIdleInv
<1>5. ASSUME NEW o \in OrderBoxes, OrderLeaves(o)
      PROVE  OrdersInv'
  BY <1>5, OrderLeavesInv
<1>6. CASE OrdersRestart
  BY <1>6, OrdersRestartInv
<1>7. CASE UNCHANGED <<bundleVars, orderVars>>
  <2>1. chain' = chain /\ UNCHANGED orderVars
    BY <1>7 DEF bundleVars
  <2> QED
    BY <2>1, OrdersIdleInv
<1> QED
  BY <1>1, <1>2, <1>3, <1>4, <1>5, <1>6, <1>7 DEF OrdersNext

LEMMA OrdersInductive == OrdersSpec => []OrdersInv
  BY OrdersInitInv, OrdersStepInv, PTL DEF OrdersSpec

LEMMA OrderChannelEmpty ==
    ASSUME orderQueue = <<>>, NEW o
    PROVE  WillHave(orderQueue, backlog, o, "new") <=> o \in backlog
<1>1. DOMAIN orderQueue = {}
  OBVIOUS
<1> QED
  BY <1>1 DEF WillHave, Touches, LastIs
-----------------------------------------------------------------------------
(***************************************************************************)
(* Once backlog_stream has caught up, every unspent order whose block is   *)
(* not older than the lifespan is in the backlog.  Excepted are the orders *)
(* that left the backlog, whose execution was undone, whose conversion     *)
(* returned None, or whose announcement a restart lost.                    *)
(***************************************************************************)
THEOREM OrdersAreKnown == OrdersSpec => []OrdersKnown
<1>1. OrdersInv => OrdersKnown
  <2> SUFFICES ASSUME OrdersInv, orderQueue = <<>>, NEW o \in Unspent \cap FreshOrders,
                      o \notin dropped \cup missing
               PROVE  o \in backlog
    BY DEF OrdersKnown
  <2>1. WillHave(orderQueue, backlog, o, "new")
    BY DEF OrdersInv, WillBeListed
  <2> QED
    BY <2>1, OrderChannelEmpty
<1> QED
  BY <1>1, OrdersInductive, PTL

(***************************************************************************)
(* Once backlog_stream has caught up, the backlog has no spent order,      *)
(* although handlers/order.rs asks a store that lags behind the channel:   *)
(* excepted are just the orders spent before the backlog had them, and     *)
(* those with updates that a restart lost.                                 *)
(***************************************************************************)
THEOREM OrdersAreUnspent == OrdersSpec => []OrdersUnspent
<1>1. OrdersInv => OrdersUnspent
  <2> SUFFICES ASSUME OrdersInv, orderQueue = <<>>, NEW o \in backlog, o \notin unseen
               PROVE  o \in Unspent
    BY DEF OrdersUnspent
  <2>1. WillHave(orderQueue, backlog, o, "new") /\ o \in OrderBoxes
    BY OrderChannelEmpty DEF OrdersInv
  <2> QED
    BY <2>1 DEF OrdersInv, WillBeLive
<1> QED
  BY <1>1, OrdersInductive, PTL

-----------------------------------------------------------------------------
(***************************************************************************)
(* The bundles on the ledger.                                              *)
(***************************************************************************)
\* The states of bundles that are unspent after the first n transactions.
LiveAfter(n) ==
    {s \in BundleBoxes : /\ \E i \in 1 .. n : s \in Outputs[chain[i]]
                         /\ \A i \in 1 .. n : s \notin Inputs[chain[i]]}

\* No box is spent twice; at every point of its history the ledger has one state
\* of a bundle at most, and has minted the key of every bundle with a state.
StakesChain ==
    /\ ChainInv
    /\ \A i, j \in DOMAIN chain : Inputs[chain[i]] \cap Inputs[chain[j]] # {} => i = j
    /\ \A i \in DOMAIN chain : \A s \in Outputs[chain[i]] \cap BundleBoxes :
          \E j \in 1 .. i : Mints(chain[j], BundleOf[s])
    /\ \A n \in 0 .. Len(chain) : \A r, s \in LiveAfter(n) : BundleOf[r] = BundleOf[s] => r = s

LEMMA BundleFacts ==
    /\ EpochNum \in Nat \ {0}
    /\ \A s \in BundleBoxes : EpochsLeft[s] \in 0 .. EpochNum
    /\ \A s \in BundleBoxes : s \notin Genesis /\ s # NoBox /\ BundleOf[s] \in BundleIds
    /\ \A t \in Txs : \A r, s \in BundleBoxes :
          /\ r \in Inputs[t] /\ s \in Inputs[t] /\ BundleOf[r] = BundleOf[s] => r = s
          /\ r \in Outputs[t] /\ s \in Outputs[t] /\ BundleOf[r] = BundleOf[s] => r = s
    /\ \A t, u \in Txs : \A id \in BundleIds : Mints(t, id) /\ Mints(u, id) => t = u
<1>1. \A s \in BundleBoxes : BundleOf[s] \in BundleIds
  BY DEF BundleIds
<1> QED
  BY <1>1, BundlesAssumption

\* Another way to say that a state is unspent.
LEMMA LiveStates ==
    ASSUME ChainInv, NEW s \in BundleBoxes
    PROVE  LiveState(s) <=> s \in LiveAfter(Len(chain))
<1>1. DOMAIN chain = 1 .. Len(chain)
  BY DEF ChainInv
<1>2. s \in Created <=> \E i \in 1 .. Len(chain) : s \in Outputs[chain[i]]
  BY <1>1, BundleFacts DEF Created, ToSet
<1>3. s \in Spent <=> \E i \in 1 .. Len(chain) : s \in Inputs[chain[i]]
  BY <1>1 DEF Spent, ToSet
<1> QED
  BY <1>2, <1>3 DEF LiveState, Unspent, LiveAfter

LEMMA OneLive ==
    ASSUME StakesChain, NEW r \in BundleBoxes, NEW s \in BundleBoxes,
           LiveState(r), LiveState(s), BundleOf[r] = BundleOf[s]
    PROVE  r = s
<1>1. r \in LiveAfter(Len(chain)) /\ s \in LiveAfter(Len(chain))
  BY LiveStates DEF StakesChain
<1>2. Len(chain) \in 0 .. Len(chain)
  BY DEF StakesChain, ChainInv
<1> QED
  BY <1>1, <1>2 DEF StakesChain

OneStateEach ==
    \A r, s \in BundleBoxes : LiveState(r) /\ LiveState(s) /\ BundleOf[r] = BundleOf[s] => r = s

LEMMA OneLiveNext == StakesChain' => OneStateEach'
<1>1. StakesChain => OneStateEach
  BY OneLive DEF OneStateEach
<1> QED
  BY <1>1, PTL

\* A state that was created has a transaction that created it.
LEMMA Creator ==
    ASSUME ChainInv, NEW s \in BundleBoxes, s \in Created
    PROVE  \E i \in DOMAIN chain : s \in Outputs[chain[i]]
  BY BundleFacts DEF Created, ToSet

\* A bundle with a state on the ledger, now or before, is not minted again.
LEMMA NotMintedAgain ==
    ASSUME StakesChain, NEW t \in Txs, t \notin ToSet(chain),
           NEW s \in BundleBoxes, s \in Created
    PROVE  ~Mints(t, BundleOf[s])
<1>1. PICK i \in DOMAIN chain : s \in Outputs[chain[i]]
  BY Creator DEF StakesChain
<1>2. PICK j \in 1 .. i : Mints(chain[j], BundleOf[s])
  BY <1>1 DEF StakesChain
<1>3. j \in DOMAIN chain
  BY <1>1, <1>2 DEF StakesChain, ChainInv
<1>4. chain[j] \in Txs /\ chain[j] # t
  BY <1>3 DEF StakesChain, ChainInv, ToSet
<1> QED
  BY <1>2, <1>4, BundleFacts

LEMMA InitStakes == FeedInit => StakesChain
<1> SUFFICES ASSUME FeedInit
             PROVE  StakesChain
  OBVIOUS
<1>1. chain = <<>> /\ DOMAIN chain = {} /\ Len(chain) = 0
  BY DEF FeedInit
<1>2. \A n \in 0 .. Len(chain) : LiveAfter(n) = {}
  <2>1. \A n \in 0 .. Len(chain) : 1 .. n = {}
    BY <1>1
  <2> QED
    BY <2>1 DEF LiveAfter
<1> QED
  BY <1>1, <1>2, FeedInitChain DEF StakesChain

LEMMA AppliedStakes ==
    ASSUME StakesChain, NEW t \in Txs, AppliedTx(t)
    PROVE  /\ StakesChain'
           /\ Created' = Created \cup Outputs[t]
           /\ Outputs[t] \cap Created = {}
           /\ Inputs[t] \subseteq Unspent
           /\ Unspent' = (Unspent \ Inputs[t]) \cup Outputs[t]
           /\ t \notin ToSet(chain)
<1>1. /\ ChainInv /\ ChainInv' /\ Outputs[t] \cap Created = {}
      /\ Unspent' = (Unspent \ Inputs[t]) \cup Outputs[t]
      /\ chain \in Seq(Txs) /\ t \notin ToSet(chain) /\ Inputs[t] \subseteq Unspent
      /\ chain' = Append(chain, t)
  BY AppliedFacts DEF StakesChain, ChainInv, AppliedTx
<1>2. Created' = Created \cup Outputs[t]
  BY <1>1, ToSetAppend DEF Created
<1>2a. PICK n \in Nat : n = Len(chain)
  BY <1>1, LenProperties
<1>3. /\ n \in Nat /\ DOMAIN chain = 1 .. n /\ DOMAIN chain' = 1 .. n + 1 /\ Len(chain') = n + 1
      /\ \A i \in 1 .. n : chain'[i] = chain[i] /\ chain'[i] # t
      /\ chain'[n + 1] = t
  <2>1. n \in Nat /\ DOMAIN chain = 1 .. n
    BY <1>1, <1>2a, LenProperties
  <2>2. /\ DOMAIN chain' = 1 .. n + 1 /\ Len(chain') = n + 1
        /\ \A i \in 1 .. n : chain'[i] = chain[i]
        /\ chain'[n + 1] = t
    BY <1>1, <1>2a, AppendProperties
  <2>3. \A i \in 1 .. n : chain[i] # t
    BY <1>1, <2>1 DEF ToSet
  <2> QED
    BY <2>1, <2>2, <2>3
<1>4. /\ \A i \in 1 .. n + 1 : i \in 1 .. n \/ i = n + 1
      /\ \A i \in 1 .. n + 1 : 1 .. i \subseteq 1 .. n + 1
      /\ \A i \in 1 .. n : 1 .. i \subseteq 1 .. n
      /\ n + 1 \in 1 .. n + 1
  BY <1>3
<1>5. ASSUME NEW i \in DOMAIN chain', NEW j \in DOMAIN chain',
             Inputs[chain'[i]] \cap Inputs[chain'[j]] # {}
      PROVE  i = j
  <2>1. \A k \in 1 .. n : Inputs[chain[k]] \cap Inputs[t] = {}
    BY <1>1, <1>3 DEF Unspent, Spent, ToSet
  <2>2. CASE i \in 1 .. n /\ j \in 1 .. n
    BY <1>3, <1>5, <2>2 DEF StakesChain
  <2> QED
    BY <1>3, <1>4, <1>5, <2>1, <2>2
<1>6. ASSUME NEW i \in DOMAIN chain', NEW s \in Outputs[chain'[i]] \cap BundleBoxes
      PROVE  \E j \in 1 .. i : Mints(chain'[j], BundleOf[s])
  <2>1. CASE i \in 1 .. n
    <3>1. PICK j \in 1 .. i : Mints(chain[j], BundleOf[s])
      BY <1>3, <1>6, <2>1 DEF StakesChain
    <3> QED
      BY <1>3, <1>4, <2>1, <3>1
  <2>2. CASE i = n + 1 /\ Mints(t, BundleOf[s])
    BY <1>3, <1>4, <2>2
  <2>3. CASE i = n + 1 /\ ~Mints(t, BundleOf[s])
    <3>1. PICK r \in Inputs[t] \cap BundleBoxes : BundleOf[r] = BundleOf[s]
      BY <1>3, <1>6, <2>3 DEF Mints
    <3>2. PICK k \in DOMAIN chain : r \in Outputs[chain[k]]
      BY <1>1, <3>1, Creator DEF Unspent
    <3>3. PICK j \in 1 .. k : Mints(chain[j], BundleOf[s])
      BY <3>1, <3>2 DEF StakesChain
    <3>4. j \in 1 .. n /\ j \in 1 .. n + 1
      BY <1>3, <3>2, <3>3
    <3> QED
      BY <1>3, <2>3, <3>3, <3>4
  <2> QED
    BY <1>3, <1>4, <2>1, <2>2, <2>3
<1>7. \A m \in 0 .. n : LiveAfter(m)' = LiveAfter(m)
  <2> SUFFICES ASSUME NEW m \in 0 .. n
               PROVE  LiveAfter(m)' = LiveAfter(m)
    OBVIOUS
  <2>1. \A i \in 1 .. m : chain'[i] = chain[i]
    BY <1>3
  <2> QED
    BY <2>1 DEF LiveAfter
<1>8. \A s \in LiveAfter(n + 1)' : /\ s \in BundleBoxes
                                   /\ s \in Outputs[t] \/ (s \in LiveAfter(n) /\ s \notin Inputs[t])
  <2> SUFFICES ASSUME NEW s \in LiveAfter(n + 1)', s \notin Outputs[t]
               PROVE  s \in LiveAfter(n) /\ s \notin Inputs[t]
    BY DEF LiveAfter
  <2>1. /\ s \in BundleBoxes
        /\ \E i \in 1 .. n + 1 : s \in Outputs[chain'[i]]
        /\ \A i \in 1 .. n + 1 : s \notin Inputs[chain'[i]]
    BY DEF LiveAfter
  <2>2. \E i \in 1 .. n : s \in Outputs[chain[i]]
    BY <1>3, <1>4, <2>1
  <2>3. \A i \in 1 .. n : i \in 1 .. n + 1
    BY <1>3
  <2> QED
    BY <1>3, <1>4, <2>1, <2>2, <2>3 DEF LiveAfter
<1>9. ASSUME NEW r \in LiveAfter(n), NEW s \in Outputs[t] \cap BundleBoxes,
             r \notin Inputs[t], BundleOf[r] = BundleOf[s]
      PROVE  FALSE
  <2>1. r \in BundleBoxes /\ LiveState(r) /\ r \in Created
    BY <1>1, <1>2a, LiveStates DEF LiveAfter, LiveState, Unspent
  <2>2. ~Mints(t, BundleOf[s])
    BY <1>1, <1>9, <2>1, NotMintedAgain
  <2>3. PICK q \in Inputs[t] \cap BundleBoxes : BundleOf[q] = BundleOf[s]
    BY <2>2 DEF Mints
  <2>4. LiveState(q)
    BY <1>1, <2>3 DEF LiveState
  <2> QED
    BY <1>9, <2>1, <2>3, <2>4, OneLive
<1>10. ASSUME NEW m \in 0 .. Len(chain'), NEW r \in LiveAfter(m)', NEW s \in LiveAfter(m)',
              BundleOf[r] = BundleOf[s]
       PROVE  r = s
  <2>1. m \in 0 .. n \/ m = n + 1
    BY <1>3
  <2>2. CASE m \in 0 .. n
    BY <1>2a, <1>7, <1>10, <2>2 DEF StakesChain
  <2>3. CASE m = n + 1
    <3>1. n \in 0 .. n
      BY <1>3
    <3>2. /\ r \in BundleBoxes /\ (r \in Outputs[t] \/ (r \in LiveAfter(n) /\ r \notin Inputs[t]))
          /\ s \in BundleBoxes /\ (s \in Outputs[t] \/ (s \in LiveAfter(n) /\ s \notin Inputs[t]))
      BY <1>8, <1>10, <2>3
    <3>3. CASE r \in Outputs[t] /\ s \in Outputs[t]
      BY <1>10, <3>2, <3>3, BundleFacts
    <3>4. CASE r \in LiveAfter(n) /\ s \in LiveAfter(n)
      BY <1>2a, <1>10, <3>1, <3>4 DEF StakesChain
    <3> QED
      BY <1>9, <1>10, <3>2, <3>3, <3>4
  <2> QED
    BY <2>1, <2>2, <2>3
<1>11. StakesChain'
  BY <1>1, <1>5, <1>6, <1>10 DEF StakesChain
<1> QED
  BY <1>1, <1>2, <1>11

LEMMA UnappliedStakes ==
    ASSUME StakesChain, NEW t \in Txs, UnappliedTx(t)
    PROVE  /\ StakesChain'
           /\ Outputs[t] \subseteq Unspent
           /\ Inputs[t] \subseteq Unspent'
           /\ Unspent \ Outputs[t] \subseteq Unspent'
           /\ Unspent' \subseteq (Unspent \ Outputs[t]) \cup Inputs[t]
           /\ Unspent' \cap Outputs[t] = {}
           /\ Created' = Created \ Outputs[t]
<1> DEFINE n == Len(chain)
<1>1. chain \in Seq(Txs) /\ chain # <<>> /\ t = Last(chain) /\ chain' = Front(chain)
  BY DEF StakesChain, ChainInv, UnappliedTx
<1>2. /\ n \in Nat \ {0} /\ chain' \in Seq(Txs) /\ DOMAIN chain' = 1 .. n - 1
      /\ \A i \in 1 .. n - 1 : chain'[i] = chain[i]
      /\ t = chain[n] /\ DOMAIN chain = DOMAIN chain' \cup {n}
  BY <1>1, FrontFacts
<1>3. Len(chain') = n - 1
  <2> HIDE DEF n
  <2> QED
    BY <1>2
<1>4. /\ ChainInv /\ ChainInv'
      /\ Unspent \ Outputs[t] \subseteq Unspent'
      /\ Unspent' \subseteq (Unspent \ Outputs[t]) \cup Inputs[t]
  BY UnappliedFacts DEF StakesChain
<1> HIDE DEF n
<1>5. DOMAIN chain = 1 .. n /\ n \in DOMAIN chain /\ 1 .. n - 1 \subseteq 1 .. n
  BY <1>2
<1>6. \A i \in 1 .. n - 1 : /\ Inputs[chain[i]] \cap Outputs[t] = {}
                            /\ Inputs[chain[i]] \cap Inputs[t] = {}
                            /\ Outputs[chain[i]] \cap Outputs[t] = {}
  <2> SUFFICES ASSUME NEW i \in 1 .. n - 1
               PROVE  /\ Inputs[chain[i]] \cap Outputs[t] = {}
                      /\ Inputs[chain[i]] \cap Inputs[t] = {}
                      /\ Outputs[chain[i]] \cap Outputs[t] = {}
    OBVIOUS
  <2>1. i \in DOMAIN chain /\ n \in DOMAIN chain /\ i < n /\ i # n /\ ~(n < i)
    BY <1>2, <1>5
  <2>2. chain[i] \in Txs /\ chain[n] \in Txs /\ chain[i] # chain[n]
    BY <1>1, <2>1 DEF StakesChain, ChainInv
  <2>3. Outputs[chain[i]] \cap Outputs[chain[n]] = {}
    BY <2>2, FeedFacts
  <2>4. Inputs[chain[i]] \cap Outputs[chain[n]] = {}
    BY <2>1 DEF StakesChain, ChainInv
  <2>5. Inputs[chain[i]] \cap Inputs[chain[n]] = {}
    BY <2>1 DEF StakesChain
  <2> QED
    BY <1>2, <2>3, <2>4, <2>5
<1>7. ToSet(chain') = {chain[i] : i \in 1 .. n - 1} /\ ToSet(chain) = ToSet(chain') \cup {t}
  BY <1>2 DEF ToSet
<1>8. /\ Created = Created' \cup Outputs[t] /\ Created' \cap Outputs[t] = {}
      /\ Spent = Spent' \cup Inputs[t] /\ Spent' \cap Outputs[t] = {} /\ Spent' \cap Inputs[t] = {}
  <2>1. Created = Created' \cup Outputs[t] /\ Spent = Spent' \cup Inputs[t]
    BY <1>7 DEF Created, Spent
  <2>2. Created' = Genesis \cup UNION {Outputs[chain[i]] : i \in 1 .. n - 1}
    BY <1>7 DEF Created
  <2>3. Spent' = UNION {Inputs[chain[i]] : i \in 1 .. n - 1}
    BY <1>7 DEF Spent
  <2>4. Genesis \cap Outputs[t] = {}
    BY FeedFacts
  <2> QED
    BY <1>6, <2>1, <2>2, <2>3, <2>4
<1>9. Outputs[t] \cap Inputs[t] = {}
  BY FeedFacts
<1>10. Outputs[t] \subseteq Unspent
  BY <1>8, <1>9 DEF Unspent
<1>11. Inputs[t] \subseteq Unspent'
  BY <1>4, <1>8, <1>9 DEF Unspent, ChainInv
<1>12. \A i, j \in DOMAIN chain' : Inputs[chain'[i]] \cap Inputs[chain'[j]] # {} => i = j
  BY <1>2 DEF StakesChain
<1>13. ASSUME NEW i \in DOMAIN chain', NEW s \in Outputs[chain'[i]] \cap BundleBoxes
       PROVE  \E j \in 1 .. i : Mints(chain'[j], BundleOf[s])
  <2>1. 1 .. i \subseteq 1 .. n - 1
    BY <1>2
  <2>2. PICK j \in 1 .. i : Mints(chain[j], BundleOf[s])
    BY <1>2, <1>13 DEF StakesChain
  <2> QED
    BY <1>2, <2>1, <2>2
<1>14. ASSUME NEW m \in 0 .. Len(chain'), NEW r \in LiveAfter(m)', NEW s \in LiveAfter(m)',
              BundleOf[r] = BundleOf[s]
       PROVE  r = s
  <2>1. m \in 0 .. n /\ 1 .. m \subseteq 1 .. n - 1
    BY <1>2, <1>3
  <2>2. LiveAfter(m)' = LiveAfter(m)
    BY <1>2, <2>1 DEF LiveAfter
  <2> QED
    BY <1>14, <2>1, <2>2 DEF StakesChain, n
<1>15. StakesChain'
  BY <1>4, <1>12, <1>13, <1>14 DEF StakesChain
<1> QED
  BY <1>4, <1>8, <1>10, <1>11, <1>15 DEF Unspent
-----------------------------------------------------------------------------
(***************************************************************************)
(* The channel between the handler and the stream.                         *)
(***************************************************************************)
AnyUpdate == [undo : BOOLEAN, old : Maybe, new : Maybe, ix : 1 .. (EpochNum + 1)]
BundleUpdate == {u \in AnyUpdate : u.new # NoBox \/ u.old # NoBox}

\* Update i of q is about bundle id; it is the first, the last of them.
IsAbout(q, id, i) == i \in DOMAIN q /\ UpdateOf(q[i]) = id
About(q, id) == \E i \in DOMAIN q : IsAbout(q, id, i)
FirstAbout(q, id, i) == IsAbout(q, id, i) /\ \A j \in DOMAIN q : IsAbout(q, id, j) => i <= j
LastAbout(q, id, i) == IsAbout(q, id, i) /\ \A j \in DOMAIN q : IsAbout(q, id, j) => j <= i

\* With c in place of q the channel says the same about bundle id, or u more.
SameFor(q, c, id) ==
    \A k : /\ IsAbout(c, id, k) <=> IsAbout(q, id, k)
           /\ IsAbout(q, id, k) => c[k] = q[k]

OneMoreFor(q, c, id, u, k) ==
    /\ IsAbout(c, id, k) /\ c[k] = u /\ k \in Nat
    /\ \A j : IsAbout(c, id, j) <=> IsAbout(q, id, j) \/ j = k
    /\ \A j : IsAbout(q, id, j) => j < k /\ j \in Nat /\ c[j] = q[j]

LEMMA BatchFor ==
    ASSUME NEW S, NEW q \in Seq(S), NEW e \in Seq(S),
           \A i, j \in DOMAIN e : UpdateOf(e[i]) = UpdateOf(e[j]) => i = j
    PROVE  /\ \A id : ~About(e, id) => SameFor(q, q \o e, id)
           /\ \A i \in DOMAIN e : \E k : OneMoreFor(q, q \o e, UpdateOf(e[i]), e[i], k)
<1> DEFINE c == q \o e
           m == Len(q)
           n == Len(e)
<1>1. m \in Nat /\ n \in Nat /\ DOMAIN q = 1 .. m /\ DOMAIN e = 1 .. n
  BY ConcatIndex
<1>2. /\ \A i \in 1 .. m : i \in DOMAIN c /\ c[i] = q[i]
      /\ \A i \in 1 .. n : m + i \in DOMAIN c /\ c[m + i] = e[i]
      /\ \A k \in DOMAIN c : k \in 1 .. m \/ \E i \in 1 .. n : k = m + i
  BY ConcatIndex
<1> HIDE DEF c, m, n
<1>3. ASSUME NEW id, ~About(e, id)
      PROVE  SameFor(q, c, id)
  <2>1. \A i \in 1 .. n : UpdateOf(e[i]) # id
    BY <1>1, <1>3 DEF About, IsAbout
  <2>2. ASSUME NEW k \in DOMAIN c, k \notin 1 .. m
        PROVE  UpdateOf(c[k]) # id
    <3>1. PICK i \in 1 .. n : k = m + i
      BY <1>2, <2>2
    <3> QED
      BY <1>2, <2>1, <3>1
  <2>3. ASSUME NEW k
        PROVE  /\ IsAbout(c, id, k) <=> IsAbout(q, id, k)
               /\ IsAbout(q, id, k) => c[k] = q[k]
    <3>1. CASE k \in 1 .. m
      BY <1>1, <1>2, <3>1 DEF IsAbout
    <3>2. CASE k \notin 1 .. m
      BY <1>1, <2>2, <3>2 DEF IsAbout
    <3> QED
      BY <3>1, <3>2
  <2> QED
    BY <2>3 DEF SameFor
<1>4. ASSUME NEW i \in DOMAIN e
      PROVE  OneMoreFor(q, c, UpdateOf(e[i]), e[i], m + i)
  <2> DEFINE id == UpdateOf(e[i])
  <2> HIDE DEF id
  <2>1. i \in 1 .. n /\ m + i \in Nat /\ m + i \in DOMAIN c /\ c[m + i] = e[i]
    BY <1>1, <1>2, <1>4
  <2>2. \A j \in 1 .. n : UpdateOf(e[j]) = id => j = i
    BY <1>1, <1>4 DEF id
  <2>3. \A j \in 1 .. m : j < m + i /\ j \in Nat
    BY <1>1, <2>1
  <2>4. ASSUME NEW j
        PROVE  IsAbout(c, id, j) <=> IsAbout(q, id, j) \/ j = m + i
    <3>1. CASE j \in 1 .. m
      BY <1>1, <1>2, <2>3, <3>1 DEF IsAbout
    <3>2. CASE j \notin 1 .. m
      <4>1. ~IsAbout(q, id, j)
        BY <1>1, <3>2 DEF IsAbout
      <4>2. ASSUME IsAbout(c, id, j)
            PROVE  j = m + i
        <5>1. j \in DOMAIN c /\ UpdateOf(c[j]) = id
          BY <4>2 DEF IsAbout
        <5>2. PICK k \in 1 .. n : j = m + k
          BY <1>2, <3>2, <5>1
        <5> QED
          BY <1>2, <2>2, <5>1, <5>2
      <4>3. IsAbout(c, id, m + i)
        BY <2>1 DEF IsAbout, id
      <4> QED
        BY <4>1, <4>2, <4>3
    <3> QED
      BY <3>1, <3>2
  <2>5. ASSUME NEW j, IsAbout(q, id, j)
        PROVE  j < m + i /\ j \in Nat /\ c[j] = q[j]
    BY <1>1, <1>2, <2>3, <2>5 DEF IsAbout
  <2>6. IsAbout(c, id, m + i)
    BY <2>1 DEF IsAbout, id
  <2> QED
    BY <2>1, <2>4, <2>5, <2>6 DEF OneMoreFor, id
<1> QED
  BY <1>3, <1>4 DEF c

LEMMA SameForFacts ==
    ASSUME NEW q, NEW c, NEW id, SameFor(q, c, id)
    PROVE  /\ About(c, id) <=> About(q, id)
           /\ \A i : LastAbout(c, id, i) <=> LastAbout(q, id, i)
           /\ \A i : FirstAbout(c, id, i) <=> FirstAbout(q, id, i)
  BY DEF SameFor, About, IsAbout, LastAbout, FirstAbout

LEMMA OneMoreFacts ==
    ASSUME NEW q, NEW c, NEW id, NEW u, NEW k, OneMoreFor(q, c, id, u, k)
    PROVE  /\ About(c, id)
           /\ LastAbout(c, id, k)
           /\ \A i : LastAbout(c, id, i) => i = k
<1>1. IsAbout(c, id, k) /\ k \in DOMAIN c /\ k \in Nat
  BY DEF OneMoreFor, IsAbout
<1>2. \A j : IsAbout(c, id, j) => (j < k /\ j \in Nat) \/ j = k
  BY DEF OneMoreFor
<1>3. LastAbout(c, id, k)
  BY <1>1, <1>2 DEF LastAbout
<1>4. ASSUME NEW i, LastAbout(c, id, i)
      PROVE  i = k
  <2>1. k <= i /\ IsAbout(c, id, i)
    BY <1>1, <1>4 DEF LastAbout
  <2> QED
    BY <1>1, <1>2, <2>1
<1> QED
  BY <1>1, <1>3, <1>4 DEF About

LEMMA TailIndex ==
    ASSUME NEW S, NEW q \in Seq(S), q # <<>>
    PROVE  /\ Tail(q) \in Seq(S) /\ Head(q) \in S
           /\ 1 \in DOMAIN q /\ q[1] = Head(q)
           /\ \A i \in DOMAIN Tail(q) : i \in Nat \ {0} /\ i + 1 \in DOMAIN q /\ Tail(q)[i] = q[i + 1]
           /\ \A k \in DOMAIN q : k = 1 \/ \E i \in DOMAIN Tail(q) : k = i + 1
<1> DEFINE r == Tail(q)
           n == Len(q)
<1>1. /\ r \in Seq(S) /\ Head(q) \in S /\ Len(r) = n - 1
      /\ \A i \in 1 .. Len(r) : r[i] = q[i + 1]
  BY HeadTailProperties
<1>2. n \in Nat \ {0} /\ DOMAIN q = 1 .. n /\ DOMAIN r = 1 .. Len(r) /\ q[1] = Head(q)
  BY <1>1, LenProperties, EmptySeq
<1> HIDE DEF r, n
<1>3. DOMAIN r = 1 .. n - 1
  BY <1>1, <1>2
<1>4. \A i \in 1 .. n - 1 : i \in Nat \ {0} /\ i + 1 \in 1 .. n
  BY <1>2
<1>5. ASSUME NEW k \in 1 .. n, k # 1
      PROVE  \E i \in 1 .. n - 1 : k = i + 1
  <2>1. k - 1 \in 1 .. n - 1 /\ k = (k - 1) + 1
    BY <1>2, <1>5
  <2> QED
    BY <2>1
<1>6. 1 \in 1 .. n
  BY <1>2
<1> QED
  BY <1>1, <1>2, <1>3, <1>4, <1>5, <1>6 DEF r

LEMMA TailAbout ==
    ASSUME NEW S, NEW q \in Seq(S), q # <<>>, NEW id
    PROVE  /\ \A i \in DOMAIN Tail(q) : IsAbout(Tail(q), id, i) <=> IsAbout(q, id, i + 1)
           /\ \A i \in DOMAIN Tail(q) : LastAbout(Tail(q), id, i) => LastAbout(q, id, i + 1)
           /\ \A k \in DOMAIN q : LastAbout(q, id, k) /\ k # 1 =>
                 \E i \in DOMAIN Tail(q) : k = i + 1 /\ LastAbout(Tail(q), id, i)
           /\ LastAbout(q, id, 1) => ~About(Tail(q), id)
           /\ ~About(Tail(q), id) /\ UpdateOf(Head(q)) = id => LastAbout(q, id, 1)
           /\ UpdateOf(Head(q)) # id =>
                 /\ About(q, id) <=> About(Tail(q), id)
                 /\ \A i \in DOMAIN Tail(q) : FirstAbout(Tail(q), id, i) => FirstAbout(q, id, i + 1)
           /\ UpdateOf(Head(q)) = id =>
                 /\ About(q, id) /\ FirstAbout(q, id, 1)
                 /\ \A i \in DOMAIN Tail(q) : FirstAbout(Tail(q), id, i) =>
                       \A k \in DOMAIN q : IsAbout(q, id, k) => k <= 1 \/ i + 1 <= k
<1> DEFINE r == Tail(q)
<1>1. /\ 1 \in DOMAIN q /\ q[1] = Head(q)
      /\ \A i \in DOMAIN r : i \in Nat \ {0} /\ i + 1 \in DOMAIN q /\ r[i] = q[i + 1]
      /\ \A k \in DOMAIN q : k = 1 \/ \E i \in DOMAIN r : k = i + 1
  BY TailIndex
<1> HIDE DEF r
<1>2. \A i \in DOMAIN r : IsAbout(r, id, i) <=> IsAbout(q, id, i + 1)
  BY <1>1 DEF IsAbout
<1>3. ASSUME NEW i \in DOMAIN r, LastAbout(r, id, i)
      PROVE  LastAbout(q, id, i + 1)
  <2>1. IsAbout(q, id, i + 1) /\ \A j \in DOMAIN r : IsAbout(r, id, j) => j <= i
    BY <1>2, <1>3 DEF LastAbout
  <2>2. ASSUME NEW k \in DOMAIN q, IsAbout(q, id, k)
        PROVE  k <= i + 1
    <3>1. CASE k = 1
      BY <1>1, <3>1
    <3>2. ASSUME NEW j \in DOMAIN r, k = j + 1
          PROVE  k <= i + 1
      <4>1. j <= i
        BY <1>2, <2>1, <2>2, <3>2
      <4> QED
        BY <1>1, <3>2, <4>1
    <3> QED
      BY <1>1, <3>1, <3>2
  <2> QED
    BY <2>1, <2>2 DEF LastAbout
<1>4. ASSUME NEW k \in DOMAIN q, LastAbout(q, id, k), k # 1
      PROVE  \E i \in DOMAIN r : k = i + 1 /\ LastAbout(r, id, i)
  <2>1. PICK i \in DOMAIN r : k = i + 1
    BY <1>1, <1>4
  <2>2. IsAbout(r, id, i)
    BY <1>2, <1>4, <2>1 DEF LastAbout
  <2>3. ASSUME NEW j \in DOMAIN r, IsAbout(r, id, j)
        PROVE  j <= i
    <3>1. j + 1 <= i + 1
      BY <1>1, <1>2, <1>4, <2>1, <2>3 DEF LastAbout
    <3> QED
      BY <1>1, <3>1
  <2> QED
    BY <2>1, <2>2, <2>3 DEF LastAbout
<1>5. LastAbout(q, id, 1) => ~About(r, id)
  <2>1. \A i \in DOMAIN r : ~(i + 1 <= 1)
    BY <1>1
  <2> QED
    BY <1>1, <1>2, <2>1 DEF LastAbout, About
<1>6. ~About(r, id) /\ UpdateOf(Head(q)) = id => LastAbout(q, id, 1)
  <2>1. 1 <= 1
    OBVIOUS
  <2>2. ~About(r, id) => \A k \in DOMAIN q : IsAbout(q, id, k) => k = 1
    BY <1>1, <1>2 DEF About
  <2> QED
    BY <1>1, <2>1, <2>2 DEF LastAbout, IsAbout
<1>7. UpdateOf(Head(q)) # id => (About(q, id) <=> About(r, id))
  <2>1. UpdateOf(Head(q)) # id => ~IsAbout(q, id, 1)
    BY <1>1 DEF IsAbout
  <2> QED
    BY <1>1, <1>2, <2>1 DEF About
<1>8. ASSUME UpdateOf(Head(q)) # id, NEW i \in DOMAIN r, FirstAbout(r, id, i)
      PROVE  FirstAbout(q, id, i + 1)
  <2>1. ~IsAbout(q, id, 1)
    BY <1>1, <1>8 DEF IsAbout
  <2>2. ASSUME NEW k \in DOMAIN q, IsAbout(q, id, k)
        PROVE  i + 1 <= k
    <3>1. PICK j \in DOMAIN r : k = j + 1
      BY <1>1, <2>1, <2>2
    <3>2. i <= j
      BY <1>2, <1>8, <2>2, <3>1 DEF FirstAbout
    <3> QED
      BY <1>1, <3>1, <3>2
  <2> QED
    BY <1>2, <1>8, <2>2 DEF FirstAbout
<1>9. UpdateOf(Head(q)) = id => About(q, id) /\ FirstAbout(q, id, 1)
  <2>1. \A k \in DOMAIN q : 1 <= k
    BY <1>1
  <2> QED
    BY <1>1, <2>1 DEF About, FirstAbout, IsAbout
<1>10. ASSUME NEW i \in DOMAIN r, FirstAbout(r, id, i), NEW k \in DOMAIN q, IsAbout(q, id, k), k # 1
       PROVE  i + 1 <= k
  <2>1. PICK j \in DOMAIN r : k = j + 1
    BY <1>1, <1>10
  <2>2. i <= j
    BY <1>2, <1>10, <2>1 DEF FirstAbout
  <2> QED
    BY <1>1, <2>1, <2>2
<1>11. \A i \in DOMAIN r : FirstAbout(r, id, i) =>
          \A k \in DOMAIN q : IsAbout(q, id, k) => k <= 1 \/ i + 1 <= k
  BY <1>10
<1> QED
  BY <1>2, <1>3, <1>4, <1>5, <1>6, <1>7, <1>8, <1>9, <1>11 DEF r
-----------------------------------------------------------------------------
(***************************************************************************)
(* The updates that the handler sends.                                     *)
(***************************************************************************)
LEMMA OneOfFacts ==
    ASSUME NEW boxes, NEW id
    PROVE  /\ (\E s \in boxes : BundleOf[s] = id) =>
                 OneOf(boxes, id) \in boxes /\ BundleOf[OneOf(boxes, id)] = id
           /\ (\A s \in boxes : BundleOf[s] # id) => OneOf(boxes, id) = NoBox
  BY DEF OneOf

\* u is what the handler sends for bundle id when t is applied, or undone.
Announces(u, t, id) ==
    /\ u \in BundleUpdate /\ UpdateOf(u) = id /\ u.undo = FALSE
    /\ u.new # NoBox => u.new \in Made(t) /\ BundleOf[u.new] = id /\ u.ix = LowerEpochIx(u.new)
    /\ u.new = NoBox => /\ u.old \in Consumed(t) /\ BundleOf[u.old] = id /\ u.ix = states[u.old]
                        /\ \A s \in Made(t) : BundleOf[s] # id

TakesBack(u, t, id) ==
    /\ u \in BundleUpdate /\ UpdateOf(u) = id /\ u.undo = TRUE
    /\ u.new # NoBox => u.new \in Consumed(t) /\ BundleOf[u.new] = id
    /\ u.new = NoBox => /\ u.old \in Made(t) /\ BundleOf[u.old] = id
                        /\ \A s \in Consumed(t) : BundleOf[s] # id

LEMMA IxRange ==
    ASSUME NEW s \in BundleBoxes
    PROVE  LowerEpochIx(s) \in 1 .. (EpochNum + 1)
<1>1. EpochNum \in Nat \ {0} /\ EpochsLeft[s] \in 0 .. EpochNum
  BY BundleFacts
<1> QED
  BY <1>1 DEF LowerEpochIx, INIT_EPOCH_IX

LEMMA UpdateFacts ==
    ASSUME BundlesTypeOK, NEW t \in Txs, NEW id,
           \E s \in Consumed(t) \cup Made(t) : BundleOf[s] = id
    PROVE  /\ Announces(StateUpdate(t, id, FALSE), t, id)
           /\ TakesBack(StateUpdate(t, id, TRUE), t, id)
<1> DEFINE c == OneOf(Consumed(t), id)
           m == OneOf(Made(t), id)
           u == StateUpdate(t, id, FALSE)
           v == StateUpdate(t, id, TRUE)
<1>1. /\ (\E s \in Consumed(t) : BundleOf[s] = id) => c \in Consumed(t) /\ BundleOf[c] = id
      /\ (\A s \in Consumed(t) : BundleOf[s] # id) => c = NoBox
  BY OneOfFacts
<1>2. /\ (\E s \in Made(t) : BundleOf[s] = id) => m \in Made(t) /\ BundleOf[m] = id
      /\ (\A s \in Made(t) : BundleOf[s] # id) => m = NoBox
  BY OneOfFacts
<1>3. /\ \A s \in Consumed(t) : s \in BundleBoxes /\ s \in DOMAIN states
      /\ \A s \in Made(t) : s \in BundleBoxes
  BY DEF BundlesTypeOK, Consumed, Made
<1>4. \A s \in BundleBoxes : s # NoBox /\ LowerEpochIx(s) \in 1 .. (EpochNum + 1)
  BY BundleFacts, IxRange
<1>5. \A s \in DOMAIN states : states[s] \in 1 .. (EpochNum + 1)
  BY DEF BundlesTypeOK
<1>6. /\ u = [undo |-> FALSE, old |-> c, new |-> m,
              ix |-> IF m = NoBox THEN (IF c = m THEN LowerEpochIx(c) ELSE states[c])
                     ELSE LowerEpochIx(m)]
      /\ v = [undo |-> TRUE, old |-> m, new |-> c,
              ix |-> IF c = NoBox THEN LowerEpochIx(m)
                     ELSE (IF c = m THEN LowerEpochIx(c) ELSE states[c])]
  BY DEF StateUpdate
<1>7. /\ c # NoBox => c \in Consumed(t) /\ BundleOf[c] = id
      /\ m # NoBox => m \in Made(t) /\ BundleOf[m] = id
      /\ c # NoBox \/ m # NoBox
      /\ c \in Maybe /\ m \in Maybe
  BY <1>1, <1>2, <1>3, <1>4 DEF Maybe
<1> HIDE DEF c, m, u, v
<1>8. Announces(u, t, id)
  <2>1. u.undo = FALSE /\ u.old = c /\ u.new = m
    BY <1>6
  <2>2. m # NoBox => u.ix = LowerEpochIx(m)
    BY <1>6
  <2>3. m = NoBox => u.ix = states[c] /\ c # NoBox
    BY <1>6, <1>7
  <2>4. u.ix \in 1 .. (EpochNum + 1)
    BY <1>3, <1>4, <1>5, <1>7, <2>2, <2>3
  <2>5. u = [undo |-> u.undo, old |-> u.old, new |-> u.new, ix |-> u.ix]
    BY <1>6
  <2>6. u \in BundleUpdate
    BY <1>7, <2>1, <2>4, <2>5 DEF BundleUpdate, AnyUpdate
  <2>7. UpdateOf(u) = id
    BY <1>7, <2>1 DEF UpdateOf
  <2>8. m = NoBox => \A s \in Made(t) : BundleOf[s] # id
    BY <1>2, <1>3, <1>4
  <2> QED
    BY <1>7, <2>1, <2>2, <2>3, <2>6, <2>7, <2>8 DEF Announces
<1>9. TakesBack(v, t, id)
  <2>1. v.undo = TRUE /\ v.old = m /\ v.new = c
    BY <1>6
  <2>2. v.ix \in 1 .. (EpochNum + 1)
    BY <1>3, <1>4, <1>5, <1>6, <1>7
  <2>3. v = [undo |-> v.undo, old |-> v.old, new |-> v.new, ix |-> v.ix]
    BY <1>6
  <2>4. v \in BundleUpdate
    BY <1>7, <2>1, <2>2, <2>3 DEF BundleUpdate, AnyUpdate
  <2>5. UpdateOf(v) = id
    BY <1>7, <2>1 DEF UpdateOf
  <2>6. c = NoBox => \A s \in Consumed(t) : BundleOf[s] # id
    BY <1>1, <1>3, <1>4
  <2> QED
    BY <1>7, <2>1, <2>4, <2>5, <2>6 DEF TakesBack
<1> QED
  BY <1>8, <1>9 DEF u, v

\* The updates e of t, in any order: one for each bundle it has a state of.
Batch(e, t, undo) ==
    /\ e \in Seq(BundleUpdate)
    /\ \A i, j \in DOMAIN e : UpdateOf(e[i]) = UpdateOf(e[j]) => i = j
    /\ \A i \in DOMAIN e : \E s \in Consumed(t) \cup Made(t) :
          UpdateOf(e[i]) = BundleOf[s] /\ e[i] = StateUpdate(t, BundleOf[s], undo)
    /\ \A s \in Consumed(t) \cup Made(t) : \E i \in DOMAIN e : UpdateOf(e[i]) = BundleOf[s]

LEMMA BatchFacts ==
    ASSUME BundlesTypeOK, NEW t \in Txs, NEW undo \in BOOLEAN,
           NEW e \in SetToSeqs(StateUpdates(t, undo))
    PROVE  Batch(e, t, undo)
<1> DEFINE B == Consumed(t) \cup Made(t)
           U == StateUpdates(t, undo)
           n == Cardinality(U)
           f == [s \in B |-> StateUpdate(t, BundleOf[s], undo)]
<1>1. U = {StateUpdate(t, BundleOf[s], undo) : s \in B}
  BY DEF StateUpdates
<1>2. IsFiniteSet(U)
  <2>1. IsFiniteSet(Inputs[t] \cup Outputs[t])
    BY FeedFacts
  <2>2. B \subseteq Inputs[t] \cup Outputs[t]
    BY DEF Consumed, Made
  <2>3. IsFiniteSet(B)
    BY <2>1, <2>2, FS_Subset
  <2> HIDE DEF U, B
  <2>4. f \in Surjection(B, U)
    BY <1>1 DEF Surjection
  <2> HIDE DEF f
  <2> QED
    BY <2>3, <2>4, FS_Surjection
<1>3. n \in Nat
  <2> HIDE DEF U
  <2> QED
    BY <1>2, FS_CardinalityType
<1>4. e \in [1 .. n -> U] /\ \A i, j \in 1 .. n : i # j => e[i] # e[j]
  <2> HIDE DEF U
  <2> QED
    BY DEF SetToSeqs, U
<1> HIDE DEF U, n
<1>5. e \in Surjection(1 .. n, U)
  <2>1. e \in Injection(1 .. n, U)
    BY <1>4 DEF Injection, IsInjective
  <2>2. Cardinality(1 .. n) = Cardinality(U)
    BY <1>3, FS_Interval DEF n
  <2> QED
    BY <1>2, <2>1, <2>2, FS_Injection
<1>6. \A s \in B : \E i \in 1 .. n : e[i] = StateUpdate(t, BundleOf[s], undo)
  BY <1>1, <1>5 DEF Surjection
<1>7. \A i \in 1 .. n : \E s \in B : e[i] = StateUpdate(t, BundleOf[s], undo)
  BY <1>1, <1>4
<1>8. \A s \in B : /\ StateUpdate(t, BundleOf[s], undo) \in BundleUpdate
                   /\ UpdateOf(StateUpdate(t, BundleOf[s], undo)) = BundleOf[s]
  <2> SUFFICES ASSUME NEW s \in B
               PROVE  /\ StateUpdate(t, BundleOf[s], undo) \in BundleUpdate
                      /\ UpdateOf(StateUpdate(t, BundleOf[s], undo)) = BundleOf[s]
    OBVIOUS
  <2>1. PICK id : id = BundleOf[s]
    OBVIOUS
  <2>2. /\ Announces(StateUpdate(t, id, FALSE), t, id)
        /\ TakesBack(StateUpdate(t, id, TRUE), t, id)
    BY <2>1, UpdateFacts
  <2>3. CASE undo = FALSE
    BY <2>1, <2>2, <2>3 DEF Announces
  <2>4. CASE undo = TRUE
    BY <2>1, <2>2, <2>4 DEF TakesBack
  <2> QED
    BY <2>3, <2>4
<1> HIDE DEF B
<1>9. DOMAIN e = 1 .. n
  BY <1>4
<1>10. \A i \in 1 .. n : e[i] \in BundleUpdate
  BY <1>7, <1>8
<1>11. e \in Seq(BundleUpdate)
  <2>1. e \in [1 .. n -> BundleUpdate]
    BY <1>4, <1>10
  <2> QED
    BY <1>3, <2>1
<1>12. ASSUME NEW i \in 1 .. n, NEW j \in 1 .. n, UpdateOf(e[i]) = UpdateOf(e[j])
       PROVE  i = j
  <2>1. PICK r \in B : e[i] = StateUpdate(t, BundleOf[r], undo)
    BY <1>7
  <2>2. PICK s \in B : e[j] = StateUpdate(t, BundleOf[s], undo)
    BY <1>7
  <2>3. BundleOf[r] = BundleOf[s]
    BY <1>8, <1>12, <2>1, <2>2
  <2> QED
    BY <1>4, <2>1, <2>2, <2>3
<1>13. \A i \in 1 .. n : \E s \in B :
          UpdateOf(e[i]) = BundleOf[s] /\ e[i] = StateUpdate(t, BundleOf[s], undo)
  BY <1>7, <1>8
<1>14. \A s \in B : \E i \in 1 .. n : UpdateOf(e[i]) = BundleOf[s]
  BY <1>6, <1>8
<1> QED
  BY <1>9, <1>11, <1>12, <1>13, <1>14 DEF Batch, B

\* What the two events do to the channel.
LEMMA AppliedChannel ==
    ASSUME BundlesTypeOK, bundleQueue \in Seq(BundleUpdate), NEW t \in Txs, HandleBundlesApplied(t)
    PROVE  /\ bundleQueue' \in Seq(BundleUpdate)
           /\ \A id : (\A s \in Consumed(t) \cup Made(t) : BundleOf[s] # id) =>
                 SameFor(bundleQueue, bundleQueue', id)
           /\ \A s \in Consumed(t) \cup Made(t) : \E u, k :
                 /\ Announces(u, t, BundleOf[s])
                 /\ OneMoreFor(bundleQueue, bundleQueue', BundleOf[s], u, k)
<1>1. PICK e \in SetToSeqs(StateUpdates(t, FALSE)) : bundleQueue' = bundleQueue \o e
  BY DEF HandleBundlesApplied, SendUpdates
<1>2. Batch(e, t, FALSE)
  BY <1>1, BatchFacts
<1>3. e \in Seq(BundleUpdate) /\ bundleQueue' \in Seq(BundleUpdate)
  BY <1>1, <1>2, ConcatProperties DEF Batch
<1>4. /\ \A id : ~About(e, id) => SameFor(bundleQueue, bundleQueue', id)
      /\ \A i \in DOMAIN e : \E k : OneMoreFor(bundleQueue, bundleQueue', UpdateOf(e[i]), e[i], k)
  BY <1>1, <1>2, <1>3, BatchFor DEF Batch
<1>5. ASSUME NEW id, \A s \in Consumed(t) \cup Made(t) : BundleOf[s] # id
      PROVE  ~About(e, id)
  <2>1. \A i \in DOMAIN e : UpdateOf(e[i]) # id
    <3> SUFFICES ASSUME NEW i \in DOMAIN e
                 PROVE  UpdateOf(e[i]) # id
      OBVIOUS
    <3>1. PICK s \in Consumed(t) \cup Made(t) : UpdateOf(e[i]) = BundleOf[s]
      BY <1>2 DEF Batch
    <3> QED
      BY <1>5, <3>1
  <2> QED
    BY <2>1 DEF About, IsAbout
<1>6. ASSUME NEW s \in Consumed(t) \cup Made(t)
      PROVE  \E u, k : /\ Announces(u, t, BundleOf[s])
                       /\ OneMoreFor(bundleQueue, bundleQueue', BundleOf[s], u, k)
  <2>1. PICK i \in DOMAIN e : UpdateOf(e[i]) = BundleOf[s]
    BY <1>2 DEF Batch
  <2>2. e[i] = StateUpdate(t, BundleOf[s], FALSE)
    <3>1. PICK r \in Consumed(t) \cup Made(t) :
             UpdateOf(e[i]) = BundleOf[r] /\ e[i] = StateUpdate(t, BundleOf[r], FALSE)
      BY <1>2, <2>1 DEF Batch
    <3>2. PICK id : id = BundleOf[r]
      OBVIOUS
    <3>3. id = BundleOf[s]
      BY ONLY <2>1, <3>1, <3>2
    <3> QED
      BY ONLY <3>1, <3>2, <3>3
  <2>3. PICK id : id = BundleOf[s]
    OBVIOUS
  <2>4. Announces(StateUpdate(t, id, FALSE), t, id)
    BY <2>3, UpdateFacts
  <2> QED
    BY <1>4, <2>1, <2>2, <2>3, <2>4
<1> QED
  BY <1>3, <1>4, <1>5, <1>6

LEMMA UnappliedChannel ==
    ASSUME BundlesTypeOK, bundleQueue \in Seq(BundleUpdate), NEW t \in Txs, HandleBundlesUnapplied(t)
    PROVE  /\ bundleQueue' \in Seq(BundleUpdate)
           /\ \A id : (\A s \in Consumed(t) \cup Made(t) : BundleOf[s] # id) =>
                 SameFor(bundleQueue, bundleQueue', id)
           /\ \A s \in Consumed(t) \cup Made(t) : \E u, k :
                 /\ TakesBack(u, t, BundleOf[s])
                 /\ OneMoreFor(bundleQueue, bundleQueue', BundleOf[s], u, k)
<1>1. PICK e \in SetToSeqs(StateUpdates(t, TRUE)) : bundleQueue' = bundleQueue \o e
  BY DEF HandleBundlesUnapplied, SendUpdates
<1>2. Batch(e, t, TRUE)
  BY <1>1, BatchFacts
<1>3. e \in Seq(BundleUpdate) /\ bundleQueue' \in Seq(BundleUpdate)
  BY <1>1, <1>2, ConcatProperties DEF Batch
<1>4. /\ \A id : ~About(e, id) => SameFor(bundleQueue, bundleQueue', id)
      /\ \A i \in DOMAIN e : \E k : OneMoreFor(bundleQueue, bundleQueue', UpdateOf(e[i]), e[i], k)
  BY <1>1, <1>2, <1>3, BatchFor DEF Batch
<1>5. ASSUME NEW id, \A s \in Consumed(t) \cup Made(t) : BundleOf[s] # id
      PROVE  ~About(e, id)
  <2>1. \A i \in DOMAIN e : UpdateOf(e[i]) # id
    <3> SUFFICES ASSUME NEW i \in DOMAIN e
                 PROVE  UpdateOf(e[i]) # id
      OBVIOUS
    <3>1. PICK s \in Consumed(t) \cup Made(t) : UpdateOf(e[i]) = BundleOf[s]
      BY <1>2 DEF Batch
    <3> QED
      BY <1>5, <3>1
  <2> QED
    BY <2>1 DEF About, IsAbout
<1>6. ASSUME NEW s \in Consumed(t) \cup Made(t)
      PROVE  \E u, k : /\ TakesBack(u, t, BundleOf[s])
                       /\ OneMoreFor(bundleQueue, bundleQueue', BundleOf[s], u, k)
  <2>1. PICK i \in DOMAIN e : UpdateOf(e[i]) = BundleOf[s]
    BY <1>2 DEF Batch
  <2>2. e[i] = StateUpdate(t, BundleOf[s], TRUE)
    <3>1. PICK r \in Consumed(t) \cup Made(t) :
             UpdateOf(e[i]) = BundleOf[r] /\ e[i] = StateUpdate(t, BundleOf[r], TRUE)
      BY <1>2, <2>1 DEF Batch
    <3>2. PICK id : id = BundleOf[r]
      OBVIOUS
    <3>3. id = BundleOf[s]
      BY ONLY <2>1, <3>1, <3>2
    <3> QED
      BY ONLY <3>1, <3>2, <3>3
  <2>3. PICK id : id = BundleOf[s]
    OBVIOUS
  <2>4. TakesBack(StateUpdate(t, id, TRUE), t, id)
    BY <2>3, UpdateFacts
  <2> QED
    BY <1>4, <2>1, <2>2, <2>3, <2>4
<1> QED
  BY <1>3, <1>4, <1>5, <1>6
-----------------------------------------------------------------------------
(***************************************************************************)
(* The repository knows the bundles of the ledger, or will know them.      *)
(***************************************************************************)
Known(s) ==
    /\ BundleOf[s] \in DOMAIN lastConf
    /\ lastConf[BundleOf[s]] = s
    /\ s \in DOMAIN states
    /\ <<states[s], BundleOf[s]>> \in epochKeys

\* s is the confirmed state of its bundle when the channel is empty: the last
\* update of the bundle puts it, or there is none and it is known already.
WillKnow(s) ==
    \/ ~About(bundleQueue, BundleOf[s]) /\ Known(s)
    \/ \E i \in DOMAIN bundleQueue :
          LastAbout(bundleQueue, BundleOf[s], i) /\ bundleQueue[i].new = s

StakesInv ==
    /\ BundlesTypeOK
    /\ bundleQueue \in Seq(BundleUpdate)
    /\ resolving.phase # "idle" => resolving.conf # NoBox
    /\ resolving.phase = "resolved" => resolving.pred # NoBox
    /\ StakesChain
    /\ unsure \subseteq touched
    /\ \A s \in BundleBoxes : LiveState(s) /\ BundleOf[s] \notin unsure => WillKnow(s)

\* A step that leaves the ledger alone and tells the stream nothing.
LEMMA SameStakes ==
    ASSUME StakesChain, chain' = chain
    PROVE  StakesChain' /\ Unspent' = Unspent /\ Created' = Created
  BY DEF StakesChain, ChainInv, LiveAfter, Unspent, Spent, Created

\* What is said about a bundle stays true when a step does not concern it.
LEMMA StillKnown ==
    ASSUME NEW s, SameFor(bundleQueue, bundleQueue', BundleOf[s]),
           Known(s) => Known(s)', WillKnow(s)
    PROVE  WillKnow(s)'
<1>1. PICK id : id = BundleOf[s]
  OBVIOUS
<1>2. /\ About(bundleQueue', id) <=> About(bundleQueue, id)
      /\ \A i : LastAbout(bundleQueue', id, i) <=> LastAbout(bundleQueue, id, i)
  BY <1>1, SameForFacts
<1>3. \A i : LastAbout(bundleQueue, id, i) =>
         i \in DOMAIN bundleQueue' /\ bundleQueue'[i] = bundleQueue[i]
  BY <1>1 DEF SameFor, LastAbout, IsAbout
<1> QED
  BY <1>1, <1>2, <1>3 DEF WillKnow

LEMMA NextPut ==
    ASSUME NEW s, NEW k, NEW u, OneMoreFor(bundleQueue, bundleQueue', BundleOf[s], u, k), u.new = s
    PROVE  WillKnow(s)'
<1>1. /\ LastAbout(bundleQueue', BundleOf[s], k) /\ bundleQueue'[k] = u
      /\ k \in DOMAIN bundleQueue'
  BY OneMoreFacts DEF OneMoreFor, IsAbout
<1> QED
  BY <1>1 DEF WillKnow

LEMMA QueueType ==
    ASSUME NEW q \in Seq(BundleUpdate)
    PROVE  q \in Seq(AnyUpdate)
<1>1. BundleUpdate \subseteq AnyUpdate
  BY DEF BundleUpdate
<1> QED
  BY ONLY <1>1, q \in Seq(BundleUpdate), SeqMonotonic

LEMMA StakesApplied ==
    ASSUME StakesInv, NEW t \in Txs, HandleBundlesApplied(t)
    PROVE  StakesInv'
<1>1. /\ AppliedTx(t) /\ UNCHANGED <<bundleRepo, resolving>>
      /\ programKnown' = (programKnown \/ Outputs[t] \cap PoolBoxes # {})
      /\ unsure' = (unsure \ {BundleOf[s] : s \in Made(t)})
                     \cup {id \in Overlooked(t) : \A s \in Made(t) : BundleOf[s] # id}
      /\ touched' = touched \cup unsure' \cup SkipsEpoch(t)
  BY DEF HandleBundlesApplied, StoreProgram
<1>2. /\ StakesChain' /\ Inputs[t] \subseteq Unspent
      /\ Unspent' = (Unspent \ Inputs[t]) \cup Outputs[t]
  BY <1>1, AppliedStakes DEF StakesInv
<1>3. /\ bundleQueue' \in Seq(BundleUpdate)
      /\ \A id : (\A s \in Consumed(t) \cup Made(t) : BundleOf[s] # id) =>
            SameFor(bundleQueue, bundleQueue', id)
      /\ \A s \in Consumed(t) \cup Made(t) : \E u, k :
            /\ Announces(u, t, BundleOf[s])
            /\ OneMoreFor(bundleQueue, bundleQueue', BundleOf[s], u, k)
  BY AppliedChannel DEF StakesInv
<1>4. BundlesTypeOK'
  <2>1. bundleQueue' \in Seq(AnyUpdate)
    BY <1>3, QueueType
  <2> QED
    BY <1>1, <2>1 DEF StakesInv, BundlesTypeOK, bundleRepo, AnyUpdate
<1>5. ASSUME NEW s \in BundleBoxes, LiveState(s)', BundleOf[s] \notin unsure'
      PROVE  WillKnow(s)'
  <2>1. CASE s \in Outputs[t]
    <3>1. s \in Made(t)
      BY <2>1 DEF Made
    <3>2. PICK u, k : /\ Announces(u, t, BundleOf[s])
                      /\ OneMoreFor(bundleQueue, bundleQueue', BundleOf[s], u, k)
      BY <1>3, <3>1
    <3>3. u.new \in Made(t) /\ BundleOf[u.new] = BundleOf[s]
      BY <3>1, <3>2 DEF Announces
    <3>4. u.new = s
      BY <2>1, <3>3, BundleFacts DEF Made
    <3> QED
      BY <3>2, <3>4, NextPut
  <2>2. CASE s \notin Outputs[t]
    <3>1. LiveState(s) /\ s \notin Inputs[t]
      BY <1>2, <1>5, <2>2 DEF LiveState
    <3>2. \A m \in Made(t) : BundleOf[m] # BundleOf[s]
      <4> SUFFICES ASSUME NEW m \in Made(t), BundleOf[m] = BundleOf[s]
                   PROVE  FALSE
        OBVIOUS
      <4>1. m \in BundleBoxes /\ m \in Outputs[t] /\ LiveState(m)'
        BY <1>2 DEF Made, LiveState
      <4>2. StakesChain' /\ LiveState(m)' /\ LiveState(s)' => m = s
        BY <4>1, OneLiveNext DEF OneStateEach
      <4> QED
        BY <1>2, <1>5, <2>2, <4>1, <4>2
    <3>3. \A r \in Consumed(t) : BundleOf[r] # BundleOf[s]
      <4> SUFFICES ASSUME NEW r \in Consumed(t), BundleOf[r] = BundleOf[s]
                   PROVE  FALSE
        OBVIOUS
      <4>1. r \in BundleBoxes /\ r \in Inputs[t] /\ LiveState(r)
        BY <1>2 DEF Consumed, LiveState, StakesInv, BundlesTypeOK
      <4> QED
        BY <3>1, <4>1, OneLive DEF StakesInv
    <3>4. SameFor(bundleQueue, bundleQueue', BundleOf[s])
      BY <1>3, <3>2, <3>3
    <3>5. WillKnow(s)
      BY <1>1, <1>5, <3>1, <3>2 DEF StakesInv
    <3>6. Known(s) => Known(s)'
      BY <1>1 DEF Known, bundleRepo
    <3> QED
      BY <3>4, <3>5, <3>6, StillKnown
  <2> QED
    BY <2>1, <2>2
<1>6. unsure' \subseteq touched'
  BY <1>1
<1> QED
  BY <1>1, <1>2, <1>3, <1>4, <1>5, <1>6 DEF StakesInv

LEMMA StakesUnapplied ==
    ASSUME StakesInv, NEW t \in Txs, HandleBundlesUnapplied(t)
    PROVE  StakesInv'
<1>1. /\ UnappliedTx(t) /\ UNCHANGED <<bundleRepo, programKnown, resolving>>
      /\ unsure' = unsure \cup Overlooked(t)
      /\ touched' = touched \cup {BundleOf[s] : s \in (Inputs[t] \cup Outputs[t]) \cap BundleBoxes}
  BY DEF HandleBundlesUnapplied
<1>2. /\ StakesChain'
      /\ Outputs[t] \subseteq Unspent
      /\ Inputs[t] \subseteq Unspent'
      /\ Unspent' \subseteq (Unspent \ Outputs[t]) \cup Inputs[t]
  BY <1>1, UnappliedStakes DEF StakesInv
<1>3. /\ bundleQueue' \in Seq(BundleUpdate)
      /\ \A id : (\A s \in Consumed(t) \cup Made(t) : BundleOf[s] # id) =>
            SameFor(bundleQueue, bundleQueue', id)
      /\ \A s \in Consumed(t) \cup Made(t) : \E u, k :
            /\ TakesBack(u, t, BundleOf[s])
            /\ OneMoreFor(bundleQueue, bundleQueue', BundleOf[s], u, k)
  BY UnappliedChannel DEF StakesInv
<1>4. BundlesTypeOK'
  <2>1. bundleQueue' \in Seq(AnyUpdate)
    BY <1>3, QueueType
  <2> QED
    BY <1>1, <2>1 DEF StakesInv, BundlesTypeOK, bundleRepo, AnyUpdate
<1>5. ASSUME NEW s \in BundleBoxes, LiveState(s)', BundleOf[s] \notin unsure'
      PROVE  WillKnow(s)'
  <2>1. CASE s \in Inputs[t]
    <3>1. s \in Consumed(t)
      BY <1>1, <1>5, <2>1 DEF Consumed, Overlooked
    <3>2. PICK u, k : /\ TakesBack(u, t, BundleOf[s])
                      /\ OneMoreFor(bundleQueue, bundleQueue', BundleOf[s], u, k)
      BY <1>3, <3>1
    <3>3. u.new \in Consumed(t) /\ BundleOf[u.new] = BundleOf[s]
      BY <3>1, <3>2 DEF TakesBack
    <3>4. u.new = s
      BY <2>1, <3>3, BundleFacts DEF Consumed, StakesInv, BundlesTypeOK
    <3> QED
      BY <3>2, <3>4, NextPut
  <2>2. CASE s \notin Inputs[t]
    <3>1. LiveState(s) /\ s \notin Outputs[t]
      BY <1>2, <1>5, <2>2 DEF LiveState
    <3>2. \A m \in Made(t) : BundleOf[m] # BundleOf[s]
      <4> SUFFICES ASSUME NEW m \in Made(t), BundleOf[m] = BundleOf[s]
                   PROVE  FALSE
        OBVIOUS
      <4>1. m \in BundleBoxes /\ m \in Outputs[t] /\ LiveState(m)
        BY <1>2 DEF Made, LiveState
      <4> QED
        BY <3>1, <4>1, OneLive DEF StakesInv
    <3>3. \A r \in Consumed(t) : BundleOf[r] # BundleOf[s]
      <4> SUFFICES ASSUME NEW r \in Consumed(t), BundleOf[r] = BundleOf[s]
                   PROVE  FALSE
        OBVIOUS
      <4>1. r \in BundleBoxes /\ r \in Inputs[t] /\ LiveState(r)'
        BY <1>2 DEF Consumed, LiveState, StakesInv, BundlesTypeOK
      <4>2. StakesChain' /\ LiveState(r)' /\ LiveState(s)' => r = s
        BY <4>1, OneLiveNext DEF OneStateEach
      <4> QED
        BY <1>2, <1>5, <2>2, <4>1, <4>2
    <3>4. SameFor(bundleQueue, bundleQueue', BundleOf[s])
      BY <1>3, <3>2, <3>3
    <3>5. WillKnow(s)
      BY <1>1, <1>5, <3>1 DEF StakesInv
    <3>6. Known(s) => Known(s)'
      BY <1>1 DEF Known, bundleRepo
    <3> QED
      BY <3>4, <3>5, <3>6, StillKnown
  <2> QED
    BY <2>1, <2>2
<1>6. unsure' \subseteq touched'
  BY <1>1 DEF StakesInv, Overlooked
<1> QED
  BY <1>1, <1>2, <1>3, <1>4, <1>5, <1>6 DEF StakesInv

\* The operations of the repository keep its types.
RepoOK ==
    /\ DOMAIN states \subseteq BundleBoxes
    /\ states \in [DOMAIN states -> 1 .. (EpochNum + 1)]
    /\ DOMAIN lastConf \subseteq BundleIds
    /\ \A id \in DOMAIN lastConf : lastConf[id] \in BundleBoxes /\ BundleOf[lastConf[id]] = id
    /\ DOMAIN lastPred \subseteq BundleIds
    /\ \A id \in DOMAIN lastPred : lastPred[id] \in BundleBoxes /\ BundleOf[lastPred[id]] = id
    /\ link \in [DOMAIN link -> BundleBoxes]
    /\ epochKeys \subseteq (1 .. (EpochNum + 1)) \X BundleIds

LEMMA PutConfirmedType ==
    ASSUME RepoOK, NEW s \in BundleBoxes, NEW ix \in 1 .. (EpochNum + 1), PutConfirmed(s, ix)
    PROVE  RepoOK'
<1>1. BundleOf[s] \in BundleIds
  BY BundleFacts
<1>2. DOMAIN states' = DOMAIN states \cup {s} /\ states' \in [DOMAIN states' -> 1 .. (EpochNum + 1)]
  BY DEF RepoOK, PutConfirmed, With
<1>3. /\ DOMAIN lastConf' = DOMAIN lastConf \cup {BundleOf[s]}
      /\ \A id \in DOMAIN lastConf' : lastConf'[id] \in BundleBoxes /\ BundleOf[lastConf'[id]] = id
  BY DEF RepoOK, PutConfirmed, With
<1>4. epochKeys' \subseteq (1 .. (EpochNum + 1)) \X BundleIds
  BY <1>1 DEF RepoOK, PutConfirmed, EpochKeysAfter
<1>5. UNCHANGED <<lastPred, link>>
  BY DEF PutConfirmed
<1> QED
  BY <1>1, <1>2, <1>3, <1>4, <1>5 DEF RepoOK

LEMMA PutPredictedType ==
    ASSUME RepoOK, NEW s \in BundleBoxes, NEW ix \in 1 .. (EpochNum + 1), NEW prev \in Maybe,
           PutPredicted(s, ix, prev)
    PROVE  RepoOK'
<1>1. BundleOf[s] \in BundleIds
  BY BundleFacts
<1>2. DOMAIN states' = DOMAIN states \cup {s} /\ states' \in [DOMAIN states' -> 1 .. (EpochNum + 1)]
  BY DEF RepoOK, PutPredicted, With
<1>3. /\ DOMAIN lastPred' = DOMAIN lastPred \cup {BundleOf[s]}
      /\ \A id \in DOMAIN lastPred' : lastPred'[id] \in BundleBoxes /\ BundleOf[lastPred'[id]] = id
  BY DEF RepoOK, PutPredicted, With
<1>4. epochKeys' \subseteq (1 .. (EpochNum + 1)) \X BundleIds
  BY <1>1 DEF RepoOK, PutPredicted
<1>5. lastConf' = lastConf
  BY DEF PutPredicted
<1>6. link' \in [DOMAIN link' -> BundleBoxes]
  <2>1. CASE prev = NoBox
    BY <2>1 DEF RepoOK, PutPredicted
  <2>2. CASE prev # NoBox
    BY <2>2 DEF RepoOK, PutPredicted, With, Maybe
  <2> QED
    BY <2>1, <2>2
<1> QED
  BY <1>1, <1>2, <1>3, <1>4, <1>5, <1>6 DEF RepoOK

LEMMA InvalidateType ==
    ASSUME RepoOK, NEW s, Invalidate(s)
    PROVE  RepoOK'
<1>1. DOMAIN states' = DOMAIN states \ {s} /\ states' \in [DOMAIN states' -> 1 .. (EpochNum + 1)]
  BY DEF RepoOK, Invalidate, Without
<1>2. link' \in [DOMAIN link' -> BundleBoxes]
  BY DEF RepoOK, Invalidate, Without
<1>3. UNCHANGED <<lastConf, lastPred, epochKeys>>
  BY DEF Invalidate
<1> QED
  BY <1>1, <1>2, <1>3 DEF RepoOK

LEMMA EliminateType ==
    ASSUME RepoOK, NEW s, NEW ix, Eliminate(s, ix)
    PROVE  RepoOK'
<1>1. /\ DOMAIN lastConf' \subseteq DOMAIN lastConf
      /\ \A id \in DOMAIN lastConf' : lastConf'[id] = lastConf[id]
  BY DEF Eliminate, Without
<1>2. /\ DOMAIN lastPred' \subseteq DOMAIN lastPred
      /\ \A id \in DOMAIN lastPred' : lastPred'[id] = lastPred[id]
  BY DEF Eliminate, Without
<1>3. epochKeys' \subseteq epochKeys /\ UNCHANGED <<states, link>>
  BY DEF Eliminate
<1> QED
  BY <1>1, <1>2, <1>3 DEF RepoOK

\* The stream's operation, by the update it applies.
LEMMA TrackCases ==
    ASSUME StakesInv, TrackBundle
    PROVE  /\ bundleQueue # <<>> /\ bundleQueue' = Tail(bundleQueue)
           /\ Head(bundleQueue) \in BundleUpdate /\ bundleQueue' \in Seq(BundleUpdate)
           /\ UNCHANGED <<chain, programKnown, resolving, unsure, touched>>
           /\ \/ /\ Head(bundleQueue).new \in BundleBoxes
                 /\ Head(bundleQueue).new # NoBox
                 /\ Head(bundleQueue).ix \in 1 .. (EpochNum + 1)
                 /\ UpdateOf(Head(bundleQueue)) = BundleOf[Head(bundleQueue).new]
                 /\ PutConfirmed(Head(bundleQueue).new, Head(bundleQueue).ix)
              \/ /\ Head(bundleQueue).old \in BundleBoxes
                 /\ Head(bundleQueue).new = NoBox
                 /\ UpdateOf(Head(bundleQueue)) = BundleOf[Head(bundleQueue).old]
                 /\ \/ ~Head(bundleQueue).undo /\ Eliminate(Head(bundleQueue).old, Head(bundleQueue).ix)
                    \/ Head(bundleQueue).undo /\ Invalidate(Head(bundleQueue).old)
<1> DEFINE u == Head(bundleQueue)
<1>1. /\ bundleQueue # <<>> /\ bundleQueue' = Tail(bundleQueue)
      /\ UNCHANGED <<chain, programKnown, resolving, unsure, touched>>
      /\ \/ u.new # NoBox /\ PutConfirmed(u.new, u.ix)
         \/ u.new = NoBox /\ ~u.undo /\ Eliminate(u.old, u.ix)
         \/ u.new = NoBox /\ u.undo /\ Invalidate(u.old)
  BY DEF TrackBundle
<1>2. u \in BundleUpdate /\ bundleQueue' \in Seq(BundleUpdate)
  BY <1>1, HeadTailProperties DEF StakesInv
<1> HIDE DEF u
<1>3. /\ u.new \in BundleBoxes \cup {NoBox} /\ u.old \in BundleBoxes \cup {NoBox}
      /\ u.ix \in 1 .. (EpochNum + 1)
      /\ u.new # NoBox \/ u.old # NoBox
  BY <1>2 DEF BundleUpdate, AnyUpdate, Maybe
<1>4. /\ u.new # NoBox => UpdateOf(u) = BundleOf[u.new]
      /\ u.new = NoBox => UpdateOf(u) = BundleOf[u.old]
  BY DEF UpdateOf
<1> QED
  BY <1>1, <1>2, <1>3, <1>4 DEF u

LEMMA StakesTrack ==
    ASSUME StakesInv, TrackBundle
    PROVE  StakesInv'
<1> DEFINE u == Head(bundleQueue)
<1>1. /\ bundleQueue # <<>> /\ bundleQueue' = Tail(bundleQueue)
      /\ u \in BundleUpdate /\ bundleQueue' \in Seq(BundleUpdate)
      /\ UNCHANGED <<chain, programKnown, resolving, unsure, touched>>
  BY TrackCases
<1>2. \/ /\ u.new \in BundleBoxes /\ u.new # NoBox /\ u.ix \in 1 .. (EpochNum + 1)
         /\ UpdateOf(u) = BundleOf[u.new] /\ PutConfirmed(u.new, u.ix)
      \/ /\ u.old \in BundleBoxes /\ u.new = NoBox /\ UpdateOf(u) = BundleOf[u.old]
         /\ Eliminate(u.old, u.ix) \/ Invalidate(u.old)
  BY TrackCases
<1> HIDE DEF u
<1>3. StakesChain' /\ Unspent' = Unspent
  BY <1>1, SameStakes DEF StakesInv
<1>4. BundlesTypeOK'
  <2>1. RepoOK
    BY DEF StakesInv, BundlesTypeOK, RepoOK
  <2>2. RepoOK'
    BY <1>2, <2>1, PutConfirmedType, EliminateType, InvalidateType
  <2>3. bundleQueue' \in Seq(AnyUpdate)
    BY <1>1, QueueType
  <2> QED
    BY <1>1, <2>2, <2>3 DEF StakesInv, BundlesTypeOK, RepoOK, AnyUpdate
<1>5. ASSUME NEW s \in BundleBoxes, LiveState(s)', BundleOf[s] \notin unsure'
      PROVE  WillKnow(s)'
  <2>1. PICK id : id = BundleOf[s]
    OBVIOUS
  <2>2. PICK q : q = bundleQueue
    OBVIOUS
  <2>3. WillKnow(s)
    BY <1>1, <1>3, <1>5 DEF StakesInv, LiveState
  <2>4. /\ \A k \in DOMAIN q : LastAbout(q, id, k) /\ k # 1 =>
              \E i \in DOMAIN Tail(q) : k = i + 1 /\ LastAbout(Tail(q), id, i)
        /\ LastAbout(q, id, 1) => ~About(Tail(q), id)
        /\ UpdateOf(Head(q)) # id => (About(q, id) <=> About(Tail(q), id))
        /\ UpdateOf(Head(q)) = id => About(q, id)
    <3>1. q \in Seq(BundleUpdate) /\ q # <<>>
      BY <1>1, <2>2 DEF StakesInv
    <3> QED
      BY ONLY <3>1, TailAbout
  <2>5. /\ q[1] = Head(q)
        /\ \A i \in DOMAIN Tail(q) : Tail(q)[i] = q[i + 1]
    BY <1>1, <2>2, TailIndex DEF StakesInv
  <2>6. bundleQueue' = Tail(q) /\ u = Head(q)
    BY <1>1, <2>2 DEF u
  <2>7. ASSUME NEW k, LastAbout(q, id, k), q[k].new = s, k # 1
        PROVE  WillKnow(s)'
    <3>1. k \in DOMAIN q
      BY <2>7 DEF LastAbout, IsAbout
    <3>2. PICK i \in DOMAIN Tail(q) : k = i + 1 /\ LastAbout(Tail(q), id, i)
      BY <2>4, <2>7, <3>1
    <3>3. Tail(q)[i].new = s
      BY <2>5, <2>7, <3>2
    <3> QED
      BY <2>1, <2>6, <3>2, <3>3 DEF WillKnow
  <2>8. CASE UpdateOf(u) # id
    <3>1. Known(s) => Known(s)'
      <4>1. CASE u.new \in BundleBoxes /\ BundleOf[u.new] # id /\ PutConfirmed(u.new, u.ix)
        <5>1. u.new # s
          BY <2>1, <4>1
        <5> QED
          BY <2>1, <4>1, <5>1 DEF Known, PutConfirmed, With, EpochKeysAfter
      <4>2. CASE BundleOf[u.old] # id /\ Eliminate(u.old, u.ix)
        BY <2>1, <4>2 DEF Known, Eliminate, Without
      <4>3. CASE BundleOf[u.old] # id /\ Invalidate(u.old)
        <5>1. u.old # s
          BY <2>1, <4>3
        <5> QED
          BY <2>1, <4>3, <5>1 DEF Known, Invalidate, Without
      <4> QED
        BY <1>2, <2>8, <4>1, <4>2, <4>3
    <3>2. CASE ~About(q, id)
      <4>1. Known(s)
        <5>1. \A k : ~LastAbout(q, id, k)
          BY <3>2 DEF LastAbout, IsAbout, About
        <5> QED
          BY <2>1, <2>2, <2>3, <5>1 DEF WillKnow
      <4> QED
        BY <2>1, <2>4, <2>6, <2>8, <3>1, <3>2, <4>1 DEF WillKnow
    <3>3. CASE About(q, id)
      <4>1. PICK k : LastAbout(q, id, k) /\ q[k].new = s
        BY <2>1, <2>2, <2>3, <3>3 DEF WillKnow
      <4>2. k # 1
        BY <2>5, <2>6, <2>8, <4>1 DEF LastAbout, IsAbout
      <4> QED
        BY <2>7, <4>1, <4>2
    <3> QED
      BY <3>2, <3>3
  <2>9. CASE UpdateOf(u) = id
    <3>1. PICK k : LastAbout(q, id, k) /\ q[k].new = s
      BY <2>1, <2>2, <2>3, <2>4, <2>6, <2>9 DEF WillKnow
    <3>2. CASE k = 1
      <4>1. u.new = s /\ ~About(bundleQueue', id)
        BY <2>4, <2>5, <2>6, <3>1, <3>2
      <4>2. PutConfirmed(s, u.ix) /\ u.ix \in 1 .. (EpochNum + 1)
        BY <1>2, <1>5, <4>1, BundleFacts
      <4>3. u.ix # u.ix - 1
        BY <4>2
      <4>4. Known(s)'
        BY <4>2, <4>3 DEF Known, PutConfirmed, With, EpochKeysAfter
      <4> QED
        BY <2>1, <4>1, <4>4 DEF WillKnow
    <3> QED
      BY <2>7, <3>1, <3>2
  <2> QED
    BY <2>8, <2>9
<1> QED
  BY <1>1, <1>3, <1>4, <1>5 DEF StakesInv

\* A step of the executor on the repository; the ledger and the channel stay.
LEMMA StakesRepo ==
    ASSUME StakesInv, RepoOK', UNCHANGED <<chain, programKnown, bundleQueue>>,
           resolving' \in [phase : {"idle", "read", "resolved"}, conf : Maybe, pred : Maybe],
           (resolving.phase # "idle" => resolving.conf # NoBox)',
           (resolving.phase = "resolved" => resolving.pred # NoBox)',
           unsure \subseteq unsure', unsure' \subseteq touched',
           \A s \in BundleBoxes : BundleOf[s] \notin unsure' /\ Known(s) => Known(s)'
    PROVE  StakesInv'
<1>1. StakesChain' /\ Unspent' = Unspent
  BY SameStakes DEF StakesInv
<1>2. BundlesTypeOK'
  BY DEF StakesInv, BundlesTypeOK, RepoOK
<1>3. ASSUME NEW s \in BundleBoxes, LiveState(s)', BundleOf[s] \notin unsure'
      PROVE  WillKnow(s)'
  <2>1. WillKnow(s)
    BY <1>1, <1>3 DEF StakesInv, LiveState
  <2>2. SameFor(bundleQueue, bundleQueue', BundleOf[s])
    BY DEF SameFor
  <2> QED
    BY <1>3, <2>1, <2>2, StillKnown
<1> QED
  BY <1>1, <1>2, <1>3 DEF StakesInv

LEMMA LookupFacts ==
    ASSUME BundlesTypeOK, NEW id
    PROVE  Lookup(lastConf, id) \in Maybe /\ Lookup(lastPred, id) \in Maybe
  BY DEF BundlesTypeOK, Lookup, Maybe

LEMMA StakesExecutor ==
    ASSUME StakesInv, ExecutorOnBundles
    PROVE  StakesInv'
<1> DEFINE Jobs == [phase : {"idle", "read", "resolved"}, conf : Maybe, pred : Maybe]
<1>1. /\ RepoOK /\ BundlesTypeOK /\ resolving \in Jobs
      /\ resolving.conf \in Maybe /\ resolving.pred \in Maybe
      /\ resolving.phase # "idle" => resolving.conf # NoBox
      /\ resolving.phase = "resolved" => resolving.pred # NoBox
      /\ unsure \subseteq touched
  BY DEF StakesInv, BundlesTypeOK, RepoOK
<1>2. NoJob \in Jobs /\ NoJob.phase = "idle"
  BY DEF NoJob, Maybe
<1>3. UNCHANGED bundleRepo => RepoOK' /\ \A s \in BundleBoxes : Known(s) => Known(s)'
  BY <1>1 DEF bundleRepo, RepoOK, Known
<1>4. ASSUME NEW id \in BundleIds, ReadBundle(id)
      PROVE  StakesInv'
  <2>1. /\ resolving' = [phase |-> "read", conf |-> Lookup(lastConf, id),
                         pred |-> Lookup(lastPred, id)]
        /\ Lookup(lastConf, id) # NoBox
        /\ UNCHANGED <<chain, bundleRepo, programKnown, bundleQueue, unsure, touched>>
    BY <1>4 DEF ReadBundle
  <2>2. Lookup(lastConf, id) \in Maybe /\ Lookup(lastPred, id) \in Maybe
    BY <1>1, LookupFacts
  <2>3. resolving' \in Jobs /\ resolving'.phase = "read" /\ resolving'.conf # NoBox
    BY <2>1, <2>2
  <2> QED
    BY <1>1, <1>3, <2>1, <2>3, StakesRepo
<1>5. CASE ResolveBundle
  <2> DEFINE p == SafePoint(resolving.conf, resolving.pred)
  <2>1. /\ resolving.phase = "read"
        /\ resolving' = [phase |-> "resolved", conf |-> resolving.conf, pred |-> p]
        /\ UNCHANGED <<chain, bundleRepo, programKnown, bundleQueue, unsure, touched>>
    BY <1>5 DEF ResolveBundle
  <2>2. resolving.conf # NoBox
    BY <1>1, <2>1
  <2>3. p \in Maybe /\ p # NoBox
    BY <1>1, <2>2 DEF SafePoint
  <2> HIDE DEF p
  <2>4. resolving' \in Jobs /\ resolving'.conf # NoBox /\ resolving'.pred # NoBox
    BY <1>1, <2>1, <2>2, <2>3
  <2> QED
    BY <1>1, <1>3, <2>1, <2>4, StakesRepo
<1>6. ASSUME NEW s \in BundleBoxes, NEW prev \in Maybe,
             PutPredicted(s, EpochNum - EpochsLeft[s] + 1, prev)
      PROVE  RepoOK' /\ \A r \in BundleBoxes : Known(r) => Known(r)'
  <2>1. PICK ix : ix = EpochNum - EpochsLeft[s] + 1
    OBVIOUS
  <2>2. ix \in 1 .. (EpochNum + 1)
    <3>1. EpochNum \in Nat \ {0} /\ EpochsLeft[s] \in 0 .. EpochNum
      BY BundleFacts
    <3> QED
      BY <2>1, <3>1
  <2>3. RepoOK'
    BY <1>1, <1>6, <2>1, <2>2, PutPredictedType
  <2>4. PutPredicted(s, ix, prev)
    BY <1>6, <2>1
  <2>5. ASSUME NEW r \in BundleBoxes, Known(r)
        PROVE  Known(r)'
    BY <2>4, <2>5 DEF PutPredicted, Known, With
  <2> QED
    BY <2>3, <2>5
<1>7. ASSUME NEW s \in BundleBoxes, PredictBundle(s)
      PROVE  StakesInv'
  <2>1. /\ PutPredicted(s, EpochNum - EpochsLeft[s] + 1, resolving.pred)
        /\ resolving' = NoJob /\ touched' = touched \cup {BundleOf[s]}
        /\ UNCHANGED <<chain, programKnown, bundleQueue, unsure>>
    BY <1>7 DEF PredictBundle
  <2>2. RepoOK' /\ \A r \in BundleBoxes : Known(r) => Known(r)'
    BY <1>1, <1>6, <2>1
  <2> QED
    BY <1>1, <1>2, <2>1, <2>2, StakesRepo
<1>8. ASSUME NEW s \in BundleBoxes, PredictDeposit(s)
      PROVE  StakesInv'
  <2>1. /\ PutPredicted(s, EpochNum - EpochsLeft[s] + 1, NoBox)
        /\ touched' = touched \cup {BundleOf[s]}
        /\ UNCHANGED <<chain, programKnown, bundleQueue, resolving, unsure>>
    BY <1>8 DEF PredictDeposit
  <2>2. NoBox \in Maybe
    BY DEF Maybe
  <2>3. RepoOK' /\ \A r \in BundleBoxes : Known(r) => Known(r)'
    BY <1>6, <2>1, <2>2
  <2> QED
    BY <1>1, <2>1, <2>3, StakesRepo
<1>9. CASE BundleMissing
  <2>1. /\ Invalidate(resolving.pred) /\ resolving' = NoJob
        /\ unsure' = unsure \cup {BundleOf[resolving.pred]}
        /\ touched' = touched \cup {BundleOf[resolving.pred]}
        /\ UNCHANGED <<chain, programKnown, bundleQueue>>
    BY <1>9 DEF BundleMissing
  <2>2. RepoOK'
    BY <1>1, <2>1, InvalidateType
  <2>3. ASSUME NEW s \in BundleBoxes, BundleOf[s] \notin unsure', Known(s)
        PROVE  Known(s)'
    <3>1. s # resolving.pred
      BY <2>1, <2>3
    <3> QED
      BY <2>1, <2>3, <3>1 DEF Known, Invalidate, Without
  <2>4. unsure \subseteq unsure' /\ unsure' \subseteq touched'
    BY <1>1, <2>1
  <2> QED
    BY <1>2, <2>1, <2>2, <2>3, <2>4, StakesRepo
<1>10. CASE BundleUnused
  <2>1. /\ resolving' = NoJob
        /\ UNCHANGED <<chain, bundleRepo, programKnown, bundleQueue, unsure, touched>>
    BY <1>10 DEF BundleUnused
  <2> QED
    BY <1>1, <1>2, <1>3, <2>1, StakesRepo
<1> QED
  BY <1>4, <1>5, <1>7, <1>8, <1>9, <1>10 DEF ExecutorOnBundles

LEMMA StakesRestart ==
    ASSUME StakesInv, BundlesRestart
    PROVE  StakesInv'
<1> DEFINE lost == {BundleOf[IF u.new = NoBox THEN u.old ELSE u.new] : u \in ToSet(bundleQueue)}
<1>1. /\ unsure' = unsure \cup lost /\ touched' = touched \cup lost
      /\ bundleQueue' = <<>> /\ resolving' = NoJob
      /\ UNCHANGED <<chain, bundleRepo, programKnown>>
  BY DEF BundlesRestart
<1>2. StakesChain' /\ Unspent' = Unspent
  BY <1>1, SameStakes DEF StakesInv
<1>3. bundleQueue' \in Seq(BundleUpdate) /\ bundleQueue' \in Seq(AnyUpdate) /\ DOMAIN bundleQueue' = {}
  BY <1>1
<1>4. resolving'.phase = "idle"
      /\ resolving' \in [phase : {"idle", "read", "resolved"}, conf : Maybe, pred : Maybe]
  BY <1>1 DEF NoJob, Maybe
<1>5. \A id : id \notin lost => ~About(bundleQueue, id)
  <2>1. \A i \in DOMAIN bundleQueue : UpdateOf(bundleQueue[i]) \in lost
    BY DEF UpdateOf, ToSet
  <2> QED
    BY <2>1 DEF About, IsAbout
<1> HIDE DEF lost
<1>6. BundlesTypeOK'
  BY <1>1, <1>3, <1>4 DEF StakesInv, BundlesTypeOK, bundleRepo, AnyUpdate
<1>7. ASSUME NEW s \in BundleBoxes, LiveState(s)', BundleOf[s] \notin unsure'
      PROVE  WillKnow(s)'
  <2>1. ~About(bundleQueue, BundleOf[s])
    BY <1>1, <1>5, <1>7
  <2>2. WillKnow(s)
    BY <1>1, <1>2, <1>7 DEF StakesInv, LiveState
  <2>3. Known(s)
    BY <2>1, <2>2 DEF WillKnow, LastAbout, IsAbout, About
  <2>4. Known(s)'
    BY <1>1, <2>3 DEF Known, bundleRepo
  <2>5. ~About(bundleQueue', BundleOf[s])
    BY <1>3 DEF About
  <2> QED
    BY <2>4, <2>5 DEF WillKnow
<1>8. unsure' \subseteq touched'
  BY <1>1 DEF StakesInv
<1> QED
  BY <1>2, <1>3, <1>4, <1>6, <1>7, <1>8 DEF StakesInv

LEMMA StakesInit == FeedInit /\ BundlesInit => StakesInv
<1> SUFFICES ASSUME FeedInit, BundlesInit
             PROVE  StakesInv
  OBVIOUS
<1>1. StakesChain
  BY InitStakes
<1>2. /\ DOMAIN states = {} /\ DOMAIN lastConf = {} /\ DOMAIN lastPred = {} /\ DOMAIN link = {}
      /\ states = [s \in {} |-> 0] /\ link = [s \in {} |-> NoBox]
      /\ epochKeys = {} /\ programKnown = FALSE /\ bundleQueue = <<>> /\ resolving = NoJob
      /\ unsure = {} /\ touched = {}
  BY DEF BundlesInit
<1>3. BundlesTypeOK
  <2>1. /\ states \in [DOMAIN states -> 1 .. (EpochNum + 1)]
        /\ link \in [DOMAIN link -> BundleBoxes]
    BY <1>2
  <2>2. bundleQueue \in Seq(AnyUpdate)
    BY <1>2
  <2>3. resolving \in [phase : {"idle", "read", "resolved"}, conf : Maybe, pred : Maybe]
    BY <1>2 DEF NoJob, Maybe
  <2> QED
    BY <1>2, <2>1, <2>2, <2>3 DEF BundlesTypeOK, AnyUpdate
<1>4. \A s \in BundleBoxes : ~LiveState(s)
  <2>1. Created = Genesis
    BY DEF FeedInit, Created, ToSet
  <2> QED
    BY <2>1, BundleFacts DEF LiveState, Unspent
<1>5. bundleQueue \in Seq(BundleUpdate) /\ resolving.phase = "idle"
  BY <1>2 DEF NoJob
<1> QED
  BY <1>1, <1>2, <1>3, <1>4, <1>5 DEF StakesInv

LEMMA StakesStep == StakesInv /\ [BundlesNext]_bundleVars => StakesInv'
<1> SUFFICES ASSUME StakesInv, [BundlesNext]_bundleVars
             PROVE  StakesInv'
  OBVIOUS
<1>1. CASE UNCHANGED bundleVars
  <2>1. /\ UNCHANGED <<chain, programKnown, bundleQueue, resolving, unsure, touched>>
        /\ UNCHANGED bundleRepo
    BY <1>1 DEF bundleVars
  <2>2. RepoOK' /\ \A s \in BundleBoxes : Known(s) => Known(s)'
    BY <2>1 DEF StakesInv, BundlesTypeOK, RepoOK, Known, bundleRepo
  <2>3. resolving' \in [phase : {"idle", "read", "resolved"}, conf : Maybe, pred : Maybe]
    BY <2>1 DEF StakesInv, BundlesTypeOK
  <2>4. /\ (resolving.phase # "idle" => resolving.conf # NoBox)'
        /\ (resolving.phase = "resolved" => resolving.pred # NoBox)'
        /\ unsure \subseteq unsure' /\ unsure' \subseteq touched'
    BY <2>1 DEF StakesInv
  <2> QED
    BY <2>1, <2>2, <2>3, <2>4, StakesRepo
<1> QED
  BY <1>1, StakesApplied, StakesUnapplied, StakesTrack, StakesExecutor, StakesRestart DEF BundlesNext

LEMMA StakesInvariant == BundlesSpec => []StakesInv
  BY StakesInit, StakesStep, PTL DEF BundlesSpec
-----------------------------------------------------------------------------
(***************************************************************************)
(* Every operation of bundle/rocksdb.rs keeps the types of the repository, *)
(* and every update in the channel is about a bundle.                      *)
(***************************************************************************)
THEOREM BundlesTypeCorrect == BundlesSpec => []BundlesTypeOK
<1>1. StakesInv => BundlesTypeOK
  BY DEF StakesInv
<1> QED
  BY <1>1, StakesInvariant, PTL

(***************************************************************************)
(* With the channel empty, bundle/rocksdb.rs knows every bundle of the     *)
(* ledger that is not unsure: get_last_confirmed returns its unspent state *)
(* and select returns it for that state's epoch, whatever was undone,      *)
(* predicted or invalidated before.                                        *)
(***************************************************************************)
THEOREM StakersAreKnown == BundlesSpec => []StakersKnown
<1>1. StakesInv => StakersKnown
  <2> SUFFICES ASSUME StakesInv, bundleQueue = <<>>, NEW s \in BundleBoxes,
                      LiveState(s), BundleOf[s] \notin unsure
               PROVE  Lookup(lastConf, BundleOf[s]) = s /\ BundleOf[s] \in Select(states[s])
    BY DEF StakersKnown
  <2>1. DOMAIN bundleQueue = {}
    OBVIOUS
  <2>2. WillKnow(s)
    BY DEF StakesInv
  <2>3. Known(s)
    BY <2>1, <2>2 DEF WillKnow, LastAbout, IsAbout
  <2>4. BundleOf[s] \in BundleIds
    BY BundleFacts
  <2> QED
    BY <2>3, <2>4 DEF Known, Lookup, Select
<1> QED
  BY <1>1, StakesInvariant, PTL
-----------------------------------------------------------------------------
(***************************************************************************)
(* The epoch index of the bundles that nothing disturbed.                  *)
(***************************************************************************)
EpochIx(s) == EpochNum - EpochsLeft[s] + 1
OneEpoch(r, s) == EpochsLeft[r] = EpochsLeft[s] \/ EpochsLeft[r] = EpochsLeft[s] + 1

\* The one key of the bundle is that of its last confirmed state.
TidyRepo(id) ==
    /\ id \in DOMAIN lastConf => lastConf[id] \in DOMAIN states
    /\ \A e : <<e, id>> \in epochKeys <=> id \in DOMAIN lastConf /\ e = EpochIx(lastConf[id])
    /\ \A s \in DOMAIN states : BundleOf[s] = id => s \in Created /\ states[s] = EpochIx(s)

\* The updates of the bundle put new states, each one epoch after the one before
\* it at most, and after the last confirmed one.
TidyPuts(id, q) ==
    /\ \A i \in DOMAIN q : IsAbout(q, id, i) /\ q[i].new # NoBox =>
          q[i].new \in Created \ DOMAIN states /\ q[i].ix = EpochIx(q[i].new)
    /\ \A i, j \in DOMAIN q :
          IsAbout(q, id, i) /\ IsAbout(q, id, j) /\ q[i].new = q[j].new => i = j
    /\ \A i, j \in DOMAIN q :
          /\ IsAbout(q, id, i) /\ IsAbout(q, id, j) /\ i < j
          /\ \A k \in DOMAIN q : IsAbout(q, id, k) => k <= i \/ j <= k
          => OneEpoch(q[i].new, q[j].new)
    /\ \A i \in DOMAIN q : FirstAbout(q, id, i) /\ q[i].new # NoBox /\ id \in DOMAIN lastConf =>
          OneEpoch(lastConf[id], q[i].new)

\* An elimination is the only update of its bundle, which has left the ledger.
TidyElimination(id, q) ==
    \A i \in DOMAIN q : IsAbout(q, id, i) /\ q[i].new = NoBox =>
       /\ ~q[i].undo
       /\ \A j \in DOMAIN q : IsAbout(q, id, j) => j = i
       /\ id \in DOMAIN lastConf /\ lastConf[id] = q[i].old
       /\ q[i].ix = EpochIx(q[i].old)
       /\ \A s \in BundleBoxes : LiveState(s) => BundleOf[s] # id

\* The state that will be the last confirmed one is on the ledger.
TidyLedger(id, q) ==
    /\ \A i \in DOMAIN q : LastAbout(q, id, i) /\ q[i].new # NoBox => q[i].new \in Unspent
    /\ ~About(q, id) /\ id \in DOMAIN lastConf => lastConf[id] \in Unspent

Tidy(id) ==
    /\ TidyRepo(id)
    /\ TidyPuts(id, bundleQueue)
    /\ TidyElimination(id, bundleQueue)
    /\ TidyLedger(id, bundleQueue)

GhostInv == \A id \in BundleIds \ touched : Tidy(id)

\* A step leaves what the repository, and the ledger, have of bundle id alone.
RepoSame(id) ==
    /\ id \in DOMAIN lastConf <=> id \in DOMAIN lastConf'
    /\ id \in DOMAIN lastConf => lastConf'[id] = lastConf[id]
    /\ \A s \in BundleBoxes : BundleOf[s] = id =>
          /\ s \in DOMAIN states <=> s \in DOMAIN states'
          /\ s \in DOMAIN states => states'[s] = states[s]
    /\ \A e : <<e, id>> \in epochKeys <=> <<e, id>> \in epochKeys'

LedgerSame(id) ==
    \A s \in BundleBoxes : BundleOf[s] = id =>
       /\ s \in Created <=> s \in Created'
       /\ s \in Unspent <=> s \in Unspent'

LEMMA QueuedStates ==
    ASSUME StakesInv, NEW id, NEW i, IsAbout(bundleQueue, id, i)
    PROVE  /\ bundleQueue[i].new # NoBox =>
                 bundleQueue[i].new \in BundleBoxes /\ BundleOf[bundleQueue[i].new] = id
           /\ bundleQueue[i].new = NoBox =>
                 bundleQueue[i].old \in BundleBoxes /\ BundleOf[bundleQueue[i].old] = id
<1>1. bundleQueue[i] \in BundleUpdate /\ UpdateOf(bundleQueue[i]) = id
  BY DEF StakesInv, IsAbout
<1>2. PICK u : u = bundleQueue[i]
  OBVIOUS
<1> QED
  BY <1>1, <1>2 DEF BundleUpdate, AnyUpdate, Maybe, UpdateOf

LEMMA ConfirmedState ==
    ASSUME StakesInv, NEW id \in DOMAIN lastConf
    PROVE  lastConf[id] \in BundleBoxes /\ BundleOf[lastConf[id]] = id
  BY DEF StakesInv, BundlesTypeOK

LEMMA TidyRepoStays ==
    ASSUME StakesInv, NEW id, RepoSame(id), TidyRepo(id), DOMAIN states' \subseteq BundleBoxes,
           \A s \in BundleBoxes : BundleOf[s] = id /\ s \in Created => s \in Created'
    PROVE  TidyRepo(id)'
<1>1. /\ DOMAIN states \subseteq BundleBoxes
      /\ id \in DOMAIN lastConf => lastConf[id] \in BundleBoxes /\ BundleOf[lastConf[id]] = id
  BY ConfirmedState DEF StakesInv, BundlesTypeOK
<1>2. id \in DOMAIN lastConf' => lastConf'[id] \in DOMAIN states'
  BY <1>1 DEF RepoSame, TidyRepo
<1>3. \A e : <<e, id>> \in epochKeys' <=> id \in DOMAIN lastConf' /\ e = EpochIx(lastConf'[id])
  BY DEF RepoSame, TidyRepo
<1>4. \A s \in DOMAIN states' : BundleOf[s] = id => s \in Created' /\ states'[s] = EpochIx(s)
  BY <1>1 DEF RepoSame, TidyRepo
<1> QED
  BY <1>2, <1>3, <1>4 DEF TidyRepo

LEMMA TidyNext ==
    ASSUME NEW id, NEW c, bundleQueue' = c,
           TidyRepo(id)', TidyPuts(id, c)', TidyElimination(id, c)', TidyLedger(id, c)'
    PROVE  Tidy(id)'
<1>1. TidyPuts(id, bundleQueue)'
  BY DEF TidyPuts
<1>2. TidyElimination(id, bundleQueue)'
  BY DEF TidyElimination
<1>3. TidyLedger(id, bundleQueue)'
  BY DEF TidyLedger
<1> QED
  BY <1>1, <1>2, <1>3 DEF Tidy

LEMMA TidyStays ==
    ASSUME StakesInv, NEW id, Tidy(id), RepoSame(id), LedgerSame(id), DOMAIN states' \subseteq BundleBoxes,
           SameFor(bundleQueue, bundleQueue', id)
    PROVE  Tidy(id)'
<1>1. PICK q : q = bundleQueue
  OBVIOUS
<1>2. PICK c : c = bundleQueue'
  OBVIOUS
<1>3. TidyRepo(id)'
  BY TidyRepoStays DEF Tidy, LedgerSame
<1>4. /\ \A i : IsAbout(c, id, i) <=> IsAbout(q, id, i)
      /\ \A i : IsAbout(q, id, i) => i \in DOMAIN q /\ i \in DOMAIN c /\ c[i] = q[i]
      /\ \A i : FirstAbout(c, id, i) <=> FirstAbout(q, id, i)
      /\ \A i : LastAbout(c, id, i) <=> LastAbout(q, id, i)
      /\ About(c, id) <=> About(q, id)
      /\ \A i : FirstAbout(q, id, i) \/ LastAbout(q, id, i) => IsAbout(q, id, i)
  BY <1>1, <1>2, SameForFacts DEF SameFor, IsAbout, FirstAbout, LastAbout
<1>5. \A i : IsAbout(q, id, i) =>
         /\ q[i].new # NoBox => q[i].new \in BundleBoxes /\ BundleOf[q[i].new] = id
  BY <1>1, QueuedStates
<1>6. /\ TidyPuts(id, q) /\ TidyElimination(id, q) /\ TidyLedger(id, q)
  BY <1>1 DEF Tidy
<1>7. TidyPuts(id, c)'
  <2>1. ASSUME NEW i \in DOMAIN c, IsAbout(c, id, i), c[i].new # NoBox
        PROVE  c[i].new \in Created' \ DOMAIN states' /\ c[i].ix = EpochIx(c[i].new)
    BY <1>4, <1>5, <1>6, <2>1 DEF TidyPuts, RepoSame, LedgerSame
  <2>2. ASSUME NEW i \in DOMAIN c, NEW j \in DOMAIN c, IsAbout(c, id, i), IsAbout(c, id, j),
               c[i].new = c[j].new
        PROVE  i = j
    BY <1>4, <1>6, <2>2 DEF TidyPuts
  <2>3. ASSUME NEW i \in DOMAIN c, NEW j \in DOMAIN c, IsAbout(c, id, i), IsAbout(c, id, j), i < j,
               \A k \in DOMAIN c : IsAbout(c, id, k) => k <= i \/ j <= k
        PROVE  OneEpoch(c[i].new, c[j].new)
    <3>1. /\ i \in DOMAIN q /\ j \in DOMAIN q /\ IsAbout(q, id, i) /\ IsAbout(q, id, j)
          /\ c[i] = q[i] /\ c[j] = q[j]
      BY <1>4, <2>3
    <3>2. \A k \in DOMAIN q : IsAbout(q, id, k) => k <= i \/ j <= k
      BY <1>4, <2>3
    <3> QED
      BY <1>6, <2>3, <3>1, <3>2 DEF TidyPuts
  <2>4. ASSUME NEW i \in DOMAIN c, FirstAbout(c, id, i), c[i].new # NoBox, id \in DOMAIN lastConf'
        PROVE  OneEpoch(lastConf'[id], c[i].new)
    BY <1>4, <1>6, <2>4 DEF TidyPuts, RepoSame
  <2> QED
    BY <2>1, <2>2, <2>3, <2>4 DEF TidyPuts
<1>8. TidyElimination(id, c)'
  <2> SUFFICES ASSUME NEW i \in DOMAIN c, IsAbout(c, id, i), c[i].new = NoBox
               PROVE  /\ ~c[i].undo
                      /\ \A j \in DOMAIN c : IsAbout(c, id, j) => j = i
                      /\ id \in DOMAIN lastConf' /\ lastConf'[id] = c[i].old
                      /\ c[i].ix = EpochIx(c[i].old)
                      /\ \A s \in BundleBoxes : LiveState(s)' => BundleOf[s] # id
    BY DEF TidyElimination
  <2>1. i \in DOMAIN q /\ IsAbout(q, id, i) /\ c[i] = q[i]
    BY <1>4
  <2>2. /\ ~q[i].undo
        /\ \A j \in DOMAIN q : IsAbout(q, id, j) => j = i
        /\ id \in DOMAIN lastConf /\ lastConf[id] = q[i].old
        /\ q[i].ix = EpochIx(q[i].old)
        /\ \A s \in BundleBoxes : LiveState(s) => BundleOf[s] # id
    BY <1>6, <2>1 DEF TidyElimination
  <2>3. \A s \in BundleBoxes : LiveState(s)' => BundleOf[s] # id
    BY <2>2 DEF LiveState, LedgerSame
  <2>4. id \in DOMAIN lastConf' /\ lastConf'[id] = c[i].old
    BY <2>1, <2>2 DEF RepoSame
  <2> QED
    BY <1>4, <2>1, <2>2, <2>3, <2>4
<1>9. TidyLedger(id, c)'
  <2>1. ASSUME NEW i \in DOMAIN c, LastAbout(c, id, i), c[i].new # NoBox
        PROVE  c[i].new \in Unspent'
    BY <1>4, <1>5, <1>6, <2>1 DEF TidyLedger, LedgerSame
  <2>2. ~About(c, id) /\ id \in DOMAIN lastConf' => lastConf'[id] \in Unspent'
    BY <1>4, <1>6, ConfirmedState DEF TidyLedger, LedgerSame, RepoSame
  <2> QED
    BY <2>1, <2>2 DEF TidyLedger
<1> QED
  BY <1>3, <1>2, <1>7, <1>8, <1>9, TidyNext

\* t makes state m of the bundle: the channel gets one more put.
LEMMA TidyMade ==
    ASSUME StakesInv, NEW t \in Txs, HandleBundlesApplied(t), NEW id, Tidy(id),
           id \notin touched', NEW m \in Made(t), BundleOf[m] = id
    PROVE  Tidy(id)'
<1>1. PICK q : q = bundleQueue
  OBVIOUS
<1>2. PICK c : c = bundleQueue'
  OBVIOUS
<1>3. /\ AppliedTx(t) /\ UNCHANGED bundleRepo
      /\ touched' = touched \cup unsure' \cup SkipsEpoch(t)
  BY DEF HandleBundlesApplied
<1>4. /\ StakesChain /\ Created' = Created \cup Outputs[t] /\ Outputs[t] \cap Created = {}
      /\ Inputs[t] \subseteq Unspent /\ Unspent' = (Unspent \ Inputs[t]) \cup Outputs[t]
      /\ t \notin ToSet(chain)
  BY <1>3, AppliedStakes DEF StakesInv
<1>5. m \in BundleBoxes /\ m \in Outputs[t] /\ m # NoBox
  BY BundleFacts DEF Made
<1>6. PICK u, k : Announces(u, t, id) /\ OneMoreFor(q, c, id, u, k)
  <2>1. m \in Consumed(t) \cup Made(t)
    OBVIOUS
  <2> QED
    BY <1>1, <1>2, <2>1, AppliedChannel DEF StakesInv
<1>7. u.new = m /\ u.ix = EpochIx(m)
  <2>1. u.new \in Made(t) /\ BundleOf[u.new] = id /\ u.ix = LowerEpochIx(u.new)
    BY <1>6 DEF Announces
  <2>2. u.new = m
    BY <1>5, <2>1, BundleFacts DEF Made
  <2>3. programKnown \/ EpochsLeft[m] = EpochNum
    BY <1>3 DEF SkipsEpoch
  <2>4. EpochNum \in Nat /\ EpochsLeft[m] \in Nat
    BY <1>5, BundleFacts
  <2> QED
    BY <2>1, <2>2, <2>3, <2>4 DEF LowerEpochIx, EpochIx, INIT_EPOCH_IX
<1>8. ASSUME NEW r \in BundleBoxes, BundleOf[r] = id, r \in Created
      PROVE  /\ \E x \in BundleBoxes : LiveState(x) /\ BundleOf[x] = id
             /\ r \in Unspent => OneEpoch(r, m)
  <2>1. ~Mints(t, id)
    BY <1>4, <1>8, NotMintedAgain
  <2>2. PICK x \in Inputs[t] \cap BundleBoxes : BundleOf[x] = id
    BY <1>5, <2>1 DEF Mints
  <2>3. LiveState(x)
    BY <1>4, <2>2 DEF LiveState
  <2>4. r \in Unspent => r = x
    BY <1>4, <1>8, <2>2, <2>3, OneLive DEF LiveState
  <2>5. OneEpoch(x, m)
    BY <1>3, <2>2 DEF SkipsEpoch, OneEpoch
  <2> QED
    BY <2>2, <2>3, <2>4, <2>5
<1>9. /\ TidyRepo(id) /\ TidyPuts(id, q) /\ TidyElimination(id, q) /\ TidyLedger(id, q)
  BY <1>1 DEF Tidy
<1>10. \A i : IsAbout(q, id, i) => /\ i \in DOMAIN q /\ q[i].new # NoBox
                                   /\ q[i].new \in BundleBoxes /\ BundleOf[q[i].new] = id
                                   /\ q[i].new \in Created \ DOMAIN states
  <2> SUFFICES ASSUME NEW i, IsAbout(q, id, i)
               PROVE  /\ i \in DOMAIN q /\ q[i].new # NoBox
                      /\ q[i].new \in BundleBoxes /\ BundleOf[q[i].new] = id
                      /\ q[i].new \in Created \ DOMAIN states
    OBVIOUS
  <2>1. i \in DOMAIN q
    BY DEF IsAbout
  <2>2. ASSUME q[i].new = NoBox
        PROVE  FALSE
    <3>1. /\ id \in DOMAIN lastConf
          /\ \A s \in BundleBoxes : LiveState(s) => BundleOf[s] # id
      BY <1>9, <2>1, <2>2 DEF TidyElimination
    <3>2. lastConf[id] \in BundleBoxes /\ BundleOf[lastConf[id]] = id /\ lastConf[id] \in Created
      BY <1>9, <3>1, ConfirmedState DEF TidyRepo
    <3> QED
      BY <1>8, <3>1, <3>2
  <2> QED
    BY <1>1, <1>9, <2>1, <2>2, QueuedStates DEF TidyPuts
<1>11. /\ \A i : IsAbout(c, id, i) <=> IsAbout(q, id, i) \/ i = k
       /\ \A i : IsAbout(q, id, i) => i < k /\ i \in Nat /\ i \in DOMAIN q /\ i \in DOMAIN c /\ c[i] = q[i]
       /\ IsAbout(c, id, k) /\ k \in DOMAIN c /\ c[k] = u /\ k \in Nat
  BY <1>6 DEF OneMoreFor, IsAbout
<1>12. m \in Created' /\ m \notin Created /\ m \notin DOMAIN states
  BY <1>4, <1>5, <1>9 DEF TidyRepo
<1>13. TidyRepo(id)'
  <2>1. DOMAIN states' \subseteq BundleBoxes /\ RepoSame(id)
    BY <1>3 DEF RepoSame, bundleRepo, StakesInv, BundlesTypeOK
  <2> QED
    BY <1>4, <1>9, <2>1, TidyRepoStays
<1>14. TidyPuts(id, c)'
  <2>1. ASSUME NEW i \in DOMAIN c, IsAbout(c, id, i), c[i].new # NoBox
        PROVE  c[i].new \in Created' \ DOMAIN states' /\ c[i].ix = EpochIx(c[i].new)
    <3>1. states' = states
      BY <1>3 DEF bundleRepo
    <3>2. CASE i = k
      BY <1>7, <1>11, <1>12, <3>1, <3>2
    <3>3. CASE IsAbout(q, id, i)
      BY <1>4, <1>9, <1>10, <1>11, <3>1, <3>3 DEF TidyPuts
    <3> QED
      BY <1>11, <2>1, <3>2, <3>3
  <2>2. ASSUME NEW i \in DOMAIN c, NEW j \in DOMAIN c, IsAbout(c, id, i), IsAbout(c, id, j),
               c[i].new = c[j].new
        PROVE  i = j
    <3>1. \A x : IsAbout(q, id, x) => c[x].new # c[k].new
      BY <1>7, <1>10, <1>11, <1>12
    <3>2. IsAbout(q, id, i) /\ IsAbout(q, id, j) => i = j
      BY <1>9, <1>11, <2>2 DEF TidyPuts
    <3> QED
      BY <1>11, <2>2, <3>1, <3>2
  <2>3. ASSUME NEW i \in DOMAIN c, NEW j \in DOMAIN c, IsAbout(c, id, i), IsAbout(c, id, j), i < j,
               \A x \in DOMAIN c : IsAbout(c, id, x) => x <= i \/ j <= x
        PROVE  OneEpoch(c[i].new, c[j].new)
    <3>1. IsAbout(q, id, i)
      BY <1>11, <2>3
    <3>2. i \in Nat /\ i \in DOMAIN q /\ c[i] = q[i]
      BY <1>11, <3>1
    <3>3. CASE j = k
      <4>1. \A x \in DOMAIN q : IsAbout(q, id, x) => x <= i
        BY <1>11, <2>3, <3>3
      <4>2. LastAbout(q, id, i)
        BY <3>1, <4>1 DEF LastAbout
      <4>3. q[i].new \in Unspent /\ q[i].new \in BundleBoxes /\ BundleOf[q[i].new] = id
            /\ q[i].new \in Created
        BY <1>9, <1>10, <3>1, <3>2, <4>2 DEF TidyLedger
      <4> QED
        BY <1>7, <1>8, <1>11, <3>2, <3>3, <4>3
    <3>4. CASE IsAbout(q, id, j)
      <4>1. \A x \in DOMAIN q : IsAbout(q, id, x) => x <= i \/ j <= x
        BY <1>11, <2>3
      <4>2. j \in DOMAIN q /\ c[j] = q[j]
        BY <1>11, <3>4
      <4> QED
        BY <1>9, <2>3, <3>1, <3>2, <3>4, <4>1, <4>2 DEF TidyPuts
    <3> QED
      BY <1>11, <2>3, <3>3, <3>4
  <2>4. ASSUME NEW i \in DOMAIN c, FirstAbout(c, id, i), c[i].new # NoBox, id \in DOMAIN lastConf'
        PROVE  OneEpoch(lastConf'[id], c[i].new)
    <3>1. lastConf' = lastConf
      BY <1>3 DEF bundleRepo
    <3>2. CASE i = k
      <4>1. ~About(q, id)
        <5> SUFFICES ASSUME NEW j, IsAbout(q, id, j)
                     PROVE  FALSE
          BY DEF About
        <5>1. j < k /\ k <= j /\ j \in Nat
          BY <1>11, <2>4, <3>2 DEF FirstAbout
        <5> QED
          BY <1>11, <5>1
      <4>2. lastConf[id] \in Unspent /\ lastConf[id] \in BundleBoxes /\ BundleOf[lastConf[id]] = id
        BY <1>9, <2>4, <3>1, <4>1, ConfirmedState DEF TidyLedger
      <4>3. lastConf[id] \in Created
        BY <4>2 DEF Unspent
      <4> QED
        BY <1>7, <1>8, <1>11, <3>1, <3>2, <4>2, <4>3
    <3>3. CASE IsAbout(q, id, i)
      <4>1. FirstAbout(q, id, i)
        BY <1>11, <2>4, <3>3 DEF FirstAbout
      <4> QED
        BY <1>9, <1>11, <2>4, <3>1, <3>3, <4>1 DEF TidyPuts
    <3> QED
      BY <1>11, <2>4, <3>2, <3>3 DEF FirstAbout
  <2> QED
    BY <2>1, <2>2, <2>3, <2>4 DEF TidyPuts
<1>15. TidyElimination(id, c)'
  BY <1>5, <1>7, <1>10, <1>11 DEF TidyElimination
<1>16. TidyLedger(id, c)'
  <2>1. About(c, id) /\ \A i : LastAbout(c, id, i) => i = k
    BY <1>6, OneMoreFacts
  <2>2. c[k].new \in Unspent'
    BY <1>4, <1>5, <1>7, <1>11
  <2> QED
    BY <2>1, <2>2 DEF TidyLedger
<1> QED
  BY <1>13, <1>2, <1>14, <1>15, <1>16, TidyNext

\* t spends the last state r of the bundle: the channel gets its elimination.
LEMMA TidySpent ==
    ASSUME StakesInv, NEW t \in Txs, HandleBundlesApplied(t), NEW id, Tidy(id), id \notin touched,
           id \notin touched', NEW r \in Inputs[t] \cap BundleBoxes, BundleOf[r] = id,
           \A m \in Made(t) : BundleOf[m] # id
    PROVE  Tidy(id)'
<1>1. PICK q : q = bundleQueue
  OBVIOUS
<1>2. PICK c : c = bundleQueue'
  OBVIOUS
<1>3. /\ AppliedTx(t) /\ UNCHANGED bundleRepo
      /\ unsure' = (unsure \ {BundleOf[s] : s \in Made(t)})
                     \cup {x \in Overlooked(t) : \A s \in Made(t) : BundleOf[s] # x}
      /\ touched' = touched \cup unsure' \cup SkipsEpoch(t)
  BY DEF HandleBundlesApplied
<1>4. /\ StakesChain /\ Created' = Created \cup Outputs[t]
      /\ Inputs[t] \subseteq Unspent /\ Unspent' = (Unspent \ Inputs[t]) \cup Outputs[t]
  BY <1>3, AppliedStakes DEF StakesInv
<1>5. /\ r \in DOMAIN states /\ r \in Consumed(t) /\ LiveState(r) /\ id \notin unsure
      /\ r \in BundleBoxes /\ r \in Inputs[t]
  <2>1. id \notin Overlooked(t)
    BY <1>3
  <2> QED
    BY <1>4, <2>1 DEF Overlooked, Consumed, LiveState, StakesInv
<1>6. PICK u, k : Announces(u, t, id) /\ OneMoreFor(q, c, id, u, k)
  <2>1. r \in Consumed(t) \cup Made(t)
    BY <1>5
  <2> QED
    BY <1>1, <1>2, <2>1, AppliedChannel DEF StakesInv
<1>7. u.undo = FALSE /\ u.new = NoBox /\ u.old = r /\ u.ix = EpochIx(r)
  <2>1. /\ u.undo = FALSE /\ u.new = NoBox
        /\ u.old \in Consumed(t) /\ BundleOf[u.old] = id /\ u.ix = states[u.old]
    BY <1>6 DEF Announces
  <2>2. u.old = r
    BY <1>5, <2>1, BundleFacts DEF Consumed, StakesInv, BundlesTypeOK
  <2>3. states[r] = EpochIx(r)
    BY <1>5 DEF Tidy, TidyRepo
  <2> QED
    BY <2>1, <2>2, <2>3
<1>8. ~About(q, id) /\ Known(r)
  <2>1. WillKnow(r)
    BY <1>5 DEF StakesInv
  <2>2. ASSUME NEW i \in DOMAIN q, LastAbout(q, id, i), q[i].new = r
        PROVE  FALSE
    <3>1. IsAbout(q, id, i) /\ q[i].new # NoBox
      BY <1>5, <2>2, BundleFacts DEF LastAbout
    <3>2. q[i].new \notin DOMAIN states
      BY <1>1, <3>1 DEF Tidy, TidyPuts
    <3> QED
      BY <1>5, <2>2, <3>2
  <2> QED
    BY <1>1, <2>1, <2>2 DEF WillKnow
<1>9. \A i : IsAbout(c, id, i) <=> i = k
  BY <1>6, <1>8 DEF OneMoreFor, About, IsAbout
<1>10. c[k] = u /\ k \in Nat /\ k \in DOMAIN c
  BY <1>6 DEF OneMoreFor, IsAbout
<1>11. TidyRepo(id)'
  <2>1. DOMAIN states' \subseteq BundleBoxes /\ RepoSame(id)
    BY <1>3 DEF RepoSame, bundleRepo, StakesInv, BundlesTypeOK
  <2> QED
    BY <1>4, <2>1, TidyRepoStays DEF Tidy
<1>12. TidyPuts(id, c)'
  <2>1. \A i, j : i < j /\ IsAbout(c, id, i) /\ IsAbout(c, id, j) => FALSE
    BY <1>9, <1>10
  <2> QED
    BY <1>7, <1>9, <1>10, <2>1 DEF TidyPuts, FirstAbout
<1>13. TidyElimination(id, c)'
  <2>1. lastConf' = lastConf /\ id \in DOMAIN lastConf /\ lastConf[id] = r
    BY <1>3, <1>8 DEF bundleRepo, Known
  <2>2. ASSUME NEW s \in BundleBoxes, LiveState(s)', BundleOf[s] = id
        PROVE  FALSE
    <3>1. s \notin Outputs[t]
      BY <2>2 DEF Made
    <3>2. LiveState(s) /\ s \notin Inputs[t]
      BY <1>4, <2>2, <3>1 DEF LiveState
    <3>3. s = r
      BY <1>4, <1>5, <2>2, <3>2, OneLive
    <3> QED
      BY <1>5, <3>2, <3>3
  <2> QED
    BY <1>7, <1>9, <1>10, <2>1, <2>2 DEF TidyElimination
<1>14. TidyLedger(id, c)'
  BY <1>7, <1>9, <1>10 DEF TidyLedger, LastAbout, About
<1> QED
  BY <1>11, <1>2, <1>12, <1>13, <1>14, TidyNext

LEMMA GhostApplied ==
    ASSUME StakesInv, GhostInv, NEW t \in Txs, HandleBundlesApplied(t)
    PROVE  GhostInv'
<1> SUFFICES ASSUME NEW id \in BundleIds, id \notin touched'
             PROVE  Tidy(id)'
  BY DEF GhostInv
<1>1. /\ AppliedTx(t) /\ UNCHANGED bundleRepo /\ id \notin touched
  BY DEF HandleBundlesApplied
<1>2. Tidy(id)
  BY <1>1 DEF GhostInv
<1>3. CASE \E m \in Made(t) : BundleOf[m] = id
  BY <1>2, <1>3, TidyMade
<1>4. CASE /\ \A m \in Made(t) : BundleOf[m] # id
           /\ \E r \in Inputs[t] \cap BundleBoxes : BundleOf[r] = id
  BY <1>1, <1>2, <1>4, TidySpent
<1>5. CASE /\ \A m \in Made(t) : BundleOf[m] # id
           /\ \A r \in Inputs[t] \cap BundleBoxes : BundleOf[r] # id
  <2>1. /\ Created' = Created \cup Outputs[t]
        /\ Unspent' = (Unspent \ Inputs[t]) \cup Outputs[t]
    BY <1>1, AppliedStakes DEF StakesInv
  <2>2. \A s \in BundleBoxes : BundleOf[s] = id => s \notin Inputs[t] /\ s \notin Outputs[t]
    BY <1>5 DEF Made
  <2>3. LedgerSame(id)
    BY <2>1, <2>2 DEF LedgerSame
  <2>4. RepoSame(id) /\ DOMAIN states' \subseteq BundleBoxes
    BY <1>1 DEF RepoSame, bundleRepo, StakesInv, BundlesTypeOK
  <2>5. \A s \in Consumed(t) \cup Made(t) : BundleOf[s] # id
    BY <1>5 DEF Consumed, StakesInv, BundlesTypeOK
  <2>6. SameFor(bundleQueue, bundleQueue', id)
    BY <2>5, AppliedChannel DEF StakesInv
  <2> QED
    BY <1>2, <2>3, <2>4, <2>6, TidyStays
<1> QED
  BY <1>3, <1>4, <1>5

LEMMA GhostUnapplied ==
    ASSUME StakesInv, GhostInv, NEW t \in Txs, HandleBundlesUnapplied(t)
    PROVE  GhostInv'
<1> SUFFICES ASSUME NEW id \in BundleIds, id \notin touched'
             PROVE  Tidy(id)'
  BY DEF GhostInv
<1>1. /\ UnappliedTx(t) /\ UNCHANGED bundleRepo /\ id \notin touched
      /\ \A s \in (Inputs[t] \cup Outputs[t]) \cap BundleBoxes : BundleOf[s] # id
  BY DEF HandleBundlesUnapplied
<1>2. Tidy(id)
  BY <1>1 DEF GhostInv
<1>3. /\ Unspent \ Outputs[t] \subseteq Unspent'
      /\ Unspent' \subseteq (Unspent \ Outputs[t]) \cup Inputs[t]
      /\ Created' = Created \ Outputs[t]
  BY <1>1, UnappliedStakes DEF StakesInv
<1>4. \A s \in BundleBoxes : BundleOf[s] = id => s \notin Inputs[t] /\ s \notin Outputs[t]
  BY <1>1
<1>5. LedgerSame(id)
  BY <1>3, <1>4 DEF LedgerSame
<1>6. RepoSame(id) /\ DOMAIN states' \subseteq BundleBoxes
  BY <1>1 DEF RepoSame, bundleRepo, StakesInv, BundlesTypeOK
<1>7. \A s \in Consumed(t) \cup Made(t) : BundleOf[s] # id
  BY <1>4 DEF Consumed, Made, StakesInv, BundlesTypeOK
<1>8. SameFor(bundleQueue, bundleQueue', id)
  BY <1>7, UnappliedChannel DEF StakesInv
<1> QED
  BY <1>2, <1>5, <1>6, <1>8, TidyStays

\* The channel without its head, for a bundle the head is not about.
LEMMA TidyShift ==
    ASSUME StakesInv, NEW id, Tidy(id), RepoSame(id), DOMAIN states' \subseteq BundleBoxes,
           chain' = chain, bundleQueue # <<>>, bundleQueue' = Tail(bundleQueue),
           UpdateOf(Head(bundleQueue)) # id
    PROVE  Tidy(id)'
<1>1. PICK q : q = bundleQueue
  OBVIOUS
<1>2. PICK c : c = Tail(q)
  OBVIOUS
<1>3. q \in Seq(BundleUpdate) /\ q # <<>> /\ bundleQueue' = c /\ UpdateOf(Head(q)) # id
  BY <1>1, <1>2 DEF StakesInv
<1>4. /\ 1 \in DOMAIN q /\ q[1] = Head(q)
      /\ \A i \in DOMAIN c : i \in Nat \ {0} /\ i + 1 \in DOMAIN q /\ c[i] = q[i + 1]
      /\ \A k \in DOMAIN q : k = 1 \/ \E i \in DOMAIN c : k = i + 1
  BY <1>2, <1>3, TailIndex
<1>5. /\ \A i \in DOMAIN c : IsAbout(c, id, i) <=> IsAbout(q, id, i + 1)
      /\ \A i \in DOMAIN c : LastAbout(c, id, i) => LastAbout(q, id, i + 1)
      /\ About(q, id) <=> About(c, id)
      /\ \A i \in DOMAIN c : FirstAbout(c, id, i) => FirstAbout(q, id, i + 1)
  <2>1. q \in Seq(BundleUpdate) /\ q # <<>> /\ UpdateOf(Head(q)) # id
    BY <1>3
  <2>2. /\ \A i \in DOMAIN Tail(q) : IsAbout(Tail(q), id, i) <=> IsAbout(q, id, i + 1)
        /\ \A i \in DOMAIN Tail(q) : LastAbout(Tail(q), id, i) => LastAbout(q, id, i + 1)
        /\ About(q, id) <=> About(Tail(q), id)
        /\ \A i \in DOMAIN Tail(q) : FirstAbout(Tail(q), id, i) => FirstAbout(q, id, i + 1)
    BY ONLY <2>1, TailAbout
  <2> QED
    BY <1>2, <2>2
<1>6. ~IsAbout(q, id, 1)
  BY <1>3, <1>4 DEF IsAbout
<1>7. Unspent' = Unspent /\ Created' = Created
  BY SameStakes DEF StakesInv
<1>8. TidyPuts(id, q) /\ TidyElimination(id, q) /\ TidyLedger(id, q)
  BY <1>1 DEF Tidy
<1>9. \A i : IsAbout(q, id, i) /\ q[i].new # NoBox =>
         q[i].new \in BundleBoxes /\ BundleOf[q[i].new] = id
  BY <1>1, QueuedStates
<1>10. TidyRepo(id)'
  BY <1>7, TidyRepoStays DEF Tidy
<1>11. TidyPuts(id, c)'
  <2>1. ASSUME NEW i \in DOMAIN c, IsAbout(c, id, i), c[i].new # NoBox
        PROVE  c[i].new \in Created' \ DOMAIN states' /\ c[i].ix = EpochIx(c[i].new)
    <3>1. i + 1 \in DOMAIN q /\ IsAbout(q, id, i + 1) /\ c[i] = q[i + 1]
      BY <1>4, <1>5, <2>1
    <3> QED
      BY <1>7, <1>8, <1>9, <2>1, <3>1 DEF TidyPuts, RepoSame
  <2>2. ASSUME NEW i \in DOMAIN c, NEW j \in DOMAIN c, IsAbout(c, id, i), IsAbout(c, id, j),
               c[i].new = c[j].new
        PROVE  i = j
    <3>1. i + 1 = j + 1
      BY <1>4, <1>5, <1>8, <2>2 DEF TidyPuts
    <3> QED
      BY <1>4, <3>1
  <2>3. ASSUME NEW i \in DOMAIN c, NEW j \in DOMAIN c, IsAbout(c, id, i), IsAbout(c, id, j), i < j,
               \A k \in DOMAIN c : IsAbout(c, id, k) => k <= i \/ j <= k
        PROVE  OneEpoch(c[i].new, c[j].new)
    <3>1. /\ i + 1 \in DOMAIN q /\ j + 1 \in DOMAIN q /\ IsAbout(q, id, i + 1) /\ IsAbout(q, id, j + 1)
          /\ c[i] = q[i + 1] /\ c[j] = q[j + 1]
      BY <1>4, <1>5, <2>3
    <3>2. i + 1 < j + 1
      BY <1>4, <2>3
    <3>3. ASSUME NEW k \in DOMAIN q, IsAbout(q, id, k)
          PROVE  k <= i + 1 \/ j + 1 <= k
      <4>1. PICK x \in DOMAIN c : k = x + 1
        BY <1>4, <1>6, <3>3
      <4>2. x <= i \/ j <= x
        BY <1>5, <2>3, <3>3, <4>1
      <4> QED
        BY <1>4, <4>1, <4>2
    <3> QED
      BY <1>8, <3>1, <3>2, <3>3 DEF TidyPuts
  <2>4. ASSUME NEW i \in DOMAIN c, FirstAbout(c, id, i), c[i].new # NoBox, id \in DOMAIN lastConf'
        PROVE  OneEpoch(lastConf'[id], c[i].new)
    <3>1. i + 1 \in DOMAIN q /\ FirstAbout(q, id, i + 1) /\ c[i] = q[i + 1]
      BY <1>4, <1>5, <2>4
    <3> QED
      BY <1>8, <2>4, <3>1 DEF TidyPuts, RepoSame
  <2> QED
    BY <2>1, <2>2, <2>3, <2>4 DEF TidyPuts
<1>12. TidyElimination(id, c)'
  <2> SUFFICES ASSUME NEW i \in DOMAIN c, IsAbout(c, id, i), c[i].new = NoBox
               PROVE  /\ ~c[i].undo
                      /\ \A j \in DOMAIN c : IsAbout(c, id, j) => j = i
                      /\ id \in DOMAIN lastConf' /\ lastConf'[id] = c[i].old
                      /\ c[i].ix = EpochIx(c[i].old)
                      /\ \A s \in BundleBoxes : LiveState(s)' => BundleOf[s] # id
    BY DEF TidyElimination
  <2>1. i + 1 \in DOMAIN q /\ IsAbout(q, id, i + 1) /\ c[i] = q[i + 1]
    BY <1>4, <1>5
  <2>2. /\ ~q[i + 1].undo
        /\ \A j \in DOMAIN q : IsAbout(q, id, j) => j = i + 1
        /\ id \in DOMAIN lastConf /\ lastConf[id] = q[i + 1].old
        /\ q[i + 1].ix = EpochIx(q[i + 1].old)
        /\ \A s \in BundleBoxes : LiveState(s) => BundleOf[s] # id
    BY <1>8, <2>1 DEF TidyElimination
  <2>3. \A j \in DOMAIN c : IsAbout(c, id, j) => j + 1 = i + 1
    BY <1>4, <1>5, <2>2
  <2>4. \A j \in DOMAIN c : IsAbout(c, id, j) => j = i
    BY <1>4, <2>3
  <2> QED
    BY <1>7, <2>1, <2>2, <2>4 DEF RepoSame, LiveState
<1>13. TidyLedger(id, c)'
  <2>1. ASSUME NEW i \in DOMAIN c, LastAbout(c, id, i), c[i].new # NoBox
        PROVE  c[i].new \in Unspent'
    BY <1>4, <1>5, <1>7, <1>8, <2>1 DEF TidyLedger
  <2>2. ~About(c, id) /\ id \in DOMAIN lastConf' => lastConf'[id] \in Unspent'
    BY <1>5, <1>7, <1>8 DEF TidyLedger, RepoSame
  <2> QED
    BY <2>1, <2>2 DEF TidyLedger
<1> QED
  BY <1>10, <1>3, <1>11, <1>12, <1>13, TidyNext

\* The stream applies a put of the bundle.
LEMMA TidyPut ==
    ASSUME StakesInv, NEW id, Tidy(id), chain' = chain,
           bundleQueue # <<>>, bundleQueue' = Tail(bundleQueue), UpdateOf(Head(bundleQueue)) = id,
           NEW s \in BundleBoxes, NEW ix \in 1 .. (EpochNum + 1),
           Head(bundleQueue).new = s, Head(bundleQueue).ix = ix, BundleOf[s] = id, PutConfirmed(s, ix)
    PROVE  Tidy(id)'
<1>1. PICK q : q = bundleQueue
  OBVIOUS
<1>2. PICK c : c = Tail(q)
  OBVIOUS
<1>3. q \in Seq(BundleUpdate) /\ q # <<>> /\ bundleQueue' = c /\ UpdateOf(Head(q)) = id
  BY <1>1, <1>2 DEF StakesInv
<1>4. /\ 1 \in DOMAIN q /\ q[1] = Head(q)
      /\ \A i \in DOMAIN c : i \in Nat \ {0} /\ i + 1 \in DOMAIN q /\ c[i] = q[i + 1]
      /\ \A k \in DOMAIN q : k = 1 \/ \E i \in DOMAIN c : k = i + 1
  BY <1>2, <1>3, TailIndex
<1>5. /\ \A i \in DOMAIN c : IsAbout(c, id, i) <=> IsAbout(q, id, i + 1)
      /\ \A i \in DOMAIN c : LastAbout(c, id, i) => LastAbout(q, id, i + 1)
      /\ ~About(c, id) => LastAbout(q, id, 1)
      /\ FirstAbout(q, id, 1)
      /\ \A i \in DOMAIN c : FirstAbout(c, id, i) =>
            \A k \in DOMAIN q : IsAbout(q, id, k) => k <= 1 \/ i + 1 <= k
  <2>1. q \in Seq(BundleUpdate) /\ q # <<>> /\ UpdateOf(Head(q)) = id
    BY <1>3
  <2>2. /\ \A i \in DOMAIN Tail(q) : IsAbout(Tail(q), id, i) <=> IsAbout(q, id, i + 1)
        /\ \A i \in DOMAIN Tail(q) : LastAbout(Tail(q), id, i) => LastAbout(q, id, i + 1)
        /\ ~About(Tail(q), id) => LastAbout(q, id, 1)
        /\ FirstAbout(q, id, 1)
        /\ \A i \in DOMAIN Tail(q) : FirstAbout(Tail(q), id, i) =>
              \A k \in DOMAIN q : IsAbout(q, id, k) => k <= 1 \/ i + 1 <= k
    BY ONLY <2>1, TailAbout
  <2> QED
    BY <1>2, <2>2
<1>6. IsAbout(q, id, 1) /\ q[1].new = s /\ q[1].ix = ix /\ s # NoBox
  BY <1>1, <1>3, <1>4, BundleFacts DEF IsAbout
<1>7. Unspent' = Unspent /\ Created' = Created
  BY SameStakes DEF StakesInv
<1>8. TidyRepo(id) /\ TidyPuts(id, q) /\ TidyElimination(id, q) /\ TidyLedger(id, q)
  BY <1>1 DEF Tidy
<1>9. /\ s \in Created /\ s \notin DOMAIN states /\ ix = EpochIx(s)
      /\ id \in DOMAIN lastConf => OneEpoch(lastConf[id], s)
  BY <1>4, <1>5, <1>6, <1>8 DEF TidyPuts
<1>10. /\ DOMAIN states' = DOMAIN states \cup {s} /\ states'[s] = ix
       /\ \A r \in DOMAIN states : r # s => states'[r] = states[r]
       /\ id \in DOMAIN lastConf' /\ lastConf'[id] = s
       /\ epochKeys' = (epochKeys \cup {<<ix, id>>}) \ {<<ix - 1, id>>}
  BY DEF PutConfirmed, With, EpochKeysAfter
<1>11. \A i \in DOMAIN c : IsAbout(c, id, i) => i + 1 # 1
  BY <1>4
<1>12. TidyRepo(id)'
  <2>1. ASSUME NEW e
        PROVE  <<e, id>> \in epochKeys' <=> e = EpochIx(s)
    <3>1. ix # ix - 1
      OBVIOUS
    <3>2. <<e, id>> \in epochKeys' <=> (<<e, id>> \in epochKeys \/ e = ix) /\ e # ix - 1
      BY <1>10
    <3>3. ASSUME id \in DOMAIN lastConf
          PROVE  EpochIx(lastConf[id]) = ix \/ EpochIx(lastConf[id]) = ix - 1
      <4>1. lastConf[id] \in BundleBoxes
        BY <3>3, ConfirmedState
      <4>2. EpochNum \in Nat /\ EpochsLeft[lastConf[id]] \in Nat /\ EpochsLeft[s] \in Nat
        BY <4>1, BundleFacts
      <4> QED
        BY <1>9, <3>3, <4>2 DEF OneEpoch, EpochIx
    <3>4. <<e, id>> \in epochKeys => e = ix \/ e = ix - 1
      BY <1>8, <3>3 DEF TidyRepo
    <3> QED
      BY <1>9, <3>1, <3>2, <3>4
  <2>2. \A r \in DOMAIN states' : BundleOf[r] = id => r \in Created' /\ states'[r] = EpochIx(r)
    BY <1>7, <1>8, <1>9, <1>10 DEF TidyRepo
  <2> QED
    BY <1>10, <2>1, <2>2 DEF TidyRepo
<1>13. TidyPuts(id, c)'
  <2>1. ASSUME NEW i \in DOMAIN c, IsAbout(c, id, i), c[i].new # NoBox
        PROVE  c[i].new \in Created' \ DOMAIN states' /\ c[i].ix = EpochIx(c[i].new)
    <3>1. i + 1 \in DOMAIN q /\ IsAbout(q, id, i + 1) /\ c[i] = q[i + 1] /\ i + 1 # 1
      BY <1>4, <1>5, <1>11, <2>1
    <3>2. q[i + 1].new # s
      BY <1>4, <1>6, <1>8, <3>1 DEF TidyPuts
    <3> QED
      BY <1>7, <1>8, <1>10, <2>1, <3>1, <3>2 DEF TidyPuts
  <2>2. ASSUME NEW i \in DOMAIN c, NEW j \in DOMAIN c, IsAbout(c, id, i), IsAbout(c, id, j),
               c[i].new = c[j].new
        PROVE  i = j
    <3>1. i + 1 = j + 1
      BY <1>4, <1>5, <1>8, <2>2 DEF TidyPuts
    <3> QED
      BY <1>4, <3>1
  <2>3. ASSUME NEW i \in DOMAIN c, NEW j \in DOMAIN c, IsAbout(c, id, i), IsAbout(c, id, j), i < j,
               \A k \in DOMAIN c : IsAbout(c, id, k) => k <= i \/ j <= k
        PROVE  OneEpoch(c[i].new, c[j].new)
    <3>1. /\ i + 1 \in DOMAIN q /\ j + 1 \in DOMAIN q /\ IsAbout(q, id, i + 1) /\ IsAbout(q, id, j + 1)
          /\ c[i] = q[i + 1] /\ c[j] = q[j + 1]
      BY <1>4, <1>5, <2>3
    <3>2. i + 1 < j + 1
      BY <1>4, <2>3
    <3>3. ASSUME NEW k \in DOMAIN q, IsAbout(q, id, k)
          PROVE  k <= i + 1 \/ j + 1 <= k
      <4>1. CASE k = 1
        BY <1>4, <4>1
      <4>2. ASSUME NEW x \in DOMAIN c, k = x + 1
            PROVE  k <= i + 1 \/ j + 1 <= k
        <5>1. x <= i \/ j <= x
          BY <1>5, <2>3, <3>3, <4>2
        <5> QED
          BY <1>4, <4>2, <5>1
      <4> QED
        BY <1>4, <4>1, <4>2
    <3> QED
      BY <1>8, <3>1, <3>2, <3>3 DEF TidyPuts
  <2>4. ASSUME NEW i \in DOMAIN c, FirstAbout(c, id, i), c[i].new # NoBox, id \in DOMAIN lastConf'
        PROVE  OneEpoch(lastConf'[id], c[i].new)
    <3>1. i + 1 \in DOMAIN q /\ IsAbout(q, id, i + 1) /\ c[i] = q[i + 1] /\ 1 < i + 1
      BY <1>4, <1>5, <2>4 DEF FirstAbout
    <3>2. \A k \in DOMAIN q : IsAbout(q, id, k) => k <= 1 \/ i + 1 <= k
      BY <1>5, <2>4
    <3> QED
      BY <1>4, <1>6, <1>8, <1>10, <3>1, <3>2 DEF TidyPuts
  <2> QED
    BY <2>1, <2>2, <2>3, <2>4 DEF TidyPuts
<1>14. TidyElimination(id, c)'
  <2> SUFFICES ASSUME NEW i \in DOMAIN c, IsAbout(c, id, i), c[i].new = NoBox
               PROVE  FALSE
    BY DEF TidyElimination
  <2>1. i + 1 \in DOMAIN q /\ IsAbout(q, id, i + 1) /\ q[i + 1].new = NoBox /\ i + 1 # 1
    BY <1>4, <1>5, <1>11
  <2>2. \A j \in DOMAIN q : IsAbout(q, id, j) => j = i + 1
    BY <1>8, <2>1 DEF TidyElimination
  <2> QED
    BY <1>4, <1>6, <2>1, <2>2
<1>15. TidyLedger(id, c)'
  <2>1. ASSUME NEW i \in DOMAIN c, LastAbout(c, id, i), c[i].new # NoBox
        PROVE  c[i].new \in Unspent'
    BY <1>4, <1>5, <1>7, <1>8, <2>1 DEF TidyLedger
  <2>2. ~About(c, id) => s \in Unspent'
    BY <1>4, <1>5, <1>6, <1>7, <1>8 DEF TidyLedger
  <2> QED
    BY <1>10, <2>1, <2>2 DEF TidyLedger
<1> QED
  BY <1>12, <1>3, <1>13, <1>14, <1>15, TidyNext

\* The stream applies an update of the bundle that puts no state.
LEMMA TidyGone ==
    ASSUME StakesInv, NEW id, Tidy(id), chain' = chain,
           bundleQueue # <<>>, bundleQueue' = Tail(bundleQueue), UpdateOf(Head(bundleQueue)) = id,
           Head(bundleQueue).new = NoBox, BundleOf[Head(bundleQueue).old] = id,
           \/ ~Head(bundleQueue).undo /\ Eliminate(Head(bundleQueue).old, Head(bundleQueue).ix)
           \/ Head(bundleQueue).undo /\ Invalidate(Head(bundleQueue).old)
    PROVE  Tidy(id)'
<1>1. PICK q : q = bundleQueue
  OBVIOUS
<1>2. PICK c : c = Tail(q)
  OBVIOUS
<1>3. q \in Seq(BundleUpdate) /\ q # <<>> /\ bundleQueue' = c /\ UpdateOf(Head(q)) = id
  BY <1>1, <1>2 DEF StakesInv
<1>4. /\ 1 \in DOMAIN q /\ q[1] = Head(q)
      /\ \A i \in DOMAIN c : i \in Nat \ {0} /\ i + 1 \in DOMAIN q /\ c[i] = q[i + 1]
  BY <1>2, <1>3, TailIndex
<1>5. IsAbout(q, id, 1) /\ q[1].new = NoBox
  BY <1>1, <1>3, <1>4 DEF IsAbout
<1>6. PICK u : u = q[1]
  OBVIOUS
<1>7. /\ ~u.undo /\ \A j \in DOMAIN q : IsAbout(q, id, j) => j = 1
      /\ id \in DOMAIN lastConf /\ lastConf[id] = u.old /\ u.ix = EpochIx(u.old)
  BY <1>1, <1>4, <1>5, <1>6 DEF Tidy, TidyElimination
<1>8. Eliminate(u.old, u.ix) /\ BundleOf[u.old] = id
  BY <1>1, <1>4, <1>6, <1>7
<1>9. /\ id \notin DOMAIN lastConf' /\ epochKeys' = epochKeys \ {<<u.ix, id>>} /\ states' = states
  BY <1>8 DEF Eliminate, Without
<1>10. Unspent' = Unspent /\ Created' = Created
  BY SameStakes DEF StakesInv
<1>11. \A i : ~IsAbout(c, id, i)
  <2> SUFFICES ASSUME NEW i, IsAbout(c, id, i)
               PROVE  FALSE
    OBVIOUS
  <2>1. i \in DOMAIN c /\ IsAbout(q, id, i + 1) /\ i + 1 \in DOMAIN q /\ i + 1 # 1
    BY <1>4 DEF IsAbout
  <2> QED
    BY <1>7, <2>1
<1>12. TidyRepo(id)'
  <2>1. \A e : <<e, id>> \in epochKeys => e = u.ix
    BY <1>7 DEF Tidy, TidyRepo
  <2>2. \A e : <<e, id>> \notin epochKeys'
    BY <1>9, <2>1
  <2> QED
    BY <1>9, <1>10, <2>2 DEF Tidy, TidyRepo
<1>13. TidyPuts(id, c)' /\ TidyElimination(id, c)' /\ TidyLedger(id, c)'
  BY <1>9, <1>11 DEF TidyPuts, TidyElimination, TidyLedger, FirstAbout, LastAbout
<1> QED
  BY <1>3, <1>12, <1>13, TidyNext

LEMMA GhostTrack ==
    ASSUME StakesInv, GhostInv, TrackBundle
    PROVE  GhostInv'
<1> SUFFICES ASSUME NEW id \in BundleIds, id \notin touched'
             PROVE  Tidy(id)'
  BY DEF GhostInv
<1> DEFINE u == Head(bundleQueue)
<1>1. /\ bundleQueue # <<>> /\ bundleQueue' = Tail(bundleQueue) /\ chain' = chain
      /\ touched' = touched
  BY TrackCases
<1>2. \/ /\ u.new \in BundleBoxes /\ u.new # NoBox /\ u.ix \in 1 .. (EpochNum + 1)
         /\ UpdateOf(u) = BundleOf[u.new] /\ PutConfirmed(u.new, u.ix)
      \/ /\ u.old \in BundleBoxes /\ u.new = NoBox /\ UpdateOf(u) = BundleOf[u.old]
         /\ (~u.undo /\ Eliminate(u.old, u.ix)) \/ (u.undo /\ Invalidate(u.old))
  BY TrackCases
<1>3. Tidy(id)
  BY <1>1 DEF GhostInv
<1>4. CASE UpdateOf(u) # id
  <2> HIDE DEF u
  <2>1. RepoSame(id) /\ DOMAIN states' \subseteq BundleBoxes
    <3>1. DOMAIN states \subseteq BundleBoxes
      BY DEF StakesInv, BundlesTypeOK
    <3>2. CASE u.new \in BundleBoxes /\ BundleOf[u.new] # id /\ PutConfirmed(u.new, u.ix)
      BY <3>1, <3>2 DEF RepoSame, PutConfirmed, With, EpochKeysAfter
    <3>3. CASE BundleOf[u.old] # id /\ Eliminate(u.old, u.ix)
      BY <3>1, <3>3 DEF RepoSame, Eliminate, Without
    <3>4. CASE BundleOf[u.old] # id /\ Invalidate(u.old)
      BY <3>1, <3>4 DEF RepoSame, Invalidate, Without
    <3> QED
      BY <1>2, <1>4, <3>2, <3>3, <3>4
  <2> QED
    BY <1>1, <1>3, <1>4, <2>1, TidyShift DEF u
<1>5. CASE UpdateOf(u) = id
  BY <1>1, <1>2, <1>3, <1>5, TidyPut, TidyGone
<1> QED
  BY <1>4, <1>5

\* A step that leaves the ledger and the channel alone, and the repository too
\* for the bundles it does not touch.
LEMMA GhostRepo ==
    ASSUME StakesInv, GhostInv, UNCHANGED <<chain, bundleQueue>>, touched \subseteq touched',
           DOMAIN states' \subseteq BundleBoxes, \A id \in BundleIds \ touched' : RepoSame(id)
    PROVE  GhostInv'
<1> SUFFICES ASSUME NEW id \in BundleIds, id \notin touched'
             PROVE  Tidy(id)'
  BY DEF GhostInv
<1>1. Tidy(id) /\ RepoSame(id)
  BY DEF GhostInv
<1>2. Unspent' = Unspent /\ Created' = Created
  BY SameStakes DEF StakesInv
<1>3. LedgerSame(id)
  BY <1>2 DEF LedgerSame
<1>4. SameFor(bundleQueue, bundleQueue', id)
  BY DEF SameFor
<1> QED
  BY <1>1, <1>3, <1>4, TidyStays

LEMMA GhostExecutor ==
    ASSUME StakesInv, GhostInv, ExecutorOnBundles
    PROVE  GhostInv'
<1>1. DOMAIN states \subseteq BundleBoxes
  BY DEF StakesInv, BundlesTypeOK
<1>2. UNCHANGED bundleRepo => DOMAIN states' \subseteq BundleBoxes /\ \A id \in BundleIds : RepoSame(id)
  BY <1>1 DEF bundleRepo, RepoSame
<1>3. ASSUME NEW id \in BundleIds, ReadBundle(id)
      PROVE  GhostInv'
  BY <1>2, <1>3, GhostRepo DEF ReadBundle
<1>4. CASE ResolveBundle
  BY <1>2, <1>4, GhostRepo DEF ResolveBundle
<1>5. CASE BundleUnused
  BY <1>2, <1>5, GhostRepo DEF BundleUnused
<1>6. ASSUME NEW s \in BundleBoxes, NEW ix, NEW prev, PutPredicted(s, ix, prev)
      PROVE  /\ DOMAIN states' \subseteq BundleBoxes
             /\ \A id \in BundleIds : id # BundleOf[s] => RepoSame(id)
  <2>1. DOMAIN states' \subseteq BundleBoxes
    BY <1>1, <1>6 DEF PutPredicted, With
  <2>2. ASSUME NEW id \in BundleIds, id # BundleOf[s]
        PROVE  RepoSame(id)
    BY <1>6, <2>2 DEF PutPredicted, With, RepoSame
  <2> QED
    BY <2>1, <2>2
<1>7. ASSUME NEW s \in BundleBoxes, PredictBundle(s)
      PROVE  GhostInv'
  <2>1. /\ PutPredicted(s, EpochNum - EpochsLeft[s] + 1, resolving.pred)
        /\ touched' = touched \cup {BundleOf[s]}
        /\ UNCHANGED <<chain, bundleQueue>>
    BY <1>7 DEF PredictBundle
  <2> QED
    BY <1>6, <2>1, GhostRepo
<1>8. ASSUME NEW s \in BundleBoxes, PredictDeposit(s)
      PROVE  GhostInv'
  <2>1. /\ PutPredicted(s, EpochNum - EpochsLeft[s] + 1, NoBox)
        /\ touched' = touched \cup {BundleOf[s]}
        /\ UNCHANGED <<chain, bundleQueue>>
    BY <1>8 DEF PredictDeposit
  <2> QED
    BY <1>6, <2>1, GhostRepo
<1>9. CASE BundleMissing
  <2>1. /\ Invalidate(resolving.pred)
        /\ touched' = touched \cup {BundleOf[resolving.pred]}
        /\ UNCHANGED <<chain, bundleQueue>>
    BY <1>9 DEF BundleMissing
  <2>2. DOMAIN states' \subseteq BundleBoxes
    BY <1>1, <2>1 DEF Invalidate, Without
  <2>3. ASSUME NEW id \in BundleIds, id # BundleOf[resolving.pred]
        PROVE  RepoSame(id)
    BY <2>1, <2>3 DEF Invalidate, Without, RepoSame
  <2> QED
    BY <2>1, <2>2, <2>3, GhostRepo
<1> QED
  BY <1>3, <1>4, <1>5, <1>7, <1>8, <1>9 DEF ExecutorOnBundles

LEMMA GhostRestart ==
    ASSUME StakesInv, GhostInv, BundlesRestart
    PROVE  GhostInv'
<1> DEFINE lost == {BundleOf[IF u.new = NoBox THEN u.old ELSE u.new] : u \in ToSet(bundleQueue)}
<1> SUFFICES ASSUME NEW id \in BundleIds, id \notin touched'
             PROVE  Tidy(id)'
  BY DEF GhostInv
<1>1. /\ touched' = touched \cup lost /\ bundleQueue' = <<>>
      /\ UNCHANGED <<chain, bundleRepo>>
  BY DEF BundlesRestart
<1>2. \A i \in DOMAIN bundleQueue : UpdateOf(bundleQueue[i]) \in lost
  BY DEF UpdateOf, ToSet
<1> HIDE DEF lost
<1>3. Tidy(id)
  BY <1>1 DEF GhostInv
<1>4. SameFor(bundleQueue, bundleQueue', id)
  <2>1. \A i : ~IsAbout(bundleQueue, id, i)
    BY <1>1, <1>2 DEF IsAbout
  <2>2. \A i : ~IsAbout(bundleQueue', id, i)
    BY <1>1 DEF IsAbout
  <2> QED
    BY <2>1, <2>2 DEF SameFor
<1>5. RepoSame(id) /\ DOMAIN states' \subseteq BundleBoxes
  BY <1>1 DEF RepoSame, bundleRepo, StakesInv, BundlesTypeOK
<1>6. Unspent' = Unspent /\ Created' = Created
  BY <1>1, SameStakes DEF StakesInv
<1>7. LedgerSame(id)
  BY <1>6 DEF LedgerSame
<1> QED
  BY <1>3, <1>4, <1>5, <1>7, TidyStays

LEMMA GhostInit == FeedInit /\ BundlesInit => GhostInv
<1> SUFFICES ASSUME BundlesInit, NEW id
             PROVE  Tidy(id)
  BY DEF GhostInv
<1>1. /\ DOMAIN states = {} /\ DOMAIN lastConf = {} /\ epochKeys = {} /\ bundleQueue = <<>>
      /\ DOMAIN bundleQueue = {}
  BY DEF BundlesInit
<1>2. TidyRepo(id)
  BY <1>1 DEF TidyRepo
<1>3. TidyPuts(id, bundleQueue)
  BY <1>1 DEF TidyPuts
<1>4. TidyElimination(id, bundleQueue)
  BY <1>1 DEF TidyElimination
<1>5. TidyLedger(id, bundleQueue)
  BY <1>1 DEF TidyLedger
<1> QED
  BY <1>2, <1>3, <1>4, <1>5 DEF Tidy

LEMMA GhostStep == StakesInv /\ GhostInv /\ [BundlesNext]_bundleVars => GhostInv'
<1> SUFFICES ASSUME StakesInv, GhostInv, [BundlesNext]_bundleVars
             PROVE  GhostInv'
  OBVIOUS
<1>1. CASE UNCHANGED bundleVars
  <2>1. UNCHANGED <<chain, bundleQueue, touched>> /\ UNCHANGED bundleRepo
    BY <1>1 DEF bundleVars
  <2>2. DOMAIN states' \subseteq BundleBoxes /\ \A id \in BundleIds : RepoSame(id)
    BY <2>1 DEF bundleRepo, RepoSame, StakesInv, BundlesTypeOK
  <2> QED
    BY <2>1, <2>2, GhostRepo
<1> QED
  BY <1>1, GhostApplied, GhostUnapplied, GhostTrack, GhostExecutor, GhostRestart DEF BundlesNext

(***************************************************************************)
(* With the channel empty, select returns a bundle that was never          *)
(* predicted, undone or invalidated only for the epoch of its unspent      *)
(* state, and a redeemed one never: put_confirmed, which deletes the key   *)
(* just before the one it writes, and eliminate leave none behind, for as  *)
(* long as the program was known and no compounding skipped an epoch.      *)
(***************************************************************************)
THEOREM NoGhosts == BundlesSpec => []NoGhostStakers
<1>1. StakesInv /\ GhostInv => NoGhostStakers
  <2> SUFFICES ASSUME StakesInv, GhostInv, bundleQueue = <<>>, NEW e, NEW id \in Select(e) \ touched
               PROVE  \E s \in BundleBoxes : LiveState(s) /\ BundleOf[s] = id /\ states[s] = e
    BY DEF NoGhostStakers
  <2>1. id \in BundleIds /\ <<e, id>> \in epochKeys /\ Tidy(id)
    BY DEF Select, GhostInv
  <2>2. /\ id \in DOMAIN lastConf /\ e = EpochIx(lastConf[id]) /\ lastConf[id] \in DOMAIN states
    BY <2>1 DEF Tidy, TidyRepo
  <2>3. lastConf[id] \in BundleBoxes /\ BundleOf[lastConf[id]] = id
    BY <2>2, ConfirmedState
  <2>4. states[lastConf[id]] = e
    BY <2>1, <2>2, <2>3 DEF Tidy, TidyRepo
  <2>5. ~About(bundleQueue, id)
    BY DEF About
  <2>6. LiveState(lastConf[id])
    BY <2>1, <2>2, <2>3, <2>5 DEF Tidy, TidyLedger, LiveState
  <2> QED
    BY <2>3, <2>4, <2>6
<1>2. BundlesSpec => []GhostInv
  BY GhostInit, GhostStep, StakesInvariant, PTL DEF BundlesSpec
<1> QED
  BY <1>1, <1>2, StakesInvariant, PTL
-----------------------------------------------------------------------------
(***************************************************************************)
(* Orders and bundles together.                                            *)
(***************************************************************************)
LEMMA OrdersStepsBundles == [OrdersNext]_<<bundleVars, orderVars>> => [BundlesNext]_bundleVars
<1> SUFFICES ASSUME [OrdersNext]_<<bundleVars, orderVars>>
             PROVE  [BundlesNext]_bundleVars
  OBVIOUS
<1>1. ASSUME NEW t \in Txs, AppliedEvent(t) \/ UnappliedEvent(t)
      PROVE  BundlesNext
  BY <1>1 DEF AppliedEvent, UnappliedEvent, BundlesNext
<1>2. CASE TrackOrder
  BY <1>2 DEF TrackOrder
<1>3. CASE TrackBundle \/ ExecutorOnBundles
  BY <1>3 DEF BundlesNext
<1>4. ASSUME NEW o \in OrderBoxes, OrderLeaves(o)
      PROVE  UNCHANGED bundleVars
  BY <1>4 DEF OrderLeaves
<1>5. CASE OrdersRestart
  BY <1>5 DEF OrdersRestart, BundlesNext
<1>6. CASE UNCHANGED <<bundleVars, orderVars>>
  BY <1>6
<1> QED
  BY <1>1, <1>2, <1>3, <1>4, <1>5, <1>6 DEF OrdersNext

(***************************************************************************)
(* The composition of event_sink.rs is a run of the bundles: no handler or *)
(* stream of orders disturbs the repository of bundles.                    *)
(***************************************************************************)
THEOREM OrdersImplementBundles == OrdersSpec => BundlesSpec
  BY OrdersStepsBundles, PTL DEF OrdersSpec, BundlesSpec

OrderHistories == dropped \cup missing \cup unseen \subseteq OrderBoxes

LEMMA HistoriesStep ==
    OrdersInv /\ OrderHistories /\ [OrdersNext]_<<bundleVars, orderVars>> => OrderHistories'
<1> SUFFICES ASSUME OrdersInv, OrderHistories, [OrdersNext]_<<bundleVars, orderVars>>
             PROVE  OrderHistories'
  OBVIOUS
<1>0. /\ \A i \in DOMAIN orderQueue : orderQueue[i].box \in OrderBoxes
      /\ backlog \subseteq OrderBoxes
  <2>1. \A u \in OrderUpdate : u.box \in OrderBoxes
    BY DEF OrderUpdate
  <2>2. \A i \in DOMAIN orderQueue : orderQueue[i] \in OrderUpdate
    BY DEF OrdersInv
  <2> QED
    BY <2>1, <2>2 DEF OrdersInv
<1>1. ASSUME NEW t \in Txs, AppliedEvent(t) \/ UnappliedEvent(t)
      PROVE  OrderHistories'
  BY <1>1 DEF AppliedEvent, UnappliedEvent, HandleOrdersApplied, HandleOrdersUnapplied,
              OrderHistories
<1>2. CASE TrackOrder
  <2>1. PICK u : u = Head(orderQueue) /\ u.box \in OrderBoxes
    <3>1. orderQueue \in Seq(OrderUpdate) /\ orderQueue # <<>>
      BY <1>2 DEF TrackOrder, OrdersInv
    <3>2. 1 \in DOMAIN orderQueue /\ Head(orderQueue) = orderQueue[1]
      BY <3>1
    <3> QED
      BY <1>0, <3>2
  <2>2. dropped' \subseteq dropped \cup {u.box} /\ missing' = missing /\ unseen' = unseen
    BY <1>2, <2>1 DEF TrackOrder
  <2> QED
    BY <2>1, <2>2 DEF OrderHistories
<1>3. CASE UNCHANGED orderVars
  BY <1>3 DEF orderVars, OrderHistories
<1>4. ASSUME NEW o \in OrderBoxes, OrderLeaves(o)
      PROVE  OrderHistories'
  BY <1>4 DEF OrderLeaves, OrderHistories
<1>5. CASE OrdersRestart
  <2>1. PICK lost : /\ lost = {u.box : u \in ToSet(orderQueue)}
                    /\ missing' = missing \cup lost /\ unseen' = unseen \cup lost
                    /\ dropped' = dropped
    BY <1>5 DEF OrdersRestart
  <2>2. lost \subseteq OrderBoxes
    BY <1>0, <2>1 DEF ToSet
  <2> QED
    BY <2>1, <2>2 DEF OrderHistories
<1>6. CASE UNCHANGED <<bundleVars, orderVars>>
  BY <1>6 DEF orderVars, OrderHistories
<1> QED
  BY <1>1, <1>2, <1>3, <1>4, <1>5, <1>6 DEF OrdersNext

(***************************************************************************)
(* Type correctness of the ledger, the backlog's store, the repository of  *)
(* bundles and their channels, in the composition of event_sink.rs.        *)
(***************************************************************************)
THEOREM OrdersTypeCorrect == OrdersSpec => [](ChainTypeOK /\ BundlesTypeOK /\ OrdersTypeOK)
<1>1. FeedInit /\ BundlesInit /\ OrdersInit => OrderHistories
  BY DEF OrdersInit, OrderHistories
<1>2. OrdersInv /\ OrderHistories => ChainTypeOK /\ OrdersTypeOK
  BY DEF OrdersInv, OrderHistories, ChainInv, OrderUpdate, ChainTypeOK, OrdersTypeOK
<1> QED
  BY <1>1, <1>2, HistoriesStep, OrdersInductive, OrdersImplementBundles, BundlesTypeCorrect, PTL
     DEF OrdersSpec

(***************************************************************************)
(* convert_order_proto drops a redeem order only when its bundle is not on *)
(* the ledger, an update of the bundle is still in the channel, or the     *)
(* confirmed state of the bundle is unsure.                                *)
(***************************************************************************)
THEOREM DropsAreJustified == OrdersSpec => DropsOnlyUnknown
<1>1. StakesInv /\ [OrdersNext]_<<bundleVars, orderVars>> =>
         [\A o \in dropped' \ dropped :
             \/ \A s \in BundleBoxes : LiveState(s) => BundleOf[s] # RedeemOf[o]
             \/ \E i \in DOMAIN bundleQueue : UpdateOf(bundleQueue[i]) = RedeemOf[o]
             \/ RedeemOf[o] \in unsure]_<<bundleVars, orderVars>>
  <2> SUFFICES ASSUME StakesInv, OrdersNext, NEW o \in dropped' \ dropped,
                      NEW s \in BundleBoxes, LiveState(s), BundleOf[s] = RedeemOf[o],
                      \A i \in DOMAIN bundleQueue : UpdateOf(bundleQueue[i]) # RedeemOf[o],
                      RedeemOf[o] \notin unsure
               PROVE  FALSE
    OBVIOUS
  <2>1. TrackOrder
    BY DEF OrdersNext, AppliedEvent, UnappliedEvent, HandleOrdersApplied, HandleOrdersUnapplied,
           OrderLeaves, OrdersRestart, orderVars
  <2>2. ~Convertible(o)
    BY <2>1 DEF TrackOrder
  <2>3. Lookup(lastConf, RedeemOf[o]) = NoBox
    BY <2>2 DEF Convertible
  <2>4. WillKnow(s)
    BY DEF StakesInv
  <2>5. Known(s)
    BY <2>4 DEF WillKnow, LastAbout, IsAbout
  <2>6. Lookup(lastConf, RedeemOf[o]) = s
    BY <2>5 DEF Known, Lookup
  <2> QED
    BY <2>3, <2>6, BundleFacts
<1>2. OrdersSpec => []StakesInv
  BY OrdersImplementBundles, StakesInvariant, PTL
<1> QED
  BY <1>1, <1>2, PTL DEF OrdersSpec, DropsOnlyUnknown

-----------------------------------------------------------------------------
(***************************************************************************)
(* The walk along the links of predictions.                                *)
(***************************************************************************)
\* The recursive functions of Walk and Ancestors exist: step n has the ends of
\* the paths of n steps along a relation.
Iterates(w, U, R, s) ==
    /\ w = [n \in Nat |-> w[n]]
    /\ w[0] = {s}
    /\ \A n \in Nat \ {0} : w[n] = {b \in U : \E a \in w[n - 1] : <<a, b>> \in R}

LEMMA IteratesExists ==
    ASSUME NEW U, NEW R, NEW s \in U
    PROVE  \E w : Iterates(w, U, R, s)
<1> DEFINE Path(p, n) == p[0] = s /\ \A i \in 0 .. n - 1 : <<p[i], p[i + 1]>> \in R
           w == [n \in Nat |-> {b \in U : \E p \in [Nat -> U] : Path(p, n) /\ p[n] = b}]
<1>1. w[0] = {s}
  <2>1. \A p \in [Nat -> U] : Path(p, 0) => p[0] = s
    OBVIOUS
  <2>2. [n \in Nat |-> s] \in [Nat -> U] /\ Path([n \in Nat |-> s], 0)
    OBVIOUS
  <2> QED
    BY <2>1, <2>2
<1>2. ASSUME NEW n \in Nat, n # 0
      PROVE  w[n] = {b \in U : \E a \in w[n - 1] : <<a, b>> \in R}
  <2>0. n - 1 \in Nat /\ n - 1 + 1 = n /\ n - 1 \in 0 .. n - 1 /\ n - 1 # n
    BY <1>2
  <2>1. ASSUME NEW b \in U, NEW p \in [Nat -> U], Path(p, n), p[n] = b
        PROVE  \E a \in w[n - 1] : <<a, b>> \in R
    <3>1. <<p[n - 1], b>> \in R /\ p[n - 1] \in U
      BY <2>0, <2>1
    <3>2. Path(p, n - 1)
      <4>1. \A i \in 0 .. n - 1 - 1 : i \in 0 .. n - 1
        BY <1>2
      <4> QED
        BY <2>1, <4>1
    <3>3. p[n - 1] \in w[n - 1]
      BY <2>0, <3>1, <3>2
    <3> QED
      BY <3>1, <3>3
  <2>2. ASSUME NEW b \in U, NEW a \in w[n - 1], <<a, b>> \in R
        PROVE  \E p \in [Nat -> U] : Path(p, n) /\ p[n] = b
    <3>1. PICK p \in [Nat -> U] : Path(p, n - 1) /\ p[n - 1] = a
      BY <2>0
    <3>2. PICK q : q = [p EXCEPT ![n] = b]
      OBVIOUS
    <3>3. /\ q \in [Nat -> U] /\ q[n] = b
          /\ \A i \in Nat : i # n => q[i] = p[i]
      BY <3>2
    <3>4. q[0] = s
      BY <1>2, <3>1, <3>3
    <3>5. ASSUME NEW i \in 0 .. n - 1
          PROVE  <<q[i], q[i + 1]>> \in R
      <4>1. CASE i = n - 1
        BY <2>0, <2>2, <3>1, <3>3, <4>1
      <4>2. CASE i # n - 1
        <5>1. i \in 0 .. n - 1 - 1 /\ i \in Nat /\ i + 1 \in Nat /\ i # n /\ i + 1 # n
          BY <4>2
        <5> QED
          BY <3>1, <3>3, <5>1
      <4> QED
        BY <4>1, <4>2
    <3> QED
      BY <3>3, <3>4, <3>5
  <2>3. w[n] = {b \in U : \E p \in [Nat -> U] : Path(p, n) /\ p[n] = b}
    OBVIOUS
  <2> HIDE DEF w, Path
  <2> QED
    BY <2>1, <2>2, <2>3
<1>3. w = [n \in Nat |-> w[n]]
  OBVIOUS
<1> HIDE DEF w
<1>4. Iterates(w, U, R, s)
  BY <1>1, <1>2, <1>3 DEF Iterates
<1> QED
  BY <1>4

LEMMA WalkSteps ==
    ASSUME NEW s
    PROVE  /\ Walk(s)[0] = {s}
           /\ \A n \in Nat : Walk(s)[n + 1] = {link[r] : r \in Walk(s)[n] \cap DOMAIN link}
<1> DEFINE F(w) == [n \in Nat |-> IF n = 0 THEN {s} ELSE {link[r] : r \in w[n - 1] \cap DOMAIN link}]
           U == {s} \cup {link[r] : r \in DOMAIN link}
           R == {<<r, link[r]>> : r \in DOMAIN link}
<1>1. PICK w : Iterates(w, U, R, s)
  <2>1. PICK V, Q : V = U /\ Q = R
    OBVIOUS
  <2>2. s \in V
    BY <2>1
  <2>3. \E w : Iterates(w, V, Q, s)
    BY ONLY <2>2, IteratesExists
  <2> QED
    BY <2>1, <2>3
<1>2. w = F(w)
  <2>1. ASSUME NEW n \in Nat
        PROVE  {b \in U : \E a \in w[n - 1] : <<a, b>> \in R}
                  = {link[r] : r \in w[n - 1] \cap DOMAIN link}
    OBVIOUS
  <2>2. ASSUME NEW n \in Nat
        PROVE  w[n] = F(w)[n]
    BY <1>1, <2>1 DEF Iterates
  <2>3. w = [n \in Nat |-> w[n]] /\ F(w) = [n \in Nat |-> F(w)[n]]
    BY <1>1 DEF Iterates
  <2> HIDE DEF F
  <2> QED
    BY <2>2, <2>3
<1>3. Walk(s) = CHOOSE v : v = F(v)
  BY DEF Walk
<1>4. Walk(s) = F(Walk(s))
  <2> HIDE DEF F
  <2> QED
    BY <1>2, <1>3
<1>5. PICK v : v = Walk(s)
  OBVIOUS
<1>6. v = F(v)
  BY <1>4, <1>5
<1>7. \A n \in Nat : n + 1 \in Nat /\ n + 1 # 0 /\ n + 1 - 1 = n
  OBVIOUS
<1>8. v[0] = {s}
  BY <1>6
<1>9. \A n \in Nat : v[n + 1] = {link[r] : r \in v[n] \cap DOMAIN link}
  BY <1>6, <1>7
<1> QED
  BY <1>5, <1>8, <1>9

LEMMA AncestorSteps ==
    ASSUME NEW s
    PROVE  /\ Ancestors(s)[0] = {s}
           /\ \A n \in Nat : Ancestors(s)[n + 1] =
                 {r \in BundleBoxes : \E q \in Ancestors(s)[n] : Follows(q, r)}
<1> DEFINE F(w) == [n \in Nat |-> IF n = 0 THEN {s}
                                  ELSE {r \in BundleBoxes : \E q \in w[n - 1] : Follows(q, r)}]
           U == {s} \cup BundleBoxes
           R == {e \in U \X BundleBoxes : Follows(e[1], e[2])}
<1>1. PICK w : Iterates(w, U, R, s)
  <2>1. PICK V, Q : V = U /\ Q = R
    OBVIOUS
  <2>2. s \in V
    BY <2>1
  <2>3. \E w : Iterates(w, V, Q, s)
    BY ONLY <2>2, IteratesExists
  <2> QED
    BY <2>1, <2>3
<1>1a. \A n \in Nat : w[n] \subseteq U
  BY <1>1 DEF Iterates
<1>2. w = F(w)
  <2>1. ASSUME NEW n \in Nat, n # 0
        PROVE  {b \in U : \E a \in w[n - 1] : <<a, b>> \in R}
                  = {r \in BundleBoxes : \E q \in w[n - 1] : Follows(q, r)}
    <3>1. w[n - 1] \subseteq U
      BY <1>1a, <2>1
    <3> QED
      BY <3>1
  <2>2. ASSUME NEW n \in Nat
        PROVE  w[n] = F(w)[n]
    BY <1>1, <2>1 DEF Iterates
  <2>3. w = [n \in Nat |-> w[n]] /\ F(w) = [n \in Nat |-> F(w)[n]]
    BY <1>1 DEF Iterates
  <2> HIDE DEF F
  <2> QED
    BY <2>2, <2>3
<1>3. Ancestors(s) = CHOOSE v : v = F(v)
  BY DEF Ancestors
<1>4. Ancestors(s) = F(Ancestors(s))
  <2> HIDE DEF F
  <2> QED
    BY <1>2, <1>3
<1>5. PICK v : v = Ancestors(s)
  OBVIOUS
<1>6. v = F(v)
  BY <1>4, <1>5
<1>7. \A n \in Nat : n + 1 \in Nat /\ n + 1 # 0 /\ n + 1 - 1 = n
  OBVIOUS
<1>8. v[0] = {s}
  BY <1>6
<1>9. \A n \in Nat : v[n + 1] = {r \in BundleBoxes : \E q \in v[n] : Follows(q, r)}
  BY <1>6, <1>7
<1> QED
  BY <1>5, <1>8, <1>9

\* A prediction spends the state its link leads to.
LinksFollow == \A s \in DOMAIN link : Follows(s, link[s])

LEMMA WalkFollows ==
    ASSUME StakesInv, LinksFollow, NEW s, NEW n \in Nat
    PROVE  Walk(s)[n] \subseteq Ancestors(s)[n]
<1> DEFINE S == {k \in Nat : Walk(s)[k] \subseteq Ancestors(s)[k]}
<1>1. 0 \in S
  BY WalkSteps, AncestorSteps
<1>2. ASSUME NEW k \in Nat, k \in S
      PROVE  k + 1 \in S
  <2>1. Walk(s)[k + 1] = {link[r] : r \in Walk(s)[k] \cap DOMAIN link}
    BY WalkSteps
  <2>2. Ancestors(s)[k + 1] = {r \in BundleBoxes : \E q \in Ancestors(s)[k] : Follows(q, r)}
    BY AncestorSteps
  <2>3. \A r \in DOMAIN link : link[r] \in BundleBoxes /\ Follows(r, link[r])
    BY DEF StakesInv, BundlesTypeOK, LinksFollow
  <2>4. Walk(s)[k] \subseteq Ancestors(s)[k]
    BY <1>2
  <2>5. Walk(s)[k + 1] \subseteq Ancestors(s)[k + 1]
    BY <2>1, <2>2, <2>3, <2>4
  <2> QED
    BY <2>5
<1> HIDE DEF S
<1>3. Nat \subseteq S
  BY <1>1, <1>2, Induction
<1> QED
  BY <1>3 DEF S

FollowInv == LinksFollow /\ ResolvedFollows

LEMMA FollowInit == FeedInit /\ BundlesInit => FollowInv
<1> SUFFICES ASSUME BundlesInit
             PROVE  FollowInv
  OBVIOUS
<1>1. DOMAIN link = {} /\ resolving.phase = "idle"
  BY DEF BundlesInit, NoJob
<1> QED
  BY <1>1 DEF FollowInv, LinksFollow, ResolvedFollows

\* Deleting links, and a job that is given up, disturb nothing.
LEMMA FollowRest ==
    ASSUME FollowInv, \A s \in DOMAIN link' : s \in DOMAIN link /\ link'[s] = link[s],
           resolving' = resolving \/ resolving'.phase # "resolved"
    PROVE  FollowInv'
  BY DEF FollowInv, LinksFollow, ResolvedFollows

LEMMA FollowStep == StakesInv /\ FollowInv /\ [BundlesNext]_bundleVars => FollowInv'
<1> SUFFICES ASSUME StakesInv, FollowInv, [BundlesNext]_bundleVars
             PROVE  FollowInv'
  OBVIOUS
<1>1. NoJob.phase # "resolved"
  BY DEF NoJob
<1>2. CASE UNCHANGED bundleVars
  BY <1>2, FollowRest DEF bundleVars, bundleRepo
<1>3. ASSUME NEW t \in Txs, HandleBundlesApplied(t) \/ HandleBundlesUnapplied(t)
      PROVE  FollowInv'
  BY <1>3, FollowRest DEF HandleBundlesApplied, HandleBundlesUnapplied, bundleRepo
<1>4. CASE TrackBundle
  <2>1. \A s \in DOMAIN link' : s \in DOMAIN link /\ link'[s] = link[s]
    BY <1>4 DEF TrackBundle, PutConfirmed, Eliminate, Invalidate, Without
  <2>2. resolving' = resolving
    BY <1>4 DEF TrackBundle
  <2> QED
    BY <2>1, <2>2, FollowRest
<1>5. ASSUME NEW id \in BundleIds, ReadBundle(id)
      PROVE  FollowInv'
  BY <1>5, FollowRest DEF ReadBundle, bundleRepo
<1>6. CASE ResolveBundle
  <2>1. PICK c, p : c = resolving.conf /\ p = resolving.pred
    OBVIOUS
  <2>2. /\ resolving'.conf = c /\ resolving'.pred = SafePoint(c, p) /\ link' = link
    BY <1>6, <2>1 DEF ResolveBundle, bundleRepo
  <2>3. LinksFollow'
    BY <2>2 DEF FollowInv, LinksFollow
  <2>4. ASSUME NEW s, s = SafePoint(c, p)
        PROVE  \E n \in 0 .. Cardinality(BundleBoxes) : c \in Ancestors(s)[n]
    <3>1. CASE s = c
      <4>1. c \in Ancestors(s)[0]
        BY <3>1, AncestorSteps
      <4>2. 0 \in 0 .. Cardinality(BundleBoxes)
        BY BundlesAssumption, FS_CardinalityType
      <4> QED
        BY <4>1, <4>2
    <3>2. CASE s = p /\ IsLinking(p, c)
      <4>1. PICK n \in 1 .. Cardinality(BundleBoxes) : c \in Walk(p)[n]
        BY <3>2 DEF IsLinking
      <4>2. n \in Nat /\ n \in 0 .. Cardinality(BundleBoxes)
        BY <4>1
      <4>3. c \in Ancestors(s)[n]
        BY <3>2, <4>1, <4>2, WalkFollows DEF FollowInv
      <4> QED
        BY <4>2, <4>3
    <3> QED
      BY <2>4, <3>1, <3>2 DEF SafePoint
  <2> QED
    BY <2>2, <2>3, <2>4 DEF FollowInv, ResolvedFollows
<1>7. ASSUME NEW s \in BundleBoxes, PredictBundle(s)
      PROVE  FollowInv'
  <2>1. PICK p : p = resolving.pred
    OBVIOUS
  <2>2. /\ link' = (IF p = NoBox THEN link ELSE With(link, s, p)) /\ resolving' = NoJob
        /\ Follows(s, p)
    BY <1>7, <2>1 DEF PredictBundle, PutPredicted, Follows
  <2>3. LinksFollow'
    BY <2>2 DEF FollowInv, LinksFollow, With
  <2> QED
    BY <1>1, <2>2, <2>3 DEF FollowInv, ResolvedFollows
<1>8. ASSUME NEW s \in BundleBoxes, PredictDeposit(s)
      PROVE  FollowInv'
  BY <1>8, FollowRest DEF PredictDeposit, PutPredicted
<1>9. CASE BundleMissing
  BY <1>1, <1>9, FollowRest DEF BundleMissing, Invalidate, Without
<1>10. CASE BundleUnused
  BY <1>1, <1>10, FollowRest DEF BundleUnused, bundleRepo
<1>11. CASE BundlesRestart
  BY <1>1, <1>11, FollowRest DEF BundlesRestart, bundleRepo
<1> QED
  BY <1>2, <1>3, <1>4, <1>5, <1>6, <1>7, <1>8, <1>9, <1>10, <1>11 DEF BundlesNext, ExecutorOnBundles

(***************************************************************************)
(* The state that resolve_bundle_state returns is the confirmed one it     *)
(* read, or follows from it through transactions that spend one state      *)
(* after another, although the repository may change between its two       *)
(* reads.                                                                  *)
(***************************************************************************)
THEOREM ResolutionFollows == BundlesSpec => []ResolvedFollows
<1>1. FollowInv => ResolvedFollows
  BY DEF FollowInv
<1> QED
  BY <1>1, FollowInit, FollowStep, StakesInvariant, PTL DEF BundlesSpec
-----------------------------------------------------------------------------
(***************************************************************************)
(* All followers together.                                                 *)
(***************************************************************************)
LEMMA StepsFunding == [FollowersNext]_followersVars => [FundingNext]_fundVars
<1> SUFFICES ASSUME [FollowersNext]_followersVars
             PROVE  [FundingNext]_fundVars
  OBVIOUS
<1>1. ASSUME NEW t \in Txs, AppliedRound(t) \/ UnappliedRound(t)
      PROVE  FundingNext
  BY <1>1 DEF AppliedRound, UnappliedRound, FundingNext
<1>2. CASE FundingSteps
  BY <1>2 DEF FundingSteps, ExecutorOnFunding, FundingNext
<1>3. CASE BundleSteps
  <2>1. chain' = chain /\ UNCHANGED fundOnlyVars
    BY <1>3, OnlyEventsMove DEF BundleSteps
  <2> QED
    BY <2>1 DEF fundOnlyVars, fundVars, repoVars
<1>4. CASE OrderSteps
  <2>1. chain' = chain /\ UNCHANGED fundOnlyVars
    BY <1>4 DEF OrderSteps, TrackOrder, OrderLeaves, bundleVars
  <2> QED
    BY <2>1 DEF fundOnlyVars, fundVars, repoVars
<1>5. CASE FollowersRestart
  BY <1>5 DEF FollowersRestart, FundingNext
<1>6. CASE UNCHANGED followersVars
  BY <1>6 DEF followersVars, fundOnlyVars, fundVars, repoVars
<1> QED
  BY <1>1, <1>2, <1>3, <1>4, <1>5, <1>6 DEF FollowersNext

LEMMA StepsOrders == [FollowersNext]_followersVars => [OrdersNext]_<<bundleVars, orderVars>>
<1> SUFFICES ASSUME [FollowersNext]_followersVars
             PROVE  [OrdersNext]_<<bundleVars, orderVars>>
  OBVIOUS
<1>1. ASSUME NEW t \in Txs, AppliedRound(t) \/ UnappliedRound(t)
      PROVE  OrdersNext
  BY <1>1 DEF AppliedRound, UnappliedRound, OrdersNext
<1>2. CASE FundingSteps
  <2>1. chain' = chain
    BY <1>2 DEF FundingSteps, TrackFunding, ExecutorOnFunding, Collect, Submitted, ReportMissing,
                PurgeMissing, Abandoned
  <2> QED
    BY <1>2, <2>1 DEF FundingSteps, bundleOnlyVars, bundleVars
<1>3. CASE BundleSteps
  BY <1>3 DEF BundleSteps, OrdersNext
<1>4. CASE OrderSteps
  BY <1>4 DEF OrderSteps, OrdersNext
<1>5. CASE FollowersRestart
  BY <1>5 DEF FollowersRestart, OrdersNext
<1>6. CASE UNCHANGED followersVars
  BY <1>6 DEF followersVars, bundleOnlyVars, bundleVars
<1> QED
  BY <1>1, <1>2, <1>3, <1>4, <1>5, <1>6 DEF FollowersNext

(***************************************************************************)
(* The followers as main.rs wires them: each step of them is a step of     *)
(* funding, and one of orders and bundles, or leaves it alone.             *)
(***************************************************************************)
THEOREM FollowersImplementBoth == FollowersSpec => FundingSpec /\ OrdersSpec
  BY StepsFunding, StepsOrders, PTL DEF FollowersSpec, FollowersInit, FundingSpec, OrdersSpec

(***************************************************************************)
(* Type correctness of all stores, indices and channels, with every event  *)
(* offered to all handlers of event_sink.rs.                               *)
(***************************************************************************)
THEOREM FollowersTypeCorrect == FollowersSpec => []FeedTypeOK
<1>1. ChainTypeOK /\ FundingTypeOK /\ BundlesTypeOK /\ OrdersTypeOK => FeedTypeOK
  BY DEF FeedTypeOK
<1> QED
  BY <1>1, FollowersImplementBoth, FundingTypeCorrect, OrdersTypeCorrect, PTL

(***************************************************************************)
(* When the channels of the bot are empty, the funding, the stakers and    *)
(* the orders it works with are those of the ledger, all at once, up to    *)
(* the boxes, bundles and orders that the histories name.                  *)
(***************************************************************************)
FollowLedger ==
    /\ IndexRefers /\ FundsKnown /\ FundsUnspent
    /\ StakersKnown /\ NoGhostStakers /\ ResolvedFollows
    /\ OrdersKnown /\ OrdersUnspent

THEOREM FollowersFollowLedger == FollowersSpec => []FollowLedger
<1>1. IndexRefers /\ FundsKnown /\ FundsUnspent /\ StakersKnown /\ NoGhostStakers
        /\ ResolvedFollows /\ OrdersKnown /\ OrdersUnspent => FollowLedger
  BY DEF FollowLedger
<1>2. FollowersSpec => FundingSpec /\ OrdersSpec /\ BundlesSpec
  BY FollowersImplementBoth, OrdersImplementBundles, PTL
<1> QED
  BY <1>1, <1>2, IndexIsSound, FundsAreKnown, FundsAreUnspent, StakersAreKnown, NoGhosts,
     ResolutionFollows, OrdersAreKnown, OrdersAreUnspent, PTL
=============================================================================
