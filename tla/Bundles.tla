------------------------------- MODULE Bundles -------------------------------
(***************************************************************************)
(* Staking bundles: bundle/rocksdb.rs (repository), bundle.rs (resolver),  *)
(* bundle/process.rs (stream), event_sink/handlers/bundle.rs (handler),    *)
(* the program repository with its handler, and what the executor does to  *)
(* bundles.  One pool.                                                     *)
(*                                                                         *)
(* A bundle (a stake) passes through states, each one a box.  The          *)
(* repository has the states, the last confirmed and last predicted state  *)
(* of a bundle, links between predicted states, and an epoch index: the    *)
(* key <<e, id>> makes select return bundle id as eligible in epoch e.     *)
(***************************************************************************)
EXTENDS LedgerFeed

CONSTANTS
    BundleOf,     \* bundle box -> bundle id (the id of the bundle key token)
    EpochsLeft,   \* bundle box -> TMP / vLQ in it: epochs it is still paid for
    PoolBoxes,    \* boxes of the pool
    EpochNum,     \* ProgramConfig.epoch_num
    NoBox         \* "no state": an Option that is None

BundleBoxes == DOMAIN BundleOf
BundleIds == {BundleOf[s] : s \in BundleBoxes}

\* t makes a state of bundle id without spending one: it mints the bundle key.
Mints(t, id) ==
    /\ \E s \in Outputs[t] \cap BundleBoxes : BundleOf[s] = id
    /\ \A r \in Inputs[t] \cap BundleBoxes : BundleOf[r] # id

\* A transaction has one state of a bundle at most on either side, and a token
\* is minted by one transaction only.
ASSUME BundlesAssumption ==
    /\ EpochNum \in Nat \ {0}
    /\ EpochsLeft \in [BundleBoxes -> 0..EpochNum]
    /\ BundleBoxes \cap Genesis = {}
    /\ NoBox \notin BundleBoxes /\ IsFiniteSet(BundleBoxes)
    /\ \A t \in Txs : \A r, s \in BundleBoxes :
          /\ {r, s} \subseteq Inputs[t] /\ BundleOf[r] = BundleOf[s] => r = s
          /\ {r, s} \subseteq Outputs[t] /\ BundleOf[r] = BundleOf[s] => r = s
    /\ \A t, u \in Txs : \A id \in BundleIds : Mints(t, id) /\ Mints(u, id) => t = u

INIT_EPOCH_IX == 1

VARIABLES
    states,       \* stored bundle states, each with its lower_epoch_ix
    lastConf,     \* bundle id -> last confirmed state id
    lastPred,     \* bundle id -> last predicted state id
    link,         \* predicted state id -> id of the state before it
    epochKeys,    \* keys <<epoch, bundle id>> of the epoch index
    programKnown, \* the program repository has the pool's program
    bundleQueue,  \* channel of StateUpdates
    resolving,    \* the executor between resolution and report
    unsure,       \* history: bundles whose confirmed state may be wrong
    touched       \* history: bundles predicted, undone, unsure, compounded for
                  \* several epochs at once or indexed too early at some time

bundleRepo == <<states, lastConf, lastPred, link, epochKeys>>
bundleVars == <<chain, bundleRepo, programKnown, bundleQueue, resolving, unsure, touched>>

Maybe == BundleBoxes \cup {NoBox}
NoJob == [phase |-> "idle", conf |-> NoBox, pred |-> NoBox]

BundlesTypeOK ==
    /\ DOMAIN states \subseteq BundleBoxes
    /\ states \in [DOMAIN states -> 1..(EpochNum + 1)]
    /\ DOMAIN lastConf \subseteq BundleIds
    /\ \A id \in DOMAIN lastConf : lastConf[id] \in BundleBoxes /\ BundleOf[lastConf[id]] = id
    /\ DOMAIN lastPred \subseteq BundleIds
    /\ \A id \in DOMAIN lastPred : lastPred[id] \in BundleBoxes /\ BundleOf[lastPred[id]] = id
    /\ link \in [DOMAIN link -> BundleBoxes]
    /\ epochKeys \subseteq (1..(EpochNum + 1)) \X BundleIds
    /\ programKnown \in BOOLEAN
    /\ bundleQueue \in Seq([undo : BOOLEAN, old : Maybe, new : Maybe, ix : 1..(EpochNum + 1)])
    /\ resolving \in [phase : {"idle", "read", "resolved"}, conf : Maybe, pred : Maybe]

BundlesInit ==
    /\ states = [s \in {} |-> 0]
    /\ lastConf = [id \in {} |-> NoBox]
    /\ lastPred = [id \in {} |-> NoBox]
    /\ link = [s \in {} |-> NoBox]
    /\ epochKeys = {}
    /\ programKnown = FALSE
    /\ bundleQueue = <<>>
    /\ resolving = NoJob
    /\ unsure = {}
    /\ touched = {}

\* A map with one key written, and with some keys deleted.
With(f, k, v) == [x \in DOMAIN f \cup {k} |-> IF x = k THEN v ELSE f[x]]
Without(f, ks) == [x \in DOMAIN f \ ks |-> f[x]]
-----------------------------------------------------------------------------
(***************************************************************************)
(* The repository.  epoch_index_key and its inverse are one-to-one, so a   *)
(* key is the pair it encodes.                                             *)
(***************************************************************************)
\* MUTANT of EpochKeysAfter: the key is written but the old one kept.
EpochKeysKept(id, ix) == epochKeys \cup {<<ix, id>>}

\* MUTANT of EpochKeysAfter: the deletion has the index of the new key.
EpochKeysDropped(id, ix) == epochKeys \ {<<ix, id>>}

\* put_confirmed writes the key of the state's epoch, then deletes the one before.
EpochKeysAfter(id, ix) == (epochKeys \cup {<<ix, id>>}) \ {<<ix - 1, id>>}

PutConfirmed(s, ix) ==
    /\ states' = With(states, s, ix)
    /\ lastConf' = With(lastConf, BundleOf[s], s)
    /\ epochKeys' = EpochKeysAfter(BundleOf[s], ix)
    /\ UNCHANGED <<lastPred, link>>

PutPredicted(s, ix, prev) ==
    /\ states' = With(states, s, ix)
    /\ lastPred' = With(lastPred, BundleOf[s], s)
    /\ epochKeys' = epochKeys \cup {<<ix, BundleOf[s]>>}
    /\ link' = IF prev = NoBox THEN link ELSE With(link, s, prev)
    /\ UNCHANGED lastConf

\* invalidate: only the state and its link go.
Invalidate(s) ==
    /\ states' = Without(states, {s})
    /\ link' = Without(link, {s})
    /\ UNCHANGED <<lastConf, lastPred, epochKeys>>

\* eliminate: the state stays, so that it can be restored.
Eliminate(s, ix) ==
    /\ lastConf' = Without(lastConf, {BundleOf[s]})
    /\ lastPred' = Without(lastPred, {BundleOf[s]})
    /\ epochKeys' = epochKeys \ {<<ix, BundleOf[s]>>}
    /\ UNCHANGED <<states, link>>

\* get_last_confirmed and get_last_predicted: the indexed state, if stored.
Lookup(last, id) ==
    IF id \in DOMAIN last /\ last[id] \in DOMAIN states THEN last[id] ELSE NoBox

\* select: the bundles with a key of that epoch, whatever their state.
Select(e) == {id \in BundleIds : <<e, id>> \in epochKeys}
-----------------------------------------------------------------------------
(***************************************************************************)
(* The handlers of ledger events.                                          *)
(***************************************************************************)
\* MUTANT of LowerEpochIx: the first epoch is numbered 0.
LowerEpochIxFromZero(s) == EpochNum - EpochsLeft[s]

\* IndexedBundle::new, or ::init while the program is unknown.
LowerEpochIx(s) ==
    IF programKnown THEN EpochNum - EpochsLeft[s] + 1 ELSE INIT_EPOCH_IX

OneOf(boxes, id) ==
    IF \E s \in boxes : BundleOf[s] = id
    THEN CHOOSE s \in boxes : BundleOf[s] = id
    ELSE NoBox

\* extract_transitions: spent states are looked up in the repository, created
\* ones are parsed from the outputs.
Consumed(t) == Inputs[t] \cap DOMAIN states
Made(t) == Outputs[t] \cap BundleBoxes

\* MUTANT of StateUpdate: undoing does not swap the two states.
StateUpdateUnswapped(t, id, undo) ==
    LET old == OneOf(Consumed(t), id)
        new == OneOf(Made(t), id)
    IN  [undo |-> undo, old |-> old, new |-> new,
         ix |-> IF new = NoBox THEN states[old] ELSE LowerEpochIx(new)]

\* The update for bundle id; undoing swaps the two states.  ix is the
\* lower_epoch_ix of the state the stream will work on.
StateUpdate(t, id, undo) ==
    LET spentState == OneOf(Consumed(t), id)
        madeState == OneOf(Made(t), id)
        old == IF undo THEN madeState ELSE spentState
        new == IF undo THEN spentState ELSE madeState
        subject == IF new = NoBox THEN old ELSE new
    IN  [undo |-> undo, old |-> old, new |-> new,
         ix |-> IF subject = madeState THEN LowerEpochIx(subject) ELSE states[subject]]

StateUpdates(t, undo) ==
    {StateUpdate(t, id, undo) : id \in {BundleOf[s] : s \in Consumed(t) \cup Made(t)}}

\* Bundles whose spent state the handler should have found but did not.
Overlooked(t) == {BundleOf[s] : s \in (Inputs[t] \cap BundleBoxes) \ DOMAIN states}

\* Bundles that t compounds for several epochs, and bundles it makes in a later
\* epoch than the first while the program is unknown.
SkipsEpoch(t) ==
    {BundleOf[s] : s \in {m \in Made(t) :
        \/ \E r \in Inputs[t] \cap BundleBoxes :
              BundleOf[r] = BundleOf[m] /\ EpochsLeft[r] \notin {EpochsLeft[m], EpochsLeft[m] + 1}
        \/ ~programKnown /\ EpochsLeft[m] # EpochNum}}

SendUpdates(us) ==
    /\ Len(bundleQueue) + Cardinality(us) <= MaxQueue
    /\ \E s \in SetToSeqs(us) : bundleQueue' = bundleQueue \o s

\* The program handler comes last; it stores the program of a new pool.
StoreProgram(t) == programKnown' = (programKnown \/ Outputs[t] \cap PoolBoxes # {})

HandleBundlesApplied(t) ==
    /\ AppliedTx(t)
    /\ SendUpdates(StateUpdates(t, FALSE))
    /\ StoreProgram(t)
    /\ unsure' = (unsure \ {BundleOf[s] : s \in Made(t)})
                   \cup {id \in Overlooked(t) : \A s \in Made(t) : BundleOf[s] # id}
    /\ touched' = touched \cup unsure' \cup SkipsEpoch(t)
    /\ UNCHANGED <<bundleRepo, resolving>>

HandleBundlesUnapplied(t) ==
    /\ UnappliedTx(t)
    /\ SendUpdates(StateUpdates(t, TRUE))
    /\ unsure' = unsure \cup Overlooked(t)
    /\ touched' = touched \cup {BundleOf[s] : s \in (Inputs[t] \cup Outputs[t]) \cap BundleBoxes}
    /\ UNCHANGED <<bundleRepo, programKnown, resolving>>

\* bundle_update_stream applies the next update.
TrackBundle ==
    /\ bundleQueue # <<>>
    /\ LET u == Head(bundleQueue)
       IN  \/ u.new # NoBox /\ PutConfirmed(u.new, u.ix)
           \/ u.new = NoBox /\ ~u.undo /\ Eliminate(u.old, u.ix)
           \/ u.new = NoBox /\ u.undo /\ Invalidate(u.old)
    /\ bundleQueue' = Tail(bundleQueue)
    /\ UNCHANGED <<chain, programKnown, resolving, unsure, touched>>
-----------------------------------------------------------------------------
(***************************************************************************)
(* The executor.  resolve_bundle_state reads both states under the lock,   *)
(* releases it, and takes it again for the walk along the links.           *)
(***************************************************************************)
ReadBundle(id) ==
    /\ resolving.phase = "idle"
    /\ Lookup(lastConf, id) # NoBox
    /\ resolving' = [phase |-> "read", conf |-> Lookup(lastConf, id),
                     pred |-> Lookup(lastPred, id)]
    /\ UNCHANGED <<chain, bundleRepo, programKnown, bundleQueue, unsure, touched>>

\* The states the walk from s visits in n steps of get_prediction_predecessor.
Walk(s) ==
    LET walk[n \in Nat] ==
          IF n = 0 THEN {s} ELSE {link[r] : r \in walk[n - 1] \cap DOMAIN link}
    IN  walk

IsLinking(s, anchor) == \E n \in 1..Cardinality(BundleBoxes) : anchor \in Walk(s)[n]

\* MUTANT of SafePoint: any prediction is trusted.
SafePointTrusting(conf, pred) == IF pred = NoBox THEN conf ELSE pred

SafePoint(conf, pred) ==
    IF pred # NoBox /\ (pred = conf \/ IsLinking(pred, conf)) THEN pred ELSE conf

ResolveBundle ==
    /\ resolving.phase = "read"
    /\ resolving' = [phase |-> "resolved", conf |-> resolving.conf,
                     pred |-> SafePoint(resolving.conf, resolving.pred)]
    /\ UNCHANGED <<chain, bundleRepo, programKnown, bundleQueue, unsure, touched>>

\* The node accepts a transaction that turns the resolved state into s.  The
\* program is taken from the pool, so the index is that of IndexedBundle::new.
PredictBundle(s) ==
    /\ resolving.phase = "resolved"
    /\ BundleOf[s] = BundleOf[resolving.pred]
    /\ \E t \in Txs : resolving.pred \in Inputs[t] /\ s \in Outputs[t]
    /\ PutPredicted(s, EpochNum - EpochsLeft[s] + 1, resolving.pred)
    /\ resolving' = NoJob
    /\ touched' = touched \cup {BundleOf[s]}
    /\ UNCHANGED <<chain, programKnown, bundleQueue, unsure>>

\* The node accepts a deposit, which makes a new bundle.
PredictDeposit(s) ==
    /\ resolving.phase = "idle"
    /\ \E t \in Txs :
          /\ s \in Outputs[t]
          /\ Inputs[t] \cap PoolBoxes # {}
          /\ \A r \in Inputs[t] \cap BundleBoxes : BundleOf[r] # BundleOf[s]
    /\ PutPredicted(s, EpochNum - EpochsLeft[s] + 1, NoBox)
    /\ touched' = touched \cup {BundleOf[s]}
    /\ UNCHANGED <<chain, programKnown, bundleQueue, resolving, unsure>>

\* The node reports the resolved state as a missing input.
BundleMissing ==
    /\ resolving.phase = "resolved"
    /\ Invalidate(resolving.pred)
    /\ resolving' = NoJob
    /\ unsure' = unsure \cup {BundleOf[resolving.pred]}
    /\ touched' = touched \cup {BundleOf[resolving.pred]}
    /\ UNCHANGED <<chain, programKnown, bundleQueue>>

\* A redeem, or an attempt that fails in another way, changes no bundle.
BundleUnused ==
    /\ resolving.phase = "resolved"
    /\ resolving' = NoJob
    /\ UNCHANGED <<chain, bundleRepo, programKnown, bundleQueue, unsure, touched>>

\* The process restarts: databases stay, the channel is lost.
BundlesRestart ==
    /\ LET lost == {BundleOf[IF u.new = NoBox THEN u.old ELSE u.new] : u \in ToSet(bundleQueue)}
       IN  unsure' = unsure \cup lost /\ touched' = touched \cup lost
    /\ bundleQueue' = <<>>
    /\ resolving' = NoJob
    /\ UNCHANGED <<chain, bundleRepo, programKnown>>

ExecutorOnBundles ==
    \/ \E id \in BundleIds : ReadBundle(id)
    \/ ResolveBundle
    \/ \E s \in BundleBoxes : PredictBundle(s) \/ PredictDeposit(s)
    \/ BundleMissing
    \/ BundleUnused

BundlesNext ==
    \/ \E t \in Txs : HandleBundlesApplied(t) \/ HandleBundlesUnapplied(t)
    \/ TrackBundle
    \/ ExecutorOnBundles
    \/ BundlesRestart

BundlesSpec == FeedInit /\ BundlesInit /\ [][BundlesNext]_bundleVars
-----------------------------------------------------------------------------
LiveState(s) == s \in Unspent \cap BundleBoxes

(***************************************************************************)
(* With the channel empty, the repository knows every bundle of the        *)
(* ledger: its last confirmed state is the unspent box, and select returns *)
(* it for the epoch of that state.  No reorganisation and no prediction    *)
(* disturbs this; it may fail for a bundle whose spent state the handler   *)
(* could not find, that the executor invalidated, or with an update lost   *)
(* in a restart, until the bundle moves on the ledger.                     *)
(***************************************************************************)
StakersKnown ==
    bundleQueue = <<>> =>
       \A s \in BundleBoxes :
          LiveState(s) /\ BundleOf[s] \notin unsure =>
             /\ Lookup(lastConf, BundleOf[s]) = s
             /\ BundleOf[s] \in Select(states[s])

(***************************************************************************)
(* With the channel empty, select returns nothing else: one key per bundle *)
(* on the ledger, that of its state, and none for a redeemed bundle.  The  *)
(* exceptions are bundles that were predicted, undone or invalidated,      *)
(* compounded for several epochs at once, or made in a later epoch before  *)
(* the program was known: put_confirmed deletes only the key before the    *)
(* new one.                                                                *)
(***************************************************************************)
NoGhostStakers ==
    bundleQueue = <<>> =>
       \A e \in 1..(EpochNum + 1) : \A id \in Select(e) \ touched :
          \E s \in BundleBoxes : LiveState(s) /\ BundleOf[s] = id /\ states[s] = e

Follows(s, r) ==
    \E t \in Txs : r \in Inputs[t] /\ s \in Outputs[t] /\ BundleOf[r] = BundleOf[s]

\* The states from which s follows, n transactions before it.
Ancestors(s) ==
    LET back[n \in Nat] ==
          IF n = 0 THEN {s} ELSE {r \in BundleBoxes : \E q \in back[n - 1] : Follows(q, r)}
    IN  back

(***************************************************************************)
(* The executor works on a state only if it is the confirmed one it read   *)
(* or follows from it through predictions, each of which spends the one    *)
(* before.                                                                 *)
(***************************************************************************)
ResolvedFollows ==
    resolving.phase = "resolved" =>
       \E n \in 0..Cardinality(BundleBoxes) : resolving.conf \in Ancestors(resolving.pred)[n]
=============================================================================
