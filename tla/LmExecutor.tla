----------------------------- MODULE LmExecutor ------------------------------
(***************************************************************************)
(* try_execute_next of spectrum-offchain-lm/src/executor.rs, step by step, *)
(* on top of the backlog.  Between two steps every other stream may run:   *)
(* order events, the scheduler's calls and the clock (Backlog's actions).  *)
(*                                                                         *)
(* Boxes are abstract: an order has its own box, one pool box, one bundle  *)
(* box (two for a compound order) and funding boxes.  What the executor    *)
(* finds in the pool, bundle and funding repositories, whether the pool's  *)
(* arithmetic accepts the order, and what the node answers are free.       *)
(***************************************************************************)
EXTENDS Backlog

CONSTANTS
    Kinds,    \* the assignments of kinds to orders to consider
    Fundings  \* numbers of funding boxes that FundingRepo::collect may select

ASSUME ExecutorAssumption ==
    /\ Kinds \subseteq [Orders -> {"deposit", "redeem", "compound"}]
    /\ Fundings \subseteq Nat \ {0}

VARIABLES
    kind,     \* kind[o]: which variant of Order the order is; never changes
    step,     \* where try_execute_next is
    inputs,   \* input boxes of the transaction being submitted
    missing,  \* indices (from 0) of the inputs the node reported as missing
    todo,     \* what is left to do for the invalidations
    lost      \* history: which repository was told to drop which box

exec == <<kind, inputs, missing, todo, lost>>
lmVars == <<vars, kind, step, inputs, missing, todo, lost>>

\* Boxes: a role and a number.
Roles == {"pool", "order", "bundle", "funding"}
Box == [role : Roles, n : Nat]
PoolBox == [role |-> "pool", n |-> 0]
OrderBox == [role |-> "order", n |-> 0]
BundleBoxes(k) == [i \in 1..k |-> [role |-> "bundle", n |-> i]]
FundingBoxes(k) == [i \in 1..k |-> [role |-> "funding", n |-> i]]

Steps == {"idle", "popped", "running", "submitting", "invalidating", "done"}
Work == {"pool", "funding", "bundles", "suspend", "remove"}

LmTypeOK ==
    /\ TypeOK
    /\ kind \in Kinds
    /\ step \in Steps
    /\ inputs \in Seq(Box)
    /\ missing \subseteq Nat
    /\ todo \in Seq(Work)
    /\ lost \subseteq Roles \X Box
    /\ step # "idle" => hand # NoOrder

LmInit ==
    /\ Init
    /\ kind \in Kinds
    /\ step = "idle"
    /\ inputs = <<>>
    /\ missing = {}
    /\ todo = <<>>
    /\ lost = {}
-----------------------------------------------------------------------------
\* MUTANT of AfterPop: the executor goes on without an order.
AfterPopUnchecked(ord) == "popped"

\* if let Some(ord) = next_ord
AfterPop(ord) == IF ord = NoOrder THEN "idle" ELSE "popped"

\* backlog.try_pop(), under the backlog's lock.
Pop ==
    /\ step = "idle"
    /\ TryPopPending \/ TryPopSuspended
    /\ step' = AfterPop(hand')
    /\ UNCHANGED exec

\* resolve_entity_state found a pool.
PoolFound ==
    /\ step = "popped"
    /\ step' = "running"
    /\ UNCHANGED <<vars, exec>>

\* There is no pool.  A compound order is removed; another one is removed if it
\* is more than 10 blocks old and suspended otherwise.
NoPool ==
    /\ step = "popped"
    /\ \/ RemoveHeld
       \/ kind[hand] # "compound" /\ SuspendHeld
    /\ step' = "done"
    /\ UNCHANGED exec

\* The bundle of a redeem order, or enough funding for a compound order, is not
\* there: the executor returns without a word to the backlog.
NothingToRunWith ==
    /\ step = "running"
    /\ kind[hand] \in {"redeem", "compound"}
    /\ step' = "done"
    /\ UNCHANGED <<vars, exec>>

\* Inputs of the transaction, as the try_run of each kind of order lists them.
TxInputs(k, nf, nb) ==
    CASE k = "deposit"  -> <<PoolBox, OrderBox>>
      [] k = "redeem"   -> <<PoolBox>> \o BundleBoxes(1) \o <<OrderBox>>
      [] k = "compound" -> <<PoolBox>> \o FundingBoxes(nf) \o BundleBoxes(nb)

\* try_run and the signature succeeded: there is a transaction to submit.
RunOk ==
    /\ step = "running"
    /\ \E nf \in Fundings, nb \in 1..2 : inputs' = TxInputs(kind[hand], nf, nb)
    /\ step' = "submitting"
    /\ UNCHANGED <<vars, kind, missing, todo, lost>>

\* RunOrderError::NonFatal
RunNonFatal ==
    /\ step = "running"
    /\ SuspendHeld
    /\ step' = "done"
    /\ UNCHANGED exec

\* RunOrderError::Fatal, also for a compound order without any bundle.
RunFatal ==
    /\ step = "running"
    /\ RemoveHeld
    /\ step' = "done"
    /\ UNCHANGED exec

\* try_run succeeded and the prover cannot sign: this is only logged.
SignFails ==
    /\ step = "running"
    /\ step' = "done"
    /\ UNCHANGED <<vars, exec>>
-----------------------------------------------------------------------------
(***************************************************************************)
(* submit_tx returns.                                                      *)
(***************************************************************************)
\* The order is checked later.  The predicted states are recorded between this
\* step and Finish (SubmitOk of EntityTracker).
Accepted ==
    /\ step = "submitting"
    /\ CheckLaterHeld
    /\ step' = "done"
    /\ UNCHANGED exec

\* NodeSubmitTxError::DoubleSpend
DoubleSpend ==
    /\ step = "submitting"
    /\ SuspendHeld
    /\ step' = "done"
    /\ UNCHANGED exec

\* NodeSubmitTxError::ScriptsOfInputsDontPassVerification: the pool box and the
\* funding boxes that the node does not know are dropped, one by one.
ScriptsDontPass ==
    /\ step = "submitting"
    /\ \E spent \in SUBSET {x \in ToSet(inputs) : x.role \in {"pool", "funding"}} :
          lost' = lost \cup {<<x.role, x>> : x \in spent}
    /\ step' = "done"
    /\ UNCHANGED <<vars, kind, inputs, missing, todo>>

\* NodeSubmitTxError::Unhandled
Unhandled ==
    /\ step = "submitting"
    /\ step' = "done"
    /\ UNCHANGED <<vars, exec>>

NumFunding == Cardinality({i \in DOMAIN inputs : inputs[i].role = "funding"})

\* Indices of the funding boxes, and of the bundles, among the missing ones.
MissingFunding(ms) == ms \cap (1..NumFunding)

\* MUTANT of MissingBundles: the bundles start at input_funding_box_ids.len(),
\* as the comment in the source has it (spectrum-offchain, executor.rs:197).
MissingBundlesFromLen(k, ms) ==
    IF k = "redeem" THEN ms \cap {1} ELSE {i \in ms : i >= NumFunding}

MissingBundles(k, ms) ==
    IF k = "redeem" THEN ms \cap {1} ELSE {i \in ms : i > NumFunding}

If(cond, seq) == IF cond THEN seq ELSE <<>>

\* MUTANT of Invalidations: the order is removed before it may be suspended.
InvalidationsOrderFirst(k, ms) ==
    CASE k = "deposit"  -> If(1 \in ms, <<"remove">>) \o If(0 \in ms, <<"pool", "suspend">>)
      [] k = "redeem"   -> If(2 \in ms, <<"remove">>) \o If(0 \in ms, <<"pool", "suspend">>)
                           \o If(1 \in ms, <<"bundles">>)
      [] k = "compound" -> If(0 \in ms, <<"pool", "suspend">>) \o <<"funding", "suspend">>
                           \o If(MissingBundles(k, ms) # {}, <<"bundles">>)

\* generate_invalidations, with the calls each of them stands for.  A compound
\* order always gets a Funding invalidation, even an empty one.
Invalidations(k, ms) ==
    If(0 \in ms, <<"pool", "suspend">>) \o
    CASE k = "deposit"  -> If(1 \in ms, <<"remove">>)
      [] k = "redeem"   -> If(1 \in ms, <<"bundles">>) \o If(2 \in ms, <<"remove">>)
      [] k = "compound" -> <<"funding", "suspend">>
                           \o If(MissingBundles(k, ms) # {}, <<"bundles">>)

\* NodeSubmitTxError::MissingInputs
MissingInputs ==
    /\ step = "submitting"
    /\ \E ms \in SUBSET {i - 1 : i \in DOMAIN inputs} :
          /\ ms # {}
          /\ missing' = ms
          /\ todo' = Invalidations(kind[hand], ms)
    /\ step' = "invalidating"
    /\ UNCHANGED <<vars, kind, inputs, lost>>

\* tx.inputs.get(i) for the given indices.
InputsAt(is) == {inputs[i + 1] : i \in is}

\* The next call for an invalidation, each under the lock of its repository.
Invalidate ==
    /\ step = "invalidating"
    /\ todo # <<>>
    /\ \/ Head(todo) = "pool" /\ lost' = lost \cup {<<"pool", PoolBox>>} /\ UNCHANGED vars
       \/ /\ Head(todo) = "funding"
          /\ lost' = lost \cup ({"funding"} \X InputsAt(MissingFunding(missing)))
          /\ UNCHANGED vars
       \/ /\ Head(todo) = "bundles"
          /\ lost' = lost \cup ({"bundle"} \X InputsAt(MissingBundles(kind[hand], missing)))
          /\ UNCHANGED vars
       \/ Head(todo) = "suspend" /\ SuspendHeld /\ UNCHANGED lost
       \/ Head(todo) = "remove" /\ RemoveHeld /\ lost' = lost \cup {<<"order", OrderBox>>}
    /\ todo' = Tail(todo)
    /\ UNCHANGED <<kind, step, inputs, missing>>

Invalidated ==
    /\ step = "invalidating"
    /\ todo = <<>>
    /\ step' = "done"
    /\ UNCHANGED <<vars, exec>>

\* The local variables of try_execute_next are gone.
NoExecution ==
    /\ UNCHANGED kind
    /\ inputs' = <<>>
    /\ missing' = {}
    /\ todo' = <<>>
    /\ lost' = {}

\* try_execute_next returns.
Finish ==
    /\ step = "done"
    /\ Return
    /\ step' = "idle"
    /\ NoExecution

\* The process stops and starts.
Reboot ==
    /\ Restart
    /\ step' = "idle"
    /\ NoExecution

\* The other streams.
Others ==
    /\ \/ \E o \in Orders, lag \in 0..MaxLag : Put(o, lag)
       \/ \E o \in Orders : RemoveOrder(o)
       \/ Tick
    /\ UNCHANGED <<step, exec>>

LmNext ==
    \/ Pop \/ PoolFound \/ NoPool \/ NothingToRunWith
    \/ RunOk \/ RunNonFatal \/ RunFatal
    \/ SignFails
    \/ Accepted
    \/ DoubleSpend \/ ScriptsDontPass \/ Unhandled
    \/ MissingInputs \/ Invalidate \/ Invalidated
    \/ Finish \/ Reboot \/ Others

LmSpec == LmInit /\ [][LmNext]_lmVars
-----------------------------------------------------------------------------
(***************************************************************************)
(* The executor keeps to the protocol of the backlog: whatever the node    *)
(* answers, it reports only while it holds an order, it never suspends an  *)
(* order after removing it, and check_later is its only report.  Every     *)
(* theorem about Backlog therefore holds with this executor as its client. *)
(***************************************************************************)
ImplementsBacklog == Spec

(***************************************************************************)
(* After "Missing inputs" exactly the boxes the node reported have been    *)
(* dropped, each from the repository it belongs to: the index arithmetic   *)
(* of generate_invalidations agrees with the input lists that the three    *)
(* try_run functions build.  The comment in that function puts the first   *)
(* bundle at input_funding_box_ids.len(), which is the last funding box    *)
(* behind the pool box; the code compares with ix > len() and is right.    *)
(* MissingBundlesFromLen is the function as the comment describes it.      *)
(***************************************************************************)
InvalidatesMissing ==
    step = "invalidating" /\ todo = <<>> => lost = {<<x.role, x>> : x \in InputsAt(missing)}

\* "Drives execution to completion (submit tx or handle error)" (Executor): the
\* executor does not return with an order that it neither submitted, removed nor
\* handed back to the backlog.
NoLimbo == dropped = {}
=============================================================================
