------------------------------- MODULE Funding -------------------------------
(***************************************************************************)
(* The boxes of the operator's wallet that pay for compounding:            *)
(* spectrum-offchain-lm/src/funding.rs (repository), funding/process.rs    *)
(* (stream), event_sink/handlers/funding.rs (handler) and the calls of the *)
(* executor.                                                               *)
(*                                                                         *)
(* The repository has one entry per key (priority, value, box id), and an  *)
(* index from a box to the key written last.  A box may have entries under *)
(* several priorities; remove deletes the one the index knows.             *)
(***************************************************************************)
EXTENDS LedgerFeed, FiniteSetsExt

CONSTANTS
    Wallet,       \* boxes guarded by the wallet's script
    Value,        \* Value[b]: nanoergs in the box
    KeyOrder,     \* KeyOrder[b]: place of the box among the keys of one priority
    Targets       \* amounts collect is asked for, one per number of stakers

ASSUME FundingAssumption ==
    /\ Value \in [Wallet -> Nat \ {0}]
    /\ KeyOrder \in [Wallet -> Nat]
    /\ \A b, c \in Wallet : KeyOrder[b] = KeyOrder[c] => b = c
    /\ Targets \subseteq Nat \ {0}
    /\ Wallet \cap Genesis = {}

CONFIRMED == 0
PREDICTED == 5
SELECTED == 10

VARIABLES
    funds,        \* entries of the repository: box and priority of the key
    index,        \* funding_index: box -> priority of the key it refers to
    fundQueue,    \* channel of FundingUpdates
    spending,     \* the executor between collect and the end of the attempt
    doubled,      \* history: boxes the executor predicted, or announced again while known
    lingering,    \* history: boxes spent before the handler could know them
    unlisted      \* history: boxes the executor removed or whose spending was undone

repoVars == <<funds, index>>
fundHistory == <<doubled, lingering, unlisted>>
fundVars == <<chain, funds, index, fundQueue, spending, fundHistory>>

Entries == [box : Wallet, prio : {CONFIRMED, PREDICTED, SELECTED}]
FundUpdate == [op : {"created", "eliminated"}, box : Wallet]
Idle == [phase |-> "idle", picked |-> {}, target |-> 0]
BoxesOf(es) == {e.box : e \in es}
EntryValue == [e \in Entries |-> Value[e.box]]
FundsTotal(es) == SumFunctionOnSet(EntryValue, es)

FundingTypeOK ==
    /\ funds \subseteq Entries
    /\ DOMAIN index \subseteq Wallet
    /\ \A b \in DOMAIN index : [box |-> b, prio |-> index[b]] \in Entries
    /\ fundQueue \in Seq(FundUpdate)
    /\ spending \in [phase : {"idle", "submit", "purge"}, picked : SUBSET Wallet,
                     target : Targets \cup {0}]

FundingInit ==
    /\ funds = {}
    /\ index = [b \in {} |-> 0]
    /\ fundQueue = <<>>
    /\ spending = Idle
    /\ doubled = {}
    /\ lingering = {}
    /\ unlisted = {}
-----------------------------------------------------------------------------
\* put_confirmed and put_predicted: another entry, which the index now refers to.
Put(b, prio) ==
    /\ funds' = funds \cup {[box |-> b, prio |-> prio]}
    /\ index' = [c \in DOMAIN index \cup {b} |-> IF c = b THEN prio ELSE index[c]]

\* MUTANT of RemoveFunding: the entry is deleted, the index is not.
RemoveFundingOnly(b) ==
    /\ funds' = IF b \in DOMAIN index THEN funds \ {[box |-> b, prio |-> index[b]]}
                ELSE funds
    /\ UNCHANGED index

\* remove: the index of the box and the entry it refers to.
RemoveFunding(b) ==
    IF b \in DOMAIN index
    THEN /\ funds' = funds \ {[box |-> b, prio |-> index[b]]}
         /\ index' = [c \in DOMAIN index \ {b} |-> index[c]]
    ELSE UNCHANGED repoVars

\* Order of the keys, in which collect iterates.
KeyBefore(e, f) ==
    \/ e.prio < f.prio
    \/ e.prio = f.prio /\ KeyOrder[e.box] < KeyOrder[f.box]

\* The entries collect looks at: it stops once the target is reached.
Taken(target) ==
    {e \in funds : FundsTotal({f \in funds : KeyBefore(f, e)}) < target}

\* MUTANT of MarkSelected: the old keys stay.
MarkSelectedToo(es) ==
    /\ funds' = funds \cup [box : BoxesOf(es), prio : {SELECTED}]
    /\ index' = [b \in DOMAIN index \cup BoxesOf(es) |->
                    IF b \in BoxesOf(es) THEN SELECTED ELSE index[b]]

\* MUTANT of MarkSelected: the new keys are forgotten.
MarkSelectedGone(es) ==
    /\ funds' = funds \ es
    /\ index' = [b \in DOMAIN index \ BoxesOf(es) |-> index[b]]

\* collect moves every entry it has looked at to the lowest priority.
MarkSelected(es) ==
    /\ funds' = (funds \ es) \cup [box : BoxesOf(es), prio : {SELECTED}]
    /\ index' = [b \in DOMAIN index \cup BoxesOf(es) |->
                    IF b \in BoxesOf(es) THEN SELECTED ELSE index[b]]
-----------------------------------------------------------------------------
(***************************************************************************)
(* The handler.  It recognises a spent box by asking the repository, which *)
(* may lag behind the channel, and a created one by its script.  may_exist *)
(* is key_may_exist of the database, which may also say yes of a key that  *)
(* is not there.                                                           *)
(***************************************************************************)
MayExist(bs) == {found \in SUBSET bs : bs \cap DOMAIN index \subseteq found}

\* MUTANT of AppliedUpdates: spent boxes are not looked for.
AppliedUpdatesUnasked(t, found) ==
    Events("created", Outputs[t] \cap Wallet)

AppliedUpdates(t, found) ==
    Events("eliminated", found) \o Events("created", Outputs[t] \cap Wallet)

HandleFundingApplied(t) ==
    /\ AppliedTx(t)
    /\ \E found \in MayExist(Inputs[t] \cap Wallet) :
          /\ Len(fundQueue) + Len(AppliedUpdates(t, found)) <= MaxQueue
          /\ fundQueue' = fundQueue \o AppliedUpdates(t, found)
          /\ lingering' = lingering \cup ((Inputs[t] \cap Wallet) \ found)
    /\ doubled' = doubled \cup
                     {b \in Outputs[t] \cap Wallet :
                         \/ b \in BoxesOf(funds)
                         \/ \E i \in DOMAIN fundQueue : fundQueue[i].box = b}
    /\ UNCHANGED <<repoVars, spending, unlisted>>

\* Spent boxes of an undone transaction are not restored.
HandleFundingUnapplied(t) ==
    /\ UnappliedTx(t)
    /\ Len(fundQueue) + Cardinality(Outputs[t] \cap Wallet) <= MaxQueue
    /\ fundQueue' = fundQueue \o Events("eliminated", Outputs[t] \cap Wallet)
    /\ unlisted' = unlisted \cup (Inputs[t] \cap Wallet)
    /\ UNCHANGED <<repoVars, spending, doubled, lingering>>

\* funding_update_stream applies the next update.
TrackFunding ==
    /\ fundQueue # <<>>
    /\ LET u == Head(fundQueue)
       IN  IF u.op = "created" THEN Put(u.box, CONFIRMED) ELSE RemoveFunding(u.box)
    /\ fundQueue' = Tail(fundQueue)
    /\ UNCHANGED <<chain, spending, fundHistory>>
-----------------------------------------------------------------------------
(***************************************************************************)
(* The executor: collect for a compound order; the transaction it builds   *)
(* spends the boxes it got; the node accepts it, or reports some of them   *)
(* missing, or refuses it for another reason.                              *)
(***************************************************************************)
Collect(target) ==
    /\ spending.phase = "idle"
    /\ LET es == Taken(target)
       IN  /\ MarkSelected(es)
           /\ spending' = IF FundsTotal(es) >= target
                          THEN [phase |-> "submit", picked |-> BoxesOf(es), target |-> target]
                          ELSE spending
    /\ UNCHANGED <<chain, fundQueue, fundHistory>>

\* submit_tx succeeds: the residual funding, if any, is put as predicted.
Submitted(t) ==
    /\ spending.phase = "submit"
    /\ Inputs[t] \cap Wallet = spending.picked
    /\ \/ /\ Outputs[t] \cap Wallet = {}
          /\ UNCHANGED <<repoVars, doubled>>
       \/ \E b \in Outputs[t] \cap Wallet :
             Put(b, PREDICTED) /\ doubled' = doubled \cup {b}
    /\ spending' = Idle
    /\ UNCHANGED <<chain, fundQueue, lingering, unlisted>>

\* The node names missing inputs, or box_in_utxo does not find them.
ReportMissing(bs) ==
    /\ spending.phase = "submit"
    /\ bs # {}
    /\ spending' = [spending EXCEPT !.phase = "purge", !.picked = bs]
    /\ UNCHANGED <<chain, repoVars, fundQueue, fundHistory>>

\* They are removed one by one.
PurgeMissing(b) ==
    /\ spending.phase = "purge"
    /\ b \in spending.picked
    /\ RemoveFunding(b)
    /\ spending' = IF spending.picked = {b} THEN Idle
                   ELSE [spending EXCEPT !.picked = @ \ {b}]
    /\ unlisted' = unlisted \cup {b}
    /\ UNCHANGED <<chain, fundQueue, doubled, lingering>>

\* Any other end of the attempt leaves the repository alone.
Abandoned ==
    /\ spending.phase = "submit"
    /\ spending' = Idle
    /\ UNCHANGED <<chain, repoVars, fundQueue, fundHistory>>

\* The process restarts: the database stays, the channel is lost.
FundingRestart ==
    /\ LET lost == {fundQueue[i].box : i \in DOMAIN fundQueue}
       IN  /\ lingering' = lingering \cup lost
           /\ unlisted' = unlisted \cup lost
    /\ fundQueue' = <<>>
    /\ spending' = Idle
    /\ UNCHANGED <<chain, repoVars, doubled>>

FundingNext ==
    \/ \E t \in Txs : HandleFundingApplied(t) \/ HandleFundingUnapplied(t) \/ Submitted(t)
    \/ TrackFunding
    \/ \E target \in Targets : Collect(target)
    \/ \E bs \in SUBSET spending.picked : ReportMissing(bs)
    \/ \E b \in spending.picked : PurgeMissing(b)
    \/ Abandoned
    \/ FundingRestart

FundingSpec == FeedInit /\ FundingInit /\ [][FundingNext]_fundVars
-----------------------------------------------------------------------------
(***************************************************************************)
(* What the index refers to is there: remove finds the entry it deletes.   *)
(***************************************************************************)
IndexRefers == \A b \in DOMAIN index : [box |-> b, prio |-> index[b]] \in funds

(***************************************************************************)
(* collect counts no box twice unless the box was predicted by the         *)
(* executor and then confirmed, or created again after a reorganisation.   *)
(***************************************************************************)
CollectCovers ==
    spending.phase = "submit" =>
       \/ FundsTotal({[box |-> b, prio |-> SELECTED] : b \in spending.picked})
             >= spending.target
       \/ spending.picked \cap doubled # {}

(***************************************************************************)
(* With the channel empty, every unspent box of the wallet can be          *)
(* collected, except when its spending was undone, the executor removed    *)
(* it, or a restart lost an update of it.                                  *)
(***************************************************************************)
FundsKnown ==
    fundQueue = <<>> =>
       Unspent \cap Wallet \subseteq BoxesOf(funds) \cup unlisted

(***************************************************************************)
(* With the channel empty, no spent box is left in the repository, except  *)
(* one that the handler could not know when it was spent, that was         *)
(* predicted or created twice, or whose update a restart lost.             *)
(***************************************************************************)
FundsUnspent ==
    fundQueue = <<>> =>
       BoxesOf(funds) \subseteq Unspent \cup lingering \cup doubled
=============================================================================
