------------------------------ MODULE Followers ------------------------------
(***************************************************************************)
(* The followers of the ledger together, as main.rs of the LM bot wires    *)
(* them: process_events offers each event to every handler before the next *)
(* event is read; the streams of updates, the executor and the next event  *)
(* take turns at every await; a restart is one of them all.                *)
(*                                                                         *)
(* The executor resolves a bundle, collects funding and reports what the   *)
(* node said of one attempt after another.  Its work on the funding and on *)
(* the bundles may interleave here as it likes, which allows what it does. *)
(***************************************************************************)
EXTENDS Funding, Orders

fundOnlyVars == <<repoVars, fundQueue, spending, fundHistory>>
bundleOnlyVars == <<bundleRepo, programKnown, bundleQueue, resolving, unsure, touched>>
followersVars == <<chain, fundOnlyVars, bundleOnlyVars, orderVars>>

FollowersInit == FeedInit /\ FundingInit /\ BundlesInit /\ OrdersInit

\* process_events: one event, all handlers.
AppliedRound(t) == HandleFundingApplied(t) /\ AppliedEvent(t)
UnappliedRound(t) == HandleFundingUnapplied(t) /\ UnappliedEvent(t)

ExecutorOnFunding ==
    \/ \E target \in Targets : Collect(target)
    \/ \E t \in Txs : Submitted(t)
    \/ \E bs \in SUBSET spending.picked : ReportMissing(bs)
    \/ \E b \in spending.picked : PurgeMissing(b)
    \/ Abandoned

FundingSteps == (TrackFunding \/ ExecutorOnFunding) /\ UNCHANGED <<bundleOnlyVars, orderVars>>

BundleSteps == (TrackBundle \/ ExecutorOnBundles) /\ UNCHANGED <<fundOnlyVars, orderVars>>

OrderSteps ==
    /\ TrackOrder \/ \E o \in OrderBoxes : OrderLeaves(o)
    /\ UNCHANGED fundOnlyVars

\* All databases stay, all channels are lost.
FollowersRestart == OrdersRestart /\ FundingRestart

FollowersNext ==
    \/ \E t \in Txs : AppliedRound(t) \/ UnappliedRound(t)
    \/ FundingSteps
    \/ BundleSteps
    \/ OrderSteps
    \/ FollowersRestart

FollowersSpec == FollowersInit /\ [][FollowersNext]_followersVars
-----------------------------------------------------------------------------
FeedTypeOK == ChainTypeOK /\ FundingTypeOK /\ BundlesTypeOK /\ OrdersTypeOK
=============================================================================
