------------------------------ MODULE MCBacklog ------------------------------
(***************************************************************************)
(* Small instance of the backlog with one of two clients:                  *)
(*   any       calls the methods in any order the protocol of Backlog      *)
(*             allows, on two orders of different weight;                  *)
(*   executor  is try_execute_next step by step, on one order of any kind. *)
(***************************************************************************)
EXTENDS LmExecutor

CONSTANTS o1, o2

VARIABLE client

MCOrders == {o1, o2}
MCWeight == [o \in MCOrders |-> IF o = o1 THEN 1 ELSE 2]
MCKinds == {[o \in MCOrders |-> k] : k \in {"deposit", "redeem", "compound"}}

\* The protocol of Backlog does not know kinds: one of them stands for all.
MCInit ==
    /\ LmInit
    /\ client \in {"any", "executor"}
    /\ client = "any" => kind = [o \in MCOrders |-> "deposit"]

MCNext ==
    /\ \/ client = "any" /\ Next /\ UNCHANGED <<step, exec>>
       \/ client = "executor" /\ LmNext /\ o2 \notin DOMAIN store'
    /\ UNCHANGED client

MCSpec ==
    /\ MCInit /\ [][MCNext]_<<client, lmVars>>
    /\ WF_vars(Tick)
    /\ WF_vars(Return)
    /\ SF_vars(TryPopPending)
    /\ SF_vars(TryPopSuspended)
=============================================================================
