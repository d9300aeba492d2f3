---------------------------- MODULE MCLmExecutor -----------------------------
(* Small instance of LmExecutor: two orders of different kinds. *)
EXTENDS LmExecutor

CONSTANTS o1, o2

MCOrders == {o1, o2}
MCKinds == {[o \in MCOrders |-> IF o = o1 THEN k[1] ELSE k[2]] :
              k \in {<<"deposit", "redeem">>, <<"deposit", "compound">>,
                     <<"redeem", "compound">>}}
MCWeight == [o \in MCOrders |-> 1]
MCFundings == {2}
=============================================================================
