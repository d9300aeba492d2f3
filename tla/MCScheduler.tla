----------------------------- MODULE MCScheduler -----------------------------
(* Small instance of Scheduler: two pools with programs of two epochs whose  *)
(* ends partly coincide.                                                     *)
EXTENDS Scheduler

CONSTANTS p1, p2

MCPools == {p1, p2}
MCRank == [p \in MCPools |-> IF p = p1 THEN 2 ELSE 1]
MCStart == [p \in MCPools |-> IF p = p1 THEN 0 ELSE 1]
MCEpochLen == [p \in MCPools |-> 1]
=============================================================================
