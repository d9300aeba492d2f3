----------------------------- MODULE MCChainSync -----------------------------
(***************************************************************************)
(* Small instance of ChainSync: the main chain a1..a5, a fork b2, b3, b4   *)
(* off a1, and a fork c1, c2 at the starting height.                       *)
(***************************************************************************)
EXTENDS ChainSync

CONSTANTS a1, a2, a3, a4, a5, b2, b3, b4, c1, c2

MCBlocks == {a1, a2, a3, a4, a5, b2, b3, b4, c1, c2}
MCParent == [b \in MCBlocks |->
    CASE b \in {a1, c1} -> NoBlock
      [] b \in {a2, b2} -> a1
      [] b = a3 -> a2
      [] b = a4 -> a3
      [] b = a5 -> a4
      [] b = b3 -> b2
      [] b = b4 -> b3
      [] b = c2 -> c1]
MCHeight == [b \in MCBlocks |->
    CASE b \in {a1, c1} -> 1
      [] b \in {a2, b2, c2} -> 2
      [] b \in {a3, b3} -> 3
      [] b \in {a4, b4} -> 4
      [] b = a5 -> 5]
=============================================================================
