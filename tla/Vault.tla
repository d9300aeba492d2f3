------------------------------- MODULE Vault --------------------------------
(***************************************************************************)
(* What a liquidity mining pool promises its stakers, whatever it does     *)
(* about rewards and epochs: the liquidity of a staker is kept until the   *)
(* staker takes it back, all of it and nothing else, and the pool issues   *)
(* one virtual token for each token it holds.                              *)
(***************************************************************************)
EXTENDS Naturals

CONSTANTS
    Stakers,
    Amounts    \* liquidity a staker may bring

VARIABLES
    held,     \* liquidity in the pool
    issued,   \* virtual liquidity outside the pool
    claims    \* staker with a bundle -> liquidity deposited

vaultVars == <<held, issued, claims>>

Init ==
    /\ held = 0
    /\ issued = 0
    /\ claims = [s \in {} |-> 0]

Stake(s, n) ==
    /\ s \notin DOMAIN claims
    /\ held' = held + n
    /\ issued' = issued + n
    /\ claims' = [x \in DOMAIN claims \cup {s} |-> IF x = s THEN n ELSE claims[x]]

TakeBack(s) ==
    /\ s \in DOMAIN claims
    /\ held' = held - claims[s]
    /\ issued' = issued - claims[s]
    /\ claims' = [x \in DOMAIN claims \ {s} |-> claims[x]]

Next == \E s \in Stakers : TakeBack(s) \/ \E n \in Amounts : Stake(s, n)

Spec == Init /\ [][Next]_vaultVars
=============================================================================
