----------------------------- MODULE MCProgram ------------------------------
(***************************************************************************)
(* Small instance of a program from its deployment on.  The wallets: with  *)
(* what the deployment needs in one box and some ERG to spare; with the    *)
(* tokens in two boxes; with tokens left over; with exactly the ERG that   *)
(* the tool asks for; with a token that does not belong there.             *)
(***************************************************************************)
EXTENDS Deploy

CONSTANTS alice, bob, carol

WalletBox(i, value, tokens) ==
    [id |-> <<0, 0, i>>, value |-> value, tokens |-> Tokens(tokens), mine |-> TRUE]

Enough == CalcTargetBalance(6)

MCWallets ==
    {{WalletBox(1, Enough + 2, [lq |-> InitialLq, reward |-> ProgramBudget])},
     {WalletBox(1, 4, [lq |-> InitialLq]), WalletBox(2, Enough - 2, [reward |-> ProgramBudget])},
     {WalletBox(1, Enough + 2, [lq |-> 2 * InitialLq, reward |-> ProgramBudget])},
     {WalletBox(1, Enough, [lq |-> InitialLq, reward |-> ProgramBudget])},
     {WalletBox(1, Enough + 2, [lq |-> InitialLq, reward |-> ProgramBudget]),
      WalletBox(2, 1, [other |-> 1])}}

\* Only a program that the first run of the tool deployed is followed: one
\* that a later run deployed differs in the names of its boxes.
MCNext == ProgramNext /\ (attempts' = 2 => tool' # "done")

MCSpec == DeployInit /\ [][MCNext]_programVars
=============================================================================
