------------------------------- MODULE Deploy -------------------------------
(***************************************************************************)
(* The deployment tool, spectrum-deploy-lm-pool/src/main.rs: validate the  *)
(* program, read the boxes of the operator's wallet, build a chain of six  *)
(* transactions on them, and submit them one by one until one is refused.  *)
(* The sixth creates the pool of module LmPool and the first bundle.       *)
(*                                                                         *)
(* A box is [id, value, tokens, mine]; tokens gives an amount for each     *)
(* kind of token and mine says whether the wallet's key guards it.         *)
(***************************************************************************)
EXTENDS LmPool, SequencesExt

CONSTANTS
    Wallets,         \* possible boxes of the wallet
    TxFee,           \* tx_fee
    ErgPerBox,       \* erg_value_per_box
    StartMargin,     \* 100: least number of blocks before program_start
    MinLq,           \* 100: least liquidity to deposit
    DustLimit,       \* least value of a box that the box builder accepts
    MaxAttempts      \* bound: runs of the tool

VARIABLES
    ledger,      \* boxes that are not spent
    input,       \* num_epochs_to_delegate of the configuration
    txs,         \* transactions built: inputs and outputs
    submitted,   \* how many of them the node has taken
    tool,        \* idle, building, submitting, done, refused or panicked
    attempts

toolVars == <<ledger, input, txs, submitted, tool, attempts>>

TokenKinds == {"lq", "reward", "nft", "vlq", "tmp", "key", "other"}
None == [k \in TokenKinds |-> 0]
Tokens(f) == [k \in TokenKinds |-> IF k \in DOMAIN f THEN f[k] ELSE 0]
ASSUME DeployAssumption ==
    /\ \A w \in Wallets :
          /\ IsFiniteSet(w)
          /\ w \subseteq [id : {0} \X {0} \X Nat, value : Nat,
                          tokens : [TokenKinds -> Nat], mine : BOOLEAN]
    /\ {TxFee, ErgPerBox, StartMargin, MinLq, DustLimit, MaxAttempts} \subseteq Nat
    /\ MaxValue > 0

Total(boxes, k) == MapThenSumSet(LAMBDA b : b.tokens[k], boxes)
Value(boxes) == MapThenSumSet(LAMBDA b : b.value, boxes)

Box(value, tokens) == [value |-> value, tokens |-> tokens, mine |-> TRUE]
Guarded(value, tokens) == [value |-> value, tokens |-> tokens, mine |-> FALSE]
Fee(value) == Guarded(value, None)

\* A signed transaction gives its outputs their ids.
Sign(ins, outs) ==
    [ins |-> ins,
     outs |-> [i \in DOMAIN outs |->
                 [id |-> <<attempts, Len(txs), i>>, value |-> outs[i].value,
                  tokens |-> outs[i].tokens, mine |-> outs[i].mine]]]

CalcTargetBalance(left) == (ErgPerBox + TxFee) * (left - 1) + TxFee + 3 * FatBox
-----------------------------------------------------------------------------
\* SimpleBoxSelector: the boxes with most of the wanted tokens come first,
\* and of those with equally many the last.
Hits(b, want) == Cardinality({k \in TokenKinds : want[k] > 0 /\ b.tokens[k] > 0})

Sooner(boxes, want, i, j) ==
    \/ Hits(boxes[i], want) > Hits(boxes[j], want)
    \/ Hits(boxes[i], want) = Hits(boxes[j], want) /\ i > j

Ahead(boxes, want, i) == {j \in DOMAIN boxes : Sooner(boxes, want, j, i)}

SelectionOrder(boxes, want) ==
    [n \in DOMAIN boxes |->
        boxes[CHOOSE i \in DOMAIN boxes : Cardinality(Ahead(boxes, want, i)) = n - 1]]

\* A box is taken while the value is not reached, or when it has a token that
\* is still wanted; boxes of others are filtered out before (filter_tx_outputs).
Takes(taken, b, target, want) ==
    /\ b.mine
    /\ \/ Value(ToSet(taken)) < target
       \/ \E k \in TokenKinds : b.tokens[k] > 0 /\ Total(ToSet(taken), k) < want[k]

Select(boxes, target, want) ==
    LET order == SelectionOrder(boxes, want)
        taken[n \in 0 .. Len(boxes)] ==
            IF n = 0 THEN <<>>
            ELSE IF Takes(taken[n - 1], order[n], target, want)
                 THEN Append(taken[n - 1], order[n]) ELSE taken[n - 1]
    IN  taken[Len(boxes)]

Suffices(boxes, target, want) ==
    /\ Value(ToSet(boxes)) >= target
    /\ \A k \in TokenKinds : Total(ToSet(boxes), k) >= want[k]
-----------------------------------------------------------------------------
\* The next transaction, or the way the tool ends: with an error when the
\* selection falls short or a box is too small to be built, with a panic
\* when a box would have no value.
Build(sel, target, want, made) ==
    LET fails == \/ ~Suffices(sel, target, want)
                 \/ \E i \in DOMAIN made : made[i].mine /\ made[i].value \in 1 .. DustLimit - 1
        panics == \E i \in DOMAIN made : made[i].value = 0
    IN  /\ txs' = IF fails \/ panics THEN txs ELSE Append(txs, Sign(sel, made))
        /\ tool' = CASE fails -> "refused"
                     [] panics /\ ~fails -> "panicked"
                     [] ~panics /\ ~fails -> IF Len(txs) = 5 THEN "submitting" ELSE "building"
        /\ UNCHANGED <<ledger, input, submitted, attempts, poolVars>>

Deposit0 == Tokens([lq |-> InitialLq, reward |-> ProgramBudget])

\* TX 0: liquidity and budget in one box, the tokens left over in another.
\* The explorer lists the boxes of the wallet in some order.
Leftover(sel) ==
    [k \in TokenKinds |-> SatSub(Total(ToSet(sel), k), Deposit0[k])]

GatherTokens ==
    /\ tool = "building"
    /\ txs = <<>>
    /\ \E utxos \in SetToSeqs({b \in ledger : b.mine}) :
        LET sel == Select(utxos, CalcTargetBalance(6), Deposit0)
            outs == <<Box(ErgPerBox, Deposit0), Box(CalcTargetBalance(5), None), Fee(TxFee),
                      Box(Value(ToSet(sel)) - CalcTargetBalance(6), Leftover(sel))>>
        IN  Build(sel, CalcTargetBalance(6), Deposit0, outs)

\* Inputs of TX 1: without the first output that has as much of a token as
\* was left over; the last output takes its place.
SwapRemove(seq, i) == [j \in 1 .. Len(seq) - 1 |-> IF j = i THEN seq[Len(seq)] ELSE seq[j]]

\* MUTANT of FundsFor: the box of the tokens left over is not set aside.
FundsForAll(i) == txs[i].outs

FundsFor(i) ==
    LET outs == txs[i].outs
        rest == outs[4].tokens
        marked == {j \in DOMAIN outs :
                     \E k \in TokenKinds : rest[k] > 0 /\ outs[j].tokens[k] = rest[k]}
    IN  IF i = 1 /\ rest # None THEN SwapRemove(outs, Min(marked)) ELSE outs

\* TX 1 to 3: mint the pool NFT, the vlq and the tmp tokens.
Minted(i) ==
    CASE i = 2 -> Tokens([nft |-> 1])
      [] i = 3 -> Tokens([vlq |-> MaxValue])
      [] i = 4 -> Tokens([tmp |-> MaxValue])

MintToken ==
    /\ tool = "building"
    /\ Len(txs) \in 1 .. 3
    /\ LET left == 6 - Len(txs)
           sel == Select(FundsFor(Len(txs)), CalcTargetBalance(left), None)
           outs == <<Box(ErgPerBox, Minted(Len(txs) + 1)), Box(CalcTargetBalance(left - 1), None),
                     Fee(TxFee), Box(Value(ToSet(sel)) - CalcTargetBalance(left), None)>>
       IN  Build(sel, CalcTargetBalance(left), None, outs)

\* TX 4: all tokens in the box from which the pool is made.
FindBoxWithToken(outs, k) == outs[Min({j \in DOMAIN outs : outs[j].tokens[k] > 0})]

PoolTokens ==
    Tokens([lq |-> InitialLq, reward |-> ProgramBudget, nft |-> 1,
            vlq |-> MaxValue, tmp |-> MaxValue])

PoolInput ==
    /\ tool = "building"
    /\ Len(txs) = 4
    /\ LET ins == <<FindBoxWithToken(txs[2].outs, "nft"), FindBoxWithToken(txs[1].outs, "reward"),
                    FindBoxWithToken(txs[3].outs, "vlq"), FindBoxWithToken(txs[4].outs, "tmp"),
                    txs[4].outs[2]>>
           sel == Select(ins, CalcTargetBalance(2), PoolTokens)
           outs == <<Box(ErgPerBox, PoolTokens), Box(CalcTargetBalance(1), None), Fee(TxFee),
                     Box(Value(ToSet(sel)) - CalcTargetBalance(2), None)>>
       IN  Build(sel, CalcTargetBalance(2), PoolTokens, outs)

\* TX 5: the pool, the key of the first bundle for the operator, the bundle.
PoolBox ==
    LET p == FreshPool(input)
    IN  Guarded(FatBox, Tokens([lq |-> p.lq, reward |-> p.budget, nft |-> 1,
                                vlq |-> p.vlq, tmp |-> p.tmp]))
BundleBox ==
    LET b == FreshBundle(input)
    IN  Guarded(FatBox, Tokens([vlq |-> b.vlq, tmp |-> b.tmp, key |-> 1]))

InitPool ==
    /\ tool = "building"
    /\ Len(txs) = 5
    /\ LET sel == Select(txs[5].outs, CalcTargetBalance(1), PoolTokens)
           rest == Value(ToSet(sel)) - CalcTargetBalance(1)
           made == <<PoolBox, Box(FatBox, Tokens([key |-> MaxValue - 1])), BundleBox>>
           change == IF rest >= MinBox THEN <<Box(rest, None), Fee(TxFee)>>
                     ELSE <<Fee(TxFee + rest)>>
       IN  Build(sel, CalcTargetBalance(1), PoolTokens, made \o change)
-----------------------------------------------------------------------------
ValidatePool ==
    /\ ProgramStart >= height + StartMargin
    /\ RedeemDelta >= EpochLen
    /\ InitialLq >= MinLq
    /\ EpochNum < MaxRoundingError
    /\ MaxRoundingError * EpochNum < ProgramBudget \div EpochNum

CheckUtxos ==
    LET mine == {b \in ledger : b.mine}
    IN  /\ \A k \in TokenKinds \ {"lq", "reward"} : Total(mine, k) = 0
        /\ Total(mine, "lq") >= MinLq
        /\ Total(mine, "reward") >= ProgramBudget

DeployInit ==
    /\ PoolInit
    /\ ledger \in Wallets
    /\ input \in Delegations
    /\ txs = <<>>
    /\ submitted = 0
    /\ tool = "idle"
    /\ attempts = 0

\* The operator runs the tool, again if it did not get to the end.
StartTool ==
    /\ tool \in {"idle", "refused", "panicked"}
    /\ attempts < MaxAttempts
    /\ attempts' = attempts + 1
    /\ txs' = <<>>
    /\ submitted' = 0
    /\ tool' = IF ValidatePool /\ CheckUtxos THEN "building" ELSE "refused"
    /\ UNCHANGED <<ledger, input, poolVars>>

\* The node takes the next transaction.
SubmitTx ==
    /\ tool = "submitting"
    /\ LET tx == txs[submitted + 1]
       IN  /\ ToSet(tx.ins) \subseteq ledger
           /\ ledger' = (ledger \ ToSet(tx.ins)) \cup ToSet(tx.outs)
    /\ IF submitted = 5
       THEN Create(input) /\ tool' = "done" /\ txs' = <<>> /\ submitted' = 0
       ELSE submitted' = submitted + 1 /\ UNCHANGED <<tool, txs, poolVars>>
    /\ UNCHANGED <<input, attempts>>

\* The node cannot be reached, or refuses the transaction: the loop ends.
SubmitFails ==
    /\ tool = "submitting"
    /\ tool' = "refused"
    /\ UNCHANGED <<ledger, input, txs, submitted, attempts, poolVars>>

DeployNext ==
    \/ StartTool \/ GatherTokens \/ MintToken \/ PoolInput \/ InitPool
    \/ SubmitTx \/ SubmitFails

ProgramNext == DeployNext \/ (PoolNext /\ UNCHANGED toolVars)

programVars == <<poolVars, toolVars>>

ProgramSpec == DeployInit /\ [][ProgramNext]_programVars
-----------------------------------------------------------------------------
(***************************************************************************)
(* The chain of transactions is sound, whatever the wallet holds: each     *)
(* transaction spends boxes that are there when those before it are done,  *)
(* no box twice, and gives back all the ERG and all the tokens it takes.   *)
(***************************************************************************)
ChainIsSound ==
    \A i \in DOMAIN txs :
        LET ins == ToSet(txs[i].ins)
            before == UNION {ToSet(txs[j].ins) : j \in 1 .. i - 1}
            made == UNION {ToSet(txs[j].outs) : j \in 1 .. i - 1}
        IN  /\ submitted = 0 => ins \subseteq (ledger \cup made) \ before
            /\ Value(ins) = Value(ToSet(txs[i].outs))
            /\ \A k \in TokenKinds : Total(ins, k) <= Total(ToSet(txs[i].outs), k)
=============================================================================
