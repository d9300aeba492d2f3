----------------------------- MODULE LedgerFeed -----------------------------
(***************************************************************************)
(* The ledger as the event sink of the bot sees it: event_source.rs turns  *)
(* every block that is rolled forward into one AppliedTx event per         *)
(* transaction, and every block that is rolled back into one UnappliedTx   *)
(* event per transaction, last transaction first; event_sink.rs offers     *)
(* each event to every handler.  So the events apply and undo transactions *)
(* one at a time, in the manner of a stack, and chain is the stack.        *)
(*                                                                         *)
(* A transaction spends boxes and creates boxes.  A box is created by one  *)
(* transaction only, because its id is derived from that transaction.      *)
(***************************************************************************)
EXTENDS Naturals, Sequences, FiniteSets, SequencesExt

CONSTANTS
    Txs,       \* transactions
    Inputs,    \* Inputs[t]: boxes t spends
    Outputs,   \* Outputs[t]: boxes t creates
    Genesis,   \* boxes older than the first event
    MaxQueue   \* bound: updates in the channel between a handler and its stream

ASSUME FeedAssumption ==
    /\ DOMAIN Inputs = Txs
    /\ DOMAIN Outputs = Txs
    /\ \A t, u \in Txs : Outputs[t] \cap Outputs[u] # {} => t = u
    /\ \A t \in Txs : Outputs[t] \cap (Inputs[t] \cup Genesis) = {}
    /\ \A t \in Txs : IsFiniteSet(Inputs[t] \cup Outputs[t])
    /\ MaxQueue \in Nat

VARIABLE chain    \* the transactions applied and not undone, in order

Created == Genesis \cup UNION {Outputs[t] : t \in ToSet(chain)}
Spent == UNION {Inputs[t] : t \in ToSet(chain)}
Unspent == Created \ Spent

ChainTypeOK == chain \in Seq(Txs)

FeedInit == chain = <<>>

\* An AppliedTx event: the inputs of the transaction are there to be spent.
AppliedTx(t) ==
    /\ t \notin ToSet(chain)
    /\ Inputs[t] \subseteq Unspent
    /\ chain' = Append(chain, t)

\* An UnappliedTx event: the last transaction is undone.
UnappliedTx(t) ==
    /\ chain # <<>>
    /\ t = Last(chain)
    /\ chain' = Front(chain)

\* What a handler sends: an update for each of the boxes, one after another.
Events(op, bs) == SetToSeq([op : {op}, box : bs])
=============================================================================
