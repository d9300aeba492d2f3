------------------------------ MODULE ChainSync ------------------------------
(***************************************************************************)
(* The chain synchroniser of ergo-chain-sync: try_upgrade and the stream   *)
(* around it (lib.rs) over the persistent chain cache (cache/rocksdb.rs),  *)
(* against a node whose best chain grows and forks.                        *)
(*                                                                         *)
(* Blocks form a forest given by Parent and Height; the blocks of the      *)
(* starting height are its roots.  The cache's keys {B}:p, {B}:h and {B}:t *)
(* are always written and deleted together (stored); the transactions of a *)
(* block have keys of their own (bodies).  view is the list of blocks that *)
(* a consumer of the stream has applied and not unapplied.                 *)
(***************************************************************************)
EXTENDS Naturals, Sequences, FiniteSets, SequencesExt

CONSTANTS
    Blocks,       \* block ids
    Parent,       \* Parent[b]: parent_id, NoBlock for a block of StartHeight
    Height,       \* Height[b]: height
    StartHeight,  \* starting_height
    MaxDepth,     \* max_rollback_depth of the cache
    NoBlock,      \* "no block"
    MaxMoves,     \* bound: changes of the node's best chain
    MaxRestarts   \* bound: restarts of the process

ASSUME ChainAssumption ==
    /\ NoBlock \notin Blocks
    /\ StartHeight \in Nat
    /\ Height \in [Blocks -> Nat]
    /\ Parent \in [Blocks -> Blocks \cup {NoBlock}]
    /\ \A b \in Blocks :
          IF Parent[b] = NoBlock THEN Height[b] = StartHeight
                                 ELSE Height[b] = Height[Parent[b]] + 1
    /\ MaxDepth \in Nat \ {0}
    /\ MaxMoves \in Nat
    /\ MaxRestarts \in Nat

VARIABLES
    node,        \* node: last block of its best chain
    next,        \* SyncState.next_height
    fetched,     \* the block get_block_at has returned, not processed yet
    stored,      \* cache: blocks with the keys :p, :h and :t
    bodies,      \* cache: blocks whose transactions are there
    child,       \* cache: the keys :c, block id -> block id
    best,        \* cache: BEST_BLOCK
    oldest,      \* cache: OLDEST_BLOCK
    tipReached,  \* tip_reached_signal
    halted,      \* an unwrap has panicked
    view,        \* history: what the consumer of the stream has applied
    discarded,   \* history: blocks rolled back and not appended since
    taint,       \* history: why the cache and the view may have parted
    moves, restarts

cache == <<stored, bodies, child, best, oldest>>
vars == <<node, next, fetched, stored, bodies, child, best, oldest, tipReached,
          halted, view, discarded, taint, moves, restarts>>

BlockOrNone == Blocks \cup {NoBlock}
Reasons == {"restart",  \* the process was restarted with a non-empty cache
            "flip",     \* a block was linked to a block rolled back before
            "base"}     \* the oldest block of the cache was rolled back

TypeOK ==
    /\ node \in Blocks
    /\ next \in Nat
    /\ fetched \in BlockOrNone
    /\ stored \subseteq Blocks
    /\ bodies \subseteq stored
    /\ DOMAIN child \subseteq BlockOrNone
    /\ child \in [DOMAIN child -> Blocks]
    /\ best \in BlockOrNone
    /\ oldest \in BlockOrNone
    /\ tipReached \in BOOLEAN
    /\ halted \in BOOLEAN
    /\ view \in Seq(Blocks)
    /\ discarded \subseteq Blocks
    /\ taint \subseteq Reasons
    /\ moves \in 0..MaxMoves
    /\ restarts \in 0..MaxRestarts

Init ==
    /\ node \in {b \in Blocks : Parent[b] = NoBlock}
    /\ next = StartHeight
    /\ fetched = NoBlock
    /\ stored = {}
    /\ bodies = {}
    /\ child = [b \in {} |-> NoBlock]
    /\ best = NoBlock
    /\ oldest = NoBlock
    /\ tipReached = FALSE
    /\ halted = FALSE
    /\ view = <<>>
    /\ discarded = {}
    /\ taint = {}
    /\ moves = 0
    /\ restarts = 0
-----------------------------------------------------------------------------
(***************************************************************************)
(* The node (external).  Its best chain is replaced only by a longer one.  *)
(***************************************************************************)
Chain[b \in Blocks] ==
    IF Parent[b] = NoBlock THEN {b} ELSE {b} \cup Chain[Parent[b]]

NodeMoves(b) ==
    /\ moves < MaxMoves
    /\ Height[b] > Height[node]
    /\ node' = b
    /\ moves' = moves + 1
    /\ UNCHANGED <<next, fetched, cache, tipReached, halted, view, discarded, taint, restarts>>

\* get_block_at: the block of the node's best chain at the height, by its id.
GetBlockAt ==
    /\ ~halted /\ fetched = NoBlock
    /\ \E b \in Blocks : b \in Chain[node] /\ Height[b] = next /\ fetched' = b
    /\ UNCHANGED <<node, next, cache, tipReached, halted, view, discarded, taint, moves, restarts>>

\* try_upgrade returns None; the stream then fires the tip-reached signal.
NoUpgrade ==
    /\ fetched' = NoBlock
    /\ tipReached' = TRUE
    /\ UNCHANGED <<node, next, cache, halted, view, discarded, taint, moves, restarts>>

\* The node has no block at that height.
AtTip == ~halted /\ fetched = NoBlock /\ next > Height[node] /\ NoUpgrade

\* A request to the node fails.
NetworkError == ~halted /\ fetched = NoBlock /\ NoUpgrade
-----------------------------------------------------------------------------
(***************************************************************************)
(* try_upgrade on the fetched block: forward if it links, else backward.   *)
(***************************************************************************)
\* ChainCache::exists
Exists(b) == b \in stored

\* MUTANT of Linked: any block above the starting height is taken to link.
LinkedAbove(b) == Exists(Parent[b]) \/ Height[b] >= StartHeight

Linked(b) == Exists(Parent[b]) \/ Height[b] = StartHeight

\* MUTANT of AtCapacity: the store holds one block more.
OverCapacity(b) == oldest # NoBlock /\ Height[b] = Height[oldest] + MaxDepth + 1

\* The store is full (an u32 subtraction in the code; it wraps in a release build).
AtCapacity(b) == oldest # NoBlock /\ Height[b] = Height[oldest] + MaxDepth

\* MUTANT of ChildOf: the parent's key :c is not written.
ChildForgotten(b) == child

\* The keys :c with the one of b's parent written.
ChildOf(b) == [x \in DOMAIN child \cup {Parent[b]} |-> IF x = Parent[b] THEN b ELSE child[x]]

\* append_block, when OLDEST_BLOCK stays or is set for the first time.
AppendOnly(b) ==
    /\ ~AtCapacity(b)
    /\ stored' = stored \cup {b}
    /\ bodies' = bodies \cup {b}
    /\ child' = ChildOf(b)
    /\ best' = b
    /\ oldest' = IF oldest = NoBlock THEN b ELSE oldest

\* MUTANT of AppendAndPrune: the transactions of the pruned block stay.
AppendAndPruneKeys(b) ==
    /\ AtCapacity(b)
    /\ oldest \in DOMAIN ChildOf(b) /\ oldest \in stored \cup {b}
    /\ stored' = (stored \cup {b}) \ {oldest}
    /\ bodies' = bodies \cup {b}
    /\ child' = [x \in DOMAIN ChildOf(b) \ {oldest} |-> ChildOf(b)[x]]
    /\ best' = b
    /\ oldest' = ChildOf(b)[oldest]

\* append_block, when OLDEST_BLOCK moves to its child and the block is deleted.
AppendAndPrune(b) ==
    /\ AtCapacity(b)
    /\ oldest \in DOMAIN ChildOf(b) /\ oldest \in stored \cup {b}
    /\ stored' = (stored \cup {b}) \ {oldest}
    /\ bodies' = (bodies \cup {b}) \ {oldest}
    /\ child' = [x \in DOMAIN ChildOf(b) \ {oldest} |-> ChildOf(b)[x]]
    /\ best' = b
    /\ oldest' = ChildOf(b)[oldest]

\* append_block, when the unwrap of the oldest block's child or transactions fails.
AppendPanics(b) ==
    /\ AtCapacity(b)
    /\ oldest \notin DOMAIN ChildOf(b) \/ oldest \notin stored \cup {b}

RollForward ==
    /\ ~halted /\ fetched # NoBlock /\ Linked(fetched)
    /\ AppendOnly(fetched) \/ AppendAndPrune(fetched)
    /\ next' = next + 1
    /\ view' = Append(view, fetched)
    /\ taint' = IF Parent[fetched] \in discarded THEN taint \cup {"flip"} ELSE taint
    /\ discarded' = discarded \ {fetched}
    /\ fetched' = NoBlock
    /\ UNCHANGED <<node, tipReached, halted, moves, restarts>>

\* MUTANT of BestAfter: BEST_BLOCK is deleted and not set again.
BestAfterNone(b) == NoBlock

\* The new best block is the parent, if the cache has it.
BestAfter(b) == IF Parent[b] \in stored THEN Parent[b] ELSE NoBlock

\* take_best_block deletes the transactions and moves BEST_BLOCK; it leaves the
\* other keys of the block, its parent's :c and OLDEST_BLOCK alone.
RollBackward ==
    /\ ~halted /\ fetched # NoBlock /\ ~Linked(fetched)
    /\ best \in bodies
    /\ bodies' = bodies \ {best}
    /\ best' = BestAfter(best)
    /\ next' = next - 1
    /\ view' = IF view = <<>> THEN <<>> ELSE Front(view)
    /\ discarded' = discarded \cup {best}
    /\ taint' = IF best = oldest THEN taint \cup {"base"} ELSE taint
    /\ fetched' = NoBlock
    /\ UNCHANGED <<node, stored, child, oldest, tipReached, halted, moves, restarts>>

\* There is nothing to roll back: try_upgrade returns None.
NothingToTake ==
    /\ ~halted /\ fetched # NoBlock /\ ~Linked(fetched)
    /\ best \notin stored
    /\ NoUpgrade

\* An unwrap fails: in take_best_block on a transaction, or in append_block.
Panic ==
    /\ ~halted /\ fetched # NoBlock
    /\ \/ Linked(fetched) /\ AppendPanics(fetched)
       \/ ~Linked(fetched) /\ best \in stored \ bodies
    /\ halted' = TRUE
    /\ UNCHANGED <<node, next, fetched, cache, tipReached, view, discarded, taint,
                   moves, restarts>>

\* The process stops and starts: ChainSync::init starts AT the best block.
Restart ==
    /\ restarts < MaxRestarts
    /\ restarts' = restarts + 1
    /\ next' = IF best # NoBlock /\ Height[best] > StartHeight THEN Height[best]
               ELSE StartHeight
    /\ fetched' = NoBlock
    /\ tipReached' = FALSE
    /\ halted' = FALSE
    /\ taint' = IF best # NoBlock \/ oldest # NoBlock THEN taint \cup {"restart"} ELSE taint
    /\ UNCHANGED <<node, cache, view, discarded, moves>>

Next ==
    \/ \E b \in Blocks : NodeMoves(b)
    \/ GetBlockAt
    \/ AtTip
    \/ NetworkError
    \/ RollForward
    \/ RollBackward
    \/ NothingToTake
    \/ Panic
    \/ Restart

Spec == Init /\ [][Next]_vars

\* The stream is polled on: a request that can be answered is answered in the
\* end, and the answer is processed.
FairSpec ==
    /\ Spec
    /\ WF_vars(GetBlockAt)
    /\ WF_vars(RollForward)
    /\ WF_vars(RollBackward)
-----------------------------------------------------------------------------
InSync == taint \cap {"restart", "flip"} = {}

(***************************************************************************)
(* What the stream tells its consumer is a walk on the block tree: a block *)
(* rolled forward is a child of the consumer's last one, a block rolled    *)
(* back is the consumer's last one.  Forks may switch while a block is in  *)
(* flight; only a restart, or a return to a fork that was left, is exempt. *)
(***************************************************************************)
FollowsChain ==
    [][InSync' /\ view' # view =>
          \/ /\ view' = Append(view, best')
             /\ view = <<>> \/ Parent[best'] = Last(view)
          \/ /\ view # <<>> /\ view' = Front(view)
             /\ Last(view) = best /\ best \in discarded']_vars

(***************************************************************************)
(* The cache can undo exactly what the consumer has applied, down to the   *)
(* oldest block it keeps and no further than the rollback depth.           *)
(***************************************************************************)
CanUndo ==
    taint = {} =>
        /\ best = IF view = <<>> THEN NoBlock ELSE Last(view)
        /\ bodies = {b \in ToSet(view) : Height[b] >= Height[oldest]}
        /\ Cardinality(bodies) <= MaxDepth
        /\ view # <<>> => oldest \in bodies

(***************************************************************************)
(* No unwrap of the cache panics, neither when the store is pruned after   *)
(* forks nor when a block is taken, while the cache and the consumer are   *)
(* in step and the oldest block has not been rolled back.                  *)
(***************************************************************************)
NoPanic == taint = {} => ~halted

(***************************************************************************)
(* When the node's best chain stops changing, the consumer ends up with    *)
(* its last block, after any number of rollbacks within the depth.         *)
(***************************************************************************)
CatchesUp ==
    <>[](taint = {} => view # <<>> /\ Last(view) = node)
-----------------------------------------------------------------------------
\* "Chain is linked, upgrading .." (try_upgrade): without a restart, a block that
\* is appended links to the best block.
AppendsToBest ==
    [][RollForward /\ "restart" \notin taint /\ best # NoBlock
          => Parent[fetched] = best]_vars
=============================================================================
