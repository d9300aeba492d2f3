---------------------------- MODULE EntityTracker ----------------------------
(***************************************************************************)
(* How the bot follows one on-chain entity (a pool): the entity repository *)
(* of spectrum-offchain/src/box_resolver/rocksdb.rs, the handler that      *)
(* turns ledger events into state updates (event_sink/handlers/entity.rs), *)
(* the stream that applies the updates (box_resolver/process.rs) and the   *)
(* executor that resolves the latest state (box_resolver.rs) and reports   *)
(* the outcome of a submission.                                            *)
(*                                                                         *)
(* A state of the entity is a box.  The box a transaction creates is       *)
(* determined by the transaction, hence by the box it spends: the states   *)
(* form a forest given by Parent.  The ledger moves along that forest,     *)
(* forwards and, in a reorganisation, backwards; a transaction may also    *)
(* end the entity.  Handler, tracking stream and executor interleave at    *)
(* every await, except inside a critical section of the repository's lock. *)
(***************************************************************************)
EXTENDS Naturals, Sequences

CONSTANTS
    States,    \* state ids (box ids) of the entity
    Parent,    \* Parent[s]: the state that the transaction creating s spends
    Ancestor,  \* pairs <<a, s>>: a is a proper ancestor of s
    NoState,   \* "no state": a box outside of the entity, or None
    MaxQueue   \* bound: updates waiting in the channel

ASSUME EntityAssumption ==
    /\ NoState \notin States
    /\ Parent \in [States -> States \cup {NoState}]
    /\ Ancestor \subseteq States \X States
    /\ \A s \in States : Parent[s] # NoState => <<Parent[s], s>> \in Ancestor
    /\ \A a, b, c \in States :
          <<a, b>> \in Ancestor /\ <<b, c>> \in Ancestor => <<a, c>> \in Ancestor
    /\ MaxQueue \in Nat

VARIABLES
    tip,            \* ledger: the latest state of the entity
    ended,          \* ledger: that state has been spent without a successor
    queue,          \* channel of StateUpdates from the handler to the stream
    states,         \* repository: "state:<sid>", the stored states
    link,           \* repository: "prediction:link:<sid>" -> preceding state
    lastConfirmed,  \* repository: "confirmed:last:<eid>"
    lastPredicted,  \* repository: "predicted:last:<eid>"
    pc,             \* executor: where it is in resolve_entity_state
    conf, pred,     \* executor: the states it has read
    head,           \* executor: head_sid of is_linking
    work,           \* executor: the resolved state
    missed,         \* history: the handler could not see a spent state
    disturbed       \* history: since the handler announced the last state, the
                    \* executor has invalidated one or a restart lost updates

ledger == <<tip, ended>>
repo == <<states, link, lastConfirmed, lastPredicted>>
executor == <<pc, conf, pred, head, work>>
vars == <<tip, ended, queue, states, link, lastConfirmed, lastPredicted,
          pc, conf, pred, head, work, missed, disturbed>>

StateOrNone == States \cup {NoState}

\* StateUpdate: a transition or its rollback, EitherOrBoth an old and a new state.
Update == {u \in [rollback : BOOLEAN, left : StateOrNone, right : StateOrNone] :
              u.left # NoState \/ u.right # NoState}

TypeOK ==
    /\ tip \in StateOrNone
    /\ ended \in BOOLEAN
    /\ queue \in Seq(Update)
    /\ states \subseteq States
    /\ DOMAIN link \subseteq States
    /\ link \in [DOMAIN link -> States]
    /\ lastConfirmed \in StateOrNone
    /\ lastPredicted \in StateOrNone
    /\ pc \in {"idle", "anchored", "walking", "working"}
    /\ {conf, pred, head, work} \subseteq StateOrNone
    /\ {missed, disturbed} \subseteq BOOLEAN

Init ==
    /\ tip = NoState
    /\ ended = FALSE
    /\ queue = <<>>
    /\ states = {}
    /\ link = [s \in {} |-> NoState]
    /\ lastConfirmed = NoState
    /\ lastPredicted = NoState
    /\ pc = "idle"
    /\ conf = NoState
    /\ pred = NoState
    /\ head = NoState
    /\ work = NoState
    /\ missed = FALSE
    /\ disturbed = FALSE
-----------------------------------------------------------------------------
(***************************************************************************)
(* The repository.  Every operation is one RocksDB transaction.            *)
(***************************************************************************)
\* get_prediction_predecessor
Predecessor(sid) == IF sid \in DOMAIN link THEN link[sid] ELSE NoState

\* get_last_predicted: the index is believed only while its link exists.
GetLastPredicted == IF lastPredicted \in DOMAIN link /\ lastPredicted \in states
                    THEN lastPredicted ELSE NoState

\* get_last_confirmed
GetLastConfirmed == IF lastConfirmed \in states THEN lastConfirmed ELSE NoState

\* get_state
GetState(sid) == IF sid \in states THEN sid ELSE NoState

PutConfirmed(s) ==
    /\ states' = states \cup {s}
    /\ lastConfirmed' = s
    /\ UNCHANGED <<link, lastPredicted>>

\* MUTANT of PutPredicted: the index and the link are written, the state is not.
PutPredictedIndexOnly(s, prev) ==
    /\ lastPredicted' = s
    /\ link' = [x \in DOMAIN link \cup {s} |-> IF x = s THEN prev ELSE link[x]]
    /\ UNCHANGED <<states, lastConfirmed>>

\* MUTANT of PutPredicted: the state is linked to itself.
PutPredictedSelfLinked(s, prev) ==
    /\ states' = states \cup {s}
    /\ lastPredicted' = s
    /\ link' = [x \in DOMAIN link \cup {s} |-> IF x = s THEN s ELSE link[x]]
    /\ UNCHANGED lastConfirmed

PutPredicted(s, prev) ==
    /\ states' = states \cup {s}
    /\ lastPredicted' = s
    /\ link' = [x \in DOMAIN link \cup {s} |-> IF x = s THEN prev ELSE link[x]]
    /\ UNCHANGED lastConfirmed

WithoutLink(s) == [x \in DOMAIN link \ {s} |-> link[x]]

\* The confirmed index moves to the predecessor of sid, or away if it has none.
Invalidate(sid) ==
    /\ lastConfirmed' = Predecessor(sid)
    /\ link' = WithoutLink(sid)
    /\ UNCHANGED <<states, lastPredicted>>

Eliminate(s) ==
    /\ link' = WithoutLink(s)
    /\ lastPredicted' = NoState
    /\ lastConfirmed' = NoState
    /\ UNCHANGED states
-----------------------------------------------------------------------------
(***************************************************************************)
(* ConfirmedUpdateHandler: a ledger event.  The handler looks the spent    *)
(* box up in the repository (extract_transitions), which the updates still *)
(* in the channel have not reached, and sends what it found.               *)
(***************************************************************************)
LockFree == pc # "walking"

\* MUTANT of Send: an event without any state of the entity is sent as well.
SendAlways(rollback, left, right) ==
    queue' = Append(queue, [rollback |-> rollback, left |-> left, right |-> right])

\* EitherOrBoth::try_from fails when there is neither state.
Send(rollback, left, right) ==
    queue' = IF left = NoState /\ right = NoState THEN queue
             ELSE Append(queue, [rollback |-> rollback, left |-> left, right |-> right])

\* An applied transaction that creates state s.
AppliedTx(s) ==
    /\ LockFree /\ Len(queue) < MaxQueue
    /\ Parent[s] = tip /\ ~ended
    /\ tip' = s
    /\ Send(FALSE, GetState(tip), s)
    /\ missed' = FALSE
    /\ disturbed' = FALSE
    /\ UNCHANGED <<ended, repo, executor>>

\* An applied transaction that spends the last state and creates none.
AppliedEnd ==
    /\ LockFree /\ Len(queue) < MaxQueue
    /\ tip # NoState /\ ~ended
    /\ ended' = TRUE
    /\ Send(FALSE, GetState(tip), NoState)
    /\ missed' = (tip \notin states)
    /\ disturbed' = (disturbed /\ tip \notin states)
    /\ UNCHANGED <<tip, repo, executor>>

\* MUTANT of Swapped: the sides of a rolled back transition are not swapped.
NotSwapped(consumed, created) == Send(TRUE, consumed, created)

\* tr.swap(): in a rollback the created state is the old one.
Swapped(consumed, created) == Send(TRUE, created, consumed)

\* The transaction that created the last state is unapplied.
UnappliedTx ==
    /\ LockFree /\ Len(queue) < MaxQueue
    /\ tip # NoState /\ ~ended
    /\ tip' = Parent[tip]
    /\ Swapped(GetState(Parent[tip]), tip)
    /\ missed' = (tip' # NoState /\ tip' \notin states)
    /\ disturbed' = FALSE
    /\ UNCHANGED <<ended, repo, executor>>

\* The transaction that ended the entity is unapplied.
UnappliedEnd ==
    /\ LockFree /\ Len(queue) < MaxQueue
    /\ ended
    /\ ended' = FALSE
    /\ Swapped(GetState(tip), NoState)
    /\ missed' = (tip \notin states)
    /\ disturbed' = (disturbed /\ tip \notin states)
    /\ UNCHANGED <<tip, repo, executor>>

\* entity_tracking_stream applies the next update of the channel.
Track ==
    /\ LockFree /\ queue # <<>>
    /\ queue' = Tail(queue)
    /\ LET u == Head(queue)
       IN  \/ u.right # NoState /\ PutConfirmed(u.right)
           \/ u.right = NoState /\ ~u.rollback /\ Eliminate(u.left)
           \/ u.right = NoState /\ u.rollback /\ Invalidate(u.left)
    /\ UNCHANGED <<ledger, executor, missed, disturbed>>
-----------------------------------------------------------------------------
(***************************************************************************)
(* resolve_entity_state, called by the executor.  The lock is taken once   *)
(* to read the indices and a second time for the walk of is_linking.       *)
(***************************************************************************)
ReadStates ==
    /\ pc = "idle"
    /\ conf' = GetLastConfirmed
    /\ pred' = GetLastPredicted
    /\ \/ /\ conf' = NoState                       \* None: no entity to work on
          /\ pc' = "idle" /\ work' = NoState
       \/ /\ conf' # NoState
          /\ pred' \in {NoState, conf'}            \* nothing to link
          /\ pc' = "working" /\ work' = conf'
       \/ /\ conf' # NoState
          /\ pred' \notin {NoState, conf'}
          /\ pc' = "anchored" /\ work' = NoState
    /\ head' = NoState
    /\ UNCHANGED <<ledger, queue, repo, missed, disturbed>>

\* is_linking acquires the lock.
StartWalk ==
    /\ pc = "anchored"
    /\ pc' = "walking"
    /\ head' = pred
    /\ UNCHANGED <<ledger, queue, repo, conf, pred, work, missed, disturbed>>

\* MUTANT of SafePoint: a walk that ran out of links passes for a valid one.
SafePointOptimistic(prev) == pred

\* The prediction is valid if the walk met the anchoring point.
SafePoint(prev) == IF prev = conf THEN pred ELSE conf

\* One iteration of the loop in is_linking.
WalkStep ==
    /\ pc = "walking"
    /\ LET prev == Predecessor(head)
       IN  \/ /\ prev \in {NoState, conf}
              /\ pc' = "working"
              /\ work' = SafePoint(prev)
              /\ UNCHANGED head
           \/ /\ prev \notin {NoState, conf}
              /\ head' = prev
              /\ UNCHANGED <<pc, work>>
    /\ UNCHANGED <<ledger, queue, repo, conf, pred, missed, disturbed>>

\* The executor goes back to its loop.
Done == /\ pc' = "idle"
        /\ conf' = NoState
        /\ pred' = NoState
        /\ head' = NoState
        /\ work' = NoState

\* The node accepted the transaction that turns work into s.
SubmitOk(s) ==
    /\ pc = "working"
    /\ Parent[s] = work
    /\ PutPredicted(s, work)
    /\ Done
    /\ UNCHANGED <<ledger, queue, missed, disturbed>>

\* The node reported the entity's box as a missing input, or as spent.
SubmitMissing ==
    /\ pc = "working"
    /\ Invalidate(work)
    /\ disturbed' = TRUE
    /\ Done
    /\ UNCHANGED <<ledger, queue, missed>>

\* The order could not be run, or the submission failed for another reason.
GiveUp ==
    /\ pc = "working"
    /\ Done
    /\ UNCHANGED <<ledger, queue, repo, missed, disturbed>>
-----------------------------------------------------------------------------
\* The process stops and starts: the channel and the executor's work are gone,
\* the repository is persistent.
RestartBare ==
    /\ queue' = <<>>
    /\ disturbed' = (disturbed \/ queue # <<>>)
    /\ Done
    /\ UNCHANGED <<ledger, repo, missed>>

\* The chain synchroniser starts with the block it has stored last.  If that
\* block made the last transition of the entity, the handler sees it again.
RestartReplay ==
    /\ tip # NoState /\ ~ended /\ MaxQueue > 0
    /\ queue' = <<[rollback |-> FALSE, left |-> GetState(Parent[tip]), right |-> tip]>>
    /\ missed' = FALSE
    /\ disturbed' = FALSE
    /\ Done
    /\ UNCHANGED <<ledger, repo>>

Next ==
    \/ \E s \in States : AppliedTx(s)
    \/ AppliedEnd
    \/ UnappliedTx
    \/ UnappliedEnd
    \/ Track
    \/ ReadStates
    \/ StartWalk
    \/ WalkStep
    \/ \E s \in States : SubmitOk(s)
    \/ SubmitMissing
    \/ GiveUp
    \/ RestartBare
    \/ RestartReplay

Spec == Init /\ [][Next]_vars

\* A task that is not waiting for the lock is polled again: the walk goes on.
FairSpec == Spec /\ WF_vars(WalkStep)
-----------------------------------------------------------------------------
(***************************************************************************)
(* The indices and links of the repository never point to a state that is  *)
(* not stored, whatever the order of confirmations, predictions,           *)
(* invalidations and restarts: get_last_confirmed and get_last_predicted   *)
(* never lose an entity because its state record is missing.               *)
(***************************************************************************)
NoDangling ==
    /\ {lastConfirmed, lastPredicted} \subseteq states \cup {NoState}
    /\ \A s \in DOMAIN link : s \in states /\ link[s] \in states

(***************************************************************************)
(* The state resolve_entity_state hands to the executor is the confirmed   *)
(* state it read or builds on it, although the repository may have changed *)
(* between its two critical sections.                                      *)
(***************************************************************************)
ResolvedSafe ==
    pc = "working" => work = conf \/ <<conf, work>> \in Ancestor

(***************************************************************************)
(* Once the stream has caught up, the last confirmed state is the ledger's *)
(* state of the entity, forwards and through reorganisations, unless the   *)
(* handler could not see a spent state, the executor has invalidated one   *)
(* in the meantime, or a restart lost updates.                             *)
(***************************************************************************)
ConfirmedTracksLedger ==
    queue = <<>> /\ ~missed /\ ~disturbed
        => lastConfirmed = IF ended THEN NoState ELSE tip

(***************************************************************************)
(* is_linking ends, and so gives the repository's lock back, which the     *)
(* handler and the tracking stream are waiting for.                        *)
(***************************************************************************)
LockReleased == (pc = "walking") ~> LockFree
-----------------------------------------------------------------------------
(***************************************************************************)
(* Statements of the repository's comments that the code does not keep.    *)
(***************************************************************************)

\* "Get last confirmed state of the given entity" (EntityRepo): once the stream
\* has caught up with the ledger's events, and unless the executor invalidated a
\* state or a restart lost updates, that is the ledger's state.
CaughtUpIsConfirmed ==
    queue = <<>> /\ ~disturbed
        => lastConfirmed = IF ended THEN NoState ELSE tip

\* "Invalidate particular state of the entity" (EntityRepo): a confirmed state
\* that replaced the executor's one while it was submitting survives.
InvalidatesOnlyIts ==
    [][SubmitMissing /\ lastConfirmed # NoState /\ <<lastConfirmed, work>> \notin Ancestor
          => lastConfirmed = work \/ lastConfirmed' = lastConfirmed]_vars
=============================================================================
