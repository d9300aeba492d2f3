------------------------- MODULE EntityTrackerProofs -------------------------
(***************************************************************************)
(* Proofs about EntityTracker, for every forest of states and every length *)
(* of the channel.                                                         *)
(***************************************************************************)
EXTENDS EntityTracker, SequenceTheorems, TLAPS

\* What the handler sends is an update, whatever it found.
LEMMA SendFacts ==
    ASSUME TypeOK, NEW rb \in BOOLEAN, NEW l \in StateOrNone, NEW r \in StateOrNone,
           Send(rb, l, r)
    PROVE  queue' \in Seq(Update)
<1> DEFINE u == [rollback |-> rb, left |-> l, right |-> r]
<1>1. queue \in Seq(Update)
  BY DEF TypeOK
<1>2. CASE l = NoState /\ r = NoState
  BY <1>1, <1>2 DEF Send
<1>3. CASE ~(l = NoState /\ r = NoState)
  <2>1. u \in Update
    BY <1>3 DEF Update
  <2>2. queue' = Append(queue, u)
    BY <1>3 DEF Send
  <2> HIDE DEF u
  <2> QED BY <1>1, <2>1, <2>2
<1> QED BY <1>2, <1>3

\* The predecessor of a state is a state or nothing.
LEMMA PredecessorType ==
    ASSUME TypeOK, NEW s
    PROVE  Predecessor(s) \in StateOrNone
  BY DEF TypeOK, Predecessor, StateOrNone

\* get_state returns a state or nothing.
LEMMA GetStateType ==
    ASSUME TypeOK, NEW s
    PROVE  GetState(s) \in StateOrNone
  BY DEF TypeOK, GetState, StateOrNone

\* The update the stream applies has a type, and the queue keeps its own.
LEMMA HeadFacts ==
    ASSUME TypeOK, queue # <<>>
    PROVE  /\ Tail(queue) \in Seq(Update)
           /\ Head(queue).rollback \in BOOLEAN
           /\ Head(queue).left \in StateOrNone
           /\ Head(queue).right \in StateOrNone
           /\ Head(queue).left # NoState \/ Head(queue).right # NoState
<1>1. queue \in Seq(Update)
  BY DEF TypeOK
<1>2. Head(queue) \in Update /\ Tail(queue) \in Seq(Update)
  BY <1>1
<1> QED BY <1>2 DEF Update

\* Every operation of the repository keeps the types of its four parts.
RepoTypeOK ==
    /\ states \subseteq States
    /\ DOMAIN link \subseteq States
    /\ link \in [DOMAIN link -> States]
    /\ lastConfirmed \in StateOrNone
    /\ lastPredicted \in StateOrNone

\* put_confirmed keeps the types of the repository.
LEMMA PutConfirmedType ==
    ASSUME TypeOK, NEW s \in States, PutConfirmed(s)
    PROVE  RepoTypeOK'
  BY DEF TypeOK, RepoTypeOK, PutConfirmed, StateOrNone

\* So does put_predicted.
LEMMA PutPredictedType ==
    ASSUME TypeOK, NEW s \in States, NEW p \in States, PutPredicted(s, p)
    PROVE  RepoTypeOK'
<1>1. /\ DOMAIN link' = DOMAIN link \cup {s}
      /\ \A x \in DOMAIN link' : link'[x] \in States
      /\ link' = [x \in DOMAIN link' |-> link'[x]]
  BY DEF TypeOK, PutPredicted
<1> QED BY <1>1 DEF TypeOK, RepoTypeOK, PutPredicted, StateOrNone

\* So does invalidate.
LEMMA InvalidateType ==
    ASSUME TypeOK, NEW s, Invalidate(s)
    PROVE  RepoTypeOK'
<1>1. /\ DOMAIN link' = DOMAIN link \ {s}
      /\ \A x \in DOMAIN link' : link'[x] \in States
      /\ link' = [x \in DOMAIN link' |-> link'[x]]
  BY DEF TypeOK, Invalidate, WithoutLink
<1>2. lastConfirmed' \in StateOrNone
  BY PredecessorType DEF Invalidate
<1> QED BY <1>1, <1>2 DEF TypeOK, RepoTypeOK, Invalidate

\* So does eliminate.
LEMMA EliminateType ==
    ASSUME TypeOK, NEW s, Eliminate(s)
    PROVE  RepoTypeOK'
<1>1. /\ DOMAIN link' = DOMAIN link \ {s}
      /\ \A x \in DOMAIN link' : link'[x] \in States
      /\ link' = [x \in DOMAIN link' |-> link'[x]]
  BY DEF TypeOK, Eliminate, WithoutLink
<1> QED BY <1>1 DEF TypeOK, RepoTypeOK, Eliminate, StateOrNone
-----------------------------------------------------------------------------
\* What the executor has in its hands at each point of its loop.
Busy ==
    /\ pc # "idle" => conf \in States
    /\ pc \in {"anchored", "walking"} => pred \in States
    /\ pc = "walking" => head \in States
    /\ pc = "working" => work \in States

\* The initial state is well typed.
LEMMA TypeInit == Init => TypeOK /\ Busy
<1> SUFFICES ASSUME Init PROVE TypeOK /\ Busy
  OBVIOUS
<1>1. DOMAIN link = {} /\ link = [s \in DOMAIN link |-> link[s]]
  BY DEF Init
<1>2. missed \in BOOLEAN /\ disturbed \in BOOLEAN /\ ended \in BOOLEAN
  BY DEF Init
<1> QED BY <1>1, <1>2 DEF Init, TypeOK, Busy, StateOrNone

\* The executor has read a confirmed state while it resolves or works.
LEMMA BusyStep ==
    ASSUME TypeOK, Busy, [Next]_vars
    PROVE  Busy'
<1> USE EntityAssumption DEF StateOrNone
<1>1. CASE UNCHANGED executor
  BY <1>1 DEF executor, Busy
<1>2. CASE Done
  BY <1>2 DEF Done, Busy
<1>3. CASE ReadStates
  BY <1>3 DEF ReadStates, Busy, TypeOK, GetLastConfirmed, GetLastPredicted
<1>4. CASE StartWalk
  BY <1>4 DEF StartWalk, Busy
<1>5. CASE WalkStep
  <2>1. Predecessor(head) \in StateOrNone
    BY PredecessorType
  <2> QED BY <1>5, <2>1 DEF WalkStep, SafePoint, Busy
<1> QED BY <1>1, <1>2, <1>3, <1>4, <1>5
        DEF Next, vars, executor, AppliedTx, AppliedEnd, UnappliedTx, UnappliedEnd, Track,
            SubmitOk, SubmitMissing, GiveUp, RestartBare, RestartReplay

\* Every step preserves the types.
LEMMA TypeStep ==
    ASSUME TypeOK, Busy, [Next]_vars
    PROVE  TypeOK'
<1>0. NoState \in StateOrNone /\ States \subseteq StateOrNone
  BY DEF StateOrNone
<1>1. ASSUME NEW s \in States, AppliedTx(s) PROVE TypeOK'
  <2>1. queue' \in Seq(Update)
    BY <1>0, <1>1, SendFacts, GetStateType DEF AppliedTx
  <2> QED BY <1>0, <1>1, <2>1 DEF AppliedTx, TypeOK, repo, executor
<1>2. CASE AppliedEnd
  <2>1. queue' \in Seq(Update)
    BY <1>0, <1>2, SendFacts, GetStateType DEF AppliedEnd
  <2>2. missed' \in BOOLEAN /\ disturbed' \in BOOLEAN
    BY <1>2 DEF AppliedEnd, TypeOK
  <2> QED BY <1>0, <1>2, <2>1, <2>2 DEF AppliedEnd, TypeOK, repo, executor
<1>3. CASE UnappliedTx
  <2>1. queue' \in Seq(Update)
    BY <1>0, <1>3, SendFacts, GetStateType DEF UnappliedTx, Swapped, TypeOK
  <2>2. tip' \in StateOrNone
    BY <1>3, EntityAssumption DEF UnappliedTx, TypeOK, StateOrNone
  <2>3. missed' \in BOOLEAN /\ disturbed' \in BOOLEAN
    BY <1>3 DEF UnappliedTx, TypeOK
  <2> QED BY <1>3, <2>1, <2>2, <2>3 DEF UnappliedTx, TypeOK, repo, executor
<1>4. CASE UnappliedEnd
  <2>1. queue' \in Seq(Update)
    BY <1>0, <1>4, SendFacts, GetStateType DEF UnappliedEnd, Swapped
  <2>2. missed' \in BOOLEAN /\ disturbed' \in BOOLEAN
    BY <1>4 DEF UnappliedEnd, TypeOK
  <2> QED BY <1>4, <2>1, <2>2 DEF UnappliedEnd, TypeOK, repo, executor
<1>5. CASE Track
  <2>1. queue # <<>> /\ queue' = Tail(queue)
    BY <1>5 DEF Track
  <2>2. RepoTypeOK'
    <3>1. \/ Head(queue).right \in States /\ PutConfirmed(Head(queue).right)
          \/ Eliminate(Head(queue).left)
          \/ Invalidate(Head(queue).left)
      BY <1>5, <2>1, HeadFacts DEF Track, StateOrNone
    <3> QED BY <3>1, PutConfirmedType, EliminateType, InvalidateType
  <2> QED BY <1>5, <2>1, <2>2, HeadFacts DEF Track, TypeOK, RepoTypeOK, ledger, executor
<1>6. CASE ReadStates
  <2>1. conf' \in StateOrNone /\ pred' \in StateOrNone
    BY <1>0, <1>6 DEF ReadStates, TypeOK, GetLastConfirmed, GetLastPredicted
  <2> QED BY <1>0, <1>6, <2>1 DEF ReadStates, TypeOK, ledger, repo
<1>7. CASE StartWalk
  BY <1>7 DEF StartWalk, TypeOK, ledger, repo
<1>8. CASE WalkStep
  <2>1. head' \in StateOrNone /\ work' \in StateOrNone /\ pc' \in {"working", "walking"}
    BY <1>8, PredecessorType DEF WalkStep, SafePoint, TypeOK
  <2> QED BY <1>8, <2>1 DEF WalkStep, TypeOK, ledger, repo
<1>9. ASSUME NEW s \in States, SubmitOk(s) PROVE TypeOK'
  <2>1. work \in States
    BY <1>9 DEF SubmitOk, Busy
  <2>2. RepoTypeOK'
    BY <1>9, <2>1, PutPredictedType DEF SubmitOk
  <2> QED BY <1>0, <1>9, <2>2 DEF SubmitOk, Done, TypeOK, RepoTypeOK, ledger
<1>10. CASE SubmitMissing
  <2>1. RepoTypeOK'
    BY <1>10, InvalidateType DEF SubmitMissing
  <2> QED BY <1>0, <1>10, <2>1 DEF SubmitMissing, Done, TypeOK, RepoTypeOK, ledger
<1>11. CASE GiveUp
  BY <1>0, <1>11 DEF GiveUp, Done, TypeOK, ledger, repo
<1>12. CASE RestartBare
  <2>1. queue' \in Seq(Update) /\ disturbed' \in BOOLEAN
    BY <1>12 DEF RestartBare, TypeOK
  <2> QED BY <1>0, <1>12, <2>1 DEF RestartBare, Done, TypeOK, ledger, repo
<1>13. CASE RestartReplay
  <2> DEFINE u == [rollback |-> FALSE, left |-> GetState(Parent[tip]), right |-> tip]
  <2>1. u \in Update
    BY <1>13, GetStateType DEF RestartReplay, TypeOK, Update
  <2>2. queue' = <<u>>
    BY <1>13 DEF RestartReplay
  <2> HIDE DEF u
  <2>3. queue' \in Seq(Update)
    BY <2>1, <2>2
  <2> QED BY <1>0, <1>13, <2>3 DEF RestartReplay, Done, TypeOK, ledger, repo
<1>14. CASE UNCHANGED vars
  BY <1>14 DEF vars, TypeOK
<1> QED BY <1>1, <1>2, <1>3, <1>4, <1>5, <1>6, <1>7, <1>8, <1>9, <1>10, <1>11, <1>12,
           <1>13, <1>14 DEF Next

(***************************************************************************)
(* Type correctness of the repository, the channel and the executor; in    *)
(* particular the handler never sends an update without any state, which   *)
(* EitherOrBoth cannot represent.                                          *)
(***************************************************************************)
THEOREM TypeCorrect == Spec => []TypeOK
<1>1. Init => TypeOK /\ Busy
  BY TypeInit
<1>2. TypeOK /\ Busy /\ [Next]_vars => (TypeOK /\ Busy)'
  BY TypeStep, BusyStep
<1> QED BY <1>1, <1>2, PTL DEF Spec
-----------------------------------------------------------------------------
(***************************************************************************)
(* The links of the repository follow the forest, so that a walk along     *)
(* them goes from a state to its ancestors; whatever the executor holds is *)
(* stored.                                                                 *)
(***************************************************************************)
LinksToParent == \A s \in DOMAIN link : link[s] = Parent[s]

Held == {conf, pred, head, work} \subseteq states \cup {NoState}

WalkDescends == pc = "walking" => head = pred \/ <<head, pred>> \in Ancestor

SafeInv == LinksToParent /\ NoDangling /\ Held /\ WalkDescends /\ ResolvedSafe

\* put_predicted adds a link to the parent and dangles nothing.
LEMMA PutPredictedSafe ==
    ASSUME TypeOK, LinksToParent, NoDangling, NEW s \in States, NEW p \in states,
           p = Parent[s], PutPredicted(s, p)
    PROVE  LinksToParent' /\ NoDangling'
<1>1. /\ DOMAIN link' = DOMAIN link \cup {s}
      /\ \A x \in DOMAIN link' : link'[x] = IF x = s THEN p ELSE link[x]
  BY DEF PutPredicted
<1>2. LinksToParent'
  BY <1>1 DEF LinksToParent
<1>3. \A x \in DOMAIN link' : x \in states' /\ link'[x] \in states'
  BY <1>1 DEF NoDangling, PutPredicted
<1>4. {lastConfirmed, lastPredicted}' \subseteq states' \cup {NoState}
  BY DEF NoDangling, PutPredicted
<1> QED BY <1>2, <1>3, <1>4 DEF NoDangling

\* put_confirmed adds no link.
LEMMA PutConfirmedSafe ==
    ASSUME LinksToParent, NoDangling, NEW s, PutConfirmed(s)
    PROVE  LinksToParent' /\ NoDangling'
  BY DEF LinksToParent, NoDangling, PutConfirmed

\* invalidate removes a link and leaves the indices at stored states.
LEMMA InvalidateSafe ==
    ASSUME LinksToParent, NoDangling, NEW s, Invalidate(s)
    PROVE  LinksToParent' /\ NoDangling'
<1>1. /\ DOMAIN link' = DOMAIN link \ {s}
      /\ \A x \in DOMAIN link' : link'[x] = link[x]
  BY DEF Invalidate, WithoutLink
<1>2. lastConfirmed' \in states \cup {NoState}
  BY DEF Invalidate, Predecessor, NoDangling
<1> QED BY <1>1, <1>2 DEF LinksToParent, NoDangling, Invalidate

\* eliminate clears the indices and removes a link.
LEMMA EliminateSafe ==
    ASSUME LinksToParent, NoDangling, NEW s, Eliminate(s)
    PROVE  LinksToParent' /\ NoDangling'
<1>1. /\ DOMAIN link' = DOMAIN link \ {s}
      /\ \A x \in DOMAIN link' : link'[x] = link[x]
  BY DEF Eliminate, WithoutLink
<1> QED BY <1>1 DEF LinksToParent, NoDangling, Eliminate

\* Every step preserves the safety invariant.
LEMMA SafeStep ==
    ASSUME TypeOK, Busy, SafeInv, [Next]_vars
    PROVE  SafeInv'
<1> USE DEF SafeInv
<1>1. CASE UNCHANGED <<repo, executor>>
  BY <1>1 DEF repo, executor, LinksToParent, NoDangling, Held, WalkDescends, ResolvedSafe
<1>2. CASE Track
  <2>1. \/ PutConfirmed(Head(queue).right)
        \/ Eliminate(Head(queue).left)
        \/ Invalidate(Head(queue).left)
    BY <1>2 DEF Track
  <2>2. LinksToParent' /\ NoDangling'
    BY <2>1, PutConfirmedSafe, EliminateSafe, InvalidateSafe
  <2>3. states \subseteq states'
    BY <2>1 DEF PutConfirmed, Eliminate, Invalidate
  <2> QED BY <1>2, <2>2, <2>3 DEF Track, executor, Held, WalkDescends, ResolvedSafe
<1>3. CASE ReadStates
  <2>1. LinksToParent' /\ NoDangling'
    BY <1>3 DEF ReadStates, repo, LinksToParent, NoDangling
  <2>2. Held'
    BY <1>3 DEF ReadStates, repo, Held, GetLastConfirmed, GetLastPredicted
  <2> QED BY <1>3, <2>1, <2>2 DEF ReadStates, WalkDescends, ResolvedSafe
<1>4. CASE StartWalk
  BY <1>4 DEF StartWalk, repo, LinksToParent, NoDangling, Held, WalkDescends, ResolvedSafe
<1>5. CASE WalkStep
  <2> DEFINE prev == Predecessor(head)
  <2>1. LinksToParent' /\ NoDangling'
    BY <1>5 DEF WalkStep, repo, LinksToParent, NoDangling
  <2>2. prev \in states \cup {NoState}
    BY DEF Predecessor, NoDangling
  <2>3. head \in States /\ pred \in States /\ conf \in States
    BY <1>5 DEF WalkStep, Busy
  <2>4. prev # NoState => prev \in States /\ <<prev, head>> \in Ancestor
    BY <2>2, <2>3, EntityAssumption DEF Predecessor, LinksToParent, TypeOK
  <2>5. prev # NoState => <<prev, pred>> \in Ancestor
    BY <1>5, <2>3, <2>4, EntityAssumption DEF WalkStep, WalkDescends
  <2> HIDE DEF prev
  <2>6. \/ prev \in {NoState, conf} /\ pc' = "working" /\ work' = SafePoint(prev) /\ head' = head
        \/ prev \notin {NoState, conf} /\ head' = prev /\ pc' = pc /\ work' = work
    BY <1>5 DEF WalkStep, prev
  <2>7. conf' = conf /\ pred' = pred /\ states' = states /\ pc = "walking"
    BY <1>5 DEF WalkStep, repo
  <2>8. Held'
    BY <2>2, <2>6, <2>7 DEF Held, SafePoint
  <2>9. WalkDescends' /\ ResolvedSafe'
    BY <2>3, <2>5, <2>6, <2>7, EntityAssumption DEF WalkDescends, ResolvedSafe, SafePoint
  <2> QED BY <2>1, <2>8, <2>9
<1>6. ASSUME NEW s \in States, SubmitOk(s) PROVE SafeInv'
  <2>1. work \in states /\ Parent[s] = work
    BY <1>6, EntityAssumption DEF SubmitOk, Held, Busy
  <2>2. LinksToParent' /\ NoDangling'
    BY <1>6, <2>1, PutPredictedSafe DEF SubmitOk
  <2> QED BY <1>6, <2>2 DEF SubmitOk, Done, Held, WalkDescends, ResolvedSafe
<1>7. CASE SubmitMissing
  <2>1. LinksToParent' /\ NoDangling'
    BY <1>7, InvalidateSafe DEF SubmitMissing
  <2> QED BY <1>7, <2>1 DEF SubmitMissing, Done, Held, WalkDescends, ResolvedSafe
<1>8. CASE UNCHANGED repo /\ Done
  BY <1>8 DEF repo, Done, LinksToParent, NoDangling, Held, WalkDescends, ResolvedSafe
<1> QED BY <1>1, <1>2, <1>3, <1>4, <1>5, <1>6, <1>7, <1>8
        DEF Next, vars, repo, executor, AppliedTx, AppliedEnd, UnappliedTx, UnappliedEnd,
            GiveUp, RestartBare, RestartReplay

\* The safety invariant holds in every reachable state.
LEMMA SafeInductive == Spec => [](TypeOK /\ Busy /\ SafeInv)
<1>1. Init => TypeOK /\ Busy /\ SafeInv
  <2>1. Init => SafeInv
    BY DEF Init, SafeInv, LinksToParent, NoDangling, Held, WalkDescends, ResolvedSafe
  <2> QED BY <2>1, TypeInit
<1>2. TypeOK /\ Busy /\ SafeInv /\ [Next]_vars => (TypeOK /\ Busy /\ SafeInv)'
  BY TypeStep, BusyStep, SafeStep
<1> QED BY <1>1, <1>2, PTL DEF Spec

(***************************************************************************)
(* Indices and links always point to stored states: what the executor      *)
(* links a prediction to was read from the store, which never shrinks.     *)
(***************************************************************************)
THEOREM NoDanglingInvariant == Spec => []NoDangling
<1>1. TypeOK /\ Busy /\ SafeInv => NoDangling
  BY DEF SafeInv
<1> QED BY <1>1, SafeInductive, PTL

(***************************************************************************)
(* resolve_entity_state never hands out a state that does not build on the *)
(* confirmed state it read.                                                *)
(***************************************************************************)
THEOREM ResolvedSafeInvariant == Spec => []ResolvedSafe
<1>1. TypeOK /\ Busy /\ SafeInv => ResolvedSafe
  BY DEF SafeInv
<1> QED BY <1>1, SafeInductive, PTL
-----------------------------------------------------------------------------
(***************************************************************************)
(* The last update in the channel says where the ledger is: applying it    *)
(* leaves the confirmed index at the ledger's state.                       *)
(***************************************************************************)
Target == IF ended THEN NoState ELSE tip

Announces(u) ==
    \/ u.right # NoState /\ u.right = Target
    \/ u.right = NoState /\ ~u.rollback /\ Target = NoState
    \/ u.right = NoState /\ u.rollback /\ Target = NoState /\ Parent[u.left] = NoState

Tracked ==
    /\ ended => tip # NoState
    /\ ~missed /\ ~disturbed =>
          /\ queue = <<>> => lastConfirmed = Target
          /\ queue # <<>> => Announces(queue[Len(queue)])

\* A sent update is the last one of the channel.
LEMMA SendLast ==
    ASSUME TypeOK, NEW rb \in BOOLEAN, NEW l \in StateOrNone, NEW r \in StateOrNone,
           Send(rb, l, r), l # NoState \/ r # NoState
    PROVE  /\ queue' # <<>>
           /\ queue'[Len(queue')] = [rollback |-> rb, left |-> l, right |-> r]
<1> DEFINE u == [rollback |-> rb, left |-> l, right |-> r]
<1>1. queue \in Seq(Update) /\ u \in Update
  BY DEF TypeOK, Update
<1>2. queue' = Append(queue, u)
  BY DEF Send
<1> HIDE DEF u
<1>3. queue' # <<>> /\ queue'[Len(queue')] = u
  BY <1>1, <1>2
<1> QED BY <1>3 DEF u

\* Applying an update that announces the ledger's state.
LEMMA TrackEffect ==
    ASSUME TypeOK, LinksToParent, NEW u, Announces(u),
           \/ u.right # NoState /\ PutConfirmed(u.right)
           \/ u.right = NoState /\ ~u.rollback /\ Eliminate(u.left)
           \/ u.right = NoState /\ u.rollback /\ Invalidate(u.left)
    PROVE  lastConfirmed' = Target
<1>1. CASE u.right # NoState
  BY <1>1 DEF Announces, PutConfirmed
<1>2. CASE u.right = NoState /\ ~u.rollback
  BY <1>2 DEF Announces, Eliminate
<1>3. CASE u.right = NoState /\ u.rollback
  <2>1. Target = NoState /\ Parent[u.left] = NoState /\ lastConfirmed' = Predecessor(u.left)
    BY <1>3 DEF Announces, Invalidate
  <2>2. u.left \notin DOMAIN link
    BY <2>1, EntityAssumption DEF TypeOK, LinksToParent
  <2> QED BY <2>1, <2>2 DEF Predecessor
<1> QED BY <1>1, <1>2, <1>3

\* A channel of length 0 is empty.
LEMMA EmptyByLength ==
    ASSUME NEW S, NEW t \in Seq(S)
    PROVE  t = <<>> <=> Len(t) = 0
<1>1. t # <<>> => Len(t) \in Nat \ {0}
  BY EmptySeq
<1> QED BY <1>1

\* A channel with more than one update keeps its last one.
LEMMA TailLast ==
    ASSUME NEW S, NEW q \in Seq(S), q # <<>>
    PROVE  \/ Tail(q) = <<>> /\ Head(q) = q[Len(q)]
           \/ Tail(q) # <<>> /\ Tail(q)[Len(Tail(q))] = q[Len(q)]
<1>3. Len(q) \in Nat /\ Len(q) > 0
  OBVIOUS
<1>4. Tail(q) \in Seq(S) /\ Len(Tail(q)) = Len(q) - 1 /\ Head(q) = q[1]
  OBVIOUS
<1>1. CASE Len(q) = 1
  <2>1. Tail(q) = <<>>
    <3> DEFINE t == Tail(q)
    <3>1. t \in Seq(S) /\ Len(t) = 0
      BY <1>1, <1>4
    <3> HIDE DEF t
    <3>2. t = <<>>
      BY <3>1, EmptyByLength
    <3> QED BY <3>2 DEF t
  <2> QED BY <1>1, <1>4, <2>1
<1>2. CASE Len(q) > 1
  <2>1. Tail(q) # <<>>
    <3> DEFINE t == Tail(q)
    <3>1. t \in Seq(S) /\ Len(t) # 0
      BY <1>2, <1>3, <1>4
    <3> HIDE DEF t
    <3>2. t # <<>>
      BY <3>1, EmptyByLength
    <3> QED BY <3>2 DEF t
  <2>2. Tail(q)[Len(q) - 1] = q[Len(q)]
    BY <1>2, <1>3
  <2> QED BY <1>4, <2>1, <2>2
<1> QED BY <1>1, <1>2, <1>3

\* Every step keeps the channel or the index at the state of the ledger.
LEMMA TrackedStep ==
    ASSUME TypeOK, LinksToParent, Tracked, [Next]_vars
    PROVE  Tracked'
<1>0. /\ NoState \in StateOrNone /\ States \subseteq StateOrNone /\ tip \in StateOrNone
      /\ states \subseteq States /\ NoState \notin States
      /\ {missed, disturbed, ended} \subseteq BOOLEAN
  BY EntityAssumption DEF StateOrNone, TypeOK
<1>1. ASSUME NEW s \in States, AppliedTx(s) PROVE Tracked'
  <2>1. Target' = s /\ ~ended' /\ s # NoState
    BY <1>0, <1>1 DEF AppliedTx, Target
  <2>2. GetState(tip) \in StateOrNone /\ Send(FALSE, GetState(tip), s)
    BY <1>1, GetStateType DEF AppliedTx
  <2>3. /\ queue' # <<>>
        /\ queue'[Len(queue')] = [rollback |-> FALSE, left |-> GetState(tip), right |-> s]
    BY <1>0, <2>1, <2>2, SendLast
  <2>4. queue'[Len(queue')].right = s
    BY <2>3
  <2> QED BY <2>1, <2>3, <2>4 DEF Tracked, Announces
<1>2. CASE AppliedEnd
  <2>1. Target' = NoState /\ tip' # NoState
    BY <1>2 DEF AppliedEnd, Target
  <2>2. CASE tip \in states
    <3>1. GetState(tip) = tip /\ tip # NoState
      BY <1>2, <2>2 DEF AppliedEnd, GetState
    <3>2. Send(FALSE, tip, NoState)
      BY <1>2, <3>1 DEF AppliedEnd
    <3>3. /\ queue' # <<>>
          /\ queue'[Len(queue')] = [rollback |-> FALSE, left |-> tip, right |-> NoState]
      BY <1>0, <3>1, <3>2, SendLast
    <3>4. queue'[Len(queue')].right = NoState /\ ~queue'[Len(queue')].rollback
      BY <3>3
    <3> QED BY <2>1, <3>3, <3>4 DEF Tracked, Announces
  <2>3. CASE tip \notin states
    <3>1. missed'
      BY <1>2, <2>3 DEF AppliedEnd
    <3> QED BY <2>1, <3>1 DEF Tracked
  <2> QED BY <2>2, <2>3
<1>3. CASE UnappliedTx
  <2>1. ~ended' /\ tip \in States /\ tip' = Parent[tip] /\ Target' = tip'
    BY <1>0, <1>3 DEF UnappliedTx, Target, StateOrNone
  <2>2. /\ queue' # <<>>
        /\ queue'[Len(queue')] =
              [rollback |-> TRUE, left |-> tip, right |-> GetState(tip')]
    BY <1>0, <1>3, <2>1, SendLast, GetStateType DEF UnappliedTx, Swapped
  <2>3. CASE tip' = NoState
    <3>1. GetState(tip') = NoState
      BY <1>0, <2>3 DEF GetState
    <3>2. LET u == queue'[Len(queue')]
          IN  u.rollback /\ u.left = tip /\ u.right = NoState
      BY <2>2, <3>1
    <3>3. Parent[queue'[Len(queue')].left] = NoState
      BY <2>1, <2>3, <3>2
    <3> QED BY <2>1, <2>2, <2>3, <3>2, <3>3 DEF Tracked, Announces
  <2>4. CASE tip' # NoState /\ tip' \in states
    <3>1. GetState(tip') = tip'
      BY <2>4 DEF GetState
    <3> QED BY <2>1, <2>2, <2>4, <3>1 DEF Tracked, Announces
  <2>5. CASE tip' # NoState /\ tip' \notin states
    <3>1. missed'
      BY <1>3, <2>5 DEF UnappliedTx
    <3> QED BY <2>1, <3>1 DEF Tracked
  <2> QED BY <2>3, <2>4, <2>5
<1>4. CASE UnappliedEnd
  <2>1. ~ended' /\ tip' = tip /\ Target' = tip
    BY <1>4 DEF UnappliedEnd, Target
  <2>2. CASE tip \in states
    <3>1. GetState(tip) = tip /\ tip # NoState
      BY <1>0, <2>2 DEF GetState
    <3>2. Send(TRUE, NoState, tip)
      BY <1>4, <3>1 DEF UnappliedEnd, Swapped
    <3>3. /\ queue' # <<>>
          /\ queue'[Len(queue')] = [rollback |-> TRUE, left |-> NoState, right |-> tip]
      BY <1>0, <3>1, <3>2, SendLast
    <3>4. queue'[Len(queue')].right = tip
      BY <3>3
    <3> QED BY <2>1, <3>1, <3>3, <3>4 DEF Tracked, Announces
  <2>3. CASE tip \notin states
    <3>1. missed'
      BY <1>4, <2>3 DEF UnappliedEnd
    <3> QED BY <2>1, <3>1 DEF Tracked
  <2> QED BY <2>2, <2>3
<1>5. CASE Track
  <2>1. UNCHANGED <<tip, ended, missed, disturbed>> /\ queue # <<>> /\ queue' = Tail(queue)
    BY <1>5 DEF Track, ledger
  <2>2. \/ queue' = <<>> /\ Head(queue) = queue[Len(queue)]
        \/ queue' # <<>> /\ queue'[Len(queue')] = queue[Len(queue)]
    BY <2>1, TailLast DEF TypeOK
  <2>3. SUFFICES ASSUME ~missed, ~disturbed
                 PROVE  /\ queue' = <<>> => lastConfirmed' = Target
                        /\ queue' # <<>> => Announces(queue'[Len(queue')])
    BY <2>1 DEF Tracked, Announces, Target
  <2>4. Announces(queue[Len(queue)])
    BY <2>1, <2>3 DEF Tracked
  <2>5. Announces(Head(queue)) => lastConfirmed' = Target
    BY <1>5, TrackEffect DEF Track
  <2> QED BY <2>2, <2>4, <2>5
<1>6. CASE UNCHANGED <<tip, ended, queue, lastConfirmed, missed, disturbed>>
  BY <1>6 DEF Tracked, Announces, Target
<1>7. CASE SubmitMissing
  BY <1>7 DEF SubmitMissing, Tracked, ledger
<1>8. CASE RestartBare
  BY <1>8 DEF RestartBare, Tracked, Target, ledger, repo
<1>9. CASE RestartReplay
  <2> DEFINE u == [rollback |-> FALSE, left |-> GetState(Parent[tip]), right |-> tip]
  <2>1. queue' = <<u>> /\ tip' = tip /\ tip # NoState /\ ~ended'
    BY <1>9 DEF RestartReplay, ledger
  <2>2. queue' # <<>> /\ queue'[Len(queue')].right = tip
    BY <2>1
  <2> QED BY <2>1, <2>2 DEF Tracked, Announces, Target
<1>10. ASSUME NEW s \in States, SubmitOk(s)
       PROVE  UNCHANGED <<tip, ended, queue, lastConfirmed, missed, disturbed>>
  BY <1>10 DEF SubmitOk, PutPredicted, ledger
<1>11. ReadStates \/ StartWalk \/ WalkStep \/ GiveUp \/ UNCHANGED vars
          => UNCHANGED <<tip, ended, queue, lastConfirmed, missed, disturbed>>
  BY DEF ReadStates, StartWalk, WalkStep, GiveUp, vars, ledger, repo
<1> QED BY <1>1, <1>2, <1>3, <1>4, <1>5, <1>6, <1>7, <1>8, <1>9, <1>10, <1>11 DEF Next

(***************************************************************************)
(* The confirmed index follows the ledger, forwards and backwards, for a   *)
(* channel of any length: once it is drained, the index is the ledger's    *)
(* state, unless the handler missed a spent state or the index was         *)
(* disturbed by the executor or a restart.                                 *)
(***************************************************************************)
THEOREM ConfirmedTracksLedgerInvariant == Spec => []ConfirmedTracksLedger
<1>1. Init => Tracked
  BY DEF Init, Tracked, Target
<1>2. TypeOK /\ Busy /\ SafeInv /\ Tracked /\ [Next]_vars => Tracked'
  BY TrackedStep DEF SafeInv
<1>3. Tracked => ConfirmedTracksLedger
  BY DEF Tracked, Target, ConfirmedTracksLedger
<1> QED BY <1>1, <1>2, <1>3, SafeInductive, PTL DEF Spec
=============================================================================
