--------------------------- MODULE SchedulerProofs ---------------------------
(***************************************************************************)
(* The schedules follow the ledger, a pool has one tick and deferrals are  *)
(* kept: Scheduler for any pools, programs and bounds.                     *)
(***************************************************************************)
EXTENDS Scheduler, SequenceTheorems, TLAPS

TickKey == [pool : Pools, epoch : Epochs]

\* The completed epochs of consecutive boxes of a pool differ by at most one.
Steady ==
    \A p \in Pools : \A i \in 1..(Len(boxes[p]) - 1) :
        boxes[p][i + 1] = boxes[p][i] \/ boxes[p][i + 1] = boxes[p][i] + 1

\* While the stream works on a tick, that is a real one, and its pool has not
\* lost its tick for want of stakers.
StreamBusy ==
    pc # "idle" => tick \in TickKey /\ (InStep => tick.pool \notin emptied)

\* What holds of one pool: schedule and keys of a pool whose last box is the
\* last element of b.
Follows(b, p) ==
    IF b # <<>> /\ Last(b) < EpochNum
    THEN p \in DOMAIN schedule /\ schedule[p] = Last(b)
    ELSE p \notin DOMAIN schedule

Keys(p) == KeysOf(p) = IF p \in DOMAIN schedule \ emptied THEN {TickOf(p)} ELSE {}

Apart == ticks \cap DOMAIN deferred = {}

IInv ==
    /\ TypeOK
    /\ Steady
    /\ StreamBusy
    /\ ScheduleTracksLedger
    /\ OneTick

\* What is left of the boxes of a pool when the last one is unapplied.
LEMMA FrontFacts ==
    ASSUME NEW S, NEW s \in Seq(S), s # <<>>
    PROVE  /\ Front(s) \in Seq(S)
           /\ Len(s) \in Nat \ {0}
           /\ Len(Front(s)) = Len(s) - 1
           /\ \A i \in 1..(Len(s) - 1) : Front(s)[i] = s[i]
           /\ Last(s) = s[Len(s)]
           /\ Last(s) \in S
  <1>1. Len(s) \in Nat \ {0} /\ \A i \in 1..Len(s) : s[i] \in S
    BY EmptySeq, LenProperties
  <1>2. \A i \in 1..(Len(s) - 1) : s[i] \in S
    BY <1>1
  <1> DEFINE n == Len(s) - 1
  <1>3. n \in Nat
    BY <1>1
  <1>4. /\ SubSeq(s, 1, n) \in Seq(S)
        /\ Len(SubSeq(s, 1, n)) = IF 1 <= n THEN n - 1 + 1 ELSE 0
        /\ \A i \in 1..(n - 1 + 1) : SubSeq(s, 1, n)[i] = s[1 + i - 1]
    BY <1>2, <1>3, SubSeqProperties
  <1>5. Front(s) = SubSeq(s, 1, n) /\ Last(s) = s[Len(s)]
    BY DEF Front, Last
  <1> HIDE DEF n
  <1>6. /\ Len(SubSeq(s, 1, n)) = n
        /\ \A i \in 1..n : SubSeq(s, 1, n)[i] = s[i]
    BY <1>3, <1>4
  <1> QED
    BY <1>1, <1>4, <1>5, <1>6 DEF n

\* The boxes of a pool after another one.
LEMMA AppendFacts ==
    ASSUME NEW S, NEW s \in Seq(S), NEW e \in S
    PROVE  /\ Append(s, e) \in Seq(S)
           /\ Len(Append(s, e)) = Len(s) + 1
           /\ \A i \in 1..Len(s) : Append(s, e)[i] = s[i]
           /\ Append(s, e)[Len(s) + 1] = e
           /\ Last(Append(s, e)) = e
           /\ Append(s, e) # <<>>
  BY AppendProperties, LenProperties, EmptySeq DEF Last
-----------------------------------------------------------------------------
(***************************************************************************)
(* Types.                                                                  *)
(***************************************************************************)
\* Ticks read from schedules are keys, and boxes hold epochs of the program.
LEMMA HelperTypes ==
    ASSUME SchedulerAssumption, TypeOK
    PROVE  /\ \A p \in DOMAIN schedule : TickOf(p) \in TickKey
           /\ \A ks : /\ DOMAIN WithoutKeys(ks) = DOMAIN deferred \ ks
                       /\ \A k \in DOMAIN deferred \ ks : WithoutKeys(ks)[k] = deferred[k]
           /\ \A p \in Pools : NextBox(p) \subseteq 0..EpochNum
  <1>1. \A p \in DOMAIN schedule : TickOf(p) \in TickKey
    BY DEF TickOf, Tick, TickKey, Epochs, TypeOK, SchedulerAssumption
  <1>2. \A ks : /\ DOMAIN WithoutKeys(ks) = DOMAIN deferred \ ks
                 /\ \A k \in DOMAIN deferred \ ks : WithoutKeys(ks)[k] = deferred[k]
    BY DEF WithoutKeys
  <1>3. \A p \in Pools : NextBox(p) \subseteq 0..EpochNum
    BY DEF NextBox, SchedulerAssumption
  <1> QED BY <1>1, <1>2, <1>3

\* The types of the repository, to be preserved by its operations.
RepoTypeOK ==
    /\ DOMAIN schedule \subseteq Pools
    /\ schedule \in [DOMAIN schedule -> 0..(EpochNum - 1)]
    /\ ticks \subseteq TickKey
    /\ DOMAIN deferred \subseteq TickKey
    /\ deferred \in [DOMAIN deferred -> 0..Suspension]
    /\ emptied \subseteq Pools

\* Deleting keys leaves a map of deferrals.
LEMMA WithoutKeysType ==
    ASSUME TypeOK, NEW ks
    PROVE  /\ DOMAIN WithoutKeys(ks) \subseteq TickKey
           /\ WithoutKeys(ks) \in [DOMAIN WithoutKeys(ks) -> 0..Suspension]
  BY DEF WithoutKeys, TypeOK, TickKey

\* update_schedule writes well-formed keys and schedules.
LEMMA UpdateScheduleType ==
    ASSUME SchedulerAssumption, TypeOK, NEW p \in Pools, NEW e \in 0..EpochNum,
           UpdateSchedule(p, e)
    PROVE  RepoTypeOK'
  <1> DEFINE next == Tick(p, e + 1)
             known == next \in ticks \/ next \in DOMAIN deferred
             upd == [q \in DOMAIN schedule \cup {p} |-> IF q = p THEN e ELSE schedule[q]]
  <1>1. next \in TickKey /\ e \in 0..(EpochNum - 1)
    BY DEF UpdateSchedule, HasNext, Tick, TickKey, Epochs, SchedulerAssumption
  <1>2. upd \in [DOMAIN upd -> 0..(EpochNum - 1)] /\ DOMAIN upd \subseteq Pools
    BY <1>1 DEF TypeOK
  <1>3. CASE known
    BY <1>3 DEF UpdateSchedule, TypeOK, RepoTypeOK, TickKey
  <1>4. CASE ~known
    <2>1. /\ schedule' = upd
          /\ ticks' = (ticks \cup {next}) \ Neighbours(p, e)
          /\ deferred' = WithoutKeys(Neighbours(p, e))
          /\ emptied' = emptied \ {p}
      BY <1>4 DEF UpdateSchedule
    <2> QED
      BY <1>1, <1>2, <2>1, WithoutKeysType DEF RepoTypeOK, TypeOK, TickKey
  <1> QED BY <1>3, <1>4

\* So does clean, which only deletes.
LEMMA CleanType ==
    ASSUME TypeOK, NEW p \in Pools, Clean(p)
    PROVE  RepoTypeOK'
  BY WithoutKeysType DEF Clean, RepoTypeOK, TypeOK, TickKey

\* A ledger event is an update of the repository with the epoch of some box.
LEMMA EventType ==
    ASSUME SchedulerAssumption, TypeOK, NEW p \in Pools, NEW e \in 0..EpochNum,
           UpdateSchedule(p, e) \/ (~HasNext(e) /\ Clean(p))
    PROVE  RepoTypeOK'
  BY UpdateScheduleType, CleanType

\* Every step preserves the types.
LEMMA TypeStep == SchedulerAssumption /\ TypeOK /\ StreamBusy /\ [Next]_vars => TypeOK'
  <1> SUFFICES ASSUME SchedulerAssumption, TypeOK, StreamBusy, [Next]_vars
               PROVE  TypeOK'
    OBVIOUS
  <1>0. MaxHeight \in Nat /\ 0 \in 0..Suspension /\ Suspension \in 0..Suspension
    BY DEF SchedulerAssumption
  <1>1. ASSUME NEW p \in Pools, AppliedTx(p)
        PROVE  TypeOK'
    <2>1. PICK e \in NextBox(p) :
             /\ boxes' = [boxes EXCEPT ![p] = Append(@, e)]
             /\ UpdateSchedule(p, e) \/ (~HasNext(e) /\ Clean(p))
      BY <1>1 DEF AppliedTx
    <2>2. e \in 0..EpochNum
      BY HelperTypes
    <2>3. RepoTypeOK'
      BY <2>1, <2>2, EventType
    <2>4. boxes' \in [Pools -> Seq(0..EpochNum)]
      BY <2>1, <2>2, AppendFacts DEF TypeOK
    <2> QED
      BY <1>1, <2>3, <2>4 DEF AppliedTx, stream, TypeOK, RepoTypeOK, TickKey
  <1>2. ASSUME NEW p \in Pools, UnappliedTx(p)
        PROVE  TypeOK'
    <2> DEFINE e == Last(Front(boxes[p]))
    <2>1. boxes[p] \in Seq(0..EpochNum) /\ boxes[p] # <<>>
      BY <1>2, EmptySeq DEF UnappliedTx, TypeOK
    <2>2. Front(boxes[p]) \in Seq(0..EpochNum) /\ Front(boxes[p]) # <<>>
      <3>1. Front(boxes[p]) \in Seq(0..EpochNum) /\ Len(Front(boxes[p])) = Len(boxes[p]) - 1
        BY <2>1, FrontFacts
      <3>2. Len(boxes[p]) \in Nat /\ Len(boxes[p]) > 1
        BY <1>2, <2>1, LenProperties DEF UnappliedTx
      <3>3. \A n \in Nat : n > 1 => n - 1 # 0
        OBVIOUS
      <3>4. Len(Front(boxes[p])) # 0
        BY ONLY <3>1, <3>2, <3>3
      <3> QED BY <3>1, <3>4, EmptySeq
    <2>3. e \in 0..EpochNum
      BY <2>2, FrontFacts
    <2>4. boxes' = [boxes EXCEPT ![p] = Front(boxes[p])] /\ boxes'[p] = Front(boxes[p])
      BY <1>2 DEF UnappliedTx, TypeOK
    <2>5. UpdateSchedule(p, e) \/ (~HasNext(e) /\ Clean(p))
      BY <1>2, <2>4 DEF UnappliedTx
    <2> HIDE DEF e
    <2>6. RepoTypeOK'
      BY <2>3, <2>5, EventType
    <2>7. boxes' \in [Pools -> Seq(0..EpochNum)]
      BY <2>2, <2>4 DEF TypeOK
    <2> QED
      BY <1>2, <2>6, <2>7 DEF UnappliedTx, stream, TypeOK, RepoTypeOK, TickKey
  <1>3. ASSUME NEW p \in Pools, UnappliedUnknown(p)
        PROVE  TypeOK'
    <2>1. boxes[p] \in Seq(0..EpochNum) /\ boxes[p] # <<>>
      BY <1>3, EmptySeq DEF UnappliedUnknown, TypeOK
    <2>2. boxes' \in [Pools -> Seq(0..EpochNum)]
      BY <1>3, <2>1, FrontFacts DEF UnappliedUnknown, TypeOK
    <2> QED
      BY <1>3, <2>2 DEF UnappliedUnknown, repo, stream, TypeOK
  <1>4. CASE Peek
    <2>1. tick' \in TickKey
      BY <1>4, HelperTypes DEF Peek, PeekChoice, PendingChoice, DeferredChoice
    <2> QED
      BY <1>4, <2>1 DEF Peek, ledger, repo, TypeOK, TickKey
  <1>5. CASE HeightReached
    BY <1>5 DEF HeightReached, ledger, repo, TypeOK
  <1>6. CASE TooEarly \/ HeightUnknown
    BY <1>0, <1>6 DEF TooEarly, HeightUnknown, Rest, ledger, repo, TypeOK
  <1>7. CASE StakersLeft
    BY <1>0, <1>7 DEF StakersLeft, ledger, repo, TypeOK
  <1>8. CASE NoStakers
    BY <1>8 DEF NoStakers, ledger, repo, TypeOK
  <1>9. CASE Defer
    <2>1. tick \in TickKey
      BY <1>9 DEF Defer, StreamBusy
    <2>2. /\ DOMAIN deferred' \subseteq TickKey
          /\ deferred' \in [DOMAIN deferred' -> 0..Suspension]
      BY <1>9, <2>1 DEF Defer, TypeOK, TickKey
    <2> QED
      BY <1>0, <1>9, <2>2 DEF Defer, Rest, ledger, TypeOK, TickKey
  <1>10. CASE DropTick
    <2>1. tick \in TickKey
      BY <1>10 DEF DropTick, StreamBusy
    <2>2. emptied' \subseteq Pools
      BY <1>10, <2>1 DEF DropTick, TypeOK, TickKey
    <2> QED
      BY <1>0, <1>10, <2>2, WithoutKeysType
         DEF DropTick, Rest, ledger, TypeOK, TickKey
  <1>11. CASE NewBlock
    <2>1. height' \in 0..MaxHeight
      BY <1>0, <1>11 DEF NewBlock, TypeOK
    <2> QED
      BY <1>11, <2>1 DEF NewBlock, repo, stream, TypeOK
  <1>12. CASE TipReached
    BY <1>12 DEF TipReached, ledger, repo, stream, TypeOK
  <1>13. CASE TimePasses
    <2>1. \A n \in 0..Suspension : Less(n) \in 0..Suspension
      BY DEF Less, SchedulerAssumption
    <2> QED
      BY <1>13, <2>1 DEF TimePasses, ledger, TypeOK
  <1>14. CASE Restart
    BY <1>0, <1>14 DEF Restart, Rest, ledger, repo, TypeOK
  <1>15. CASE UNCHANGED vars
    BY <1>15 DEF vars, TypeOK
  <1> QED
    BY <1>1, <1>2, <1>3, <1>4, <1>5, <1>6, <1>7, <1>8, <1>9, <1>10, <1>11, <1>12,
       <1>13, <1>14, <1>15 DEF Next
-----------------------------------------------------------------------------
(***************************************************************************)
(* What a ledger event does to the pool it is about, and to the others.    *)
(***************************************************************************)
Others(p) ==
    \A q \in Pools \ {p} :
        /\ q \in DOMAIN schedule' <=> q \in DOMAIN schedule
        /\ q \in DOMAIN schedule => schedule'[q] = schedule[q]
        /\ KeysOf(q)' = KeysOf(q)
        /\ q \in emptied' <=> q \in emptied

\* A key determines its pool and epoch.
LEMMA TickInjective ==
    ASSUME NEW p, NEW q, NEW d, NEW e
    PROVE  /\ Tick(p, d) = Tick(q, e) <=> p = q /\ d = e
           /\ Tick(p, d).pool = p
           /\ Tick(p, d).epoch = d
  <1>1. Tick(p, d).pool = p /\ Tick(q, e).pool = q /\ Tick(p, d).epoch = d /\ Tick(q, e).epoch = e
    BY DEF Tick
  <1>2. p = q /\ d = e => Tick(p, d) = Tick(q, e)
    OBVIOUS
  <1> QED BY <1>1, <1>2

\* clean removes the schedule and all keys of one pool.
LEMMA CleanKeeps ==
    ASSUME TypeOK, NEW p \in Pools, Apart, Clean(p)
    PROVE  /\ p \notin DOMAIN schedule'
           /\ Keys(p)'
           /\ Apart'
           /\ Others(p)
  <1>1. /\ DOMAIN schedule' = DOMAIN schedule \ {p}
        /\ \A q \in DOMAIN schedule' : schedule'[q] = schedule[q]
    BY DEF Clean
  <1>2. /\ ticks' = {k \in ticks : k.pool # p}
        /\ DOMAIN deferred' = {k \in DOMAIN deferred : k.pool # p}
        /\ emptied' = emptied \ {p}
    BY DEF Clean, WithoutKeys
  <1>3. KeysOf(p)' = {}
    BY <1>2 DEF KeysOf
  <1>4. \A q \in Pools \ {p} : KeysOf(q)' = KeysOf(q)
    BY <1>2 DEF KeysOf
  <1>5. Apart'
    BY <1>2 DEF Apart
  <1> QED
    BY <1>1, <1>2, <1>3, <1>4, <1>5 DEF Keys, Others

\* update_schedule leaves the pool with the key of the epoch after e, provided
\* that e is at most one epoch away from the schedule it replaces.
LEMMA UpdateKeeps ==
    ASSUME SchedulerAssumption, TypeOK, NEW p \in Pools, NEW e \in 0..EpochNum,
           Apart, Keys(p), UpdateSchedule(p, e),
           p \in DOMAIN schedule =>
              e = schedule[p] \/ e = schedule[p] + 1 \/ e + 1 = schedule[p]
    PROVE  /\ p \in DOMAIN schedule' /\ schedule'[p] = e
           /\ Keys(p)'
           /\ Apart'
           /\ Others(p)
  <1> DEFINE next == Tick(p, e + 1)
             known == next \in ticks \/ next \in DOMAIN deferred
  <1>1. CASE known
    <2>1. UNCHANGED <<schedule, ticks, deferred, emptied>>
      BY <1>1 DEF UpdateSchedule
    <2>2. next \in KeysOf(p)
      BY <1>1, TickInjective DEF KeysOf
    <2>3. p \in DOMAIN schedule /\ next = TickOf(p)
      BY <2>2 DEF Keys
    <2>4. schedule[p] + 1 = e + 1
      BY <2>3, TickInjective DEF TickOf
    <2>5. schedule[p] = e
      BY <2>3, <2>4 DEF TypeOK
    <2> QED
      BY <2>1, <2>3, <2>5 DEF Keys, KeysOf, TickOf, Apart, Others
  <1>2. CASE ~known
    <2>1. /\ DOMAIN schedule' = DOMAIN schedule \cup {p}
          /\ schedule'[p] = e
          /\ \A q \in DOMAIN schedule \ {p} : schedule'[q] = schedule[q]
      BY <1>2 DEF UpdateSchedule
    <2>2. /\ ticks' = (ticks \cup {next}) \ Neighbours(p, e)
          /\ DOMAIN deferred' = DOMAIN deferred \ Neighbours(p, e)
          /\ emptied' = emptied \ {p}
      BY <1>2 DEF UpdateSchedule, WithoutKeys
    <2>3. /\ next \notin Neighbours(p, e)
          /\ \A k \in Neighbours(p, e) : k.pool = p
          /\ next.pool = p
      <3>1. e + 1 # e /\ e + 1 # e + 2
        OBVIOUS
      <3> QED BY <3>1, TickInjective DEF Neighbours
    <2>4. KeysOf(p) \subseteq Neighbours(p, e)
      <3>1. CASE KeysOf(p) = {}
        BY <3>1
      <3>2. CASE KeysOf(p) # {}
        <4>1. p \in DOMAIN schedule /\ KeysOf(p) = {TickOf(p)}
          BY <3>2 DEF Keys
        <4>2. TickOf(p) # next
          BY <1>2, <4>1 DEF KeysOf
        <4>3. schedule[p] \in Nat /\ schedule[p] # e
          <5>1. schedule[p] \in Nat
            BY <4>1 DEF TypeOK, SchedulerAssumption
          <5> QED BY <4>2, <5>1 DEF TickOf
        <4>4. schedule[p] + 1 = e \/ schedule[p] + 1 = e + 2
          BY <4>1, <4>3
        <4> QED
          BY <4>1, <4>4 DEF TickOf, Neighbours
      <3> QED BY <3>1, <3>2
    <2>5. KeysOf(p)' = {next}
      BY <2>2, <2>3, <2>4 DEF KeysOf
    <2>6. TickOf(p)' = next
      BY <2>1 DEF TickOf
    <2>7. \A q \in Pools \ {p} : KeysOf(q)' = KeysOf(q)
      BY <2>2, <2>3 DEF KeysOf
    <2>8. Apart'
      BY <1>2, <2>2 DEF Apart
    <2> QED
      BY <2>1, <2>2, <2>5, <2>6, <2>7, <2>8 DEF Keys, Others
  <1> QED BY <1>1, <1>2

\* Hence a ledger event keeps schedules in step and the keys unique.
LEMMA EventKeeps ==
    ASSUME SchedulerAssumption, IInv, NEW p \in Pools, NEW e \in 0..EpochNum,
           NEW b, b # <<>>, Last(b) = e, boxes' = [boxes EXCEPT ![p] = b],
           UNCHANGED taint,
           UpdateSchedule(p, e) \/ (~HasNext(e) /\ Clean(p)),
           boxes[p] # <<>> =>
              e = Last(boxes[p]) \/ e = Last(boxes[p]) + 1 \/ e + 1 = Last(boxes[p])
    PROVE  ScheduleTracksLedger' /\ OneTick' /\ emptied' \subseteq emptied
  <1>1. emptied' \subseteq emptied
    BY DEF UpdateSchedule, Clean
  <1>2. ASSUME InStep
        PROVE  ScheduleTracksLedger' /\ OneTick'
    <2>1. Apart /\ \A q \in Pools : Keys(q)
      BY <1>2 DEF IInv, OneTick, Keys, Apart
    <2>2. \A q \in Pools : Follows(boxes[q], q)
      BY <1>2 DEF IInv, ScheduleTracksLedger, Follows
    <2>3. p \in DOMAIN schedule =>
             e = schedule[p] \/ e = schedule[p] + 1 \/ e + 1 = schedule[p]
      BY <2>2 DEF Follows
    <2>4. /\ Keys(p)'
          /\ Apart'
          /\ Others(p)
          /\ IF e < EpochNum THEN p \in DOMAIN schedule' /\ schedule'[p] = e
                             ELSE p \notin DOMAIN schedule'
      <3>1. CASE UpdateSchedule(p, e)
        <4>1. TypeOK /\ Keys(p) /\ Apart
          BY <2>1 DEF IInv
        <4>2. e < EpochNum
          BY <3>1 DEF UpdateSchedule, HasNext
        <4>3. /\ p \in DOMAIN schedule' /\ schedule'[p] = e
              /\ Keys(p)' /\ Apart' /\ Others(p)
          BY <2>3, <3>1, <4>1, UpdateKeeps
        <4> QED BY <4>2, <4>3
      <3>2. CASE ~HasNext(e) /\ Clean(p)
        BY <2>1, <3>2, CleanKeeps DEF IInv, HasNext
      <3> QED BY <3>1, <3>2
    <2>5. boxes'[p] = b /\ \A q \in Pools \ {p} : boxes'[q] = boxes[q]
      BY DEF IInv, TypeOK
    <2>6. Follows(b, p)'
      BY <2>4 DEF Follows
    <2>7. \A q \in Pools \ {p} : Follows(boxes[q], q)' /\ Keys(q)'
      BY <2>1, <2>2, <2>4, <2>5 DEF Others, Follows, Keys, TickOf
    <2>8. \A q \in Pools : Follows(boxes[q], q)' /\ Keys(q)'
      BY <2>4, <2>5, <2>6, <2>7 DEF Follows
    <2> QED
      BY <2>4, <2>8 DEF ScheduleTracksLedger, OneTick, Follows, Keys, Apart
  <1> QED
    BY <1>1, <1>2 DEF ScheduleTracksLedger, OneTick, InStep

\* A transaction completes at most one epoch more than the box it spends.
LEMMA SteadyAppend ==
    ASSUME SchedulerAssumption, TypeOK, Steady, NEW p \in Pools, NEW e \in NextBox(p),
           boxes' = [boxes EXCEPT ![p] = Append(@, e)]
    PROVE  /\ Steady'
           /\ boxes[p] # <<>> => e = Last(boxes[p]) \/ e = Last(boxes[p]) + 1
  <1> DEFINE s == boxes[p]
  <1>1. s \in Seq(0..EpochNum) /\ Len(s) \in Nat /\ e \in 0..EpochNum
    BY HelperTypes, LenProperties DEF TypeOK
  <1>2. s # <<>> => e = Last(s) \/ e = Last(s) + 1
    BY DEF NextBox
  <1>3. /\ boxes'[p] = Append(s, e) /\ Len(Append(s, e)) = Len(s) + 1
        /\ \A i \in 1..Len(s) : Append(s, e)[i] = s[i]
        /\ Append(s, e)[Len(s) + 1] = e
    BY <1>1, AppendFacts DEF TypeOK
  <1>4. \A q \in Pools \ {p} : boxes'[q] = boxes[q]
    BY DEF TypeOK
  <1>5. ASSUME NEW i \in 1..(Len(boxes'[p]) - 1)
        PROVE  boxes'[p][i + 1] = boxes'[p][i] \/ boxes'[p][i + 1] = boxes'[p][i] + 1
    <2>1. i \in 1..Len(s)
      BY <1>1, <1>3
    <2>2. CASE i = Len(s)
      <3>1. s # <<>> /\ Last(s) = s[i]
        BY <1>1, <2>1, <2>2, EmptySeq DEF Last
      <3> QED BY <1>2, <1>3, <2>1, <2>2, <3>1
    <2>3. CASE i # Len(s)
      <3>1. i \in 1..(Len(s) - 1) /\ i + 1 \in 1..Len(s)
        BY <1>1, <2>1, <2>3
      <3> QED BY <1>3, <2>1, <3>1 DEF Steady
    <2> QED BY <2>2, <2>3
  <1> QED
    BY <1>2, <1>4, <1>5 DEF Steady

\* So unapplying one goes back by at most one epoch.
LEMMA SteadyFront ==
    ASSUME SchedulerAssumption, TypeOK, Steady, NEW p \in Pools, boxes[p] # <<>>,
           boxes' = [boxes EXCEPT ![p] = Front(@)]
    PROVE  /\ Steady'
           /\ Len(boxes[p]) > 1 =>
                 LET e == Last(Front(boxes[p]))
                 IN  Last(boxes[p]) = e \/ Last(boxes[p]) = e + 1
  <1> DEFINE s == boxes[p]
             f == Front(s)
  <1>1. s \in Seq(0..EpochNum)
    BY DEF TypeOK
  <1>2. /\ f \in Seq(0..EpochNum)
        /\ Len(s) \in Nat \ {0}
        /\ Len(f) = Len(s) - 1
        /\ \A i \in 1..(Len(s) - 1) : f[i] = s[i]
        /\ Last(s) = s[Len(s)]
    BY <1>1, FrontFacts
  <1>3. boxes'[p] = f /\ \A q \in Pools \ {p} : boxes'[q] = boxes[q]
    BY DEF TypeOK
  <1>4. \A i \in 1..(Len(s) - 1) : s[i + 1] = s[i] \/ s[i + 1] = s[i] + 1
    BY DEF Steady
  <1> HIDE DEF s, f
  <1>5. \A i \in 1..(Len(f) - 1) : f[i + 1] = f[i] \/ f[i + 1] = f[i] + 1
    <2> TAKE i \in 1..(Len(f) - 1)
    <2>1. i \in 1..(Len(s) - 1) /\ i + 1 \in 1..(Len(s) - 1)
      BY <1>2
    <2> QED BY <1>2, <1>4, <2>1
  <1>6. ASSUME Len(s) > 1
        PROVE  Last(s) = Last(f) \/ Last(s) = Last(f) + 1
    <2>1. Len(s) - 1 \in 1..(Len(s) - 1) /\ (Len(s) - 1) + 1 = Len(s)
      BY <1>2, <1>6
    <2>2. Last(f) = s[Len(s) - 1]
      BY <1>2, <2>1 DEF Last
    <2> QED BY <1>2, <1>4, <2>1, <2>2
  <1> QED
    BY <1>3, <1>5, <1>6 DEF Steady, s, f
-----------------------------------------------------------------------------
(***************************************************************************)
(* The steps of the stream.                                                *)
(***************************************************************************)
\* A tick that peek returns is the one of a pool that has a key.
LEMMA PeekFacts ==
    ASSUME IInv, Peek
    PROVE  /\ tick' \in TickKey
           /\ tick'.pool \in DOMAIN schedule
           /\ tick' = TickOf(tick'.pool)
           /\ KeysOf(tick'.pool) # {}
           /\ \/ \E k \in ticks : k.pool = tick'.pool
              \/ \E k \in DOMAIN deferred : k.pool = tick'.pool /\ deferred[k] = 0
  <1>1. TypeOK
    BY DEF IInv
  <1>2. PICK k \in ticks \cup DOMAIN deferred :
           /\ k.pool \in DOMAIN schedule
           /\ tick' = TickOf(k.pool)
           /\ k \in ticks \/ (k \in DOMAIN deferred /\ deferred[k] = 0)
    BY DEF Peek, PeekChoice, PendingChoice, DeferredChoice
  <1>3. tick'.pool = k.pool
    BY <1>2, TickInjective DEF TickOf
  <1>4. tick' \in TickKey
    BY <1>1, <1>2, SchedulerAssumption, HelperTypes
  <1> QED
    BY <1>2, <1>3, <1>4 DEF KeysOf

\* Deferring a tick that is still the one of its pool moves its key.
LEMMA DeferKeeps ==
    ASSUME IInv, Defer
    PROVE  ScheduleTracksLedger' /\ OneTick'
  <1>1. UNCHANGED <<boxes, schedule, emptied>> /\ (InStep' => InStep)
    BY DEF Defer, ledger, InStep
  <1>2. ScheduleTracksLedger'
    BY <1>1 DEF IInv, ScheduleTracksLedger
  <1>3. ASSUME InStep'
        PROVE  OneTick'
    <2>1. InStep /\ ~Outdated
      BY <1>3 DEF Defer, InStep
    <2>2. tick \in TickKey /\ tick.pool \notin emptied
      BY <2>1 DEF IInv, StreamBusy, Defer
    <2>3. tick.pool \in DOMAIN schedule /\ TickOf(tick.pool) = tick
      BY <2>1 DEF Outdated
    <2>4. /\ \A q \in Pools : Keys(q)
          /\ Apart
      BY <2>1 DEF IInv, OneTick, Keys, Apart
    <2>5. KeysOf(tick.pool) = {tick}
      BY <2>2, <2>3, <2>4 DEF Keys, TickKey
    <2>6. ticks' = ticks \ {tick} /\ DOMAIN deferred' = DOMAIN deferred \cup {tick}
      BY DEF Defer
    <2>7. \A q \in Pools : KeysOf(q)' = KeysOf(q)
      BY <2>5, <2>6 DEF KeysOf
    <2>8. ticks' \cap DOMAIN deferred' = {}
      BY <2>4, <2>6 DEF Apart
    <2>9. \A q \in Pools : TickOf(q)' = TickOf(q)
      BY <1>1 DEF TickOf
    <2> QED
      BY <1>1, <2>4, <2>7, <2>8, <2>9 DEF OneTick, Keys
  <1> QED BY <1>2, <1>3 DEF OneTick

\* Dropping a tick leaves its pool without keys.
LEMMA DropKeeps ==
    ASSUME IInv, DropTick
    PROVE  ScheduleTracksLedger' /\ OneTick'
  <1>1. UNCHANGED <<boxes, schedule, taint>>
    BY DEF DropTick, ledger
  <1>2. ScheduleTracksLedger'
    BY <1>1 DEF IInv, ScheduleTracksLedger, InStep
  <1>3. ASSUME InStep
        PROVE  OneTick'
    <2>1. tick \in TickKey
      BY DEF IInv, StreamBusy, DropTick
    <2>2. /\ \A q \in Pools : Keys(q)
          /\ Apart
      BY <1>3 DEF IInv, OneTick, Keys, Apart
    <2>3. ticks' = ticks \ {tick} /\ DOMAIN deferred' = DOMAIN deferred \ {tick}
      BY DEF DropTick, WithoutKeys
    <2>4. ticks' \cap DOMAIN deferred' = {}
      BY <2>2, <2>3 DEF Apart
    <2>5. \A q \in Pools : KeysOf(q)' = KeysOf(q) \ {tick} /\ TickOf(q)' = TickOf(q)
      BY <1>1, <2>3 DEF KeysOf, TickOf
    <2>6. CASE Outdated
      <3>1. UNCHANGED emptied
        BY <2>6 DEF DropTick
      <3>2. \A q \in Pools : tick \notin KeysOf(q)
        BY <2>2, <2>6 DEF Keys, KeysOf, Outdated
      <3>3. \A q \in Pools : KeysOf(q)' = KeysOf(q)
        BY <2>5, <3>2
      <3> QED
        BY <1>1, <2>2, <2>4, <2>5, <3>1, <3>3 DEF OneTick, Keys
    <2>7. CASE ~Outdated
      <3>0. PICK p \in Pools : p = tick.pool
        BY <2>1 DEF TickKey
      <3>1. emptied' = emptied \cup {p}
        BY <2>7, <3>0 DEF DropTick
      <3>2. p \in DOMAIN schedule /\ TickOf(p) = tick
        BY <2>7, <3>0 DEF Outdated
      <3>3. KeysOf(p)' = {}
        BY <2>2, <2>5, <3>2 DEF Keys
      <3>4. \A q \in Pools \ {p} : KeysOf(q)' = KeysOf(q)
        BY <2>5, <3>0 DEF KeysOf
      <3>5. \A q \in Pools : Keys(q)'
        BY <1>1, <2>2, <2>5, <3>1, <3>2, <3>3, <3>4 DEF Keys
      <3> QED
        BY <2>4, <3>5 DEF OneTick, Keys
    <2> QED BY <2>6, <2>7
  <1> QED BY <1>1, <1>2, <1>3 DEF OneTick, InStep
-----------------------------------------------------------------------------
(***************************************************************************)
(* The inductive invariant.                                                *)
(***************************************************************************)
\* The invariant holds of an empty repository.
LEMMA InvInit == SchedulerAssumption /\ Init => IInv
  <1> SUFFICES ASSUME SchedulerAssumption, Init PROVE IInv
    OBVIOUS
  <1>1. \A p \in Pools : boxes[p] = <<>>
    BY DEF Init
  <1>2. TypeOK
    <2>1. 0 \in 0..MaxHeight /\ 0 \in 0..Suspension
      BY DEF SchedulerAssumption
    <2>2. boxes \in [Pools -> Seq(0..EpochNum)]
      BY EmptySeq DEF Init
    <2>3. DOMAIN schedule = {} /\ DOMAIN deferred = {}
      BY DEF Init
    <2>4. /\ schedule \in [DOMAIN schedule -> 0..(EpochNum - 1)]
          /\ deferred \in [DOMAIN deferred -> 0..Suspension]
      BY DEF Init
    <2> QED
      BY <2>1, <2>2, <2>3, <2>4 DEF Init, TypeOK
  <1>3. Steady
    BY <1>1, EmptySeq DEF Steady
  <1>4. StreamBusy
    BY DEF Init, StreamBusy
  <1>5. ScheduleTracksLedger /\ OneTick
    BY <1>1 DEF Init, ScheduleTracksLedger, OneTick, KeysOf
  <1> QED BY <1>2, <1>3, <1>4, <1>5 DEF IInv

\* Steps that leave ledger boxes, keys and schedules alone.
LEMMA QuietKeeps ==
    ASSUME IInv, UNCHANGED <<boxes, schedule, ticks, emptied, taint>>,
           DOMAIN deferred' = DOMAIN deferred
    PROVE  Steady' /\ ScheduleTracksLedger' /\ OneTick'
  <1>1. \A p \in Pools : KeysOf(p)' = KeysOf(p) /\ TickOf(p)' = TickOf(p)
    BY DEF KeysOf, TickOf
  <1> QED
    BY <1>1 DEF IInv, Steady, ScheduleTracksLedger, OneTick, InStep

\* Every step preserves the invariant.
LEMMA InvStep == SchedulerAssumption /\ IInv /\ [Next]_vars => IInv'
  <1> SUFFICES ASSUME SchedulerAssumption, IInv, [Next]_vars PROVE IInv'
    OBVIOUS
  <1>0. TypeOK' /\ TypeOK /\ Steady
    BY TypeStep DEF IInv
  <1> DEFINE Rest3 == StreamBusy' /\ Steady' /\ ScheduleTracksLedger' /\ OneTick'
  <1> SUFFICES Rest3
    BY <1>0 DEF IInv
  <1>1. ASSUME NEW p \in Pools, AppliedTx(p)
        PROVE  Rest3
    <2>1. PICK e \in NextBox(p) :
             /\ boxes' = [boxes EXCEPT ![p] = Append(@, e)]
             /\ UpdateSchedule(p, e) \/ (~HasNext(e) /\ Clean(p))
      BY <1>1 DEF AppliedTx
    <2>2. e \in 0..EpochNum /\ boxes[p] \in Seq(0..EpochNum)
      BY <1>0, HelperTypes DEF TypeOK
    <2>3. Append(boxes[p], e) # <<>> /\ Last(Append(boxes[p], e)) = e
      <3> DEFINE s == boxes[p]
                 S == 0..EpochNum
      <3>1. s \in Seq(S) /\ e \in S
        BY <2>2
      <3> HIDE DEF s, S
      <3>2. Append(s, e) # <<>> /\ Last(Append(s, e)) = e
        BY ONLY <3>1, AppendFacts
      <3> QED BY <3>2 DEF s
    <2>4. /\ Steady'
          /\ boxes[p] # <<>> => e = Last(boxes[p]) \/ e = Last(boxes[p]) + 1
      BY <1>0, <2>1, SteadyAppend
    <2>5. UNCHANGED <<pc, tick, taint>>
      BY <1>1 DEF AppliedTx, stream
    <2>6. ScheduleTracksLedger' /\ OneTick' /\ emptied' \subseteq emptied
      BY <2>1, <2>2, <2>3, <2>4, <2>5, EventKeeps
    <2> QED
      BY <2>4, <2>5, <2>6 DEF IInv, StreamBusy, InStep
  <1>2. ASSUME NEW p \in Pools, UnappliedTx(p)
        PROVE  Rest3
    <2> DEFINE f == Front(boxes[p])
               e == Last(f)
    <2>1. boxes[p] \in Seq(0..EpochNum) /\ Len(boxes[p]) \in Nat /\ Len(boxes[p]) > 1
      BY <1>0, <1>2, LenProperties DEF UnappliedTx, TypeOK
    <2>2. boxes[p] # <<>>
      BY <2>1, EmptySeq
    <2>3. boxes' = [boxes EXCEPT ![p] = f] /\ boxes'[p] = f
      BY <1>0, <1>2 DEF UnappliedTx, TypeOK
    <2>4. f \in Seq(0..EpochNum) /\ Len(f) = Len(boxes[p]) - 1
      BY <2>1, <2>2, FrontFacts
    <2>5. f # <<>>
      <3>1. \A n \in Nat : n > 1 => n - 1 # 0
        OBVIOUS
      <3>2. Len(f) # 0
        BY ONLY <2>1, <2>4, <3>1
      <3> QED BY <3>2, EmptySeq
    <2>6. e \in 0..EpochNum
      BY <2>4, <2>5, FrontFacts
    <2>7. UpdateSchedule(p, e) \/ (~HasNext(e) /\ Clean(p))
      BY <1>2, <2>3 DEF UnappliedTx
    <2>8. Steady' /\ (Last(boxes[p]) = e \/ Last(boxes[p]) = e + 1)
      BY <1>0, <2>1, <2>2, <2>3, SteadyFront
    <2>9. UNCHANGED <<pc, tick, taint>>
      BY <1>2 DEF UnappliedTx, stream
    <2> HIDE DEF f, e
    <2>10. e = Last(f)
      BY DEF e
    <2>11. ScheduleTracksLedger' /\ OneTick' /\ emptied' \subseteq emptied
      BY <2>3, <2>5, <2>6, <2>7, <2>8, <2>9, <2>10, EventKeeps
    <2> QED
      BY <2>8, <2>9, <2>11 DEF IInv, StreamBusy, InStep
  <1>3. ASSUME NEW p \in Pools, UnappliedUnknown(p)
        PROVE  Rest3
    <2>1. boxes[p] # <<>>
      BY <1>0, <1>3, EmptySeq DEF UnappliedUnknown, TypeOK
    <2>2. Steady'
      BY <1>0, <1>3, <2>1, SteadyFront DEF UnappliedUnknown
    <2>3. ~InStep'
      BY <1>3 DEF UnappliedUnknown, InStep
    <2> QED
      BY <1>3, <2>2, <2>3
         DEF UnappliedUnknown, stream, IInv, StreamBusy, ScheduleTracksLedger, OneTick
  <1>4. CASE Peek
    <2>1. Steady' /\ ScheduleTracksLedger' /\ OneTick'
      BY <1>4, QuietKeeps DEF Peek, ledger, repo
    <2>2. tick' \in TickKey
      BY <1>4, PeekFacts
    <2>3. InStep => tick'.pool \notin emptied
      BY <1>4, <2>2, PeekFacts DEF IInv, OneTick, TickKey
    <2> QED
      BY <1>4, <2>1, <2>2, <2>3 DEF Peek, StreamBusy, InStep
  <1>5. CASE HeightReached \/ StakersLeft \/ NoStakers
    <2>1. Steady' /\ ScheduleTracksLedger' /\ OneTick'
      BY <1>5, QuietKeeps DEF HeightReached, StakersLeft, NoStakers, ledger, repo
    <2>2. pc # "idle" /\ UNCHANGED <<tick, emptied, taint>>
      BY <1>5 DEF HeightReached, StakersLeft, NoStakers
    <2> QED
      BY <2>1, <2>2 DEF IInv, StreamBusy, InStep
  <1>6. CASE TooEarly \/ HeightUnknown \/ Restart
    <2>1. Steady' /\ ScheduleTracksLedger' /\ OneTick'
      BY <1>6, QuietKeeps DEF TooEarly, HeightUnknown, Restart, ledger, repo
    <2> QED
      BY <1>6, <2>1 DEF TooEarly, HeightUnknown, Restart, Rest, StreamBusy
  <1>7. CASE Defer
    BY <1>7, DeferKeeps DEF Defer, ledger, Rest, IInv, Steady, StreamBusy
  <1>8. CASE DropTick
    BY <1>8, DropKeeps DEF DropTick, ledger, Rest, IInv, Steady, StreamBusy
  <1>9. CASE NewBlock \/ TipReached \/ TimePasses \/ UNCHANGED vars
    <2>1. /\ UNCHANGED <<boxes, schedule, ticks, emptied, taint, pc, tick>>
          /\ DOMAIN deferred' = DOMAIN deferred
      BY <1>9 DEF NewBlock, TipReached, TimePasses, vars, ledger, repo, stream
    <2> QED
      BY <2>1, QuietKeeps DEF IInv, StreamBusy, InStep
  <1> QED
    BY <1>1, <1>2, <1>3, <1>4, <1>5, <1>6, <1>7, <1>8, <1>9 DEF Next

\* The invariant holds in every reachable state.
LEMMA Inductive == Spec => []IInv
  <1>1. Init => IInv
    BY InvInit, SchedulerAssumption
  <1>2. IInv /\ [Next]_vars => IInv'
    BY InvStep, SchedulerAssumption
  <1> QED BY <1>1, <1>2, PTL DEF Spec

\* Every key, schedule and deferral of the repository is well formed in every
\* reachable state; in particular update_schedule never stores a schedule whose
\* program is exhausted.
THEOREM TypeCorrect == Spec => []TypeOK
  <1>1. IInv => TypeOK
    BY DEF IInv
  <1> QED BY <1>1, Inductive, PTL

\* ConfirmedScheduleUpdateHandler keeps the schedules in step with the ledger,
\* through any reorganisation and at both ends of a program.
THEOREM ScheduleTracksLedgerInvariant == Spec => []ScheduleTracksLedger
  <1>1. IInv => ScheduleTracksLedger
    BY DEF IInv
  <1> QED BY <1>1, Inductive, PTL

\* update_schedule, defer, remove and clean together leave a pool with the key of
\* its next epoch and no other.
THEOREM OneTickInvariant == Spec => []OneTick
  <1>1. IInv => OneTick
    BY DEF IInv
  <1> QED BY <1>1, Inductive, PTL

\* peek does not return a deferred tick before its time, although it follows any
\* key of the pool, pending or deferred, to the tick.
THEOREM DeferralKeptHolds == Spec => DeferralKept
  <1> DEFINE Kept == InStep /\ pc = "idle" /\ pc' = "peeked" /\ tick' \in DOMAIN deferred
                        => deferred[tick'] = 0
  <1>1. IInv /\ [Next]_vars => [Kept]_vars
    <2> SUFFICES ASSUME IInv, Next, InStep, pc = "idle", pc' = "peeked",
                        tick' \in DOMAIN deferred
                 PROVE  deferred[tick'] = 0
      OBVIOUS
    <2>1. Peek
      BY DEF Next, AppliedTx, UnappliedTx, UnappliedUnknown, stream, HeightReached,
             TooEarly, HeightUnknown, Rest, StakersLeft, NoStakers, Defer, DropTick,
             NewBlock, TipReached, TimePasses, Restart
    <2>2. /\ tick' \in TickKey
          /\ KeysOf(tick'.pool) = {tick'}
      BY <2>1, PeekFacts DEF IInv, OneTick, TickKey
    <2>3. tick' \notin ticks
      BY DEF IInv, OneTick
    <2>4. \A k \in ticks \cup DOMAIN deferred : k.pool = tick'.pool => k = tick'
      BY <2>2 DEF KeysOf
    <2> QED
      BY <2>1, <2>3, <2>4, PeekFacts
  <1>2. Spec => [][Kept]_vars
    BY <1>1, Inductive, PTL DEF Spec
  <1> QED BY <1>2 DEF DeferralKept
=============================================================================
