---------------------------- MODULE BacklogProofs ----------------------------
(***************************************************************************)
(* Theorems about Backlog, and about its client LmExecutor, for every set  *)
(* of orders, every configuration and every answer of the node.            *)
(***************************************************************************)
EXTENDS LmExecutor, SequenceTheorems, FiniteSetTheorems, TLAPS

\* What VecDeque::remove(k) leaves of a queue.
LEMMA RemoveAtFacts ==
    ASSUME NEW S, NEW s \in Seq(S), NEW k \in DOMAIN s
    PROVE  /\ RemoveAt(s, k) \in Seq(S)
           /\ Len(RemoveAt(s, k)) = Len(s) - 1
           /\ \A i \in 1..(Len(s) - 1) :
                 RemoveAt(s, k)[i] = IF i < k THEN s[i] ELSE s[i + 1]
<1>1. k \in 1..Len(s) /\ Len(s) \in Nat
  OBVIOUS
<1> DEFINE a == SubSeq(s, 1, k - 1)
           b == SubSeq(s, k + 1, Len(s))
<1>2. a \in Seq(S) /\ Len(a) = k - 1 /\ \A i \in 1..(k - 1) : a[i] = s[i]
  BY <1>1
<1>3. b \in Seq(S) /\ Len(b) = Len(s) - k /\ \A i \in 1..(Len(s) - k) : b[i] = s[k + i]
  BY <1>1
<1>4. RemoveAt(s, k) = a \o b
  BY DEF RemoveAt
<1> HIDE DEF a, b
<1>5. a \o b \in Seq(S) /\ Len(a \o b) = Len(s) - 1
  BY <1>1, <1>2, <1>3
<1>6. ASSUME NEW i \in 1..(Len(s) - 1)
      PROVE  (a \o b)[i] = IF i < k THEN s[i] ELSE s[i + 1]
  <2>0. (a \o b)[i] = IF i <= k - 1 THEN a[i] ELSE b[i - (k - 1)]
    <3>1. \A j \in 1..(Len(a) + Len(b)) :
             (a \o b)[j] = IF j <= Len(a) THEN a[j] ELSE b[j - Len(a)]
      BY <1>2, <1>3, ConcatProperties
    <3>2. Len(a) = k - 1 /\ i \in 1..(Len(a) + Len(b))
      BY <1>1, <1>2, <1>3
    <3> QED BY <3>1, <3>2
  <2>1. CASE i < k
    BY <1>1, <1>2, <2>0, <2>1
  <2>2. CASE ~(i < k)
    <3>1. (a \o b)[i] = b[i - (k - 1)]
      BY <1>1, <2>0, <2>2
    <3>2. i - (k - 1) \in 1..(Len(s) - k) /\ k + (i - (k - 1)) = i + 1
      BY <1>1, <2>2
    <3> QED BY <1>3, <2>2, <3>1, <3>2
  <2> QED BY <2>1, <2>2
<1> QED BY <1>4, <1>5, <1>6

\* What popping the first n entries leaves of a queue.
LEMMA TailFacts ==
    ASSUME NEW S, NEW s \in Seq(S), NEW n \in 0..Len(s)
    PROVE  /\ SubSeq(s, n + 1, Len(s)) \in Seq(S)
           /\ Len(SubSeq(s, n + 1, Len(s))) = Len(s) - n
           /\ \A i \in 1..(Len(s) - n) : SubSeq(s, n + 1, Len(s))[i] = s[n + i]
  OBVIOUS

-----------------------------------------------------------------------------
(***************************************************************************)
(* try_pop_max_order, whatever the store st and the queue pq it starts     *)
(* from: it only removes from both, what it takes out of the store had an  *)
(* expired entry, and an order that stays in the store and had an entry in *)
(* the queue keeps one or is the one returned.                             *)
(***************************************************************************)
LEMMA PopFacts ==
    ASSUME NEW st, NEW pq, NEW rest, TryPopMaxOrder(st, pq, rest)
    PROVE  /\ rest \subseteq pq
           /\ DOMAIN store' \subseteq DOMAIN st
           /\ store' = [o \in DOMAIN store' |-> st[o]]
           /\ \A o \in DOMAIN st \ DOMAIN store' : \E e \in pq : e.id = o /\ Expired(e)
           /\ \A e \in pq : e.id \in DOMAIN store' => e \in rest \/ e.id = hand'
           /\ \/ hand' = NoOrder
              \/ \E e \in pq : e \notin rest /\ e.id = hand' /\ e.id \in DOMAIN store'
<1>1. PICK skipped \in SUBSET pq :
        LET left == StoreWithout(st, Ids({e \in skipped : Expired(e)}))
        IN  /\ \A e \in skipped : Expired(e) \/ e.id \notin DOMAIN left
            /\ store' = left
            /\ \/ /\ skipped = pq
                  /\ rest = {}
                  /\ hand' = NoOrder
               \/ \E e \in pq \ skipped :
                     /\ ~Expired(e)
                     /\ e.id \in DOMAIN left
                     /\ \A s \in skipped : Weight[s.id] >= Weight[e.id]
                     /\ \A s \in pq \ skipped : Weight[s.id] <= Weight[e.id]
                     /\ rest = pq \ (skipped \cup {e})
                     /\ hand' = e.id
  BY DEF TryPopMaxOrder
<1>2. store' = [o \in DOMAIN st \ {e.id : e \in {f \in skipped : Expired(f)}} |-> st[o]]
  BY <1>1 DEF StoreWithout, Ids
<1>3. DOMAIN store' = DOMAIN st \ {e.id : e \in {f \in skipped : Expired(f)}}
  BY <1>2
<1>4. \A e \in skipped : e.id \notin DOMAIN store'
  BY <1>1, <1>3
<1>5. CASE skipped = pq /\ rest = {} /\ hand' = NoOrder
  BY <1>2, <1>3, <1>4, <1>5
<1>6. CASE \E e \in pq \ skipped :
              e.id \in DOMAIN store' /\ rest = pq \ (skipped \cup {e}) /\ hand' = e.id
  BY <1>2, <1>3, <1>4, <1>6
<1> QED BY <1>1, <1>5, <1>6
-----------------------------------------------------------------------------
\* Ages stay in range when time passes, and never decrease.
LEMMA AgeFacts ==
    /\ OldAge \in Nat
    /\ Ages = 0..OldAge
    /\ \A a \in Ages : Older(a) \in Ages /\ a <= Older(a)
    /\ \A a, b \in Ages : a <= b => Older(a) <= Older(b)
    /\ 0..MaxLag \subseteq Ages
  BY BacklogAssumption DEF OldAge, Ages, Older

\* The entries revisit_progressing_orders makes pending are typed and come
\* from entries of the revisit queue that are due.
LEMMA RevivedFacts ==
    ASSUME TypeOK, NEW n \in 0..Len(revisit)
    PROVE  /\ Revived(n) \subseteq Entry
           /\ \A e \in Revived(n) :
                 /\ e.id \in DOMAIN store
                 /\ e.age = store[e.id]
                 /\ \E i \in 1..n : i \in DOMAIN revisit /\ revisit[i].id = e.id
           /\ \A e, f \in Revived(n) : e.id = f.id => e = f
<1>1. ASSUME NEW e \in Revived(n)
      PROVE  /\ e = [id |-> e.id, age |-> store[e.id]]
             /\ e.id \in DOMAIN store
             /\ \E i \in 1..n : i \in DOMAIN revisit /\ revisit[i].id = e.id
  <2>1. PICK i \in 1..n : e = StoredEntry(revisit[i].id) /\ revisit[i].id \in DOMAIN store
    BY DEF Revived
  <2>2. i \in DOMAIN revisit
    BY DEF TypeOK
  <2> QED BY <2>1, <2>2 DEF StoredEntry, WeightedOrder
<1>2. \A e \in Revived(n) : e \in Entry
  BY <1>1 DEF TypeOK, Entry
<1> QED BY <1>1, <1>2

(***************************************************************************)
(* What one try_pop does to the state, whichever queue it draws from.  n   *)
(* is the number of entries that leave the revisit queue.                  *)
(***************************************************************************)
PopStep(n) ==
    /\ IsDuePrefix(n)
    /\ hand = NoOrder
    /\ revisit' = SubSeq(revisit, n + 1, Len(revisit))
    /\ told' = "nothing"
    /\ UNCHANGED history
    /\ pending' \subseteq pending \cup Revived(n)
    /\ suspended' \subseteq suspended
    /\ DOMAIN store' \subseteq DOMAIN store \ Outlived(n)
    /\ store' = [o \in DOMAIN store' |-> store[o]]
    /\ \A o \in DOMAIN store \ DOMAIN store' :
          \/ o \in Outlived(n)
          \/ \E e \in pending \cup Revived(n) \cup suspended : e.id = o /\ Expired(e)
    /\ \A e \in pending \cup Revived(n) :
          e.id \in DOMAIN store' => e \in pending' \/ e.id = hand'
    /\ \A e \in suspended :
          e.id \in DOMAIN store' => e \in suspended' \/ e.id = hand'
    /\ \/ hand' = NoOrder
       \/ /\ hand' \in DOMAIN store'
          /\ \/ \E e \in pending \cup Revived(n) : e \notin pending' /\ e.id = hand'
             \/ \E e \in suspended : e \notin suspended' /\ e.id = hand'

\* Both branches of try_pop do what the facts about queues above describe.
LEMMA TryPopIsPopStep ==
    ASSUME TypeOK, TryPopPending \/ TryPopSuspended
    PROVE  \E n \in 0..Len(revisit) : PopStep(n)
<1>1. CASE TryPopPending
  <2>1. PICK n \in 0..Len(revisit) :
          /\ IsDuePrefix(n)
          /\ TryPopMaxOrder(StoreWithout(store, Outlived(n)), pending \cup Revived(n), pending')
          /\ revisit' = SubSeq(revisit, n + 1, Len(revisit))
    BY <1>1 DEF TryPopPending
  <2> DEFINE st == StoreWithout(store, Outlived(n))
             pq == pending \cup Revived(n)
  <2>2. DOMAIN st = DOMAIN store \ Outlived(n) /\ \A o \in DOMAIN st : st[o] = store[o]
    BY DEF StoreWithout
  <2>3. TryPopMaxOrder(st, pq, pending')
    BY <2>1
  <2> HIDE DEF st, pq
  <2>4. /\ pending' \subseteq pq
        /\ DOMAIN store' \subseteq DOMAIN st
        /\ store' = [o \in DOMAIN store' |-> st[o]]
        /\ \A o \in DOMAIN st \ DOMAIN store' : \E e \in pq : e.id = o /\ Expired(e)
        /\ \A e \in pq : e.id \in DOMAIN store' => e \in pending' \/ e.id = hand'
        /\ \/ hand' = NoOrder
           \/ \E e \in pq : e \notin pending' /\ e.id = hand' /\ e.id \in DOMAIN store'
    BY <2>3, PopFacts
  <2>5. store' = [o \in DOMAIN store' |-> store[o]]
    BY <2>2, <2>4
  <2>6. hand = NoOrder /\ told' = "nothing" /\ suspended' = suspended /\ UNCHANGED history
    BY <1>1 DEF TryPopPending
  <2>7. PopStep(n)
    BY <2>1, <2>2, <2>4, <2>5, <2>6 DEF PopStep, pq
  <2> QED BY <2>7
<1>2. CASE TryPopSuspended
  <2>1. PICK n \in 0..Len(revisit) :
          /\ IsDuePrefix(n)
          /\ pending' = pending \cup Revived(n)
          /\ TryPopMaxOrder(StoreWithout(store, Outlived(n)), suspended, suspended')
          /\ revisit' = SubSeq(revisit, n + 1, Len(revisit))
    BY <1>2 DEF TryPopSuspended
  <2> DEFINE st == StoreWithout(store, Outlived(n))
  <2>2. DOMAIN st = DOMAIN store \ Outlived(n) /\ \A o \in DOMAIN st : st[o] = store[o]
    BY DEF StoreWithout
  <2>3. TryPopMaxOrder(st, suspended, suspended')
    BY <2>1
  <2> HIDE DEF st
  <2>4. /\ suspended' \subseteq suspended
        /\ DOMAIN store' \subseteq DOMAIN st
        /\ store' = [o \in DOMAIN store' |-> st[o]]
        /\ \A o \in DOMAIN st \ DOMAIN store' : \E e \in suspended : e.id = o /\ Expired(e)
        /\ \A e \in suspended : e.id \in DOMAIN store' => e \in suspended' \/ e.id = hand'
        /\ \/ hand' = NoOrder
           \/ \E e \in suspended : e \notin suspended' /\ e.id = hand' /\ e.id \in DOMAIN store'
    BY <2>3, PopFacts
  <2>5. store' = [o \in DOMAIN store' |-> store[o]]
    BY <2>2, <2>4
  <2>6. hand = NoOrder /\ told' = "nothing" /\ UNCHANGED history
    BY <1>2 DEF TryPopSuspended
  <2>7. PopStep(n)
    BY <2>1, <2>2, <2>4, <2>5, <2>6 DEF PopStep
  <2> QED BY <2>7
<1> QED BY <1>1, <1>2
-----------------------------------------------------------------------------
\* The revisit queue after put: still typed, and nothing new in it.
LEMMA ForgetRevisitFacts ==
    ASSUME TypeOK, NEW o, ForgetRevisit(o)
    PROVE  /\ revisit' \in Seq(Entry)
           /\ \A i \in DOMAIN revisit' : \E j \in DOMAIN revisit : revisit'[i] = revisit[j]
           /\ \A j \in DOMAIN revisit :
                 revisit[j].id # o => \E i \in DOMAIN revisit' : revisit'[i] = revisit[j]
<1>1. CASE o \notin RevisitIds /\ UNCHANGED revisit
  BY <1>1 DEF TypeOK
<1>2. CASE \E k \in DOMAIN revisit :
              /\ revisit[k].id = o
              /\ revisit' = RemoveAt(revisit, k)
  <2>1. PICK k \in DOMAIN revisit : revisit[k].id = o /\ revisit' = RemoveAt(revisit, k)
    BY <1>2
  <2>2. revisit \in Seq(Entry) /\ k \in 1..Len(revisit) /\ DOMAIN revisit = 1..Len(revisit)
    BY DEF TypeOK
  <2>3. /\ revisit' \in Seq(Entry)
        /\ Len(revisit') = Len(revisit) - 1
        /\ \A i \in 1..(Len(revisit) - 1) :
              revisit'[i] = IF i < k THEN revisit[i] ELSE revisit[i + 1]
    BY <2>1, <2>2, RemoveAtFacts
  <2>4. DOMAIN revisit' = 1..(Len(revisit) - 1)
    BY <2>2, <2>3
  <2>5. ASSUME NEW i \in DOMAIN revisit'
        PROVE  \E j \in DOMAIN revisit : revisit'[i] = revisit[j]
    BY <2>2, <2>3, <2>4
  <2>6. ASSUME NEW j \in DOMAIN revisit, revisit[j].id # o
        PROVE  \E i \in DOMAIN revisit' : revisit'[i] = revisit[j]
    <3>1. j # k
      BY <2>1, <2>6
    <3>2. CASE j < k
      BY <2>2, <2>3, <2>4, <3>2
    <3>3. CASE j > k
      <4>1. (j - 1) \in 1..(Len(revisit) - 1) /\ ~(j - 1 < k) /\ (j - 1) + 1 = j
        BY <2>2, <3>3
      <4>2. revisit'[j - 1] = revisit[j]
        BY <2>3, <4>1
      <4> QED BY <2>4, <4>1, <4>2
    <3> QED BY <2>2, <3>1, <3>2, <3>3
  <2> QED BY <2>3, <2>5, <2>6
<1> QED BY <1>1, <1>2 DEF ForgetRevisit

\* put removes no suspended entry of another order.
LEMMA ForgetSuspendedFacts ==
    ASSUME NEW o, ForgetSuspended(o)
    PROVE  /\ suspended' \subseteq suspended
           /\ \A e \in suspended : e.id # o => e \in suspended'
  BY DEF ForgetSuspended

\* BacklogStore::put of a new key keeps the store a map into the ages.
LEMMA StoreWithFacts ==
    ASSUME NEW st, st \in [DOMAIN st -> Ages], NEW o, NEW a \in Ages
    PROVE  /\ StoreWith(st, o, a) \in [DOMAIN st \cup {o} -> Ages]
           /\ DOMAIN StoreWith(st, o, a) = DOMAIN st \cup {o}
  BY DEF StoreWith

\* Every action of the backlog keeps the types.
LEMMA TypePreserved == TypeOK /\ [Next]_vars => TypeOK'
<1> SUFFICES ASSUME TypeOK, [Next]_vars
             PROVE  TypeOK'
  OBVIOUS
<1> USE AgeFacts
<1>1. ASSUME NEW o \in Orders, NEW lag \in 0..MaxLag, Put(o, lag)
      PROVE  TypeOK'
  <2>1. lag \in Ages
    OBVIOUS
  <2>2. DOMAIN store' \subseteq Orders /\ store' \in [DOMAIN store' -> Ages]
    <3>1. CASE o \in DOMAIN store
      BY <1>1, <3>1 DEF TypeOK, Put
    <3>2. CASE o \notin DOMAIN store
      <4>1. store' = StoreWith(store, o, lag) /\ store \in [DOMAIN store -> Ages]
        BY <1>1, <3>2 DEF TypeOK, Put
      <4>2. store' \in [DOMAIN store \cup {o} -> Ages] /\ DOMAIN store' = DOMAIN store \cup {o}
        BY <2>1, <4>1, StoreWithFacts
      <4> QED BY <4>2 DEF TypeOK
    <3> QED BY <3>1, <3>2
  <2>3. DOMAIN known' \subseteq Orders /\ known' \in [DOMAIN known' -> Ages]
    <3>1. CASE o \in DOMAIN known /\ known[o] >= lag
      BY <1>1, <3>1 DEF TypeOK, Put
    <3>2. CASE ~(o \in DOMAIN known /\ known[o] >= lag)
      <4>1. known' = StoreWith(known, o, lag) /\ known \in [DOMAIN known -> Ages]
        BY <1>1, <3>2 DEF TypeOK, Put
      <4>2. known' \in [DOMAIN known \cup {o} -> Ages] /\ DOMAIN known' = DOMAIN known \cup {o}
        BY <2>1, <4>1, StoreWithFacts
      <4> QED BY <4>2 DEF TypeOK
    <3> QED BY <3>1, <3>2
  <2>4. revisit' \in Seq(Entry)
    BY <1>1, ForgetRevisitFacts DEF Put
  <2>5. suspended' \subseteq Entry
    BY <1>1, ForgetSuspendedFacts DEF Put, TypeOK
  <2>6. pending' \subseteq Entry
    BY <1>1, <2>1 DEF Put, TypeOK, Entry, WeightedOrder
  <2> QED BY <1>1, <2>2, <2>3, <2>4, <2>5, <2>6 DEF Put, TypeOK
<1>2. ASSUME NEW o \in Orders, RemoveOrder(o)
      PROVE  TypeOK'
  BY <1>2 DEF TypeOK, RemoveOrder, StoreWithout, queues
<1>3. CASE TryPopPending \/ TryPopSuspended
  <2>1. PICK n \in 0..Len(revisit) : PopStep(n)
    BY <1>3, TryPopIsPopStep
  <2>2. pending' \subseteq Entry /\ suspended' \subseteq Entry
    BY <2>1, RevivedFacts DEF PopStep, TypeOK
  <2>3. revisit' \in Seq(Entry)
    BY <2>1, TailFacts DEF PopStep, TypeOK
  <2>4. DOMAIN store' \subseteq Orders /\ store' \in [DOMAIN store' -> Ages]
    <3>1. \A o \in DOMAIN store' : o \in DOMAIN store /\ store'[o] = store[o]
      BY <2>1 DEF PopStep
    <3> QED BY <2>1, <3>1 DEF PopStep, TypeOK
  <2>5. hand' \in Orders \cup {NoOrder}
    BY <2>1, <2>4 DEF PopStep
  <2> QED BY <2>1, <2>2, <2>3, <2>4, <2>5 DEF PopStep, TypeOK, history, Reports
<1>4. CASE Suspend
  BY <1>4 DEF Suspend, SuspendHeld, TypeOK, StoredEntry, WeightedOrder, Entry, history, Reports
<1>5. CASE CheckLater
  <2>1. hand \in DOMAIN store => WeightedOrder(hand, 0) \in Entry
    BY DEF TypeOK, WeightedOrder, Entry
  <2>2. revisit' \in Seq(Entry)
    BY <1>5, <2>1, AppendProperties DEF CheckLater, CheckLaterHeld, TypeOK
  <2> QED BY <1>5, <2>2 DEF CheckLater, CheckLaterHeld, TypeOK, history, Reports
<1>6. CASE Recharge
  BY <1>6 DEF Recharge, RechargeHeld, TypeOK, StoredEntry, WeightedOrder, Entry, history, Reports
<1>7. CASE Discard
  BY <1>7 DEF Discard, RemoveHeld, TypeOK, StoreWithout, queues, Reports
<1>8. CASE Return
  BY <1>8 DEF Return, TypeOK, queues, Reports
<1>9. CASE Restart
  BY <1>9 DEF Restart, TypeOK, StoredEntry, WeightedOrder, Entry, Reports
<1>10. CASE Tick
  <2>1. Aged(pending) \subseteq Entry /\ Aged(suspended) \subseteq Entry
    BY DEF TypeOK, Aged, Entry
  <2>2. revisit' \in Seq(Entry)
    <3>1. revisit \in Seq(Entry) /\ DOMAIN revisit = 1..Len(revisit) /\ Len(revisit) \in Nat
      BY DEF TypeOK
    <3>2. \A i \in 1..Len(revisit) :
             [id |-> revisit[i].id, age |-> Older(revisit[i].age)] \in Entry
      <4>1. \A i \in 1..Len(revisit) : revisit[i] \in Entry
        BY <3>1
      <4> QED BY <4>1 DEF Entry
    <3>3. revisit' = [i \in 1..Len(revisit) |->
                         [id |-> revisit[i].id, age |-> Older(revisit[i].age)]]
      BY <1>10, <3>1 DEF Tick
    <3> QED BY <3>1, <3>2, <3>3, IsASeq
  <2> QED BY <1>10, <2>1, <2>2 DEF Tick, TypeOK
<1>11. CASE UNCHANGED vars
  BY <1>11 DEF vars, TypeOK
<1> QED
  BY <1>1, <1>2, <1>3, <1>4, <1>5, <1>6, <1>7, <1>8, <1>9, <1>10, <1>11 DEF Next

(***************************************************************************)
(* Every state of the backlog is well typed: in particular every queue     *)
(* entry carries a sound id and age, whatever mixture of events, executor  *)
(* reports, restarts and clock ticks led there.                            *)
(***************************************************************************)
THEOREM TypeCorrect == Spec => []TypeOK
<1>1. Init => TypeOK
  BY BacklogAssumption DEF Init, TypeOK, Reports
<1> QED BY <1>1, TypePreserved, PTL DEF Spec
-----------------------------------------------------------------------------
\* An order in the revisit queue keeps its entry or is made pending by the pop.
LEMMA PopKeepsRevisited ==
    ASSUME TypeOK, NEW n \in 0..Len(revisit), PopStep(n),
           NEW x \in DOMAIN store, x \notin Outlived(n), x \in RevisitIds
    PROVE  x \in RevisitIds' \/ x \in Ids(Revived(n))
<1>1. revisit \in Seq(Entry) /\ DOMAIN revisit = 1..Len(revisit) /\ Len(revisit) \in Nat
  BY DEF TypeOK
<1>2. PICK j \in 1..Len(revisit) : revisit[j].id = x
  BY <1>1 DEF RevisitIds
<1>3. CASE j > n
  <2>1. /\ revisit' \in Seq(Entry)
        /\ Len(revisit') = Len(revisit) - n
        /\ \A i \in 1..(Len(revisit) - n) : revisit'[i] = revisit[n + i]
    BY <1>1, TailFacts DEF PopStep
  <2>2. j - n \in 1..(Len(revisit) - n) /\ n + (j - n) = j
    BY <1>1, <1>3
  <2>3. j - n \in DOMAIN revisit' /\ revisit'[j - n].id = x
    BY <1>1, <1>2, <2>1, <2>2
  <2> QED BY <2>3 DEF RevisitIds
<1>4. CASE j <= n
  <2>1. j \in 1..n
    BY <1>4
  <2>2. \A k \in 1..n : revisit[k].id = x => ~Expired(revisit[k])
    BY DEF Outlived
  <2>3. \A k \in 1..(j - 1) : k \in 1..n
    BY <2>1
  <2>4. StoredEntry(x) \in Revived(n)
    BY <1>2, <2>1, <2>2, <2>3 DEF Revived
  <2>5. StoredEntry(x).id = x
    BY DEF StoredEntry, WeightedOrder
  <2> QED BY <2>4, <2>5 DEF Ids
<1> QED BY <1>1, <1>3, <1>4

\* An order with an entry in a queue, new or from the store, is in the queue.
LEMMA IdsFacts ==
    /\ \A o, a : WeightedOrder(o, a).id = o /\ WeightedOrder(o, a).age = a
    /\ \A o : StoredEntry(o).id = o /\ StoredEntry(o).age = store[o]
    /\ \A es, e : e \in es => e.id \in Ids(es)
    /\ \A es, fs : es \subseteq fs => Ids(es) \subseteq Ids(fs)
  BY DEF WeightedOrder, StoredEntry, Ids

\* The clock changes no id in any queue.
LEMMA TickKeepsIds ==
    ASSUME TypeOK, Tick
    PROVE  /\ Ids(pending') = Ids(pending)
           /\ Ids(suspended') = Ids(suspended)
           /\ RevisitIds' = RevisitIds
           /\ DOMAIN revisit' = DOMAIN revisit
           /\ \A i \in DOMAIN revisit : revisit'[i].id = revisit[i].id
<1>1. ASSUME NEW es PROVE Ids(Aged(es)) = Ids(es)
  <2>1. \A e \in es : [id |-> e.id, age |-> Older(e.age)].id = e.id
    OBVIOUS
  <2>2. Aged(es) = {[id |-> e.id, age |-> Older(e.age)] : e \in es}
    BY DEF Aged
  <2>3. ASSUME NEW o \in Ids(es) PROVE o \in Ids(Aged(es))
    <3>1. PICK e \in es : o = e.id
      BY DEF Ids
    <3>2. [id |-> e.id, age |-> Older(e.age)] \in Aged(es)
      BY <2>2
    <3> QED BY <2>1, <3>1, <3>2 DEF Ids
  <2>4. ASSUME NEW o \in Ids(Aged(es)) PROVE o \in Ids(es)
    BY <2>1, <2>2 DEF Ids
  <2> QED BY <2>3, <2>4
<1>2. DOMAIN revisit' = DOMAIN revisit /\ \A i \in DOMAIN revisit : revisit'[i].id = revisit[i].id
  BY DEF Tick
<1> QED BY <1>1, <1>2 DEF Tick, RevisitIds

(***************************************************************************)
(* The backlog never forgets a stored order: Accounted is an invariant.    *)
(* It is inductive together with the typing invariant, because put, the    *)
(* revival of submitted orders and every report of the executor re-queue   *)
(* the order in the same critical section that un-queues it.               *)
(***************************************************************************)
THEOREM AccountedInvariant == Spec => []Accounted
<1>1. Init => Accounted
  BY DEF Init, Accounted
<1>2. TypeOK /\ Accounted /\ [Next]_vars => Accounted'
  <2> SUFFICES ASSUME TypeOK, Accounted, [Next]_vars
               PROVE  Accounted'
    OBVIOUS
  <2>1. ASSUME NEW o \in Orders, NEW lag \in 0..MaxLag, Put(o, lag)
        PROVE  Accounted'
    <3> SUFFICES ASSUME NEW x \in DOMAIN store'
                 PROVE  Queued(x)' \/ (hand = x /\ told = "nothing")' \/ x \in dropped'
      BY DEF Accounted
    <3>1. CASE x = o
      <4>1. o \in Ids(pending')
        BY <2>1, IdsFacts DEF Put
      <4> QED BY <3>1, <4>1 DEF Queued
    <3>2. CASE x # o
      <4>1. x \in DOMAIN store
        BY <2>1, <3>2 DEF Put, StoreWith
      <4>2. x \in Ids(pending) => x \in Ids(pending')
        BY <2>1 DEF Put, Ids
      <4>3. x \in Ids(suspended) => x \in Ids(suspended')
        BY <2>1, <3>2, ForgetSuspendedFacts DEF Put, Ids
      <4>4. x \in RevisitIds => x \in RevisitIds'
        BY <2>1, <3>2, ForgetRevisitFacts DEF Put, RevisitIds
      <4>5. x \in dropped => x \in dropped'
        BY <2>1, <3>2 DEF Put
      <4> QED BY <2>1, <4>1, <4>2, <4>3, <4>4, <4>5 DEF Put, Accounted, Queued
    <3> QED BY <3>1, <3>2
  <2>2. ASSUME NEW o \in Orders, RemoveOrder(o)
        PROVE  Accounted'
    BY <2>2 DEF RemoveOrder, Accounted, Queued, RevisitIds, StoreWithout, queues
  <2>3. CASE TryPopPending \/ TryPopSuspended
    <3>1. PICK n \in 0..Len(revisit) : PopStep(n)
      BY <2>3, TryPopIsPopStep
    <3> SUFFICES ASSUME NEW x \in DOMAIN store'
                 PROVE  Queued(x)' \/ (hand = x /\ told = "nothing")' \/ x \in dropped'
      BY DEF Accounted
    <3>2. x \in DOMAIN store /\ x \notin Outlived(n)
      BY <3>1 DEF PopStep
    <3>3. Queued(x) \/ x \in dropped
      BY <3>1, <3>2, BacklogAssumption DEF Accounted, PopStep, TypeOK
    <3>4. CASE x \in Ids(pending) \/ x \in Ids(Revived(n))
      BY <3>1, <3>4 DEF PopStep, Ids, Queued
    <3>5. CASE x \in Ids(suspended)
      BY <3>1, <3>5 DEF PopStep, Ids, Queued
    <3>6. CASE x \in RevisitIds
      BY <3>1, <3>2, <3>4, <3>6, PopKeepsRevisited DEF Queued
    <3> QED BY <3>1, <3>3, <3>4, <3>5, <3>6 DEF Queued, PopStep, history
  <2>4. CASE Suspend
    <3>1. hand \in DOMAIN store => hand \in Ids(suspended')
      BY <2>4, IdsFacts DEF Suspend, SuspendHeld
    <3>2. Ids(suspended) \subseteq Ids(suspended')
      BY <2>4 DEF Suspend, SuspendHeld, Ids
    <3> QED BY <2>4, <3>1, <3>2 DEF Suspend, SuspendHeld, Accounted, Queued, RevisitIds, history
  <2>5. CASE CheckLater
    <3>1. revisit \in Seq(Entry) /\ (hand \in DOMAIN store => WeightedOrder(hand, 0) \in Entry)
      BY AgeFacts DEF TypeOK, WeightedOrder, Entry
    <3>2. hand \in DOMAIN store => hand \in RevisitIds'
      <4> SUFFICES ASSUME hand \in DOMAIN store PROVE hand \in RevisitIds'
        OBVIOUS
      <4>1. revisit' = Append(revisit, WeightedOrder(hand, 0))
        BY <2>5 DEF CheckLater, CheckLaterHeld
      <4>2. Len(revisit) + 1 \in DOMAIN revisit' /\ revisit'[Len(revisit) + 1].id = hand
        BY <3>1, <4>1 DEF WeightedOrder
      <4> QED BY <4>2 DEF RevisitIds
    <3>3. RevisitIds \subseteq RevisitIds'
      <4>1. CASE hand \in DOMAIN store
        <5>1. revisit' = Append(revisit, WeightedOrder(hand, 0))
          BY <2>5, <4>1 DEF CheckLater, CheckLaterHeld
        <5>2. \A i \in DOMAIN revisit : i \in DOMAIN revisit' /\ revisit'[i] = revisit[i]
          BY <3>1, <4>1, <5>1
        <5> QED BY <5>2 DEF RevisitIds
      <4>2. CASE hand \notin DOMAIN store
        BY <2>5, <4>2 DEF CheckLater, CheckLaterHeld, RevisitIds
      <4> QED BY <4>1, <4>2
    <3> QED BY <2>5, <3>2, <3>3 DEF CheckLater, CheckLaterHeld, Accounted, Queued, history
  <2>6. CASE Recharge
    <3>1. hand \in DOMAIN store => hand \in Ids(pending')
      BY <2>6, IdsFacts DEF Recharge, RechargeHeld
    <3>2. Ids(pending) \subseteq Ids(pending')
      BY <2>6 DEF Recharge, RechargeHeld, Ids
    <3> QED BY <2>6, <3>1, <3>2 DEF Recharge, RechargeHeld, Accounted, Queued, RevisitIds, history
  <2>7. CASE Discard
    BY <2>7 DEF Discard, RemoveHeld, Accounted, Queued, RevisitIds, StoreWithout, queues
  <2>8. CASE Return
    BY <2>8 DEF Return, Accounted, Queued, RevisitIds, queues
  <2>9. CASE Restart
    <3>1. \A o \in DOMAIN store : o \in Ids(pending')
      BY <2>9, IdsFacts DEF Restart
    <3> QED BY <2>9, <3>1 DEF Restart, Accounted, Queued
  <2>10. CASE Tick
    BY <2>10, TickKeepsIds DEF Tick, Accounted, Queued
  <2>11. CASE UNCHANGED vars
    BY <2>11 DEF vars, Accounted, Queued, RevisitIds
  <2> QED
    BY <2>1, <2>2, <2>3, <2>4, <2>5, <2>6, <2>7, <2>8, <2>9, <2>10, <2>11 DEF Next
<1> QED BY <1>1, <1>2, TypeCorrect, PTL DEF Spec
-----------------------------------------------------------------------------
(***************************************************************************)
(* SinglePlace is not inductive: one execution may suspend its order       *)
(* twice.  The second time must find either no suspended entry of the      *)
(* order or the very one it is about to add.                               *)
(***************************************************************************)
SuspendedOnce ==
    hand # NoOrder /\ told = "suspended" /\ hand \notin raced =>
       /\ hand \notin Ids(pending)
       /\ hand \notin RevisitIds
       /\ \A e \in suspended :
             e.id = hand /\ hand \in DOMAIN store => e = StoredEntry(hand)

\* put takes the one entry of an order out of the revisit queue, and keeps the
\* order of the others.
LEMMA ForgetRevisitUnique ==
    ASSUME TypeOK, SinglePlace, NEW o, ForgetRevisit(o)
    PROVE  /\ o \in RevisitIds' => o \in raced
           /\ \A i, j \in DOMAIN revisit' :
                 revisit'[i].id = revisit'[j].id => i = j \/ revisit'[i].id \in raced
<1>1. CASE o \notin RevisitIds /\ UNCHANGED revisit
  BY <1>1 DEF SinglePlace, RevisitIds
<1>2. CASE \E k \in DOMAIN revisit : revisit[k].id = o /\ revisit' = RemoveAt(revisit, k)
  <2>1. PICK k \in DOMAIN revisit : revisit[k].id = o /\ revisit' = RemoveAt(revisit, k)
    BY <1>2
  <2>2. /\ revisit \in Seq(Entry) /\ k \in 1..Len(revisit)
        /\ DOMAIN revisit = 1..Len(revisit) /\ Len(revisit) \in Nat
    BY DEF TypeOK
  <2>3. /\ revisit' \in Seq(Entry)
        /\ Len(revisit') = Len(revisit) - 1
        /\ \A i \in 1..(Len(revisit) - 1) :
              revisit'[i] = IF i < k THEN revisit[i] ELSE revisit[i + 1]
    BY <2>1, <2>2, RemoveAtFacts
  <2>4. DOMAIN revisit' = 1..(Len(revisit) - 1)
    BY <2>2, <2>3
  <2> DEFINE old(i) == IF i < k THEN i ELSE i + 1
  <2>5. \A i \in DOMAIN revisit' :
           old(i) \in DOMAIN revisit /\ old(i) # k /\ revisit'[i] = revisit[old(i)]
    BY <2>2, <2>3, <2>4
  <2>6. \A i, j \in DOMAIN revisit' : old(i) = old(j) => i = j
    BY <2>2, <2>4
  <2> HIDE DEF old
  <2>7. \A i, j \in DOMAIN revisit :
           revisit[i].id = revisit[j].id => i = j \/ revisit[i].id \in raced
    BY DEF SinglePlace
  <2>8. \A i, j \in DOMAIN revisit' :
           revisit'[i].id = revisit'[j].id => i = j \/ revisit'[i].id \in raced
    BY <2>5, <2>6, <2>7
  <2>9. o \in RevisitIds' => o \in raced
    BY <2>1, <2>5, <2>7 DEF RevisitIds
  <2> QED BY <2>8, <2>9
<1> QED BY <1>1, <1>2 DEF ForgetRevisit

\* put keeps one entry per order.
LEMMA PutSinglePlace ==
    ASSUME TypeOK, SinglePlace, SuspendedOnce,
           NEW o \in Orders, NEW lag \in 0..MaxLag, Put(o, lag)
    PROVE  SinglePlace' /\ SuspendedOnce'
<1>1. /\ raced \subseteq raced'
      /\ hand' = hand /\ told' = told
      /\ hand = o => o \in raced'
  BY DEF Put
<1>2. /\ pending \subseteq pending'
      /\ \A e \in pending' : e \in pending \/ (e.id = o /\ o \notin Ids(pending))
      /\ \A e, f \in pending' : e \notin pending /\ f \notin pending => e = f
  BY IdsFacts DEF Put
<1>3. \A x \in Ids(pending') : x \in Ids(pending) \/ x = o
  BY <1>2 DEF Ids
<1>4. /\ suspended' \subseteq suspended
      /\ o \in Ids(suspended') => o \in raced
  BY DEF Put, ForgetSuspended, SinglePlace, Ids
<1>5. Ids(suspended') \subseteq Ids(suspended)
  BY <1>4, IdsFacts
<1>6. /\ o \in RevisitIds' => o \in raced
      /\ \A i, j \in DOMAIN revisit' :
            revisit'[i].id = revisit'[j].id => i = j \/ revisit'[i].id \in raced
  BY ForgetRevisitUnique DEF Put
<1>7. RevisitIds' \subseteq RevisitIds
  BY ForgetRevisitFacts DEF Put, RevisitIds
<1>8. \A e, f \in pending' : e.id = f.id => e = f \/ e.id \in raced'
  <2> SUFFICES ASSUME NEW e \in pending', NEW f \in pending', e.id = f.id, e # f
               PROVE  e.id \in raced'
    OBVIOUS
  <2>1. CASE e \in pending /\ f \in pending
    BY <1>1, <2>1 DEF SinglePlace
  <2>2. CASE e \notin pending \/ f \notin pending
    BY <1>2, <2>2, IdsFacts
  <2> QED BY <2>1, <2>2
<1>9. \A e, f \in suspended' : e.id = f.id => e = f \/ e.id \in raced'
  BY <1>1, <1>4 DEF SinglePlace
<1>10. Ids(pending') \cap Ids(suspended') \subseteq raced'
  BY <1>1, <1>3, <1>4, <1>5 DEF SinglePlace
<1>11. Ids(pending') \cap RevisitIds' \subseteq raced'
  BY <1>1, <1>3, <1>6, <1>7 DEF SinglePlace
<1>12. Ids(suspended') \cap RevisitIds' \subseteq raced'
  BY <1>1, <1>5, <1>7 DEF SinglePlace
<1>13. hand' # NoOrder /\ told' = "nothing" /\ Queued(hand)' => hand' \in raced'
  BY <1>1, <1>3, <1>5, <1>7 DEF SinglePlace, Queued
<1>14. SuspendedOnce'
  <2> SUFFICES ASSUME hand' # NoOrder, told' = "suspended", hand' \notin raced'
               PROVE  /\ hand' \notin Ids(pending')
                      /\ hand' \notin RevisitIds'
                      /\ \A e \in suspended' :
                            e.id = hand' /\ hand' \in DOMAIN store' => e = StoredEntry(hand)'
    BY DEF SuspendedOnce
  <2>1. hand # o /\ hand \notin raced
    BY <1>1
  <2>2. hand \in DOMAIN store' => hand \in DOMAIN store /\ store'[hand] = store[hand]
    BY <2>1 DEF Put, StoreWith
  <2>3. \A e \in suspended : e.id = hand /\ hand \in DOMAIN store => e = StoredEntry(hand)
    BY <1>1, <2>1 DEF SuspendedOnce
  <2> QED BY <1>1, <1>3, <1>4, <1>7, <2>1, <2>2, <2>3
         DEF SuspendedOnce, StoredEntry, WeightedOrder
<1> QED BY <1>6, <1>1, <1>8, <1>9, <1>10, <1>11, <1>12, <1>13, <1>14 DEF SinglePlace

\* So does try_pop.
LEMMA PopSinglePlace ==
    ASSUME TypeOK, SinglePlace, NEW n \in 0..Len(revisit), PopStep(n)
    PROVE  SinglePlace'
<1> DEFINE P == pending \cup Revived(n)
<1>1. /\ revisit \in Seq(Entry) /\ DOMAIN revisit = 1..Len(revisit)
      /\ Len(revisit) \in Nat
  BY DEF TypeOK
<1>2. /\ revisit' \in Seq(Entry)
      /\ DOMAIN revisit' = 1..(Len(revisit) - n)
      /\ \A i \in DOMAIN revisit' : revisit'[i] = revisit[n + i] /\ n + i \in DOMAIN revisit
  <2>1. /\ revisit' \in Seq(Entry)
        /\ Len(revisit') = Len(revisit) - n
        /\ \A i \in 1..(Len(revisit) - n) : revisit'[i] = revisit[n + i]
    BY <1>1, TailFacts DEF PopStep
  <2> QED BY <1>1, <2>1
<1>3. RevisitIds' \subseteq RevisitIds
  BY <1>2 DEF RevisitIds
<1>4. Ids(Revived(n)) \subseteq RevisitIds
  BY RevivedFacts DEF Ids, RevisitIds
<1>5. Ids(P) = Ids(pending) \cup Ids(Revived(n))
  BY DEF Ids
<1>6. Ids(Revived(n)) \cap RevisitIds' \subseteq raced
  <2> SUFFICES ASSUME NEW x \in Ids(Revived(n)), x \in RevisitIds'
               PROVE  x \in raced
    OBVIOUS
  <2>1. PICK i \in 1..n : i \in DOMAIN revisit /\ revisit[i].id = x
    BY RevivedFacts DEF Ids
  <2>2. PICK j \in DOMAIN revisit' : revisit'[j].id = x
    BY DEF RevisitIds
  <2>3. n + j \in DOMAIN revisit /\ revisit[n + j].id = x /\ n + j # i
    BY <1>1, <1>2, <2>1, <2>2
  <2> QED BY <2>1, <2>3 DEF SinglePlace
<1>7. \A e, f \in P : e.id = f.id => e = f \/ e.id \in raced
  <2> SUFFICES ASSUME NEW e \in P, NEW f \in P, e.id = f.id, e # f
               PROVE  e.id \in raced
    OBVIOUS
  <2>1. CASE e \in pending /\ f \in pending
    BY <2>1 DEF SinglePlace
  <2>2. CASE e \in Revived(n) /\ f \in Revived(n)
    BY <2>2, RevivedFacts
  <2>3. CASE e \in pending /\ f \in Revived(n)
    BY <1>4, <2>3, IdsFacts DEF SinglePlace
  <2>4. CASE e \in Revived(n) /\ f \in pending
    BY <1>4, <2>4, IdsFacts DEF SinglePlace
  <2> QED BY <2>1, <2>2, <2>3, <2>4
<1>8. Ids(P) \cap Ids(suspended) \subseteq raced
  BY <1>4, <1>5 DEF SinglePlace
<1>9. Ids(P) \cap RevisitIds' \subseteq raced
  BY <1>3, <1>5, <1>6 DEF SinglePlace
<1>10. /\ pending' \subseteq P
       /\ suspended' \subseteq suspended
       /\ raced' = raced
       /\ told' = "nothing"
  BY DEF PopStep, history
<1>11. Ids(pending') \subseteq Ids(P) /\ Ids(suspended') \subseteq Ids(suspended)
  BY <1>10, IdsFacts
<1>12. \A i, j \in DOMAIN revisit' :
          revisit'[i].id = revisit'[j].id => i = j \/ revisit'[i].id \in raced
  <2> SUFFICES ASSUME NEW i \in DOMAIN revisit', NEW j \in DOMAIN revisit',
                      revisit'[i].id = revisit'[j].id, i # j
               PROVE  revisit'[i].id \in raced
    OBVIOUS
  <2>1. n + i # n + j
    BY <1>1, <1>2
  <2> QED BY <1>2, <2>1 DEF SinglePlace
<1>13. hand' # NoOrder /\ Queued(hand)' => hand' \in raced
  <2> SUFFICES ASSUME hand' # NoOrder, hand' \notin raced
               PROVE  /\ hand' \notin Ids(pending')
                      /\ hand' \notin Ids(suspended')
                      /\ hand' \notin RevisitIds'
    BY DEF Queued
  <2>1. CASE \E e \in P : e \notin pending' /\ e.id = hand'
    <3>1. PICK e \in P : e \notin pending' /\ e.id = hand'
      BY <2>1
    <3>2. hand' \notin Ids(pending')
      BY <1>7, <1>10, <3>1 DEF Ids
    <3>3. hand' \in Ids(P)
      BY <3>1, IdsFacts
    <3> QED BY <1>8, <1>9, <1>11, <3>2, <3>3
  <2>2. CASE \E e \in suspended : e \notin suspended' /\ e.id = hand'
    <3>1. PICK e \in suspended : e \notin suspended' /\ e.id = hand'
      BY <2>2
    <3>2. hand' \notin Ids(suspended')
      BY <1>10, <3>1 DEF SinglePlace, Ids
    <3>3. hand' \in Ids(suspended)
      BY <3>1, IdsFacts
    <3> QED BY <1>3, <1>8, <1>11, <3>2, <3>3 DEF SinglePlace
  <2> QED BY <2>1, <2>2 DEF PopStep
<1> HIDE DEF P
<1>14. \A e, f \in pending' : e.id = f.id => e = f \/ e.id \in raced
  BY <1>7, <1>10
<1>15. \A e, f \in suspended' : e.id = f.id => e = f \/ e.id \in raced
  BY <1>10 DEF SinglePlace
<1>16. Ids(pending') \cap Ids(suspended') \subseteq raced
  BY <1>8, <1>11
<1>17. Ids(pending') \cap RevisitIds' \subseteq raced
  BY <1>9, <1>11
<1>18. Ids(suspended') \cap RevisitIds' \subseteq raced
  BY <1>3, <1>11 DEF SinglePlace
<1> QED BY <1>10, <1>12, <1>13, <1>14, <1>15, <1>16, <1>17, <1>18 DEF SinglePlace

\* So does the passing of time.
LEMMA TickSinglePlace ==
    ASSUME TypeOK, SinglePlace, SuspendedOnce, Tick
    PROVE  SinglePlace' /\ SuspendedOnce'
<1>1. ASSUME NEW es, \A e, f \in es : e.id = f.id => e = f \/ e.id \in raced
      PROVE  \A e, f \in Aged(es) : e.id = f.id => e = f \/ e.id \in raced
  BY <1>1 DEF Aged
<1>2. /\ hand' = hand /\ told' = told /\ raced' = raced
      /\ pending' = Aged(pending) /\ suspended' = Aged(suspended)
  BY DEF Tick
<1>3. /\ \A e, f \in pending' : e.id = f.id => e = f \/ e.id \in raced
      /\ \A e, f \in suspended' : e.id = f.id => e = f \/ e.id \in raced
  BY <1>1, <1>2 DEF SinglePlace
<1>4. SinglePlace'
  BY <1>2, <1>3, TickKeepsIds DEF SinglePlace, Queued
<1>5. SuspendedOnce'
  <2> SUFFICES ASSUME hand # NoOrder, told = "suspended", hand \notin raced,
                      NEW f \in suspended', f.id = hand, hand \in DOMAIN store'
               PROVE  f = StoredEntry(hand)'
    BY <1>2, TickKeepsIds DEF SuspendedOnce
  <2>1. PICK e \in suspended : f = [id |-> e.id, age |-> Older(e.age)]
    BY <1>2 DEF Aged
  <2>2. hand \in DOMAIN store /\ store'[hand] = Older(store[hand])
    BY DEF Tick
  <2>3. e = StoredEntry(hand)
    BY <2>1, <2>2 DEF SuspendedOnce
  <2>4. e.age = store[hand]
    BY <2>3, IdsFacts
  <2> QED BY <1>2, <2>1, <2>2, <2>4 DEF StoredEntry, WeightedOrder
<1> QED BY <1>4, <1>5

\* check_later, on an order without an entry: the queue grows by that entry.
LEMMA CheckLaterFacts ==
    ASSUME TypeOK, CheckLater, hand \in DOMAIN store
    PROVE  /\ DOMAIN revisit' = 1..(Len(revisit) + 1)
           /\ DOMAIN revisit = 1..Len(revisit)
           /\ Len(revisit) \in Nat
           /\ \A i \in DOMAIN revisit : revisit'[i] = revisit[i]
           /\ revisit'[Len(revisit) + 1] = WeightedOrder(hand, 0)
           /\ RevisitIds' = RevisitIds \cup {hand}
<1>1. revisit \in Seq(Entry) /\ WeightedOrder(hand, 0) \in Entry
  BY AgeFacts DEF TypeOK, WeightedOrder, Entry
<1>2. revisit' = Append(revisit, WeightedOrder(hand, 0))
  BY DEF CheckLater, CheckLaterHeld
<1>3. /\ DOMAIN revisit' = 1..(Len(revisit) + 1)
      /\ DOMAIN revisit = 1..Len(revisit)
      /\ Len(revisit) \in Nat
      /\ \A i \in DOMAIN revisit : revisit'[i] = revisit[i]
      /\ revisit'[Len(revisit) + 1] = WeightedOrder(hand, 0)
  BY <1>1, <1>2
<1>4. RevisitIds' = RevisitIds \cup {hand}
  <2>1. ASSUME NEW x \in RevisitIds' PROVE x \in RevisitIds \cup {hand}
    <3>1. PICK i \in DOMAIN revisit' : x = revisit'[i].id
      BY DEF RevisitIds
    <3>2. i \in DOMAIN revisit \/ i = Len(revisit) + 1
      BY <1>3
    <3> QED BY <1>3, <3>1, <3>2, IdsFacts DEF RevisitIds
  <2>2. RevisitIds \subseteq RevisitIds'
    BY <1>3 DEF RevisitIds
  <2>3. hand \in RevisitIds'
    <3>1. Len(revisit) + 1 \in DOMAIN revisit' /\ revisit'[Len(revisit) + 1].id = hand
      BY <1>3, IdsFacts
    <3> QED BY <3>1 DEF RevisitIds
  <2> QED BY <2>1, <2>2, <2>3
<1> QED BY <1>3, <1>4

\* SinglePlace with its strengthening holds in every reachable state.
LEMMA SinglePlaceInductive == Spec => [](SinglePlace /\ SuspendedOnce)
<1>1. Init => SinglePlace /\ SuspendedOnce
  BY DEF Init, SinglePlace, SuspendedOnce, Ids, RevisitIds, Queued
<1>2. TypeOK /\ SinglePlace /\ SuspendedOnce /\ [Next]_vars => SinglePlace' /\ SuspendedOnce'
  <2> SUFFICES ASSUME TypeOK, SinglePlace, SuspendedOnce, [Next]_vars
               PROVE  SinglePlace' /\ SuspendedOnce'
    OBVIOUS
  <2>1. ASSUME NEW o \in Orders, NEW lag \in 0..MaxLag, Put(o, lag)
        PROVE  SinglePlace' /\ SuspendedOnce'
    BY <2>1, PutSinglePlace
  <2>2. ASSUME NEW o \in Orders, RemoveOrder(o)
        PROVE  SinglePlace' /\ SuspendedOnce'
    BY <2>2 DEF RemoveOrder, StoreWithout, queues, SinglePlace, SuspendedOnce, Queued,
                RevisitIds, StoredEntry, WeightedOrder
  <2>3. CASE TryPopPending \/ TryPopSuspended
    <3>1. PICK n \in 0..Len(revisit) : PopStep(n)
      BY <2>3, TryPopIsPopStep
    <3> QED BY <3>1, PopSinglePlace DEF PopStep, SuspendedOnce
  <2>4. CASE Suspend
    <3>1. CASE hand \in DOMAIN store
      <4>1. suspended' = suspended \cup {StoredEntry(hand)} /\ told # "settled"
        BY <2>4, <3>1 DEF Suspend, SuspendHeld
      <4>2. /\ pending' = pending /\ revisit' = revisit /\ hand' = hand
            /\ raced' = raced /\ store' = store /\ told' = "suspended" /\ hand # NoOrder
        BY <2>4 DEF Suspend, SuspendHeld, history
      <4>3. hand \notin raced =>
              /\ hand \notin Ids(pending) /\ hand \notin RevisitIds
              /\ \A e \in suspended : e.id = hand => e = StoredEntry(hand)
        <5>1. CASE told = "nothing"
          BY <4>2, <5>1, IdsFacts DEF SinglePlace, Queued
        <5>2. CASE told = "suspended"
          BY <3>1, <4>2, <5>2 DEF SuspendedOnce
        <5> QED BY <4>1, <5>1, <5>2 DEF TypeOK, Reports
      <4>4. Ids(suspended') = Ids(suspended) \cup {hand}
        BY <4>1, IdsFacts DEF Ids
      <4>5. \A e, f \in suspended' : e.id = f.id => e = f \/ e.id \in raced
        BY <4>1, <4>3, IdsFacts DEF SinglePlace
      <4>6. SinglePlace'
        BY <4>2, <4>3, <4>4, <4>5 DEF SinglePlace, RevisitIds
      <4>7. SuspendedOnce'
        BY <4>1, <4>2, <4>3 DEF SuspendedOnce, RevisitIds, StoredEntry
      <4> QED BY <4>6, <4>7
    <3>2. CASE hand \notin DOMAIN store
      <4>1. /\ suspended' = suspended /\ pending' = pending /\ revisit' = revisit
            /\ hand' = hand /\ raced' = raced /\ store' = store /\ told' = "suspended"
            /\ hand # NoOrder /\ told # "settled"
        BY <2>4, <3>2 DEF Suspend, SuspendHeld, history
      <4>2. SinglePlace'
        BY <4>1 DEF SinglePlace, Queued, RevisitIds
      <4>3. told = "nothing" \/ told = "suspended"
        BY <4>1 DEF TypeOK, Reports
      <4>4. SuspendedOnce'
        BY <3>2, <4>1, <4>3 DEF SinglePlace, SuspendedOnce, Queued, RevisitIds
      <4> QED BY <4>2, <4>4
    <3> QED BY <3>1, <3>2
  <2>5. CASE CheckLater
    <3>1. /\ suspended' = suspended /\ pending' = pending /\ hand' = hand
          /\ raced' = raced /\ store' = store /\ told' = "settled"
          /\ hand # NoOrder /\ told = "nothing"
      BY <2>5 DEF CheckLater, CheckLaterHeld, history
    <3>2. CASE hand \in DOMAIN store
      <4>1. hand \notin raced => ~Queued(hand)
        BY <3>1 DEF SinglePlace
      <4>2. \A i, j \in DOMAIN revisit' :
               revisit'[i].id = revisit'[j].id => i = j \/ revisit'[i].id \in raced
        <5> SUFFICES ASSUME NEW i \in DOMAIN revisit', NEW j \in DOMAIN revisit',
                            revisit'[i].id = revisit'[j].id, i # j
                     PROVE  revisit'[i].id \in raced
          OBVIOUS
        <5>1. (i \in DOMAIN revisit \/ i = Len(revisit) + 1)
              /\ (j \in DOMAIN revisit \/ j = Len(revisit) + 1)
          BY <2>5, <3>2, CheckLaterFacts
        <5>2. CASE i \in DOMAIN revisit /\ j \in DOMAIN revisit
          BY <2>5, <3>2, <5>2, CheckLaterFacts DEF SinglePlace
        <5>3. CASE i = Len(revisit) + 1
          <6>1. revisit'[i].id = hand /\ j \in DOMAIN revisit /\ revisit[j].id = hand
            BY <2>5, <3>2, <5>1, <5>3, CheckLaterFacts, IdsFacts
          <6> QED BY <4>1, <6>1 DEF Queued, RevisitIds
        <5>4. CASE j = Len(revisit) + 1
          <6>1. revisit'[j].id = hand /\ i \in DOMAIN revisit /\ revisit[i].id = hand
            BY <2>5, <3>2, <5>1, <5>4, CheckLaterFacts, IdsFacts
          <6> QED BY <4>1, <6>1 DEF Queued, RevisitIds
        <5> QED BY <5>1, <5>2, <5>3, <5>4
      <4>3. SinglePlace'
        BY <2>5, <3>1, <3>2, <4>1, <4>2, CheckLaterFacts DEF SinglePlace, Queued
      <4> QED BY <3>1, <4>3 DEF SuspendedOnce
    <3>3. CASE hand \notin DOMAIN store
      <4>1. revisit' = revisit
        BY <2>5, <3>3 DEF CheckLater, CheckLaterHeld
      <4> QED BY <3>1, <4>1 DEF SinglePlace, SuspendedOnce, Queued, RevisitIds
    <3> QED BY <3>2, <3>3
  <2>6. CASE Recharge
    <3>1. /\ suspended' = suspended /\ revisit' = revisit /\ hand' = hand
          /\ raced' = raced /\ store' = store /\ told' = "settled"
          /\ hand # NoOrder /\ told = "nothing"
      BY <2>6 DEF Recharge, RechargeHeld, history
    <3>2. CASE hand \in DOMAIN store
      <4>1. hand \notin raced => ~Queued(hand)
        BY <3>1 DEF SinglePlace
      <4>2. pending' = pending \cup {StoredEntry(hand)}
        BY <2>6, <3>2 DEF Recharge, RechargeHeld
      <4>3. Ids(pending') = Ids(pending) \cup {hand}
        BY <4>2, IdsFacts DEF Ids
      <4>4. \A e, f \in pending' : e.id = f.id => e = f \/ e.id \in raced
        BY <4>1, <4>2, IdsFacts DEF SinglePlace, Queued
      <4>5. SinglePlace'
        BY <3>1, <4>1, <4>3, <4>4 DEF SinglePlace, Queued, RevisitIds
      <4> QED BY <3>1, <4>5 DEF SuspendedOnce
    <3>3. CASE hand \notin DOMAIN store
      <4>1. pending' = pending
        BY <2>6, <3>3 DEF Recharge, RechargeHeld
      <4> QED BY <3>1, <4>1 DEF SinglePlace, SuspendedOnce, Queued, RevisitIds
    <3> QED BY <3>2, <3>3
  <2>7. CASE Discard
    BY <2>7 DEF Discard, RemoveHeld, queues, SinglePlace, SuspendedOnce, Queued, RevisitIds
  <2>8. CASE Return
    BY <2>8 DEF Return, queues, SinglePlace, SuspendedOnce, Queued, RevisitIds
  <2>9. CASE Restart
    <3>1. \A e, f \in pending' : e.id = f.id => e = f
      BY <2>9, IdsFacts DEF Restart
    <3>2. Ids(suspended') = {} /\ RevisitIds' = {} /\ DOMAIN revisit' = {}
      BY <2>9 DEF Restart, Ids, RevisitIds
    <3> QED BY <2>9, <3>1, <3>2 DEF Restart, SinglePlace, SuspendedOnce
  <2>10. CASE Tick
    BY <2>10, TickSinglePlace
  <2>11. CASE UNCHANGED vars
    BY <2>11 DEF vars, SinglePlace, SuspendedOnce, Queued, RevisitIds, StoredEntry
  <2> QED
    BY <2>1, <2>2, <2>3, <2>4, <2>5, <2>6, <2>7, <2>8, <2>9, <2>10, <2>11 DEF Next
<1> QED BY <1>1, <1>2, TypeCorrect, PTL DEF Spec

(***************************************************************************)
(* No order is queued twice, except after a put that raced with its        *)
(* execution: SinglePlace is an invariant.  The inductive invariant is     *)
(* SinglePlace /\ SuspendedOnce.                                           *)
(***************************************************************************)
THEOREM SinglePlaceInvariant == Spec => []SinglePlace
  BY SinglePlaceInductive, PTL

(***************************************************************************)
(* A submitted order is left alone for order_exec_time: the action         *)
(* property NoEarlyResubmit.  Only try_pop gives the executor an order;    *)
(* the entries that leave the revisit queue are due, and an entry that     *)
(* stays would be a second place of the order, which SinglePlace excludes. *)
(***************************************************************************)
THEOREM NoEarlyResubmitHolds == Spec => NoEarlyResubmit
<1> DEFINE Late == hand = NoOrder /\ hand' # NoOrder /\ hand' \notin raced =>
                     \A i \in DOMAIN revisit :
                        revisit[i].id = hand' => revisit[i].age > ExecTime
<1>1. TypeOK /\ SinglePlace /\ [Next]_vars => [Late]_vars
  <2> SUFFICES ASSUME TypeOK, SinglePlace, Next,
                      hand = NoOrder, hand' # NoOrder, hand' \notin raced
               PROVE  \A i \in DOMAIN revisit :
                         revisit[i].id = hand' => revisit[i].age > ExecTime
    BY DEF vars
  <2>1. TryPopPending \/ TryPopSuspended
    BY DEF Next, Put, RemoveOrder, Suspend, SuspendHeld, CheckLater, CheckLaterHeld,
           Recharge, RechargeHeld, Discard, RemoveHeld, Return, Restart, Tick
  <2>2. PICK n \in 0..Len(revisit) : PopStep(n)
    BY <2>1, TryPopIsPopStep
  <2>3. SinglePlace'
    BY <2>2, PopSinglePlace
  <2>4. hand' \notin RevisitIds'
    BY <2>2, <2>3 DEF SinglePlace, Queued, PopStep, history
  <2>5. /\ revisit \in Seq(Entry) /\ DOMAIN revisit = 1..Len(revisit)
        /\ Len(revisit) \in Nat
    BY DEF TypeOK
  <2>6. /\ Len(revisit') = Len(revisit) - n
        /\ DOMAIN revisit' = 1..(Len(revisit) - n)
        /\ \A i \in 1..(Len(revisit) - n) : revisit'[i] = revisit[n + i]
    <3>1. /\ revisit' \in Seq(Entry)
          /\ Len(revisit') = Len(revisit) - n
          /\ \A i \in 1..(Len(revisit) - n) : revisit'[i] = revisit[n + i]
      BY <2>2, <2>5, TailFacts DEF PopStep
    <3> QED BY <2>5, <3>1
  <2>7. ASSUME NEW i \in DOMAIN revisit, revisit[i].id = hand'
        PROVE  revisit[i].age > ExecTime
    <3>1. CASE i <= n
      BY <2>2, <2>5, <3>1 DEF PopStep, IsDuePrefix
    <3>2. CASE i > n
      <4>1. i - n \in 1..(Len(revisit) - n) /\ n + (i - n) = i
        BY <2>5, <3>2
      <4>2. hand' \in RevisitIds'
        BY <2>6, <2>7, <4>1 DEF RevisitIds
      <4> QED BY <2>4, <4>2
    <3> QED BY <2>5, <3>1, <3>2
  <2> QED BY <2>7
<1> QED BY <1>1, TypeCorrect, SinglePlaceInvariant, PTL DEF Spec, NoEarlyResubmit
-----------------------------------------------------------------------------
(***************************************************************************)
(* For NotEvictedEarly: no timestamp in the store or in a queue, stale     *)
(* entries included, is older than the first announcement of its order.    *)
(***************************************************************************)
Announced(es) == \A e \in es : e.id \in DOMAIN known /\ e.age <= known[e.id]

AgeBound ==
    /\ \A o \in DOMAIN store : o \in DOMAIN known /\ store[o] <= known[o]
    /\ Announced(pending)
    /\ Announced(suspended)
    /\ \A i \in DOMAIN revisit :
          revisit[i].id \in DOMAIN known /\ revisit[i].age <= known[revisit[i].id]

\* No entry is older than the first announcement of its order.
LEMMA AgeBoundInductive == Spec => []AgeBound
<1>1. Init => AgeBound
  BY DEF Init, AgeBound, Announced
<1>2. TypeOK /\ AgeBound /\ [Next]_vars => AgeBound'
  <2> SUFFICES ASSUME TypeOK, AgeBound, [Next]_vars
               PROVE  AgeBound'
    OBVIOUS
  <2>1. ASSUME NEW o \in Orders, NEW lag \in 0..MaxLag, Put(o, lag)
        PROVE  AgeBound'
    <3>1. lag \in Ages /\ lag \in Nat
      BY AgeFacts, BacklogAssumption
    <3>2. /\ o \in DOMAIN known' /\ lag <= known'[o]
          /\ \A x \in DOMAIN known : x \in DOMAIN known' /\ known[x] <= known'[x]
      <4>1. \A x \in DOMAIN known : known[x] \in Nat
        BY AgeFacts DEF TypeOK
      <4>2. CASE o \in DOMAIN known /\ known[o] >= lag
        BY <2>1, <3>1, <4>1, <4>2 DEF Put
      <4>3. CASE ~(o \in DOMAIN known /\ known[o] >= lag)
        BY <2>1, <3>1, <4>1, <4>3 DEF Put, StoreWith
      <4> QED BY <4>2, <4>3
    <3>3. \A x \in DOMAIN known : known[x] \in Nat /\ known'[x] \in Nat
      <4>1. \A x \in DOMAIN known' : known'[x] = lag \/ (x \in DOMAIN known /\ known'[x] = known[x])
        BY <2>1 DEF Put, StoreWith
      <4> QED BY <3>1, <3>2, <4>1, AgeFacts DEF TypeOK
    <3>4. ASSUME NEW x, NEW a \in Nat, x \in DOMAIN known, a <= known[x]
          PROVE  x \in DOMAIN known' /\ a <= known'[x]
      BY <3>2, <3>3, <3>4
    <3>5. \A x \in DOMAIN store' : x \in DOMAIN known' /\ store'[x] <= known'[x]
      <4> SUFFICES ASSUME NEW x \in DOMAIN store'
                   PROVE  x \in DOMAIN known' /\ store'[x] <= known'[x]
        OBVIOUS
      <4>1. \/ x \in DOMAIN store /\ store'[x] = store[x] /\ store[x] \in Nat
            \/ x = o /\ store'[x] = lag
        BY <2>1, AgeFacts DEF Put, StoreWith, TypeOK
      <4> QED BY <3>1, <3>2, <3>4, <4>1 DEF AgeBound
    <3>6. \A e \in Entry : e.id \in Orders /\ e.age \in Nat
      BY AgeFacts DEF Entry
    <3>7. Announced(pending)'
      <4>1. \A e \in pending' : e \in pending \/ (e.id = o /\ e.age = lag)
        BY <2>1, IdsFacts DEF Put
      <4> QED BY <3>1, <3>2, <3>4, <3>6, <4>1 DEF AgeBound, Announced, TypeOK
    <3>8. Announced(suspended)'
      BY <2>1, <3>4, <3>6, ForgetSuspendedFacts DEF Put, AgeBound, Announced, TypeOK
    <3>9. \A i \in DOMAIN revisit' :
             revisit'[i].id \in DOMAIN known' /\ revisit'[i].age <= known'[revisit'[i].id]
      <4>1. \A j \in DOMAIN revisit : revisit[j] \in Entry
        BY DEF TypeOK
      <4> QED BY <2>1, <3>4, <3>6, <4>1, ForgetRevisitFacts DEF Put, AgeBound
    <3> QED BY <3>5, <3>7, <3>8, <3>9 DEF AgeBound
  <2>2. ASSUME NEW o \in Orders, RemoveOrder(o)
        PROVE  AgeBound'
    BY <2>2 DEF RemoveOrder, StoreWithout, queues, AgeBound, Announced
  <2>3. CASE TryPopPending \/ TryPopSuspended
    <3>1. PICK n \in 0..Len(revisit) : PopStep(n)
      BY <2>3, TryPopIsPopStep
    <3>2. Announced(Revived(n))
      BY RevivedFacts DEF AgeBound, Announced
    <3>3. Announced(pending)' /\ Announced(suspended)'
      BY <3>1, <3>2 DEF PopStep, AgeBound, Announced, history
    <3>4. \A o \in DOMAIN store' : o \in DOMAIN known' /\ store'[o] <= known'[o]
      <4>1. \A o \in DOMAIN store' : o \in DOMAIN store /\ store'[o] = store[o]
        BY <3>1 DEF PopStep
      <4> QED BY <3>1, <4>1 DEF PopStep, AgeBound, history
    <3>5. \A i \in DOMAIN revisit' : \E j \in DOMAIN revisit : revisit'[i] = revisit[j]
      <4>1. revisit \in Seq(Entry) /\ DOMAIN revisit = 1..Len(revisit) /\ Len(revisit) \in Nat
        BY DEF TypeOK
      <4>2. /\ revisit' \in Seq(Entry)
            /\ Len(revisit') = Len(revisit) - n
            /\ \A i \in 1..(Len(revisit) - n) : revisit'[i] = revisit[n + i]
        BY <3>1, <4>1, TailFacts DEF PopStep
      <4>3. \A i \in 1..(Len(revisit) - n) : n + i \in 1..Len(revisit)
        BY <4>1
      <4>4. DOMAIN revisit' = 1..(Len(revisit) - n)
        BY <4>2
      <4> QED BY <4>1, <4>2, <4>3, <4>4
    <3> QED BY <3>1, <3>3, <3>4, <3>5 DEF PopStep, AgeBound, history
  <2>4. CASE Suspend
    BY <2>4, IdsFacts DEF Suspend, SuspendHeld, AgeBound, Announced, history
  <2>5. CASE CheckLater
    <3>1. \A o \in DOMAIN store : o \in DOMAIN known /\ 0 <= known[o]
      BY AgeFacts DEF AgeBound, TypeOK
    <3>2. \A i \in DOMAIN revisit' :
             revisit'[i].id \in DOMAIN known /\ revisit'[i].age <= known[revisit'[i].id]
      <4>1. CASE hand \in DOMAIN store
        <5>1. \A i \in DOMAIN revisit' : i \in DOMAIN revisit \/ i = Len(revisit) + 1
          BY <2>5, <4>1, CheckLaterFacts
        <5> QED BY <2>5, <3>1, <4>1, <5>1, CheckLaterFacts, IdsFacts DEF AgeBound
      <4>2. CASE hand \notin DOMAIN store
        BY <2>5, <4>2 DEF CheckLater, CheckLaterHeld, AgeBound
      <4> QED BY <4>1, <4>2
    <3> QED BY <2>5, <3>2 DEF CheckLater, CheckLaterHeld, AgeBound, Announced, history
  <2>6. CASE Recharge
    BY <2>6, IdsFacts DEF Recharge, RechargeHeld, AgeBound, Announced, history
  <2>7. CASE Discard
    BY <2>7 DEF Discard, RemoveHeld, StoreWithout, queues, AgeBound, Announced
  <2>8. CASE Return
    BY <2>8 DEF Return, queues, AgeBound, Announced
  <2>9. CASE Restart
    BY <2>9, IdsFacts DEF Restart, AgeBound, Announced
  <2>10. CASE Tick
    <3>1. \A o \in DOMAIN known : o \in DOMAIN known' /\ known'[o] = Older(known[o])
                                  /\ known[o] \in Ages
      BY <2>10 DEF Tick, TypeOK
    <3>2. \A o \in DOMAIN store' : o \in DOMAIN known' /\ store'[o] <= known'[o]
      BY <2>10, <3>1, AgeFacts DEF Tick, AgeBound, TypeOK
    <3>3. ASSUME NEW es, es \subseteq Entry, Announced(es)
          PROVE  \A e \in Aged(es) : e.id \in DOMAIN known' /\ e.age <= known'[e.id]
      <4> SUFFICES ASSUME NEW e \in es
                   PROVE  e.id \in DOMAIN known' /\ Older(e.age) <= known'[e.id]
        BY DEF Aged
      <4>1. e.age \in Ages /\ e.id \in DOMAIN known /\ e.age <= known[e.id]
        BY <3>3 DEF Entry, Announced
      <4> QED BY <3>1, <4>1, AgeFacts
    <3>4. Announced(pending)' /\ Announced(suspended)'
      BY <2>10, <3>3 DEF Tick, Announced, AgeBound, TypeOK
    <3>5. \A i \in DOMAIN revisit' :
             revisit'[i].id \in DOMAIN known' /\ revisit'[i].age <= known'[revisit'[i].id]
      <4> SUFFICES ASSUME NEW i \in DOMAIN revisit
                   PROVE  revisit[i].id \in DOMAIN known'
                          /\ Older(revisit[i].age) <= known'[revisit[i].id]
        BY <2>10 DEF Tick
      <4>1. revisit[i] \in Entry
        BY DEF TypeOK
      <4>2. revisit[i].age \in Ages /\ revisit[i].id \in DOMAIN known
            /\ revisit[i].age <= known[revisit[i].id]
        BY <4>1 DEF Entry, AgeBound
      <4> QED BY <3>1, <4>2, AgeFacts
    <3> QED BY <3>2, <3>4, <3>5 DEF AgeBound
  <2>11. CASE UNCHANGED vars
    BY <2>11 DEF vars, AgeBound, Announced
  <2> QED
    BY <2>1, <2>2, <2>3, <2>4, <2>5, <2>6, <2>7, <2>8, <2>9, <2>10, <2>11 DEF Next
<1> QED BY <1>1, <1>2, TypeCorrect, PTL DEF Spec

(***************************************************************************)
(* An order leaves the store only by remove, or after its whole lifespan:  *)
(* the action property NotEvictedEarly.  Eviction is decided by the age of *)
(* a queue entry, which AgeBound compares with the order's announcement.   *)
(***************************************************************************)
THEOREM NotEvictedEarlyHolds == Spec => NotEvictedEarly
<1> DEFINE Due == \A o \in DOMAIN store :
                    \/ o \in DOMAIN store'
                    \/ RemoveOrder(o)
                    \/ hand = o /\ Discard
                    \/ known[o] > Lifespan
<1>1. TypeOK /\ AgeBound /\ [Next]_vars => [Due]_vars
  <2> SUFFICES ASSUME TypeOK, AgeBound, Next, NEW o \in DOMAIN store, o \notin DOMAIN store',
                      ~RemoveOrder(o), ~(hand = o /\ Discard)
               PROVE  known[o] > Lifespan
    BY DEF vars
  <2>1. ASSUME NEW x \in Orders, NEW lag \in 0..MaxLag, Put(x, lag)
        PROVE  FALSE
    BY <2>1 DEF Put, StoreWith
  <2>2. ASSUME NEW x \in Orders, RemoveOrder(x)
        PROVE  FALSE
    BY <2>2 DEF RemoveOrder, StoreWithout
  <2>3. ASSUME Discard
        PROVE  FALSE
    BY <2>3 DEF Discard, RemoveHeld, StoreWithout
  <2>4. TryPopPending \/ TryPopSuspended
    BY <2>1, <2>2, <2>3 DEF Next, Suspend, SuspendHeld, CheckLater, CheckLaterHeld,
                            Recharge, RechargeHeld, Return, Restart, Tick
  <2>5. PICK n \in 0..Len(revisit) : PopStep(n)
    BY <2>4, TryPopIsPopStep
  <2>6. ASSUME NEW a \in Nat, o \in DOMAIN known, a <= known[o], a > Lifespan
        PROVE  known[o] > Lifespan
    BY <2>6, AgeFacts, BacklogAssumption DEF TypeOK
  <2>7. CASE o \in Outlived(n)
    <3>1. PICK i \in 1..n : revisit[i].id = o /\ Expired(revisit[i])
      BY <2>7 DEF Outlived
    <3>2. i \in DOMAIN revisit /\ revisit[i] \in Entry
      BY DEF TypeOK
    <3>3. revisit[i].age \in Nat
      BY <3>2, AgeFacts DEF Entry
    <3> QED BY <2>6, <3>1, <3>2, <3>3 DEF AgeBound, Expired
  <2>8. CASE \E e \in pending \cup Revived(n) \cup suspended : e.id = o /\ Expired(e)
    <3>1. PICK e \in pending \cup Revived(n) \cup suspended : e.id = o /\ Expired(e)
      BY <2>8
    <3>2. e \in Entry
      BY <3>1, RevivedFacts DEF TypeOK
    <3>3. e.age \in Nat
      BY <3>2, AgeFacts DEF Entry
    <3>4. o \in DOMAIN known /\ e.age <= known[o]
      BY <3>1, RevivedFacts DEF AgeBound, Announced
    <3> QED BY <2>6, <3>1, <3>3, <3>4 DEF Expired
  <2> QED BY <2>5, <2>7, <2>8 DEF PopStep
<1> QED BY <1>1, TypeCorrect, AgeBoundInductive, PTL DEF Spec, NotEvictedEarly
-----------------------------------------------------------------------------
(***************************************************************************)
(* The executor of LmExecutor keeps to the protocol of Backlog.            *)
(***************************************************************************)
\* A list of calls after whose removal of the order nothing follows.
RemoveLast(s) ==
    /\ s \in Seq(Work)
    /\ \A i \in DOMAIN s : s[i] = "remove" => i = Len(s)

(***************************************************************************)
(* What the executor's place in try_execute_next says of its reports.  The *)
(* last conjunct is the point of the order in which generate_invalidations *)
(* lists its results: nothing follows the removal of the order.            *)
(***************************************************************************)
Protocol ==
    /\ kind \in Kinds
    /\ step # "idle" => hand # NoOrder
    /\ step \in {"popped", "running", "submitting"} => told = "nothing"
    /\ step = "invalidating" =>
          /\ todo # <<>> => told # "settled"
          /\ RemoveLast(todo)

\* Calls that do not remove the order may come before such a list.
LEMMA RemoveLastConcat ==
    ASSUME NEW s \in Seq(Work \ {"remove"}), NEW t, RemoveLast(t)
    PROVE  RemoveLast(s \o t)
<1>1. /\ s \in Seq(Work) /\ t \in Seq(Work)
      /\ Len(s) \in Nat /\ Len(t) \in Nat
      /\ DOMAIN s = 1..Len(s) /\ DOMAIN t = 1..Len(t)
      /\ \A i \in DOMAIN s : s[i] # "remove"
      /\ \A i \in DOMAIN t : t[i] = "remove" => i = Len(t)
  <2>1. s \in Seq(Work)
    <3>1. Work \ {"remove"} \subseteq Work
      OBVIOUS
    <3> QED BY <3>1
  <2>2. \A i \in DOMAIN s : s[i] \in Work \ {"remove"}
    OBVIOUS
  <2> QED BY <2>1, <2>2 DEF RemoveLast
<1>2. /\ s \o t \in Seq(Work)
      /\ Len(s \o t) = Len(s) + Len(t)
      /\ DOMAIN (s \o t) = 1..(Len(s) + Len(t))
      /\ \A i \in 1..(Len(s) + Len(t)) :
            (s \o t)[i] = IF i <= Len(s) THEN s[i] ELSE t[i - Len(s)]
  BY <1>1
<1>3. ASSUME NEW i \in 1..(Len(s) + Len(t)), (s \o t)[i] = "remove"
      PROVE  i = Len(s) + Len(t)
  <2>1. ~(i <= Len(s))
    BY <1>1, <1>2, <1>3
  <2>2. i - Len(s) \in 1..Len(t) /\ t[i - Len(s)] = "remove"
    BY <1>1, <1>2, <1>3, <2>1
  <2> QED BY <1>1, <2>2
<1> QED BY <1>2, <1>3 DEF RemoveLast

\* The list of calls that the executor is left with after "Missing inputs".
LEMMA RemoveComesLast ==
    ASSUME NEW k \in {"deposit", "redeem", "compound"}, NEW ms
    PROVE  RemoveLast(Invalidations(k, ms))
<1> DEFINE P == If(0 \in ms, <<"pool", "suspend">>)
           B == If(MissingBundles(k, ms) # {}, <<"bundles">>)
           W == Work \ {"remove"}
<1>1. P \in Seq(W) /\ B \in Seq(W) /\ If(1 \in ms, <<"bundles">>) \in Seq(W)
      /\ <<"funding", "suspend">> \in Seq(W)
  <2>1. "pool" \in W /\ "suspend" \in W /\ "bundles" \in W /\ "funding" \in W
    BY DEF Work
  <2> HIDE DEF W
  <2> QED BY <2>1 DEF If
<1>2. RemoveLast(<<>>) /\ RemoveLast(<<"remove">>) /\ RemoveLast(<<"bundles">>)
  BY DEF RemoveLast, Work
<1>3. \A c : RemoveLast(If(c, <<"remove">>)) /\ RemoveLast(If(c, <<"bundles">>))
  BY <1>2 DEF If
<1>4. CASE k = "deposit"
  <2>1. Invalidations(k, ms) = P \o If(1 \in ms, <<"remove">>)
    BY <1>4 DEF Invalidations
  <2> HIDE DEF P, W
  <2> QED BY <1>1, <1>3, <2>1, RemoveLastConcat DEF W
<1>5. CASE k = "redeem"
  <2>1. Invalidations(k, ms) = P \o (If(1 \in ms, <<"bundles">>) \o If(2 \in ms, <<"remove">>))
    BY <1>5 DEF Invalidations
  <2> HIDE DEF P
  <2>2. RemoveLast(If(1 \in ms, <<"bundles">>) \o If(2 \in ms, <<"remove">>))
    BY <1>1, <1>3, RemoveLastConcat
  <2> QED BY <1>1, <2>1, <2>2, RemoveLastConcat
<1>6. CASE k = "compound"
  <2>1. Invalidations(k, ms) = P \o (<<"funding", "suspend">> \o B)
    BY <1>6 DEF Invalidations
  <2>2. RemoveLast(<<"funding", "suspend">> \o B)
    BY <1>1, <1>3, RemoveLastConcat
  <2> HIDE DEF P, B
  <2> QED BY <1>1, <2>1, <2>2, RemoveLastConcat
<1> QED BY <1>4, <1>5, <1>6

\* An execution step is a step of the backlog's specification, or does not
\* concern the backlog.
LEMMA StepRefines ==
    ASSUME Protocol, [LmNext]_lmVars
    PROVE  [Next]_vars
<1>1. CASE Pop
  BY <1>1 DEF Pop, Next
<1>2. CASE PoolFound \/ NothingToRunWith \/ RunOk \/ SignFails \/ ScriptsDontPass
           \/ Unhandled \/ MissingInputs \/ Invalidated
  BY <1>2 DEF PoolFound, NothingToRunWith, RunOk, SignFails, ScriptsDontPass,
              Unhandled, MissingInputs, Invalidated
<1>3. CASE NoPool \/ RunNonFatal \/ RunFatal \/ Accepted \/ DoubleSpend
  BY <1>3 DEF NoPool, RunNonFatal, RunFatal, Accepted, DoubleSpend, Protocol,
              Suspend, CheckLater, Discard, Next
<1>4. CASE Invalidate
  <2>1. hand # NoOrder /\ told # "settled"
    BY <1>4 DEF Invalidate, Protocol
  <2>2. UNCHANGED vars \/ SuspendHeld \/ RemoveHeld
    BY <1>4 DEF Invalidate
  <2> QED BY <2>1, <2>2 DEF Suspend, Discard, Next
<1>5. CASE Finish
  BY <1>5 DEF Finish, Next
<1>6. CASE Reboot
  BY <1>6 DEF Reboot, Next
<1>7. CASE Others
  BY <1>7 DEF Others, Next
<1>8. CASE UNCHANGED lmVars
  BY <1>8 DEF lmVars
<1> QED BY <1>1, <1>2, <1>3, <1>4, <1>5, <1>6, <1>7, <1>8 DEF LmNext

\* Every step of try_execute_next, and of the streams around it, keeps Protocol.
LEMMA ProtocolPreserved ==
    ASSUME TypeOK, Protocol, [LmNext]_lmVars
    PROVE  Protocol'
<1>1. CASE Pop
  BY <1>1 DEF Pop, AfterPop, Protocol, exec, TryPopPending, TryPopSuspended
<1>2. CASE PoolFound \/ NothingToRunWith \/ RunOk \/ SignFails \/ ScriptsDontPass
           \/ Unhandled \/ Invalidated
  BY <1>2 DEF PoolFound, NothingToRunWith, RunOk, SignFails, ScriptsDontPass,
              Unhandled, Invalidated, Protocol, exec, vars
<1>3. CASE NoPool \/ RunNonFatal \/ RunFatal \/ Accepted \/ DoubleSpend
  BY <1>3 DEF NoPool, RunNonFatal, RunFatal, Accepted, DoubleSpend, Protocol,
              SuspendHeld, CheckLaterHeld, RemoveHeld, exec
<1>4. CASE MissingInputs
  <2>1. PICK ms : todo' = Invalidations(kind[hand], ms)
    BY <1>4 DEF MissingInputs
  <2>2. kind[hand] \in {"deposit", "redeem", "compound"}
    BY <1>4, ExecutorAssumption DEF MissingInputs, Protocol, TypeOK
  <2>3. RemoveLast(todo')
    BY <2>1, <2>2, RemoveComesLast
  <2> QED BY <1>4, <2>3 DEF MissingInputs, Protocol, vars
<1>5. CASE Invalidate
  <2>1. /\ step = "invalidating" /\ step' = step /\ kind' = kind
        /\ todo # <<>> /\ todo' = Tail(todo)
        /\ todo \in Seq(Work) /\ hand # NoOrder /\ told # "settled"
        /\ \A i \in DOMAIN todo : todo[i] = "remove" => i = Len(todo)
        /\ kind \in Kinds
    BY <1>5 DEF Invalidate, Protocol, RemoveLast
  <2>2. hand' = hand
    BY <1>5 DEF Invalidate, vars, SuspendHeld, RemoveHeld
  <2>3. /\ todo' \in Seq(Work) /\ DOMAIN todo' = 1..Len(todo') /\ Len(todo') = Len(todo) - 1
        /\ \A i \in DOMAIN todo' : todo'[i] = todo[i + 1]
        /\ DOMAIN todo = 1..Len(todo) /\ Len(todo) \in Nat \ {0}
    BY <2>1
  <2>4. \A i \in DOMAIN todo' : todo'[i] = "remove" => i = Len(todo')
    BY <2>1, <2>3
  <2>5. ASSUME todo' # <<>> PROVE told' # "settled"
    <3>1. Len(todo) # 1
      BY <2>3, <2>5, EmptySeq
    <3>2. Head(todo) # "remove"
      BY <2>1, <2>3, <3>1
    <3> QED BY <1>5, <2>1, <3>2 DEF Invalidate, vars, SuspendHeld
  <2> QED BY <2>1, <2>2, <2>3, <2>4, <2>5 DEF Protocol, RemoveLast
<1>6. CASE Finish \/ Reboot
  BY <1>6 DEF Finish, Reboot, NoExecution, Protocol
<1>7. CASE Others
  BY <1>7 DEF Others, Put, RemoveOrder, Tick, Protocol, exec
<1>8. CASE UNCHANGED lmVars
  BY <1>8 DEF lmVars, vars, Protocol
<1> QED BY <1>1, <1>2, <1>3, <1>4, <1>5, <1>6, <1>7, <1>8 DEF LmNext

(***************************************************************************)
(* The executor implements the client side of the backlog: every behaviour *)
(* of try_execute_next among the other streams is a behaviour of Backlog,  *)
(* for any number of orders, funding boxes and answers of the node.        *)
(***************************************************************************)
THEOREM ExecutorImplementsBacklog == LmSpec => ImplementsBacklog
<1> DEFINE Inv == TypeOK /\ Protocol
<1>1. LmInit => Inv
  <2>1. Init => TypeOK
    BY BacklogAssumption DEF Init, TypeOK, Reports
  <2> QED BY <2>1 DEF LmInit, Protocol
<1>2. Inv /\ [LmNext]_lmVars => Inv' /\ [Next]_vars
  BY StepRefines, ProtocolPreserved, TypePreserved
<1>3. LmInit => Init
  BY DEF LmInit
<1> QED BY <1>1, <1>2, <1>3, PTL DEF LmSpec, Spec, ImplementsBacklog

(***************************************************************************)
(* The backlog does not lose an order while this executor is its client:   *)
(* a stored order is queued, or held and not reported on, or the executor  *)
(* returned from it on a path that reports nothing.                        *)
(***************************************************************************)
THEOREM ExecutorAccounted == LmSpec => []Accounted
  BY ExecutorImplementsBacklog, AccountedInvariant, PTL DEF ImplementsBacklog
-----------------------------------------------------------------------------
(***************************************************************************)
(* The invalidations after "Missing inputs".                               *)
(***************************************************************************)
\* The boxes that one of the calls makes a repository drop, for an order of kind
\* k of whose transaction the inputs ms are missing.
Drops(w, k, ms) ==
    CASE w = "pool"    -> {<<"pool", PoolBox>>}
      [] w = "funding" -> {"funding"} \X InputsAt(MissingFunding(ms))
      [] w = "bundles" -> {"bundle"} \X InputsAt(MissingBundles(k, ms))
      [] w = "remove"  -> {<<"order", OrderBox>>}
      [] OTHER         -> {}

\* What the calls of s drop together.
DroppedBy(s, k, ms) == UNION {Drops(s[i], k, ms) : i \in DOMAIN s}

\* The missing boxes, each with the repository it belongs to.
Reported(ms) == {<<x.role, x>> : x \in InputsAt(ms)}

(***************************************************************************)
(* The transaction is one that try_run builds, and while the invalidations *)
(* run, what was dropped and what the calls to come will drop is together  *)
(* what the node reported.                                                 *)
(***************************************************************************)
ExecInv ==
    /\ LmTypeOK
    /\ Protocol
    /\ step \in {"submitting", "invalidating"} =>
          \E nf \in Fundings, nb \in 1..2 : inputs = TxInputs(kind[hand], nf, nb)
    /\ step \in {"idle", "popped", "running", "submitting"} => lost = {}
    /\ step = "invalidating" =>
          /\ missing \subseteq {i - 1 : i \in DOMAIN inputs}
          /\ lost \cup DroppedBy(todo, kind[hand], missing) = Reported(missing)

LEMMA ConcatFacts ==
    ASSUME NEW S, NEW s \in Seq(S), NEW t \in Seq(S)
    PROVE  /\ s \o t \in Seq(S)
           /\ Len(s \o t) = Len(s) + Len(t)
           /\ DOMAIN (s \o t) = 1..(Len(s) + Len(t))
           /\ \A i \in 1..(Len(s) + Len(t)) :
                 (s \o t)[i] = IF i <= Len(s) THEN s[i] ELSE t[i - Len(s)]
  OBVIOUS

\* The calls of two lists drop what those of each drop.
LEMMA DroppedByConcat ==
    ASSUME NEW S, NEW s \in Seq(S), NEW t \in Seq(S), NEW k, NEW ms
    PROVE  DroppedBy(s \o t, k, ms) = DroppedBy(s, k, ms) \cup DroppedBy(t, k, ms)
<1> DEFINE n == Len(s)
           m == Len(t)
<1>1. /\ n \in Nat /\ m \in Nat /\ DOMAIN s = 1..n /\ DOMAIN t = 1..m
      /\ DOMAIN (s \o t) = 1..(n + m)
      /\ \A i \in 1..(n + m) : (s \o t)[i] = IF i <= n THEN s[i] ELSE t[i - n]
  OBVIOUS
<1> DEFINE u == s \o t
<1> HIDE DEF n, m, u
<1>2. ASSUME NEW i \in DOMAIN u
      PROVE  (\E j \in DOMAIN s : u[i] = s[j]) \/ (\E j \in DOMAIN t : u[i] = t[j])
  <2>1. CASE i <= n
    BY <1>1, <1>2, <2>1 DEF u
  <2>2. CASE ~(i <= n)
    <3>1. i - n \in 1..m
      BY <1>1, <1>2, <2>2 DEF u
    <3> QED BY <1>1, <1>2, <2>2, <3>1 DEF u
  <2> QED BY <2>1, <2>2
<1>3. ASSUME NEW j \in DOMAIN s
      PROVE  \E i \in DOMAIN u : u[i] = s[j]
  <2>1. j \in 1..(n + m) /\ j <= n
    BY <1>1, <1>3
  <2> QED BY <1>1, <2>1 DEF u
<1>4. ASSUME NEW j \in DOMAIN t
      PROVE  \E i \in DOMAIN u : u[i] = t[j]
  <2>1. n + j \in 1..(n + m) /\ ~(n + j <= n) /\ (n + j) - n = j
    BY <1>1, <1>4
  <2> QED BY <1>1, <2>1 DEF u
<1>5. DroppedBy(u, k, ms) = DroppedBy(s, k, ms) \cup DroppedBy(t, k, ms)
  BY <1>2, <1>3, <1>4 DEF DroppedBy
<1> QED BY <1>5 DEF u

\* No call, one call and two calls.
LEMMA DroppedByFew ==
    ASSUME NEW k, NEW ms, NEW v, NEW w
    PROVE  /\ DroppedBy(<<>>, k, ms) = {}
           /\ DroppedBy(<<v>>, k, ms) = Drops(v, k, ms)
           /\ DroppedBy(<<v, w>>, k, ms) = Drops(v, k, ms) \cup Drops(w, k, ms)
<1>1. DroppedBy(<<>>, k, ms) = {}
  BY DEF DroppedBy
<1>2. DroppedBy(<<v>>, k, ms) = Drops(v, k, ms)
  <2>1. DOMAIN <<v>> = {1} /\ <<v>>[1] = v
    OBVIOUS
  <2> QED BY <2>1 DEF DroppedBy
<1>3. DroppedBy(<<v, w>>, k, ms) = Drops(v, k, ms) \cup Drops(w, k, ms)
  <2>1. DOMAIN <<v, w>> = {1, 2} /\ <<v, w>>[1] = v /\ <<v, w>>[2] = w
    OBVIOUS
  <2> DEFINE s == <<v, w>>
  <2> HIDE DEF s
  <2>2. DroppedBy(s, k, ms) = Drops(v, k, ms) \cup Drops(w, k, ms)
    BY <2>1 DEF DroppedBy, s
  <2> QED BY <2>2 DEF s
<1> QED BY <1>1, <1>2, <1>3

\* NumFunding, of any list of boxes.
CountFunding(ins) == Cardinality({i \in DOMAIN ins : ins[i].role = "funding"})

\* The boxes of a compound transaction, and how many of them are funding boxes.
IsCompound(ins, nf, nb) ==
    /\ ins \in Seq(Box)
    /\ DOMAIN ins = 1..(1 + nf + nb)
    /\ ins[1] = PoolBox
    /\ \A i \in 1..nf : ins[i + 1].role = "funding"
    /\ \A i \in 1..nb : ins[i + nf + 1].role = "bundle"
    /\ CountFunding(ins) = nf

LEMMA CompoundInputs ==
    ASSUME NEW nf \in Nat \ {0}, NEW nb \in 1..2
    PROVE  IsCompound(TxInputs("compound", nf, nb), nf, nb)
<1> DEFINE ins == TxInputs("compound", nf, nb)
<1> DEFINE P == <<PoolBox>>
           F == FundingBoxes(nf)
           B == BundleBoxes(nb)
<1>1. P \in Seq(Box) /\ Len(P) = 1 /\ P[1] = PoolBox
  BY DEF Box, PoolBox, Roles
<1>2. F \in Seq(Box) /\ Len(F) = nf /\ \A i \in 1..nf : F[i] = [role |-> "funding", n |-> i]
  <2>1. \A i \in 1..nf : [role |-> "funding", n |-> i] \in Box
    BY DEF Box, Roles
  <2> QED BY <2>1 DEF FundingBoxes
<1>3. B \in Seq(Box) /\ Len(B) = nb /\ \A i \in 1..nb : B[i] = [role |-> "bundle", n |-> i]
  <2>1. \A i \in 1..nb : [role |-> "bundle", n |-> i] \in Box
    BY DEF Box, Roles
  <2> QED BY <2>1 DEF BundleBoxes
<1>4. ins = (P \o F) \o B
  BY DEF TxInputs
<1> HIDE DEF P, F, B, ins
<1> DEFINE G == P \o F
           f(i) == [role |-> "funding", n |-> i]
           b(i) == [role |-> "bundle", n |-> i]
<1>5a. \A i \in 1..nf : F[i] = f(i)
  BY <1>2
<1>5b. \A i \in 1..nb : B[i] = b(i)
  BY <1>3
<1>5c. \A i : f(i).role = "funding" /\ b(i).role = "bundle"
  OBVIOUS
<1> HIDE DEF f, b
<1>5. /\ G \in Seq(Box) /\ Len(G) = nf + 1 /\ G[1] = PoolBox
      /\ \A i \in 1..nf : G[i + 1] = f(i)
  <2>0. /\ G \in Seq(Box) /\ Len(G) = Len(P) + Len(F)
        /\ \A i \in 1..(Len(P) + Len(F)) : G[i] = IF i <= Len(P) THEN P[i] ELSE F[i - Len(P)]
    BY ONLY <1>1, <1>2, ConcatFacts
  <2> HIDE DEF G
  <2>1. /\ G \in Seq(Box) /\ Len(G) = 1 + nf
        /\ \A i \in 1..(1 + nf) : G[i] = IF i <= 1 THEN P[i] ELSE F[i - 1]
    BY ONLY <1>1, <1>2, <2>0
  <2>2. \A i \in 1..nf : i + 1 \in 1..(1 + nf) /\ ~(i + 1 <= 1) /\ (i + 1) - 1 = i
    OBVIOUS
  <2>3. G[1] = PoolBox
    BY <1>1, <2>1
  <2>4. \A i \in 1..nf : G[i + 1] = F[i]
    BY <2>1, <2>2
  <2>5. nf + 1 = 1 + nf
    OBVIOUS
  <2> QED BY ONLY <1>5a, <2>1, <2>3, <2>4, <2>5
<1> HIDE DEF G
<1>6. /\ ins \in Seq(Box) /\ DOMAIN ins = 1..(1 + nf + nb)
      /\ \A i \in 1..(1 + nf + nb) : ins[i] = IF i <= nf + 1 THEN G[i] ELSE B[i - (nf + 1)]
  <2>1. ins = G \o B
    BY <1>4 DEF G
  <2>2. /\ G \o B \in Seq(Box) /\ DOMAIN (G \o B) = 1..(Len(G) + Len(B))
        /\ \A i \in 1..(Len(G) + Len(B)) :
              (G \o B)[i] = IF i <= Len(G) THEN G[i] ELSE B[i - Len(G)]
    BY ONLY <1>3, <1>5, ConcatFacts
  <2>3. Len(G) + Len(B) = 1 + nf + nb /\ Len(G) = nf + 1
    BY <1>3, <1>5
  <2> QED BY ONLY <2>1, <2>2, <2>3
<1>7. ins[1] = PoolBox
  BY <1>5, <1>6
<1>8. ASSUME NEW i \in 1..nf
      PROVE  ins[i + 1] = f(i)
  <2>1. i + 1 \in 1..(1 + nf + nb) /\ i + 1 <= nf + 1
    OBVIOUS
  <2> QED BY <1>5, <1>6, <2>1
<1>9. ASSUME NEW i \in 1..nb
      PROVE  ins[i + nf + 1] = b(i)
  <2>1. i + nf + 1 \in 1..(1 + nf + nb) /\ ~(i + nf + 1 <= nf + 1) /\ (i + nf + 1) - (nf + 1) = i
    OBVIOUS
  <2> QED BY <1>5b, <1>6, <2>1
<1>10. CountFunding(ins) = nf
  <2>1. {i \in DOMAIN ins : ins[i].role = "funding"} = 2..(nf + 1)
    <3>1. ASSUME NEW i \in 2..(nf + 1)
          PROVE  i \in DOMAIN ins /\ ins[i].role = "funding"
      <4>1. i - 1 \in 1..nf /\ (i - 1) + 1 = i /\ i \in 1..(1 + nf + nb)
        OBVIOUS
      <4> QED BY <1>5c, <1>6, <1>8, <4>1
    <3>2. ASSUME NEW i \in DOMAIN ins, i \notin 2..(nf + 1)
          PROVE  ins[i].role # "funding"
      <4>0. i \in 1..(1 + nf + nb) /\ i \notin 2..(nf + 1)
        BY <1>6, <3>2
      <4>1. i = 1 \/ (i - nf - 1 \in 1..nb /\ (i - nf - 1) + nf + 1 = i)
        BY <4>0
      <4> QED BY <1>5c, <1>7, <1>9, <4>1 DEF PoolBox
    <3> QED BY <3>1, <3>2
  <2>2. Cardinality(2..(nf + 1)) = nf
    BY FS_Interval
  <2> QED BY <2>1, <2>2 DEF CountFunding
<1>11. IsCompound(ins, nf, nb)
  BY <1>5c, <1>6, <1>7, <1>8, <1>9, <1>10 DEF IsCompound
<1> QED BY <1>11 DEF ins

\* The boxes of the other two transactions.
LEMMA OrderInputs ==
    ASSUME NEW k, NEW nf, NEW nb, NEW ins, ins = TxInputs(k, nf, nb)
    PROVE  /\ k = "deposit" =>
                 /\ ins \in Seq(Box) /\ DOMAIN ins = 1..2
                 /\ ins[1] = PoolBox /\ ins[2] = OrderBox
           /\ k = "redeem" =>
                 /\ ins \in Seq(Box) /\ DOMAIN ins = 1..3
                 /\ ins[1] = PoolBox /\ ins[2] = [role |-> "bundle", n |-> 1]
                 /\ ins[3] = OrderBox
<1> DEFINE bb == [role |-> "bundle", n |-> 1]
<1>1. PoolBox \in Box /\ OrderBox \in Box /\ bb \in Box
  BY DEF PoolBox, OrderBox, Box, Roles
<1>2. BundleBoxes(1) = <<bb>>
  BY DEF BundleBoxes
<1> DEFINE d == <<PoolBox, OrderBox>>
           P == <<PoolBox>>
           B == <<bb>>
           O == <<OrderBox>>
<1>3. k = "deposit" => ins = d
  BY DEF TxInputs
<1>4. k = "redeem" => ins = (P \o B) \o O
  BY <1>2 DEF TxInputs
<1>5. d \in Seq(Box) /\ DOMAIN d = 1..2 /\ d[1] = PoolBox /\ d[2] = OrderBox
  BY ONLY <1>1
<1>6. /\ P \in Seq(Box) /\ B \in Seq(Box) /\ O \in Seq(Box)
      /\ Len(P) = 1 /\ Len(B) = 1 /\ Len(O) = 1
      /\ P[1] = PoolBox /\ B[1] = bb /\ O[1] = OrderBox
  BY ONLY <1>1
<1> HIDE DEF bb, d, P, B, O
<1> DEFINE Q == P \o B
           R == Q \o O
<1>7. Q \in Seq(Box) /\ Len(Q) = 2 /\ Q[1] = PoolBox /\ Q[2] = bb
  <2>1. /\ Q \in Seq(Box) /\ Len(Q) = Len(P) + Len(B)
        /\ \A i \in 1..(Len(P) + Len(B)) : Q[i] = IF i <= Len(P) THEN P[i] ELSE B[i - Len(P)]
    BY ONLY <1>6, ConcatFacts
  <2> HIDE DEF Q
  <2> QED BY ONLY <1>6, <2>1
<1> HIDE DEF Q
<1>8. R \in Seq(Box) /\ DOMAIN R = 1..3 /\ R[1] = PoolBox /\ R[2] = bb /\ R[3] = OrderBox
  <2>1. /\ R \in Seq(Box) /\ DOMAIN R = 1..(Len(Q) + Len(O))
        /\ \A i \in 1..(Len(Q) + Len(O)) : R[i] = IF i <= Len(Q) THEN Q[i] ELSE O[i - Len(Q)]
    BY ONLY <1>6, <1>7, ConcatFacts
  <2> HIDE DEF R
  <2> QED BY ONLY <1>6, <1>7, <2>1
<1> HIDE DEF R
<1>9. k = "redeem" => ins = R
  BY <1>4 DEF Q, R
<1> QED BY <1>3, <1>5, <1>8, <1>9 DEF bb

(***************************************************************************)
(* generate_invalidations names every missing input, and each for the      *)
(* repository that it belongs to.                                          *)
(***************************************************************************)
LEMMA InvalidationsDrop ==
    ASSUME NEW k \in {"deposit", "redeem", "compound"},
           NEW nf \in Nat \ {0}, NEW nb \in 1..2, inputs = TxInputs(k, nf, nb),
           NEW ms, ms \subseteq {i - 1 : i \in DOMAIN inputs}
    PROVE  DroppedBy(Invalidations(k, ms), k, ms) = Reported(ms)
<1> DEFINE P == If(0 \in ms, <<"pool", "suspend">>)
           O(i) == If(i \in ms, <<"remove">>)
           B1 == If(1 \in ms, <<"bundles">>)
           B2 == If(MissingBundles(k, ms) # {}, <<"bundles">>)
           FS == <<"funding", "suspend">>
<1>1. /\ P \in Seq(Work) /\ O(1) \in Seq(Work) /\ O(2) \in Seq(Work)
      /\ B1 \in Seq(Work) /\ B2 \in Seq(Work) /\ FS \in Seq(Work)
  <2>1. /\ <<"pool", "suspend">> \in Seq(Work) /\ FS \in Seq(Work) /\ <<>> \in Seq(Work)
        /\ <<"bundles">> \in Seq(Work) /\ <<"remove">> \in Seq(Work)
    BY DEF Work
  <2>2. P \in Seq(Work)
    BY <2>1 DEF If
  <2>3. O(1) \in Seq(Work)
    BY <2>1 DEF If
  <2>4. O(2) \in Seq(Work)
    BY <2>1 DEF If
  <2>5. B1 \in Seq(Work)
    BY <2>1 DEF If
  <2>6. B2 \in Seq(Work)
    BY <2>1 DEF If
  <2> QED BY <2>1, <2>2, <2>3, <2>4, <2>5, <2>6
<1>2. /\ Drops("suspend", k, ms) = {} /\ Drops("pool", k, ms) = {<<"pool", PoolBox>>}
      /\ Drops("remove", k, ms) = {<<"order", OrderBox>>}
      /\ Drops("bundles", k, ms) = {"bundle"} \X InputsAt(MissingBundles(k, ms))
      /\ Drops("funding", k, ms) = {"funding"} \X InputsAt(MissingFunding(ms))
  BY DEF Drops
<1>3. /\ DroppedBy(P, k, ms) = IF 0 \in ms THEN {<<"pool", PoolBox>>} ELSE {}
      /\ \A i : DroppedBy(O(i), k, ms) = IF i \in ms THEN {<<"order", OrderBox>>} ELSE {}
      /\ DroppedBy(B1, k, ms) =
            IF 1 \in ms THEN {"bundle"} \X InputsAt(MissingBundles(k, ms)) ELSE {}
      /\ DroppedBy(B2, k, ms) =
            IF MissingBundles(k, ms) # {} THEN {"bundle"} \X InputsAt(MissingBundles(k, ms)) ELSE {}
      /\ DroppedBy(FS, k, ms) = {"funding"} \X InputsAt(MissingFunding(ms))
  <2> DEFINE DB(q) == DroppedBy(q, k, ms)
             D(w) == Drops(w, k, ms)
  <2>1. DB(<<>>) = {}
    BY DroppedByFew
  <2>2. DB(<<"bundles">>) = D("bundles")
    BY DroppedByFew
  <2>3. DB(<<"remove">>) = D("remove")
    BY DroppedByFew
  <2>4. DB(<<"pool", "suspend">>) = D("pool") \cup D("suspend")
    BY DroppedByFew
  <2>5. DB(FS) = D("funding") \cup D("suspend")
    BY DroppedByFew
  <2> HIDE DEF DB
  <2>6. DB(P) = IF 0 \in ms THEN {<<"pool", PoolBox>>} ELSE {}
    BY <1>2, <2>1, <2>4 DEF If
  <2>7. \A i : DB(O(i)) = IF i \in ms THEN {<<"order", OrderBox>>} ELSE {}
    BY <1>2, <2>1, <2>3 DEF If
  <2>8. DB(B1) = IF 1 \in ms THEN {"bundle"} \X InputsAt(MissingBundles(k, ms)) ELSE {}
    BY <1>2, <2>1, <2>2 DEF If
  <2>9. DB(B2) = IF MissingBundles(k, ms) # {} THEN {"bundle"} \X InputsAt(MissingBundles(k, ms)) ELSE {}
    BY <1>2, <2>1, <2>2 DEF If
  <2>10. DB(FS) = {"funding"} \X InputsAt(MissingFunding(ms))
    BY <1>2, <2>5
  <2> QED BY <2>6, <2>7, <2>8, <2>9, <2>10 DEF DB
<1>4. PoolBox.role = "pool" /\ OrderBox.role = "order"
  BY DEF PoolBox, OrderBox
<1>5. CASE k = "deposit"
  <2>1. Invalidations(k, ms) = P \o O(1)
    BY <1>5 DEF Invalidations
  <2>2. DOMAIN inputs = 1..2 /\ inputs[1] = PoolBox /\ inputs[2] = OrderBox
    BY <1>5, OrderInputs
  <2> HIDE DEF P, O
  <2>3. DroppedBy(Invalidations(k, ms), k, ms) = DroppedBy(P, k, ms) \cup DroppedBy(O(1), k, ms)
    BY <1>1, <2>1, DroppedByConcat
  <2>4. \A i \in ms : i = 0 \/ i = 1
    BY <2>2
  <2>5. InputsAt(ms) = (IF 0 \in ms THEN {PoolBox} ELSE {}) \cup (IF 1 \in ms THEN {OrderBox} ELSE {})
    BY <2>2, <2>4 DEF InputsAt
  <2>6. Reported(ms) = (IF 0 \in ms THEN {<<"pool", PoolBox>>} ELSE {})
                          \cup (IF 1 \in ms THEN {<<"order", OrderBox>>} ELSE {})
    BY <1>4, <2>5 DEF Reported
  <2> QED BY <1>3, <2>3, <2>6
<1>6. CASE k = "redeem"
  <2> DEFINE bb == [role |-> "bundle", n |-> 1]
  <2>1. Invalidations(k, ms) = P \o (B1 \o O(2))
    BY <1>6 DEF Invalidations
  <2>2. /\ DOMAIN inputs = 1..3 /\ inputs[1] = PoolBox /\ inputs[2] = bb
        /\ inputs[3] = OrderBox
    BY <1>6, OrderInputs
  <2>3. bb.role = "bundle"
    OBVIOUS
  <2> HIDE DEF P, O, B1, bb
  <2>4. B1 \o O(2) \in Seq(Work)
    BY <1>1
  <2>5. DroppedBy(Invalidations(k, ms), k, ms) =
           DroppedBy(P, k, ms) \cup (DroppedBy(B1, k, ms) \cup DroppedBy(O(2), k, ms))
    <3>1. DroppedBy(B1 \o O(2), k, ms) = DroppedBy(B1, k, ms) \cup DroppedBy(O(2), k, ms)
      BY ONLY <1>1, DroppedByConcat
    <3> DEFINE q == B1 \o O(2)
    <3>0. P \in Seq(Work) /\ q \in Seq(Work)
      BY <1>1, <2>4
    <3> HIDE DEF q
    <3>2. DroppedBy(P \o q, k, ms) = DroppedBy(P, k, ms) \cup DroppedBy(q, k, ms)
      BY ONLY <3>0, DroppedByConcat
    <3> QED BY <2>1, <3>1, <3>2 DEF q
  <2>6. \A i \in ms : i = 0 \/ i = 1 \/ i = 2
    BY <2>2
  <2>7. 1 \in ms => InputsAt(MissingBundles(k, ms)) = {bb}
    BY <1>6, <2>2 DEF InputsAt, MissingBundles
  <2>8. InputsAt(ms) = (IF 0 \in ms THEN {PoolBox} ELSE {}) \cup (IF 1 \in ms THEN {bb} ELSE {})
                          \cup (IF 2 \in ms THEN {OrderBox} ELSE {})
    BY <2>2, <2>6 DEF InputsAt
  <2>9. Reported(ms) = (IF 0 \in ms THEN {<<"pool", PoolBox>>} ELSE {})
                          \cup (IF 1 \in ms THEN {<<"bundle", bb>>} ELSE {})
                          \cup (IF 2 \in ms THEN {<<"order", OrderBox>>} ELSE {})
    BY <1>4, <2>3, <2>8 DEF Reported
  <2>10. DroppedBy(B1, k, ms) = IF 1 \in ms THEN {<<"bundle", bb>>} ELSE {}
    <3>1. {"bundle"} \X {bb} = {<<"bundle", bb>>}
      OBVIOUS
    <3> QED BY <1>3, <2>7, <3>1
  <2> QED BY <1>3, <2>5, <2>9, <2>10
<1>7. CASE k = "compound"
  <2> DEFINE MF == MissingFunding(ms)
             MB == MissingBundles(k, ms)
  <2>1. Invalidations(k, ms) = P \o (FS \o B2)
    BY <1>7 DEF Invalidations
  <2>2. /\ DOMAIN inputs = 1..(1 + nf + nb) /\ inputs[1] = PoolBox /\ NumFunding = nf
        /\ \A i \in 1..nf : inputs[i + 1].role = "funding"
        /\ \A i \in 1..nb : inputs[i + nf + 1].role = "bundle"
    <3>1. inputs = TxInputs("compound", nf, nb)
      BY <1>7
    <3>2. IsCompound(TxInputs("compound", nf, nb), nf, nb)
      BY CompoundInputs
    <3>3. IsCompound(inputs, nf, nb)
      BY <3>1, <3>2
    <3>4. NumFunding = CountFunding(inputs)
      BY DEF NumFunding, CountFunding
    <3> QED BY <3>3, <3>4 DEF IsCompound
  <2> HIDE DEF P, B2, FS
  <2>3. FS \o B2 \in Seq(Work)
    BY <1>1
  <2>4. DroppedBy(Invalidations(k, ms), k, ms) =
           DroppedBy(P, k, ms) \cup (DroppedBy(FS, k, ms)
                                        \cup DroppedBy(B2, k, ms))
    <3>1. DroppedBy(FS \o B2, k, ms) = DroppedBy(FS, k, ms) \cup DroppedBy(B2, k, ms)
      BY ONLY <1>1, DroppedByConcat
    <3> DEFINE q == FS \o B2
    <3>0. P \in Seq(Work) /\ q \in Seq(Work)
      BY <1>1, <2>3
    <3> HIDE DEF q
    <3>2. DroppedBy(P \o q, k, ms) = DroppedBy(P, k, ms) \cup DroppedBy(q, k, ms)
      BY ONLY <3>0, DroppedByConcat
    <3> QED BY <2>1, <3>1, <3>2 DEF q
  <2>5. ms \subseteq 0..(nf + nb)
    BY <2>2
  <2>6. MF = {i \in ms : i \in 1..nf} /\ MB = {i \in ms : i > nf}
    BY <1>7, <2>2 DEF MissingFunding, MissingBundles
  <2>7. \A i \in ms : i = 0 \/ i \in MF \/ i \in MB
    BY <2>5, <2>6
  <2>8. \A i \in MF : i \in ms /\ inputs[i + 1].role = "funding"
    BY <2>2, <2>6
  <2>9. \A i \in MB : i \in ms /\ inputs[i + 1].role = "bundle"
    <3> SUFFICES ASSUME NEW i \in MB PROVE i \in ms /\ inputs[i + 1].role = "bundle"
      OBVIOUS
    <3>1. i \in ms /\ i > nf /\ i \in 0..(nf + nb)
      BY <2>5, <2>6
    <3>2. i - nf \in 1..nb /\ (i - nf) + nf + 1 = i + 1
      BY <3>1
    <3> QED BY <2>2, <3>1, <3>2
  <2> HIDE DEF MF, MB
  <2>10. DroppedBy(B2, k, ms) = {<<"bundle", inputs[i + 1]>> : i \in MB}
    <3>1. DroppedBy(B2, k, ms) = IF MB # {} THEN {"bundle"} \X InputsAt(MB) ELSE {}
      BY <1>3 DEF MB
    <3> QED BY <3>1 DEF InputsAt
  <2>11. DroppedBy(FS, k, ms) = {<<"funding", inputs[i + 1]>> : i \in MF}
    <3>1. DroppedBy(FS, k, ms) = {"funding"} \X InputsAt(MF)
      BY <1>3 DEF MF
    <3> QED BY <3>1 DEF InputsAt
  <2>12. Reported(ms) = {<<inputs[i + 1].role, inputs[i + 1]>> : i \in ms}
    BY DEF Reported, InputsAt
  <2>13. inputs[0 + 1] = PoolBox
    BY <2>2
  <2>14. {<<inputs[i + 1].role, inputs[i + 1]>> : i \in ms} =
            (IF 0 \in ms THEN {<<"pool", PoolBox>>} ELSE {})
               \cup {<<"funding", inputs[i + 1]>> : i \in MF}
               \cup {<<"bundle", inputs[i + 1]>> : i \in MB}
    <3> DEFINE r(i) == <<inputs[i + 1].role, inputs[i + 1]>>
               R == {r(i) : i \in ms}
    <3>1. r(0) = <<"pool", PoolBox>>
      BY <1>4, <2>13
    <3>2. {<<"funding", inputs[i + 1]>> : i \in MF} = {r(i) : i \in MF}
      BY <2>8
    <3>3. {<<"bundle", inputs[i + 1]>> : i \in MB} = {r(i) : i \in MB}
      BY <2>9
    <3> HIDE DEF r
    <3>4. R = (IF 0 \in ms THEN {r(0)} ELSE {}) \cup {r(i) : i \in MF} \cup {r(i) : i \in MB}
      BY <2>7, <2>8, <2>9
    <3> QED BY <3>1, <3>2, <3>3, <3>4 DEF r
  <2> QED BY <1>3, <2>4, <2>10, <2>11, <2>12, <2>14
<1> QED BY <1>5, <1>6, <1>7

LEMMA TxInputsType ==
    ASSUME NEW k \in {"deposit", "redeem", "compound"}, NEW nf \in Nat \ {0}, NEW nb \in 1..2
    PROVE  TxInputs(k, nf, nb) \in Seq(Box)
<1> DEFINE ins == TxInputs(k, nf, nb)
<1> HIDE DEF ins
<1>1. CASE k # "compound"
  BY <1>1, OrderInputs DEF ins
<1>2. CASE k = "compound"
  <2>1. TxInputs("compound", nf, nb) \in Seq(Box)
    BY CompoundInputs DEF IsCompound
  <2> QED BY <1>2, <2>1
<1> QED BY <1>1, <1>2

\* The invariant depends on these variables only.
LEMMA ExecUnchanged ==
    ASSUME ExecInv, TypeOK', Protocol', kind' = kind, inputs' = inputs, missing' = missing,
           todo' = todo, lost' = lost, step' \in Steps,
           \/ step' = step /\ hand' = hand
           \/ step' \in {"idle", "popped", "running"} /\ lost = {}
           \/ step' = "done"
    PROVE  ExecInv'
<1>1. LmTypeOK'
  BY DEF ExecInv, LmTypeOK, Protocol
<1>2. CASE step' = step /\ hand' = hand
  BY <1>1, <1>2 DEF ExecInv, DroppedBy, Drops, Reported, InputsAt, MissingFunding,
                    MissingBundles, NumFunding
<1>3. CASE step' \in {"popped", "running", "idle"} /\ lost = {}
  BY <1>1, <1>3 DEF ExecInv
<1>4. CASE step' = "done"
  BY <1>1, <1>4 DEF ExecInv
<1> QED BY <1>2, <1>3, <1>4

LEMMA MissingInputsKeeps ==
    ASSUME ExecInv, MissingInputs, TypeOK', Protocol'
    PROVE  ExecInv'
<1>1. /\ step = "submitting" /\ step' = "invalidating" /\ lost = {}
      /\ UNCHANGED <<vars, kind, inputs, lost>>
  BY DEF MissingInputs, ExecInv
<1>2. kind[hand] \in {"deposit", "redeem", "compound"}
  BY <1>1, ExecutorAssumption DEF ExecInv, LmTypeOK, TypeOK
<1>3. PICK nf \in Fundings, nb \in 1..2 : inputs = TxInputs(kind[hand], nf, nb)
  BY <1>1 DEF ExecInv
<1>4. nf \in Nat \ {0}
  BY ExecutorAssumption
<1>5. PICK ms : /\ ms \subseteq {i - 1 : i \in DOMAIN inputs} /\ missing' = ms
                /\ todo' = Invalidations(kind[hand], ms)
  BY DEF MissingInputs
<1>6. DroppedBy(todo', kind[hand], ms) = Reported(ms)
  BY <1>2, <1>3, <1>4, <1>5, InvalidationsDrop
<1>7. hand' = hand /\ kind' = kind /\ inputs' = inputs /\ lost' = {}
  BY <1>1 DEF vars
<1>8. lost' \cup DroppedBy(todo, kind[hand], missing)' = Reported(missing)'
  <2>1. NumFunding' = NumFunding
    BY <1>7 DEF NumFunding
  <2>2. DroppedBy(todo, kind[hand], missing)' = DroppedBy(todo', kind[hand], ms)
    BY <1>5, <1>7, <2>1 DEF DroppedBy, Drops, InputsAt, MissingFunding, MissingBundles
  <2>3. Reported(missing)' = Reported(ms)
    BY <1>5, <1>7 DEF Reported, InputsAt
  <2> QED BY <1>6, <1>7, <2>2, <2>3
<1>9. missing' \subseteq Nat
  <2>1. inputs \in Seq(Box) /\ DOMAIN inputs = 1..Len(inputs) /\ Len(inputs) \in Nat
    BY DEF ExecInv, LmTypeOK
  <2>2. \A i \in 1..Len(inputs) : i - 1 \in Nat
    BY <2>1
  <2> QED BY <1>5, <2>1, <2>2
<1>10. todo' \in Seq(Work)
  BY <1>1 DEF Protocol, RemoveLast
<1>11. LmTypeOK'
  BY <1>1, <1>7, <1>9, <1>10 DEF ExecInv, LmTypeOK, Protocol, Steps
<1> QED BY <1>1, <1>3, <1>5, <1>7, <1>8, <1>11 DEF ExecInv

\* A call drops its share, which is then no longer to come.
LEMMA InvalidateKeeps ==
    ASSUME ExecInv, Invalidate, TypeOK', Protocol'
    PROVE  ExecInv'
<1>1. /\ step = "invalidating" /\ step' = step /\ todo # <<>> /\ todo' = Tail(todo)
      /\ kind' = kind /\ inputs' = inputs /\ missing' = missing
  BY DEF Invalidate
<1>2. hand' = hand
  BY DEF Invalidate, vars, SuspendHeld, RemoveHeld
<1> DEFINE k == kind[hand]
           h == Head(todo)
           t == Tail(todo)
<1>3. todo \in Seq(Work) /\ t \in Seq(Work) /\ h \in Work /\ todo = <<h>> \o t
  BY <1>1 DEF ExecInv, LmTypeOK
<1>4. lost' = lost \cup Drops(h, k, missing)
  <2>1. \/ h = "pool" /\ lost' = lost \cup {<<"pool", PoolBox>>}
        \/ h = "funding" /\ lost' = lost \cup ({"funding"} \X InputsAt(MissingFunding(missing)))
        \/ h = "bundles" /\ lost' = lost \cup ({"bundle"} \X InputsAt(MissingBundles(k, missing)))
        \/ h = "suspend" /\ lost' = lost
        \/ h = "remove" /\ lost' = lost \cup {<<"order", OrderBox>>}
    BY DEF Invalidate
  <2> HIDE DEF h, k
  <2> QED BY <2>1 DEF Drops
<1>5. DroppedBy(todo, k, missing) = Drops(h, k, missing) \cup DroppedBy(t, k, missing)
  <2> HIDE DEF h, t, k
  <2> DEFINE q == <<h>>
  <2>1. q \in Seq(Work) /\ t \in Seq(Work)
    BY <1>3
  <2>2. DroppedBy(q, k, missing) = Drops(h, k, missing)
    BY DroppedByFew
  <2> HIDE DEF q
  <2>3. DroppedBy(q \o t, k, missing) = DroppedBy(q, k, missing) \cup DroppedBy(t, k, missing)
    BY ONLY <2>1, DroppedByConcat
  <2> QED BY <1>3, <2>2, <2>3 DEF q
<1>6. /\ lost \cup DroppedBy(todo, k, missing) = Reported(missing)
      /\ missing \subseteq {i - 1 : i \in DOMAIN inputs}
      /\ \E nf \in Fundings, nb \in 1..2 : inputs = TxInputs(k, nf, nb)
      /\ lost \subseteq Roles \X Box
  BY <1>1 DEF ExecInv, LmTypeOK
<1>7. lost' \cup DroppedBy(t, k, missing) = Reported(missing)
  BY <1>4, <1>5, <1>6
<1>8. lost' \cup DroppedBy(todo, kind[hand], missing)' = Reported(missing)'
  <2>1. NumFunding' = NumFunding
    BY <1>1 DEF NumFunding
  <2>2. DroppedBy(todo, kind[hand], missing)' = DroppedBy(t, k, missing)
    BY <1>1, <1>2, <2>1 DEF DroppedBy, Drops, InputsAt, MissingFunding, MissingBundles
  <2>3. Reported(missing)' = Reported(missing)
    BY <1>1 DEF Reported, InputsAt
  <2> QED BY <1>7, <2>2, <2>3
<1>9. lost' \subseteq Roles \X Box
  <2>1. lost' \subseteq Reported(missing)
    BY <1>7
  <2>2. InputsAt(missing) \subseteq Box
    <3>1. inputs \in Seq(Box) /\ DOMAIN inputs = 1..Len(inputs) /\ Len(inputs) \in Nat
      BY DEF ExecInv, LmTypeOK
    <3>2. \A i \in DOMAIN inputs : (i - 1) + 1 = i
      BY <3>1
    <3>3. \A i \in missing : i + 1 \in DOMAIN inputs
      BY <1>6, <3>2
    <3> QED BY <3>1, <3>3 DEF InputsAt
  <2>3. \A x \in Box : x.role \in Roles
    BY DEF Box
  <2> QED BY <2>1, <2>2, <2>3 DEF Reported
<1>10. LmTypeOK'
  BY <1>1, <1>2, <1>3, <1>9 DEF ExecInv, LmTypeOK, Protocol
<1> QED BY <1>1, <1>2, <1>6, <1>8, <1>10 DEF ExecInv

\* Every step of try_execute_next, and of the streams around it, keeps ExecInv.
LEMMA ExecInvPreserved ==
    ASSUME ExecInv, [LmNext]_lmVars
    PROVE  ExecInv'
<1>0. TypeOK' /\ Protocol'
  BY StepRefines, ProtocolPreserved, TypePreserved DEF ExecInv, LmTypeOK
<1>1. CASE Pop
  <2>1. /\ kind' = kind /\ inputs' = inputs /\ missing' = missing /\ todo' = todo /\ lost' = lost
        /\ lost = {} /\ step' \in {"idle", "popped"}
    BY <1>1 DEF Pop, exec, AfterPop, ExecInv
  <2> QED BY <1>0, <2>1, ExecUnchanged DEF Steps
<1>2. CASE PoolFound
  <2>1. /\ kind' = kind /\ inputs' = inputs /\ missing' = missing /\ todo' = todo /\ lost' = lost
        /\ lost = {} /\ step' = "running"
    BY <1>2 DEF PoolFound, exec, ExecInv
  <2> QED BY <1>0, <2>1, ExecUnchanged DEF Steps
<1>3. CASE NoPool \/ NothingToRunWith \/ RunNonFatal \/ RunFatal \/ SignFails
           \/ Accepted \/ DoubleSpend \/ Unhandled \/ Invalidated
  <2>1. /\ kind' = kind /\ inputs' = inputs /\ missing' = missing /\ todo' = todo /\ lost' = lost
        /\ step' = "done"
    BY <1>3 DEF NoPool, NothingToRunWith, RunNonFatal, RunFatal, SignFails, Accepted,
                DoubleSpend, Unhandled, Invalidated, exec
  <2> QED BY <1>0, <2>1, ExecUnchanged DEF Steps
<1>4. CASE RunOk
  <2>1. /\ step = "running" /\ step' = "submitting" /\ lost' = {} /\ hand' = hand
        /\ kind' = kind /\ missing' = missing /\ todo' = todo
    BY <1>4 DEF RunOk, ExecInv, vars
  <2>2. PICK nf \in Fundings, nb \in 1..2 : inputs' = TxInputs(kind[hand], nf, nb)
    BY <1>4 DEF RunOk
  <2>3. kind[hand] \in {"deposit", "redeem", "compound"}
    BY <2>1, ExecutorAssumption DEF ExecInv, LmTypeOK, TypeOK
  <2>4. nf \in Nat \ {0}
    BY ExecutorAssumption
  <2>5. inputs' \in Seq(Box)
    BY <2>2, <2>3, <2>4, TxInputsType
  <2>6. LmTypeOK'
    BY <1>0, <2>1, <2>5 DEF ExecInv, LmTypeOK, Protocol, Steps
  <2> QED BY <1>0, <2>1, <2>2, <2>6 DEF ExecInv
<1>5. CASE ScriptsDontPass
  <2>1. PICK spent \in SUBSET ToSet(inputs) : lost' = lost \cup {<<x.role, x>> : x \in spent}
    BY <1>5 DEF ScriptsDontPass
  <2>2. /\ step' = "done" /\ kind' = kind /\ inputs' = inputs /\ missing' = missing
        /\ todo' = todo
    BY <1>5 DEF ScriptsDontPass
  <2>3. spent \subseteq Box
    BY <2>1 DEF ExecInv, LmTypeOK, ToSet
  <2>4. \A x \in Box : x.role \in Roles
    BY DEF Box
  <2>5. lost' \subseteq Roles \X Box
    BY <2>1, <2>3, <2>4 DEF ExecInv, LmTypeOK
  <2>6. LmTypeOK'
    BY <1>0, <2>2, <2>5 DEF ExecInv, LmTypeOK, Protocol, Steps
  <2> QED BY <1>0, <2>2, <2>6 DEF ExecInv
<1>6. CASE MissingInputs
  BY <1>0, <1>6, MissingInputsKeeps
<1>7. CASE Invalidate
  BY <1>0, <1>7, InvalidateKeeps
<1>8. CASE Finish \/ Reboot
  <2>1. /\ step' = "idle" /\ kind' = kind /\ inputs' = <<>> /\ missing' = {} /\ todo' = <<>>
        /\ lost' = {}
    BY <1>8 DEF Finish, Reboot, NoExecution
  <2>2. LmTypeOK'
    BY <1>0, <2>1 DEF ExecInv, LmTypeOK, Protocol, Steps
  <2> QED BY <1>0, <2>1, <2>2 DEF ExecInv
<1>9. CASE Others
  <2>1. /\ kind' = kind /\ inputs' = inputs /\ missing' = missing /\ todo' = todo /\ lost' = lost
        /\ step' = step /\ hand' = hand
    BY <1>9 DEF Others, exec, Put, RemoveOrder, Tick
  <2>2. step' \in Steps
    BY <2>1 DEF ExecInv, LmTypeOK
  <2> QED BY <1>0, <2>1, <2>2, ExecUnchanged
<1>10. CASE UNCHANGED lmVars
  <2>1. /\ kind' = kind /\ inputs' = inputs /\ missing' = missing /\ todo' = todo /\ lost' = lost
        /\ step' = step /\ hand' = hand
    BY <1>10 DEF lmVars, vars
  <2>2. step' \in Steps
    BY <2>1 DEF ExecInv, LmTypeOK
  <2> QED BY <1>0, <2>1, <2>2, ExecUnchanged
<1> QED BY <1>1, <1>2, <1>3, <1>4, <1>5, <1>6, <1>7, <1>8, <1>9, <1>10 DEF LmNext

LEMMA ExecInvariant == LmSpec => []ExecInv
<1>1. LmInit => ExecInv
  <2> SUFFICES ASSUME LmInit PROVE ExecInv
    OBVIOUS
  <2>1. Init => TypeOK
    BY BacklogAssumption DEF Init, TypeOK, Reports
  <2>2. LmTypeOK
    BY <2>1 DEF LmInit, LmTypeOK, Steps
  <2> QED BY <2>2 DEF LmInit, ExecInv, Protocol
<1>2. ExecInv /\ [LmNext]_lmVars => ExecInv'
  BY ExecInvPreserved
<1> QED BY <1>1, <1>2, PTL DEF LmSpec

(***************************************************************************)
(* Type correctness of the executor: its transaction consists of boxes,    *)
(* its list of calls of known calls, and it is past its first step only    *)
(* while it holds an order.                                                *)
(***************************************************************************)
THEOREM ExecutorTypeCorrect == LmSpec => []LmTypeOK
<1>1. ExecInv => LmTypeOK
  BY DEF ExecInv
<1> QED BY <1>1, ExecInvariant, PTL

(***************************************************************************)
(* After "Missing inputs" exactly the boxes the node reported have been    *)
(* dropped, each from its repository, for any number of funding boxes and  *)
(* any set of missing inputs, whatever runs between the calls.             *)
(***************************************************************************)
THEOREM InvalidatesMissingHolds == LmSpec => []InvalidatesMissing
<1>1. ExecInv => InvalidatesMissing
  <2> SUFFICES ASSUME ExecInv, step = "invalidating", todo = <<>>
               PROVE  lost = {<<x.role, x>> : x \in InputsAt(missing)}
    BY DEF InvalidatesMissing
  <2>1. DroppedBy(todo, kind[hand], missing) = {}
    BY DEF DroppedBy
  <2> QED BY <2>1 DEF ExecInv, Reported
<1> QED BY <1>1, ExecInvariant, PTL
=============================================================================
