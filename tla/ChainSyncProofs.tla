--------------------------- MODULE ChainSyncProofs ---------------------------
(***************************************************************************)
(* The synchroniser and its cache for any tree of blocks, any behaviour of *)
(* the node and any rollback depth.                                        *)
(***************************************************************************)
EXTENDS ChainSync, SequenceTheorems, FiniteSetTheorems, WellFoundedInduction, TLAPS

\* The block in flight was asked for by the height that is next.
FetchedNext == fetched # NoBlock => Height[fetched] = next

\* While the stream and its consumer are in step, view is a path in the tree
\* that starts at the starting height and ends where the next block goes.
PathInv ==
    /\ next = StartHeight + Len(view)
    /\ \A i \in DOMAIN view : Height[view[i]] = StartHeight + i - 1
    /\ \A i \in DOMAIN view : i + 1 \in DOMAIN view => Parent[view[i + 1]] = view[i]
    /\ stored \subseteq ToSet(view) \cup discarded
    /\ best # NoBlock => view # <<>> /\ best = view[Len(view)]
    /\ oldest = NoBlock => view = <<>>

\* The oldest block of the cache is the k-th of view, and the cache has what it
\* takes to go back there and to move on from there.
KeepsFrom(k) ==
    /\ k \in DOMAIN view
    /\ oldest = view[k]
    /\ best = view[Len(view)]
    /\ Len(view) < k + MaxDepth
    /\ bodies = {view[i] : i \in k .. Len(view)}
    /\ \A i \in k .. Len(view) - 1 : view[i] \in DOMAIN child /\ child[view[i]] = view[i + 1]

\* Until the oldest block is rolled back.
CacheInv ==
    /\ ~halted
    /\ view = <<>> => oldest = NoBlock /\ stored = {} /\ best = NoBlock
    /\ view # <<>> => \E k \in DOMAIN view : KeepsFrom(k)
    /\ MaxDepth = 1 => discarded = {}

SyncInv ==
    /\ TypeOK
    /\ FetchedNext
    /\ InSync => PathInv
    /\ taint = {} => CacheInv
-----------------------------------------------------------------------------
LEMMA BlockFacts ==
    /\ NoBlock \notin Blocks
    /\ StartHeight \in Nat
    /\ MaxDepth \in Nat \ {0}
    /\ \A b \in Blocks :
          /\ Height[b] \in Nat
          /\ Parent[b] \in BlockOrNone
          /\ Parent[b] # NoBlock => Parent[b] \in Blocks /\ Height[b] = Height[Parent[b]] + 1
          /\ Parent[b] = NoBlock => Height[b] = StartHeight
  BY ChainAssumption DEF BlockOrNone

\* No block is below the starting height, and those at it have no parent.
LEMMA Roots ==
    \A b \in Blocks :
        /\ Height[b] >= StartHeight
        /\ Height[b] = StartHeight => Parent[b] = NoBlock
<1> DEFINE R == OpToRel(<, Nat)
           T == {Height[b] : b \in {c \in Blocks : Height[c] < StartHeight}}
<1>1. IsWellFoundedOn(R, Nat)
  BY NatLessThanWellFounded
<1>2. \A m, n \in Nat : m < n => <<m, n>> \in R
  BY DEF OpToRel
<1> HIDE DEF R
<1>3. T \subseteq Nat
  BY BlockFacts
<1>4. ASSUME T # {}
      PROVE  FALSE
  <2>1. PICK h \in T : \A g \in T : ~(<<g, h>> \in R)
    <3> HIDE DEF T
    <3> QED
      BY <1>1, <1>3, <1>4, WFMin
  <2>2. PICK b \in Blocks : h = Height[b] /\ Height[b] < StartHeight
    OBVIOUS
  <2>3. Parent[b] \in Blocks /\ Height[b] = Height[Parent[b]] + 1
    BY <2>2, BlockFacts
  <2>4. Height[Parent[b]] \in T /\ Height[Parent[b]] < h
    BY <2>2, <2>3, BlockFacts
  <2> QED
    BY <1>2, <1>3, <2>1, <2>4
<1>5. \A b \in Blocks : Height[b] >= StartHeight
  BY <1>4, BlockFacts
<1>6. ASSUME NEW b \in Blocks, Height[b] = StartHeight, Parent[b] # NoBlock
      PROVE  FALSE
  <2>1. Parent[b] \in Blocks /\ Height[b] = Height[Parent[b]] + 1
    BY <1>6, BlockFacts
  <2> QED
    BY <1>5, <1>6, <2>1, BlockFacts
<1> QED
  BY <1>5, <1>6

LEMMA ViewFacts ==
    ASSUME TypeOK
    PROVE  /\ Len(view) \in Nat
           /\ DOMAIN view = 1 .. Len(view)
           /\ view # <<>> <=> Len(view) # 0
           /\ \A i \in DOMAIN view : view[i] \in Blocks
<1>1. view \in Seq(Blocks)
  BY DEF TypeOK
<1> QED
  BY <1>1, LenProperties, EmptySeq, ElementOfSeq

LEMMA AppendView ==
    ASSUME TypeOK, NEW b \in Blocks, view' = Append(view, b)
    PROVE  /\ view' \in Seq(Blocks)
           /\ Len(view') = Len(view) + 1
           /\ DOMAIN view' = 1 .. Len(view) + 1
           /\ view' # <<>>
           /\ \A i \in 1 .. Len(view) : view'[i] = view[i]
           /\ view'[Len(view) + 1] = b
           /\ ToSet(view') = ToSet(view) \cup {b}
<1>1. view \in Seq(Blocks) /\ Len(view) \in Nat /\ DOMAIN view = 1 .. Len(view)
  BY ViewFacts DEF TypeOK
<1>2. /\ view' \in Seq(Blocks) /\ Len(view') = Len(view) + 1
      /\ DOMAIN view' = 1 .. Len(view) + 1 /\ view' # <<>>
  BY <1>1, AppendProperties
<1>3. \A i \in 1 .. Len(view) : view'[i] = view[i]
  BY <1>1, AppendProperties
<1>4. view'[Len(view) + 1] = b
  BY <1>1, AppendProperties
<1>5. DOMAIN view' = DOMAIN view \cup {Len(view) + 1}
  BY <1>1, <1>2
<1>6. ToSet(view') = ToSet(view) \cup {b}
  BY <1>1, <1>3, <1>4, <1>5 DEF ToSet
<1> QED
  BY <1>2, <1>3, <1>4, <1>6

LEMMA FrontView ==
    ASSUME TypeOK, view # <<>>, view' = Front(view)
    PROVE  /\ view' \in Seq(Blocks)
           /\ Len(view') = Len(view) - 1
           /\ DOMAIN view' = 1 .. Len(view) - 1
           /\ \A i \in 1 .. Len(view) - 1 : view'[i] = view[i]
           /\ ToSet(view) = ToSet(view') \cup {view[Len(view)]}
<1>1. /\ view \in Seq(Blocks) /\ Len(view) \in Nat \ {0} /\ DOMAIN view = 1 .. Len(view)
      /\ \A i \in DOMAIN view : view[i] \in Blocks
  BY ViewFacts DEF TypeOK
<1>2. view' = [i \in 1 .. Len(view) - 1 |-> view[i]]
  BY <1>1 DEF Front
<1>3. Len(view) - 1 \in Nat /\ \A i \in 1 .. Len(view) - 1 : view[i] \in Blocks
  BY <1>1
<1>4. view' \in Seq(Blocks) /\ Len(view') = Len(view) - 1
  BY <1>2, <1>3
<1>5. DOMAIN view = (1 .. Len(view) - 1) \cup {Len(view)}
  BY <1>1
<1>6. DOMAIN view' = 1 .. Len(view) - 1 /\ \A i \in 1 .. Len(view) - 1 : view'[i] = view[i]
  BY <1>2
<1>7. ToSet(view) = ToSet(view') \cup {view[Len(view)]}
  <2> DEFINE n == Len(view)
             D == 1 .. n - 1
  <2>1. DOMAIN view = D \cup {n} /\ DOMAIN view' = D /\ \A i \in D : view'[i] = view[i]
    BY <1>5, <1>6
  <2> HIDE DEF n, D
  <2>2. ToSet(view) = ToSet(view') \cup {view[n]}
    BY <2>1 DEF ToSet
  <2> QED
    BY <2>2 DEF n
<1> QED
  BY <1>4, <1>6, <1>7
-----------------------------------------------------------------------------
\* Steps that leave the cache and the consumer alone.
LEMMA QuietStep ==
    ASSUME SyncInv, UNCHANGED <<cache, next, halted, view, discarded>>,
           taint \subseteq taint', taint' \subseteq Reasons,
           node' \in Blocks, fetched' \in BlockOrNone, tipReached' \in BOOLEAN,
           moves' \in 0..MaxMoves, restarts' \in 0..MaxRestarts,
           fetched' # NoBlock => Height[fetched'] = next
    PROVE  SyncInv'
<1> USE DEF cache
<1>1. TypeOK'
  BY DEF SyncInv, TypeOK
<1>2. FetchedNext'
  BY DEF FetchedNext
<1>3. InSync' => PathInv'
  <2>1. InSync' => InSync
    BY DEF InSync
  <2> QED
    BY <2>1 DEF SyncInv, PathInv
<1>4. taint' = {} => CacheInv'
  <2>1. taint' = {} => taint = {}
    OBVIOUS
  <2> QED
    BY <2>1 DEF SyncInv, CacheInv, KeepsFrom
<1> QED
  BY <1>1, <1>2, <1>3, <1>4 DEF SyncInv

LEMMA InitInv == Init => SyncInv
<1> SUFFICES ASSUME Init
             PROVE  SyncInv
  OBVIOUS
<1>1. TypeOK
  <2>1. DOMAIN child = {} /\ child \in [{} -> Blocks]
    BY DEF Init
  <2>2. StartHeight \in Nat /\ 0 \in 0..MaxMoves /\ 0 \in 0..MaxRestarts
    BY ChainAssumption
  <2>3. view \in Seq(Blocks)
    BY DEF Init
  <2> QED
    BY <2>1, <2>2, <2>3 DEF Init, TypeOK, BlockOrNone
<1>2. DOMAIN view = {} /\ Len(view) = 0 /\ view = <<>>
  BY DEF Init
<1>3. PathInv
  BY <1>2, BlockFacts DEF Init, PathInv
<1>4. CacheInv
  BY <1>2 DEF Init, CacheInv
<1> QED
  BY <1>1, <1>3, <1>4 DEF SyncInv, FetchedNext, Init

\* Where a block that links goes: it is a child of the consumer's last block.
LEMMA LinksToLast ==
    ASSUME SyncInv, InSync, fetched # NoBlock, Linked(fetched),
           Parent[fetched] \notin discarded
    PROVE  /\ Height[fetched] = StartHeight + Len(view)
           /\ view # <<>> => Parent[fetched] = view[Len(view)]
<1> DEFINE p == Parent[fetched]
<1>1. fetched \in Blocks /\ Height[fetched] = next /\ next = StartHeight + Len(view)
  BY DEF SyncInv, TypeOK, BlockOrNone, FetchedNext, PathInv
<1>2. Len(view) \in Nat /\ DOMAIN view = 1 .. Len(view) /\ (view # <<>> => Len(view) # 0)
  BY ViewFacts DEF SyncInv
<1>3. ASSUME view # <<>>
      PROVE  p = view[Len(view)]
  <2>1. Height[fetched] # StartHeight
    BY <1>1, <1>2, <1>3, BlockFacts
  <2>2. p \in stored
    BY <2>1 DEF Linked, Exists
  <2>3. PICK i \in DOMAIN view : p = view[i]
    BY <2>2 DEF SyncInv, PathInv, ToSet
  <2>4. Height[p] = StartHeight + i - 1
    BY <2>3 DEF SyncInv, PathInv
  <2>5. p \in Blocks
    BY <2>2 DEF SyncInv, TypeOK
  <2>6. Height[fetched] = Height[p] + 1
    BY <1>1, <2>5, BlockFacts
  <2>7. i = Len(view)
    <3>1. i \in Nat
      BY <1>2, <2>3
    <3> QED
      BY <1>1, <1>2, <2>4, <2>6, <3>1, BlockFacts
  <2> QED
    BY <2>3, <2>7
<1> QED
  BY <1>1, <1>3

LEMMA ForwardType ==
    ASSUME SyncInv, RollForward
    PROVE  TypeOK' /\ FetchedNext'
<1>1. fetched \in Blocks /\ Parent[fetched] \in BlockOrNone
  BY BlockFacts DEF SyncInv, TypeOK, BlockOrNone, RollForward
<1>2. view' \in Seq(Blocks)
  BY <1>1, AppendView DEF SyncInv, RollForward
<1>3. /\ DOMAIN ChildOf(fetched) \subseteq BlockOrNone
      /\ \A x \in DOMAIN ChildOf(fetched) : ChildOf(fetched)[x] \in Blocks
  BY <1>1 DEF ChildOf, SyncInv, TypeOK
<1>4. /\ stored' \subseteq Blocks /\ bodies' \subseteq stored'
      /\ best' \in BlockOrNone /\ oldest' \in BlockOrNone
  BY <1>1, <1>3 DEF RollForward, AppendOnly, AppendAndPrune, SyncInv, TypeOK, BlockOrNone
<1>5. DOMAIN child' \subseteq BlockOrNone /\ child' \in [DOMAIN child' -> Blocks]
  <2>1. CASE child' = ChildOf(fetched)
    <3>1. ChildOf(fetched) = [x \in DOMAIN ChildOf(fetched) |-> ChildOf(fetched)[x]]
      BY DEF ChildOf
    <3> QED
      BY <1>3, <2>1, <3>1
  <2>2. CASE child' = [x \in DOMAIN ChildOf(fetched) \ {oldest} |-> ChildOf(fetched)[x]]
    BY <1>3, <2>2
  <2> QED
    BY <2>1, <2>2 DEF RollForward, AppendOnly, AppendAndPrune
<1>6. /\ taint' \subseteq Reasons /\ discarded' \subseteq Blocks /\ next' \in Nat
      /\ fetched' = NoBlock
  BY DEF RollForward, SyncInv, TypeOK, Reasons
<1>7. UNCHANGED <<node, tipReached, halted, moves, restarts>>
  BY DEF RollForward
<1> QED
  BY <1>2, <1>4, <1>5, <1>6, <1>7 DEF SyncInv, TypeOK, BlockOrNone, FetchedNext

LEMMA ForwardPath ==
    ASSUME SyncInv, RollForward, InSync'
    PROVE  /\ InSync /\ Parent[fetched] \notin discarded
           /\ PathInv'
<1>1. fetched \in Blocks /\ view' = Append(view, fetched) /\ best' = fetched
  BY DEF SyncInv, TypeOK, BlockOrNone, RollForward, AppendOnly, AppendAndPrune
<1>2. InSync /\ Parent[fetched] \notin discarded
  BY DEF RollForward, InSync
<1> DEFINE n == Len(view)
<1>3. /\ view' \in Seq(Blocks) /\ Len(view') = n + 1 /\ DOMAIN view' = 1 .. n + 1
      /\ view' # <<>> /\ (\A i \in 1 .. n : view'[i] = view[i]) /\ view'[n + 1] = fetched
      /\ ToSet(view') = ToSet(view) \cup {fetched}
  BY <1>1, AppendView DEF SyncInv
<1>4. n \in Nat /\ DOMAIN view = 1 .. n /\ (view # <<>> <=> n # 0)
  BY ViewFacts DEF SyncInv
<1>5. Height[fetched] = StartHeight + n /\ (n # 0 => Parent[fetched] = view[n])
  BY <1>2, <1>4, LinksToLast DEF RollForward
<1>6. /\ next = StartHeight + n
      /\ \A i \in 1 .. n : Height[view[i]] = StartHeight + i - 1
      /\ \A i \in 1 .. n : i + 1 \in 1 .. n => Parent[view[i + 1]] = view[i]
      /\ stored \subseteq ToSet(view) \cup discarded
  BY <1>2, <1>4 DEF SyncInv, PathInv
<1> HIDE DEF n
<1>7. next' = StartHeight + Len(view')
  <2>1. next' = next + 1
    BY DEF RollForward
  <2> QED
    BY <1>3, <1>4, <1>6, <2>1, BlockFacts
<1>8. \A i \in DOMAIN view' : Height[view'[i]] = StartHeight + i - 1
  <2>1. \A i \in 1 .. n + 1 : i \in 1 .. n \/ i = n + 1
    BY <1>4
  <2>2. Height[view'[n + 1]] = StartHeight + (n + 1) - 1
    BY <1>3, <1>4, <1>5, BlockFacts
  <2> QED
    BY <1>3, <1>6, <2>1, <2>2
<1>9. \A i \in DOMAIN view' : i + 1 \in DOMAIN view' => Parent[view'[i + 1]] = view'[i]
  <2> SUFFICES ASSUME NEW i \in 1 .. n + 1, i + 1 \in 1 .. n + 1
               PROVE  Parent[view'[i + 1]] = view'[i]
    BY <1>3
  <2>1. i \in 1 .. n /\ n # 0 /\ (i + 1 \in 1 .. n \/ i = n)
    BY <1>4
  <2>2. CASE i + 1 \in 1 .. n
    BY <1>3, <1>6, <2>1, <2>2
  <2>3. CASE i = n
    BY <1>3, <1>5, <2>1, <2>3
  <2> QED
    BY <2>1, <2>2, <2>3
<1>10. stored' \subseteq ToSet(view') \cup discarded'
  <2>1. stored' \subseteq stored \cup {fetched} /\ discarded' = discarded \ {fetched}
    BY DEF RollForward, AppendOnly, AppendAndPrune
  <2> QED
    BY <1>3, <1>6, <2>1
<1>11. oldest' # NoBlock
  <2>1. /\ \A x \in DOMAIN ChildOf(fetched) : ChildOf(fetched)[x] \in Blocks
    BY <1>1 DEF ChildOf, SyncInv, TypeOK
  <2> QED
    BY <1>1, <2>1, BlockFacts DEF RollForward, AppendOnly, AppendAndPrune
<1>12. best' = view'[Len(view')]
  BY <1>1, <1>3
<1>13. PathInv'
  BY <1>3, <1>7, <1>8, <1>9, <1>10, <1>11, <1>12 DEF PathInv
<1> QED
  BY <1>2, <1>13

LEMMA ForwardCache ==
    ASSUME SyncInv, RollForward, taint' = {}
    PROVE  CacheInv'
<1> DEFINE n == Len(view)
           f == fetched
<1>1. fetched \in Blocks /\ view' = Append(view, fetched) /\ best' = fetched /\ ~halted'
  BY DEF SyncInv, TypeOK, BlockOrNone, RollForward, AppendOnly, AppendAndPrune
<1>2. taint = {} /\ CacheInv /\ InSync' /\ discarded' \subseteq discarded
  BY DEF RollForward, SyncInv, InSync
<1>3. InSync /\ Parent[f] \notin discarded
  BY <1>2, ForwardPath
<1>4. /\ Len(view') = n + 1 /\ DOMAIN view' = 1 .. n + 1
      /\ view' # <<>> /\ (\A i \in 1 .. n : view'[i] = view[i]) /\ view'[n + 1] = f
  BY <1>1, AppendView DEF SyncInv
<1>5. n \in Nat /\ DOMAIN view = 1 .. n /\ (view # <<>> <=> n # 0)
  BY ViewFacts DEF SyncInv
<1>6. Height[f] = StartHeight + n /\ (n # 0 => Parent[f] = view[n])
  BY <1>3, <1>5, LinksToLast DEF RollForward
<1>7. \A i \in 1 .. n : Height[view[i]] = StartHeight + i - 1 /\ view[i] \in Blocks
  BY <1>3, <1>5, ViewFacts DEF SyncInv, PathInv
<1>8. MaxDepth = 1 => discarded' = {}
  BY <1>2 DEF CacheInv
<1> HIDE DEF n, f
<1>9. CASE n = 0
  <2>1. oldest = NoBlock /\ bodies = {}
    BY <1>2, <1>5, <1>9 DEF CacheInv, SyncInv, TypeOK
  <2>2. bodies' = {f} /\ oldest' = f
    BY <2>1 DEF RollForward, AppendOnly, AppendAndPrune, AtCapacity, f
  <2>3. Len(view') = 1 /\ view'[1] = f /\ DOMAIN view' = {1}
    BY <1>4, <1>9
  <2>4. KeepsFrom(1)'
    <3>1. {view'[i] : i \in 1 .. 1} = {f}
      BY <2>3
    <3>2. 1 < 1 + MaxDepth /\ 1 .. 0 = {}
      BY BlockFacts
    <3> QED
      BY <1>1, <2>2, <2>3, <3>1, <3>2 DEF KeepsFrom, f
  <2> QED
    BY <1>1, <1>4, <1>8, <2>3, <2>4 DEF CacheInv
<1>10. CASE n # 0
  <2>1. PICK k \in 1 .. n : KeepsFrom(k)
    BY <1>2, <1>5, <1>10 DEF CacheInv
  <2>2. /\ oldest = view[k] /\ n < k + MaxDepth
        /\ bodies = {view[i] : i \in k .. n}
        /\ \A i \in k .. n - 1 : view[i] \in DOMAIN child /\ child[view[i]] = view[i + 1]
    BY <2>1 DEF KeepsFrom, n
  <2>3. oldest \in Blocks /\ oldest # NoBlock /\ Height[oldest] = StartHeight + k - 1
    BY <1>7, <2>1, <2>2, BlockFacts
  <2>4. AtCapacity(f) <=> n + 1 = k + MaxDepth
    <3>1. k \in Nat /\ n \in Nat /\ MaxDepth \in Nat /\ StartHeight \in Nat
      BY <1>5, <2>1, BlockFacts
    <3>2. AtCapacity(f) <=> StartHeight + n = (StartHeight + k - 1) + MaxDepth
      BY <1>6, <2>3 DEF AtCapacity
    <3> QED
      BY <3>1, <3>2
  <2>5. \A i, j \in 1 .. n : view[i] = view[j] => i = j
    <3> SUFFICES ASSUME NEW i \in 1 .. n, NEW j \in 1 .. n, view[i] = view[j]
                 PROVE  i = j
      OBVIOUS
    <3>1. StartHeight + i - 1 = StartHeight + j - 1
      BY <1>7
    <3> QED
      BY <1>5, <3>1, BlockFacts
  <2>6. \A i \in 1 .. n : view[i] # f
    <3> SUFFICES ASSUME NEW i \in 1 .. n, view[i] = f
                 PROVE  FALSE
      OBVIOUS
    <3>1. StartHeight + i - 1 = StartHeight + n
      BY <1>6, <1>7
    <3> QED
      BY <1>5, <3>1, BlockFacts
  \* The keys :c along the new path.
  <2>7. /\ \A i \in k .. n : view[i] \in DOMAIN ChildOf(f)
        /\ \A i \in k .. n - 1 : ChildOf(f)[view[i]] = view[i + 1]
        /\ ChildOf(f)[view[n]] = f
    <3>1. Parent[f] = view[n]
      BY <1>6, <1>10
    <3>2. \A i \in k .. n : i \in k .. n - 1 \/ i = n
      BY <1>5, <2>1
    <3>3. \A i \in k .. n - 1 : i \in 1 .. n /\ i # n
      BY <1>5, <2>1
    <3>4. n \in 1 .. n
      BY <1>5, <1>10
    <3>5. \A i \in k .. n - 1 : view[i] # view[n]
      BY <2>5, <3>3, <3>4
    <3>6. DOMAIN ChildOf(f) = DOMAIN child \cup {view[n]}
      BY <3>1 DEF ChildOf
    <3>7. \A x \in DOMAIN ChildOf(f) : ChildOf(f)[x] = IF x = view[n] THEN f ELSE child[x]
      BY <3>1 DEF ChildOf
    <3> QED
      BY <2>2, <3>2, <3>5, <3>6, <3>7
  <2>8. \A i \in k .. n : ChildOf(f)[view'[i]] = view'[i + 1] /\ view'[i] = view[i]
    <3>1. \A i \in k .. n : i \in 1 .. n /\ (i = n \/ (i \in k .. n - 1 /\ i + 1 \in 1 .. n))
      BY <1>5, <2>1
    <3> QED
      BY <1>4, <2>7, <3>1
  <2>9. {view'[i] : i \in k .. n + 1} = bodies \cup {f}
    <3>1. k .. n + 1 = (k .. n) \cup {n + 1}
      BY <1>5, <2>1
    <3>2. {view'[i] : i \in k .. n + 1} = {view'[i] : i \in k .. n} \cup {view'[n + 1]}
      BY <3>1
    <3>3. {view'[i] : i \in k .. n} = {view[i] : i \in k .. n}
      BY <2>8
    <3> QED
      BY <1>4, <2>2, <3>2, <3>3
  <2>10. CASE AppendOnly(f)
    <3>1. ~(n + 1 = k + MaxDepth) /\ bodies' = bodies \cup {f} /\ child' = ChildOf(f)
      BY <2>4, <2>10 DEF AppendOnly
    <3>2. oldest' = view'[k]
      BY <1>4, <2>1, <2>2, <2>3, <2>10 DEF AppendOnly
    <3>3. n + 1 < k + MaxDepth
      BY <1>5, <2>1, <2>2, <3>1, BlockFacts
    <3>4. \A i \in k .. (n + 1) - 1 : view'[i] \in DOMAIN child' /\ child'[view'[i]] = view'[i + 1]
      <4>1. (n + 1) - 1 = n
        BY <1>5
      <4> QED
        BY <2>7, <2>8, <3>1, <4>1
    <3>5. k \in 1 .. n + 1
      BY <1>5, <2>1
    <3>6. KeepsFrom(k)'
      BY <1>1, <1>4, <2>9, <3>1, <3>2, <3>3, <3>4, <3>5 DEF KeepsFrom, f
    <3> QED
      BY <1>1, <1>4, <1>8, <3>5, <3>6 DEF CacheInv
  <2>11. CASE AppendAndPrune(f)
    <3>1. /\ n + 1 = k + MaxDepth /\ bodies' = (bodies \cup {f}) \ {view[k]}
          /\ child' = [x \in DOMAIN ChildOf(f) \ {view[k]} |-> ChildOf(f)[x]]
          /\ oldest' = ChildOf(f)[view[k]]
      BY <2>2, <2>4, <2>11 DEF AppendAndPrune
    <3>2. oldest' = view'[k + 1]
      <4>1. k \in k .. n
        BY <1>5, <2>1
      <4> QED
        BY <2>8, <3>1, <4>1
    <3>3. n + 1 < (k + 1) + MaxDepth /\ k + 1 \in 1 .. n + 1
      BY <1>5, <2>1, <3>1, BlockFacts
    <3>4. \A i \in k + 1 .. n : view'[i] # view[k] /\ i \in k .. n
      <4>1. \A i \in k + 1 .. n : i \in 1 .. n /\ i # k /\ i \in k .. n
        BY <1>5, <2>1
      <4> QED
        BY <2>1, <2>5, <2>8, <4>1
    <3>5. \A i \in k + 1 .. (n + 1) - 1 :
             view'[i] \in DOMAIN child' /\ child'[view'[i]] = view'[i + 1]
      <4>1. (n + 1) - 1 = n
        BY <1>5
      <4>2. /\ DOMAIN child' = DOMAIN ChildOf(f) \ {view[k]}
            /\ \A x \in DOMAIN child' : child'[x] = ChildOf(f)[x]
        BY <3>1
      <4> QED
        BY <2>7, <2>8, <3>4, <4>1, <4>2
    <3>6. bodies' = {view'[i] : i \in k + 1 .. n + 1}
      <4>1. k .. n + 1 = {k} \cup (k + 1 .. n + 1)
        BY <1>5, <2>1
      <4>2. \A i \in k + 1 .. n + 1 : view'[i] # view[k]
        <5>1. \A i \in k + 1 .. n + 1 : i \in k + 1 .. n \/ i = n + 1
          BY <1>5, <2>1
        <5> QED
          BY <1>4, <2>1, <2>6, <3>4, <5>1
      <4>3. view'[k] = view[k]
        BY <1>4, <2>1
      <4>4. {view'[i] : i \in k .. n + 1} = {view'[k]} \cup {view'[i] : i \in k + 1 .. n + 1}
        BY <4>1
      <4> QED
        BY <2>9, <3>1, <4>2, <4>3, <4>4
    <3>7. KeepsFrom(k + 1)'
      BY <1>1, <1>4, <3>2, <3>3, <3>5, <3>6 DEF KeepsFrom, f
    <3> QED
      BY <1>1, <1>4, <1>8, <3>3, <3>7 DEF CacheInv
  <2> QED
    BY <2>10, <2>11 DEF RollForward, f
<1> QED
  BY <1>9, <1>10

LEMMA BackwardType ==
    ASSUME SyncInv, RollBackward
    PROVE  TypeOK' /\ FetchedNext' /\ best \in Blocks
<1>1. /\ fetched \in Blocks /\ Height[fetched] = next /\ Height[fetched] # StartHeight
      /\ best \in Blocks /\ best \in bodies
  BY DEF SyncInv, TypeOK, BlockOrNone, FetchedNext, RollBackward, Linked
<1>2. next' \in Nat
  <2>1. Height[fetched] \in Nat /\ StartHeight \in Nat /\ Height[fetched] >= StartHeight
    BY <1>1, BlockFacts, Roots
  <2>2. next' = next - 1
    BY DEF RollBackward
  <2> QED
    BY <1>1, <2>1, <2>2
<1>3. view' \in Seq(Blocks)
  BY FrontView DEF SyncInv, RollBackward, TypeOK
<1>4. best' \in BlockOrNone
  BY <1>1, BlockFacts DEF RollBackward, BestAfter, BlockOrNone
<1>5. /\ bodies' \subseteq stored' /\ discarded' \subseteq Blocks /\ taint' \subseteq Reasons
      /\ fetched' = NoBlock
      /\ UNCHANGED <<node, stored, child, oldest, tipReached, halted, moves, restarts>>
  BY <1>1 DEF RollBackward, SyncInv, TypeOK, Reasons
<1>6. TypeOK'
  BY <1>2, <1>3, <1>4, <1>5 DEF SyncInv, TypeOK, BlockOrNone
<1> QED
  BY <1>1, <1>5, <1>6 DEF FetchedNext

\* What is rolled back is the consumer's last block, and the new best block is
\* the one before it, if the cache still has that one.
LEMMA BackwardPath ==
    ASSUME SyncInv, RollBackward, InSync'
    PROVE  /\ InSync
           /\ view # <<>> /\ view' = Front(view) /\ best = view[Len(view)]
           /\ PathInv'
<1>1. InSync /\ PathInv /\ best \in Blocks /\ best # NoBlock
  BY BackwardType, BlockFacts DEF RollBackward, SyncInv, InSync
<1> DEFINE n == Len(view)
<1>2. view # <<>> /\ best = view[n] /\ view' = Front(view)
  BY <1>1 DEF PathInv, RollBackward
<1>3. /\ view' \in Seq(Blocks) /\ Len(view') = n - 1 /\ DOMAIN view' = 1 .. n - 1
      /\ (\A i \in 1 .. n - 1 : view'[i] = view[i])
      /\ ToSet(view) = ToSet(view') \cup {view[n]}
  BY <1>2, FrontView DEF SyncInv
<1>4. n \in Nat \ {0} /\ DOMAIN view = 1 .. n
  BY <1>2, ViewFacts DEF SyncInv
<1>5. /\ next = StartHeight + n
      /\ \A i \in 1 .. n : Height[view[i]] = StartHeight + i - 1
      /\ \A i \in 1 .. n : i + 1 \in 1 .. n => Parent[view[i + 1]] = view[i]
      /\ stored \subseteq ToSet(view) \cup discarded
      /\ oldest # NoBlock
  BY <1>1, <1>2, <1>4 DEF PathInv
<1>50. view[n] \in Blocks
  BY <1>1, <1>2
<1> HIDE DEF n
<1>6. next' = StartHeight + Len(view')
  <2>1. next' = next - 1
    BY DEF RollBackward
  <2> QED
    BY <1>3, <1>4, <1>5, <2>1, BlockFacts
<1>7. \A i \in DOMAIN view' : Height[view'[i]] = StartHeight + i - 1
  <2>1. \A i \in 1 .. n - 1 : i \in 1 .. n
    BY <1>4
  <2> QED
    BY <1>3, <1>5, <2>1
<1>8. \A i \in DOMAIN view' : i + 1 \in DOMAIN view' => Parent[view'[i + 1]] = view'[i]
  <2>1. \A i \in 1 .. n - 1 : i \in 1 .. n
    BY <1>4
  <2> QED
    BY <1>3, <1>5, <2>1
<1>9. stored' \subseteq ToSet(view') \cup discarded'
  <2>1. stored' = stored /\ discarded' = discarded \cup {best}
    BY DEF RollBackward
  <2> QED
    BY <1>2, <1>3, <1>5, <2>1
<1>10. ASSUME best' # NoBlock
       PROVE  view' # <<>> /\ best' = view'[Len(view')]
  <2>1. Parent[view[n]] \in stored /\ best' = Parent[view[n]]
    BY <1>2, <1>10 DEF RollBackward, BestAfter
  <2>2. Parent[view[n]] # NoBlock
    BY <2>1, BlockFacts DEF SyncInv, TypeOK
  <2>3. n # 1
    <3>1. Height[view[n]] # StartHeight
      BY <1>50, <2>2, Roots
    <3>2. n = 1 => Height[view[n]] = StartHeight
      <4>1. Height[view[n]] = StartHeight + n - 1
        BY <1>4, <1>5
      <4> QED
        BY <4>1, BlockFacts
    <3> QED
      BY <3>1, <3>2
  <2>4. n - 1 \in 1 .. n - 1 /\ n - 1 \in 1 .. n /\ (n - 1) + 1 = n /\ n \in 1 .. n
    BY <1>4, <2>3
  <2>5. Parent[view[n]] = view[n - 1]
    BY <1>5, <2>4
  <2>6. view' # <<>>
    <3>1. Len(view') # 0
      BY <1>3, <2>4
    <3> QED
      BY <3>1
  <2> QED
    BY <1>3, <2>1, <2>4, <2>5, <2>6
<1>11. oldest' # NoBlock
  BY <1>5 DEF RollBackward
<1>12. PathInv'
  BY <1>6, <1>7, <1>8, <1>9, <1>10, <1>11 DEF PathInv
<1> QED
  BY <1>1, <1>2, <1>12 DEF n

LEMMA BackwardCache ==
    ASSUME SyncInv, RollBackward, taint' = {}
    PROVE  CacheInv'
<1> DEFINE n == Len(view)
<1>1. InSync' /\ taint = {} /\ CacheInv /\ best # oldest
  BY DEF RollBackward, SyncInv, InSync
<1>2. view # <<>> /\ view' = Front(view) /\ best = view[n] /\ InSync /\ PathInv
  BY <1>1, BackwardPath DEF SyncInv
<1>3. /\ Len(view') = n - 1 /\ DOMAIN view' = 1 .. n - 1
      /\ \A i \in 1 .. n - 1 : view'[i] = view[i]
  BY <1>2, FrontView DEF SyncInv
<1>4. n \in Nat \ {0} /\ DOMAIN view = 1 .. n
  BY <1>2, ViewFacts DEF SyncInv
<1>5. PICK k \in 1 .. n : KeepsFrom(k)
  BY <1>1, <1>2, <1>4 DEF CacheInv
<1>6. /\ oldest = view[k] /\ n < k + MaxDepth
      /\ bodies = {view[i] : i \in k .. n}
      /\ \A i \in k .. n - 1 : view[i] \in DOMAIN child /\ child[view[i]] = view[i + 1]
  BY <1>5 DEF KeepsFrom
<1>7. /\ \A i \in 1 .. n : Height[view[i]] = StartHeight + i - 1
      /\ \A i \in 1 .. n : i + 1 \in 1 .. n => Parent[view[i + 1]] = view[i]
  BY <1>2, <1>4 DEF PathInv
<1> HIDE DEF n
<1>8. k \in 1 .. n - 1 /\ n - 1 \in 1 .. n - 1
  <2>1. k # n
    BY <1>1, <1>2, <1>6
  <2> QED
    BY <1>4, <1>5, <2>1
<1>9. \A i \in 1 .. n - 1 : view[i] # view[n]
  <2> SUFFICES ASSUME NEW i \in 1 .. n - 1, view[i] = view[n]
               PROVE  FALSE
    OBVIOUS
  <2>1. i \in 1 .. n /\ n \in 1 .. n /\ i # n
    BY <1>4
  <2>2. StartHeight + i - 1 = StartHeight + n - 1
    BY <1>7, <2>1
  <2> QED
    BY <1>4, <2>1, <2>2, BlockFacts
<1>10. bodies' = {view'[i] : i \in k .. n - 1}
  <2>1. k .. n = (k .. n - 1) \cup {n} /\ k .. n - 1 \subseteq 1 .. n - 1
    BY <1>4, <1>8
  <2>2. bodies = {view[i] : i \in k .. n - 1} \cup {view[n]}
    BY <1>6, <2>1
  <2>3. {view'[i] : i \in k .. n - 1} = {view[i] : i \in k .. n - 1}
    BY <1>3, <2>1
  <2>4. bodies' = bodies \ {view[n]}
    BY <1>2 DEF RollBackward
  <2>5. view[n] \notin {view[i] : i \in k .. n - 1}
    BY <1>9, <2>1
  <2> DEFINE kept == {view[i] : i \in k .. n - 1}
  <2> HIDE DEF kept
  <2>6. bodies' = kept
    BY <2>2, <2>4, <2>5 DEF kept
  <2> QED
    BY <2>3, <2>6 DEF kept
<1>11. best' = view'[n - 1]
  <2>1. Parent[view[n]] = view[n - 1]
    <3>1. n - 1 \in 1 .. n /\ (n - 1) + 1 = n /\ n \in 1 .. n
      BY <1>4, <1>8
    <3> QED
      BY <1>7, <3>1
  <2>2. view[n - 1] \in stored
    <3>1. n - 1 \in k .. n
      BY <1>4, <1>8
    <3> QED
      BY <1>6, <3>1 DEF SyncInv, TypeOK
  <2> QED
    BY <1>2, <1>3, <1>8, <2>1, <2>2 DEF RollBackward, BestAfter
<1>12. \A i \in k .. (n - 1) - 1 : view'[i] \in DOMAIN child' /\ child'[view'[i]] = view'[i + 1]
  <2>1. \A i \in k .. (n - 1) - 1 : i \in k .. n - 1 /\ i \in 1 .. n - 1 /\ i + 1 \in 1 .. n - 1
    BY <1>4, <1>8
  <2>2. child' = child
    BY DEF RollBackward
  <2> QED
    BY <1>3, <1>6, <2>1, <2>2
<1>13. n - 1 < k + MaxDepth
  BY <1>4, <1>6, <1>8, BlockFacts
<1>14. oldest' = view'[k]
  BY <1>3, <1>6, <1>8 DEF RollBackward
<1>15. KeepsFrom(k)'
  BY <1>3, <1>8, <1>10, <1>11, <1>12, <1>13, <1>14 DEF KeepsFrom
<1>16. MaxDepth # 1
  BY <1>4, <1>6, <1>8
<1>17. ~halted' /\ view' # <<>>
  BY <1>3, <1>8 DEF RollBackward
<1> QED
  BY <1>3, <1>8, <1>15, <1>16, <1>17 DEF CacheInv

\* No unwrap fails: the oldest block has its keys and the best one its
\* transactions.
LEMMA PanicTaints ==
    ASSUME SyncInv, Panic
    PROVE  taint # {}
<1> SUFFICES ASSUME taint = {}
             PROVE  FALSE
  OBVIOUS
<1> DEFINE n == Len(view)
<1>1. CacheInv /\ InSync /\ PathInv
  BY DEF SyncInv, InSync
<1>2. n \in Nat /\ DOMAIN view = 1 .. n /\ (view # <<>> <=> n # 0)
  BY ViewFacts DEF SyncInv
<1>3. view # <<>>
  <2>1. CASE view = <<>>
    <3>1. oldest = NoBlock /\ stored = {}
      BY <1>1, <2>1 DEF CacheInv
    <3> QED
      BY <3>1 DEF Panic, AppendPanics, AtCapacity
  <2> QED
    BY <2>1
<1>4. PICK k \in 1 .. n : KeepsFrom(k)
  BY <1>1, <1>2, <1>3 DEF CacheInv
<1>5. /\ oldest = view[k] /\ best = view[n]
      /\ bodies = {view[i] : i \in k .. n}
      /\ \A i \in k .. n - 1 : view[i] \in DOMAIN child
  BY <1>4 DEF KeepsFrom
<1>6. best \in bodies /\ oldest \in stored
  <2>1. k \in k .. n /\ n \in k .. n
    BY <1>2, <1>4
  <2> QED
    BY <1>5, <2>1 DEF SyncInv, TypeOK
<1>7. /\ Linked(fetched) /\ AtCapacity(fetched) /\ oldest \notin DOMAIN ChildOf(fetched)
      /\ fetched # NoBlock
  BY <1>6 DEF Panic, AppendPanics
<1>8. k = n
  <2>1. k \notin k .. n - 1
    BY <1>5, <1>7 DEF ChildOf
  <2>2. n \in Nat /\ k \in 1 .. n
    BY <1>2, <1>4
  <2> HIDE DEF n
  <2>3. k # n => k \in k .. n - 1
    BY <2>2
  <2> QED
    BY <2>1, <2>3
<1>9. Height[fetched] = StartHeight + n
  BY <1>1, <1>7 DEF SyncInv, FetchedNext, PathInv
<1>10. MaxDepth = 1
  <2>1. Height[oldest] = StartHeight + n - 1
    BY <1>1, <1>2, <1>4, <1>5, <1>8 DEF PathInv
  <2>2. Height[fetched] = Height[oldest] + MaxDepth
    BY <1>7 DEF AtCapacity
  <2> HIDE DEF n
  <2> QED
    BY <1>2, <1>9, <2>1, <2>2, BlockFacts
<1>11. Parent[fetched] \notin discarded
  BY <1>1, <1>10 DEF CacheInv
<1>12. Parent[fetched] = view[n]
  BY <1>1, <1>3, <1>7, <1>11, LinksToLast
<1> QED
  BY <1>5, <1>7, <1>8, <1>12 DEF ChildOf

LEMMA RestartInv ==
    ASSUME SyncInv, Restart
    PROVE  SyncInv'
<1>1. next' \in Nat
  <2>1. best # NoBlock => Height[best] \in Nat
    BY BlockFacts DEF SyncInv, TypeOK, BlockOrNone
  <2> QED
    BY <2>1, BlockFacts DEF Restart
<1>2. restarts' \in 0..MaxRestarts
  BY ChainAssumption DEF Restart, SyncInv, TypeOK
<1>3. TypeOK' /\ FetchedNext'
  BY <1>1, <1>2 DEF Restart, SyncInv, TypeOK, FetchedNext, cache, BlockOrNone, Reasons
<1>4. CASE best # NoBlock \/ oldest # NoBlock
  <2>1. "restart" \in taint'
    BY <1>4 DEF Restart
  <2>2. ~InSync' /\ taint' # {}
    BY <2>1 DEF InSync
  <2> QED
    BY <1>3, <2>2 DEF SyncInv
<1>5. CASE best = NoBlock /\ oldest = NoBlock
  <2>1. /\ taint' = taint /\ next' = StartHeight /\ ~halted'
        /\ UNCHANGED <<cache, view, discarded>>
    BY <1>5 DEF Restart
  <2>2. InSync' => PathInv'
    <3> SUFFICES ASSUME InSync'
                 PROVE  PathInv'
      OBVIOUS
    <3>1. PathInv /\ view = <<>>
      BY <1>5, <2>1 DEF SyncInv, InSync, PathInv
    <3>2. Len(view) = 0
      BY <3>1
    <3>3. next' = StartHeight + Len(view')
      BY <2>1, <3>2, BlockFacts
    <3> QED
      BY <2>1, <3>1, <3>3 DEF PathInv, cache
  <2>3. taint' = {} => CacheInv'
    BY <2>1 DEF SyncInv, CacheInv, KeepsFrom, cache
  <2> QED
    BY <1>3, <2>2, <2>3 DEF SyncInv
<1> QED
  BY <1>4, <1>5

LEMMA StepInv == SyncInv /\ [Next]_vars => SyncInv'
<1> SUFFICES ASSUME SyncInv, [Next]_vars
             PROVE  SyncInv'
  OBVIOUS
<1> USE DEF cache
<1>1. ASSUME NEW b \in Blocks, NodeMoves(b)
      PROVE  SyncInv'
  <2>1. moves' \in 0..MaxMoves
    BY <1>1, ChainAssumption DEF NodeMoves, SyncInv, TypeOK
  <2> QED
    BY <1>1, <2>1, QuietStep DEF NodeMoves, SyncInv, TypeOK, FetchedNext
<1>2. CASE GetBlockAt
  BY <1>2, QuietStep DEF GetBlockAt, SyncInv, TypeOK, BlockOrNone
<1>3. CASE AtTip \/ NetworkError \/ NothingToTake
  BY <1>3, QuietStep DEF AtTip, NetworkError, NothingToTake, NoUpgrade, SyncInv, TypeOK,
                         BlockOrNone
<1>4. CASE RollForward
  BY <1>4, ForwardType, ForwardPath, ForwardCache DEF SyncInv
<1>5. CASE RollBackward
  BY <1>5, BackwardType, BackwardPath, BackwardCache DEF SyncInv
<1>6. CASE Panic
  <2>1. taint # {} /\ taint' = taint
    BY <1>6, PanicTaints DEF Panic
  <2>2. TypeOK' /\ FetchedNext'
    BY <1>6 DEF Panic, SyncInv, TypeOK, FetchedNext
  <2>3. InSync' => PathInv'
    BY <1>6 DEF Panic, SyncInv, InSync, PathInv
  <2> QED
    BY <2>1, <2>2, <2>3 DEF SyncInv
<1>7. CASE Restart
  BY <1>7, RestartInv
<1>8. CASE UNCHANGED vars
  BY <1>8, QuietStep DEF vars, SyncInv, TypeOK, FetchedNext
<1> QED
  BY <1>1, <1>2, <1>3, <1>4, <1>5, <1>6, <1>7, <1>8 DEF Next

LEMMA Inductive == Spec => []SyncInv
  BY InitInv, StepInv, PTL DEF Spec
-----------------------------------------------------------------------------
(***************************************************************************)
(* Every reachable state of the synchroniser is well typed; in particular  *)
(* next_height never falls below zero, because a block at the starting     *)
(* height always links.                                                    *)
(***************************************************************************)
THEOREM TypeCorrect == Spec => []TypeOK
<1>1. SyncInv => TypeOK
  BY DEF SyncInv
<1> QED
  BY <1>1, Inductive, PTL

(***************************************************************************)
(* For any tree of blocks and any rollback depth no unwrap of the cache    *)
(* panics, in append_block or take_best_block, while the cache and the     *)
(* consumer are in step and the oldest block was not rolled back.          *)
(***************************************************************************)
THEOREM NeverPanics == Spec => []NoPanic
<1>1. SyncInv => NoPanic
  BY DEF SyncInv, CacheInv, NoPanic
<1> QED
  BY <1>1, Inductive, PTL

(***************************************************************************)
(* The cache holds exactly the transactions of the blocks the consumer     *)
(* applied from the oldest block on, at most max_rollback_depth of them,   *)
(* so take_best_block can undo them one by one.                            *)
(***************************************************************************)
THEOREM UndoIsPossible == Spec => []CanUndo
<1>1. SyncInv => CanUndo
  <2> SUFFICES ASSUME SyncInv, taint = {}
               PROVE  /\ best = IF view = <<>> THEN NoBlock ELSE Last(view)
                      /\ bodies = {b \in ToSet(view) : Height[b] >= Height[oldest]}
                      /\ Cardinality(bodies) <= MaxDepth
                      /\ view # <<>> => oldest \in bodies
    BY DEF CanUndo
  <2> DEFINE n == Len(view)
  <2>1. CacheInv /\ PathInv
    BY DEF SyncInv, InSync
  <2>2. n \in Nat /\ DOMAIN view = 1 .. n /\ (view # <<>> <=> n # 0)
    BY ViewFacts DEF SyncInv
  <2>3. CASE view = <<>>
    <3>1. best = NoBlock /\ bodies = {}
      BY <2>1, <2>3 DEF CacheInv, SyncInv, TypeOK
    <3>2. ToSet(view) = {}
      BY <2>3 DEF ToSet
    <3>3. Cardinality(bodies) <= MaxDepth
      BY <3>1, FS_EmptySet, BlockFacts
    <3> QED
      BY <2>3, <3>1, <3>2, <3>3
  <2>4. CASE view # <<>>
    <3>1. PICK k \in 1 .. n : KeepsFrom(k)
      BY <2>1, <2>2, <2>4 DEF CacheInv
    <3>2. /\ oldest = view[k] /\ best = view[n] /\ n < k + MaxDepth
          /\ bodies = {view[i] : i \in k .. n}
      BY <3>1 DEF KeepsFrom
    <3>3. \A i \in 1 .. n : Height[view[i]] = StartHeight + i - 1
      BY <2>1, <2>2 DEF PathInv
    <3>4. best = Last(view)
      BY <3>2 DEF Last
    <3> HIDE DEF n
    <3>5. \A i \in 1 .. n : Height[view[i]] >= Height[oldest] <=> i \in k .. n
      <4> SUFFICES ASSUME NEW i \in 1 .. n
                   PROVE  Height[view[i]] >= Height[oldest] <=> i \in k .. n
        OBVIOUS
      <4>1. Height[view[i]] = StartHeight + i - 1 /\ Height[oldest] = StartHeight + k - 1
        BY <3>1, <3>2, <3>3
      <4> QED
        BY <2>2, <3>1, <4>1, BlockFacts
    <3>6. bodies = {b \in ToSet(view) : Height[b] >= Height[oldest]}
      <4>1. \A i \in k .. n : i \in 1 .. n
        BY <2>2, <3>1
      <4> QED
        BY <2>2, <3>2, <3>5, <4>1 DEF ToSet
    <3>7. oldest \in bodies
      <4>1. k \in k .. n
        BY <2>2, <3>1
      <4> QED
        BY <3>2, <4>1
    <3>8. Cardinality(bodies) <= MaxDepth
      <4> DEFINE I == k .. n
                 f == [i \in I |-> view[i]]
      <4>1. f \in Surjection(I, bodies)
        BY <3>2 DEF Surjection
      <4>2. IsFiniteSet(I) /\ Cardinality(I) = n - k + 1
        BY <2>2, <3>1, FS_Interval
      <4> HIDE DEF f, I
      <4>3. /\ IsFiniteSet(bodies)
            /\ Cardinality(bodies) <= Cardinality(I)
        BY <4>1, <4>2, FS_Surjection
      <4>4. Cardinality(bodies) \in Nat
        BY <4>3, FS_CardinalityType
      <4> QED
        BY <2>2, <3>1, <3>2, <4>2, <4>3, <4>4, BlockFacts
    <3> QED
      BY <2>4, <3>4, <3>6, <3>7, <3>8
  <2> QED
    BY <2>3, <2>4
<1> QED
  BY <1>1, Inductive, PTL

(***************************************************************************)
(* What the stream tells its consumer is a walk on the block tree, however *)
(* the node switches forks between a request and its answer, also after    *)
(* the oldest block was rolled back; try_upgrade appends only to the       *)
(* consumer's last block and takes back only that one.                     *)
(***************************************************************************)
THEOREM StreamFollowsChain == Spec => FollowsChain
<1> DEFINE Walk == InSync' /\ view' # view =>
                     \/ /\ view' = Append(view, best')
                        /\ view = <<>> \/ Parent[best'] = Last(view)
                     \/ /\ view # <<>> /\ view' = Front(view)
                        /\ Last(view) = best /\ best \in discarded'
<1>1. ASSUME SyncInv, [Next]_vars
      PROVE  Walk
  <2> SUFFICES ASSUME InSync', view' # view
               PROVE  \/ /\ view' = Append(view, best')
                         /\ view = <<>> \/ Parent[best'] = Last(view)
                      \/ /\ view # <<>> /\ view' = Front(view)
                         /\ Last(view) = best /\ best \in discarded'
    OBVIOUS
  <2>1. RollForward \/ RollBackward
    BY <1>1 DEF Next, vars, NodeMoves, GetBlockAt, AtTip, NetworkError, NothingToTake,
                NoUpgrade, Panic, Restart
  <2>2. CASE RollForward
    <3>1. view' = Append(view, fetched) /\ best' = fetched
      BY <2>2 DEF RollForward, AppendOnly, AppendAndPrune
    <3>2. InSync /\ Parent[fetched] \notin discarded
      BY <1>1, <2>2, ForwardPath
    <3>3. view # <<>> => Parent[fetched] = Last(view)
      BY <1>1, <2>2, <3>2, LinksToLast DEF RollForward, Last
    <3> QED
      BY <3>1, <3>3
  <2>3. CASE RollBackward
    <3>1. view # <<>> /\ view' = Front(view) /\ best = view[Len(view)]
      BY <1>1, <2>3, BackwardPath
    <3>2. best \in discarded'
      BY <2>3 DEF RollBackward
    <3> QED
      BY <3>1, <3>2 DEF Last
  <2> QED
    BY <2>1, <2>2, <2>3
<1>2. SyncInv /\ [Next]_vars => [Walk]_vars
  BY <1>1
<1> QED
  BY <1>2, Inductive, PTL DEF Spec, FollowsChain
=============================================================================
