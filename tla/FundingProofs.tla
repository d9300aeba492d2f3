---------------------------- MODULE FundingProofs ----------------------------
(***************************************************************************)
(* The funding repository follows the ledger, and collect returns what it  *)
(* is asked for: Funding for any transactions, wallet, targets and length  *)
(* of the channel.  The first part is about module LedgerFeed alone, and   *)
(* OrdersProofs uses it too: what an event does to the set of unspent      *)
(* boxes, and what the channel between a handler and its stream has still  *)
(* to say about a box.                                                     *)
(***************************************************************************)
EXTENDS Funding, SequenceTheorems, SumProofs

-----------------------------------------------------------------------------
\* A transaction is applied once, after those whose boxes it spends.
ChainInv ==
    /\ chain \in Seq(Txs)
    /\ \A i, j \in DOMAIN chain : chain[i] = chain[j] => i = j
    /\ \A i, j \in DOMAIN chain : Inputs[chain[i]] \cap Outputs[chain[j]] # {} => j < i
    /\ Spent \subseteq Created

LEMMA FeedFacts ==
    /\ \A t, u \in Txs : Outputs[t] \cap Outputs[u] # {} => t = u
    /\ \A t \in Txs : Outputs[t] \cap (Inputs[t] \cup Genesis) = {}
    /\ \A t \in Txs : IsFiniteSet(Inputs[t] \cup Outputs[t])
  BY FeedAssumption

LEMMA ToSetAppend ==
    ASSUME NEW S, NEW s \in Seq(S), NEW x \in S
    PROVE  ToSet(Append(s, x)) = ToSet(s) \cup {x}
<1>1. Len(Append(s, x)) = Len(s) + 1 /\ DOMAIN Append(s, x) = 1 .. Len(s) + 1
  BY AppendProperties
<1>2. \A i \in 1 .. Len(s) : Append(s, x)[i] = s[i]
  BY AppendProperties
<1>3. Append(s, x)[Len(s) + 1] = x
  BY AppendProperties
<1>4. DOMAIN s = 1 .. Len(s) /\ Len(s) \in Nat
  BY LenProperties
<1>5. DOMAIN Append(s, x) = DOMAIN s \cup {Len(s) + 1}
  BY <1>1, <1>4
<1> QED
  BY <1>2, <1>3, <1>4, <1>5 DEF ToSet

LEMMA FrontFacts ==
    ASSUME NEW S, NEW s \in Seq(S), s # <<>>
    PROVE  /\ Len(s) \in Nat \ {0}
           /\ Front(s) \in Seq(S)
           /\ DOMAIN Front(s) = 1 .. Len(s) - 1
           /\ \A i \in 1 .. Len(s) - 1 : Front(s)[i] = s[i]
           /\ Last(s) = s[Len(s)]
           /\ DOMAIN s = DOMAIN Front(s) \cup {Len(s)}
<1>1. Len(s) \in Nat \ {0} /\ DOMAIN s = 1 .. Len(s)
  BY LenProperties, EmptySeq
<1>2. Front(s) = [i \in 1 .. Len(s) - 1 |-> s[i]]
  BY <1>1 DEF Front
<1>3. \A i \in 1 .. Len(s) - 1 : s[i] \in S
  BY <1>1, ElementOfSeq
<1>4. Front(s) \in Seq(S)
  BY <1>1, <1>2, <1>3
<1>5. Last(s) = s[Len(s)]
  BY DEF Last
<1>6. 1 .. Len(s) = (1 .. Len(s) - 1) \cup {Len(s)}
  BY <1>1
<1> QED
  BY <1>1, <1>2, <1>4, <1>5, <1>6

LEMMA FeedInitChain == FeedInit => ChainInv
  BY DEF FeedInit, ChainInv, Spent, Created, ToSet

\* An applied transaction spends unspent boxes and creates new ones.
LEMMA AppliedFacts ==
    ASSUME ChainInv, NEW t \in Txs, AppliedTx(t)
    PROVE  /\ ChainInv'
           /\ Outputs[t] \cap Created = {}
           /\ Unspent' = (Unspent \ Inputs[t]) \cup Outputs[t]
<1>1. /\ chain \in Seq(Txs) /\ t \notin ToSet(chain) /\ Inputs[t] \subseteq Unspent
      /\ chain' = Append(chain, t)
  BY DEF ChainInv, AppliedTx
<1>2. ToSet(chain') = ToSet(chain) \cup {t}
  BY <1>1, ToSetAppend
<1>3. Created' = Created \cup Outputs[t] /\ Spent' = Spent \cup Inputs[t]
  BY <1>2 DEF Created, Spent
<1>4. \A u \in ToSet(chain) : u \in Txs /\ u # t
  BY <1>1 DEF ToSet
<1>5. Outputs[t] \cap Created = {} /\ Outputs[t] \cap Inputs[t] = {}
  BY <1>4, FeedFacts DEF Created
<1>6. Spent \subseteq Created
  BY DEF ChainInv
<1>7. Unspent' = (Unspent \ Inputs[t]) \cup Outputs[t]
  BY <1>3, <1>5, <1>6 DEF Unspent
<1>8. Spent' \subseteq Created'
  BY <1>1, <1>3, <1>6 DEF Unspent
<1>9. /\ chain' \in Seq(Txs) /\ DOMAIN chain' = DOMAIN chain \cup {Len(chain) + 1}
      /\ \A i \in DOMAIN chain : chain'[i] = chain[i]
      /\ chain'[Len(chain) + 1] = t
      /\ DOMAIN chain = 1 .. Len(chain) /\ Len(chain) \in Nat
  <2>1. DOMAIN chain = 1 .. Len(chain) /\ Len(chain) \in Nat
    BY <1>1, LenProperties
  <2> QED
    BY <1>1, <2>1, AppendProperties
<1>10. ASSUME NEW i \in DOMAIN chain', NEW j \in DOMAIN chain', chain'[i] = chain'[j]
       PROVE  i = j
  <2>1. \A k \in DOMAIN chain : chain[k] # t
    BY <1>1 DEF ToSet
  <2> QED
    BY <1>9, <1>10, <2>1 DEF ChainInv
<1>11. ASSUME NEW i \in DOMAIN chain', NEW j \in DOMAIN chain',
              Inputs[chain'[i]] \cap Outputs[chain'[j]] # {}
       PROVE  j < i
  <2>1. CASE i \in DOMAIN chain /\ j \in DOMAIN chain
    BY <1>9, <1>11, <2>1 DEF ChainInv
  <2>2. CASE i = Len(chain) + 1 /\ j \in DOMAIN chain
    BY <1>9, <2>2
  <2>3. CASE i = Len(chain) + 1 /\ j = Len(chain) + 1
    BY <1>5, <1>9, <1>11, <2>3
  <2>4. CASE i \in DOMAIN chain /\ j = Len(chain) + 1
    <3>1. Inputs[chain[i]] \subseteq Spent
      BY <2>4 DEF Spent, ToSet
    <3> QED
      BY <1>5, <1>6, <1>9, <1>11, <2>4, <3>1
  <2> QED
    BY <1>9, <2>1, <2>2, <2>3, <2>4
<1>12. ChainInv'
  BY <1>8, <1>9, <1>10, <1>11 DEF ChainInv
<1> QED
  BY <1>5, <1>7, <1>12

\* Undoing the last transaction takes its boxes away and gives back only what
\* it spent.
LEMMA UnappliedFacts ==
    ASSUME ChainInv, NEW t \in Txs, UnappliedTx(t)
    PROVE  /\ ChainInv'
           /\ Unspent \ Outputs[t] \subseteq Unspent'
           /\ Unspent' \subseteq (Unspent \ Outputs[t]) \cup Inputs[t]
<1> DEFINE n == Len(chain)
<1>1. chain \in Seq(Txs) /\ chain # <<>> /\ t = Last(chain) /\ chain' = Front(chain)
  BY DEF ChainInv, UnappliedTx
<1>2. /\ n \in Nat \ {0} /\ chain' \in Seq(Txs) /\ DOMAIN chain' = 1 .. n - 1
      /\ \A i \in 1 .. n - 1 : chain'[i] = chain[i]
      /\ t = chain[n] /\ DOMAIN chain = DOMAIN chain' \cup {n}
  BY <1>1, FrontFacts
<1> HIDE DEF n
<1>3. ToSet(chain) = ToSet(chain') \cup {t}
  BY <1>2 DEF ToSet
<1>4. Created = Created' \cup Outputs[t] /\ Spent = Spent' \cup Inputs[t]
  BY <1>3 DEF Created, Spent
<1>5. ASSUME NEW i \in DOMAIN chain'
      PROVE  chain'[i] # t /\ Inputs[chain'[i]] \cap Outputs[t] = {}
  <2>1. i \in DOMAIN chain /\ n \in DOMAIN chain /\ i < n /\ chain'[i] = chain[i]
    BY <1>2
  <2>2. chain[i] # chain[n]
    BY <1>2, <2>1 DEF ChainInv
  <2>3. Inputs[chain[i]] \cap Outputs[chain[n]] = {}
    BY <1>2, <2>1 DEF ChainInv
  <2> QED
    BY <1>2, <2>1, <2>2, <2>3
<1>6. Created' \cap Outputs[t] = {}
  <2>1. \A u \in ToSet(chain') : u \in Txs /\ u # t
    BY <1>2, <1>5 DEF ToSet
  <2> QED
    BY <2>1, FeedFacts DEF Created
<1>7. Spent' \cap Outputs[t] = {}
  BY <1>5 DEF Spent, ToSet
<1>8. Spent' \subseteq Created'
  BY <1>4, <1>7 DEF ChainInv
<1>9. ChainInv'
  BY <1>2, <1>8 DEF ChainInv
<1> QED
  BY <1>4, <1>6, <1>9 DEF Unspent
-----------------------------------------------------------------------------
\* An update of box b is in the channel q, and the last one of them is op.
Touches(q, b) == \E i \in DOMAIN q : q[i].box = b

LastIs(q, b, op) ==
    \E i \in DOMAIN q :
        /\ q[i].box = b /\ q[i].op = op
        /\ \A j \in DOMAIN q : j > i => q[j].box # b

\* When the channel is empty, b will be in the store that now contains set:
\* add is the update that puts it there.
WillHave(q, set, b, add) == LastIs(q, b, add) \/ (~Touches(q, b) /\ b \in set)

\* An update op of b is in the channel; no update of b comes before one.
Has(q, b, op) == \E i \in DOMAIN q : q[i].box = b /\ q[i].op = op

First(q, b, op) ==
    \A i, j \in DOMAIN q : q[i].box = b /\ q[i].op = op /\ j < i => q[j].box # b

\* The elements of a concatenation.
LEMMA ConcatIndex ==
    ASSUME NEW S, NEW q \in Seq(S), NEW e \in Seq(S)
    PROVE  /\ Len(q) \in Nat /\ Len(e) \in Nat
           /\ DOMAIN q = 1 .. Len(q) /\ DOMAIN e = 1 .. Len(e)
           /\ \A i \in 1 .. Len(q) : i \in DOMAIN (q \o e) /\ (q \o e)[i] = q[i]
           /\ \A i \in 1 .. Len(e) :
                 Len(q) + i \in DOMAIN (q \o e) /\ (q \o e)[Len(q) + i] = e[i]
           /\ \A k \in DOMAIN (q \o e) :
                 k \in 1 .. Len(q) \/ \E i \in 1 .. Len(e) : k = Len(q) + i
<1> DEFINE c == q \o e
           m == Len(q)
           n == Len(e)
<1>1. /\ m \in Nat /\ n \in Nat /\ DOMAIN q = 1 .. m /\ DOMAIN e = 1 .. n
      /\ c \in Seq(S) /\ Len(c) = m + n /\ DOMAIN c = 1 .. m + n
  BY LenProperties, ConcatProperties
<1>2. \A i \in 1 .. m + n : c[i] = IF i <= m THEN q[i] ELSE e[i - m]
  BY <1>1, ConcatProperties
<1>3. \A i \in 1 .. n : m + i \in 1 .. m + n /\ ~(m + i <= m) /\ (m + i) - m = i
  BY <1>1
<1>4. \A k \in 1 .. m + n : k \in 1 .. m \/ (k - m \in 1 .. n /\ k = m + (k - m))
  BY <1>1
<1>5. \A i \in 1 .. m : i \in 1 .. m + n /\ i <= m
  BY <1>1
<1> HIDE DEF c, m, n
<1>6. /\ \A i \in 1 .. m : i \in DOMAIN c /\ c[i] = q[i]
      /\ \A i \in 1 .. n : m + i \in DOMAIN c /\ c[m + i] = e[i]
      /\ \A k \in DOMAIN c : k \in 1 .. m \/ \E i \in 1 .. n : k = m + i
  BY <1>1, <1>2, <1>3, <1>4, <1>5
<1> QED
  BY <1>1, <1>6 DEF c, m, n

LEMMA ConcatFacts ==
    ASSUME NEW S, NEW q \in Seq(S), NEW e \in Seq(S), NEW b, NEW op
    PROVE  /\ Touches(q \o e, b) <=> Touches(q, b) \/ Touches(e, b)
           /\ LastIs(q \o e, b, op) <=>
                 LastIs(e, b, op) \/ (~Touches(e, b) /\ LastIs(q, b, op))
<1> DEFINE c == q \o e
           m == Len(q)
           n == Len(e)
<1>1. m \in Nat /\ n \in Nat /\ DOMAIN q = 1 .. m /\ DOMAIN e = 1 .. n
  BY ConcatIndex
<1>2. /\ \A i \in 1 .. m : i \in DOMAIN c /\ c[i] = q[i]
      /\ \A i \in 1 .. n : m + i \in DOMAIN c /\ c[m + i] = e[i]
      /\ \A k \in DOMAIN c : k \in 1 .. m \/ \E i \in 1 .. n : k = m + i
  BY ConcatIndex
<1> HIDE DEF c, m, n
<1>3. Touches(c, b) <=> Touches(q, b) \/ Touches(e, b)
  <2>1. Touches(q, b) \/ Touches(e, b) => Touches(c, b)
    BY <1>1, <1>2 DEF Touches
  <2>2. ASSUME NEW k \in DOMAIN c, c[k].box = b
        PROVE  Touches(q, b) \/ Touches(e, b)
    <3>1. CASE k \in 1 .. m
      BY <1>1, <1>2, <2>2, <3>1 DEF Touches
    <3>2. ASSUME NEW i \in 1 .. n, k = m + i
          PROVE  Touches(e, b)
      BY <1>1, <1>2, <2>2, <3>2 DEF Touches
    <3> QED
      BY <1>2, <3>1, <3>2
  <2> QED
    BY <2>1, <2>2 DEF Touches
<1>4. ASSUME LastIs(c, b, op)
      PROVE  LastIs(e, b, op) \/ (~Touches(e, b) /\ LastIs(q, b, op))
  <2>1. PICK k \in DOMAIN c : /\ c[k].box = b /\ c[k].op = op
                              /\ \A j \in DOMAIN c : j > k => c[j].box # b
    BY <1>4 DEF LastIs
  <2>2. CASE k \in 1 .. m
    <3>1. \A i \in 1 .. n : m + i > k
      BY <1>1, <2>2
    <3>2. ~Touches(e, b)
      BY <1>1, <1>2, <2>1, <3>1 DEF Touches
    <3>3. LastIs(q, b, op)
      BY <1>1, <1>2, <2>1, <2>2 DEF LastIs
    <3> QED
      BY <3>2, <3>3
  <2>3. ASSUME NEW i \in 1 .. n, k = m + i
        PROVE  LastIs(e, b, op)
    <3>1. \A j \in 1 .. n : j > i => m + j > k
      BY <1>1, <2>3
    <3>2. e[i].box = b /\ e[i].op = op
      BY <1>2, <2>1, <2>3
    <3>3. \A j \in 1 .. n : j > i => e[j].box # b
      BY <1>1, <1>2, <2>1, <3>1
    <3> QED
      BY <1>1, <3>2, <3>3 DEF LastIs
  <2> QED
    BY <1>2, <2>2, <2>3
<1>5. ASSUME LastIs(e, b, op)
      PROVE  LastIs(c, b, op)
  <2>1. PICK i \in 1 .. n : /\ e[i].box = b /\ e[i].op = op
                            /\ \A j \in 1 .. n : j > i => e[j].box # b
    BY <1>1, <1>5 DEF LastIs
  <2>2. ASSUME NEW k \in DOMAIN c, k > m + i
        PROVE  c[k].box # b
    <3>0. k \notin 1 .. m
      BY <1>1, <2>2
    <3>1. PICK j \in 1 .. n : k = m + j
      BY <1>2, <3>0
    <3>2. j > i
      BY <1>1, <2>2, <3>1
    <3> QED
      BY <1>2, <2>1, <3>1, <3>2
  <2> QED
    BY <1>2, <2>1, <2>2 DEF LastIs
<1>6. ASSUME ~Touches(e, b), LastIs(q, b, op)
      PROVE  LastIs(c, b, op)
  <2>1. PICK i \in 1 .. m : /\ q[i].box = b /\ q[i].op = op
                            /\ \A j \in 1 .. m : j > i => q[j].box # b
    BY <1>1, <1>6 DEF LastIs
  <2>2. \A j \in 1 .. n : c[m + j].box # b
    BY <1>1, <1>2, <1>6 DEF Touches
  <2>3. \A k \in DOMAIN c : k > i => c[k].box # b
    BY <1>2, <2>1, <2>2
  <2> QED
    BY <1>2, <2>1, <2>3 DEF LastIs
<1> QED
  BY <1>3, <1>4, <1>5, <1>6 DEF c

LEMMA ConcatFirst ==
    ASSUME NEW S, NEW q \in Seq(S), NEW e \in Seq(S), NEW b, NEW op
    PROVE  /\ Has(q \o e, b, op) <=> Has(q, b, op) \/ Has(e, b, op)
           /\ ~Touches(q, b) /\ First(e, b, op) => First(q \o e, b, op)
           /\ First(q, b, op) /\ ~Has(e, b, op) => First(q \o e, b, op)
<1> DEFINE c == q \o e
           m == Len(q)
           n == Len(e)
<1>1. m \in Nat /\ n \in Nat /\ DOMAIN q = 1 .. m /\ DOMAIN e = 1 .. n
  BY ConcatIndex
<1>2. /\ \A i \in 1 .. m : i \in DOMAIN c /\ c[i] = q[i]
      /\ \A i \in 1 .. n : m + i \in DOMAIN c /\ c[m + i] = e[i]
      /\ \A k \in DOMAIN c : k \in 1 .. m \/ \E i \in 1 .. n : k = m + i
  BY ConcatIndex
<1> HIDE DEF c, m, n
<1>3. Has(q, b, op) \/ Has(e, b, op) => Has(c, b, op)
  BY <1>1, <1>2 DEF Has
<1>4. ASSUME NEW k \in DOMAIN c, c[k].box = b, c[k].op = op
      PROVE  \/ k \in 1 .. m /\ q[k].box = b /\ q[k].op = op
             \/ \E i \in 1 .. n : k = m + i /\ e[i].box = b /\ e[i].op = op
  <2>1. CASE k \in 1 .. m
    BY <1>2, <1>4, <2>1
  <2>2. ASSUME NEW i \in 1 .. n, k = m + i
        PROVE  e[i].box = b /\ e[i].op = op
    BY <1>2, <1>4, <2>2
  <2> QED
    BY <1>2, <2>1, <2>2
<1>5. Has(c, b, op) => Has(q, b, op) \/ Has(e, b, op)
  BY <1>1, <1>4 DEF Has
<1>6. ASSUME ~Touches(q, b), First(e, b, op),
             NEW k \in DOMAIN c, NEW l \in DOMAIN c,
             c[k].box = b, c[k].op = op, l < k
      PROVE  c[l].box # b
  <2>1. PICK i \in 1 .. n : k = m + i /\ e[i].box = b /\ e[i].op = op
    BY <1>1, <1>4, <1>6 DEF Touches
  <2>2. CASE l \in 1 .. m
    BY <1>1, <1>2, <1>6, <2>2 DEF Touches
  <2>3. ASSUME NEW j \in 1 .. n, l = m + j
        PROVE  c[l].box # b
    <3>1. j < i
      BY <1>1, <1>6, <2>1, <2>3
    <3>2. e[j].box # b
      BY <1>1, <1>6, <2>1, <3>1 DEF First
    <3> QED
      BY <1>2, <2>3, <3>2
  <2> QED
    BY <1>2, <2>2, <2>3
<1>7. ASSUME First(q, b, op), ~Has(e, b, op),
             NEW k \in DOMAIN c, NEW l \in DOMAIN c,
             c[k].box = b, c[k].op = op, l < k
      PROVE  c[l].box # b
  <2>1. k \in 1 .. m /\ q[k].box = b /\ q[k].op = op
    BY <1>1, <1>4, <1>7 DEF Has
  <2>2. \A i \in 1 .. n : l # m + i
    BY <1>1, <1>7, <2>1
  <2>3. l \in 1 .. m
    BY <1>2, <2>2
  <2> QED
    BY <1>1, <1>2, <1>7, <2>1, <2>3 DEF First
<1>8. ~Touches(q, b) /\ First(e, b, op) => First(c, b, op)
  BY <1>6 DEF First
<1>9. First(q, b, op) /\ ~Has(e, b, op) => First(c, b, op)
  BY <1>7 DEF First
<1> QED
  BY <1>3, <1>5, <1>8, <1>9 DEF c

LEMMA TailFacts ==
    ASSUME NEW S, NEW q \in Seq(S), q # <<>>, NEW b, NEW op
    PROVE  /\ Tail(q) \in Seq(S)
           /\ Head(q).box # b => /\ Touches(q, b) <=> Touches(Tail(q), b)
                                 /\ LastIs(q, b, op) <=> LastIs(Tail(q), b, op)
           /\ Head(q).box = b =>
                 /\ Touches(q, b)
                 /\ LastIs(q, b, op) <=> \/ LastIs(Tail(q), b, op)
                                         \/ ~Touches(Tail(q), b) /\ Head(q).op = op
           /\ Has(Tail(q), b, op) => Has(q, b, op)
           /\ First(q, b, op) => First(Tail(q), b, op)
           /\ First(q, b, op) /\ Head(q).box = b => ~Has(Tail(q), b, op)
<1>1. Head(q) \in S /\ Tail(q) \in Seq(S) /\ q = <<Head(q)>> \o Tail(q)
  BY HeadTailProperties
<1> DEFINE h == <<Head(q)>>
<1>2. h \in Seq(S) /\ DOMAIN h = {1} /\ h[1] = Head(q)
  BY <1>1
<1>3. /\ Touches(h, b) <=> Head(q).box = b
      /\ LastIs(h, b, op) <=> Head(q).box = b /\ Head(q).op = op
  <2> HIDE DEF h
  <2>1. \A i, j \in DOMAIN h : i = 1 /\ ~(j > i)
    BY <1>2
  <2> QED
    BY <1>2, <2>1 DEF Touches, LastIs
<1> HIDE DEF h
<1>4. /\ Touches(h \o Tail(q), b) <=> Touches(h, b) \/ Touches(Tail(q), b)
      /\ LastIs(h \o Tail(q), b, op) <=>
            LastIs(Tail(q), b, op) \/ (~Touches(Tail(q), b) /\ LastIs(h, b, op))
  BY <1>1, <1>2, ConcatFacts
<1>5. q = h \o Tail(q)
  BY <1>1 DEF h
<1>6. LastIs(Tail(q), b, op) => Touches(Tail(q), b)
  BY DEF LastIs, Touches
<1> DEFINE n == Len(Tail(q))
           r == Tail(q)
<1>7. /\ n \in Nat /\ DOMAIN r = 1 .. n /\ 1 \in DOMAIN q /\ q[1] = Head(q)
      /\ \A i \in 1 .. n : 1 + i \in DOMAIN q /\ q[1 + i] = r[i]
  <2>1. Len(h) = 1
    BY DEF h
  <2> HIDE DEF r
  <2>2. /\ Len(h) \in Nat /\ n \in Nat /\ DOMAIN r = 1 .. n
        /\ \A i \in 1 .. Len(h) : i \in DOMAIN (h \o r) /\ (h \o r)[i] = h[i]
        /\ \A i \in 1 .. n : Len(h) + i \in DOMAIN (h \o r) /\ (h \o r)[Len(h) + i] = r[i]
    BY <1>1, <1>2, ConcatIndex DEF r
  <2>3. q = h \o r
    BY <1>5 DEF r
  <2> HIDE DEF n
  <2> QED
    BY <1>2, <2>1, <2>2, <2>3
<1> HIDE DEF n, r
<1>8. Has(r, b, op) => Has(q, b, op)
  BY <1>7 DEF Has
<1>9. First(q, b, op) => First(r, b, op)
  <2>1. \A i, j \in 1 .. n : j < i => 1 + j < 1 + i
    BY <1>7
  <2> QED
    BY <1>7, <2>1 DEF First
<1>10. First(q, b, op) /\ Head(q).box = b => ~Has(r, b, op)
  <2>1. \A i \in 1 .. n : 1 < 1 + i
    BY <1>7
  <2> QED
    BY <1>7, <2>1 DEF First, Has
<1> QED
  BY <1>1, <1>3, <1>4, <1>5, <1>6, <1>8, <1>9, <1>10 DEF r

\* The updates of a handler name each box once.
LEMMA EventsFacts ==
    ASSUME NEW op, NEW bs, IsFiniteSet(bs)
    PROVE  /\ Events(op, bs) \in Seq([op : {op}, box : bs])
           /\ \A b : Touches(Events(op, bs), b) <=> b \in bs
           /\ \A b, o : LastIs(Events(op, bs), b, o) <=> b \in bs /\ o = op
           /\ \A b, o : Has(Events(op, bs), b, o) <=> b \in bs /\ o = op
           /\ \A b, o : First(Events(op, bs), b, o)
<1> DEFINE U == [op : {op}, box : bs]
           n == Cardinality(U)
           f == [b \in bs |-> [op |-> op, box |-> b]]
           e == Events(op, bs)
<1>1. f \in Surjection(bs, U)
  BY DEF Surjection
<1>2. IsFiniteSet(U)
  <2> HIDE DEF U, f
  <2> QED
    BY <1>1, FS_Surjection
<1> HIDE DEF f
<1>3. n \in Nat /\ ExistsBijection(1 .. n, U)
  <2> HIDE DEF U
  <2> QED
    BY <1>2, FS_CardinalityType
<1>4. \E g \in [1 .. n -> U] : IsInjective(g)
  <2> HIDE DEF U, n
  <2> QED
    BY <1>3 DEF ExistsBijection, Bijection, Injection, IsInjective
<1>5. e \in [1 .. n -> U] /\ IsInjective(e)
  <2>1. e = CHOOSE g \in [1 .. n -> U] : IsInjective(g)
    BY DEF Events, SetToSeq
  <2> HIDE DEF e, U, n
  <2> QED
    BY <1>4, <2>1
<1>6. \A u \in U : \E i \in 1 .. n : e[i] = u
  <2> HIDE DEF e, U
  <2>1. IsFiniteSet(1 .. n) /\ Cardinality(1 .. n) = n
    <3> HIDE DEF n
    <3> QED
      BY <1>3, FS_Interval
  <2>2. e \in Injection(1 .. n, U)
    BY <1>5 DEF Injection
  <2>3. e \in Surjection(1 .. n, U)
    <3>1. Cardinality(1 .. n) = Cardinality(U)
      BY <2>1
    <3> HIDE DEF n
    <3> QED
      BY <1>2, <2>2, <3>1, FS_Injection
  <2> QED
    BY <2>3 DEF Surjection
<1>7. e \in Seq(U) /\ DOMAIN e = 1 .. n
  <2> HIDE DEF e, U, n
  <2> QED
    BY <1>3, <1>5
<1>8. \A i \in 1 .. n : e[i].box \in bs /\ e[i].op = op /\ e[i] = [op |-> op, box |-> e[i].box]
  <2> HIDE DEF e, n
  <2> QED
    BY <1>5
<1>9. \A b \in bs : \E i \in 1 .. n : e[i].box = b
  <2>1. \A b \in bs : [op |-> op, box |-> b] \in U
    OBVIOUS
  <2> HIDE DEF e, U, n
  <2>2. \A b \in bs : \E i \in 1 .. n : e[i] = [op |-> op, box |-> b]
    BY <1>6, <2>1
  <2>3. \A b \in bs : [op |-> op, box |-> b].box = b
    OBVIOUS
  <2> QED
    BY <2>2, <2>3
<1>10. \A i, j \in 1 .. n : e[i].box = e[j].box => i = j
  <2> HIDE DEF e, n
  <2>1. \A i, j \in 1 .. n : e[i].box = e[j].box => e[i] = e[j]
    BY <1>8
  <2> QED
    BY <1>5, <1>7, <2>1 DEF IsInjective
<1> HIDE DEF e, n, U
<1>11. \A b : Touches(e, b) <=> b \in bs
  BY <1>7, <1>8, <1>9 DEF Touches
<1>12. ASSUME NEW b, NEW o
       PROVE  LastIs(e, b, o) <=> b \in bs /\ o = op
  <2>1. LastIs(e, b, o) => b \in bs /\ o = op
    BY <1>7, <1>8 DEF LastIs
  <2>2. ASSUME b \in bs, o = op
        PROVE  LastIs(e, b, o)
    <3>1. PICK i \in 1 .. n : e[i].box = b
      BY <1>9, <2>2
    <3>2. \A j \in 1 .. n : j > i => e[j].box # b
      BY <1>3, <1>10, <3>1
    <3> QED
      BY <1>7, <1>8, <2>2, <3>1, <3>2 DEF LastIs
  <2> QED
    BY <2>1, <2>2
<1>13. \A b, o : Has(e, b, o) <=> b \in bs /\ o = op
  BY <1>7, <1>8, <1>9 DEF Has
<1>14. \A b, o : First(e, b, o)
  BY <1>3, <1>7, <1>10 DEF First
<1> QED
  BY <1>7, <1>11, <1>12, <1>13, <1>14 DEF e, U

\* What more updates, and the next step of the stream, make of the store to be.
LEMMA MoreUpdates ==
    ASSUME NEW S, NEW q \in Seq(S), NEW e \in Seq(S), NEW set, NEW b, NEW add
    PROVE  WillHave(q \o e, set, b, add) <=>
              LastIs(e, b, add) \/ (~Touches(e, b) /\ WillHave(q, set, b, add))
  BY ConcatFacts DEF WillHave

LEMMA NextUpdate ==
    ASSUME NEW S, NEW q \in Seq(S), q # <<>>, NEW set, NEW next, NEW b, NEW add,
           Head(q).box # b => (b \in set <=> b \in next),
           Head(q).box = b /\ Head(q).op = add => b \in next
    PROVE  /\ WillHave(q, set, b, add) => WillHave(Tail(q), next, b, add)
           /\ (Head(q).box # b \/ Head(q).op = add \/ b \notin next) =>
                 (WillHave(Tail(q), next, b, add) => WillHave(q, set, b, add))
  BY TailFacts DEF WillHave

-----------------------------------------------------------------------------
(***************************************************************************)
(* The funding repository.                                                 *)
(***************************************************************************)
Priorities == {CONFIRMED, PREDICTED, SELECTED}

\* The repository: a box that was not doubled has one entry, that of the index.
RepoInv ==
    /\ funds \subseteq Entries
    /\ \A b \in DOMAIN index : b \in Wallet /\ index[b] \in Priorities
    /\ IndexRefers
    /\ \A e \in funds : e.box \notin doubled => e.box \in DOMAIN index /\ index[e.box] = e.prio

\* A box that was not doubled is announced once, before anything else about
\* it, and is not in the repository until then.
Announced(q) ==
    \A b \in Wallet \ doubled :
        /\ Has(q, b, "created") => b \notin BoxesOf(funds)
        /\ First(q, b, "created")

WillBeKnown ==
    \A b \in (Unspent \cap Wallet) \ unlisted :
        WillHave(fundQueue, BoxesOf(funds), b, "created")

WillBeUnspent ==
    \A b \in Wallet \ (lingering \cup doubled) :
        WillHave(fundQueue, BoxesOf(funds), b, "created") => b \in Unspent

FundInv ==
    /\ ChainInv
    /\ RepoInv
    /\ fundQueue \in Seq(FundUpdate)
    /\ spending.picked \subseteq Wallet
    /\ Announced(fundQueue)
    /\ WillBeKnown
    /\ WillBeUnspent
-----------------------------------------------------------------------------
LEMMA EntryFacts ==
    /\ \A e \in Entries : /\ e.box \in Wallet /\ e.prio \in Priorities
                          /\ e = [box |-> e.box, prio |-> e.prio]
    /\ \A b \in Wallet, p \in Priorities :
          /\ [box |-> b, prio |-> p] \in Entries
          /\ [box |-> b, prio |-> p].box = b /\ [box |-> b, prio |-> p].prio = p
  BY DEF Entries, Priorities

LEMMA PutFacts ==
    ASSUME RepoInv, NEW b \in Wallet, NEW p \in Priorities, Put(b, p),
           doubled \subseteq doubled', b \in BoxesOf(funds) => b \in doubled'
    PROVE  RepoInv' /\ BoxesOf(funds') = BoxesOf(funds) \cup {b}
<1> DEFINE n == [box |-> b, prio |-> p]
<1>1. n \in Entries /\ n.box = b /\ n.prio = p
  BY EntryFacts
<1>2. funds' = funds \cup {n}
  BY DEF Put
<1>3. /\ DOMAIN index' = DOMAIN index \cup {b} /\ index'[b] = p
      /\ \A c \in DOMAIN index \ {b} : index'[c] = index[c]
  BY DEF Put
<1> HIDE DEF n
<1>4. BoxesOf(funds') = BoxesOf(funds) \cup {b}
  BY <1>1, <1>2 DEF BoxesOf
<1>5. \A c \in DOMAIN index' : c \in Wallet /\ index'[c] \in Priorities
  BY <1>3 DEF RepoInv
<1>6. IndexRefers'
  BY <1>2, <1>3 DEF RepoInv, IndexRefers, n
<1>7. ASSUME NEW e \in funds', e.box \notin doubled'
      PROVE  e.box \in DOMAIN index' /\ index'[e.box] = e.prio
  <2>1. CASE e = n
    BY <1>1, <1>3, <2>1
  <2>2. CASE e \in funds
    <3>1. e.box # b
      BY <1>7, <2>2 DEF BoxesOf
    <3> QED
      BY <1>3, <1>7, <2>2, <3>1 DEF RepoInv
  <2> QED
    BY <1>2, <2>1, <2>2
<1> QED
  BY <1>1, <1>2, <1>4, <1>5, <1>6, <1>7 DEF RepoInv

LEMMA RemoveFacts ==
    ASSUME RepoInv, NEW b \in Wallet, RemoveFunding(b), doubled' = doubled
    PROVE  /\ RepoInv'
           /\ \A c : c # b => (c \in BoxesOf(funds) <=> c \in BoxesOf(funds'))
           /\ b \notin doubled => b \notin BoxesOf(funds')
           /\ BoxesOf(funds') \subseteq BoxesOf(funds)
<1>1. CASE b \notin DOMAIN index
  <2>1. funds' = funds /\ index' = index
    BY <1>1 DEF RemoveFunding, repoVars
  <2>2. b \notin doubled => b \notin BoxesOf(funds)
    BY <1>1 DEF RepoInv, BoxesOf
  <2> QED
    BY <2>1, <2>2 DEF RepoInv, IndexRefers
<1>2. CASE b \in DOMAIN index
  <2> DEFINE n == [box |-> b, prio |-> index[b]]
  <2>1. n.box = b /\ n.prio = index[b]
    OBVIOUS
  <2>2. /\ funds' = funds \ {n}
        /\ DOMAIN index' = DOMAIN index \ {b}
        /\ \A c \in DOMAIN index' : index'[c] = index[c]
    BY <1>2 DEF RemoveFunding
  <2>3. \A c \in DOMAIN index' : [box |-> c, prio |-> index[c]] # n
    BY <2>1, <2>2
  <2>4. IndexRefers'
    BY <2>2, <2>3 DEF RepoInv, IndexRefers
  <2>5. \A e \in funds : e.box # b => e \in funds'
    BY <2>1, <2>2
  <2>6. \A c : c # b => (c \in BoxesOf(funds) <=> c \in BoxesOf(funds'))
    BY <2>2, <2>5 DEF BoxesOf
  <2>7. ASSUME NEW e \in funds', e.box = b
        PROVE  b \in doubled
    <3>1. e \in Entries /\ e \in funds /\ e # n
      BY <2>2, <2>7 DEF RepoInv
    <3>2. e = [box |-> e.box, prio |-> e.prio]
      BY <3>1, EntryFacts
    <3> QED
      BY <2>7, <3>1, <3>2 DEF RepoInv
  <2>8. b \notin doubled => b \notin BoxesOf(funds')
    BY <2>7 DEF BoxesOf
  <2>9. \A e \in funds' : e.box \notin doubled' =>
           e.box \in DOMAIN index' /\ index'[e.box] = e.prio
    BY <2>2, <2>7 DEF RepoInv
  <2>10. BoxesOf(funds') \subseteq BoxesOf(funds) /\ funds' \subseteq Entries
    BY <2>2 DEF BoxesOf, RepoInv
  <2>11. \A c \in DOMAIN index' : c \in Wallet /\ index'[c] \in Priorities
    BY <2>2 DEF RepoInv
  <2> QED
    BY <2>4, <2>6, <2>8, <2>9, <2>10, <2>11 DEF RepoInv
<1> QED
  BY <1>1, <1>2

LEMMA MarkFacts ==
    ASSUME RepoInv, NEW es \in SUBSET funds, MarkSelected(es), doubled' = doubled
    PROVE  RepoInv' /\ BoxesOf(funds') = BoxesOf(funds)
<1> DEFINE new == [box : BoxesOf(es), prio : {SELECTED}]
<1>1. /\ funds' = (funds \ es) \cup new
      /\ DOMAIN index' = DOMAIN index \cup BoxesOf(es)
      /\ \A b \in BoxesOf(es) : index'[b] = SELECTED
      /\ \A b \in DOMAIN index \ BoxesOf(es) : index'[b] = index[b]
  BY DEF MarkSelected
<1>2. BoxesOf(es) \subseteq Wallet /\ BoxesOf(es) \subseteq BoxesOf(funds)
  BY EntryFacts DEF RepoInv, BoxesOf
<1>3. \A e \in new : e.box \in BoxesOf(es) /\ e.prio = SELECTED
  OBVIOUS
<1>4. \A b \in BoxesOf(es) :
         [box |-> b, prio |-> SELECTED] \in new /\ [box |-> b, prio |-> SELECTED].box = b
  OBVIOUS
<1>5. new \subseteq Entries
  BY <1>2 DEF Entries
<1> HIDE DEF new
<1>6. BoxesOf(funds') \subseteq BoxesOf(funds)
  BY <1>1, <1>2, <1>3 DEF BoxesOf
<1>7. ASSUME NEW b \in BoxesOf(funds)
      PROVE  b \in BoxesOf(funds')
  <2>1. PICK e \in funds : e.box = b
    BY DEF BoxesOf
  <2>2. CASE e \in es
    <3>1. b \in BoxesOf(es)
      BY <2>1, <2>2 DEF BoxesOf
    <3>2. [box |-> b, prio |-> SELECTED] \in funds' /\ [box |-> b, prio |-> SELECTED].box = b
      BY <1>1, <1>4, <3>1
    <3> QED
      BY <3>2 DEF BoxesOf
  <2>3. CASE e \notin es
    BY <1>1, <2>1, <2>3 DEF BoxesOf
  <2> QED
    BY <2>2, <2>3
<1>8. \A b \in DOMAIN index' : b \in Wallet /\ index'[b] \in Priorities
  <2>1. SELECTED \in Priorities
    BY DEF Priorities
  <2> QED
    BY <1>1, <1>2, <2>1 DEF RepoInv
<1>9. ASSUME NEW b \in DOMAIN index'
      PROVE  [box |-> b, prio |-> index'[b]] \in funds'
  <2>1. CASE b \in BoxesOf(es)
    BY <1>1, <1>4, <2>1
  <2>2. CASE b \notin BoxesOf(es)
    <3>1. b \in DOMAIN index /\ index'[b] = index[b]
      BY <1>1, <2>2
    <3>2. [box |-> b, prio |-> index[b]] \in funds
      BY <3>1 DEF RepoInv, IndexRefers
    <3>3. [box |-> b, prio |-> index[b]] \notin es
      <4>1. [box |-> b, prio |-> index[b]].box = b
        OBVIOUS
      <4> QED
        BY <2>2, <4>1 DEF BoxesOf
    <3> QED
      BY <1>1, <3>1, <3>2, <3>3
  <2> QED
    BY <2>1, <2>2
<1>10. ASSUME NEW e \in funds', e.box \notin doubled
       PROVE  e.box \in DOMAIN index' /\ index'[e.box] = e.prio
  <2>1. CASE e \in new
    BY <1>1, <1>3, <2>1
  <2>2. CASE e \in funds \ es
    <3>1. e.box \in DOMAIN index /\ index[e.box] = e.prio
      BY <1>10, <2>2 DEF RepoInv
    <3>2. ASSUME NEW f \in es, f.box = e.box
          PROVE  FALSE
      <4>1. f \in Entries /\ e \in Entries /\ f.prio = e.prio
        BY <1>10, <2>2, <3>1, <3>2 DEF RepoInv
      <4>2. f = e
        BY <3>2, <4>1, EntryFacts
      <4> QED
        BY <2>2, <4>2
    <3>3. e.box \notin BoxesOf(es)
      BY <3>2 DEF BoxesOf
    <3> QED
      BY <1>1, <3>1, <3>3
  <2> QED
    BY <1>1, <2>1, <2>2
<1>11. funds' \subseteq Entries
  BY <1>1, <1>5 DEF RepoInv
<1>12. RepoInv'
  BY <1>8, <1>9, <1>10, <1>11 DEF RepoInv, IndexRefers
<1> QED
  BY <1>6, <1>7, <1>12
-----------------------------------------------------------------------------
\* Every operation that leaves the ledger and the channel alone.
LEMMA OwnSteps ==
    ASSUME FundInv, chain' = chain, fundQueue' = fundQueue, lingering' = lingering,
           doubled \subseteq doubled', unlisted \subseteq unlisted',
           RepoInv', (spending.picked)' \subseteq Wallet,
           BoxesOf(funds) \subseteq BoxesOf(funds') \cup unlisted',
           BoxesOf(funds') \subseteq BoxesOf(funds) \cup doubled'
    PROVE  FundInv'
<1>1. Unspent' = Unspent /\ ChainInv'
  BY DEF FundInv, ChainInv, Unspent, Spent, Created
<1>2. Announced(fundQueue)'
  BY DEF FundInv, Announced
<1>3. WillBeKnown'
  BY <1>1 DEF FundInv, WillBeKnown, WillHave
<1>4. WillBeUnspent'
  BY <1>1 DEF FundInv, WillBeUnspent, WillHave
<1> QED
  BY <1>1, <1>2, <1>3, <1>4 DEF FundInv

LEMMA FundingInitInv == FeedInit /\ FundingInit => FundInv
<1> SUFFICES ASSUME FeedInit, FundingInit
             PROVE  FundInv
  OBVIOUS
<1>1. ChainInv
  BY FeedInitChain
<1>2. funds = {} /\ DOMAIN index = {} /\ fundQueue = <<>> /\ spending.picked = {}
  BY DEF FundingInit, Idle
<1>3. RepoInv
  BY <1>2 DEF RepoInv, IndexRefers
<1>4. DOMAIN fundQueue = {} /\ fundQueue \in Seq(FundUpdate)
  BY <1>2
<1>5. Announced(fundQueue)
  BY <1>4 DEF Announced, Has, First
<1>6. Unspent \cap Wallet = {}
  <2>1. Created = Genesis
    BY DEF FeedInit, Created, ToSet
  <2> QED
    BY <2>1, FundingAssumption DEF Unspent
<1>7. WillBeKnown
  BY <1>6 DEF WillBeKnown
<1>8. WillBeUnspent
  BY <1>2, <1>4 DEF WillBeUnspent, WillHave, LastIs, BoxesOf
<1> QED
  BY <1>1, <1>2, <1>3, <1>4, <1>5, <1>7, <1>8 DEF FundInv

LEMMA HandleFundingAppliedInv ==
    ASSUME FundInv, NEW t \in Txs, HandleFundingApplied(t)
    PROVE  FundInv'
<1> DEFINE outs == Outputs[t] \cap Wallet
           ins == Inputs[t] \cap Wallet
<1>1. PICK found \in SUBSET ins :
         /\ fundQueue' = fundQueue \o AppliedUpdates(t, found)
         /\ lingering' = lingering \cup (ins \ found)
  BY DEF HandleFundingApplied, MayExist
<1>2. /\ funds' = funds /\ index' = index /\ spending' = spending /\ unlisted' = unlisted
      /\ doubled' = doubled \cup {b \in outs : b \in BoxesOf(funds) \/ Touches(fundQueue, b)}
  BY DEF HandleFundingApplied, repoVars, Touches
<1>3. /\ ChainInv' /\ Outputs[t] \cap Created = {}
      /\ Unspent' = (Unspent \ Inputs[t]) \cup Outputs[t]
  BY AppliedFacts DEF FundInv, HandleFundingApplied
<1>4. found \cap outs = {} /\ IsFiniteSet(found) /\ IsFiniteSet(outs)
  <2>1. IsFiniteSet(Inputs[t] \cup Outputs[t]) /\ Outputs[t] \cap Inputs[t] = {}
    BY FeedFacts
  <2>2. found \subseteq Inputs[t] \cup Outputs[t] /\ outs \subseteq Inputs[t] \cup Outputs[t]
    OBVIOUS
  <2> HIDE DEF outs
  <2>3. IsFiniteSet(found) /\ IsFiniteSet(outs)
    BY <2>1, <2>2, FS_Subset
  <2> QED
    BY <2>1, <2>3 DEF outs
<1> DEFINE d == Events("eliminated", found)
           c == Events("created", outs)
           e == d \o c
<1>5. fundQueue' = fundQueue \o e
  BY <1>1 DEF AppliedUpdates
<1>6. found \subseteq Wallet /\ outs \subseteq Wallet
  OBVIOUS
<1>6a. ins = Inputs[t] \cap Wallet /\ outs = Outputs[t] \cap Wallet
  OBVIOUS
<1> HIDE DEF outs, ins
<1>7. d \in Seq(FundUpdate) /\ c \in Seq(FundUpdate)
  <2>1. d \in Seq([op : {"eliminated"}, box : found]) /\ c \in Seq([op : {"created"}, box : outs])
    BY <1>4, EventsFacts
  <2>2. /\ [op : {"eliminated"}, box : found] \subseteq FundUpdate
        /\ [op : {"created"}, box : outs] \subseteq FundUpdate
    BY <1>6 DEF FundUpdate
  <2> HIDE DEF d, c
  <2>3. d \in Seq(FundUpdate)
    BY ONLY <2>1, <2>2, SeqMonotonic
  <2>4. c \in Seq(FundUpdate)
    BY ONLY <2>1, <2>2, SeqMonotonic
  <2> QED
    BY <2>3, <2>4
<1>8. /\ \A b : Touches(d, b) <=> b \in found
      /\ \A b : ~LastIs(d, b, "created")
      /\ \A b : ~Has(d, b, "created")
  <2>1. /\ \A b : Touches(d, b) <=> b \in found
        /\ \A b, o : LastIs(d, b, o) <=> b \in found /\ o = "eliminated"
        /\ \A b, o : Has(d, b, o) <=> b \in found /\ o = "eliminated"
    <3>1. IsFiniteSet(found)
      BY <1>4
    <3> QED
      BY ONLY <3>1, EventsFacts
  <2> HIDE DEF d
  <2> QED
    BY <2>1
<1>9. /\ \A b : Touches(c, b) <=> b \in outs
      /\ \A b : LastIs(c, b, "created") <=> b \in outs
      /\ \A b : Has(c, b, "created") <=> b \in outs
      /\ \A b : First(c, b, "created")
  <2>1. /\ \A b : Touches(c, b) <=> b \in outs
        /\ \A b, o : LastIs(c, b, o) <=> b \in outs /\ o = "created"
        /\ \A b, o : Has(c, b, o) <=> b \in outs /\ o = "created"
        /\ \A b, o : First(c, b, o)
    BY <1>4, EventsFacts
  <2> HIDE DEF c
  <2> QED
    BY <2>1
<1> HIDE DEF d, c
<1>10. /\ e \in Seq(FundUpdate)
       /\ \A b : Touches(e, b) <=> b \in found \cup outs
       /\ \A b : LastIs(e, b, "created") <=> b \in outs
       /\ \A b : Has(e, b, "created") <=> b \in outs
       /\ \A b : b \in outs => First(e, b, "created")
  <2>1. e \in Seq(FundUpdate)
    BY <1>7, ConcatProperties
  <2>2. ASSUME NEW b
        PROVE  /\ Touches(e, b) <=> b \in found \cup outs
               /\ LastIs(e, b, "created") <=> b \in outs
    BY <1>7, <1>8, <1>9, ConcatFacts
  <2>3. ASSUME NEW b
        PROVE  /\ Has(e, b, "created") <=> b \in outs
               /\ b \in outs => First(e, b, "created")
    <3>1. b \in outs => ~Touches(d, b)
      BY <1>4, <1>8
    <3> QED
      BY <1>7, <1>8, <1>9, <3>1, ConcatFirst
  <2> QED
    BY <2>1, <2>2, <2>3
<1> HIDE DEF e
<1>11. fundQueue \in Seq(FundUpdate) /\ fundQueue' \in Seq(FundUpdate)
  BY <1>5, <1>10, ConcatProperties DEF FundInv
<1>12. \A b : WillHave(fundQueue', BoxesOf(funds), b, "created") <=>
                \/ b \in outs
                \/ b \notin found \cup outs /\ WillHave(fundQueue, BoxesOf(funds), b, "created")
  <2>1. ASSUME NEW b
        PROVE  WillHave(fundQueue \o e, BoxesOf(funds), b, "created") <=>
                 \/ LastIs(e, b, "created")
                 \/ ~Touches(e, b) /\ WillHave(fundQueue, BoxesOf(funds), b, "created")
    BY <1>10, <1>11, MoreUpdates
  <2> QED
    BY <1>5, <1>10, <2>1
<1>13. Announced(fundQueue)'
  <2> SUFFICES ASSUME NEW b \in Wallet \ doubled'
               PROVE  /\ Has(fundQueue', b, "created") => b \notin BoxesOf(funds')
                      /\ First(fundQueue', b, "created")
    BY DEF Announced
  <2>1. b \notin doubled
    BY <1>2
  <2>2. /\ Has(fundQueue, b, "created") => b \notin BoxesOf(funds)
        /\ First(fundQueue, b, "created")
    BY <2>1 DEF FundInv, Announced
  <2>3. /\ Has(fundQueue', b, "created") <=> Has(fundQueue, b, "created") \/ Has(e, b, "created")
        /\ ~Touches(fundQueue, b) /\ First(e, b, "created") => First(fundQueue', b, "created")
        /\ First(fundQueue, b, "created") /\ ~Has(e, b, "created")
              => First(fundQueue', b, "created")
    BY <1>5, <1>10, <1>11, ConcatFirst
  <2>4. b \in outs => b \notin BoxesOf(funds) /\ ~Touches(fundQueue, b)
    BY <1>2
  <2> QED
    BY <1>2, <1>10, <2>2, <2>3, <2>4
<1>14. WillBeKnown'
  <2> SUFFICES ASSUME NEW b \in (Unspent' \cap Wallet) \ unlisted'
               PROVE  WillHave(fundQueue', BoxesOf(funds'), b, "created")
    BY DEF WillBeKnown
  <2>1. b \in outs \/ (b \in Unspent /\ b \notin found \cup outs)
    BY <1>3, <1>6a, <1>1
  <2>2. b \in Unspent => WillHave(fundQueue, BoxesOf(funds), b, "created")
    BY <1>2 DEF FundInv, WillBeKnown
  <2> QED
    BY <1>2, <1>12, <2>1, <2>2
<1>15. WillBeUnspent'
  <2> SUFFICES ASSUME NEW b \in Wallet \ (lingering' \cup doubled'),
                      WillHave(fundQueue', BoxesOf(funds'), b, "created")
               PROVE  b \in Unspent'
    BY DEF WillBeUnspent
  <2>1. CASE b \in outs
    BY <1>3, <1>6a, <2>1
  <2>2. CASE b \notin outs
    <3>1. b \notin found /\ WillHave(fundQueue, BoxesOf(funds), b, "created")
      BY <1>2, <1>12, <2>2
    <3>2. b \in Unspent
      BY <1>1, <1>2, <3>1 DEF FundInv, WillBeUnspent
    <3>3. b \notin Inputs[t]
      BY <1>1, <1>6a, <3>1
    <3> QED
      BY <1>3, <3>2, <3>3
  <2> QED
    BY <2>1, <2>2
<1>16. RepoInv'
  BY <1>2 DEF FundInv, RepoInv, IndexRefers
<1> QED
  BY <1>2, <1>3, <1>11, <1>13, <1>14, <1>15, <1>16 DEF FundInv

LEMMA HandleFundingUnappliedInv ==
    ASSUME FundInv, NEW t \in Txs, HandleFundingUnapplied(t)
    PROVE  FundInv'
<1> DEFINE outs == Outputs[t] \cap Wallet
           e == Events("eliminated", outs)
<1>1. /\ fundQueue' = fundQueue \o e
      /\ unlisted' = unlisted \cup (Inputs[t] \cap Wallet)
      /\ funds' = funds /\ index' = index /\ spending' = spending
      /\ doubled' = doubled /\ lingering' = lingering
  BY DEF HandleFundingUnapplied, repoVars
<1>2. /\ ChainInv'
      /\ Unspent \ Outputs[t] \subseteq Unspent'
      /\ Unspent' \subseteq (Unspent \ Outputs[t]) \cup Inputs[t]
  BY UnappliedFacts DEF FundInv, HandleFundingUnapplied
<1>3. outs = Outputs[t] \cap Wallet
  OBVIOUS
<1>4. IsFiniteSet(outs)
  <2>1. IsFiniteSet(Inputs[t] \cup Outputs[t]) /\ outs \subseteq Inputs[t] \cup Outputs[t]
    BY FeedFacts
  <2> HIDE DEF outs
  <2> QED
    BY <2>1, FS_Subset
<1> HIDE DEF outs
<1>5. e \in Seq(FundUpdate)
  <2>1. e \in Seq([op : {"eliminated"}, box : outs])
    BY <1>4, EventsFacts
  <2>2. [op : {"eliminated"}, box : outs] \subseteq FundUpdate
    BY <1>3 DEF FundUpdate
  <2> HIDE DEF e
  <2> QED
    BY ONLY <2>1, <2>2, SeqMonotonic
<1>6. /\ \A b : Touches(e, b) <=> b \in outs
      /\ \A b : ~LastIs(e, b, "created")
      /\ \A b : ~Has(e, b, "created")
  <2>1. /\ \A b : Touches(e, b) <=> b \in outs
        /\ \A b, o : LastIs(e, b, o) <=> b \in outs /\ o = "eliminated"
        /\ \A b, o : Has(e, b, o) <=> b \in outs /\ o = "eliminated"
    BY <1>4, EventsFacts
  <2> HIDE DEF e
  <2> QED
    BY <2>1
<1> HIDE DEF e
<1>7. fundQueue \in Seq(FundUpdate) /\ fundQueue' \in Seq(FundUpdate)
  BY <1>1, <1>5, ConcatProperties DEF FundInv
<1>8. \A b : WillHave(fundQueue', BoxesOf(funds), b, "created") <=>
                b \notin outs /\ WillHave(fundQueue, BoxesOf(funds), b, "created")
  <2>1. ASSUME NEW b
        PROVE  WillHave(fundQueue \o e, BoxesOf(funds), b, "created") <=>
                 \/ LastIs(e, b, "created")
                 \/ ~Touches(e, b) /\ WillHave(fundQueue, BoxesOf(funds), b, "created")
    BY <1>5, <1>7, MoreUpdates
  <2> QED
    BY <1>1, <1>6, <2>1
<1>9. Announced(fundQueue)'
  <2> SUFFICES ASSUME NEW b \in Wallet \ doubled'
               PROVE  /\ Has(fundQueue', b, "created") => b \notin BoxesOf(funds')
                      /\ First(fundQueue', b, "created")
    BY DEF Announced
  <2>1. /\ Has(fundQueue, b, "created") => b \notin BoxesOf(funds)
        /\ First(fundQueue, b, "created")
    BY <1>1 DEF FundInv, Announced
  <2>2. /\ Has(fundQueue', b, "created") <=> Has(fundQueue, b, "created") \/ Has(e, b, "created")
        /\ First(fundQueue, b, "created") /\ ~Has(e, b, "created")
              => First(fundQueue', b, "created")
    BY <1>1, <1>5, <1>7, ConcatFirst
  <2> QED
    BY <1>1, <1>6, <2>1, <2>2
<1>10. WillBeKnown'
  <2> SUFFICES ASSUME NEW b \in (Unspent' \cap Wallet) \ unlisted'
               PROVE  WillHave(fundQueue', BoxesOf(funds'), b, "created")
    BY DEF WillBeKnown
  <2>1. b \in Unspent /\ b \notin outs /\ b \notin unlisted
    BY <1>1, <1>2, <1>3
  <2>2. WillHave(fundQueue, BoxesOf(funds), b, "created")
    BY <2>1 DEF FundInv, WillBeKnown
  <2> QED
    BY <1>1, <1>8, <2>1, <2>2
<1>11. WillBeUnspent'
  <2> SUFFICES ASSUME NEW b \in Wallet \ (lingering' \cup doubled'),
                      WillHave(fundQueue', BoxesOf(funds'), b, "created")
               PROVE  b \in Unspent'
    BY DEF WillBeUnspent
  <2>1. b \notin outs /\ WillHave(fundQueue, BoxesOf(funds), b, "created")
    BY <1>1, <1>8
  <2>2. b \in Unspent
    BY <1>1, <2>1 DEF FundInv, WillBeUnspent
  <2> QED
    BY <1>2, <1>3, <2>1, <2>2
<1>12. RepoInv'
  BY <1>1 DEF FundInv, RepoInv, IndexRefers
<1> QED
  BY <1>1, <1>2, <1>7, <1>9, <1>10, <1>11, <1>12 DEF FundInv

LEMMA TrackFundingInv ==
    ASSUME FundInv, TrackFunding
    PROVE  FundInv'
<1> DEFINE u == Head(fundQueue)
<1>1. /\ fundQueue # <<>> /\ fundQueue \in Seq(FundUpdate) /\ fundQueue' = Tail(fundQueue)
      /\ chain' = chain /\ spending' = spending /\ doubled' = doubled
      /\ lingering' = lingering /\ unlisted' = unlisted
  BY DEF FundInv, TrackFunding, fundHistory
<1>2. Unspent' = Unspent /\ ChainInv'
  BY <1>1 DEF FundInv, ChainInv, Unspent, Spent, Created
<1>3. u \in FundUpdate /\ fundQueue' \in Seq(FundUpdate)
  BY <1>1, HeadTailProperties
<1>4. u.box \in Wallet /\ u.op \in {"created", "eliminated"}
  BY <1>3 DEF FundUpdate
<1>5. 1 \in DOMAIN fundQueue /\ fundQueue[1] = u
  BY <1>1, HeadTailProperties
<1>6. IF u.op = "created" THEN Put(u.box, CONFIRMED) ELSE RemoveFunding(u.box)
  BY DEF TrackFunding
<1> HIDE DEF u
<1>7. /\ RepoInv'
      /\ \A b : u.box # b => (b \in BoxesOf(funds) <=> b \in BoxesOf(funds'))
      /\ u.op = "created" => u.box \in BoxesOf(funds')
      /\ u.op # "created" => /\ u.box \notin doubled => u.box \notin BoxesOf(funds')
                             /\ BoxesOf(funds') \subseteq BoxesOf(funds)
  <2>1. CASE u.op = "created"
    <3>1. u.box \in BoxesOf(funds) => u.box \in doubled
      BY <1>4, <1>5, <2>1 DEF FundInv, Announced, Has
    <3>2. CONFIRMED \in Priorities
      BY DEF Priorities
    <3>3. RepoInv' /\ BoxesOf(funds') = BoxesOf(funds) \cup {u.box}
      BY <1>1, <1>4, <1>6, <2>1, <3>1, <3>2, PutFacts DEF FundInv
    <3> QED
      BY <2>1, <3>3
  <2>2. CASE u.op # "created"
    <3>1. /\ RepoInv'
          /\ \A c : c # u.box => (c \in BoxesOf(funds) <=> c \in BoxesOf(funds'))
          /\ u.box \notin doubled => u.box \notin BoxesOf(funds')
          /\ BoxesOf(funds') \subseteq BoxesOf(funds)
      BY <1>1, <1>4, <1>6, <2>2, RemoveFacts DEF FundInv
    <3> QED
      BY <2>2, <3>1
  <2> QED
    BY <2>1, <2>2
<1>8. ASSUME NEW b
      PROVE  /\ WillHave(fundQueue, BoxesOf(funds), b, "created")
                   => WillHave(fundQueue', BoxesOf(funds'), b, "created")
             /\ b \notin doubled =>
                   (WillHave(fundQueue', BoxesOf(funds'), b, "created")
                      => WillHave(fundQueue, BoxesOf(funds), b, "created"))
  <2>1. u.box # b => (b \in BoxesOf(funds) <=> b \in BoxesOf(funds'))
    BY <1>7
  <2>2. u.box = b /\ u.op = "created" => b \in BoxesOf(funds')
    BY <1>7
  <2>3. b \notin doubled => u.box # b \/ u.op = "created" \/ b \notin BoxesOf(funds')
    BY <1>7
  <2>4. \A set, next :
           /\ u.box # b => (b \in set <=> b \in next)
           /\ u.box = b /\ u.op = "created" => b \in next
           => /\ WillHave(fundQueue, set, b, "created")
                    => WillHave(Tail(fundQueue), next, b, "created")
              /\ (u.box # b \/ u.op = "created" \/ b \notin next) =>
                    (WillHave(Tail(fundQueue), next, b, "created")
                       => WillHave(fundQueue, set, b, "created"))
    BY <1>1, NextUpdate DEF u
  <2> QED
    BY <1>1, <2>1, <2>2, <2>3, <2>4
<1>9. Announced(fundQueue)'
  <2> SUFFICES ASSUME NEW b \in Wallet \ doubled'
               PROVE  /\ Has(fundQueue', b, "created") => b \notin BoxesOf(funds')
                      /\ First(fundQueue', b, "created")
    BY DEF Announced
  <2>1. /\ Has(fundQueue, b, "created") => b \notin BoxesOf(funds)
        /\ First(fundQueue, b, "created")
    BY <1>1 DEF FundInv, Announced
  <2>2. /\ Has(fundQueue', b, "created") => Has(fundQueue, b, "created")
        /\ First(fundQueue, b, "created") => First(fundQueue', b, "created")
        /\ First(fundQueue, b, "created") /\ u.box = b => ~Has(fundQueue', b, "created")
    BY <1>1, TailFacts DEF u
  <2> QED
    BY <1>7, <2>1, <2>2
<1>10. WillBeKnown'
  BY <1>1, <1>2, <1>8 DEF FundInv, WillBeKnown
<1>11. WillBeUnspent'
  BY <1>1, <1>2, <1>8 DEF FundInv, WillBeUnspent
<1> QED
  BY <1>1, <1>2, <1>3, <1>7, <1>9, <1>10, <1>11 DEF FundInv

LEMMA CollectInv ==
    ASSUME FundInv, NEW target, Collect(target)
    PROVE  FundInv'
<1>1. /\ MarkSelected(Taken(target)) /\ chain' = chain /\ fundQueue' = fundQueue
      /\ doubled' = doubled /\ lingering' = lingering /\ unlisted' = unlisted
  BY DEF Collect, fundHistory
<1>2. PICK es \in SUBSET funds : es = Taken(target)
  BY DEF Taken
<1>3. MarkSelected(es)
  BY <1>1, <1>2
<1>4. RepoInv' /\ BoxesOf(funds') = BoxesOf(funds)
  BY <1>1, <1>3, MarkFacts DEF FundInv
<1>5. BoxesOf(es) \subseteq Wallet
  BY EntryFacts DEF FundInv, RepoInv, BoxesOf
<1>6. (spending.picked)' \subseteq Wallet
  <2>1. \/ spending' = [phase |-> "submit", picked |-> BoxesOf(es), target |-> target]
        \/ spending' = spending
    BY <1>2 DEF Collect
  <2> QED
    BY <1>5, <2>1 DEF FundInv
<1> QED
  BY <1>1, <1>4, <1>6, OwnSteps

LEMMA SubmittedInv ==
    ASSUME FundInv, NEW t \in Txs, Submitted(t)
    PROVE  FundInv'
<1>1. /\ chain' = chain /\ fundQueue' = fundQueue /\ lingering' = lingering
      /\ unlisted' = unlisted /\ (spending.picked)' = {}
  BY DEF Submitted, Idle
<1>2. CASE funds' = funds /\ index' = index /\ doubled' = doubled
  <2>1. RepoInv'
    BY <1>2 DEF FundInv, RepoInv, IndexRefers
  <2> QED
    BY <1>1, <1>2, <2>1, OwnSteps
<1>3. ASSUME NEW b \in Wallet, Put(b, PREDICTED), doubled' = doubled \cup {b}
      PROVE  FundInv'
  <2>1. PREDICTED \in Priorities
    BY DEF Priorities
  <2>2. RepoInv' /\ BoxesOf(funds') = BoxesOf(funds) \cup {b}
    BY <1>3, <2>1, PutFacts DEF FundInv
  <2> QED
    BY <1>1, <1>3, <2>2, OwnSteps
<1> QED
  BY <1>2, <1>3 DEF Submitted, repoVars

LEMMA PurgeMissingInv ==
    ASSUME FundInv, NEW b, PurgeMissing(b)
    PROVE  FundInv'
<1>1. /\ chain' = chain /\ fundQueue' = fundQueue /\ lingering' = lingering
      /\ doubled' = doubled /\ unlisted' = unlisted \cup {b}
      /\ b \in Wallet /\ RemoveFunding(b)
  BY DEF PurgeMissing, FundInv
<1>2. /\ RepoInv' /\ BoxesOf(funds') \subseteq BoxesOf(funds)
      /\ \A c : c # b => (c \in BoxesOf(funds) <=> c \in BoxesOf(funds'))
  BY <1>1, RemoveFacts DEF FundInv
<1>3. (spending.picked)' \subseteq Wallet
  <2>1. spending' = Idle \/ spending' = [spending EXCEPT !.picked = @ \ {b}]
    BY DEF PurgeMissing
  <2>2. CASE spending' = Idle
    BY <2>2 DEF Idle
  <2>3. CASE spending' = [spending EXCEPT !.picked = @ \ {b}]
    <3>1. (spending.picked)' \subseteq spending.picked
      BY <2>3
    <3> QED
      BY <3>1 DEF FundInv
  <2> QED
    BY <2>1, <2>2, <2>3
<1> QED
  BY <1>1, <1>2, <1>3, OwnSteps

LEMMA QuietSteps ==
    ASSUME FundInv, chain' = chain, funds' = funds, index' = index,
           fundQueue' = fundQueue, doubled' = doubled, lingering' = lingering,
           unlisted' = unlisted, (spending.picked)' \subseteq Wallet
    PROVE  FundInv'
<1>1. RepoInv'
  BY DEF FundInv, RepoInv, IndexRefers
<1> QED
  BY <1>1, OwnSteps

LEMMA FundingRestartInv ==
    ASSUME FundInv, FundingRestart
    PROVE  FundInv'
<1> DEFINE lost == {fundQueue[i].box : i \in DOMAIN fundQueue}
<1>1. /\ chain' = chain /\ funds' = funds /\ index' = index /\ doubled' = doubled
      /\ fundQueue' = <<>> /\ (spending.picked)' = {}
      /\ lingering' = lingering \cup lost /\ unlisted' = unlisted \cup lost
  BY DEF FundingRestart, repoVars, Idle
<1>2. Unspent' = Unspent /\ ChainInv'
  BY <1>1 DEF FundInv, ChainInv, Unspent, Spent, Created
<1>3. \A b : b \notin lost => ~Touches(fundQueue, b) /\ ~LastIs(fundQueue, b, "created")
  BY DEF Touches, LastIs
<1>4. DOMAIN fundQueue' = {} /\ fundQueue' \in Seq(FundUpdate)
  BY <1>1
<1>5. \A b : WillHave(fundQueue', BoxesOf(funds'), b, "created") <=> b \in BoxesOf(funds)
  BY <1>1, <1>4 DEF WillHave, Touches, LastIs
<1> HIDE DEF lost
<1>6. \A b : b \notin lost =>
                (WillHave(fundQueue, BoxesOf(funds), b, "created") <=> b \in BoxesOf(funds))
  BY <1>3 DEF WillHave
<1>7. Announced(fundQueue)'
  BY <1>4 DEF Announced, Has, First
<1>8. WillBeKnown'
  BY <1>1, <1>2, <1>5, <1>6 DEF FundInv, WillBeKnown
<1>9. WillBeUnspent'
  BY <1>1, <1>2, <1>5, <1>6 DEF FundInv, WillBeUnspent
<1>10. RepoInv'
  BY <1>1 DEF FundInv, RepoInv, IndexRefers
<1> QED
  BY <1>1, <1>2, <1>4, <1>7, <1>8, <1>9, <1>10 DEF FundInv

LEMMA FundingStepInv == FundInv /\ [FundingNext]_fundVars => FundInv'
<1> SUFFICES ASSUME FundInv, [FundingNext]_fundVars
             PROVE  FundInv'
  OBVIOUS
<1>1. ASSUME NEW t \in Txs, HandleFundingApplied(t)
      PROVE  FundInv'
  BY <1>1, HandleFundingAppliedInv
<1>2. ASSUME NEW t \in Txs, HandleFundingUnapplied(t)
      PROVE  FundInv'
  BY <1>2, HandleFundingUnappliedInv
<1>3. ASSUME NEW t \in Txs, Submitted(t)
      PROVE  FundInv'
  BY <1>3, SubmittedInv
<1>4. CASE TrackFunding
  BY <1>4, TrackFundingInv
<1>5. ASSUME NEW target \in Targets, Collect(target)
      PROVE  FundInv'
  BY <1>5, CollectInv
<1>6. ASSUME NEW bs \in SUBSET spending.picked, ReportMissing(bs)
      PROVE  FundInv'
  <2>1. spending' = [spending EXCEPT !.phase = "purge", !.picked = bs]
    BY <1>6 DEF ReportMissing
  <2>2. (spending.picked)' \subseteq spending.picked
    BY <2>1
  <2>3. (spending.picked)' \subseteq Wallet
    BY <2>2 DEF FundInv
  <2> QED
    BY <1>6, <2>3, QuietSteps DEF ReportMissing, repoVars, fundHistory
<1>7. ASSUME NEW b \in spending.picked, PurgeMissing(b)
      PROVE  FundInv'
  BY <1>7, PurgeMissingInv
<1>8. CASE Abandoned
  <2>1. (spending.picked)' = {}
    BY <1>8 DEF Abandoned, Idle
  <2> QED
    BY <1>8, <2>1, QuietSteps DEF Abandoned, repoVars, fundHistory
<1>9. CASE FundingRestart
  BY <1>9, FundingRestartInv
<1>10. CASE UNCHANGED fundVars
  <2>1. (spending.picked)' \subseteq Wallet
    BY <1>10 DEF fundVars, FundInv
  <2> QED
    BY <1>10, <2>1, QuietSteps DEF fundVars, fundHistory
<1> QED
  BY <1>1, <1>2, <1>3, <1>4, <1>5, <1>6, <1>7, <1>8, <1>9, <1>10 DEF FundingNext

LEMMA FundingInductive == FundingSpec => []FundInv
  BY FundingInitInv, FundingStepInv, PTL DEF FundingSpec

\* Once the channel is empty, what will be in the repository is there.
LEMMA ChannelEmpty ==
    ASSUME fundQueue = <<>>, NEW b
    PROVE  WillHave(fundQueue, BoxesOf(funds), b, "created") <=> b \in BoxesOf(funds)
<1>1. DOMAIN fundQueue = {}
  OBVIOUS
<1> QED
  BY <1>1 DEF WillHave, Touches, LastIs
-----------------------------------------------------------------------------
(***************************************************************************)
(* What the index of the funding repository refers to is there, whatever   *)
(* the handler, the stream and the executor do, so remove of funding.rs    *)
(* deletes the entry it means to delete.                                   *)
(***************************************************************************)
THEOREM IndexIsSound == FundingSpec => []IndexRefers
<1>1. FundInv => IndexRefers
  BY DEF FundInv, RepoInv
<1> QED
  BY <1>1, FundingInductive, PTL

(***************************************************************************)
(* Once funding_update_stream has caught up, every unspent box of the      *)
(* wallet is in the repository, except the ones the code gives up: spent   *)
(* by an undone transaction, removed by the executor, or lost with the     *)
(* channel in a restart.                                                   *)
(***************************************************************************)
THEOREM FundsAreKnown == FundingSpec => []FundsKnown
<1>1. FundInv => FundsKnown
  <2> SUFFICES ASSUME FundInv, fundQueue = <<>>, NEW b \in Unspent \cap Wallet,
                      b \notin unlisted
               PROVE  b \in BoxesOf(funds)
    BY DEF FundsKnown
  <2>1. WillHave(fundQueue, BoxesOf(funds), b, "created")
    BY DEF FundInv, WillBeKnown
  <2> QED
    BY <2>1, ChannelEmpty
<1> QED
  BY <1>1, FundingInductive, PTL

(***************************************************************************)
(* Once funding_update_stream has caught up, no spent box is left in the   *)
(* repository, except the ones the handler could not recognise when they   *)
(* were spent, or that have a second entry, or whose elimination a restart *)
(* lost.                                                                   *)
(***************************************************************************)
THEOREM FundsAreUnspent == FundingSpec => []FundsUnspent
<1>1. FundInv => FundsUnspent
  <2> SUFFICES ASSUME FundInv, fundQueue = <<>>, NEW b \in BoxesOf(funds),
                      b \notin lingering, b \notin doubled
               PROVE  b \in Unspent
    BY DEF FundsUnspent
  <2>1. WillHave(fundQueue, BoxesOf(funds), b, "created")
    BY ChannelEmpty
  <2>2. b \in Wallet
    BY EntryFacts DEF FundInv, RepoInv, BoxesOf
  <2> QED
    BY <2>1, <2>2 DEF FundInv, WillBeUnspent
<1> QED
  BY <1>1, FundingInductive, PTL

-----------------------------------------------------------------------------
(***************************************************************************)
(* The sum of the values of entries.                                       *)
(***************************************************************************)
LEMMA TotalRemove ==
    ASSUME NEW S \in SUBSET Entries, IsFiniteSet(S), NEW e \in S
    PROVE  FundsTotal(S) = Value[e.box] + FundsTotal(S \ {e})
<1>1. \A x \in S : EntryValue[x] \in Int
  BY EntryFacts, FundingAssumption DEF EntryValue
<1>2. SumOver(EntryValue, S) = EntryValue[e] + SumOver(EntryValue, S \ {e})
  BY ONLY <1>1, IsFiniteSet(S), e \in S, SumRemove
<1>3. EntryValue[e] = Value[e.box]
  BY DEF EntryValue
<1> QED
  BY <1>2, <1>3 DEF FundsTotal, SumOver

\* No box is in two entries.
OneEach(es) == \A e, f \in es : e.box = f.box => e = f

\* The sum depends on the boxes only, as long as none is counted twice.
LEMMA TotalOfBoxes ==
    ASSUME NEW S \in SUBSET Entries, NEW T \in SUBSET Entries, IsFiniteSet(S), IsFiniteSet(T),
           OneEach(S), OneEach(T), BoxesOf(S) = BoxesOf(T)
    PROVE  FundsTotal(S) = FundsTotal(T)
<1> DEFINE Same(s, t) == FundsTotal(s) = FundsTotal(t)
           Pre(s, t) == /\ IsFiniteSet(s) /\ IsFiniteSet(t) /\ OneEach(s) /\ OneEach(t)
                        /\ BoxesOf(s) = BoxesOf(t)
           A == {n \in Nat : \A s, t \in SUBSET Entries :
                    Pre(s, t) /\ Cardinality(s) = n => Same(s, t)}
<1>1. 0 \in A
  <2>1. ASSUME NEW s \in SUBSET Entries, NEW t \in SUBSET Entries, Pre(s, t), Cardinality(s) = 0
        PROVE  Same(s, t)
    <3>1. s = {}
      BY <2>1, FS_EmptySet
    <3>2. \A e \in t : e.box \in BoxesOf(s)
      BY <2>1 DEF BoxesOf
    <3>3. BoxesOf(s) = {}
      BY <3>1 DEF BoxesOf
    <3> QED
      BY <3>1, <3>2, <3>3
  <2> HIDE DEF Same, Pre
  <2> QED
    BY <2>1
<1>2. ASSUME NEW n \in Nat, n \in A
      PROVE  n + 1 \in A
  <2>1. ASSUME NEW s \in SUBSET Entries, NEW t \in SUBSET Entries, Pre(s, t), Cardinality(s) = n + 1
        PROVE  Same(s, t)
    <3>1. PICK x : x \in s
      BY <2>1, FS_EmptySet
    <3>2. PICK y \in t : y.box = x.box
      BY <2>1, <3>1 DEF BoxesOf
    <3>3. PICK p, q : p = s \ {x} /\ q = t \ {y}
      OBVIOUS
    <3>4. IsFiniteSet(p) /\ Cardinality(p) = n
      BY <2>1, <3>1, <3>3, Smaller
    <3>5. IsFiniteSet(q)
      BY <2>1, <3>3, FS_RemoveElement
    <3>6. p \in SUBSET Entries /\ q \in SUBSET Entries /\ OneEach(p) /\ OneEach(q)
      BY <2>1, <3>3 DEF OneEach
    <3>7. BoxesOf(p) = BoxesOf(s) \ {x.box}
      BY <2>1, <3>1, <3>3 DEF OneEach, BoxesOf
    <3>8. BoxesOf(q) = BoxesOf(t) \ {y.box}
      BY <2>1, <3>2, <3>3 DEF OneEach, BoxesOf
    <3>9. Pre(p, q)
      BY <2>1, <3>2, <3>4, <3>5, <3>6, <3>7, <3>8
    <3>10. Same(p, q)
      <4> HIDE DEF Same, Pre
      <4> QED
        BY <1>2, <3>4, <3>6, <3>9
    <3>11. FundsTotal(s) = Value[x.box] + FundsTotal(p)
      BY <2>1, <3>1, <3>3, TotalRemove
    <3>12. FundsTotal(t) = Value[y.box] + FundsTotal(q)
      BY <2>1, <3>2, <3>3, TotalRemove
    <3> QED
      BY <3>2, <3>10, <3>11, <3>12
  <2> HIDE DEF Same, Pre
  <2> QED
    BY <2>1
<1>3. Nat \subseteq A
  <2> HIDE DEF A
  <2> QED
    BY <1>1, <1>2, Induction
<1>4. Cardinality(S) \in Nat
  BY FS_CardinalityType
<1>5. Pre(S, T)
  OBVIOUS
<1>6. Same(S, T)
  <2> HIDE DEF Same, Pre
  <2> QED
    BY <1>3, <1>4, <1>5
<1> QED
  BY <1>6

-----------------------------------------------------------------------------
SpendingType ==
    spending \in [phase : {"idle", "submit", "purge"}, picked : SUBSET Wallet,
                  target : Targets \cup {0}]

CoverInv == IsFiniteSet(funds) /\ SpendingType /\ CollectCovers

\* What the entries of a finite set become when collect selects them.
SelectedOf(bs) == {[box |-> b, prio |-> SELECTED] : b \in bs}

LEMMA SelectedFacts ==
    ASSUME NEW S \in SUBSET Entries, IsFiniteSet(S)
    PROVE  /\ SelectedOf(BoxesOf(S)) \in SUBSET Entries
           /\ IsFiniteSet(SelectedOf(BoxesOf(S)))
           /\ OneEach(SelectedOf(BoxesOf(S)))
           /\ BoxesOf(SelectedOf(BoxesOf(S))) = BoxesOf(S)
           /\ [box : BoxesOf(S), prio : {SELECTED}] = SelectedOf(BoxesOf(S))
<1> DEFINE T == SelectedOf(BoxesOf(S))
           f == [e \in S |-> [box |-> e.box, prio |-> SELECTED]]
<1>1. \A e \in S : e.box \in Wallet /\ e.box \in BoxesOf(S)
  BY EntryFacts DEF BoxesOf
<1>2. BoxesOf(S) \subseteq Wallet
  BY <1>1 DEF BoxesOf
<1>3. T \in SUBSET Entries
  BY <1>2 DEF SelectedOf, Entries
<1>4. f \in Surjection(S, T)
  BY <1>1 DEF Surjection, SelectedOf, BoxesOf
<1>5. IsFiniteSet(T)
  <2> HIDE DEF f, T
  <2> QED
    BY <1>4, FS_Surjection
<1>6. OneEach(T)
  BY DEF OneEach, SelectedOf
<1>7. BoxesOf(T) = BoxesOf(S)
  <2>1. \A b : [box |-> b, prio |-> SELECTED].box = b
    OBVIOUS
  <2>2. PICK B : B = BoxesOf(S)
    OBVIOUS
  <2>3. BoxesOf(SelectedOf(B)) = B
    BY <2>1 DEF BoxesOf, SelectedOf
  <2> QED
    BY <2>2, <2>3
<1>8. [box : BoxesOf(S), prio : {SELECTED}] = T
  <2>1. PICK B : B = BoxesOf(S)
    OBVIOUS
  <2>2. ASSUME NEW e \in [box : B, prio : {SELECTED}]
        PROVE  e \in SelectedOf(B)
    BY DEF SelectedOf
  <2>3. ASSUME NEW e \in SelectedOf(B)
        PROVE  e \in [box : B, prio : {SELECTED}]
    BY DEF SelectedOf
  <2>4. [box : B, prio : {SELECTED}] = SelectedOf(B)
    BY <2>2, <2>3
  <2> QED
    BY <2>1, <2>4
<1> QED
  BY <1>3, <1>5, <1>6, <1>7, <1>8

\* A step that selects nothing.
LEMMA CoverKept ==
    ASSUME CoverInv, IsFiniteSet(funds'), doubled \subseteq doubled',
           spending' = spending \/ (SpendingType' /\ spending'.phase # "submit")
    PROVE  CoverInv'
  BY DEF CoverInv, CollectCovers, SpendingType

LEMMA PutFinite ==
    ASSUME IsFiniteSet(funds), NEW b, NEW p, Put(b, p)
    PROVE  IsFiniteSet(funds')
<1>1. funds' = funds \cup {[box |-> b, prio |-> p]}
  BY DEF Put
<1> QED
  BY <1>1, FS_AddElement

LEMMA RemoveFinite ==
    ASSUME IsFiniteSet(funds), NEW b, RemoveFunding(b)
    PROVE  IsFiniteSet(funds')
<1>1. funds' \in SUBSET funds
  BY DEF RemoveFunding, repoVars
<1> QED
  BY <1>1, FS_Subset

LEMMA CollectCover ==
    ASSUME RepoInv, CoverInv, NEW target \in Targets, Collect(target)
    PROVE  CoverInv'
<1>1. PICK es : es = Taken(target)
  OBVIOUS
<1>2. /\ MarkSelected(es) /\ doubled' = doubled
      /\ spending' = IF FundsTotal(es) >= target
                     THEN [phase |-> "submit", picked |-> BoxesOf(es), target |-> target]
                     ELSE spending
  BY <1>1 DEF Collect, fundHistory
<1>3. es \in SUBSET funds /\ es \in SUBSET Entries /\ IsFiniteSet(es)
  <2>1. es \in SUBSET funds
    BY <1>1 DEF Taken
  <2> QED
    BY <2>1, FS_Subset DEF RepoInv, CoverInv
<1>4. PICK T : T = SelectedOf(BoxesOf(es))
  OBVIOUS
<1>5. /\ T \in SUBSET Entries /\ IsFiniteSet(T) /\ OneEach(T) /\ BoxesOf(T) = BoxesOf(es)
      /\ [box : BoxesOf(es), prio : {SELECTED}] = T
  BY <1>3, <1>4, SelectedFacts
<1>6. IsFiniteSet(funds')
  <2>1. funds' = (funds \ es) \cup T
    BY <1>2, <1>5 DEF MarkSelected
  <2>2. IsFiniteSet(funds \ es)
    <3>1. funds \ es \in SUBSET funds
      OBVIOUS
    <3> QED
      BY <3>1, FS_Subset DEF CoverInv
  <2> QED
    BY <1>5, <2>1, <2>2, FS_Union
<1>7. CASE FundsTotal(es) >= target
  <2>1. /\ spending'.picked = BoxesOf(es) /\ spending'.target = target
    BY <1>2, <1>7
  <2>1a. SpendingType'
    <3>1. BoxesOf(es) \in SUBSET Wallet
      BY <1>3, EntryFacts DEF BoxesOf
    <3> QED
      BY <1>2, <1>7, <3>1 DEF SpendingType
  <2>2. CASE BoxesOf(es) \cap doubled = {}
    <3>1. ASSUME NEW e \in es
          PROVE  /\ e.prio = index[e.box] /\ e = [box |-> e.box, prio |-> e.prio]
      <4>1. e.box \in BoxesOf(es)
        BY DEF BoxesOf
      <4> QED
        BY <1>3, <2>2, <4>1, EntryFacts DEF RepoInv
    <3>2. OneEach(es)
      BY <3>1 DEF OneEach
    <3>3. FundsTotal(T) = FundsTotal(es)
      BY <1>3, <1>5, <3>2, TotalOfBoxes
    <3>4. FundsTotal(SelectedOf(spending'.picked)) >= spending'.target
      BY <1>4, <1>7, <2>1, <3>3
    <3> QED
      BY <1>6, <2>1a, <3>4 DEF CoverInv, CollectCovers, SelectedOf
  <2>3. CASE BoxesOf(es) \cap doubled # {}
    BY <1>2, <1>6, <2>1, <2>1a, <2>3 DEF CoverInv, CollectCovers
  <2> QED
    BY <2>2, <2>3
<1>8. CASE ~(FundsTotal(es) >= target)
  BY <1>2, <1>6, <1>8, CoverKept
<1> QED
  BY <1>7, <1>8

LEMMA CoverInit == FeedInit /\ FundingInit => CoverInv
  BY FS_EmptySet DEF FundingInit, CoverInv, CollectCovers, Idle, SpendingType

LEMMA CoverStep == FundInv /\ CoverInv /\ [FundingNext]_fundVars => CoverInv'
<1> SUFFICES ASSUME FundInv, CoverInv, [FundingNext]_fundVars
             PROVE  CoverInv'
  OBVIOUS
<1>0. /\ IsFiniteSet(funds) /\ SpendingType /\ RepoInv
      /\ spending' = Idle => SpendingType' /\ spending'.phase # "submit"
  BY DEF CoverInv, Idle, FundInv, SpendingType
<1>1. ASSUME NEW t \in Txs, HandleFundingApplied(t) \/ HandleFundingUnapplied(t)
      PROVE  CoverInv'
  BY <1>0, <1>1, CoverKept DEF HandleFundingApplied, HandleFundingUnapplied, repoVars
<1>2. ASSUME NEW t \in Txs, Submitted(t)
      PROVE  CoverInv'
  <2>1. IsFiniteSet(funds')
    BY <1>0, <1>2, PutFinite DEF Submitted, repoVars
  <2>2. doubled \subseteq doubled' /\ spending' = Idle
    BY <1>2 DEF Submitted
  <2> QED
    BY <1>0, <2>1, <2>2, CoverKept
<1>3. CASE TrackFunding
  <2>1. PICK u : u = Head(fundQueue)
    OBVIOUS
  <2>2. Put(u.box, CONFIRMED) \/ RemoveFunding(u.box)
    BY <1>3, <2>1 DEF TrackFunding
  <2>3. IsFiniteSet(funds')
    BY <1>0, <2>2, PutFinite, RemoveFinite
  <2>4. doubled' = doubled /\ spending' = spending
    BY <1>3 DEF TrackFunding, fundHistory
  <2> QED
    BY <2>3, <2>4, CoverKept
<1>4. ASSUME NEW target \in Targets, Collect(target)
      PROVE  CoverInv'
  BY <1>0, <1>4, CollectCover
<1>5. ASSUME NEW bs \in SUBSET spending.picked, ReportMissing(bs)
      PROVE  CoverInv'
  <2>1. /\ funds' = funds /\ doubled' = doubled
        /\ spending' = [spending EXCEPT !.phase = "purge", !.picked = bs]
    BY <1>5 DEF ReportMissing, repoVars, fundHistory
  <2>2. SpendingType' /\ spending'.phase # "submit"
    BY <1>0, <2>1 DEF SpendingType
  <2> QED
    BY <1>0, <2>1, <2>2, CoverKept
<1>6. ASSUME NEW b \in spending.picked, PurgeMissing(b)
      PROVE  CoverInv'
  <2>1. IsFiniteSet(funds')
    BY <1>0, <1>6, RemoveFinite DEF PurgeMissing
  <2>2. doubled' = doubled /\ SpendingType' /\ spending'.phase # "submit"
    BY <1>0, <1>6 DEF PurgeMissing, SpendingType
  <2> QED
    BY <2>1, <2>2, CoverKept
<1>7. CASE Abandoned \/ FundingRestart
  BY <1>0, <1>7, CoverKept DEF Abandoned, FundingRestart, repoVars, fundHistory
<1>8. CASE UNCHANGED fundVars
  BY <1>0, <1>8, CoverKept DEF fundVars, fundHistory
<1> QED
  BY <1>1, <1>2, <1>3, <1>4, <1>5, <1>6, <1>7, <1>8 DEF FundingNext

(***************************************************************************)
(* The boxes that collect returns are worth what it was asked for, each    *)
(* box counted once, although the repository may have two entries of a     *)
(* box: only a box that the executor predicted, or that was announced      *)
(* again while known, is counted twice.  This holds until the attempt      *)
(* ends, whatever the handler and the stream do meanwhile.                 *)
(***************************************************************************)
THEOREM CollectIsCovered == FundingSpec => []CollectCovers
<1>1. CoverInv => CollectCovers
  BY DEF CoverInv
<1> QED
  BY <1>1, CoverInit, CoverStep, FundingInductive, PTL DEF FundingSpec

(***************************************************************************)
(* Type correctness of the funding repository, its channel and the         *)
(* executor's attempt.                                                     *)
(***************************************************************************)
THEOREM FundingTypeCorrect == FundingSpec => []FundingTypeOK
<1>1. FundInv /\ CoverInv => FundingTypeOK
  <2> SUFFICES ASSUME FundInv, CoverInv
               PROVE  FundingTypeOK
    OBVIOUS
  <2>1. ASSUME NEW b \in DOMAIN index
        PROVE  b \in Wallet /\ [box |-> b, prio |-> index[b]] \in Entries
    BY EntryFacts DEF FundInv, RepoInv
  <2> QED
    BY <2>1 DEF FundInv, RepoInv, CoverInv, SpendingType, FundingTypeOK
<1> QED
  BY <1>1, CoverInit, CoverStep, FundingInductive, PTL DEF FundingSpec
=============================================================================
