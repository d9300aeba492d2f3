----------------------------- MODULE SumProofs ------------------------------
(***************************************************************************)
(* Sums over finite sets, and the induction they need.  Sums of the model  *)
(* are folds, recursive functions over the subsets of a set.               *)
(***************************************************************************)
EXTENDS FiniteSets, Integers, Functions, FiniteSetTheorems, WellFoundedInduction, TLAPS

SumOver(f, S) == SumFunctionOnSet(f, S)
-----------------------------------------------------------------------------
LEMMA LessThan == \A m, n \in Nat : m < n => <<m, n>> \in OpToRel(<, Nat)
  BY DEF OpToRel

\* Induction over the natural numbers, for a set: from the well-foundedness of <.
LEMMA Induction ==
    ASSUME NEW S, 0 \in S, \A n \in Nat : n \in S => n + 1 \in S
    PROVE  Nat \subseteq S
<1> DEFINE T == Nat \ S
           R == OpToRel(<, Nat)
<1>1. SUFFICES ASSUME T # {}
               PROVE  FALSE
  OBVIOUS
<1>2. IsWellFoundedOn(R, Nat)
  BY NatLessThanWellFounded
<1>3. \A m, n \in Nat : m < n => <<m, n>> \in R
  BY LessThan
<1> HIDE DEF R
<1>4. T \subseteq Nat
  OBVIOUS
<1> HIDE DEF T
<1>5. PICK n \in T : \A m \in T : ~(<<m, n>> \in R)
  BY <1>1, <1>2, <1>4, WFMin
<1>6. n \in Nat /\ n # 0 /\ n - 1 \in Nat /\ n - 1 < n /\ n \notin S
  BY <1>5 DEF T
<1>7. n - 1 \in S
  BY <1>3, <1>5, <1>6 DEF T
<1> QED
  BY <1>6, <1>7

\* The element that the fold of the community modules takes next.
Picked(s) == CHOOSE e \in s : TRUE

\* g is the recursive function of the fold over the subsets of S.
Sums(g, f, S) ==
    g = [s \in SUBSET S |-> IF s = {} THEN 0 ELSE f[Picked(s)] + g[s \ {Picked(s)}]]

LEMMA SumIs == \A f, S : SumOver(f, S) = (CHOOSE k : Sums(k, f, S))[S]
  BY DEF SumOver, SumFunctionOnSet, FoldFunctionOnSet, MapThenFoldSet, Sums, Picked

\* Removing an element of a finite set makes it smaller.
LEMMA Smaller ==
    ASSUME NEW S, IsFiniteSet(S), NEW n \in Nat, Cardinality(S) = n + 1, NEW x \in S
    PROVE  IsFiniteSet(S \ {x}) /\ Cardinality(S \ {x}) = n
<1>1. Cardinality(S \ {x}) = Cardinality(S) - 1 /\ IsFiniteSet(S \ {x})
  BY FS_RemoveElement
<1> QED
  BY <1>1

LEMMA PickedIn == \A s : s # {} => Picked(s) \in s
  BY DEF Picked

\* The recursive function exists: up to any cardinality, then for all subsets.
LEMMA SumsExist ==
    ASSUME NEW f, NEW S, IsFiniteSet(S)
    PROVE  \E g : Sums(g, f, S)
<1> DEFINE Rule(g, s) == g[s] = IF s = {} THEN 0 ELSE f[Picked(s)] + g[s \ {Picked(s)}]
           Upto(n) == {s \in SUBSET S : Cardinality(s) <= n}
           A == {n \in Nat : \E g : /\ g = [s \in SUBSET S |-> g[s]]
                                    /\ \A s \in Upto(n) : Rule(g, s)}
<1>1. 0 \in A
  <2>1. PICK g : g = [s \in SUBSET S |-> 0]
    OBVIOUS
  <2>2. ASSUME NEW s \in SUBSET S, Cardinality(s) <= 0
        PROVE  s = {}
    <3>1. IsFiniteSet(s)
      BY FS_Subset
    <3>2. Cardinality(s) \in Nat
      BY <3>1, FS_CardinalityType
    <3>3. Cardinality(s) = 0
      BY <2>2, <3>2
    <3> QED
      BY <3>1, <3>3, FS_EmptySet
  <2>3. g = [s \in SUBSET S |-> g[s]]
    BY <2>1
  <2>4. \A s \in Upto(0) : Rule(g, s)
    BY <2>1, <2>2
  <2> HIDE DEF Rule, Upto
  <2> QED
    BY <2>3, <2>4
<1>2. ASSUME NEW n \in Nat, n \in A
      PROVE  n + 1 \in A
  <2>1. PICK g : g = [s \in SUBSET S |-> g[s]] /\ \A s \in Upto(n) : Rule(g, s)
    BY <1>2
  <2>2. PICK h : h = [s \in SUBSET S |->
                        IF s \in Upto(n) THEN g[s]
                        ELSE f[Picked(s)] + g[s \ {Picked(s)}]]
    OBVIOUS
  <2>3. ASSUME NEW s \in Upto(n + 1)
        PROVE  Rule(h, s)
    <3>1. s \in SUBSET S /\ IsFiniteSet(s) /\ Cardinality(s) \in Nat /\ Cardinality(s) <= n + 1
      BY FS_Subset, FS_CardinalityType
    <3>2. CASE s = {}
      <4>1. s \in Upto(n)
        BY <3>2, FS_EmptySet
      <4> QED
        BY <2>1, <2>2, <3>2, <4>1
    <3>3. CASE s # {}
      <4>1. PICK x : x = Picked(s) /\ x \in s
        BY <3>3, PickedIn
      <4>2. /\ Cardinality(s \ {x}) = Cardinality(s) - 1
        BY <3>1, <4>1, FS_RemoveElement
      <4>3. s \ {x} \in Upto(n)
        BY <3>1, <4>2
      <4>4. h[s \ {x}] = g[s \ {x}]
        BY <2>2, <4>3
      <4>5. h[s] = f[x] + g[s \ {x}]
        <5>1. CASE s \in Upto(n)
          BY <2>1, <2>2, <3>3, <4>1, <5>1
        <5>2. CASE s \notin Upto(n)
          <6>1. s \in SUBSET S
            BY <3>1
          <6> HIDE DEF Upto
          <6> QED
            BY <2>2, <4>1, <5>2, <6>1
        <5> QED
          BY <5>1, <5>2
      <4> QED
        BY <3>3, <4>1, <4>4, <4>5
    <3> QED
      BY <3>2, <3>3
  <2>4. h = [s \in SUBSET S |-> h[s]]
    BY <2>2
  <2>5. \A s \in Upto(n + 1) : Rule(h, s)
    BY <2>3
  <2>6. n + 1 \in Nat
    OBVIOUS
  <2> HIDE DEF Rule, Upto
  <2> QED
    BY <2>4, <2>5, <2>6
<1>3. PICK g : g = [s \in SUBSET S |-> g[s]] /\ \A s \in Upto(Cardinality(S)) : Rule(g, s)
  <2>1. Cardinality(S) \in Nat
    BY FS_CardinalityType
  <2>2. Nat \subseteq A
    <3> HIDE DEF A
    <3> QED
      BY <1>1, <1>2, Induction
  <2>3. Cardinality(S) \in A
    BY <2>1, <2>2
  <2> HIDE DEF Rule, Upto
  <2> QED
    BY <2>3
<1>4. ASSUME NEW s \in SUBSET S
      PROVE  Rule(g, s)
  <2>1. Cardinality(s) <= Cardinality(S)
    BY FS_Subset
  <2> QED
    BY <1>3, <2>1
<1>5. Sums(g, f, S)
  BY <1>3, <1>4 DEF Sums
<1> QED
  BY <1>5

\* What it says of a set does not depend on the set it is defined for.
LEMMA SumsAgree ==
    ASSUME NEW f, NEW S, NEW T, NEW g, NEW h, Sums(g, f, S), Sums(h, f, T),
           NEW U \in SUBSET (S \cap T), IsFiniteSet(U)
    PROVE  g[U] = h[U]
<1> DEFINE Agree(s) == g[s] = h[s]
           A == {n \in Nat : \A s \in SUBSET (S \cap T) :
                    IsFiniteSet(s) /\ Cardinality(s) = n => Agree(s)}
<1>0. \A s \in SUBSET (S \cap T) :
         /\ s \in SUBSET S /\ s \in SUBSET T
         /\ g[s] = IF s = {} THEN 0 ELSE f[Picked(s)] + g[s \ {Picked(s)}]
         /\ h[s] = IF s = {} THEN 0 ELSE f[Picked(s)] + h[s \ {Picked(s)}]
  BY DEF Sums
<1>1. 0 \in A
  <2>1. ASSUME NEW s \in SUBSET (S \cap T), IsFiniteSet(s), Cardinality(s) = 0
        PROVE  Agree(s)
    <3>1. s = {}
      BY <2>1, FS_EmptySet
    <3> QED
      BY <1>0, <3>1
  <2> HIDE DEF Agree
  <2> QED
    BY <2>1
<1>2. ASSUME NEW n \in Nat, n \in A
      PROVE  n + 1 \in A
  <2>1. ASSUME NEW s \in SUBSET (S \cap T), IsFiniteSet(s), Cardinality(s) = n + 1
        PROVE  Agree(s)
    <3>1. s # {}
      BY <2>1, FS_EmptySet
    <3>2. PICK x : x = Picked(s) /\ x \in s
      BY <3>1, PickedIn
    <3>3. PICK r : r = s \ {x}
      OBVIOUS
    <3>4. IsFiniteSet(r) /\ Cardinality(r) = n
      BY <2>1, <3>2, <3>3, Smaller
    <3>5. g[r] = h[r]
      BY <1>2, <3>3, <3>4
    <3> QED
      BY <1>0, <3>1, <3>2, <3>3, <3>5
  <2> HIDE DEF Agree
  <2> QED
    BY <2>1
<1>3. Nat \subseteq A
  <2> HIDE DEF A
  <2> QED
    BY <1>1, <1>2, Induction
<1>4. Cardinality(U) \in Nat
  BY FS_CardinalityType
<1> QED
  BY <1>3, <1>4

\* The sum over a set in terms of the sum over the set without one element.
LEMMA SumStep ==
    ASSUME NEW f, NEW S, IsFiniteSet(S)
    PROVE  /\ S = {} => SumOver(f, S) = 0
           /\ S # {} => SumOver(f, S) = f[Picked(S)] + SumOver(f, S \ {Picked(S)})
<1>1. PICK g : g = (CHOOSE k : Sums(k, f, S)) /\ Sums(g, f, S)
  BY SumsExist
<1>2. SumOver(f, S) = g[S]
  BY <1>1, SumIs
<1>3. g[S] = IF S = {} THEN 0 ELSE f[Picked(S)] + g[S \ {Picked(S)}]
  BY <1>1 DEF Sums
<1>4. CASE S # {}
  <2>1. PICK R : R = S \ {Picked(S)}
    OBVIOUS
  <2>2. IsFiniteSet(R)
    BY <2>1, FS_RemoveElement
  <2>3. PICK h : h = (CHOOSE k : Sums(k, f, R)) /\ Sums(h, f, R)
    BY <2>2, SumsExist
  <2>4. SumOver(f, R) = h[R]
    BY <2>3, SumIs
  <2>5. R \in SUBSET (S \cap R)
    BY <2>1
  <2>6. g[R] = h[R]
    BY <1>1, <2>2, <2>3, <2>5, SumsAgree
  <2> QED
    BY <1>2, <1>3, <1>4, <2>1, <2>4, <2>6
<1> QED
  BY <1>2, <1>3, <1>4

-----------------------------------------------------------------------------
\* Induction over the elements of a finite set, for a set of sets.
LEMMA SetInduction ==
    ASSUME NEW S, IsFiniteSet(S), NEW P, {} \in P,
           \A T \in SUBSET S : \A x \in S \ T : T \in P => T \cup {x} \in P
    PROVE  S \in P
<1> DEFINE A == {n \in Nat : \A T \in SUBSET S : Cardinality(T) = n => T \in P}
<1>1. 0 \in A
  <2>1. ASSUME NEW T \in SUBSET S, Cardinality(T) = 0
        PROVE  T \in P
    <3>1. IsFiniteSet(T)
      BY FS_Subset
    <3>2. T = {}
      BY <2>1, <3>1, FS_EmptySet
    <3> QED
      BY <3>2
  <2> QED
    BY <2>1
<1>2. ASSUME NEW n \in Nat, n \in A
      PROVE  n + 1 \in A
  <2>1. ASSUME NEW T \in SUBSET S, Cardinality(T) = n + 1
        PROVE  T \in P
    <3>1. IsFiniteSet(T)
      BY FS_Subset
    <3>2. PICK x : x \in T
      BY <2>1, <3>1, FS_EmptySet
    <3>3. PICK R : R = T \ {x}
      OBVIOUS
    <3>4. Cardinality(R) = n
      BY <2>1, <3>1, <3>2, <3>3, Smaller
    <3>5. R \in SUBSET S /\ x \in S \ R /\ R \cup {x} = T
      BY <3>2, <3>3
    <3>6. R \in P
      BY <1>2, <3>4, <3>5
    <3> QED
      BY <3>5, <3>6
  <2> QED
    BY <2>1
<1>3. Nat \subseteq A
  <2> HIDE DEF A
  <2> QED
    BY <1>1, <1>2, Induction
<1>4. Cardinality(S) \in Nat
  BY FS_CardinalityType
<1> QED
  BY <1>3, <1>4

LEMMA SumEmpty == \A f : SumOver(f, {}) = 0
<1> TAKE f
<1>1. PICK S : S = {}
  OBVIOUS
<1>2. IsFiniteSet(S)
  BY <1>1, FS_EmptySet
<1>3. SumOver(f, S) = 0
  BY ONLY <1>1, <1>2, SumStep
<1> QED
  BY <1>1, <1>3

LEMMA SumInt ==
    ASSUME NEW f, NEW S, IsFiniteSet(S), \A x \in S : f[x] \in Int
    PROVE  SumOver(f, S) \in Int
<1> DEFINE A == {n \in Nat : \A s \in SUBSET S : Cardinality(s) = n => SumOver(f, s) \in Int}
<1>1. 0 \in A
  <2>1. ASSUME NEW s \in SUBSET S, Cardinality(s) = 0
        PROVE  SumOver(f, s) \in Int
    <3>1. s = {}
      BY <2>1, FS_Subset, FS_EmptySet
    <3> QED
      BY <3>1, SumEmpty
  <2> QED
    BY <2>1
<1>2. ASSUME NEW n \in Nat, n \in A
      PROVE  n + 1 \in A
  <2>1. ASSUME NEW s \in SUBSET S, Cardinality(s) = n + 1
        PROVE  SumOver(f, s) \in Int
    <3>0. IsFiniteSet(s)
      BY FS_Subset
    <3>1. s # {}
      BY <2>1, FS_EmptySet
    <3>2. PICK x : x = Picked(s) /\ x \in s
      BY <3>1, PickedIn
    <3>3. PICK r : r = s \ {x}
      OBVIOUS
    <3>4. Cardinality(r) = n
      BY <2>1, <3>0, <3>2, <3>3, Smaller
    <3>5. SumOver(f, r) \in Int
      BY <1>2, <3>3, <3>4
    <3>6. f[x] \in Int
      BY <3>2
    <3>7. SumOver(f, s) = f[x] + SumOver(f, r)
      BY <3>0, <3>1, <3>2, <3>3, SumStep
    <3> QED
      BY <3>5, <3>6, <3>7
  <2> QED
    BY <2>1
<1>3. Nat \subseteq A
  <2> HIDE DEF A
  <2> QED
    BY <1>1, <1>2, Induction
<1>4. Cardinality(S) \in Nat
  BY FS_CardinalityType
<1> QED
  BY <1>3, <1>4

\* Any element can be taken out of the sum.
LEMMA SumRemove ==
    ASSUME NEW f, NEW S, IsFiniteSet(S), \A x \in S : f[x] \in Int, NEW e \in S
    PROVE  SumOver(f, S) = f[e] + SumOver(f, S \ {e})
<1> DEFINE Out(s, x) == SumOver(f, s) = f[x] + SumOver(f, s \ {x})
           A == {n \in Nat : \A s \in SUBSET S : \A x \in s : Cardinality(s) = n => Out(s, x)}
<1>1. 0 \in A
  <2>1. ASSUME NEW s \in SUBSET S, NEW x \in s, Cardinality(s) = 0
        PROVE  FALSE
    BY <2>1, FS_Subset, FS_EmptySet
  <2> HIDE DEF Out
  <2> QED
    BY <2>1
<1>2. ASSUME NEW n \in Nat, n \in A
      PROVE  n + 1 \in A
  <2>1. ASSUME NEW s \in SUBSET S, NEW x \in s, Cardinality(s) = n + 1
        PROVE  Out(s, x)
    <3>0. IsFiniteSet(s)
      BY FS_Subset
    <3>1. PICK y : y = Picked(s) /\ y \in s
      BY PickedIn
    <3>2. SumOver(f, s) = f[y] + SumOver(f, s \ {y})
      BY <3>0, <3>1, SumStep
    <3>3. CASE y = x
      BY <3>2, <3>3
    <3>4. CASE y # x
      <4>1. PICK p, q, r : p = s \ {y} /\ q = s \ {x} /\ r = s \ {x, y}
        OBVIOUS
      <4>2. Cardinality(p) = n /\ Cardinality(q) = n
        BY <2>1, <3>0, <3>1, <4>1, Smaller
      <4>3. p \in SUBSET S /\ q \in SUBSET S /\ x \in p /\ y \in q
        BY <3>1, <3>4, <4>1
      <4>4. p \ {x} = r /\ q \ {y} = r
        BY <4>1
      <4>5. Out(p, x) /\ Out(q, y)
        <5> HIDE DEF Out
        <5> QED
          BY <1>2, <4>2, <4>3
      <4>6. /\ SumOver(f, p) = f[x] + SumOver(f, r)
            /\ SumOver(f, q) = f[y] + SumOver(f, r)
        BY <4>4, <4>5
      <4>7. r \in SUBSET S /\ IsFiniteSet(r) /\ \A z \in r : f[z] \in Int
        BY <4>1, FS_Subset
      <4>8. SumOver(f, r) \in Int
        BY ONLY <4>7, SumInt
      <4>9. f[x] \in Int /\ f[y] \in Int
        BY <3>1
      <4> QED
        BY <3>2, <4>1, <4>6, <4>8, <4>9
    <3> QED
      BY <3>3, <3>4
  <2> HIDE DEF Out
  <2> QED
    BY <2>1
<1>3. Nat \subseteq A
  <2> HIDE DEF A
  <2> QED
    BY <1>1, <1>2, Induction
<1>4. Cardinality(S) \in Nat
  BY FS_CardinalityType
<1> QED
  BY <1>3, <1>4

LEMMA SumAdd ==
    ASSUME NEW f, NEW S, IsFiniteSet(S), NEW x, x \notin S, \A y \in S \cup {x} : f[y] \in Int
    PROVE  SumOver(f, S \cup {x}) = f[x] + SumOver(f, S)
<1>1. PICK T : T = S \cup {x}
  OBVIOUS
<1>2. IsFiniteSet(T) /\ x \in T /\ T \ {x} = S /\ \A y \in T : f[y] \in Int
  BY <1>1, FS_AddElement
<1>3. SumOver(f, T) = f[x] + SumOver(f, T \ {x})
  BY ONLY <1>2, SumRemove
<1> QED
  BY <1>1, <1>2, <1>3

LEMMA SumNat ==
    ASSUME NEW f, NEW S, IsFiniteSet(S), \A x \in S : f[x] \in Nat
    PROVE  SumOver(f, S) \in Nat
<1> DEFINE P == {T \in SUBSET S : SumOver(f, T) \in Nat}
<1>1. {} \in P
  BY SumEmpty
<1>2. ASSUME NEW T \in SUBSET S, NEW x \in S \ T, T \in P
      PROVE  T \cup {x} \in P
  <2>1. IsFiniteSet(T) /\ x \notin T /\ \A y \in T \cup {x} : f[y] \in Int
    BY FS_Subset
  <2>2. SumOver(f, T \cup {x}) = f[x] + SumOver(f, T)
    BY ONLY <2>1, SumAdd
  <2>3. f[x] \in Nat /\ SumOver(f, T) \in Nat
    BY <1>2
  <2>4. SumOver(f, T \cup {x}) \in Nat
    BY <2>2, <2>3
  <2> QED
    BY <2>4
<1>3. S \in P
  <2> HIDE DEF P
  <2> QED
    BY <1>1, <1>2, SetInduction
<1> QED
  BY <1>3

\* A sum of multiples, and a bound of each term by another.
LEMMA SumBound ==
    ASSUME NEW f, NEW g, NEW S, IsFiniteSet(S), NEW a \in Int, NEW b \in Int,
           \A x \in S : f[x] \in Int /\ g[x] \in Int /\ a * f[x] <= b * g[x]
    PROVE  a * SumOver(f, S) <= b * SumOver(g, S)
<1> DEFINE Bound(T) == a * SumOver(f, T) <= b * SumOver(g, T)
           P == {T \in SUBSET S : Bound(T)}
<1>1. {} \in P
  BY SumEmpty
<1>2. ASSUME NEW T \in SUBSET S, NEW x \in S \ T, T \in P
      PROVE  T \cup {x} \in P
  <2>1. /\ IsFiniteSet(T) /\ x \notin T
        /\ \A y \in T \cup {x} : f[y] \in Int
        /\ \A y \in T \cup {x} : g[y] \in Int
    BY FS_Subset
  <2>2. SumOver(f, T \cup {x}) = f[x] + SumOver(f, T)
    BY ONLY <2>1, SumAdd
  <2>3. SumOver(g, T \cup {x}) = g[x] + SumOver(g, T)
    BY ONLY <2>1, SumAdd
  <2>4. SumOver(f, T) \in Int /\ SumOver(g, T) \in Int
    BY ONLY <2>1, SumInt
  <2>5. PICK u, v, c, d : u = SumOver(f, T) /\ v = SumOver(g, T) /\ c = f[x] /\ d = g[x]
    OBVIOUS
  <2>6. /\ u \in Int /\ v \in Int /\ c \in Int /\ d \in Int
        /\ a * u <= b * v /\ a * c <= b * d
    BY <1>2, <2>4, <2>5
  <2>7. a * (c + u) = a * c + a * u /\ b * (d + v) = b * d + b * v
    BY <2>6
  <2>8. a * c \in Int /\ a * u \in Int /\ b * d \in Int /\ b * v \in Int
    BY <2>6
  <2>9. a * (c + u) <= b * (d + v)
    BY <2>6, <2>7, <2>8
  <2>10. Bound(T \cup {x})
    BY <2>2, <2>3, <2>5, <2>9
  <2> HIDE DEF Bound
  <2> QED
    BY <2>10
<1>3. S \in P
  <2> HIDE DEF P
  <2> QED
    BY <1>1, <1>2, SetInduction
<1> QED
  BY <1>3

LEMMA SumLinear ==
    ASSUME NEW f, NEW g, NEW h, NEW S, IsFiniteSet(S), NEW a \in Int,
           \A x \in S : f[x] \in Int /\ g[x] \in Int /\ h[x] = f[x] - a * g[x]
    PROVE  SumOver(h, S) = SumOver(f, S) - a * SumOver(g, S)
<1> DEFINE Lin(T) == SumOver(h, T) = SumOver(f, T) - a * SumOver(g, T)
           P == {T \in SUBSET S : Lin(T)}
<1>1. {} \in P
  BY SumEmpty
<1>2. ASSUME NEW T \in SUBSET S, NEW x \in S \ T, T \in P
      PROVE  T \cup {x} \in P
  <2>1. /\ IsFiniteSet(T) /\ x \notin T
        /\ \A y \in T \cup {x} : f[y] \in Int
        /\ \A y \in T \cup {x} : g[y] \in Int
        /\ \A y \in T \cup {x} : h[y] \in Int
    BY FS_Subset
  <2>2. SumOver(f, T \cup {x}) = f[x] + SumOver(f, T)
    BY ONLY <2>1, SumAdd
  <2>3. SumOver(g, T \cup {x}) = g[x] + SumOver(g, T)
    BY ONLY <2>1, SumAdd
  <2>4. SumOver(h, T \cup {x}) = h[x] + SumOver(h, T)
    BY ONLY <2>1, SumAdd
  <2>5. SumOver(f, T) \in Int /\ SumOver(g, T) \in Int
    BY ONLY <2>1, SumInt
  <2>6. PICK u, v, w, c, d, e : /\ u = SumOver(f, T) /\ v = SumOver(g, T) /\ w = SumOver(h, T)
                                /\ c = f[x] /\ d = g[x] /\ e = h[x]
    OBVIOUS
  <2>7. /\ u \in Int /\ v \in Int /\ c \in Int /\ d \in Int
        /\ w = u - a * v /\ e = c - a * d
    BY <1>2, <2>5, <2>6
  <2>8. a * (d + v) = a * d + a * v /\ a * d \in Int /\ a * v \in Int
    BY <2>7
  <2>9. e + w = (c + u) - a * (d + v)
    BY <2>7, <2>8
  <2>10. Lin(T \cup {x})
    BY <2>2, <2>3, <2>4, <2>6, <2>9
  <2> HIDE DEF Lin
  <2> QED
    BY <2>10
<1>3. S \in P
  <2> HIDE DEF P
  <2> QED
    BY <1>1, <1>2, SetInduction
<1> QED
  BY <1>3

\* The sum depends on the terms only.
LEMMA SumSame ==
    ASSUME NEW f, NEW g, NEW S, IsFiniteSet(S), \A x \in S : f[x] \in Int /\ g[x] = f[x]
    PROVE  SumOver(g, S) = SumOver(f, S)
<1>1. \A x \in S : f[x] \in Int /\ f[x] \in Int /\ g[x] = f[x] - 0 * f[x]
  OBVIOUS
<1>2. SumOver(g, S) = SumOver(f, S) - 0 * SumOver(f, S)
  BY <1>1, SumLinear
<1>3. SumOver(f, S) \in Int
  BY SumInt
<1> QED
  BY <1>2, <1>3

\* Fewer terms, less sum.
LEMMA SumSubset ==
    ASSUME NEW f, NEW S, IsFiniteSet(S), \A x \in S : f[x] \in Nat, NEW T \in SUBSET S
    PROVE  SumOver(f, T) <= SumOver(f, S)
<1> DEFINE Less(U) == SumOver(f, T \cap U) <= SumOver(f, U)
           P == {U \in SUBSET S : Less(U)}
<1>1. {} \in P
  <2>1. T \cap {} = {}
    OBVIOUS
  <2> QED
    BY <2>1, SumEmpty
<1>2. ASSUME NEW U \in SUBSET S, NEW x \in S \ U, U \in P
      PROVE  U \cup {x} \in P
  <2>1. /\ IsFiniteSet(U) /\ x \notin U /\ \A y \in U \cup {x} : f[y] \in Int
    BY FS_Subset
  <2>2. SumOver(f, U \cup {x}) = f[x] + SumOver(f, U)
    BY ONLY <2>1, SumAdd
  <2>3. PICK V : V = T \cap U
    OBVIOUS
  <2>4. /\ IsFiniteSet(V) /\ x \notin V /\ \A y \in V \cup {x} : f[y] \in Int
    BY <2>3, FS_Subset
  <2>5. SumOver(f, V \cup {x}) = f[x] + SumOver(f, V)
    BY ONLY <2>4, SumAdd
  <2>6. T \cap (U \cup {x}) = V \/ T \cap (U \cup {x}) = V \cup {x}
    BY <2>3
  <2>7. SumOver(f, U) \in Int /\ SumOver(f, V) \in Int
    BY <2>1, <2>4, SumInt
  <2>8. SumOver(f, V) <= SumOver(f, U) /\ f[x] \in Nat
    BY <1>2, <2>3
  <2>9. PICK u, v, c : u = SumOver(f, U) /\ v = SumOver(f, V) /\ c = f[x]
    OBVIOUS
  <2>10. v <= c + u /\ c + v <= c + u
    BY <2>7, <2>8, <2>9
  <2>11. Less(U \cup {x})
    <3>1. CASE T \cap (U \cup {x}) = V
      BY <2>2, <2>9, <2>10, <3>1
    <3>2. CASE T \cap (U \cup {x}) = V \cup {x}
      BY <2>2, <2>5, <2>9, <2>10, <3>2
    <3> QED
      BY <2>6, <3>1, <3>2
  <2> HIDE DEF Less
  <2> QED
    BY <2>11
<1>3. S \in P
  <2> HIDE DEF P
  <2> QED
    BY <1>1, <1>2, SetInduction
<1>4. T \cap S = T
  OBVIOUS
<1> QED
  BY <1>3, <1>4

\* A sum of positive terms.
LEMMA SumPositive ==
    ASSUME NEW f, NEW S, IsFiniteSet(S), S # {}, \A x \in S : f[x] \in Nat /\ f[x] >= 1
    PROVE  SumOver(f, S) >= 1
<1>1. PICK x : x \in S
  OBVIOUS
<1>2. PICK T : T = S \ {x}
  OBVIOUS
<1>3. IsFiniteSet(T) /\ \A y \in T : f[y] \in Nat
  BY <1>2, FS_Subset
<1>4. SumOver(f, T) \in Nat
  BY ONLY <1>3, SumNat
<1>5. \A y \in S : f[y] \in Int
  OBVIOUS
<1>6. SumOver(f, S) = f[x] + SumOver(f, S \ {x})
  BY <1>1, <1>5, SumRemove
<1>7. f[x] \in Nat /\ f[x] >= 1
  BY <1>1
<1> QED
  BY <1>2, <1>4, <1>6, <1>7

\* One more term, and one term less.
LEMMA SumWith ==
    ASSUME NEW f, NEW g, NEW S, IsFiniteSet(S), NEW x, x \notin S, g[x] \in Int,
           \A y \in S : f[y] \in Int /\ g[y] = f[y]
    PROVE  SumOver(g, S \cup {x}) = g[x] + SumOver(f, S)
<1>1. \A y \in S \cup {x} : g[y] \in Int
  OBVIOUS
<1>2. SumOver(g, S \cup {x}) = g[x] + SumOver(g, S)
  BY <1>1, SumAdd
<1>3. SumOver(g, S) = SumOver(f, S)
  BY SumSame
<1> QED
  BY <1>2, <1>3

LEMMA SumWithout ==
    ASSUME NEW f, NEW g, NEW S, IsFiniteSet(S), NEW x \in S, NEW T, T = S \ {x},
           \A y \in S : f[y] \in Int, \A y \in T : g[y] = f[y]
    PROVE  SumOver(g, T) = SumOver(f, S) - f[x]
<1>1. IsFiniteSet(T) /\ \A y \in T : f[y] \in Int /\ g[y] = f[y]
  BY FS_Subset
<1>2. SumOver(g, T) = SumOver(f, T)
  BY ONLY <1>1, SumSame
<1>3. SumOver(f, S) = f[x] + SumOver(f, T)
  BY SumRemove
<1>4. SumOver(f, T) \in Int
  BY ONLY <1>1, SumInt
<1>5. f[x] \in Int
  OBVIOUS
<1> QED
  BY <1>2, <1>3, <1>4, <1>5

\* Some of the terms made smaller.
LEMMA SumLess ==
    ASSUME NEW f, NEW g, NEW h, NEW S, IsFiniteSet(S), NEW T \in SUBSET S,
           \A x \in S : f[x] \in Int /\ h[x] \in Int /\ g[x] = IF x \in T THEN f[x] - h[x] ELSE f[x]
    PROVE  SumOver(g, S) = SumOver(f, S) - SumOver(h, T)
<1> DEFINE Diff(U) == SumOver(g, U) = SumOver(f, U) - SumOver(h, T \cap U)
           P == {U \in SUBSET S : Diff(U)}
<1>1. {} \in P
  <2>1. T \cap {} = {}
    OBVIOUS
  <2> QED
    BY <2>1, SumEmpty
<1>2. ASSUME NEW U \in SUBSET S, NEW x \in S \ U, U \in P
      PROVE  U \cup {x} \in P
  <2>1. PICK V : V = T \cap U
    OBVIOUS
  <2>2. /\ IsFiniteSet(U) /\ IsFiniteSet(V) /\ x \notin U /\ x \notin V
        /\ \A y \in U \cup {x} : f[y] \in Int
        /\ \A y \in U \cup {x} : g[y] \in Int
        /\ \A y \in V \cup {x} : h[y] \in Int
    BY <2>1, FS_Subset
  <2>3. SumOver(f, U \cup {x}) = f[x] + SumOver(f, U)
    BY ONLY <2>2, SumAdd
  <2>4. SumOver(g, U \cup {x}) = g[x] + SumOver(g, U)
    BY ONLY <2>2, SumAdd
  <2>5. SumOver(h, V \cup {x}) = h[x] + SumOver(h, V)
    BY ONLY <2>2, SumAdd
  <2>6. SumOver(f, U) \in Int /\ SumOver(h, V) \in Int
    BY ONLY <2>2, SumInt
  <2>7. PICK u, v, w, c, d, e : /\ u = SumOver(f, U) /\ v = SumOver(g, U) /\ w = SumOver(h, V)
                                /\ c = f[x] /\ d = g[x] /\ e = h[x]
    OBVIOUS
  <2>8. u \in Int /\ w \in Int /\ c \in Int /\ e \in Int /\ v = u - w
    BY <1>2, <2>1, <2>6, <2>7
  <2>9. Diff(U \cup {x})
    <3>1. CASE x \in T
      <4>1. T \cap (U \cup {x}) = V \cup {x} /\ d = c - e
        BY <2>1, <2>7, <3>1
      <4>2. d + v = (c + u) - (e + w)
        BY <2>8, <4>1
      <4> QED
        BY <2>3, <2>4, <2>5, <2>7, <4>1, <4>2
    <3>2. CASE x \notin T
      <4>1. T \cap (U \cup {x}) = V /\ d = c
        BY <2>1, <2>7, <3>2
      <4>2. d + v = (c + u) - w
        BY <2>8, <4>1
      <4> QED
        BY <2>3, <2>4, <2>7, <4>1, <4>2
    <3> QED
      BY <3>1, <3>2
  <2> HIDE DEF Diff
  <2> QED
    BY <2>9
<1>3. S \in P
  <2> HIDE DEF P
  <2> QED
    BY <1>1, <1>2, SetInduction
<1>4. T \cap S = T
  OBVIOUS
<1> QED
  BY <1>3, <1>4

\* A bound of each term by another and a constant.
LEMMA SumGap ==
    ASSUME NEW f, NEW g, NEW S, IsFiniteSet(S), NEW a \in Int, NEW b \in Int, NEW c \in Int,
           \A x \in S : f[x] \in Int /\ g[x] \in Int /\ a * f[x] <= b * g[x] + c
    PROVE  a * SumOver(f, S) <= b * SumOver(g, S) + c * Cardinality(S)
<1> DEFINE Bound(T) == a * SumOver(f, T) <= b * SumOver(g, T) + c * Cardinality(T)
           P == {T \in SUBSET S : Bound(T)}
<1>1. {} \in P
  BY SumEmpty, FS_EmptySet
<1>2. ASSUME NEW T \in SUBSET S, NEW x \in S \ T, T \in P
      PROVE  T \cup {x} \in P
  <2>1. /\ IsFiniteSet(T) /\ x \notin T
        /\ \A y \in T \cup {x} : f[y] \in Int
        /\ \A y \in T \cup {x} : g[y] \in Int
    BY FS_Subset
  <2>2. SumOver(f, T \cup {x}) = f[x] + SumOver(f, T)
    BY ONLY <2>1, SumAdd
  <2>3. SumOver(g, T \cup {x}) = g[x] + SumOver(g, T)
    BY ONLY <2>1, SumAdd
  <2>4. SumOver(f, T) \in Int /\ SumOver(g, T) \in Int
    BY ONLY <2>1, SumInt
  <2>5. Cardinality(T) \in Nat /\ Cardinality(T \cup {x}) = Cardinality(T) + 1
    BY <2>1, FS_AddElement, FS_CardinalityType
  <2>6. PICK u, v, k, l, n : /\ u = SumOver(f, T) /\ v = SumOver(g, T) /\ k = f[x] /\ l = g[x]
                             /\ n = Cardinality(T)
    OBVIOUS
  <2>7. /\ u \in Int /\ v \in Int /\ k \in Int /\ l \in Int /\ n \in Nat
        /\ a * u <= b * v + c * n /\ a * k <= b * l + c
    BY <1>2, <2>4, <2>5, <2>6
  <2>8. /\ a * (k + u) = a * k + a * u /\ b * (l + v) = b * l + b * v
        /\ c * (n + 1) = c * n + c
    BY <2>7
  <2>9. /\ a * k \in Int /\ a * u \in Int /\ b * l \in Int /\ b * v \in Int
        /\ c * n \in Int
    BY <2>7
  <2>10. a * (k + u) <= b * (l + v) + c * (n + 1)
    BY <2>7, <2>8, <2>9
  <2>11. Bound(T \cup {x})
    BY <2>2, <2>3, <2>5, <2>6, <2>10
  <2> HIDE DEF Bound
  <2> QED
    BY <2>11
<1>3. S \in P
  <2> HIDE DEF P
  <2> QED
    BY <1>1, <1>2, SetInduction
<1> QED
  BY <1>3

\* Terms that are zero do not count.
LEMMA SumZero ==
    ASSUME NEW f, NEW S, IsFiniteSet(S), NEW T \in SUBSET S, \A x \in S : f[x] \in Int,
           \A x \in S \ T : f[x] = 0
    PROVE  SumOver(f, S) = SumOver(f, T)
<1>1. PICK g : g = [x \in S |-> 0]
  OBVIOUS
<1>2. \A x \in S : /\ f[x] \in Int /\ f[x] \in Int
                   /\ g[x] = IF x \in T THEN f[x] - f[x] ELSE f[x]
  BY <1>1
<1>3. SumOver(g, S) = SumOver(f, S) - SumOver(f, T)
  BY ONLY <1>2, IsFiniteSet(S), T \in SUBSET S, SumLess
<1>4. \A x \in S : g[x] \in Int /\ g[x] \in Int /\ g[x] = g[x] - 1 * g[x]
  BY <1>1
<1>5. SumOver(g, S) = SumOver(g, S) - 1 * SumOver(g, S)
  BY ONLY <1>4, IsFiniteSet(S), SumLinear
<1>6. SumOver(g, S) \in Int
  BY ONLY <1>4, IsFiniteSet(S), SumInt
<1>7. IsFiniteSet(T) /\ \A x \in T : f[x] \in Int
  BY FS_Subset
<1>8. SumOver(f, S) \in Int
  BY SumInt
<1>9. SumOver(f, T) \in Int
  BY ONLY <1>7, SumInt
<1>10. PICK u, v, w : u = SumOver(f, S) /\ v = SumOver(f, T) /\ w = SumOver(g, S)
  OBVIOUS
<1>11. u \in Int /\ v \in Int /\ w \in Int /\ w = u - v /\ w = w - 1 * w
  BY <1>3, <1>5, <1>6, <1>8, <1>9, <1>10
<1>12. u = v
  BY <1>11
<1> QED
  BY <1>10, <1>12
=============================================================================
