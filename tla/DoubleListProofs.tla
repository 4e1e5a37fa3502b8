--------------------------- MODULE DoubleListProofs ---------------------------
(***************************************************************************)
(* The linked lists for any heap, any elements and any comparator: the     *)
(* links stay whole, no call goes through a bad pointer but on a fragile   *)
(* list, and every call does to the sequence of elements what SequenceList *)
(* says.                                                                   *)
(***************************************************************************)
EXTENDS DoubleList, WellFoundedInduction, SequenceTheorems, FiniteSetTheorems, FunctionTheorems, TLAPS

-----------------------------------------------------------------------------
(* Sequences: the first of some positions, and an element put in or taken out. *)

\* A set of positions that is not empty has a first one.
LEMMA FirstPosition ==
  ASSUME NEW T, T \subseteq Nat, T # {}
  PROVE  \E k \in T : \A j \in T : k <= j
<1>1. PICK k \in T : \A j \in T : ~ (<<j, k>> \in OpToRel(<, Nat))
  BY NatLessThanWellFounded, WFMin
<1>2. ASSUME NEW j \in T, j < k
      PROVE  <<j, k>> \in OpToRel(<, Nat)
  <2>1. <<j, k>> \in Nat \X Nat /\ <<j, k>>[1] = j /\ <<j, k>>[2] = k
    OBVIOUS
  <2> QED BY <1>2, <2>1, Zenon DEF OpToRel
<1>3. \A j \in T : ~(j < k)
  BY <1>1, <1>2, Zenon
<1> QED BY <1>3

\* findNode (doublelist.c:80) stops at the first element not greater than d, when there
\* is one.
LEMMA FoundIsFirst ==
  ASSUME NEW key, NEW s, NEW d, AtMost(key, s, d) # {}, Len(s) \in Nat
  PROVE  /\ FoundPos(key, s, d) \in AtMost(key, s, d)
         /\ \A j \in AtMost(key, s, d) : FoundPos(key, s, d) <= j
<1>1. AtMost(key, s, d) \subseteq Nat
  BY DEF AtMost
<1>2. \E k \in AtMost(key, s, d) : \A j \in AtMost(key, s, d) : k <= j
  BY <1>1, FirstPosition
<1> QED BY <1>2 DEF FoundPos

\* An element put in shifts those behind it.
LEMMA InsertedAt ==
  ASSUME NEW E, NEW s \in Seq(E), NEW d \in E, NEW p \in 1..Len(s)+1
  PROVE  /\ InsertAt(s, p, d) \in Seq(E)
         /\ Len(InsertAt(s, p, d)) = Len(s) + 1
         /\ \A j \in 1..Len(s)+1 :
              InsertAt(s, p, d)[j] = IF j < p THEN s[j] ELSE IF j = p THEN d ELSE s[j-1]
<1> DEFINE a == SubSeq(s, 1, p-1)  b == SubSeq(s, p, Len(s))
<1>0. \A i \in 1..Len(s) : s[i] \in E
  BY ElementOfSeq
<1>1. a \in Seq(E) /\ Len(a) = p-1 /\ \A i \in 1..p-1 : a[i] = s[i]
  BY <1>0, SubSeqProperties
<1>2. b \in Seq(E) /\ Len(b) = Len(s) - p + 1 /\ \A i \in 1..Len(s)-p+1 : b[i] = s[p+i-1]
  BY <1>0, SubSeqProperties
<1>3. <<d>> \in Seq(E) /\ Len(<<d>>) = 1 /\ <<d>>[1] = d
  OBVIOUS
<1> HIDE DEF a, b
<1>4. /\ a \o <<d>> \in Seq(E) /\ Len(a \o <<d>>) = p
      /\ \A j \in 1..p : (a \o <<d>>)[j] = IF j < p THEN s[j] ELSE d
  BY <1>1, <1>3, ConcatProperties
<1>5. /\ (a \o <<d>>) \o b \in Seq(E) /\ Len((a \o <<d>>) \o b) = Len(s) + 1
      /\ \A j \in 1..Len(s)+1 :
           ((a \o <<d>>) \o b)[j] = IF j <= p THEN (a \o <<d>>)[j] ELSE b[j-p]
  <2> DEFINE c == a \o <<d>>
  <2>0. c \in Seq(E) /\ Len(c) = p
    BY <1>4
  <2> HIDE DEF c
  <2>1. c \in Seq(E) /\ Len(c) = p /\ Len(s) \in Nat /\ Len(c) + Len(b) = Len(s) + 1
    BY <1>2, <2>0
  <2>2. /\ c \o b \in Seq(E) /\ Len(c \o b) = Len(c) + Len(b)
        /\ \A j \in 1..Len(c)+Len(b) :
             (c \o b)[j] = IF j <= Len(c) THEN c[j] ELSE b[j-Len(c)]
    BY <1>2, <2>1, ConcatProperties, Zenon
  <2> QED BY <2>1, <2>2 DEF c
<1>6. \A j \in 1..Len(s)+1 : j > p => b[j-p] = s[j-1]
  BY <1>2
<1>7. InsertAt(s, p, d) = (a \o <<d>>) \o b
  BY DEF InsertAt, a, b
<1> QED BY <1>4, <1>5, <1>6, <1>7

\* An element taken out lets them close up.
LEMMA RemovedAt ==
  ASSUME NEW E, NEW s \in Seq(E), NEW p \in 1..Len(s)
  PROVE  /\ RemoveAt(s, p) \in Seq(E)
         /\ Len(RemoveAt(s, p)) = Len(s) - 1
         /\ \A j \in 1..Len(s)-1 : RemoveAt(s, p)[j] = IF j < p THEN s[j] ELSE s[j+1]
<1> DEFINE a == SubSeq(s, 1, p-1)  b == SubSeq(s, p+1, Len(s))
<1>0. \A i \in 1..Len(s) : s[i] \in E
  BY ElementOfSeq
<1>1. a \in Seq(E) /\ Len(a) = p-1 /\ \A i \in 1..p-1 : a[i] = s[i]
  BY <1>0, SubSeqProperties
<1>2. b \in Seq(E) /\ Len(b) = Len(s) - p /\ \A i \in 1..Len(s)-p : b[i] = s[p+i]
  BY <1>0, SubSeqProperties
<1> HIDE DEF a, b
<1>3. /\ a \o b \in Seq(E) /\ Len(a \o b) = Len(s) - 1
      /\ \A j \in 1..Len(s)-1 : (a \o b)[j] = IF j < p THEN a[j] ELSE b[j-(p-1)]
  <2>1. Len(s) \in Nat /\ Len(a) + Len(b) = Len(s) - 1
    BY <1>1, <1>2
  <2>2. /\ a \o b \in Seq(E) /\ Len(a \o b) = Len(a) + Len(b)
        /\ \A j \in 1..Len(a)+Len(b) :
             (a \o b)[j] = IF j <= Len(a) THEN a[j] ELSE b[j-Len(a)]
    BY <1>1, <1>2, ConcatProperties, Zenon
  <2> QED BY <1>1, <2>1, <2>2
<1>4. \A j \in 1..Len(s)-1 : j >= p => b[j-(p-1)] = s[j+1]
  BY <1>2
<1>5. RemoveAt(s, p) = a \o b
  BY DEF RemoveAt, a, b
<1>6. \A j \in 1..Len(s)-1 : (a \o b)[j] = IF j < p THEN s[j] ELSE s[j+1]
  <2> TAKE j \in 1..Len(s)-1
  <2>1. CASE j < p
    <3>1. j \in 1..p-1
      BY <2>1
    <3> QED BY <1>1, <1>3, <2>1, <3>1
  <2>2. CASE ~(j < p)
    <3>1. j >= p
      BY <2>2
    <3>2. (a \o b)[j] = b[j-(p-1)]
      BY <1>3, <2>2, Zenon
    <3>3. b[j-(p-1)] = s[j+1]
      BY <1>4, <3>1, Zenon
    <3> QED BY <2>2, <3>2, <3>3
  <2> QED BY <2>1, <2>2
<1> HIDE DEF a, b
<1> QED BY <1>3, <1>5, <1>6, Zenon

-----------------------------------------------------------------------------
(* Walking.  The loops of doublelist.c are recursive functions on an interval of numbers; *)
(* each is settled by a function that satisfies the same equation.                        *)

\* Two walks that begin alike and go on alike are the same.
Alike(f, g, m, n) ==
  /\ m \in Nat /\ n \in Nat /\ f[m] = g[m]
  /\ \A i \in m..n : i # m /\ f[i-1] = g[i-1] => f[i] = g[i]

\* Two walks that begin alike and go on alike agree all the way.
LEMMA SameWalk ==
  ASSUME NEW m, NEW n, NEW f, NEW g, Alike(f, g, m, n)
  PROVE  \A i \in m..n : f[i] = g[i]
<1> DEFINE T == {i \in m..n : f[i] # g[i]}
<1> SUFFICES ASSUME T # {} PROVE FALSE
  OBVIOUS
<1>1. PICK k \in T : \A j \in T : k <= j
  <2>1. T \subseteq Nat
    BY DEF Alike
  <2> HIDE DEF T
  <2> QED BY <2>1, FirstPosition
<1>2. k # m /\ k-1 \in m..n /\ k-1 \notin T
  BY <1>1 DEF Alike
<1> QED BY <1>1, <1>2 DEF Alike

\* k steps from p along f are what a walk g says that follows f as long.
LEMMA StepsAre ==
  ASSUME NEW f, NEW p, NEW k \in Nat, NEW g,
         g = [i \in 0..k |-> IF i = 0 THEN p ELSE Follow(f, g[i-1])]
  PROVE  Steps(f, p, k) = g[k]
<1> DEFINE Walks(w) == w = [i \in 0..k |-> IF i = 0 THEN p ELSE Follow(f, w[i-1])]
           h == CHOOSE w : Walks(w)
<1>1. Steps(f, p, k) = h[k]
  BY DEF Steps
<1>2. Walks(h)
  <2>1. Walks(g)
    OBVIOUS
  <2> HIDE DEF Walks
  <2> QED BY <2>1, Zenon
<1> HIDE DEF h
<1>3. h[0] = g[0]
  BY <1>2
<1>4. \A i \in 0..k : i # 0 /\ h[i-1] = g[i-1] => h[i] = g[i]
  BY <1>2
<1>5. \A i \in 0..k : h[i] = g[i]
  <2>1. Alike(h, g, 0, k)
    BY <1>3, <1>4 DEF Alike
  <2> QED BY <2>1, SameWalk
<1> QED BY <1>1, <1>5

-----------------------------------------------------------------------------
(* The shape of a list: c is its nodes, from head to trail. *)

Size == list.currSize

\* c leads along next from the head to the last node, by live nodes.
Runs(c) ==
  /\ Size \in Nat /\ c \in [1..Size -> live]
  /\ Size > 0 => c[1] = list.head
  /\ \A k \in 1..Size : k < Size => next[c[k]] = c[k+1]

\* It meets every live node once, each with an element, and each points back at the one
\* before.
Linked(c) ==
  /\ Runs(c)
  /\ \A n \in live : mem[n] \in Elems
  /\ \A n \in live : \E k \in 1..Size : c[k] = n
  /\ \A j, k \in 1..Size : c[j] = c[k] => j = k
  /\ Cardinality(live) = Size
  /\ \A k \in 1..Size : prev[c[k]] = IF k = 1 THEN Null ELSE c[k-1]
  /\ Size = 0 => list.head = Null
  /\ Size > 0 => next[c[Size]] = Null /\ list.trail \in {c[Size], Wild}

\* The nodes and the elements that a path leads by are Chain and Contents.
LEMMA ChainIs == \A c : Runs(c) => Chain = c /\ Contents = [k \in 1..Size |-> mem[c[k]]]
<1> SUFFICES ASSUME NEW c, Runs(c)
             PROVE  Chain = c /\ Contents = [k \in 1..Size |-> mem[c[k]]]
  OBVIOUS
<1>1. Size \in Nat /\ c \in [1..Size -> live]
  BY DEF Runs
<1> DEFINE Walks(w) == w = [k \in 1..Size |-> IF k = 1 THEN list.head ELSE Follow(next, w[k-1])]
           h == CHOOSE w : Walks(w)
<1>2. Chain = h
  BY DEF Chain, Size
<1>3. Walks(c)
  <2>1. \A k \in 1..Size : c[k] = IF k = 1 THEN list.head ELSE Follow(next, c[k-1])
    <3> TAKE k \in 1..Size
    <3>1. CASE k = 1
      BY <1>1, <3>1 DEF Runs
    <3>2. CASE k # 1
      <4>1. k-1 \in 1..Size /\ k-1 < Size /\ k-1+1 = k
        BY <1>1, <3>2
      <4>2. c[k-1] \in live /\ next[c[k-1]] = c[k]
        BY <1>1, <4>1 DEF Runs
      <4> QED BY <3>2, <4>2 DEF Follow
    <3> QED BY <3>1, <3>2
  <2> QED BY <1>1, <2>1
<1>4. Walks(h)
  <2> HIDE DEF Walks
  <2> QED BY <1>3, Zenon
<1> HIDE DEF h
<1>5. h = c
  <2>1. CASE Size = 0
    BY <1>3, <1>4, <2>1
  <2>2. CASE Size > 0
    <3>1. h[1] = c[1] /\ 1 \in Nat
      BY <1>1, <1>3, <1>4, <2>2
    <3>2. \A i \in 1..Size : i # 1 /\ h[i-1] = c[i-1] => h[i] = c[i]
      <4> HIDE DEF Size
      <4>1. \A i \in 1..Size : h[i] = IF i = 1 THEN list.head ELSE Follow(next, h[i-1])
        BY <1>4
      <4>2. \A i \in 1..Size : c[i] = IF i = 1 THEN list.head ELSE Follow(next, c[i-1])
        BY <1>3
      <4> HIDE DEF Walks
      <4> QED BY <4>1, <4>2, Zenon
    <3>3. \A i \in 1..Size : h[i] = c[i]
      <4>1. Alike(h, c, 1, Size)
        BY <1>1, <3>1, <3>2 DEF Alike
      <4> QED BY <4>1, SameWalk
    <3> QED BY <1>1, <1>4, <3>3
  <2> QED BY <1>1, <2>1, <2>2
<1>6. \A k \in 1..Size : c[k] \in live
  BY <1>1
<1> QED BY <1>2, <1>5, <1>6 DEF Contents, Size

\* The same after a step.
LEMMA ChainIsNext == \A c : Runs(c)' => Chain' = c /\ Contents' = [k \in 1..Size' |-> mem'[c[k]]]
<1>1. (\A c : Runs(c) => Chain = c /\ Contents = [k \in 1..Size |-> mem[c[k]]])'
  BY ChainIs, PTL
<1> QED BY <1>1

-----------------------------------------------------------------------------
(* One node more, or one less. *)

\* t is s with d put in at p, or with its p-th element taken out.
Inserted(t, s, p, d) ==
  /\ Len(t) = Len(s) + 1
  /\ \A j \in 1..Len(s)+1 : t[j] = IF j < p THEN s[j] ELSE IF j = p THEN d ELSE s[j-1]
Removed(t, s, p) ==
  /\ Len(t) = Len(s) - 1
  /\ \A j \in 1..Len(s)-1 : t[j] = IF j < p THEN s[j] ELSE s[j+1]

\* What InsertAt and RemoveAt return, in a form that is instantiated as a whole.
LEMMA InsertAtIs ==
  \A E : \A s \in Seq(E), d \in E : \A p \in 1..Len(s)+1 :
    InsertAt(s, p, d) \in Seq(E) /\ Inserted(InsertAt(s, p, d), s, p, d)
BY InsertedAt DEF Inserted

LEMMA RemoveAtIs ==
  \A E : \A s \in Seq(E) : \A p \in 1..Len(s) :
    RemoveAt(s, p) \in Seq(E) /\ Removed(RemoveAt(s, p), s, p)
BY RemovedAt DEF Removed

\* What all the functions that link a new node n in do: it becomes the p-th of c.
LinkIn(c, n, d, p) ==
  /\ live' = live \cup {n} /\ mem' = [mem EXCEPT ![n] = d]
  /\ next'[n] = IF p > Size THEN Null ELSE c[p]
  /\ prev'[n] = IF p = 1 THEN Null ELSE c[p-1]
  /\ \A x \in live : /\ next'[x] = IF p > 1 /\ x = c[p-1] THEN n ELSE next[x]
                     /\ prev'[x] = IF p <= Size /\ x = c[p] THEN n ELSE prev[x]
  /\ list' = [head     |-> IF p = 1 THEN n ELSE list.head,
              trail    |-> IF p > Size THEN n ELSE list.trail,
              currSize |-> Size + 1]

\* Linking a node in keeps a list whole, and puts its element in the sequence.
LEMMA LinkedIn ==
  ASSUME TypeOK, NEW c, Linked(c), NEW n \in Nodes \ live, NEW d \in Elems, NEW p \in 1..Size+1,
         LinkIn(c, n, d, p), NEW b, b = InsertAt(c, p, n)
  PROVE  /\ Linked(b)'
         /\ Contents' = InsertAt(Contents, p, d)
<1>1. /\ Size \in Nat /\ c \in [1..Size -> live] /\ live \subseteq Nodes /\ IsFiniteSet(live)
      /\ c \in Seq(Nodes) /\ Len(c) = Size /\ p \in 1..Len(c)+1 /\ p \in Nat
  <2>1. Size \in Nat /\ c \in [1..Size -> live] /\ live \subseteq Nodes
    BY DEF TypeOK, Linked, Runs
  <2>2. IsFiniteSet(live)
    BY <2>1, BoundsAssumption, FS_Subset
  <2>3. c \in Seq(Nodes) /\ Len(c) = Size
    BY <2>1
  <2> QED BY <2>1, <2>2, <2>3
<1>2. /\ b \in Seq(Nodes) /\ Len(b) = Size + 1
      /\ \A j \in 1..Size+1 : b[j] = IF j < p THEN c[j] ELSE IF j = p THEN n ELSE c[j-1]
  <2>1. n \in Nodes /\ c \in Seq(Nodes) /\ p \in 1..Len(c)+1
    BY <1>1
  <2>2. b \in Seq(Nodes) /\ Inserted(b, c, p, n)
    BY <2>1, InsertAtIs, Zenon
  <2> QED BY <1>1, <2>2 DEF Inserted
<1>3. /\ Size' = Size + 1 /\ Size' \in Nat /\ live' = live \cup {n}
      /\ list'.head = (IF p = 1 THEN n ELSE list.head)
      /\ list'.trail = (IF p > Size THEN n ELSE list.trail)
  BY <1>1 DEF LinkIn, Size
<1> HIDE DEF Size
<1>4. b \in [1..Size' -> live']
  <2>1. \A j \in 1..Size' : b[j] \in live'
    BY <1>1, <1>2, <1>3
  <2> QED BY <1>2, <1>3, <2>1
<1>5. Runs(b)'
  <2>1. b[1] = list'.head
    <3>1. Size > 0 => c[1] = list.head
      BY DEF Linked, Runs
    <3> QED BY <1>1, <1>2, <1>3, <3>1
  <2>2. \A k \in 1..Size' : k < Size' => next'[b[k]] = b[k+1]
    <3> TAKE k \in 1..Size'
    <3> HAVE k < Size'
    <3>1. k \in 1..Size /\ k+1 \in 1..Size+1 /\ k \in 1..Size+1 /\ k \in Nat
      BY <1>1, <1>3
    <3>2. CASE k < p-1
      <4>1. b[k] = c[k] /\ b[k+1] = c[k+1] /\ c[k] \in live /\ k < Size
        BY <1>1, <1>2, <3>1, <3>2
      <4>2. next[c[k]] = c[k+1] /\ (p > 1 => c[k] # c[p-1])
        <5>1. p-1 \in 1..Size /\ p-1 # k
          BY <1>1, <3>1, <3>2
        <5> QED BY <3>1, <4>1, <5>1 DEF Linked, Runs
      <4> QED BY <4>1, <4>2 DEF LinkIn
    <3>3. CASE k = p-1
      BY <1>1, <1>2, <3>1, <3>3 DEF LinkIn
    <3>4. CASE k = p
      BY <1>1, <1>2, <3>1, <3>4 DEF LinkIn
    <3>5. CASE k > p
      <4>1. k-1 \in 1..Size /\ k-1 < Size /\ k-1+1 = k
        BY <1>1, <3>1, <3>5
      <4>2. next[c[k-1]] = c[k] /\ c[k-1] \in live
        BY <1>1, <4>1 DEF Linked, Runs
      <4>3. p > 1 => c[k-1] # c[p-1]
        <5>1. p > 1 => p-1 \in 1..Size /\ p-1 # k-1
          BY <1>1, <3>1, <3>5
        <5> QED BY <4>1, <5>1 DEF Linked
      <4>4. b[k] = c[k-1] /\ b[k+1] = c[k]
        BY <1>1, <1>2, <3>1, <3>5
      <4> QED BY <4>2, <4>3, <4>4 DEF LinkIn
    <3> QED BY <1>1, <3>1, <3>2, <3>3, <3>4, <3>5
  <2> QED BY <1>3, <1>4, <2>1, <2>2 DEF Runs
<1>6. \A x \in live' : \E k \in 1..Size' : b[k] = x
  <2> TAKE x \in live'
  <2>1. CASE x = n
    BY <1>1, <1>2, <1>3, <2>1
  <2>2. CASE x \in live
    <3>1. PICK k \in 1..Size : c[k] = x
      BY <2>2 DEF Linked
    <3>2. CASE k < p
      <4>1. k \in 1..Size' /\ b[k] = x
        BY <1>1, <1>2, <1>3, <3>1, <3>2
      <4> QED BY <4>1
    <3>3. CASE k >= p
      <4>1. k+1 \in 1..Size' /\ k+1-1 = k /\ b[k+1] = x
        BY <1>1, <1>2, <1>3, <3>1, <3>3
      <4> QED BY <4>1
    <3> QED BY <1>1, <3>2, <3>3
  <2> QED BY <1>3, <2>1, <2>2
<1>7. \A j, k \in 1..Size' : b[j] = b[k] => j = k
  <2>1. \A i \in 1..Size' : b[i] = n <=> i = p
    BY <1>1, <1>2, <1>3
  <2>2. \A i \in 1..Size' : i < p => i \in 1..Size /\ b[i] = c[i]
    BY <1>1, <1>2, <1>3
  <2>3. \A i \in 1..Size' : i > p => i-1 \in 1..Size /\ b[i] = c[i-1]
    BY <1>1, <1>2, <1>3
  <2>4. \A j, k \in 1..Size : c[j] = c[k] => j = k
    BY DEF Linked
  <2> QED BY <1>1, <1>3, <2>1, <2>2, <2>3, <2>4
<1>8. Cardinality(live') = Size'
  BY <1>1, <1>3, FS_AddElement DEF Linked
<1>9. \A k \in 1..Size' : prev'[b[k]] = IF k = 1 THEN Null ELSE b[k-1]
  <2> TAKE k \in 1..Size'
  <2>1. k \in 1..Size+1 /\ k \in Nat
    BY <1>1, <1>3
  <2>2. CASE k < p
    <3>1. k \in 1..Size /\ (k > 1 => b[k-1] = c[k-1]) /\ b[k] = c[k] /\ c[k] \in live
      BY <1>1, <1>2, <2>1, <2>2
    <3>2. prev[c[k]] = IF k = 1 THEN Null ELSE c[k-1]
      BY <3>1 DEF Linked
    <3>3. p <= Size => c[k] # c[p]
      BY <1>1, <2>2, <3>1 DEF Linked
    <3> QED BY <2>1, <3>1, <3>2, <3>3 DEF LinkIn
  <2>3. CASE k = p
    BY <1>1, <1>2, <2>1, <2>3 DEF LinkIn
  <2>4. CASE k = p+1
    BY <1>1, <1>2, <2>1, <2>4 DEF LinkIn
  <2>5. CASE k > p+1
    <3>1. k-1 \in 1..Size /\ k-2 \in 1..Size /\ k-1 # 1 /\ k # 1 /\ k-1-1 = k-2
      BY <1>1, <2>1, <2>5
    <3>2. b[k] = c[k-1] /\ b[k-1] = c[k-2] /\ c[k-1] \in live
      BY <1>1, <1>2, <2>1, <2>5, <3>1
    <3>3. prev[c[k-1]] = c[k-2]
      BY <3>1 DEF Linked
    <3>4. p <= Size => c[k-1] # c[p]
      BY <1>1, <2>1, <2>5, <3>1 DEF Linked
    <3> QED BY <3>1, <3>2, <3>3, <3>4 DEF LinkIn
  <2> QED BY <1>1, <2>1, <2>2, <2>3, <2>4, <2>5
<1>10. next'[b[Size']] = Null /\ list'.trail \in {b[Size'], Wild}
  <2>1. CASE p > Size
    <3>1. b[Size'] = n
      BY <1>1, <1>2, <1>3, <2>1
    <3> QED BY <1>3, <2>1, <3>1 DEF LinkIn
  <2>2. CASE p <= Size
    <3>1. b[Size'] = c[Size] /\ Size \in 1..Size /\ c[Size] \in live /\ Size > 0
      BY <1>1, <1>2, <1>3, <2>2
    <3>2. p > 1 => c[Size] # c[p-1]
      BY <1>1, <2>2, <3>1 DEF Linked
    <3>3. next[c[Size]] = Null /\ list.trail \in {c[Size], Wild}
      BY <3>1 DEF Linked
    <3> QED BY <1>1, <1>3, <2>2, <3>1, <3>2, <3>3 DEF LinkIn
  <2> QED BY <1>1, <2>1, <2>2
<1>11. Linked(b)'
  <2>1. \A x \in live' : mem'[x] \in Elems
    BY <1>1, <1>3 DEF Linked, LinkIn, TypeOK
  <2> QED BY <1>1, <1>3, <1>5, <1>6, <1>7, <1>8, <1>9, <1>10, <2>1 DEF Linked
<1>12. Contents' = InsertAt(Contents, p, d)
  <2> DEFINE s == [k \in 1..Size |-> mem[c[k]]]
  <2>1. Contents = s
    BY ChainIs DEF Linked
  <2>2. Contents' = [k \in 1..Size+1 |-> mem'[b[k]]]
    BY <1>3, <1>5, ChainIsNext
  <2>3. /\ mem \in [Nodes -> Elems \cup {Nothing}]
        /\ \A x \in Nodes : mem'[x] = IF x = n THEN d ELSE mem[x]
    BY DEF TypeOK, LinkIn
  <2> DEFINE E == Elems \cup {Nothing}
  <2>4. s \in Seq(E) /\ Len(s) = Size /\ d \in E /\ p \in 1..Len(s)+1
    <3>1. \A k \in 1..Size : mem[c[k]] \in E
      BY <1>1, <2>3
    <3> QED BY <1>1, <3>1
  <2>5. \A k \in 1..Size : s[k] = mem[c[k]]
    OBVIOUS
  <2> HIDE DEF s, E
  <2>6. /\ InsertAt(s, p, d) \in Seq(E) /\ Len(InsertAt(s, p, d)) = Size + 1
        /\ \A j \in 1..Size+1 :
             InsertAt(s, p, d)[j] = IF j < p THEN s[j] ELSE IF j = p THEN d ELSE s[j-1]
    <3>1. InsertAt(s, p, d) \in Seq(E) /\ Inserted(InsertAt(s, p, d), s, p, d)
      BY <2>4, InsertAtIs, Zenon
    <3> QED BY <2>4, <3>1 DEF Inserted
  <2>7. \A k \in 1..Size+1 : mem'[b[k]] = InsertAt(s, p, d)[k]
    <3> TAKE k \in 1..Size+1
    <3>1. CASE k < p
      <4>1. k \in 1..Size /\ b[k] = c[k] /\ c[k] \in Nodes /\ c[k] # n
        BY <1>1, <1>2, <3>1
      <4> QED BY <2>3, <2>5, <2>6, <3>1, <4>1
    <3>2. CASE k = p
      BY <1>1, <1>2, <2>3, <2>6, <3>2
    <3>3. CASE k > p
      <4>1. k-1 \in 1..Size /\ b[k] = c[k-1] /\ c[k-1] \in Nodes /\ c[k-1] # n
        BY <1>1, <1>2, <3>3
      <4>2. InsertAt(s, p, d)[k] = s[k-1]
        BY <1>1, <2>6, <3>3
      <4> QED BY <2>3, <2>5, <4>1, <4>2
    <3> QED BY <1>1, <3>1, <3>2, <3>3
  <2>8. InsertAt(s, p, d) = [k \in 1..Size+1 |-> InsertAt(s, p, d)[k]]
    BY <1>1, <2>6
  <2> QED BY <2>1, <2>2, <2>7, <2>8
<1> QED BY <1>11, <1>12

\* What all the functions that take a node out do: the p-th of c leaves it.
LinkOut(c, p) ==
  /\ live' = live \ {c[p]} /\ mem' = [mem EXCEPT ![c[p]] = Nothing]
  /\ \A x \in live \ {c[p]} :
       /\ next'[x] = IF p > 1 /\ x = c[p-1] THEN IF p < Size THEN c[p+1] ELSE Null ELSE next[x]
       /\ prev'[x] = IF p < Size /\ x = c[p+1] THEN IF p > 1 THEN c[p-1] ELSE Null ELSE prev[x]
  /\ list' = [head     |-> IF p > 1 THEN list.head ELSE IF Size > 1 THEN c[2] ELSE Null,
              trail    |-> IF p = Size /\ p > 1 THEN c[p-1] ELSE list.trail,
              currSize |-> Size - 1]

\* Taking one out keeps it whole, and takes its element out of the sequence.
LEMMA LinkedOut ==
  ASSUME TypeOK, NEW c, Linked(c), NEW p \in 1..Size, LinkOut(c, p), NEW b, b = RemoveAt(c, p)
  PROVE  /\ Linked(b)'
         /\ Contents' = RemoveAt(Contents, p)
<1>1. /\ Size \in Nat /\ c \in [1..Size -> live] /\ live \subseteq Nodes /\ IsFiniteSet(live)
      /\ c \in Seq(Nodes) /\ Len(c) = Size /\ p \in 1..Len(c) /\ p \in Nat /\ c[p] \in live
      /\ Size - 1 \in Nat
  <2>1. Size \in Nat /\ c \in [1..Size -> live] /\ live \subseteq Nodes
    BY DEF TypeOK, Linked, Runs
  <2>2. IsFiniteSet(live)
    BY <2>1, BoundsAssumption, FS_Subset
  <2>3. c \in Seq(Nodes) /\ Len(c) = Size
    BY <2>1
  <2> QED BY <2>1, <2>2, <2>3
<1>2. /\ b \in Seq(Nodes) /\ Len(b) = Size - 1
      /\ \A j \in 1..Size-1 : b[j] = IF j < p THEN c[j] ELSE c[j+1]
  <2>1. c \in Seq(Nodes) /\ p \in 1..Len(c)
    BY <1>1
  <2>2. b \in Seq(Nodes) /\ Removed(b, c, p)
    BY <2>1, RemoveAtIs, Zenon
  <2> QED BY <1>1, <2>2 DEF Removed
<1>3. /\ Size' = Size - 1 /\ Size' \in Nat /\ live' = live \ {c[p]}
      /\ list'.head = (IF p > 1 THEN list.head ELSE IF Size > 1 THEN c[2] ELSE Null)
      /\ list'.trail = (IF p = Size /\ p > 1 THEN c[p-1] ELSE list.trail)
  BY <1>1 DEF LinkOut, Size
<1> HIDE DEF Size
<1>4. /\ \A j, k \in 1..Size : c[j] = c[k] => j = k
      /\ \A j \in 1..Size : j # p => c[j] \in live \ {c[p]}
  BY <1>1 DEF Linked
<1>5. b \in [1..Size' -> live']
  <2>1. \A j \in 1..Size' : b[j] \in live'
    BY <1>1, <1>2, <1>3, <1>4
  <2> QED BY <1>2, <1>3, <2>1
<1>6. Runs(b)'
  <2>1. Size' > 0 => b[1] = list'.head
    <3>1. Size > 0 => c[1] = list.head
      BY DEF Linked, Runs
    <3> QED BY <1>1, <1>2, <1>3, <3>1
  <2>2. \A k \in 1..Size' : k < Size' => next'[b[k]] = b[k+1]
    <3> TAKE k \in 1..Size'
    <3> HAVE k < Size'
    <3>1. k \in 1..Size-1 /\ k+1 \in 1..Size-1 /\ k \in Nat
      BY <1>1, <1>3
    <3>2. CASE k < p-1
      <4>1. b[k] = c[k] /\ b[k+1] = c[k+1] /\ c[k] \in live \ {c[p]} /\ k \in 1..Size /\ k < Size
        BY <1>1, <1>2, <1>4, <3>1, <3>2
      <4>2. next[c[k]] = c[k+1]
        BY <4>1 DEF Linked, Runs
      <4>3. c[k] # c[p-1]
        <5>1. p-1 \in 1..Size /\ p-1 # k
          BY <1>1, <3>1, <3>2
        <5> QED BY <1>4, <4>1, <5>1
      <4> QED BY <4>1, <4>2, <4>3 DEF LinkOut
    <3>3. CASE k = p-1
      <4>1. /\ b[k] = c[p-1] /\ b[k+1] = c[p+1] /\ c[p-1] \in live \ {c[p]} /\ p > 1 /\ p < Size
        BY <1>1, <1>2, <1>4, <3>1, <3>3
      <4> QED BY <4>1 DEF LinkOut
    <3>4. CASE k >= p
      <4>1. /\ b[k] = c[k+1] /\ b[k+1] = c[k+2] /\ c[k+1] \in live \ {c[p]}
            /\ k+1 \in 1..Size /\ k+1 < Size /\ k+1+1 = k+2
        BY <1>1, <1>2, <1>4, <3>1, <3>4
      <4>2. next[c[k+1]] = c[k+2]
        BY <4>1 DEF Linked, Runs
      <4>3. p > 1 => c[k+1] # c[p-1]
        <5>1. p > 1 => p-1 \in 1..Size /\ p-1 # k+1
          BY <1>1, <3>1, <3>4
        <5> QED BY <1>4, <4>1, <5>1
      <4> QED BY <4>1, <4>2, <4>3 DEF LinkOut
    <3> QED BY <1>1, <3>1, <3>2, <3>3, <3>4
  <2> QED BY <1>3, <1>5, <2>1, <2>2 DEF Runs
<1>7. \A x \in live' : \E k \in 1..Size' : b[k] = x
  <2> TAKE x \in live'
  <2>1. PICK k \in 1..Size : c[k] = x
    BY <1>3 DEF Linked
  <2>2. k # p
    BY <1>3, <2>1
  <2>3. CASE k < p
    <3>1. k \in 1..Size' /\ b[k] = x
      BY <1>1, <1>2, <1>3, <2>1, <2>3
    <3> QED BY <3>1
  <2>4. CASE k > p
    <3>1. k-1 \in 1..Size' /\ k-1+1 = k /\ b[k-1] = x
      BY <1>1, <1>2, <1>3, <2>1, <2>4
    <3> QED BY <3>1
  <2> QED BY <1>1, <2>2, <2>3, <2>4
<1>8. \A j, k \in 1..Size' : b[j] = b[k] => j = k
  <2>1. \A i \in 1..Size' : i < p => i \in 1..Size /\ b[i] = c[i]
    BY <1>1, <1>2, <1>3
  <2>2. \A i \in 1..Size' : i >= p => i+1 \in 1..Size /\ b[i] = c[i+1]
    BY <1>1, <1>2, <1>3
  <2> QED BY <1>1, <1>3, <1>4, <2>1, <2>2
<1>9. Cardinality(live') = Size'
  <2>1. Cardinality(live \ {c[p]}) = IF c[p] \in live THEN Cardinality(live) - 1
                                   ELSE Cardinality(live)
    BY <1>1, FS_RemoveElement
  <2>2. Cardinality(live) = Size
    BY DEF Linked
  <2> QED BY <1>1, <1>3, <2>1, <2>2
<1>10. \A k \in 1..Size' : prev'[b[k]] = IF k = 1 THEN Null ELSE b[k-1]
  <2> TAKE k \in 1..Size'
  <2>1. k \in 1..Size-1 /\ k \in Nat
    BY <1>1, <1>3
  <2>2. CASE k < p
    <3>1. /\ k \in 1..Size /\ (k > 1 => b[k-1] = c[k-1]) /\ b[k] = c[k]
          /\ c[k] \in live \ {c[p]}
      BY <1>1, <1>2, <1>4, <2>1, <2>2
    <3>2. prev[c[k]] = IF k = 1 THEN Null ELSE c[k-1]
      BY <3>1 DEF Linked
    <3>3. p < Size => c[k] # c[p+1]
      <4>1. p < Size => p+1 \in 1..Size /\ p+1 # k
        BY <1>1, <2>1, <2>2
      <4> QED BY <1>4, <3>1, <4>1
    <3> QED BY <2>1, <3>1, <3>2, <3>3 DEF LinkOut
  <2>3. CASE k = p
    <3>1. /\ b[k] = c[p+1] /\ p < Size /\ c[p+1] \in live \ {c[p]} /\ (p > 1 => b[k-1] = c[p-1])
      BY <1>1, <1>2, <1>4, <2>1, <2>3
    <3> QED BY <1>1, <2>3, <3>1 DEF LinkOut
  <2>4. CASE k > p
    <3>1. /\ k+1 \in 1..Size /\ k+1 # 1 /\ k # 1 /\ k+1-1 = k
          /\ b[k] = c[k+1] /\ b[k-1] = c[k] /\ c[k+1] \in live \ {c[p]}
      BY <1>1, <1>2, <1>4, <2>1, <2>4
    <3>2. prev[c[k+1]] = c[k]
      BY <3>1 DEF Linked
    <3>3. p < Size => c[k+1] # c[p+1]
      <4>1. p < Size => p+1 \in 1..Size /\ p+1 # k+1
        BY <1>1, <2>1, <2>4
      <4> QED BY <1>4, <3>1, <4>1
    <3> QED BY <3>1, <3>2, <3>3 DEF LinkOut
  <2> QED BY <1>1, <2>1, <2>2, <2>3, <2>4
<1>11. /\ Size' = 0 => list'.head = Null
       /\ Size' > 0 => next'[b[Size']] = Null /\ list'.trail \in {b[Size'], Wild}
  <2>1. CASE Size = 1
    BY <1>1, <1>3, <2>1
  <2>2. CASE Size > 1 /\ p = Size
    <3>1. b[Size'] = c[p-1] /\ c[p-1] \in live \ {c[p]}
      BY <1>1, <1>2, <1>3, <1>4, <2>2
    <3> QED BY <1>1, <1>3, <2>2, <3>1 DEF LinkOut
  <2>3. CASE Size > 1 /\ p < Size
    <3>1. b[Size'] = c[Size] /\ Size \in 1..Size /\ c[Size] \in live \ {c[p]}
      BY <1>1, <1>2, <1>3, <1>4, <2>3
    <3>2. next[c[Size]] = Null /\ list.trail \in {c[Size], Wild}
      <4>1. Size > 0
        BY <1>1, <2>3
      <4> QED BY <4>1 DEF Linked
    <3>3. p > 1 => c[Size] # c[p-1]
      <4>1. p > 1 => p-1 \in 1..Size /\ p-1 # Size
        BY <1>1, <2>3
      <4> QED BY <1>4, <3>1, <4>1
    <3> QED BY <1>1, <1>3, <2>3, <3>1, <3>2, <3>3 DEF LinkOut
  <2> QED BY <1>1, <2>1, <2>2, <2>3
<1>12. Linked(b)'
  <2>1. \A x \in live' : mem'[x] \in Elems
    BY <1>1, <1>3 DEF Linked, LinkOut, TypeOK
  <2> QED BY <1>1, <1>3, <1>6, <1>7, <1>8, <1>9, <1>10, <1>11, <2>1 DEF Linked
<1>13. Contents' = RemoveAt(Contents, p)
  <2> DEFINE s == [k \in 1..Size |-> mem[c[k]]]
             E == Elems \cup {Nothing}
  <2>1. Contents = s
    BY ChainIs DEF Linked
  <2>2. Contents' = [k \in 1..Size-1 |-> mem'[b[k]]]
    BY <1>3, <1>6, ChainIsNext
  <2>3. /\ mem \in [Nodes -> Elems \cup {Nothing}]
        /\ \A x \in live \ {c[p]} : mem'[x] = mem[x]
    BY <1>1 DEF TypeOK, LinkOut
  <2>4. s \in Seq(E) /\ Len(s) = Size /\ p \in 1..Len(s)
    <3>1. \A k \in 1..Size : mem[c[k]] \in E
      BY <1>1, <2>3
    <3> QED BY <1>1, <3>1
  <2>5. \A k \in 1..Size : s[k] = mem[c[k]]
    OBVIOUS
  <2> HIDE DEF s, E
  <2>6. /\ RemoveAt(s, p) \in Seq(E) /\ Len(RemoveAt(s, p)) = Size - 1
        /\ \A j \in 1..Size-1 : RemoveAt(s, p)[j] = IF j < p THEN s[j] ELSE s[j+1]
    <3>1. RemoveAt(s, p) \in Seq(E) /\ Removed(RemoveAt(s, p), s, p)
      BY <2>4, RemoveAtIs, Zenon
    <3> QED BY <2>4, <3>1 DEF Removed
  <2>7. \A k \in 1..Size-1 : mem'[b[k]] = RemoveAt(s, p)[k]
    <3> TAKE k \in 1..Size-1
    <3>1. CASE k < p
      <4>1. k \in 1..Size /\ b[k] = c[k] /\ c[k] \in live \ {c[p]}
        BY <1>1, <1>2, <1>4, <3>1
      <4> QED BY <2>3, <2>5, <2>6, <3>1, <4>1
    <3>2. CASE k >= p
      <4>1. k+1 \in 1..Size /\ b[k] = c[k+1] /\ c[k+1] \in live \ {c[p]}
        BY <1>1, <1>2, <1>4, <3>2
      <4>2. RemoveAt(s, p)[k] = s[k+1]
        BY <1>1, <2>6, <3>2
      <4> QED BY <2>3, <2>5, <4>1, <4>2
    <3> QED BY <1>1, <3>1, <3>2
  <2>8. RemoveAt(s, p) = [k \in 1..Size-1 |-> RemoveAt(s, p)[k]]
    BY <1>1, <2>6
  <2> QED BY <2>1, <2>2, <2>7, <2>8
<1> QED BY <1>12, <1>13

-----------------------------------------------------------------------------
(* Where the walks end. *)

\* The sizes and the node types that every walk needs.
LEMMA Sizes ==
  ASSUME TypeOK, NEW c, Linked(c)
  PROVE  /\ Size \in Nat /\ c \in [1..Size -> live] /\ live \subseteq Nodes /\ IsFiniteSet(live)
         /\ Cardinality(Nodes) \in Nat /\ Size <= Cardinality(Nodes)
         /\ \A x \in live : x # Null /\ x # Wild
<1>1. Size \in Nat /\ c \in [1..Size -> live] /\ live \subseteq Nodes /\ Cardinality(live) = Size
  BY DEF TypeOK, Linked, Runs
<1>2. IsFiniteSet(live) /\ Cardinality(live) <= Cardinality(Nodes)
  BY <1>1, BoundsAssumption, FS_Subset
<1>3. Cardinality(Nodes) \in Nat
  BY BoundsAssumption, FS_CardinalityType
<1> QED BY <1>1, <1>2, <1>3, PointersAssumption

\* From the head along next: node by node, then NULL.
LEMMA StepsOnward ==
  ASSUME TypeOK, NEW c, Linked(c), NEW k \in Nat
  PROVE  Steps(next, list.head, k) =
           IF k < Size THEN c[k+1] ELSE IF k = Size THEN Null ELSE Wild
<1> DEFINE At(j) == IF j < Size THEN c[j+1] ELSE IF j = Size THEN Null ELSE Wild
           g == [j \in 0..k |-> At(j)]
<1>1. Size \in Nat /\ c \in [1..Size -> live] /\ Null \notin live /\ Wild \notin live
  BY Sizes
<1>2. At(0) = list.head
  BY <1>1 DEF Linked, Runs
<1>3. ASSUME NEW j \in 0..k, j # 0
      PROVE  At(j) = Follow(next, At(j-1))
  <2>1. CASE j-1 < Size
    <3>1. j \in 1..Size /\ c[j] \in live /\ j-1+1 = j
      BY <1>1, <1>3, <2>1
    <3>2. CASE j < Size
      <4>1. next[c[j]] = c[j+1]
        BY <3>1, <3>2 DEF Linked, Runs
      <4> QED BY <2>1, <3>1, <3>2, <4>1 DEF Follow
    <3>3. CASE j = Size
      <4>1. next[c[j]] = Null
        BY <1>1, <1>3, <3>1, <3>3 DEF Linked
      <4> QED BY <2>1, <3>1, <3>3, <4>1 DEF Follow
    <3> QED BY <1>1, <3>1, <3>2, <3>3
  <2>2. CASE j-1 >= Size
    BY <1>1, <1>3, <2>2 DEF Follow
  <2> QED BY <1>1, <1>3, <2>1, <2>2
<1> HIDE DEF At
<1>4. \A j \in 0..k : g[j] = IF j = 0 THEN list.head ELSE Follow(next, g[j-1])
  <2> TAKE j \in 0..k
  <2>1. j # 0 => j-1 \in 0..k
    OBVIOUS
  <2> QED BY <1>2, <1>3, <2>1
<1>5. g = [j \in 0..k |-> IF j = 0 THEN list.head ELSE Follow(next, g[j-1])]
  BY <1>4
<1>6. g[k] = At(k)
  OBVIOUS
<1> HIDE DEF g
<1> QED BY <1>5, <1>6, StepsAre DEF At

\* From the trail along prev: node by node, as long as there is a trail.
LEMMA StepsBack ==
  ASSUME TypeOK, NEW c, Linked(c), NEW k \in 0..Size-1
  PROVE  Steps(prev, list.trail, k) = IF list.trail = Wild THEN Wild ELSE c[Size-k]
<1> DEFINE At(j) == IF list.trail = Wild THEN Wild ELSE c[Size-j]
           g == [j \in 0..k |-> At(j)]
<1>1. /\ Size \in Nat /\ c \in [1..Size -> live] /\ Null \notin live /\ Wild \notin live /\ Size > 0
      /\ k \in Nat
  BY Sizes
<1>2. At(0) = list.trail
  BY <1>1 DEF Linked
<1>3. ASSUME NEW j \in 0..k, j # 0
      PROVE  At(j) = Follow(prev, At(j-1))
  <2>1. CASE list.trail = Wild
    BY <1>1, <2>1 DEF Follow
  <2>2. CASE list.trail # Wild
    <3>1. /\ Size-(j-1) \in 1..Size /\ Size-(j-1) # 1 /\ Size-(j-1)-1 = Size-j
          /\ c[Size-(j-1)] \in live
      BY <1>1, <1>3
    <3>2. prev[c[Size-(j-1)]] = c[Size-j]
      BY <3>1 DEF Linked
    <3> QED BY <2>2, <3>1, <3>2 DEF Follow
  <2> QED BY <2>1, <2>2
<1> HIDE DEF At
<1>4. \A j \in 0..k : g[j] = IF j = 0 THEN list.trail ELSE Follow(prev, g[j-1])
  <2> TAKE j \in 0..k
  <2>1. j # 0 => j-1 \in 0..k
    BY <1>1
  <2> QED BY <1>2, <1>3, <2>1
<1>5. g = [j \in 0..k |-> IF j = 0 THEN list.trail ELSE Follow(prev, g[j-1])]
  BY <1>4
<1>6. g[k] = At(k)
  BY <1>1
<1> HIDE DEF g
<1> QED BY <1>1, <1>5, <1>6, StepsAre DEF At

\* getNodeFromIndex: the node with that index or the last one; through a trail that was
\* never written it finds nothing.
LEMMA NodeAtIndex ==
  ASSUME TypeOK, NEW c, Linked(c), Size > 0, NEW i \in Nat
  PROVE  getNodeFromIndex(i) =
           IF i > Size \div 2 /\ list.trail = Wild THEN Wild
           ELSE c[IF i < Size THEN i+1 ELSE Size]
<1>1. Size \in Nat
  BY Sizes
<1>2. CASE i > Size \div 2
  <2> DEFINE k == IF i < Size THEN Size - 1 - i ELSE 0
  <2>1. k \in 0..Size-1 /\ Size-k = IF i < Size THEN i+1 ELSE Size
    BY <1>1
  <2>2. getNodeFromIndex(i) = Steps(prev, list.trail, k)
    BY <1>2 DEF getNodeFromIndex, Size
  <2> HIDE DEF k
  <2>3. Steps(prev, list.trail, k) = IF list.trail = Wild THEN Wild ELSE c[Size-k]
    BY <2>1, StepsBack
  <2> QED BY <1>2, <2>1, <2>2, <2>3
<1>3. CASE ~(i > Size \div 2)
  <2>1. i < Size
    BY <1>1, <1>3
  <2>2. getNodeFromIndex(i) = Steps(next, list.head, i)
    BY <1>3 DEF getNodeFromIndex, Size
  <2> QED BY <1>3, <2>1, <2>2, StepsOnward
<1> QED BY <1>2, <1>3

Order == Seqs!Order

\* The order both comparisons go by.
LEMMA ComparedBy ==
  ASSUME TypeOK
  PROVE  /\ Order \in [Elems -> Nat]
         /\ \A d, e \in Elems : Compare(d, e) < 0 <=> ~(Order[e] <= Order[d])
<1>1. Order \in [Elems -> Nat]
  BY ElemsAssumption, KeyAssumption DEF Order, Seqs!Order
<1>2. \A d, e \in Elems : d \in Nat /\ e \in Nat /\ Key[d] \in Nat /\ Key[e] \in Nat
  BY ElemsAssumption, KeyAssumption
<1>3. ASSUME NEW d \in Elems, NEW e \in Elems
      PROVE  Compare(d, e) < 0 <=> ~(Order[e] <= Order[d])
  <2>1. CASE comp
    BY <1>2, <2>1 DEF Compare, Order, Seqs!Order
  <2>2. CASE ~comp
    BY <1>2, <2>2 DEF Compare, Order, Seqs!Order
  <2> QED BY <2>1, <2>2
<1> QED BY <1>1, <1>3

\* The elements along the nodes c, as a sequence.
LEMMA ContentsAre ==
  ASSUME TypeOK, NEW c, Linked(c)
  PROVE  /\ Contents = [k \in 1..Size |-> mem[c[k]]]
         /\ Contents \in Seq(Elems) /\ Len(Contents) = Size
<1>1. Size \in Nat /\ c \in [1..Size -> live]
  BY Sizes
<1>2. Contents = [k \in 1..Size |-> mem[c[k]]]
  BY ChainIs DEF Linked
<1>3. \A k \in 1..Size : mem[c[k]] \in Elems
  BY <1>1 DEF Linked
<1> QED BY <1>1, <1>2, <1>3

\* findNode: the node at the position that FoundPos says, or none.
LEMMA NodeFound ==
  ASSUME TypeOK, NEW c, Linked(c), NEW d \in Elems
  PROVE  /\ AtMost(Order, Contents, d) = {} => findNode(d) = Null
         /\ AtMost(Order, Contents, d) # {} =>
              /\ FoundPos(Order, Contents, d) \in 1..Size
              /\ findNode(d) = c[FoundPos(Order, Contents, d)]
<1> DEFINE N == Cardinality(Nodes)
           A == AtMost(Order, Contents, d)
           q == IF A = {} THEN Size + 1 ELSE FoundPos(Order, Contents, d)
           At(k) == IF k < q-1 THEN c[k+1] ELSE IF q > Size THEN Null ELSE c[q]
           g == [k \in 0..N |-> At(k)]
           Goes(x) == x # Null /\ Compare(d, mem[x]) < 0
           Walks(w) == w = [k \in 0..N |->
                              IF k = 0 THEN list.head
                              ELSE IF w[k-1] # Null /\ Compare(d, mem[w[k-1]]) < 0 THEN next[w[k-1]]
                              ELSE w[k-1]]
           h == CHOOSE w : Walks(w)
<1>1. /\ Size \in Nat /\ c \in [1..Size -> live] /\ N \in Nat /\ Size <= N
      /\ \A x \in live : x # Null
  BY Sizes
<1>2. /\ Contents = [k \in 1..Size |-> mem[c[k]]] /\ Len(Contents) = Size
      /\ \A k \in 1..Size : mem[c[k]] \in Elems
  <2>1. \A k \in 1..Size : mem[c[k]] \in Elems
    BY <1>1 DEF Linked
  <2> QED BY <2>1, ContentsAre
<1>3. A = {k \in 1..Size : Order[mem[c[k]]] <= Order[d]}
  BY <1>1, <1>2 DEF AtMost
<1>4. A # {} => FoundPos(Order, Contents, d) \in A /\ \A j \in A : FoundPos(Order, Contents, d) <= j
  BY <1>1, <1>2, FoundIsFirst
<1> HIDE DEF A
<1>5. /\ q \in 1..Size+1 /\ (q = Size + 1 <=> A = {}) /\ (q <= Size => q \in A)
      /\ \A j \in A : q <= j
  BY <1>1, <1>3, <1>4
<1> HIDE DEF q
<1>6. \A k \in 1..Size : Goes(c[k]) <=> k \notin A
  <2> TAKE k \in 1..Size
  <2>1. Compare(d, mem[c[k]]) < 0 <=> k \notin A
    <3>1. mem[c[k]] \in Elems
      BY <1>2
    <3>2. k \in A <=> Order[mem[c[k]]] <= Order[d]
      BY <1>3
    <3> QED BY <3>1, <3>2, ComparedBy
  <2> QED BY <1>1, <2>1
<1>7. At(0) = list.head
  <2>1. CASE Size = 0
    BY <1>1, <1>5, <2>1 DEF Linked
  <2>2. CASE Size > 0
    BY <1>1, <1>5, <2>2 DEF Linked, Runs
  <2> QED BY <1>1, <2>1, <2>2
<1> HIDE DEF Goes
<1>8. ASSUME NEW k \in 0..N, k # 0
      PROVE  At(k) = IF Goes(At(k-1)) THEN next[At(k-1)] ELSE At(k-1)
  <2>1. CASE k < q
    <3>1. k \in 1..Size /\ k \notin A /\ At(k-1) = c[k]
      BY <1>1, <1>5, <1>8, <2>1
    <3>2. Goes(At(k-1))
      BY <1>6, <3>1
    <3>3. next[c[k]] = IF k < Size THEN c[k+1] ELSE Null
      <4>1. CASE k < Size
        BY <3>1, <4>1 DEF Linked, Runs
      <4>2. CASE k = Size
        BY <1>1, <3>1, <4>2 DEF Linked
      <4> QED BY <1>1, <3>1, <4>1, <4>2
    <3>4. At(k) = IF k < Size THEN c[k+1] ELSE Null
      BY <1>1, <1>5, <2>1, <3>1
    <3> QED BY <3>1, <3>2, <3>3, <3>4
  <2>2. CASE k >= q
    <3>1. At(k-1) = At(k)
      BY <1>1, <1>5, <1>8, <2>2
    <3>2. ~Goes(At(k))
      <4>1. CASE q > Size
        BY <1>1, <1>5, <2>2, <4>1 DEF Goes
      <4>2. CASE q <= Size
        <5>1. At(k) = c[q] /\ q \in 1..Size /\ q \in A
          BY <1>1, <1>5, <2>2, <4>2
        <5> QED BY <1>6, <5>1
      <4> QED BY <1>1, <1>5, <4>1, <4>2
    <3> QED BY <3>1, <3>2
  <2> QED BY <1>1, <1>5, <2>1, <2>2
<1>9. At(N) = IF q > Size THEN Null ELSE c[q]
  BY <1>1, <1>5
<1> HIDE DEF At
<1>10. findNode(d) = At(N)
  <2>1. findNode(d) = h[N]
    BY DEF findNode
  <2>2. Walks(g)
    <3>1. \A k \in 0..N : g[k] = IF k = 0 THEN list.head
                                 ELSE IF g[k-1] # Null /\ Compare(d, mem[g[k-1]]) < 0 THEN next[g[k-1]]
                                 ELSE g[k-1]
      <4> TAKE k \in 0..N
      <4>1. k # 0 => k-1 \in 0..N
        BY <1>1
      <4> QED BY <1>7, <1>8, <4>1 DEF Goes
    <3> QED BY <3>1
  <2>3. g[N] = At(N)
    BY <1>1
  <2> HIDE DEF g
  <2>4. Walks(h)
    <3> HIDE DEF Walks
    <3> QED BY <2>2, Zenon
  <2> HIDE DEF h
  <2>5. h[0] = g[0]
    BY <1>1, <2>2, <2>4
  <2>6. \A k \in 0..N : k # 0 /\ h[k-1] = g[k-1] => h[k] = g[k]
    <3>1. \A k \in 0..N : g[k] = IF k = 0 THEN list.head
                                 ELSE IF g[k-1] # Null /\ Compare(d, mem[g[k-1]]) < 0 THEN next[g[k-1]]
                                 ELSE g[k-1]
      BY <2>2
    <3>2. \A k \in 0..N : h[k] = IF k = 0 THEN list.head
                                 ELSE IF h[k-1] # Null /\ Compare(d, mem[h[k-1]]) < 0 THEN next[h[k-1]]
                                 ELSE h[k-1]
      BY <2>4
    <3> HIDE DEF Walks
    <3> QED BY <3>1, <3>2, Zenon
  <2>7. Alike(h, g, 0, N)
    BY <1>1, <2>5, <2>6 DEF Alike
  <2>8. \A k \in 0..N : h[k] = g[k]
    BY <2>7, SameWalk
  <2> QED BY <1>1, <2>1, <2>3, <2>8
<1> QED BY <1>1, <1>4, <1>5, <1>9, <1>10 DEF q, A

-----------------------------------------------------------------------------
(* What the linking functions do to the nodes c. *)

LinksTyped == next' \in [Nodes -> Pointers] /\ prev' \in [Nodes -> Pointers]

\* An undefined access: nothing that is linked changes, and the list had no trail.
Spoilt == /\ broken' = TRUE /\ Size > 0 /\ list.trail = Wild /\ list' = list
          /\ live \subseteq live' /\ \A x \in live : next'[x] = next[x] /\ mem'[x] = mem[x]

\* The ends of a list, and its nodes' links, in the terms the functions use.
LEMMA Ends ==
  ASSUME TypeOK, NEW c, Linked(c)
  PROVE  /\ Size = list.currSize /\ Size \in Nat /\ c \in [1..Size -> live]
         /\ live \subseteq Nodes /\ Null \notin Nodes /\ Wild \notin Nodes /\ Null # Wild
         /\ mem \in [Nodes -> Elems \cup {Nothing}]
         /\ next \in [Nodes -> Pointers] /\ prev \in [Nodes -> Pointers]
         /\ list = [head |-> list.head, trail |-> list.trail, currSize |-> Size]
         /\ list.head \in Pointers /\ list.trail \in Pointers
         /\ list.head = IF Size = 0 THEN Null ELSE c[1]
         /\ Size > 0 => list.trail \in {c[Size], Wild} /\ next[c[Size]] = Null
         /\ \A j, k \in 1..Size : c[j] = c[k] => j = k
         /\ \A x \in live : \E k \in 1..Size : c[k] = x
         /\ \A k \in 1..Size : /\ prev[c[k]] = IF k = 1 THEN Null ELSE c[k-1]
                               /\ k < Size => next[c[k]] = c[k+1]
<1>1. Size \in Nat
  BY Sizes
<1>2. /\ list \in [head : Pointers, trail : Pointers, currSize : 0..Cardinality(Nodes)]
      /\ live \subseteq Nodes /\ mem \in [Nodes -> Elems \cup {Nothing}]
      /\ next \in [Nodes -> Pointers] /\ prev \in [Nodes -> Pointers]
  BY DEF TypeOK
<1>3. /\ list = [head |-> list.head, trail |-> list.trail, currSize |-> Size]
      /\ list.head \in Pointers /\ list.trail \in Pointers
  BY <1>2 DEF Size
<1>4. list.head = IF Size = 0 THEN Null ELSE c[1]
  BY <1>1 DEF Linked, Runs
<1> QED BY <1>1, <1>2, <1>3, <1>4, PointersAssumption DEF Linked, Runs, Size

\* What leads to a node, and where it leads.
LEMMA Neighbours ==
  ASSUME TypeOK, NEW c, Linked(c)
  PROVE  /\ Size \in Nat
         /\ \A k \in 1..Size : c[k] \in live
         /\ \A k \in 1..Size : prev[c[k]] = IF k = 1 THEN Null ELSE c[k-1]
         /\ \A k \in 1..Size : k < Size => next[c[k]] = c[k+1]
<1>1. /\ Size \in Nat /\ c \in [1..Size -> live]
      /\ \A k \in 1..Size : prev[c[k]] = IF k = 1 THEN Null ELSE c[k-1]
      /\ \A k \in 1..Size : k < Size => next[c[k]] = c[k+1]
  BY Ends
<1> QED BY <1>1

\* addFirstElement (doublelist.c) on an empty list.
LEMMA FirstAdded ==
  ASSUME TypeOK, NEW c, Linked(c), NEW n \in Nodes, NEW d \in Elems, Allocated(n, d),
         Size = 0, addFirstElement(n)
  PROVE  LinkIn(c, n, d, 1) /\ LinksTyped
<1>1. live = {}
  BY Ends
<1>2. /\ next' = [next EXCEPT ![n] = Null] /\ prev' = [prev EXCEPT ![n] = Null]
      /\ list' = [head |-> n, trail |-> n, currSize |-> Size + 1]
  BY Ends DEF addFirstElement, Size
<1> QED BY <1>1, <1>2, Ends DEF LinkIn, LinksTyped, Allocated, Pointers

\* addStartOfList: the node becomes the first.
LEMMA StartAdded ==
  ASSUME TypeOK, NEW c, Linked(c), NEW n \in Nodes, NEW d \in Elems, Allocated(n, d),
         Size > 0, addStartOfList(n)
  PROVE  LinkIn(c, n, d, 1) /\ LinksTyped
<1>1. /\ list.head = c[1] /\ c[1] \in live /\ n \notin live /\ live \subseteq Nodes
      /\ Size \in Nat /\ ~(1 > Size) /\ 1 <= Size
  BY Ends DEF Allocated
<1>2. next' = [next EXCEPT ![n] = c[1]] /\ prev' = [prev EXCEPT ![n] = Null, ![c[1]] = n]
  BY <1>1 DEF addStartOfList
<1>3. list' = [head |-> n, trail |-> list.trail, currSize |-> Size + 1]
  BY Ends DEF addStartOfList
<1>4. next \in [Nodes -> Pointers] /\ prev \in [Nodes -> Pointers]
  BY DEF TypeOK
<1>5. LinksTyped
  BY <1>1, <1>2, <1>4 DEF LinksTyped, Pointers
<1>6. next'[n] = c[1] /\ prev'[n] = Null
  BY <1>1, <1>2, <1>4
<1>7. \A x \in live : next'[x] = next[x] /\ prev'[x] = IF x = c[1] THEN n ELSE prev[x]
  BY <1>1, <1>2, <1>4
<1> QED BY <1>1, <1>3, <1>5, <1>6, <1>7 DEF LinkIn, Allocated

\* addEndOfList: it becomes the last, if there is a trail to link it to.
LEMMA EndAdded ==
  ASSUME TypeOK, NEW c, Linked(c), NEW n \in Nodes, NEW d \in Elems, Allocated(n, d),
         Size > 0, addEndOfList(n)
  PROVE  IF list.trail = Wild THEN Spoilt /\ LinksTyped
         ELSE LinkIn(c, n, d, Size + 1) /\ LinksTyped /\ broken' = broken
<1>1. CASE list.trail = Wild
  <2>1. broken' = TRUE /\ next' = next /\ prev' = prev /\ list' = list
    BY <1>1, Ends DEF addEndOfList
  <2> QED BY <1>1, <2>1, Ends DEF Spoilt, Allocated, LinksTyped
<1>2. CASE list.trail # Wild
  <2>1. /\ list.trail = c[Size] /\ c[Size] \in live /\ n \notin live /\ live \subseteq Nodes
        /\ Size \in Nat /\ Size + 1 > Size /\ Size + 1 # 1 /\ Size + 1 - 1 = Size
        /\ ~(Size + 1 <= Size) /\ Size + 1 > 1
    BY <1>2, Ends DEF Allocated
  <2>2. /\ next' = [next EXCEPT ![n] = Null, ![c[Size]] = n]
        /\ prev' = [prev EXCEPT ![n] = c[Size]]
        /\ broken' = broken
    BY <2>1 DEF addEndOfList
  <2>3. list' = [head |-> list.head, trail |-> n, currSize |-> Size + 1]
    <3>1. list' = [list EXCEPT !.trail = n, !.currSize = @ + 1]
      BY <2>1 DEF addEndOfList
    <3> QED BY <3>1, Ends
  <2>4. next \in [Nodes -> Pointers] /\ prev \in [Nodes -> Pointers]
    BY DEF TypeOK
  <2>5. LinksTyped
    BY <2>1, <2>2, <2>4 DEF LinksTyped, Pointers
  <2>6. next'[n] = Null /\ prev'[n] = c[Size]
    BY <2>1, <2>2, <2>4
  <2>7. \A x \in live : prev'[x] = prev[x] /\ next'[x] = IF x = c[Size] THEN n ELSE next[x]
    BY <2>1, <2>2, <2>4
  <2>8. ASSUME NEW p, p = Size + 1 PROVE LinkIn(c, n, d, p)
    <3>1. p > Size /\ p # 1 /\ p - 1 = Size /\ ~(p <= Size) /\ p > 1
      BY <2>1, <2>8
    <3> QED BY <2>3, <2>6, <2>7, <3>1 DEF LinkIn, Allocated
  <2> QED BY <1>2, <2>2, <2>5, <2>8
<1> QED BY <1>1, <1>2

\* addBeforeNode: it takes the place of the p-th, for any but the first.
LEMMA BeforeAdded ==
  ASSUME TypeOK, NEW c, Linked(c), NEW n \in Nodes, NEW d \in Elems, Allocated(n, d),
         NEW p \in 2..Size, addBeforeNode(n, c[p])
  PROVE  LinkIn(c, n, d, p) /\ LinksTyped /\ broken' = broken
<1>1. /\ p \in 1..Size /\ p-1 \in 1..Size /\ p # 1 /\ p > 1 /\ p <= Size /\ ~(p > Size)
      /\ n \notin live /\ live \subseteq Nodes
  BY Ends DEF Allocated
<1>2. c[p] \in live /\ c[p-1] \in live /\ prev[c[p]] = c[p-1]
  BY <1>1, Ends
<1>3. /\ next' = [next EXCEPT ![n] = c[p], ![c[p-1]] = n]
      /\ prev' = [prev EXCEPT ![n] = c[p-1], ![c[p]] = n]
      /\ broken' = broken
  BY <1>2 DEF addBeforeNode
<1>4. list' = [head |-> list.head, trail |-> list.trail, currSize |-> Size + 1]
  <2>1. list' = [list EXCEPT !.currSize = @ + 1]
    BY <1>2 DEF addBeforeNode
  <2> QED BY <2>1, Ends
<1>5. next \in [Nodes -> Pointers] /\ prev \in [Nodes -> Pointers]
  BY DEF TypeOK
<1>6. LinksTyped
  BY <1>1, <1>2, <1>3, <1>5 DEF LinksTyped, Pointers
<1>7. next'[n] = c[p] /\ prev'[n] = c[p-1]
  BY <1>1, <1>2, <1>3, <1>5
<1>8. \A x \in live : /\ next'[x] = IF x = c[p-1] THEN n ELSE next[x]
                     /\ prev'[x] = IF x = c[p] THEN n ELSE prev[x]
  BY <1>1, <1>2, <1>3, <1>5
<1> QED BY <1>1, <1>3, <1>4, <1>6, <1>7, <1>8 DEF LinkIn, Allocated

\* addBeforeNode, given no node.
LEMMA BeforeNothing ==
  ASSUME TypeOK, NEW c, Linked(c), NEW n \in Nodes, NEW d \in Elems, Allocated(n, d),
         Size > 0, list.trail = Wild, addBeforeNode(n, Wild)
  PROVE  Spoilt /\ LinksTyped
<1>1. broken' = TRUE /\ next' = next /\ prev' = prev /\ list' = list
  BY Ends DEF addBeforeNode
<1> QED BY <1>1, Ends DEF Spoilt, Allocated, LinksTyped

\* What the unlinking functions do to the nodes c.
LEMMA OnlyRemoved ==
  ASSUME TypeOK, NEW c, Linked(c), Size = 1, remOnlyNode
  PROVE  LinkOut(c, 1) /\ LinksTyped
<1>1. list.head = c[1] /\ c[1] \in live /\ live \subseteq Nodes /\ live \ {c[1]} = {}
  BY Ends
<1>2. /\ next' = [next EXCEPT ![c[1]] = Wild] /\ prev' = [prev EXCEPT ![c[1]] = Wild]
      /\ live' = live \ {c[1]} /\ mem' = [mem EXCEPT ![c[1]] = Nothing]
  BY <1>1 DEF remOnlyNode, Freed
<1>3. list' = [head |-> Null, trail |-> list.trail, currSize |-> Size - 1]
  <2>1. list' = [list EXCEPT !.head = Null, !.currSize = @ - 1]
    BY DEF remOnlyNode
  <2> QED BY <2>1, Ends
<1>4. next \in [Nodes -> Pointers] /\ prev \in [Nodes -> Pointers]
  BY DEF TypeOK
<1>5. LinksTyped
  BY <1>1, <1>2, <1>4 DEF LinksTyped, Pointers
<1> QED BY <1>1, <1>2, <1>3, <1>5 DEF LinkOut

\* remFirstNodeFromList, of a list of several.
LEMMA FirstRemoved ==
  ASSUME TypeOK, NEW c, Linked(c), Size > 1, remFirstNodeFromList
  PROVE  LinkOut(c, 1) /\ LinksTyped
<1>1. /\ Size \in Nat /\ 1 \in 1..Size /\ 2 \in 1..Size /\ live \subseteq Nodes
      /\ list.head = c[1] /\ next[c[1]] = c[2] /\ c[1] \in live /\ c[2] \in live
  <2>1. /\ Size \in Nat /\ 1 \in 1..Size /\ 2 \in 1..Size /\ live \subseteq Nodes /\ 1 < Size
        /\ list.head = c[1]
    BY Ends
  <2> QED BY <2>1, Neighbours
<1>2. /\ next' = [next EXCEPT ![c[1]] = Wild]
      /\ prev' = [prev EXCEPT ![c[1]] = Wild, ![c[2]] = Null]
      /\ live' = live \ {c[1]} /\ mem' = [mem EXCEPT ![c[1]] = Nothing]
  BY <1>1 DEF remFirstNodeFromList, Freed
<1>3. list' = [head |-> c[2], trail |-> list.trail, currSize |-> Size - 1]
  <2>1. list' = [list EXCEPT !.head = c[2], !.currSize = @ - 1]
    BY <1>1 DEF remFirstNodeFromList
  <2> QED BY <2>1, Ends
<1>4. next \in [Nodes -> Pointers] /\ prev \in [Nodes -> Pointers]
  BY DEF TypeOK
<1>5. LinksTyped
  BY <1>1, <1>2, <1>4 DEF LinksTyped, Pointers
<1>6. \A x \in live \ {c[1]} : next'[x] = next[x] /\ prev'[x] = IF x = c[2] THEN Null ELSE prev[x]
  BY <1>1, <1>2, <1>4
<1>7. ASSUME NEW p, p = 1 PROVE LinkOut(c, p)
  <2>1. ~(p > 1) /\ p < Size /\ p + 1 = 2 /\ Size > 1
    BY <1>1, <1>7
  <2>2. \A x \in live \ {c[p]} :
          /\ next'[x] = IF p > 1 /\ x = c[p-1] THEN IF p < Size THEN c[p+1] ELSE Null ELSE next[x]
          /\ prev'[x] = IF p < Size /\ x = c[p+1] THEN IF p > 1 THEN c[p-1] ELSE Null ELSE prev[x]
    BY <1>6, <1>7, <2>1
  <2>3. list' = [head     |-> IF p > 1 THEN list.head ELSE IF Size > 1 THEN c[2] ELSE Null,
                 trail    |-> IF p = Size /\ p > 1 THEN c[p-1] ELSE list.trail,
                 currSize |-> Size - 1]
    BY <1>3, <2>1
  <2>4. live' = live \ {c[p]} /\ mem' = [mem EXCEPT ![c[p]] = Nothing]
    BY <1>2, <1>7
  <2> QED BY <2>2, <2>3, <2>4, Zenon DEF LinkOut
<1> QED BY <1>5, <1>7

\* remLastNodeFromList, of a list of several, if there is a trail to take.
LEMMA LastRemoved ==
  ASSUME TypeOK, NEW c, Linked(c), Size > 1, remLastNodeFromList
  PROVE  IF list.trail = Wild THEN Spoilt /\ LinksTyped /\ live' = live /\ mem' = mem
         ELSE LinkOut(c, Size) /\ LinksTyped /\ broken' = broken
<1>1. CASE list.trail = Wild
  <2>1. Wild \notin live /\ Size > 0
    BY Ends
  <2>2. Undefined
    BY <1>1, <2>1 DEF remLastNodeFromList, Follow
  <2> QED BY <1>1, <2>1, <2>2, Ends DEF Undefined, nodes, Spoilt, LinksTyped
<1>2. CASE list.trail # Wild
  <2>1. /\ Size \in Nat /\ Size \in 1..Size /\ Size-1 \in 1..Size /\ live \subseteq Nodes
        /\ ~(Size < Size) /\ Size # 1
    BY Ends
  <2>2. list.trail = c[Size] /\ c[Size] \in live /\ c[Size-1] \in live /\ prev[c[Size]] = c[Size-1]
    <3>1. list.trail = c[Size]
      BY <1>2, <2>1, Ends
    <3>2. c[Size] \in live /\ c[Size-1] \in live /\ prev[c[Size]] = c[Size-1]
      BY <2>1, Neighbours
    <3> QED BY <3>1, <3>2
  <2>3. Follow(prev, list.trail) = c[Size-1]
    BY <2>2 DEF Follow
  <2>4. /\ next' = [next EXCEPT ![c[Size]] = Wild, ![c[Size-1]] = Null]
        /\ prev' = [prev EXCEPT ![c[Size]] = Wild]
        /\ live' = live \ {c[Size]} /\ mem' = [mem EXCEPT ![c[Size]] = Nothing]
        /\ broken' = broken
    BY <2>2, <2>3 DEF remLastNodeFromList, Freed
  <2>5. list' = [head |-> list.head, trail |-> c[Size-1], currSize |-> Size - 1]
    <3>1. list' = [list EXCEPT !.trail = c[Size-1], !.currSize = @ - 1]
      BY <2>2, <2>3 DEF remLastNodeFromList
    <3> QED BY <3>1, Ends
  <2>6. next \in [Nodes -> Pointers] /\ prev \in [Nodes -> Pointers]
    BY DEF TypeOK
  <2>7. LinksTyped
    BY <2>1, <2>2, <2>4, <2>6 DEF LinksTyped, Pointers
  <2>8. \A x \in live \ {c[Size]} : /\ next'[x] = IF x = c[Size-1] THEN Null ELSE next[x]
                                    /\ prev'[x] = prev[x]
    BY <2>1, <2>2, <2>4, <2>6
  <2> QED BY <1>2, <2>1, <2>4, <2>5, <2>7, <2>8 DEF LinkOut
<1> QED BY <1>1, <1>2

\* remMiddleNode: the p-th, when there is a node on either side of it.
LEMMA MiddleRemoved ==
  ASSUME TypeOK, NEW c, Linked(c), NEW p \in 2..Size, p < Size, remMiddleNode(c[p])
  PROVE  LinkOut(c, p) /\ LinksTyped /\ broken' = broken
<1>1. /\ Size \in Nat /\ p \in 1..Size /\ p-1 \in 1..Size /\ p+1 \in 1..Size /\ live \subseteq Nodes
      /\ p # 1 /\ p > 1 /\ p # Size /\ Size > 1
  BY Ends
<1>2. /\ c[p] \in live /\ c[p-1] \in live /\ c[p+1] \in live
      /\ prev[c[p]] = c[p-1] /\ next[c[p]] = c[p+1]
  BY <1>1, Neighbours
<1>3. Follow(prev, c[p]) = c[p-1] /\ Follow(next, c[p]) = c[p+1]
  BY <1>2 DEF Follow
<1>4. /\ next' = [next EXCEPT ![c[p]] = Wild, ![c[p-1]] = c[p+1]]
      /\ prev' = [prev EXCEPT ![c[p]] = Wild, ![c[p+1]] = c[p-1]]
      /\ live' = live \ {c[p]} /\ mem' = [mem EXCEPT ![c[p]] = Nothing]
      /\ broken' = broken
  BY <1>2, <1>3 DEF remMiddleNode, Freed
<1>5. list' = [head |-> list.head, trail |-> list.trail, currSize |-> Size - 1]
  <2>1. list' = [list EXCEPT !.currSize = @ - 1]
    BY <1>2, <1>3 DEF remMiddleNode
  <2> QED BY <2>1, Ends
<1>6. next \in [Nodes -> Pointers] /\ prev \in [Nodes -> Pointers]
  BY DEF TypeOK
<1>7. LinksTyped
  BY <1>1, <1>2, <1>4, <1>6 DEF LinksTyped, Pointers
<1>8. \A x \in live \ {c[p]} : /\ next'[x] = IF x = c[p-1] THEN c[p+1] ELSE next[x]
                               /\ prev'[x] = IF x = c[p+1] THEN c[p-1] ELSE prev[x]
  BY <1>1, <1>2, <1>4, <1>6
<1> QED BY <1>1, <1>4, <1>5, <1>7, <1>8 DEF LinkOut

\* remMiddleNode given the last node, or none: there is no node on one side of it.
LEMMA MiddleMissing ==
  ASSUME TypeOK, NEW c, Linked(c), Size > 1, list.trail = Wild, NEW x \in {Wild, c[Size]},
         remMiddleNode(x)
  PROVE  Spoilt /\ LinksTyped /\ live' = live /\ mem' = mem
<1>1. Size > 0 /\ Wild \notin live /\ Null \notin live /\ next[c[Size]] = Null
  BY Ends
<1>2. Follow(next, x) \notin live
  BY <1>1 DEF Follow
<1>3. Undefined
  BY <1>2 DEF remMiddleNode
<1> QED BY <1>1, <1>3, Ends DEF Undefined, nodes, Spoilt, LinksTyped

-----------------------------------------------------------------------------
(* The three outcomes of a call on a list: it holds the sequence s, and is as whole as *)
(* it was; or an access was undefined, and what it holds is not touched.               *)

Shape ==
  /\ live \subseteq Nodes /\ mem \in [Nodes -> Elems \cup {Nothing}]
  /\ next \in [Nodes -> Pointers] /\ prev \in [Nodes -> Pointers]
  /\ list \in [head : Pointers, trail : Pointers, currSize : 0..Cardinality(Nodes)]

Holds(s) ==
  /\ broken' = broken /\ Shape' /\ \E b : Linked(b)'
  /\ Contents' = s /\ Fragile' = (Fragile /\ s # <<>>)

Undone ==
  /\ broken' = TRUE /\ Shape' /\ Contents' = Contents /\ Fragile /\ Fragile' = Fragile

\* A list is fragile when its trail was never written, unless it is empty.
LEMMA FragileIs ==
  ASSUME TypeOK, NEW c, Linked(c), exists
  PROVE  Fragile <=> Size > 0 /\ list.trail = Wild
<1>1. list.head = IF Size = 0 THEN Null ELSE c[1]
  BY Ends
<1>2. Size \in Nat /\ c \in [1..Size -> live] /\ live \subseteq Nodes /\ Null \notin Nodes
  BY Ends
<1> QED BY <1>1, <1>2 DEF Fragile

\* A node linked in: the list holds one element more.
LEMMA HoldsGrown ==
  ASSUME TypeOK, NEW c, Linked(c), exists, exists' = exists, broken' = broken,
         NEW n \in Nodes \ live, NEW d \in Elems, NEW p \in 1..Size+1,
         LinkIn(c, n, d, p), LinksTyped, p = Size + 1 /\ Size > 0 => list.trail # Wild
  PROVE  Holds(InsertAt(Contents, p, d))
<1>1. Linked(InsertAt(c, p, n))' /\ Contents' = InsertAt(Contents, p, d)
  BY LinkedIn
<1>2. Size \in Nat /\ n \in Nodes /\ live \subseteq Nodes /\ Wild \notin Nodes /\ Null \notin Nodes
  BY Ends
<1>3. InsertAt(Contents, p, d) # <<>>
  <2>1. Contents \in Seq(Elems) /\ Len(Contents) = Size
    BY ContentsAre
  <2>2. p \in 1..Len(Contents)+1
    BY <2>1
  <2>3. Inserted(InsertAt(Contents, p, d), Contents, p, d)
    BY <2>1, <2>2, InsertAtIs, Zenon
  <2>4. Len(InsertAt(Contents, p, d)) > 0
    BY <1>2, <2>1, <2>3 DEF Inserted
  <2> QED BY <2>4
<1>4. Shape'
  <2>1. live' \subseteq Nodes /\ mem' \in [Nodes -> Elems \cup {Nothing}]
    BY <1>2 DEF LinkIn, TypeOK
  <2>2. Size' \in 0..Cardinality(Nodes)
    <3>1. Cardinality(live') = Size' /\ Size' \in Nat
      BY <1>1 DEF Linked, Runs
    <3>2. Cardinality(live') <= Cardinality(Nodes) /\ Cardinality(Nodes) \in Nat
      BY <2>1, BoundsAssumption, FS_Subset, FS_CardinalityType
    <3> QED BY <3>1, <3>2
  <2>3. list' \in [head : Pointers, trail : Pointers, currSize : 0..Cardinality(Nodes)]
    <3>1. list.head \in Pointers /\ list.trail \in Pointers /\ n \in Pointers
      BY <1>2, Ends DEF Pointers
    <3>2. list' = [head     |-> IF p = 1 THEN n ELSE list.head,
                   trail    |-> IF p > Size THEN n ELSE list.trail,
                   currSize |-> Size']
      BY DEF LinkIn, Size
    <3> QED BY <2>2, <3>1, <3>2
  <2> QED BY <2>1, <2>3 DEF Shape, LinksTyped
<1>5. Fragile' <=> Fragile
  <2>1. list'.head # Null
    <3>1. p # 1 => Size > 0
      BY <1>2
    <3>2. Size > 0 => list.head # Null
      <4>1. list.head = IF Size = 0 THEN Null ELSE c[1]
        BY Ends
      <4>2. Null \notin live
        BY Ends
      <4>3. Size > 0 => c[1] \in live
        BY Neighbours
      <4>4. Size > 0 => Size # 0
        OBVIOUS
      <4> QED BY <4>1, <4>2, <4>3, <4>4
    <3> QED BY <1>2, <3>1, <3>2 DEF LinkIn
  <2>2. CASE p > Size
    <3>1. list'.trail # Wild
      BY <1>2, <2>2 DEF LinkIn
    <3>2. p = Size + 1
      BY <1>2, <2>2
    <3> QED BY <1>2, <3>1, <3>2, FragileIs DEF Fragile
  <2>3. CASE p <= Size
    <3>1. list'.trail = list.trail /\ Size > 0
      BY <1>2, <2>3 DEF LinkIn
    <3> QED BY <2>1, <3>1, FragileIs DEF Fragile
  <2> QED BY <1>2, <2>2, <2>3
<1> QED BY <1>1, <1>3, <1>4, <1>5 DEF Holds, Fragile

\* A node taken out: it holds one element less.
LEMMA HoldsShrunk ==
  ASSUME TypeOK, NEW c, Linked(c), exists, exists' = exists, broken' = broken,
         NEW p \in 1..Size, LinkOut(c, p), LinksTyped, p = Size /\ Size > 1 => list.trail # Wild
  PROVE  Holds(RemoveAt(Contents, p))
<1>1. Linked(RemoveAt(c, p))' /\ Contents' = RemoveAt(Contents, p)
  BY LinkedOut
<1>2. /\ Size \in Nat /\ live \subseteq Nodes /\ Wild \notin Nodes /\ Null \notin Nodes
      /\ c \in [1..Size -> live] /\ Size > 0
  BY Ends
<1>3. RemoveAt(Contents, p) = <<>> <=> Size = 1
  <2>1. Contents \in Seq(Elems) /\ Len(Contents) = Size
    BY ContentsAre
  <2>2. p \in 1..Len(Contents)
    BY <2>1
  <2>3. /\ RemoveAt(Contents, p) \in Seq(Elems)
        /\ Removed(RemoveAt(Contents, p), Contents, p)
    BY <2>1, <2>2, RemoveAtIs, Zenon
  <2>4. Len(RemoveAt(Contents, p)) = Size - 1
    BY <1>2, <2>1, <2>3 DEF Removed
  <2> QED BY <1>2, <2>3, <2>4
<1>4. Shape'
  <2>1. live' \subseteq Nodes /\ mem' \in [Nodes -> Elems \cup {Nothing}]
    BY <1>2 DEF LinkOut, TypeOK
  <2>2. Size' \in 0..Cardinality(Nodes)
    <3>1. Cardinality(live') = Size' /\ Size' \in Nat
      BY <1>1 DEF Linked, Runs
    <3>2. Cardinality(live') <= Cardinality(Nodes) /\ Cardinality(Nodes) \in Nat
      BY <2>1, BoundsAssumption, FS_Subset, FS_CardinalityType
    <3> QED BY <3>1, <3>2
  <2>3. list' \in [head : Pointers, trail : Pointers, currSize : 0..Cardinality(Nodes)]
    <3>1. list.head \in Pointers /\ list.trail \in Pointers /\ Null \in Pointers
      BY Ends DEF Pointers
    <3>2. \A k \in 1..Size : c[k] \in Pointers
      BY <1>2 DEF Pointers
    <3>3. (Size > 1 => c[2] \in Pointers) /\ (p > 1 => c[p-1] \in Pointers)
      BY <1>2, <3>2
    <3>4. list' = [head     |-> IF p > 1 THEN list.head ELSE IF Size > 1 THEN c[2] ELSE Null,
                   trail    |-> IF p = Size /\ p > 1 THEN c[p-1] ELSE list.trail,
                   currSize |-> Size']
      BY DEF LinkOut, Size
    <3> QED BY <2>2, <3>1, <3>3, <3>4
  <2> QED BY <2>1, <2>3 DEF Shape, LinksTyped
<1>5. Fragile' <=> Fragile /\ Size # 1
  <2>1. CASE Size = 1
    <3>1. list'.head = Null
      BY <1>2, <2>1 DEF LinkOut
    <3> QED BY <2>1, <3>1 DEF Fragile
  <2>2. CASE Size > 1
    <3>1. list'.head # Null
      <4>1. \A k \in 1..Size : c[k] # Null
        BY <1>2
      <4>2. c[2] # Null /\ list.head # Null
        <5>1. list.head = IF Size = 0 THEN Null ELSE c[1]
          BY Ends
        <5>2. Size # 0 /\ 1 \in 1..Size /\ 2 \in 1..Size
          BY <1>2, <2>2
        <5> QED BY <4>1, <5>1, <5>2
      <4> QED BY <1>2, <2>2, <4>2 DEF LinkOut
    <3>2. CASE p = Size
      <4>1. list'.trail = c[p-1] /\ c[p-1] \in live
        BY <1>2, <2>2, <3>2 DEF LinkOut
      <4> QED BY <1>2, <2>2, <3>2, <4>1, FragileIs DEF Fragile
    <3>3. CASE p # Size
      <4>1. list'.trail = list.trail
        BY <3>3 DEF LinkOut
      <4> QED BY <1>2, <2>2, <3>1, <4>1, FragileIs DEF Fragile
    <3> QED BY <3>2, <3>3
  <2> QED BY <1>2, <2>1, <2>2
<1> QED BY <1>1, <1>3, <1>4, <1>5 DEF Holds, Fragile

\* Nothing touched: it holds what it held.
LEMMA HoldsSame ==
  ASSUME TypeOK, NEW c, Linked(c), exists, exists' = exists, broken' = broken,
         UNCHANGED <<nodes, list>>
  PROVE  Holds(Contents)
<1>1. live' = live /\ mem' = mem /\ next' = next /\ prev' = prev /\ list' = list
  BY DEF nodes
<1>2. Linked(c)'
  BY <1>1 DEF Linked, Runs, Size
<1>3. Contents' = Contents
  <2>1. Contents = [k \in 1..Size |-> mem[c[k]]]
    BY ContentsAre
  <2>2. Contents' = [k \in 1..Size' |-> mem'[c[k]]]
    BY <1>2, ChainIsNext DEF Linked
  <2> QED BY <1>1, <2>1, <2>2 DEF Size
<1>4. Fragile' = Fragile
  BY <1>1 DEF Fragile
<1>5. Shape'
  BY <1>1 DEF Shape, TypeOK, Pointers
<1>6. Contents # <<>> <=> Size > 0
  <2>1. Contents \in Seq(Elems) /\ Len(Contents) = Size
    BY ContentsAre
  <2> QED BY <2>1
<1> QED BY <1>2, <1>3, <1>4, <1>5, <1>6, FragileIs DEF Holds, Fragile

\* An undefined access leaves what the list holds.
LEMMA UndoneBySpoilt ==
  ASSUME TypeOK, NEW c, Linked(c), exists, exists' = exists, Spoilt, LinksTyped,
         live' \subseteq Nodes, mem' \in [Nodes -> Elems \cup {Nothing}]
  PROVE  Undone
<1>1. /\ Size \in Nat /\ c \in [1..Size -> live] /\ Size' = Size /\ list' = list
      /\ live \subseteq live' /\ \A x \in live : next'[x] = next[x] /\ mem'[x] = mem[x]
  BY Ends DEF Spoilt, Size
<1>2. Runs(c)'
  <2>1. c \in [1..Size' -> live']
    BY <1>1
  <2>2. Size' > 0 => c[1] = list'.head
    BY <1>1 DEF Linked, Runs
  <2>3. \A k \in 1..Size' : k < Size' => next'[c[k]] = c[k+1]
    <3> TAKE k \in 1..Size'
    <3>1. k \in 1..Size /\ c[k] \in live
      BY <1>1
    <3>2. k < Size => next[c[k]] = c[k+1]
      BY <3>1 DEF Linked, Runs
    <3> QED BY <1>1, <3>1, <3>2
  <2> QED BY <1>1, <2>1, <2>2, <2>3 DEF Runs
<1>3. Contents' = Contents
  <2>1. Contents = [k \in 1..Size |-> mem[c[k]]]
    BY ContentsAre
  <2>2. Contents' = [k \in 1..Size |-> mem'[c[k]]]
    BY <1>1, <1>2, ChainIsNext
  <2>3. \A k \in 1..Size : mem'[c[k]] = mem[c[k]]
    BY <1>1
  <2> QED BY <2>1, <2>2, <2>3
<1>4. Fragile /\ Fragile' = Fragile
  BY <1>1, FragileIs DEF Spoilt, Fragile
<1>5. Shape'
  BY <1>1 DEF Shape, TypeOK, LinksTyped, Pointers
<1> QED BY <1>3, <1>4, <1>5 DEF Undone, Spoilt

-----------------------------------------------------------------------------
(* The functions, each on a whole list of the nodes c. *)

\* addElemToList puts the element where InsertPos says.
LEMMA AddDoes ==
  ASSUME TypeOK, NEW c, Linked(c), exists, ~broken, NEW d \in Elems, NEW i \in Nat,
         addElemToList(d, i)
  PROVE  Holds(InsertAt(Contents, Seqs!InsertPos(Contents, i), d)) \/ Undone
<1>1. PICK n \in Nodes : /\ Allocated(n, d)
                         /\ IF list.head = Null THEN addFirstElement(n)
                            ELSE IF i = 0 THEN addStartOfList(n)
                            ELSE IF i >= list.currSize - 1 THEN addEndOfList(n)
                            ELSE addBeforeNode(n, getNodeFromIndex(i))
  BY DEF addElemToList
<1>2. exists' = exists
  BY DEF addElemToList, Returns
<1>3. /\ n \in Nodes \ live /\ live' \subseteq Nodes /\ mem' \in [Nodes -> Elems \cup {Nothing}]
  BY <1>1 DEF Allocated, TypeOK
<1>4. /\ Size \in Nat /\ Size = list.currSize /\ (list.head = Null <=> Size = 0)
      /\ Len(Contents) = Size
  <2>1. /\ list.head = IF Size = 0 THEN Null ELSE c[1]
        /\ Size \in Nat /\ c \in [1..Size -> live] /\ live \subseteq Nodes /\ Null \notin Nodes
        /\ Size = list.currSize
    BY Ends
  <2> QED BY <2>1, ContentsAre
<1> DEFINE p == Seqs!InsertPos(Contents, i)
<1>5. /\ p = IF i = 0 THEN 1 ELSE IF i >= Size - 1 THEN Size + 1 ELSE i + 1
      /\ p \in 1..Size+1
  BY <1>4 DEF Seqs!InsertPos
<1> HIDE DEF p
<1>6. CASE Size = 0
  <2>1. addFirstElement(n)
    BY <1>1, <1>4, <1>6
  <2>2. p = 1
    BY <1>5, <1>6
  <2>3. LinkIn(c, n, d, p) /\ LinksTyped
    BY <1>1, <1>6, <2>1, <2>2, FirstAdded
  <2>4. broken' = broken
    BY <2>1 DEF addFirstElement
  <2> QED BY <1>2, <1>3, <1>5, <1>6, <2>3, <2>4, HoldsGrown DEF p
<1>7. CASE Size > 0 /\ i = 0
  <2>1. addStartOfList(n)
    BY <1>1, <1>4, <1>7
  <2>2. p = 1 /\ p # Size + 1
    BY <1>4, <1>5, <1>7
  <2>3. LinkIn(c, n, d, p) /\ LinksTyped
    BY <1>1, <1>7, <2>1, <2>2, StartAdded
  <2>4. broken' = broken
    BY <2>1 DEF addStartOfList
  <2> QED BY <1>2, <1>3, <1>5, <2>2, <2>3, <2>4, HoldsGrown DEF p
<1>8. CASE Size > 0 /\ i # 0 /\ i >= Size - 1
  <2>1. addEndOfList(n)
    BY <1>1, <1>4, <1>8
  <2>2. p = Size + 1
    BY <1>4, <1>5, <1>8
  <2>3. IF list.trail = Wild THEN Spoilt /\ LinksTyped
        ELSE LinkIn(c, n, d, Size + 1) /\ LinksTyped /\ broken' = broken
    BY <1>1, <1>8, <2>1, EndAdded
  <2>4. CASE list.trail = Wild
    BY <1>2, <1>3, <2>3, <2>4, UndoneBySpoilt
  <2>5. CASE list.trail # Wild
    BY <1>2, <1>3, <1>5, <2>2, <2>3, <2>5, HoldsGrown DEF p
  <2> QED BY <2>4, <2>5
<1>9. CASE Size > 0 /\ i # 0 /\ i < Size - 1
  <2>1. addBeforeNode(n, getNodeFromIndex(i))
    BY <1>1, <1>4, <1>9
  <2>2. p = i + 1 /\ p \in 2..Size /\ p # Size + 1 /\ i < Size
    BY <1>4, <1>5, <1>9
  <2>3. getNodeFromIndex(i) = IF i > Size \div 2 /\ list.trail = Wild THEN Wild ELSE c[p]
    BY <1>9, <2>2, NodeAtIndex
  <2>4. CASE i > Size \div 2 /\ list.trail = Wild
    <3>1. Spoilt /\ LinksTyped
      BY <1>1, <1>9, <2>1, <2>3, <2>4, BeforeNothing
    <3> QED BY <1>2, <1>3, <3>1, UndoneBySpoilt
  <2>5. CASE ~(i > Size \div 2 /\ list.trail = Wild)
    <3>1. LinkIn(c, n, d, p) /\ LinksTyped /\ broken' = broken
      BY <1>1, <2>1, <2>2, <2>3, <2>5, BeforeAdded
    <3> QED BY <1>2, <1>3, <1>5, <2>2, <3>1, HoldsGrown DEF p
  <2> QED BY <2>4, <2>5
<1> QED BY <1>4, <1>6, <1>7, <1>8, <1>9

\* addElemToListComp puts it before the first that is not greater.
LEMMA AddCompDoes ==
  ASSUME TypeOK, NEW c, Linked(c), exists, ~broken, NEW d \in Elems, addElemToListComp(d)
  PROVE  Holds(InsertSorted(Order, Contents, d)) \/ Undone
<1>1. PICK n \in Nodes : /\ Allocated(n, d)
                         /\ IF list.head = Null THEN addFirstElement(n)
                            ELSE IF findNode(d) = Null THEN addEndOfList(n)
                            ELSE IF findNode(d) = list.head THEN addStartOfList(n)
                            ELSE addBeforeNode(n, findNode(d))
  BY DEF addElemToListComp
<1>2. exists' = exists
  BY DEF addElemToListComp, Returns
<1>3. /\ n \in Nodes \ live /\ live' \subseteq Nodes /\ mem' \in [Nodes -> Elems \cup {Nothing}]
  BY <1>1 DEF Allocated, TypeOK
<1>4. /\ Size \in Nat /\ (list.head = Null <=> Size = 0) /\ Len(Contents) = Size
      /\ (Size > 0 => list.head = c[1]) /\ c \in [1..Size -> live] /\ Null \notin live
      /\ \A j, k \in 1..Size : c[j] = c[k] => j = k
  <2>1. /\ list.head = IF Size = 0 THEN Null ELSE c[1]
        /\ Size \in Nat /\ c \in [1..Size -> live] /\ live \subseteq Nodes /\ Null \notin Nodes
        /\ \A j, k \in 1..Size : c[j] = c[k] => j = k
    BY Ends
  <2> QED BY <2>1, ContentsAre
<1> DEFINE A == AtMost(Order, Contents, d)
           p == SortedPos(Order, Contents, d)
<1>5. /\ A = {} => findNode(d) = Null /\ p = Size + 1
      /\ A # {} => p \in 1..Size /\ findNode(d) = c[p]
  BY <1>4, NodeFound DEF SortedPos
<1>6. p \in 1..Size+1 /\ InsertSorted(Order, Contents, d) = InsertAt(Contents, p, d)
  BY <1>4, <1>5 DEF InsertSorted
<1> HIDE DEF p, A
<1>7. CASE Size = 0
  <2>1. addFirstElement(n)
    BY <1>1, <1>4, <1>7
  <2>2. p = 1
    BY <1>6, <1>7
  <2>3. LinkIn(c, n, d, p) /\ LinksTyped
    BY <1>1, <1>7, <2>1, <2>2, FirstAdded
  <2>4. broken' = broken
    BY <2>1 DEF addFirstElement
  <2> QED BY <1>2, <1>3, <1>6, <1>7, <2>3, <2>4, HoldsGrown
<1>8. CASE Size > 0 /\ A = {}
  <2>1. addEndOfList(n)
    BY <1>1, <1>4, <1>5, <1>8
  <2>2. IF list.trail = Wild THEN Spoilt /\ LinksTyped
        ELSE LinkIn(c, n, d, Size + 1) /\ LinksTyped /\ broken' = broken
    BY <1>1, <1>8, <2>1, EndAdded
  <2>3. CASE list.trail = Wild
    BY <1>2, <1>3, <2>2, <2>3, UndoneBySpoilt
  <2>4. CASE list.trail # Wild
    BY <1>2, <1>3, <1>5, <1>6, <1>8, <2>2, <2>4, HoldsGrown
  <2> QED BY <2>3, <2>4
<1>9. CASE Size > 0 /\ A # {} /\ p = 1
  <2>1. addStartOfList(n)
    BY <1>1, <1>4, <1>5, <1>9
  <2>2. p # Size + 1
    BY <1>4, <1>9
  <2>3. LinkIn(c, n, d, p) /\ LinksTyped
    BY <1>1, <1>9, <2>1, StartAdded
  <2>4. broken' = broken
    BY <2>1 DEF addStartOfList
  <2> QED BY <1>2, <1>3, <1>6, <2>2, <2>3, <2>4, HoldsGrown
<1>10. CASE Size > 0 /\ A # {} /\ p # 1
  <2>1. p \in 2..Size /\ p # Size + 1 /\ 1 \in 1..Size /\ p \in 1..Size
    BY <1>4, <1>5, <1>10
  <2>2. c[p] # c[1] /\ c[p] # Null /\ findNode(d) = c[p]
    BY <1>4, <1>5, <1>10, <2>1
  <2>3. addBeforeNode(n, c[p])
    BY <1>1, <1>4, <1>10, <2>2
  <2>4. LinkIn(c, n, d, p) /\ LinksTyped /\ broken' = broken
    BY <1>1, <2>1, <2>3, BeforeAdded
  <2> QED BY <1>2, <1>3, <1>6, <2>1, <2>4, HoldsGrown
<1> QED BY <1>4, <1>7, <1>8, <1>9, <1>10

\* What is left when the only, the first or the last node goes.
LEMMA OnlyTaken ==
  ASSUME TypeOK, NEW c, Linked(c), exists, exists' = exists, Size = 1, remOnlyNode
  PROVE  Holds(RemoveAt(Contents, 1))
<1>1. LinkOut(c, 1) /\ LinksTyped /\ broken' = broken /\ 1 \in 1..Size /\ ~(Size > 1)
  BY OnlyRemoved DEF remOnlyNode
<1> QED BY <1>1, HoldsShrunk

LEMMA FirstTaken ==
  ASSUME TypeOK, NEW c, Linked(c), exists, exists' = exists, Size > 1, remFirstNodeFromList
  PROVE  Holds(RemoveAt(Contents, 1))
<1>1. LinkOut(c, 1) /\ LinksTyped /\ broken' = broken
  BY FirstRemoved DEF remFirstNodeFromList
<1>2. 1 \in 1..Size /\ Size # 1
  BY Sizes
<1> QED BY <1>1, <1>2, HoldsShrunk

LEMMA LastTaken ==
  ASSUME TypeOK, NEW c, Linked(c), exists, exists' = exists, Size > 1, remLastNodeFromList
  PROVE  Holds(RemoveAt(Contents, Size)) \/ Undone
<1>1. IF list.trail = Wild THEN Spoilt /\ LinksTyped /\ live' = live /\ mem' = mem
      ELSE LinkOut(c, Size) /\ LinksTyped /\ broken' = broken
  BY LastRemoved
<1>2. Size \in 1..Size /\ live \subseteq Nodes /\ mem \in [Nodes -> Elems \cup {Nothing}]
  BY Ends
<1>3. CASE list.trail = Wild
  BY <1>1, <1>2, <1>3, UndoneBySpoilt
<1>4. CASE list.trail # Wild
  BY <1>1, <1>2, <1>4, HoldsShrunk
<1> QED BY <1>3, <1>4

\* remElemFromList takes the element with the index, or the last one.
LEMMA RemDoes ==
  ASSUME TypeOK, NEW c, Linked(c), exists, ~broken, NEW i \in Nat, remElemFromList(i)
  PROVE  \/ Holds(IF Contents = <<>> THEN Contents
                  ELSE RemoveAt(Contents, IF i < Len(Contents) THEN i + 1 ELSE Len(Contents)))
         \/ Undone
<1>1. /\ exists' = exists
      /\ IF list.currSize = 0 THEN UNCHANGED <<nodes, list, broken>>
         ELSE IF list.currSize = 1 THEN remOnlyNode
         ELSE IF i = 0 THEN remFirstNodeFromList
         ELSE IF i >= list.currSize - 1 THEN remLastNodeFromList
         ELSE remMiddleNode(getNodeFromIndex(i))
  BY DEF remElemFromList, Returns
<1>2. /\ Size \in Nat /\ Size = list.currSize /\ Len(Contents) = Size
      /\ (Contents = <<>> <=> Size = 0) /\ live \subseteq Nodes
      /\ mem \in [Nodes -> Elems \cup {Nothing}]
  <2>1. Contents \in Seq(Elems) /\ Len(Contents) = Size
    BY ContentsAre
  <2>2. Contents = <<>> <=> Size = 0
    BY <2>1
  <2> QED BY <2>1, <2>2, Ends
<1> DEFINE p == IF i < Size THEN i + 1 ELSE Size
<1>3. (IF Contents = <<>> THEN Contents
       ELSE RemoveAt(Contents, IF i < Len(Contents) THEN i + 1 ELSE Len(Contents)))
      = IF Size = 0 THEN Contents ELSE RemoveAt(Contents, p)
  BY <1>2
<1>4. CASE Size = 0
  <2>1. broken' = broken /\ UNCHANGED <<nodes, list>>
    BY <1>1, <1>2, <1>4
  <2> QED BY <1>1, <1>3, <1>4, <2>1, HoldsSame
<1>5. CASE Size = 1
  <2>1. remOnlyNode /\ p = 1
    BY <1>1, <1>2, <1>5
  <2> QED BY <1>1, <1>3, <1>5, <2>1, OnlyTaken
<1>6. CASE Size > 1 /\ i = 0
  <2>1. remFirstNodeFromList /\ p = 1 /\ Size # 0
    BY <1>1, <1>2, <1>6
  <2> QED BY <1>1, <1>3, <1>6, <2>1, FirstTaken
<1>7. CASE Size > 1 /\ i # 0 /\ i >= Size - 1
  <2>1. remLastNodeFromList /\ p = Size /\ Size # 0
    BY <1>1, <1>2, <1>7
  <2> QED BY <1>1, <1>3, <1>7, <2>1, LastTaken
<1>8. CASE Size > 1 /\ i # 0 /\ i < Size - 1
  <2>1. /\ remMiddleNode(getNodeFromIndex(i)) /\ p \in 2..Size /\ p < Size /\ p = i + 1
        /\ i < Size /\ Size > 0 /\ Size # 0 /\ p \in 1..Size /\ p # Size
    BY <1>1, <1>2, <1>8
  <2> HIDE DEF p
  <2>2. getNodeFromIndex(i) = IF i > Size \div 2 /\ list.trail = Wild THEN Wild ELSE c[p]
    BY <2>1, NodeAtIndex
  <2>3. CASE i > Size \div 2 /\ list.trail = Wild
    <3>1. Spoilt /\ LinksTyped /\ live' = live /\ mem' = mem
      BY <1>8, <2>1, <2>2, <2>3, MiddleMissing
    <3> QED BY <1>1, <1>2, <3>1, UndoneBySpoilt
  <2>4. CASE ~(i > Size \div 2 /\ list.trail = Wild)
    <3>1. LinkOut(c, p) /\ LinksTyped /\ broken' = broken
      BY <2>1, <2>2, <2>4, MiddleRemoved
    <3>2. Holds(RemoveAt(Contents, p))
      BY <1>1, <2>1, <3>1, HoldsShrunk
    <3> QED BY <1>3, <2>1, <3>2
  <2> QED BY <2>3, <2>4
<1> QED BY <1>2, <1>4, <1>5, <1>6, <1>7, <1>8

\* Both removals by value take the node that findNode gives them out the same way.
LEMMA FoundTaken ==
  ASSUME TypeOK, NEW c, Linked(c), exists, exists' = exists, Size > 1, NEW q \in 1..Size,
         IF c[q] = list.trail THEN remLastNodeFromList
         ELSE IF c[q] = list.head THEN remFirstNodeFromList
         ELSE remMiddleNode(c[q])
  PROVE  Holds(RemoveAt(Contents, q)) \/ Undone
<1>1. /\ Size \in Nat /\ c \in [1..Size -> live] /\ live \subseteq Nodes /\ Wild \notin Nodes
      /\ mem \in [Nodes -> Elems \cup {Nothing}]
      /\ 1 \in 1..Size /\ Size \in 1..Size /\ Size # 1 /\ Size # 0
  BY Ends
<1>2. /\ list.head = c[1] /\ list.trail \in {c[Size], Wild}
      /\ \A j, k \in 1..Size : c[j] = c[k] => j = k
  <2>1. /\ list.head = IF Size = 0 THEN Null ELSE c[1]
        /\ Size > 0 => list.trail \in {c[Size], Wild}
        /\ \A j, k \in 1..Size : c[j] = c[k] => j = k
    BY Ends
  <2> QED BY <1>1, <2>1
<1>3. c[q] \in live /\ c[q] # Wild
  BY <1>1
<1>4. CASE c[q] = list.trail
  <2>1. q = Size /\ remLastNodeFromList
    BY <1>1, <1>2, <1>3, <1>4
  <2> QED BY <2>1, LastTaken
<1>5. CASE c[q] # list.trail /\ q = 1
  <2>1. remFirstNodeFromList
    BY <1>2, <1>5
  <2> QED BY <1>5, <2>1, FirstTaken
<1>6. CASE c[q] # list.trail /\ q # 1
  <2>1. remMiddleNode(c[q])
    BY <1>1, <1>2, <1>6
  <2>2. CASE q = Size
    <3>1. list.trail = Wild
      BY <1>2, <1>6, <2>2
    <3>2. Spoilt /\ LinksTyped /\ live' = live /\ mem' = mem
      BY <2>1, <2>2, <3>1, MiddleMissing
    <3> QED BY <1>1, <3>2, UndoneBySpoilt
  <2>3. CASE q # Size
    <3>1. q \in 2..Size /\ q < Size
      BY <1>1, <1>6, <2>3
    <3>2. LinkOut(c, q) /\ LinksTyped /\ broken' = broken
      BY <2>1, <3>1, MiddleRemoved
    <3> QED BY <2>3, <3>2, HoldsShrunk
  <2> QED BY <2>2, <2>3
<1> QED BY <1>4, <1>5, <1>6

\* SequenceList says the same of sequences as ListOps.
LEMMA SeqsOps ==
  /\ \A k, s, d : /\ Seqs!AtMost(k, s, d) = AtMost(k, s, d)
                  /\ Seqs!FoundPos(k, s, d) = FoundPos(k, s, d)
                  /\ Seqs!InsertSorted(k, s, d) = InsertSorted(k, s, d)
                  /\ Seqs!RemoveFound(k, s, d) = RemoveFound(k, s, d)
  /\ \A s, p, d : Seqs!InsertAt(s, p, d) = InsertAt(s, p, d)
  /\ \A s, p : Seqs!RemoveAt(s, p) = RemoveAt(s, p)
<1>1. \A k, s, d : Seqs!AtMost(k, s, d) = AtMost(k, s, d)
  BY DEF Seqs!AtMost, AtMost
<1>2. \A k, s, d : Seqs!FoundPos(k, s, d) = FoundPos(k, s, d)
  BY <1>1 DEF Seqs!FoundPos, FoundPos
<1>3. \A s, p, d : Seqs!InsertAt(s, p, d) = InsertAt(s, p, d)
  BY DEF Seqs!InsertAt, InsertAt
<1>4. \A s, p : Seqs!RemoveAt(s, p) = RemoveAt(s, p)
  BY DEF Seqs!RemoveAt, RemoveAt
<1>5. \A k, s, d : Seqs!SortedPos(k, s, d) = SortedPos(k, s, d)
  BY <1>1, <1>2 DEF Seqs!SortedPos, SortedPos
<1>6. \A k, s, d : Seqs!InsertSorted(k, s, d) = InsertSorted(k, s, d)
  BY <1>3, <1>5 DEF Seqs!InsertSorted, InsertSorted
<1>7. \A k, s, d : Seqs!RemoveFound(k, s, d) = RemoveFound(k, s, d)
  BY <1>1, <1>2, <1>4 DEF Seqs!RemoveFound, RemoveFound
<1> QED BY <1>1, <1>2, <1>3, <1>4, <1>6, <1>7

\* SequenceList takes the ends of a sequence off with Front and Tail.
LEMMA EndsCut ==
  ASSUME NEW E, NEW s \in Seq(E), s # <<>>
  PROVE  Seqs!Front(s) = RemoveAt(s, Len(s)) /\ Tail(s) = RemoveAt(s, 1)
<1>1. Len(s) \in Nat /\ Len(s) > 0 /\ 1 \in 1..Len(s) /\ Len(s) \in 1..Len(s)
  BY EmptySeq
<1>2. \A i \in 1..Len(s) : s[i] \in E
  BY ElementOfSeq
<1>3. /\ RemoveAt(s, Len(s)) \in Seq(E) /\ Removed(RemoveAt(s, Len(s)), s, Len(s))
      /\ RemoveAt(s, 1) \in Seq(E) /\ Removed(RemoveAt(s, 1), s, 1)
  BY <1>1, RemoveAtIs, Zenon
<1> DEFINE t == RemoveAt(s, Len(s))  u == RemoveAt(s, 1)  v == SubSeq(s, 1, Len(s)-1)
<1>4. v \in Seq(E) /\ Len(v) = Len(s) - 1 /\ \A i \in 1..Len(s)-1 : v[i] = s[i]
  <2>1. 1 \in Int /\ Len(s)-1 \in Int /\ \A i \in 1..Len(s)-1 : s[i] \in E
    BY <1>1, <1>2
  <2>2. /\ v \in Seq(E) /\ Len(v) = IF 1 <= Len(s)-1 THEN Len(s)-1-1+1 ELSE 0
        /\ \A i \in 1..Len(s)-1-1+1 : v[i] = s[1+i-1]
    BY <2>1, SubSeqProperties
  <2> HIDE DEF v
  <2>3. Len(v) = Len(s) - 1
    <3>1. Len(v) = IF 1 <= Len(s)-1 THEN Len(s)-1-1+1 ELSE 0
      BY <2>2
    <3>2. ASSUME NEW m \in Nat, m > 0 PROVE (IF 1 <= m-1 THEN m-1-1+1 ELSE 0) = m-1
      BY <3>2
    <3> QED BY <1>1, <3>1, <3>2
  <2>4. \A i \in 1..Len(s)-1 : i \in 1..Len(s)-1-1+1 /\ 1+i-1 = i
    BY <1>1
  <2>5. \A i \in 1..Len(s)-1 : v[i] = s[i]
    BY <2>2, <2>4
  <2> QED BY <2>2, <2>3, <2>5
<1>5. /\ Tail(s) \in Seq(E) /\ Len(Tail(s)) = Len(s) - 1
      /\ \A i \in 1..Len(s)-1 : Tail(s)[i] = s[i+1]
  BY <1>1, HeadTailProperties
<1>6. Seqs!Front(s) = v
  BY DEF Seqs!Front
<1>7. t \in Seq(E) /\ Len(t) = Len(s) - 1 /\ \A i \in 1..Len(s)-1 : t[i] = s[i]
  BY <1>1, <1>3 DEF Removed
<1>8. u \in Seq(E) /\ Len(u) = Len(s) - 1 /\ \A i \in 1..Len(s)-1 : u[i] = s[i+1]
  BY <1>1, <1>3 DEF Removed
<1> HIDE DEF t, u, v
<1>9. v = t
  BY <1>4, <1>7, SeqEqual
<1>10. Tail(s) = u
  <2> DEFINE w == Tail(s)
  <2>1. w \in Seq(E) /\ Len(w) = Len(u) /\ \A i \in 1..Len(w) : w[i] = u[i]
    BY <1>5, <1>8
  <2> HIDE DEF w
  <2>2. w = u
    BY <1>8, <2>1, SeqEqual
  <2> QED BY <2>2 DEF w
<1> QED BY <1>6, <1>9, <1>10 DEF t, u

\* The two ends a list has, and the element findNode finds.
LEMMA LookedAt ==
  ASSUME TypeOK, NEW c, Linked(c)
  PROVE  /\ Size \in Nat /\ Size = list.currSize /\ (list.head = Null <=> Size = 0)
         /\ Contents \in Seq(Elems) /\ Len(Contents) = Size /\ (Contents = <<>> <=> Size = 0)
         /\ \A k \in 1..Size : c[k] \in live /\ c[k] # Null /\ Contents[k] = mem[c[k]]
         /\ (Size > 0 => list.head = c[1])
<1>1. /\ list.head = IF Size = 0 THEN Null ELSE c[1]
      /\ Size \in Nat /\ c \in [1..Size -> live] /\ live \subseteq Nodes /\ Null \notin Nodes
      /\ Size = list.currSize
  BY Ends
<1>2. /\ Contents = [k \in 1..Size |-> mem[c[k]]]
      /\ Contents \in Seq(Elems) /\ Len(Contents) = Size
  BY ContentsAre
<1>3. Contents = <<>> <=> Size = 0
  <2>1. Contents \in Seq(Elems) /\ Len(Contents) = Size
    BY <1>2
  <2> QED BY <2>1, EmptySeq
<1>4. \A k \in 1..Size : c[k] \in live /\ c[k] # Null /\ Contents[k] = mem[c[k]]
  BY <1>1, <1>2
<1>5. Size > 0 => list.head = c[1]
  BY <1>1
<1>6. list.head = Null <=> Size = 0
  <2>1. Size # 0 => 1 \in 1..Size
    BY <1>1
  <2> QED BY <1>1, <1>4, <2>1
<1> QED BY <1>1, <1>2, <1>3, <1>4, <1>5, <1>6

\* remElemFromListComp: the first not greater, else the last of several.
LEMMA RemCompDoes ==
  ASSUME TypeOK, NEW c, Linked(c), exists, ~broken, ~comp, NEW d \in Elems,
         remElemFromListComp(d)
  PROVE  Holds(Seqs!Without(Contents, d)) \/ Undone
<1>1. /\ exists' = exists
      /\ IF list.head = Null \/ (list.currSize = 1 /\ findNode(d) = Null)
         THEN UNCHANGED <<nodes, list, broken>>
         ELSE IF list.currSize = 1 THEN remOnlyNode
         ELSE IF findNode(d) \in {Null, list.trail} THEN remLastNodeFromList
         ELSE IF findNode(d) = list.head THEN remFirstNodeFromList
         ELSE remMiddleNode(findNode(d))
  BY DEF remElemFromListComp, Returns
<1>2. /\ Size \in Nat /\ Size = list.currSize /\ (list.head = Null <=> Size = 0)
      /\ Contents \in Seq(Elems) /\ Len(Contents) = Size /\ (Contents = <<>> <=> Size = 0)
      /\ \A k \in 1..Size : c[k] # Null
  BY LookedAt
<1> DEFINE A == AtMost(Order, Contents, d)
           q == FoundPos(Order, Contents, d)
<1>3. (A = {} => findNode(d) = Null) /\ (A # {} => q \in 1..Size /\ findNode(d) = c[q])
  BY NodeFound
<1>4. Seqs!Without(Contents, d) = IF A = {} THEN IF Size > 1 THEN RemoveAt(Contents, Size)
                                                 ELSE Contents
                                  ELSE RemoveAt(Contents, q)
  <2>1. /\ Seqs!AtMost(Seqs!Order, Contents, d) = A
        /\ Seqs!RemoveFound(Seqs!Order, Contents, d)
             = IF A = {} THEN Contents ELSE RemoveAt(Contents, q)
    BY SeqsOps DEF Order, RemoveFound
  <2>2. Size > 1 => Seqs!Front(Contents) = RemoveAt(Contents, Size)
    BY <1>2, EndsCut
  <2> QED BY <1>2, <2>1, <2>2 DEF Seqs!Without
<1> HIDE DEF A, q
<1>5. CASE Size = 0 \/ (Size = 1 /\ A = {})
  <2>1. broken' = broken /\ UNCHANGED <<nodes, list>>
    BY <1>1, <1>2, <1>3, <1>5
  <2>2. A = {}
    BY <1>3, <1>5
  <2> QED BY <1>1, <1>4, <1>5, <2>1, <2>2, HoldsSame
<1>6. CASE Size = 1 /\ A # {}
  <2>1. q = 1 /\ findNode(d) # Null
    BY <1>2, <1>3, <1>6
  <2>2. remOnlyNode
    BY <1>1, <1>2, <1>6, <2>1
  <2> QED BY <1>1, <1>4, <1>6, <2>1, <2>2, OnlyTaken
<1>7. CASE Size > 1 /\ A = {}
  <2>1. remLastNodeFromList
    BY <1>1, <1>2, <1>3, <1>7
  <2> QED BY <1>1, <1>4, <1>7, <2>1, LastTaken
<1>8. CASE Size > 1 /\ A # {}
  <2>1. /\ q \in 1..Size
        /\ IF c[q] = list.trail THEN remLastNodeFromList
           ELSE IF c[q] = list.head THEN remFirstNodeFromList
           ELSE remMiddleNode(c[q])
    BY <1>1, <1>2, <1>3, <1>8
  <2> QED BY <1>1, <1>4, <1>8, <2>1, FoundTaken
<1> QED BY <1>2, <1>5, <1>6, <1>7, <1>8

\* remElemFromListComp2: the first not greater, else none.
LEMMA RemComp2Does ==
  ASSUME TypeOK, NEW c, Linked(c), exists, ~broken, comp, NEW d \in Elems,
         remElemFromListComp2(d)
  PROVE  Holds(Seqs!Without(Contents, d)) \/ Undone
<1>1. /\ exists' = exists
      /\ IF list.head = Null \/ findNode(d) = Null THEN UNCHANGED <<nodes, list, broken>>
         ELSE IF list.currSize = 1 THEN remOnlyNode
         ELSE IF findNode(d) = list.trail THEN remLastNodeFromList
         ELSE IF findNode(d) = list.head THEN remFirstNodeFromList
         ELSE remMiddleNode(findNode(d))
  BY DEF remElemFromListComp2, Returns
<1>2. /\ Size \in Nat /\ Size = list.currSize /\ (list.head = Null <=> Size = 0)
      /\ \A k \in 1..Size : c[k] # Null
  BY LookedAt
<1> DEFINE A == AtMost(Order, Contents, d)
           q == FoundPos(Order, Contents, d)
<1>3. (A = {} => findNode(d) = Null) /\ (A # {} => q \in 1..Size /\ findNode(d) = c[q])
  BY NodeFound
<1>4. Seqs!Without(Contents, d) = IF A = {} THEN Contents ELSE RemoveAt(Contents, q)
  BY SeqsOps DEF Order, RemoveFound, Seqs!Without
<1> HIDE DEF A, q
<1>5. CASE A = {}
  <2>1. broken' = broken /\ UNCHANGED <<nodes, list>>
    BY <1>1, <1>3, <1>5
  <2> QED BY <1>1, <1>4, <1>5, <2>1, HoldsSame
<1>6. CASE A # {} /\ Size = 1
  <2>1. q = 1 /\ remOnlyNode
    BY <1>1, <1>2, <1>3, <1>6
  <2> QED BY <1>1, <1>4, <1>6, <2>1, OnlyTaken
<1>7. CASE A # {} /\ Size > 1
  <2>1. /\ q \in 1..Size
        /\ IF c[q] = list.trail THEN remLastNodeFromList
           ELSE IF c[q] = list.head THEN remFirstNodeFromList
           ELSE remMiddleNode(c[q])
    BY <1>1, <1>2, <1>3, <1>7
  <2> QED BY <1>1, <1>4, <1>7, <2>1, FoundTaken
<1>8. A # {} => Size = 1 \/ Size > 1
  BY <1>2, <1>3
<1> QED BY <1>5, <1>6, <1>7, <1>8

\* getElemAtIndex: the element with the index, or the last one.
LEMMA GetDoes ==
  ASSUME TypeOK, NEW c, Linked(c), exists, ~broken, NEW i \in Nat, getElemAtIndex(i)
  PROVE  \/ /\ Holds(Contents)
            /\ ret' = IF Contents = <<>> THEN Nothing
                      ELSE Contents[IF i < Len(Contents) THEN i + 1 ELSE Len(Contents)]
         \/ Undone /\ ret' = Nothing
<1> DEFINE n == getNodeFromIndex(i)
           p == IF i < Size THEN i + 1 ELSE Size
<1>1. exists' = exists /\ UNCHANGED <<nodes, list>>
  BY DEF getElemAtIndex, Returns
<1>2. \/ list.currSize = 0 /\ ret' = Nothing /\ broken' = broken
      \/ list.currSize > 0 /\ n \in live /\ ret' = mem[n] /\ broken' = broken
      \/ list.currSize > 0 /\ n \notin live /\ ret' = Nothing /\ broken' = TRUE
  BY DEF getElemAtIndex, Returns
<1>3. /\ Size \in Nat /\ Size = list.currSize /\ Len(Contents) = Size
      /\ (Contents = <<>> <=> Size = 0) /\ live \subseteq Nodes
      /\ \A k \in 1..Size : c[k] \in live /\ Contents[k] = mem[c[k]]
  BY LookedAt, Sizes
<1>4. Size > 0 => n = IF i > Size \div 2 /\ list.trail = Wild THEN Wild ELSE c[p]
  BY NodeAtIndex
<1>5. Size > 0 => p \in 1..Size
  BY <1>3
<1> HIDE DEF n
<1>6. CASE broken' = broken
  <2>1. Holds(Contents)
    BY <1>1, <1>6, HoldsSame
  <2>2. CASE Size = 0
    BY <1>2, <1>3, <2>1, <2>2
  <2>3. CASE Size > 0
    <3>1. n \in live /\ ret' = mem[n]
      BY <1>2, <1>3, <1>6, <2>3
    <3>2. n = c[p]
      BY <1>3, <1>4, <2>3, <3>1, PointersAssumption
    <3> QED BY <1>3, <1>5, <2>1, <2>3, <3>1, <3>2
  <2> QED BY <1>3, <2>2, <2>3
<1>7. CASE broken' # broken
  <2>1. Size > 0 /\ n \notin live /\ ret' = Nothing /\ broken' = TRUE
    BY <1>2, <1>3, <1>7
  <2>2. list.trail = Wild
    BY <1>3, <1>4, <1>5, <2>1
  <2>3. Spoilt /\ LinksTyped /\ live' = live /\ mem' = mem
    BY <1>1, <2>1, <2>2 DEF nodes, Spoilt, LinksTyped, TypeOK
  <2>4. live \subseteq Nodes /\ mem \in [Nodes -> Elems \cup {Nothing}]
    BY DEF TypeOK
  <2> QED BY <1>1, <2>1, <2>3, <2>4, UndoneBySpoilt
<1> QED BY <1>6, <1>7

\* findElemListComp: the first element not greater, or NULL.
LEMMA FindDoes ==
  ASSUME TypeOK, NEW c, Linked(c), exists, ~broken, NEW d \in Elems, findElemListComp(d)
  PROVE  /\ Holds(Contents)
         /\ ret' = IF AtMost(Order, Contents, d) = {} THEN Nothing
                   ELSE Contents[FoundPos(Order, Contents, d)]
<1>1. /\ exists' = exists /\ UNCHANGED <<nodes, list>> /\ broken' = broken
      /\ ret' = IF findNode(d) = Null THEN Nothing ELSE mem[findNode(d)]
  BY DEF findElemListComp, Returns
<1>2. Holds(Contents)
  BY <1>1, HoldsSame
<1>3. \A k \in 1..Size : c[k] # Null /\ Contents[k] = mem[c[k]]
  BY LookedAt
<1> QED BY <1>1, <1>2, <1>3, NodeFound

\* popDLStack and dequeueDLQueue: the first element goes and is returned.
LEMMA PopDoes ==
  ASSUME TypeOK, NEW c, Linked(c), exists, ~broken, popDLStack
  PROVE  \/ Contents = <<>> /\ ret' = Nothing /\ Holds(Contents)
         \/ Contents # <<>> /\ ret' = Head(Contents) /\ Holds(Tail(Contents))
<1>1. /\ exists' = exists
      /\ ret' = IF list.head = Null THEN Nothing ELSE mem[list.head]
      /\ IF list.currSize = 0 THEN UNCHANGED <<nodes, list, broken>>
         ELSE IF list.currSize = 1 THEN remOnlyNode ELSE remFirstNodeFromList
  BY DEF popDLStack, Returns
<1>2. /\ Size \in Nat /\ Size = list.currSize /\ (list.head = Null <=> Size = 0)
      /\ Contents \in Seq(Elems) /\ Len(Contents) = Size /\ (Contents = <<>> <=> Size = 0)
      /\ \A k \in 1..Size : c[k] \in live /\ c[k] # Null /\ Contents[k] = mem[c[k]]
      /\ (Size > 0 => list.head = c[1])
  BY LookedAt
<1>3. CASE Size = 0
  <2>1. broken' = broken /\ UNCHANGED <<nodes, list>> /\ ret' = Nothing
    BY <1>1, <1>2, <1>3
  <2> QED BY <1>1, <1>2, <1>3, <2>1, HoldsSame
<1>4. CASE Size > 0
  <2>1. Contents # <<>> /\ ret' = Contents[1]
    BY <1>1, <1>2, <1>4
  <2>2. Tail(Contents) = RemoveAt(Contents, 1) /\ Head(Contents) = Contents[1]
    BY <1>2, <2>1, EndsCut
  <2>3. Holds(RemoveAt(Contents, 1))
    <3>1. CASE Size = 1
      <4>1. remOnlyNode
        BY <1>1, <1>2, <3>1
      <4> QED BY <1>1, <3>1, <4>1, OnlyTaken
    <3>2. CASE Size > 1
      <4>1. remFirstNodeFromList
        BY <1>1, <1>2, <3>2
      <4> QED BY <1>1, <3>2, <4>1, FirstTaken
    <3> QED BY <1>2, <1>4, <3>1, <3>2
  <2> QED BY <2>1, <2>2, <2>3
<1> QED BY <1>2, <1>3, <1>4

\* An empty list, or none, has no contents.
LEMMA NoContents == list.currSize = 0 => Contents = <<>>
<1> SUFFICES ASSUME list.currSize = 0 PROVE Contents = <<>>
  OBVIOUS
<1> DEFINE e == [k \in 1..0 |-> IF Chain[k] \in live THEN mem[Chain[k]] ELSE Nothing]
<1>1. Contents = e
  BY DEF Contents
<1>2. e \in Seq(Nat) /\ Len(e) = 0
  OBVIOUS
<1> HIDE DEF e
<1>3. e = <<>>
  BY <1>2, EmptySeq
<1> QED BY <1>1, <1>3

\* The same after a step.
LEMMA NoContentsNext == list'.currSize = 0 => Contents' = <<>>
<1>1. (list.currSize = 0 => Contents = <<>>)'
  BY NoContents, PTL
<1> QED BY <1>1

\* destroyDList frees every node there is.
LEMMA DestroyDoes ==
  ASSUME TypeOK, NEW c, Linked(c), exists, ~broken, destroyDList
  PROVE  /\ live' = {} /\ list' = NoList /\ Shape' /\ broken' = broken
         /\ Contents' = <<>> /\ ~Fragile'
<1> DEFINE gone == {Steps(next, list.head, k) : k \in 0..Cardinality(Nodes)}
<1>1. /\ live' = live \ gone /\ list' = NoList /\ broken' = broken /\ exists' = FALSE
      /\ mem'  = [n \in Nodes |-> IF n \in gone THEN Nothing ELSE mem[n]]
      /\ next' = [n \in Nodes |-> IF n \in gone THEN Wild ELSE next[n]]
      /\ prev' = [n \in Nodes |-> IF n \in gone THEN Wild ELSE prev[n]]
  BY DEF destroyDList
<1>2. live \subseteq gone
  <2> SUFFICES ASSUME NEW x \in live PROVE x \in gone
    OBVIOUS
  <2>1. PICK k \in 1..Size : c[k] = x
    BY DEF Linked
  <2>2. /\ k-1 \in Nat /\ k-1 < Size /\ k-1+1 = k /\ k-1 \in 0..Cardinality(Nodes)
    BY Sizes
  <2>3. Steps(next, list.head, k-1) = c[k]
    BY <2>2, StepsOnward
  <2> QED BY <2>1, <2>2, <2>3
<1> HIDE DEF gone
<1>3. Contents' = <<>>
  BY <1>1, NoContentsNext DEF NoList
<1>4. Shape'
  <2>1. /\ mem \in [Nodes -> Elems \cup {Nothing}]
        /\ next \in [Nodes -> Pointers] /\ prev \in [Nodes -> Pointers]
    BY DEF TypeOK
  <2>2. /\ mem' \in [Nodes -> Elems \cup {Nothing}]
        /\ next' \in [Nodes -> Pointers] /\ prev' \in [Nodes -> Pointers]
    BY <1>1, <2>1 DEF Pointers
  <2>3. list' \in [head : Pointers, trail : Pointers, currSize : 0..Cardinality(Nodes)]
    <3>1. Cardinality(Nodes) \in Nat
      BY BoundsAssumption, FS_CardinalityType
    <3> QED BY <1>1, <3>1 DEF NoList, Pointers
  <2>4. live' \subseteq Nodes
    BY <1>1, <1>2
  <2> QED BY <2>2, <2>3, <2>4 DEF Shape
<1> QED BY <1>1, <1>2, <1>3, <1>4 DEF Fragile

\* initDList makes an empty list.
LEMMA NewDoes ==
  ASSUME TypeOK, live = {}, NewList
  PROVE  /\ Shape' /\ Contents' = <<>> /\ ~Fragile' /\ \E c : Linked(c)'
<1>1. /\ list' = [head |-> Null, trail |-> Null, currSize |-> 0]
      /\ live' = live /\ mem' = mem /\ next' = next /\ prev' = prev
  BY DEF NewList, nodes
<1>2. Contents' = <<>>
  BY <1>1, NoContentsNext
<1>3. Shape'
  <2>1. Cardinality(Nodes) \in Nat
    BY BoundsAssumption, FS_CardinalityType
  <2> QED BY <1>1, <2>1 DEF Shape, TypeOK, Pointers
<1>4. Linked([k \in 1..0 |-> Null])'
  <2> DEFINE c == [k \in 1..0 |-> Null]
  <2>1. Size' = 0 /\ list'.head = Null /\ live' = {}
    BY <1>1 DEF Size
  <2>2. c \in [1..0 -> live'] /\ Cardinality(live') = 0
    BY <2>1, FS_EmptySet
  <2>3. Runs(c)'
    BY <2>1, <2>2 DEF Runs
  <2> QED BY <2>1, <2>2, <2>3 DEF Linked
<1> QED BY <1>1, <1>2, <1>3, <1>4 DEF Fragile

\* makeIntList makes a list of the array, fragile if that has one element.
LEMMA MakeDoes ==
  ASSUME TypeOK, live = {}, NEW k \in Nat \ {0}, NEW arr \in [1..k -> Elems],
         NEW ns \in [1..k -> Nodes], IsInjective(ns), ListOf(arr, ns)
  PROVE  /\ Shape' /\ Contents' = arr /\ (Fragile' <=> k = 1) /\ \E c : Linked(c)'
         /\ made' = k /\ made' \in 0..Cardinality(Nodes)
<1> DEFINE At(n) == CHOOSE i \in 1..k : ns[i] = n
           Sibling(i) == IF i \in 1..k THEN ns[i] ELSE Null
           new == ToSet(ns)
<1>1. Len(arr) = k /\ DOMAIN ns = 1..k
  OBVIOUS
<1>2. /\ exists' = TRUE /\ made' = k /\ live' = new
      /\ mem'  = [n \in Nodes |-> IF n \in new THEN arr[At(n)] ELSE Nothing]
      /\ next' = [n \in Nodes |-> IF n \in new THEN Sibling(At(n) + 1) ELSE Wild]
      /\ prev' = [n \in Nodes |-> IF n \in new THEN Sibling(At(n) - 1) ELSE Wild]
      /\ list' = [head |-> ns[1], trail |-> IF k > 1 THEN ns[k] ELSE Wild, currSize |-> k]
  BY <1>1 DEF ListOf
<1>3. new = {ns[i] : i \in 1..k} /\ new \subseteq Nodes /\ \A i \in 1..k : ns[i] \in new
  BY <1>1 DEF ToSet
<1>4. \A i, j \in 1..k : ns[i] = ns[j] => i = j
  BY <1>1 DEF IsInjective
<1>5. \A i \in 1..k : At(ns[i]) = i
  <2> TAKE i \in 1..k
  <2>1. At(ns[i]) \in 1..k /\ ns[At(ns[i])] = ns[i]
    OBVIOUS
  <2> QED BY <1>4, <2>1
<1>6. \A n \in new : At(n) \in 1..k
  BY <1>3, <1>5
<1>7. Cardinality(new) = k
  <2>1. ns \in Bijection(1..k, new)
    <3>1. ns \in [1..k -> new]
      BY <1>3
    <3>2. \A t \in new : \E i \in 1..k : ns[i] = t
      BY <1>3
    <3> QED BY <1>4, <3>1, <3>2, Fun_IsBij
  <2>2. ExistsBijection(1..k, new)
    BY <2>1 DEF ExistsBijection
  <2>3. IsFiniteSet(1..k) /\ Cardinality(1..k) = k
    BY FS_Interval
  <2> HIDE DEF new
  <2> QED BY <2>2, <2>3, FS_Bijection
<1> HIDE DEF At, new
<1>8. \A i \in 1..k : /\ mem'[ns[i]] = arr[i]
                      /\ next'[ns[i]] = Sibling(i+1) /\ prev'[ns[i]] = Sibling(i-1)
  BY <1>2, <1>3, <1>5
<1>9. k \in 0..Cardinality(Nodes)
  <2>1. Cardinality(new) <= Cardinality(Nodes) /\ Cardinality(Nodes) \in Nat
    BY <1>3, BoundsAssumption, FS_Subset, FS_CardinalityType
  <2> QED BY <1>7, <2>1
<1>10. Shape'
  <2>1. \A i : Sibling(i) \in Pointers
    BY DEF Pointers
  <2>2. next' \in [Nodes -> Pointers] /\ prev' \in [Nodes -> Pointers]
    <3> HIDE DEF Sibling
    <3> QED BY <1>2, <2>1 DEF Pointers
  <2>3. mem' \in [Nodes -> Elems \cup {Nothing}]
    BY <1>2, <1>6
  <2>4. list' \in [head : Pointers, trail : Pointers, currSize : 0..Cardinality(Nodes)]
    <3>1. ns[1] \in Pointers /\ ns[k] \in Pointers /\ Wild \in Pointers
      BY DEF Pointers
    <3> QED BY <1>2, <1>9, <3>1
  <2> QED BY <1>2, <1>3, <2>2, <2>3, <2>4 DEF Shape
<1>11. Size' = k
  BY <1>2 DEF Size
<1>12. Runs(ns)'
  <2>1. ns \in [1..Size' -> live']
    BY <1>2, <1>3, <1>11
  <2>2. \A i \in 1..Size' : i < Size' => next'[ns[i]] = ns[i+1]
    BY <1>8, <1>11
  <2> QED BY <1>2, <1>11, <2>1, <2>2 DEF Runs
<1>13. Linked(ns)'
  <2>1. \A n \in live' : mem'[n] \in Elems
    <3> TAKE n \in live'
    <3>1. PICK i \in 1..k : n = ns[i]
      BY <1>2, <1>3
    <3> QED BY <1>8, <3>1
  <2>2. \A n \in live' : \E i \in 1..Size' : ns[i] = n
    BY <1>2, <1>3, <1>11
  <2>3. \A i \in 1..Size' : prev'[ns[i]] = IF i = 1 THEN Null ELSE ns[i-1]
    BY <1>8, <1>11
  <2>4. next'[ns[k]] = Null
    BY <1>8
  <2>5. list'.trail \in {ns[k], Wild}
    BY <1>2
  <2> QED BY <1>2, <1>4, <1>7, <1>11, <1>12, <2>1, <2>2, <2>3, <2>4, <2>5 DEF Linked
<1>14. Contents' = arr
  <2>1. Contents' = [i \in 1..k |-> mem'[ns[i]]]
    BY <1>11, <1>12, ChainIsNext
  <2> QED BY <1>8, <2>1
<1>15. Fragile' <=> k = 1
  <2>1. ns[1] # Null /\ ns[k] # Wild
    BY PointersAssumption
  <2> QED BY <1>2, <2>1 DEF Fragile
<1> QED BY <1>2, <1>9, <1>10, <1>13, <1>14, <1>15

-----------------------------------------------------------------------------
(* The invariant, and the steps. *)

\* A list not yet broken is whole; nothing is allocated without one; and only a list made
\* of an array is ever fragile.
Inv ==
  /\ TypeOK
  /\ ~exists => live = {} /\ list = NoList
  /\ exists /\ ~broken => \E c : Linked(c)
  /\ Fragile => made # 0

\* What a call on a whole list, or one that makes or destroys a list, comes to.
Done(o, d, i, r, s) == Returns(o, d, i, r) /\ (Holds(s) \/ (Undone /\ r = Nothing))

\* Any such call keeps the invariant.
LEMMA InvDone ==
  ASSUME Inv, NEW o, NEW d, NEW i, NEW r \in Elems \cup {Nothing}, NEW s, Done(o, d, i, r, s)
  PROVE  Inv'
<1>1. /\ exists = TRUE /\ exists' = TRUE /\ comp' = comp /\ made' = made /\ ret' = r /\ Shape'
      /\ broken' \in BOOLEAN
  BY DEF Done, Returns, Inv, TypeOK, Holds, Undone
<1>2. TypeOK'
  BY <1>1 DEF TypeOK, Inv, Shape
<1>3. ~broken' => \E c : Linked(c)'
  BY DEF Done, Holds, Undone
<1>4. Fragile' => Fragile
  BY DEF Done, Holds, Undone
<1> QED BY <1>1, <1>2, <1>3, <1>4 DEF Inv

\* A call that ends well is one operation on the sequence.
LEMMA DoneChanges ==
  ASSUME TypeOK, NEW o, NEW d, NEW i, NEW s, Returns(o, d, i, Nothing), Holds(s)
  PROVE  Seqs!Call(o, d, i) /\ Seqs!Change(s) /\ ~broken
<1>1. /\ exists = TRUE /\ exists' = exists /\ comp' = comp /\ ret' = -1 /\ ~broken
      /\ call' = [op |-> o, data |-> d, index |-> i]
  BY DEF Returns, TypeOK, Nothing
<1>2. broken' = broken /\ Contents' = s /\ Fragile' = (Fragile /\ s # <<>>)
  BY DEF Holds
<1> QED BY <1>1, <1>2 DEF Seqs!Call, Seqs!Change, Seqs!Nothing

\* One that only reads is a look at the sequence.
LEMMA DoneLooks ==
  ASSUME TypeOK, NEW c, Linked(c), NEW o, NEW d, NEW i, NEW r, Returns(o, d, i, r),
         Holds(Contents)
  PROVE  Seqs!Call(o, d, i) /\ Seqs!Look(r) /\ ~broken
<1>1. /\ exists = TRUE /\ exists' = exists /\ comp' = comp /\ ret' = r /\ ~broken
      /\ call' = [op |-> o, data |-> d, index |-> i]
  BY DEF Returns, TypeOK
<1>2. broken' = broken /\ Contents' = Contents /\ Fragile' = (Fragile /\ Contents # <<>>)
  BY DEF Holds
<1>3. Fragile => Contents # <<>>
  <2>1. Size \in Nat /\ (Contents = <<>> <=> Size = 0)
    BY LookedAt
  <2> QED BY <1>1, <2>1, FragileIs
<1>4. Fragile' = Fragile
  BY <1>2, <1>3 DEF Fragile
<1> QED BY <1>1, <1>2, <1>4 DEF Seqs!Call, Seqs!Look

\* One that does not breaks a fragile list.
LEMMA DoneBreaks ==
  ASSUME TypeOK, NEW o \in {"add", "addComp", "rem", "remComp", "get"},
         NEW d \in Elems \cup {Nothing}, NEW i \in Indices \cup {Nothing},
         Returns(o, d, i, Nothing), Undone
  PROVE  Seqs!Break /\ ~broken
<1>1. /\ exists = TRUE /\ exists' = exists /\ comp' = comp /\ ret' = -1 /\ ~broken
      /\ call' = [op |-> o, data |-> d, index |-> i]
  BY DEF Returns, TypeOK, Nothing
<1>2. broken' = TRUE /\ Contents' = Contents /\ Fragile /\ Fragile' = Fragile
  BY DEF Undone
<1>3. call' \in Seqs!Calls
  BY <1>1 DEF Seqs!Calls, Seqs!Nothing, Nothing, Seqs!Indices, Indices
<1> QED BY <1>1, <1>2, <1>3 DEF Seqs!Break, Seqs!Nothing

\* What the invariant says of a list in use.
LEMMA Whole == Inv /\ exists /\ ~broken => TypeOK /\ \E c : Linked(c)
BY DEF Inv

\* The indices callers pass are numbers.
LEMMA IndicesAreNat == Indices \subseteq Nat
BY BoundsAssumption DEF Indices

\* addElemToList, and with it pushDLStack and addElemToList2.
LEMMA AddStep ==
  ASSUME Inv, NEW d \in Elems, NEW i \in Indices, addElemToList(d, i)
  PROVE  Inv' /\ Seqs!Next
<1>1. Returns("add", d, i, Nothing)
  BY DEF addElemToList
<1>2. exists /\ ~broken /\ i \in Nat
  BY <1>1, IndicesAreNat DEF Returns
<1>3. PICK c : TypeOK /\ Linked(c)
  BY <1>2, Whole
<1> DEFINE s == InsertAt(Contents, Seqs!InsertPos(Contents, i), d)
<1>4. Holds(s) \/ Undone
  BY <1>2, <1>3, AddDoes
<1>5. Seqs!InsertAt(Contents, Seqs!InsertPos(Contents, i), d) = s
  BY SeqsOps
<1> HIDE DEF s
<1>6. Inv'
  BY <1>1, <1>4, InvDone DEF Done
<1>7. CASE Holds(s)
  <2>1. Seqs!Add(d, i) /\ ~broken
    BY <1>1, <1>3, <1>5, <1>7, DoneChanges DEF Seqs!Add
  <2>2. i \in Seqs!Indices
    BY DEF Indices, Seqs!Indices
  <2> QED BY <1>6, <2>1, <2>2 DEF Seqs!Next
<1>8. CASE Undone
  BY <1>1, <1>3, <1>6, <1>8, DoneBreaks DEF Seqs!Next
<1> QED BY <1>4, <1>7, <1>8

\* addElemToListComp, and addElemToListComp2.
LEMMA AddCompStep ==
  ASSUME Inv, NEW d \in Elems, addElemToListComp(d)
  PROVE  Inv' /\ Seqs!Next
<1>1. Returns("addComp", d, Nothing, Nothing)
  BY DEF addElemToListComp
<1>2. exists /\ ~broken
  BY <1>1 DEF Returns
<1>3. PICK c : TypeOK /\ Linked(c)
  BY <1>2, Whole
<1> DEFINE s == InsertSorted(Order, Contents, d)
<1>4. Holds(s) \/ Undone
  BY <1>2, <1>3, AddCompDoes
<1>5. Seqs!InsertSorted(Seqs!Order, Contents, d) = s /\ Seqs!Nothing = Nothing
  BY SeqsOps DEF Order, Seqs!Nothing, Nothing
<1> HIDE DEF s
<1>6. Inv'
  BY <1>1, <1>4, InvDone DEF Done
<1>7. CASE Holds(s)
  <2>1. Seqs!AddComp(d) /\ ~broken
    BY <1>1, <1>3, <1>5, <1>7, DoneChanges DEF Seqs!AddComp
  <2> QED BY <1>6, <2>1 DEF Seqs!Next
<1>8. CASE Undone
  BY <1>1, <1>3, <1>6, <1>8, DoneBreaks DEF Seqs!Next
<1> QED BY <1>4, <1>7, <1>8

\* remElemFromList, and remElemFromList2.
LEMMA RemStep ==
  ASSUME Inv, NEW i \in Indices, remElemFromList(i)
  PROVE  Inv' /\ Seqs!Next
<1>1. Returns("rem", Nothing, i, Nothing)
  BY DEF remElemFromList
<1>2. exists /\ ~broken /\ i \in Nat
  BY <1>1, IndicesAreNat DEF Returns
<1>3. PICK c : TypeOK /\ Linked(c)
  BY <1>2, Whole
<1> DEFINE p == IF i < Len(Contents) THEN i + 1 ELSE Len(Contents)
           s == IF Contents = <<>> THEN Contents ELSE RemoveAt(Contents, p)
<1>4. Holds(s) \/ Undone
  BY <1>2, <1>3, RemDoes
<1>5. (IF Contents = <<>> THEN Contents ELSE Seqs!RemoveAt(Contents, p)) = s
      /\ Seqs!Nothing = Nothing
  BY SeqsOps DEF Seqs!Nothing, Nothing
<1> HIDE DEF s
<1>6. Inv'
  BY <1>1, <1>4, InvDone DEF Done
<1>7. CASE Holds(s)
  <2>1. Seqs!Rem(i) /\ ~broken
    BY <1>1, <1>3, <1>5, <1>7, DoneChanges DEF Seqs!Rem
  <2>2. i \in Seqs!Indices
    BY DEF Indices, Seqs!Indices
  <2> QED BY <1>6, <2>1, <2>2 DEF Seqs!Next
<1>8. CASE Undone
  BY <1>1, <1>3, <1>6, <1>8, DoneBreaks DEF Seqs!Next
<1> QED BY <1>4, <1>7, <1>8

\* Both removals by value, each on the kind of list it is for.
LEMMA RemCompStep ==
  ASSUME Inv, NEW d \in Elems,
         (~comp /\ remElemFromListComp(d)) \/ (comp /\ remElemFromListComp2(d))
  PROVE  Inv' /\ Seqs!Next
<1>1. Returns("remComp", d, Nothing, Nothing)
  BY DEF remElemFromListComp, remElemFromListComp2
<1>2. exists /\ ~broken
  BY <1>1 DEF Returns
<1>3. PICK c : TypeOK /\ Linked(c)
  BY <1>2, Whole
<1> DEFINE s == Seqs!Without(Contents, d)
<1>4. Holds(s) \/ Undone
  BY <1>2, <1>3, RemCompDoes, RemComp2Does
<1>5. Seqs!Nothing = Nothing
  BY DEF Seqs!Nothing, Nothing
<1>6. Inv'
  <2> HIDE DEF s
  <2> QED BY <1>1, <1>4, InvDone DEF Done
<1>7. CASE Holds(s)
  <2>1. Seqs!RemComp(d) /\ ~broken
    BY <1>1, <1>3, <1>5, <1>7, DoneChanges DEF Seqs!RemComp
  <2> QED BY <1>6, <2>1 DEF Seqs!Next
<1>8. CASE Undone
  BY <1>1, <1>3, <1>6, <1>8, DoneBreaks DEF Seqs!Next
<1> QED BY <1>4, <1>7, <1>8

\* getElemAtIndex, and getElemAtIndexComp.
LEMMA GetStep ==
  ASSUME Inv, NEW i \in Indices, getElemAtIndex(i)
  PROVE  Inv' /\ Seqs!Next
<1>1. Returns("get", Nothing, i, ret')
  BY DEF getElemAtIndex, Returns
<1>2. exists /\ ~broken /\ i \in Nat
  BY <1>1, IndicesAreNat DEF Returns
<1>3. PICK c : TypeOK /\ Linked(c)
  BY <1>2, Whole
<1> DEFINE p == IF i < Len(Contents) THEN i + 1 ELSE Len(Contents)
           r == IF Contents = <<>> THEN Nothing ELSE Contents[p]
<1>4. (Holds(Contents) /\ ret' = r) \/ (Undone /\ ret' = Nothing)
  BY <1>2, <1>3, GetDoes
<1>5. r \in Elems \cup {Nothing}
  <2>1. /\ Contents \in Seq(Elems) /\ Len(Contents) = Size /\ Size \in Nat
        /\ (Contents = <<>> <=> Size = 0)
    BY <1>3, LookedAt
  <2>2. Contents # <<>> => p \in 1..Len(Contents)
    BY <1>2, <2>1
  <2> HIDE DEF p
  <2>3. Contents # <<>> => Contents[p] \in Elems
    BY <2>1, <2>2, ElementOfSeq
  <2> QED BY <2>3
<1>6. CASE Holds(Contents) /\ ret' = r
  <2>1. Returns("get", Nothing, i, r)
    BY <1>1, <1>6
  <2>2. r = (IF Contents = <<>> THEN Seqs!Nothing ELSE Contents[p]) /\ Seqs!Nothing = Nothing
    BY DEF Seqs!Nothing, Nothing
  <2>3. i \in Seqs!Indices
    BY DEF Indices, Seqs!Indices
  <2> HIDE DEF r
  <2>4. Inv'
    BY <1>5, <1>6, <2>1, InvDone DEF Done
  <2>5. Seqs!Call("get", Nothing, i) /\ Seqs!Look(r) /\ ~broken
    BY <1>3, <1>6, <2>1, DoneLooks
  <2>6. Seqs!Get(i)
    BY <2>2, <2>5 DEF Seqs!Get
  <2> QED BY <2>3, <2>4, <2>5, <2>6 DEF Seqs!Next
<1>7. CASE Undone /\ ret' = Nothing
  <2>1. Returns("get", Nothing, i, Nothing)
    BY <1>1, <1>7
  <2>2. Inv'
    BY <1>7, <2>1, InvDone DEF Done
  <2> QED BY <1>3, <1>7, <2>1, <2>2, DoneBreaks DEF Seqs!Next
<1> QED BY <1>4, <1>6, <1>7

\* findElemListComp, and findElemListCompComp.
LEMMA FindStep ==
  ASSUME Inv, NEW d \in Elems, findElemListComp(d)
  PROVE  Inv' /\ Seqs!Next
<1>1. Returns("find", d, Nothing, ret')
  BY DEF findElemListComp, Returns
<1>2. exists /\ ~broken
  BY <1>1 DEF Returns
<1>3. PICK c : TypeOK /\ Linked(c)
  BY <1>2, Whole
<1> DEFINE A == AtMost(Order, Contents, d)
           q == FoundPos(Order, Contents, d)
           r == IF A = {} THEN Nothing ELSE Contents[q]
<1>4. Holds(Contents) /\ ret' = r
  BY <1>2, <1>3, FindDoes
<1>5. r \in Elems \cup {Nothing}
  <2>1. Contents \in Seq(Elems) /\ Len(Contents) = Size
    BY <1>3, LookedAt
  <2>2. A # {} => q \in 1..Len(Contents)
    BY <1>3, <2>1, NodeFound
  <2> HIDE DEF A, q
  <2>3. A # {} => Contents[q] \in Elems
    BY <2>1, <2>2, ElementOfSeq
  <2> QED BY <2>3
<1>6. r = (IF Seqs!AtMost(Seqs!Order, Contents, d) = {} THEN Seqs!Nothing
           ELSE Contents[Seqs!FoundPos(Seqs!Order, Contents, d)]) /\ Seqs!Nothing = Nothing
  BY SeqsOps DEF Order, Seqs!Nothing, Nothing
<1> HIDE DEF r
<1>7. Returns("find", d, Nothing, r)
  BY <1>1, <1>4
<1>8. Inv'
  BY <1>4, <1>5, <1>7, InvDone DEF Done
<1>9. Seqs!Call("find", d, Nothing) /\ Seqs!Look(r) /\ ~broken
  BY <1>3, <1>4, <1>7, DoneLooks
<1>10. Seqs!Find(d)
  BY <1>6, <1>9 DEF Seqs!Find
<1> QED BY <1>8, <1>9, <1>10 DEF Seqs!Next

\* A stack or a queue is never made of an array, so it is never fragile.
LEMMA PopStep ==
  ASSUME Inv, ~comp, made = 0, popDLStack
  PROVE  Inv' /\ Seqs!Next
<1>1. Returns("pop", Nothing, Nothing, ret')
  BY DEF popDLStack, Returns
<1>2. exists /\ ~broken /\ ~Fragile
  BY <1>1 DEF Returns, Inv
<1>3. PICK c : TypeOK /\ Linked(c)
  BY <1>2, Whole
<1>4. \/ Contents = <<>> /\ ret' = Nothing /\ Holds(Contents)
      \/ Contents # <<>> /\ ret' = Head(Contents) /\ Holds(Tail(Contents))
  BY <1>2, <1>3, PopDoes
<1>5. PICK s : Holds(s)
  BY <1>4
<1>6. ret' \in Elems \cup {Nothing}
  <2>1. Contents \in Seq(Elems)
    BY <1>3, LookedAt
  <2> QED BY <1>4, <2>1, HeadTailProperties
<1>7. Inv'
  <2>1. Done("pop", Nothing, Nothing, ret', s)
    BY <1>1, <1>5 DEF Done
  <2> QED BY <1>6, <2>1, InvDone
<1>8. /\ exists = TRUE /\ exists' = exists /\ comp' = comp /\ broken' = broken
      /\ call' = [op |-> "pop", data |-> Nothing, index |-> Nothing] /\ Fragile' = Fragile
  BY <1>1, <1>2, <1>3, <1>5 DEF Returns, TypeOK, Holds, Fragile
<1>9. \/ Contents = <<>> /\ ret' = Nothing /\ Contents' = Contents
      \/ Contents # <<>> /\ ret' = Head(Contents) /\ Contents' = Tail(Contents)
  BY <1>4 DEF Holds
<1>10. Seqs!Nothing = Nothing
  BY DEF Seqs!Nothing, Nothing
<1>11. Seqs!Pop
  BY <1>2, <1>8, <1>9, <1>10 DEF Seqs!Pop, Seqs!Call
<1> QED BY <1>2, <1>7, <1>11 DEF Seqs!Next

\* An element is enqueued behind the last: by an index that the bound on them covers.
LEMMA EnqueueStep ==
  ASSUME Inv, NEW d \in Elems, enqueueDLQueue(d)
  PROVE  Inv' /\ Seqs!Next
<1>1. exists /\ ~broken /\ addElemToList(d, list.currSize)
  BY DEF enqueueDLQueue, addElemToList, Returns
<1>2. PICK c : TypeOK /\ Linked(c)
  BY <1>1, Whole
<1>3. PICK n \in Nodes : n \notin live
  BY <1>1 DEF addElemToList, Allocated
<1>4. /\ Size \in Nat /\ live \subseteq Nodes /\ Cardinality(live) = Size
      /\ Cardinality(Nodes) \in Nat
  BY <1>2, Sizes DEF Linked
<1>5. Cardinality(live) <= Cardinality(Nodes) /\ Cardinality(live) # Cardinality(Nodes)
  BY <1>3, <1>4, BoundsAssumption, FS_Subset
<1>6. list.currSize \in Indices
  BY <1>4, <1>5, BoundsAssumption DEF Indices, Size
<1> QED BY <1>1, <1>6, AddStep

\* destroyDList, and destroyDListComp.
LEMMA DestroyStep ==
  ASSUME Inv, destroyDList
  PROVE  Inv' /\ Seqs!Next
<1>1. /\ exists = TRUE /\ ~broken /\ exists' = FALSE /\ made' = 0 /\ comp' = FALSE
      /\ call' = [op |-> "destroy", data |-> Nothing, index |-> Nothing] /\ ret' = Nothing
  BY DEF destroyDList, Inv, TypeOK
<1>2. PICK c : TypeOK /\ Linked(c)
  BY <1>1, Whole
<1>3. /\ live' = {} /\ list' = NoList /\ Shape' /\ broken' = broken
      /\ Contents' = <<>> /\ ~Fragile'
  BY <1>1, <1>2, DestroyDoes
<1>4. Inv'
  <2>1. 0 \in 0..Cardinality(Nodes)
    BY BoundsAssumption, FS_CardinalityType
  <2>2. TypeOK'
    BY <1>1, <1>2, <1>3, <2>1 DEF TypeOK, Shape
  <2> QED BY <1>1, <1>3, <2>2 DEF Inv
<1>5. Seqs!Destroy
  <2>1. Fragile' = FALSE
    BY <1>3 DEF Fragile
  <2> QED BY <1>1, <1>3, <2>1 DEF Seqs!Destroy, Seqs!Call, Seqs!Nothing, Nothing
<1> QED BY <1>1, <1>4, <1>5 DEF Seqs!Next

\* initDList and initDListComp.
LEMMA NewStep ==
  ASSUME Inv, NewList, comp' \in BOOLEAN
  PROVE  Inv' /\ Seqs!Next
<1>1. /\ ~exists /\ ~broken /\ exists' = TRUE /\ made' = 0 /\ broken' = broken
      /\ call' = [op |-> "init", data |-> Nothing, index |-> Nothing] /\ ret' = Nothing
  BY DEF NewList
<1>2. TypeOK /\ live = {}
  BY <1>1 DEF Inv
<1>3. Shape' /\ Contents' = <<>> /\ ~Fragile' /\ \E c : Linked(c)'
  BY <1>2, NewDoes
<1>4. Inv'
  <2>1. 0 \in 0..Cardinality(Nodes)
    BY BoundsAssumption, FS_CardinalityType
  <2>2. TypeOK'
    BY <1>1, <1>2, <1>3, <2>1 DEF TypeOK, Shape
  <2> QED BY <1>1, <1>3, <2>2 DEF Inv
<1>5. Seqs!Create
  <2>1. Fragile' = FALSE
    BY <1>3 DEF Fragile
  <2> QED BY <1>1, <1>3, <2>1 DEF Seqs!Create, Seqs!Call, Seqs!Nothing, Nothing
<1> QED BY <1>1, <1>4, <1>5 DEF Seqs!Next

\* makeIntList and makeIntListComp.
LEMMA MakeStep ==
  ASSUME Inv, NEW a \in Arrays, ListOf(a[1], a[2]), comp' \in BOOLEAN
  PROVE  Inv' /\ Seqs!Next
<1>1. /\ ~exists /\ ~broken /\ exists' = TRUE /\ broken' = broken
      /\ call' = [op |-> "make", data |-> Nothing, index |-> Nothing] /\ ret' = Nothing
  BY DEF ListOf
<1>2. TypeOK /\ live = {}
  BY <1>1 DEF Inv
<1>3. PICK k \in 1..MaxArray :
        a[1] \in [1..k -> Elems] /\ a[2] \in [1..k -> Nodes] /\ IsInjective(a[2])
  BY DEF Arrays
<1>4. k \in Nat \ {0}
  BY BoundsAssumption
<1>5. /\ Shape' /\ Contents' = a[1] /\ (Fragile' <=> k = 1) /\ \E c : Linked(c)'
      /\ made' = k /\ made' \in 0..Cardinality(Nodes)
  BY <1>2, <1>3, <1>4, MakeDoes
<1>6. Inv'
  <2>1. TypeOK'
    BY <1>1, <1>2, <1>5 DEF TypeOK, Shape
  <2> QED BY <1>1, <1>4, <1>5, <2>1 DEF Inv
<1>7. Seqs!Create
  <2>1. Contents' \in Seq(Elems) /\ Len(Contents') = k
    BY <1>3, <1>4, <1>5
  <2>2. Contents' # <<>>
    BY <1>4, <2>1, EmptySeq
  <2>3. Fragile' = (Len(Contents') = 1)
    BY <1>5, <2>1 DEF Fragile
  <2> QED BY <1>1, <2>1, <2>2, <2>3 DEF Seqs!Create, Seqs!Call, Seqs!Nothing, Nothing
<1> QED BY <1>1, <1>6, <1>7 DEF Seqs!Next

\* Chain as a function of what it is read from: the same pointers give the same chain.
ChainOf(head, f, alive, size) ==
  LET walk[k \in 1..size] ==
        IF k = 1 THEN head ELSE IF walk[k-1] \in alive THEN f[walk[k-1]] ELSE Wild
  IN walk

\* Chain reads nothing else.
LEMMA ChainIsRead == Chain = ChainOf(list.head, next, live, list.currSize)
BY DEF Chain, ChainOf, Follow

\* No step, or none after undefined behaviour, is none of the sequence.
LEMMA StutterStep ==
  ASSUME Inv, UNCHANGED vars
  PROVE  Inv' /\ UNCHANGED Seqs!vars
<1>1. /\ live' = live /\ mem' = mem /\ next' = next /\ prev' = prev /\ list' = list
      /\ comp' = comp /\ exists' = exists /\ made' = made /\ call' = call /\ ret' = ret
      /\ broken' = broken
  BY DEF vars
<1>2. Chain' = Chain
  <2>1. (Chain = ChainOf(list.head, next, live, list.currSize))'
    BY ChainIsRead, PTL
  <2> QED BY <1>1, <2>1, ChainIsRead
<1>3. Contents' = Contents
  BY <1>1, <1>2 DEF Contents
<1>4. Fragile' = Fragile
  BY <1>1 DEF Fragile
<1>5. TypeOK'
  BY <1>1 DEF TypeOK, Inv, Pointers
<1>6. \A c : Linked(c) => Linked(c)'
  BY <1>1 DEF Linked, Runs, Size
<1> QED BY <1>1, <1>3, <1>4, <1>5, <1>6 DEF Inv, Seqs!vars

\* Every step of the lists keeps the invariant and is a step of SequenceList.
LEMMA NextStep ==
  ASSUME Inv, [Next]_vars
  PROVE  Inv' /\ [Seqs!Next]_(Seqs!vars)
<1>1. CASE initDList \/ initDListComp
  <2>1. NewList /\ comp' \in BOOLEAN
    BY <1>1 DEF initDList, initDListComp
  <2> QED BY <2>1, NewStep
<1>2. CASE \E a \in Arrays : makeIntList(a[1], a[2]) \/ makeIntListComp(a[1], a[2])
  <2>1. PICK a \in Arrays : ListOf(a[1], a[2]) /\ comp' \in BOOLEAN
    BY <1>2 DEF makeIntList, makeIntListComp
  <2> QED BY <2>1, MakeStep
<1>3. CASE ~comp /\ PlainCalls
  <2>1. CASE destroyDList
    BY <2>1, DestroyStep
  <2>2. ASSUME NEW d \in Elems, addElemToListComp(d) PROVE Inv' /\ Seqs!Next
    BY <2>2, AddCompStep
  <2>3. ASSUME NEW d \in Elems, remElemFromListComp(d) PROVE Inv' /\ Seqs!Next
    BY <1>3, <2>3, RemCompStep
  <2>4. ASSUME NEW d \in Elems, findElemListComp(d) PROVE Inv' /\ Seqs!Next
    BY <2>4, FindStep
  <2>5. ASSUME NEW i \in Indices, remElemFromList(i) PROVE Inv' /\ Seqs!Next
    BY <2>5, RemStep
  <2>6. ASSUME NEW i \in Indices, getElemAtIndex(i) PROVE Inv' /\ Seqs!Next
    BY <2>6, GetStep
  <2>7. ASSUME NEW d \in Elems, NEW i \in Indices, addElemToList(d, i) PROVE Inv' /\ Seqs!Next
    BY <2>7, AddStep
  <2> QED BY <1>3, <2>1, <2>2, <2>3, <2>4, <2>5, <2>6, <2>7 DEF PlainCalls
<1>4. CASE comp /\ CompCalls
  <2>1. CASE destroyDListComp
    BY <2>1, DestroyStep DEF destroyDListComp
  <2>2. ASSUME NEW d \in Elems, addElemToListComp2(d) PROVE Inv' /\ Seqs!Next
    BY <2>2, AddCompStep DEF addElemToListComp2
  <2>3. ASSUME NEW d \in Elems, remElemFromListComp2(d) PROVE Inv' /\ Seqs!Next
    BY <1>4, <2>3, RemCompStep
  <2>4. ASSUME NEW d \in Elems, findElemListCompComp(d) PROVE Inv' /\ Seqs!Next
    BY <2>4, FindStep DEF findElemListCompComp
  <2>5. ASSUME NEW i \in Indices, remElemFromList2(i) PROVE Inv' /\ Seqs!Next
    BY <2>5, RemStep DEF remElemFromList2
  <2>6. ASSUME NEW i \in Indices, getElemAtIndexComp(i) PROVE Inv' /\ Seqs!Next
    BY <2>6, GetStep DEF getElemAtIndexComp
  <2>7. ASSUME NEW d \in Elems, NEW i \in Indices, addElemToList2(d, i) PROVE Inv' /\ Seqs!Next
    BY <2>7, AddStep DEF addElemToList2
  <2> QED BY <1>4, <2>1, <2>2, <2>3, <2>4, <2>5, <2>6, <2>7 DEF CompCalls
<1>5. CASE ~comp /\ made = 0 /\ StackAndQueueCalls
  <2>1. CASE popDLStack
    BY <1>5, <2>1, PopStep
  <2>2. ASSUME NEW d \in Elems, pushDLStack(d) PROVE Inv' /\ Seqs!Next
    <3>1. 0 \in Indices
      BY BoundsAssumption DEF Indices
    <3> QED BY <2>2, <3>1, AddStep DEF pushDLStack
  <2>3. ASSUME NEW d \in Elems, enqueueDLQueue(d) PROVE Inv' /\ Seqs!Next
    BY <2>3, EnqueueStep
  <2> QED BY <1>5, <2>1, <2>2, <2>3 DEF StackAndQueueCalls
<1>6. CASE Stopped \/ UNCHANGED vars
  BY <1>6, StutterStep DEF Stopped
<1> QED BY <1>1, <1>2, <1>3, <1>4, <1>5, <1>6 DEF Next

\* Both begin without a list.
LEMMA InitStep == Init => Inv /\ Seqs!Init
<1> SUFFICES ASSUME Init PROVE Inv /\ Seqs!Init
  OBVIOUS
<1>1. TypeOK
  <2>1. 0 \in 0..Cardinality(Nodes)
    BY BoundsAssumption, FS_CardinalityType
  <2>2. /\ list \in [head : Pointers, trail : Pointers, currSize : 0..Cardinality(Nodes)]
        /\ made \in 0..Cardinality(Nodes)
    BY <2>1 DEF Init, NoList, Pointers
  <2>3. /\ live \subseteq Nodes /\ mem \in [Nodes -> Elems \cup {Nothing}]
        /\ next \in [Nodes -> Pointers] /\ prev \in [Nodes -> Pointers]
    BY DEF Init, Pointers
  <2> QED BY <2>2, <2>3 DEF Init, TypeOK
<1>2. Contents = <<>>
  BY NoContents DEF Init, NoList
<1>3. Fragile = FALSE
  BY DEF Init, Fragile
<1> QED BY <1>1, <1>2, <1>3 DEF Init, Inv, Seqs!Init, Seqs!Nothing, Nothing

-----------------------------------------------------------------------------
(* The theorems. *)

\* The invariant holds throughout.
LEMMA Invariance == Spec => []Inv
<1>1. Inv /\ [Next]_vars => Inv'
  BY NextStep
<1> QED BY InitStep, <1>1, PTL DEF Spec

\* Every pointer the lists hold is a node, NULL or what was never written, and the size
\* stays within the heap, through every call of doublelist.c, doublelistcomp.c,
\* stackList.c and queueList.c.
THEOREM TypeCorrect == Spec => []TypeOK
<1>1. Inv => TypeOK
  BY DEF Inv
<1> QED BY Invariance, <1>1, PTL

\* For any heap, elements and comparator: as long as no access was undefined, the links
\* lead from head to trail through every allocated node and back, currSize counts them,
\* nothing leaks and nothing is freed twice.
THEOREM LinksStayWhole == Spec => []WellLinked
<1>1. Inv => WellLinked
  <2> SUFFICES ASSUME Inv, exists, ~broken PROVE WellLinked
    BY DEF Inv, WellLinked
  <2>1. PICK c : TypeOK /\ Linked(c)
    BY Whole
  <2>2. Chain = c
    BY <2>1, ChainIs DEF Linked
  <2>3. /\ Size = list.currSize /\ Size \in Nat /\ c \in [1..Size -> live]
        /\ \A x \in live : \E k \in 1..Size : c[k] = x
    BY <2>1, Ends
  <2>4. live = ToSet(c)
    BY <2>3 DEF ToSet
  <2>5. Fragile <=> Size > 0 /\ list.trail = Wild
    BY <2>1, FragileIs
  <2>6. /\ Cardinality(live) = Size
        /\ \A k \in 1..Size : prev[c[k]] = IF k = 1 THEN Null ELSE c[k-1]
        /\ Size = 0 => list.head = Null
        /\ Size > 0 => next[c[Size]] = Null /\ (list.trail = c[Size] \/ Fragile)
    <3> HIDE DEF Size
    <3> QED BY <2>1, <2>5 DEF Linked
  <2> QED BY <2>2, <2>4, <2>6 DEF WellLinked, Size
<1> QED BY Invariance, <1>1, PTL

\* Pointer by pointer, every call does to the list what SequenceList says it does to the
\* sequence of its elements, returns what SequenceList says, and only a list made of a
\* one-element array ever has undefined behaviour.
THEOREM ListsAreSequences == Spec => ImplementsSequence
<1>1. Inv /\ [Next]_vars => [Seqs!Next]_(Seqs!vars)
  BY NextStep
<1> QED BY Invariance, InitStep, <1>1, PTL DEF Spec, ImplementsSequence, Seqs!Spec

=============================================================================
