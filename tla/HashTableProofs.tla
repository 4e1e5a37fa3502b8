--------------------------- MODULE HashTableProofs ---------------------------
(***************************************************************************)
(* The hash table for any elements, comparator, hash function and first    *)
(* size: what is stored is found, the count lags by the removals that      *)
(* missed, growing nests once at most, and the table is a bag.  First what *)
(* the searching functions of the lists do for every list, every order and *)
(* every value: it is the buckets' part in this.                           *)
(***************************************************************************)
EXTENDS HashTable, WellFoundedInduction, SequenceTheorems, FiniteSetTheorems, FunctionTheorems, TLAPS

\* A set of positions that is not empty has a first one.
LEMMA FirstPosition ==
  ASSUME NEW T, T \subseteq Nat, T # {}
  PROVE  \E k \in T : \A j \in T : k <= j
<1>1. PICK k \in T : \A j \in T : ~ (<<j, k>> \in OpToRel(<, Nat))
  BY NatLessThanWellFounded, WFMin
<1>2. ASSUME NEW j \in T, j < k
      PROVE  <<j, k>> \in OpToRel(<, Nat)
  <2>1. <<j, k>> \in Nat \X Nat /\ <<j, k>>[1] = j /\ <<j, k>>[2] = k
    OBVIOUS
  <2> QED BY <1>2, <2>1, Zenon DEF OpToRel
<1>3. \A j \in T : ~(j < k)
  BY <1>1, <1>2, Zenon
<1> QED BY <1>3

\* findNode (doublelist.c:80) stops at the first element not greater than d, when there
\* is one.
THEOREM FoundIsFirst ==
  ASSUME NEW key, NEW s, NEW d, AtMost(key, s, d) # {}, Len(s) \in Nat
  PROVE  /\ FoundPos(key, s, d) \in AtMost(key, s, d)
         /\ \A j \in AtMost(key, s, d) : FoundPos(key, s, d) <= j
<1>1. AtMost(key, s, d) \subseteq Nat
  BY DEF AtMost
<1>2. \E k \in AtMost(key, s, d) : \A j \in AtMost(key, s, d) : k <= j
  BY <1>1, FirstPosition
<1> QED BY <1>2 DEF FoundPos

\* A look-up for a value that the list holds (findElemListComp, doublelist.c:107, and
\* with it getHTElemComp, hashtablecomp.c:158) stops at one that compares equal to it.
THEOREM PresentIsFound ==
  ASSUME NEW E, NEW key \in [E -> Nat], NEW s \in Seq(E), Descending(key, s),
         NEW k \in 1..Len(s)
  PROVE  /\ AtMost(key, s, s[k]) # {}
         /\ key[s[FoundPos(key, s, s[k])]] = key[s[k]]
<1>1. \A j \in 1..Len(s) : s[j] \in E /\ key[s[j]] \in Nat
  BY ElementOfSeq
<1>2. k \in AtMost(key, s, s[k])
  BY <1>1 DEF AtMost
<1>3. /\ FoundPos(key, s, s[k]) \in AtMost(key, s, s[k])
      /\ FoundPos(key, s, s[k]) <= k
  BY <1>2, FoundIsFirst
<1> DEFINE p == FoundPos(key, s, s[k])
<1>4. p \in 1..Len(s) /\ key[s[p]] <= key[s[k]]
  BY <1>3 DEF AtMost
<1>5. key[s[p]] >= key[s[k]]
  BY <1>1, <1>3, <1>4 DEF Descending
<1> QED BY <1>1, <1>2, <1>4, <1>5

-----------------------------------------------------------------------------

\* An element put in shifts those behind it.
LEMMA InsertedAt ==
  ASSUME NEW E, NEW s \in Seq(E), NEW d \in E, NEW p \in 1..Len(s)+1
  PROVE  /\ InsertAt(s, p, d) \in Seq(E)
         /\ Len(InsertAt(s, p, d)) = Len(s) + 1
         /\ \A j \in 1..Len(s)+1 :
              InsertAt(s, p, d)[j] = IF j < p THEN s[j] ELSE IF j = p THEN d ELSE s[j-1]
<1> DEFINE a == SubSeq(s, 1, p-1)  b == SubSeq(s, p, Len(s))
<1>0. \A i \in 1..Len(s) : s[i] \in E
  BY ElementOfSeq
<1>1. a \in Seq(E) /\ Len(a) = p-1 /\ \A i \in 1..p-1 : a[i] = s[i]
  BY <1>0, SubSeqProperties
<1>2. b \in Seq(E) /\ Len(b) = Len(s) - p + 1 /\ \A i \in 1..Len(s)-p+1 : b[i] = s[p+i-1]
  BY <1>0, SubSeqProperties
<1>3. <<d>> \in Seq(E) /\ Len(<<d>>) = 1 /\ <<d>>[1] = d
  OBVIOUS
<1> HIDE DEF a, b
<1>4. /\ a \o <<d>> \in Seq(E) /\ Len(a \o <<d>>) = p
      /\ \A j \in 1..p : (a \o <<d>>)[j] = IF j < p THEN s[j] ELSE d
  BY <1>1, <1>3, ConcatProperties
<1>5. /\ (a \o <<d>>) \o b \in Seq(E) /\ Len((a \o <<d>>) \o b) = Len(s) + 1
      /\ \A j \in 1..Len(s)+1 :
           ((a \o <<d>>) \o b)[j] = IF j <= p THEN (a \o <<d>>)[j] ELSE b[j-p]
  <2> DEFINE c == a \o <<d>>
  <2>0. c \in Seq(E) /\ Len(c) = p
    BY <1>4
  <2> HIDE DEF c
  <2>1. c \in Seq(E) /\ Len(c) = p /\ Len(s) \in Nat /\ Len(c) + Len(b) = Len(s) + 1
    BY <1>2, <2>0
  <2>2. /\ c \o b \in Seq(E) /\ Len(c \o b) = Len(c) + Len(b)
        /\ \A j \in 1..Len(c)+Len(b) :
             (c \o b)[j] = IF j <= Len(c) THEN c[j] ELSE b[j-Len(c)]
    BY <1>2, <2>1, ConcatProperties, Zenon
  <2> QED BY <2>1, <2>2 DEF c
<1>6. \A j \in 1..Len(s)+1 : j > p => b[j-p] = s[j-1]
  BY <1>2
<1>7. InsertAt(s, p, d) = (a \o <<d>>) \o b
  BY DEF InsertAt, a, b
<1> QED BY <1>4, <1>5, <1>6, <1>7

\* An element taken out lets them close up.
LEMMA RemovedAt ==
  ASSUME NEW E, NEW s \in Seq(E), NEW p \in 1..Len(s)
  PROVE  /\ RemoveAt(s, p) \in Seq(E)
         /\ Len(RemoveAt(s, p)) = Len(s) - 1
         /\ \A j \in 1..Len(s)-1 : RemoveAt(s, p)[j] = IF j < p THEN s[j] ELSE s[j+1]
<1> DEFINE a == SubSeq(s, 1, p-1)  b == SubSeq(s, p+1, Len(s))
<1>0. \A i \in 1..Len(s) : s[i] \in E
  BY ElementOfSeq
<1>1. a \in Seq(E) /\ Len(a) = p-1 /\ \A i \in 1..p-1 : a[i] = s[i]
  BY <1>0, SubSeqProperties
<1>2. b \in Seq(E) /\ Len(b) = Len(s) - p /\ \A i \in 1..Len(s)-p : b[i] = s[p+i]
  BY <1>0, SubSeqProperties
<1> HIDE DEF a, b
<1>3. /\ a \o b \in Seq(E) /\ Len(a \o b) = Len(s) - 1
      /\ \A j \in 1..Len(s)-1 : (a \o b)[j] = IF j < p THEN a[j] ELSE b[j-(p-1)]
  <2>1. Len(s) \in Nat /\ Len(a) + Len(b) = Len(s) - 1
    BY <1>1, <1>2
  <2>2. /\ a \o b \in Seq(E) /\ Len(a \o b) = Len(a) + Len(b)
        /\ \A j \in 1..Len(a)+Len(b) :
             (a \o b)[j] = IF j <= Len(a) THEN a[j] ELSE b[j-Len(a)]
    BY <1>1, <1>2, ConcatProperties, Zenon
  <2> QED BY <1>1, <2>1, <2>2
<1>4. \A j \in 1..Len(s)-1 : j >= p => b[j-(p-1)] = s[j+1]
  BY <1>2
<1>5. RemoveAt(s, p) = a \o b
  BY DEF RemoveAt, a, b
<1>6. \A j \in 1..Len(s)-1 : (a \o b)[j] = IF j < p THEN s[j] ELSE s[j+1]
  <2> TAKE j \in 1..Len(s)-1
  <2>1. CASE j < p
    <3>1. j \in 1..p-1
      BY <2>1
    <3> QED BY <1>1, <1>3, <2>1, <3>1
  <2>2. CASE ~(j < p)
    <3>1. j >= p
      BY <2>2
    <3>2. (a \o b)[j] = b[j-(p-1)]
      BY <1>3, <2>2, Zenon
    <3>3. b[j-(p-1)] = s[j+1]
      BY <1>4, <3>1, Zenon
    <3> QED BY <2>2, <3>2, <3>3
  <2> QED BY <2>1, <2>2
<1> HIDE DEF a, b
<1> QED BY <1>3, <1>5, <1>6, Zenon

-----------------------------------------------------------------------------

\* A sorted insertion (addElemToListComp, doublelist.c:421) keeps a descending list
\* descending and one element longer.
THEOREM InsertionKeepsOrder ==
  ASSUME NEW E, NEW key \in [E -> Nat], NEW s \in Seq(E), NEW d \in E, Descending(key, s)
  PROVE  /\ InsertSorted(key, s, d) \in Seq(E)
         /\ Len(InsertSorted(key, s, d)) = Len(s) + 1
         /\ Descending(key, InsertSorted(key, s, d))
<1> DEFINE p == SortedPos(key, s, d)  t == InsertAt(s, p, d)
<1>1. key[d] \in Nat /\ \A j \in 1..Len(s) : s[j] \in E /\ key[s[j]] \in Nat
  BY ElementOfSeq
<1>2. /\ p \in 1..Len(s)+1
      /\ \A j \in 1..Len(s) : j < p => key[s[j]] > key[d]
      /\ p <= Len(s) => key[s[p]] <= key[d]
  <2>1. CASE AtMost(key, s, d) = {}
    BY <1>1, <2>1 DEF SortedPos, AtMost
  <2>2. CASE AtMost(key, s, d) # {}
    <3>1. p = FoundPos(key, s, d)
      BY <2>2 DEF SortedPos
    <3>2. p \in AtMost(key, s, d) /\ \A j \in AtMost(key, s, d) : p <= j
      BY <2>2, <3>1, FoundIsFirst
    <3> QED BY <1>1, <3>2 DEF AtMost
  <2> QED BY <2>1, <2>2
<1>3. \A j \in 1..Len(s) : j >= p => key[s[j]] <= key[d]
  BY <1>1, <1>2 DEF Descending
<1>5. InsertSorted(key, s, d) = t
  BY DEF InsertSorted
<1> HIDE DEF p
<1>4. /\ t \in Seq(E) /\ Len(t) = Len(s) + 1 /\ Len(s) \in Nat
      /\ \A j \in 1..Len(s)+1 : t[j] = IF j < p THEN s[j] ELSE IF j = p THEN d ELSE s[j-1]
  BY <1>2, InsertedAt
<1> HIDE DEF t
<1>6. ASSUME NEW j \in 1..Len(t), NEW k \in 1..Len(t), j < k
      PROVE  key[t[j]] >= key[t[k]]
  <2> DEFINE down(i) == IF i < p THEN i ELSE i-1
  <2>1. j \in 1..Len(s)+1 /\ k \in 1..Len(s)+1
    BY <1>4
  <2>2. CASE j = p
    <3>1. t[j] = d /\ t[k] = s[k-1] /\ k-1 \in 1..Len(s) /\ k-1 >= p
      BY <1>2, <1>4, <1>6, <2>1, <2>2
    <3> QED BY <1>1, <1>3, <3>1
  <2>3. CASE k = p
    <3>1. t[k] = d /\ t[j] = s[j] /\ j \in 1..Len(s) /\ j < p
      BY <1>2, <1>4, <1>6, <2>1, <2>3
    <3> QED BY <1>1, <1>2, <3>1
  <2>4. CASE j # p /\ k # p
    <3>1. t[j] = s[down(j)] /\ t[k] = s[down(k)]
      BY <1>2, <1>4, <2>1, <2>4
    <3>2. p \in Int /\ 1 <= p /\ p <= Len(s) + 1 /\ Len(s) \in Nat
      BY <1>2, <1>4
    <3>3. j < k /\ j \in Int /\ k \in Int /\ 1 <= j /\ k <= Len(s) + 1
      BY <1>6, <2>1, <3>2
    <3>4. down(j) \in 1..Len(s) /\ down(k) \in 1..Len(s) /\ down(j) < down(k)
      BY <2>4, <3>2, <3>3
    <3> HIDE DEF down
    <3> QED BY <3>1, <3>4 DEF Descending
  <2> QED BY <2>2, <2>3, <2>4
<1> QED BY <1>4, <1>5, <1>6 DEF Descending

\* A removal by value (remElemFromListComp2, doublelistcomp.c:349) keeps a descending
\* list descending; and of a value the list holds it takes an element that compares
\* equal, so that one fewer is left.
THEOREM RemovalKeepsOrder ==
  ASSUME NEW E, NEW key \in [E -> Nat], NEW s \in Seq(E), NEW d \in E, Descending(key, s)
  PROVE  /\ RemoveFound(key, s, d) \in Seq(E)
         /\ Descending(key, RemoveFound(key, s, d))
         /\ (\E k \in 1..Len(s) : s[k] = d) =>
              \E p \in 1..Len(s) : key[s[p]] = key[d] /\ RemoveFound(key, s, d) = RemoveAt(s, p)
<1>1. \A j \in 1..Len(s) : s[j] \in E /\ key[s[j]] \in Nat
  BY ElementOfSeq
<1>2. CASE AtMost(key, s, d) = {}
  <2>1. RemoveFound(key, s, d) = s
    BY <1>2 DEF RemoveFound
  <2>2. ~ \E k \in 1..Len(s) : s[k] = d
    BY <1>1, <1>2 DEF AtMost
  <2> QED BY <2>1, <2>2
<1>3. CASE AtMost(key, s, d) # {}
  <2> DEFINE p == FoundPos(key, s, d)  t == RemoveAt(s, p)
  <2>1. p \in 1..Len(s)
    BY <1>3, FoundIsFirst DEF AtMost
  <2>2. RemoveFound(key, s, d) = t
    BY <1>3 DEF RemoveFound
  <2>3. /\ t \in Seq(E) /\ Len(t) = Len(s) - 1
        /\ \A j \in 1..Len(s)-1 : t[j] = IF j < p THEN s[j] ELSE s[j+1]
    BY <2>1, RemovedAt
  <2>4. (\E k \in 1..Len(s) : s[k] = d) => key[s[p]] = key[d]
    BY PresentIsFound
  <2> HIDE DEF p, t
  <2>5. ASSUME NEW j \in 1..Len(t), NEW k \in 1..Len(t), j < k
        PROVE  key[t[j]] >= key[t[k]]
    <3> DEFINE up(i) == IF i < p THEN i ELSE i+1
    <3>1. t[j] = s[up(j)] /\ t[k] = s[up(k)]
      BY <2>3
    <3>2. up(j) \in 1..Len(s) /\ up(k) \in 1..Len(s) /\ up(j) < up(k)
      <4>1. p \in Int /\ j \in Int /\ k \in Int /\ Len(s) \in Int
        BY <2>1
      <4>2. 1 <= j /\ j < k /\ k <= Len(s) - 1
        BY <2>3, <2>5
      <4>3. CASE k < p
        BY <4>1, <4>2, <4>3
      <4>4. CASE ~(k < p)
        BY <4>1, <4>2, <4>4
      <4> QED BY <4>3, <4>4
    <3> HIDE DEF up
    <3> QED BY <3>1, <3>2 DEF Descending
  <2>6. Descending(key, t)
    BY <2>5 DEF Descending
  <2> QED BY <2>1, <2>2, <2>3, <2>4, <2>6 DEF t
<1> QED BY <1>2, <1>3

-----------------------------------------------------------------------------
(* Counting.  What a table holds is counted by places; an element more, or less, in a *)
(* bucket shifts the places behind it.                                                *)

Spines == UNION {[0..n-1 -> Seq(Elems)] : n \in Nat}
Frames == [old : Spines, elem : Elems]

\* The places of s that hold an element of D: all of them, or the copies of one element.
Chosen(s, D) == {p \in Places(s) : s[p[1]][p[2]] \in D}

\* u is s with d put in at position p of bucket i.
OneMore(u, s, i, p, d) ==
  /\ u \in Spines /\ s \in Spines /\ DOMAIN u = DOMAIN s /\ i \in DOMAIN s
  /\ \A k \in DOMAIN s : k # i => u[k] = s[k]
  /\ Len(u[i]) = Len(s[i]) + 1 /\ p \in 1..Len(s[i])+1
  /\ \A j \in 1..Len(s[i])+1 :
       u[i][j] = IF j < p THEN s[i][j] ELSE IF j = p THEN d ELSE s[i][j-1]

\* A spine is finite, and a place in it is a bucket with a position.
LEMMA PlacesAre ==
  ASSUME NEW s \in Spines
  PROVE  /\ \A i \in DOMAIN s : s[i] \in Seq(Elems) /\ Len(s[i]) \in Nat
         /\ IsFiniteSet(DOMAIN s) /\ DOMAIN s \subseteq Nat
         /\ \A i, j : <<i, j>> \in Places(s) <=> i \in DOMAIN s /\ j \in 1..Len(s[i])
         /\ \A q \in Places(s) : q = <<q[1], q[2]>> /\ q[1] \in DOMAIN s /\ q[2] \in 1..Len(s[q[1]])
<1>1. PICK n \in Nat : s \in [0..n-1 -> Seq(Elems)]
  BY DEF Spines
<1>2. IsFiniteSet(0..n-1)
  BY FS_Interval
<1> QED BY <1>1, <1>2, LenProperties DEF Places

\* A family of finite sets over a finite one has finitely many members.
LEMMA FiniteFamily ==
  ASSUME NEW I, IsFiniteSet(I), NEW F, \A i \in I : IsFiniteSet(F[i])
  PROVE  IsFiniteSet(UNION {F[i] : i \in I})
<1> DEFINE T == {F[i] : i \in I}  f == [i \in I |-> F[i]]
<1>1. f \in Surjection(I, T)
  BY DEF Surjection
<1> HIDE DEF f
<1>2. IsFiniteSet(T)
  BY <1>1, FS_Surjection
<1> QED BY <1>2, FS_UNION

LEMMA ChosenFinite ==
  ASSUME NEW s \in Spines, NEW D
  PROVE  /\ IsFiniteSet(Chosen(s, D)) /\ Cardinality(Chosen(s, D)) \in Nat
         /\ IsFiniteSet(Places(s)) /\ Cardinality(Places(s)) \in Nat
<1> DEFINE F == [i \in DOMAIN s |-> {i} \X (1..Len(s[i]))]
<1>1. \A i \in DOMAIN s : IsFiniteSet(F[i])
  <2> TAKE i \in DOMAIN s
  <2>1. Len(s[i]) \in Nat
    BY PlacesAre
  <2>2. IsFiniteSet({i})
    BY FS_Singleton, Zenon
  <2>3. IsFiniteSet(1..Len(s[i]))
    BY <2>1, FS_Interval
  <2>4. F[i] = {i} \X (1..Len(s[i]))
    OBVIOUS
  <2> HIDE DEF F
  <2> QED BY <2>2, <2>3, <2>4, FS_Product
<1>2. Places(s) = UNION {F[i] : i \in DOMAIN s}
  BY DEF Places
<1> HIDE DEF F
<1>3. IsFiniteSet(DOMAIN s)
  BY PlacesAre
<1>4. IsFiniteSet(Places(s))
  BY <1>1, <1>2, <1>3, FiniteFamily
<1>5. Chosen(s, D) \subseteq Places(s)
  BY DEF Chosen
<1> QED BY <1>4, <1>5, FS_Subset, FS_CardinalityType

\* One element more in a bucket is one place more for the sets it is in.
LEMMA OneMoreCounted ==
  ASSUME NEW u, NEW s, NEW i, NEW p, NEW d, OneMore(u, s, i, p, d), NEW D
  PROVE  Cardinality(Chosen(u, D)) = Cardinality(Chosen(s, D)) + (IF d \in D THEN 1 ELSE 0)
<1> DEFINE behind(j) == IF j >= p THEN j+1 ELSE j
           S == Chosen(s, D)  T == Chosen(u, D) \ {<<i, p>>}
           f == [q \in S |-> <<q[1], IF q[1] = i THEN behind(q[2]) ELSE q[2]>>]
<1>1. /\ s \in Spines /\ u \in Spines /\ DOMAIN u = DOMAIN s /\ i \in DOMAIN s /\ Len(s[i]) \in Nat
      /\ p \in 1..Len(s[i])+1 /\ Len(u[i]) = Len(s[i]) + 1 /\ u[i][p] = d
      /\ \A k \in DOMAIN s : Len(s[k]) \in Nat
      /\ \A k \in DOMAIN s : k # i => u[k] = s[k]
      /\ \A j \in 1..Len(s[i]) : behind(j) \in 1..Len(u[i]) /\ behind(j) # p /\ u[i][behind(j)] = s[i][j]
  BY PlacesAre DEF OneMore
<1>2. \A j \in 1..Len(u[i]) : j # p => \E k \in 1..Len(s[i]) : behind(k) = j
  <2> TAKE j \in 1..Len(u[i])
  <2>1. CASE j < p
    BY <1>1, <2>1
  <2>2. CASE j > p
    <3>1. j-1 \in 1..Len(s[i]) /\ behind(j-1) = j
      BY <1>1, <2>2
    <3> QED BY <3>1
  <2> QED BY <1>1, <2>1, <2>2
<1>3. \A j, k \in 1..Len(s[i]) : behind(j) = behind(k) => j = k
  BY <1>1
<1> HIDE DEF behind
<1>4. \A k, j : <<k, j>> \in S <=> k \in DOMAIN s /\ j \in 1..Len(s[k]) /\ s[k][j] \in D
  BY <1>1, PlacesAre DEF Chosen
<1>5. \A k, j : <<k, j>> \in T <=> /\ k \in DOMAIN s /\ j \in 1..Len(u[k]) /\ u[k][j] \in D
                                   /\ <<k, j>> # <<i, p>>
  BY <1>1, PlacesAre DEF Chosen
<1>6. (\A q \in S : q = <<q[1], q[2]>>) /\ (\A q \in T : q = <<q[1], q[2]>>)
  BY <1>1, PlacesAre DEF Chosen
<1> HIDE DEF S, T
<1>7. f \in Bijection(S, T)
  <2>1. ASSUME NEW q \in S PROVE f[q] \in T
    <3>1. q[1] \in DOMAIN s /\ q[2] \in 1..Len(s[q[1]]) /\ s[q[1]][q[2]] \in D
      BY <1>4, <1>6
    <3>2. CASE q[1] = i
      <4>1. <<i, behind(q[2])>> \in T
        BY <1>1, <1>5, <3>1, <3>2
      <4> QED BY <3>2, <4>1
    <3>3. CASE q[1] # i
      <4>1. <<q[1], q[2]>> \in T
        BY <1>1, <1>5, <3>1, <3>3
      <4> QED BY <3>3, <4>1
    <3> QED BY <3>2, <3>3
  <2>2. ASSUME NEW q \in S, NEW r \in S, f[q] = f[r] PROVE q = r
    <3>1. /\ q[1] = r[1] /\ q = <<q[1], q[2]>> /\ r = <<r[1], r[2]>>
          /\ q[1] = i => behind(q[2]) = behind(r[2])
          /\ q[1] # i => q[2] = r[2]
      BY <1>6, <2>2
    <3>2. q[1] = i => q[2] \in 1..Len(s[i]) /\ r[2] \in 1..Len(s[i])
      BY <1>4, <1>6, <3>1
    <3> QED BY <1>3, <3>1, <3>2
  <2>3. ASSUME NEW q \in T PROVE \E r \in S : f[r] = q
    <3>1. /\ q[1] \in DOMAIN s /\ q[2] \in 1..Len(u[q[1]]) /\ u[q[1]][q[2]] \in D
          /\ q = <<q[1], q[2]>> /\ q # <<i, p>>
      BY <1>5, <1>6
    <3>2. CASE q[1] = i
      <4>1. PICK k \in 1..Len(s[i]) : behind(k) = q[2]
        BY <1>2, <3>1, <3>2
      <4>2. s[i][k] \in D
        BY <1>1, <3>1, <3>2, <4>1
      <4>3. <<i, k>> \in S
        BY <1>1, <1>4, <4>2
      <4>4. f[<<i, k>>] = q
        BY <3>1, <3>2, <4>1, <4>3
      <4> QED BY <4>3, <4>4
    <3>3. CASE q[1] # i
      <4>1. q \in S
        BY <1>1, <1>4, <3>1, <3>3
      <4> QED BY <3>1, <3>3, <4>1
    <3> QED BY <3>2, <3>3
  <2>4. f \in [S -> T]
    BY <2>1
  <2> HIDE DEF f
  <2>5. f \in Injection(S, T)
    BY <2>2, <2>4 DEF Injection, IsInjective
  <2>6. f \in Surjection(S, T)
    BY <2>3, <2>4 DEF Surjection
  <2> QED BY <2>5, <2>6 DEF Bijection
<1>8. IsFiniteSet(S) /\ Cardinality(S) \in Nat /\ IsFiniteSet(Chosen(u, D))
  BY <1>1, ChosenFinite DEF S
<1>9. IsFiniteSet(T) /\ Cardinality(T) = Cardinality(S)
  BY <1>7, <1>8, FS_Bijection DEF ExistsBijection
<1>10. <<i, p>> \in Chosen(u, D) <=> d \in D
  <2>1. <<i, p>> \in Places(u)
    BY <1>1, PlacesAre
  <2> QED BY <1>1, <2>1 DEF Chosen
<1>11. CASE d \in D
  <2>1. Chosen(u, D) = T \cup {<<i, p>>} /\ <<i, p>> \notin T
    BY <1>10, <1>11 DEF T
  <2> QED BY <1>8, <1>9, <1>11, <2>1, FS_AddElement DEF S
<1>12. CASE d \notin D
  <2>1. Chosen(u, D) = T
    BY <1>10, <1>12 DEF T
  <2> QED BY <1>8, <1>9, <1>12, <2>1 DEF S
<1> QED BY <1>11, <1>12

\* A new table has all its buckets and nothing in them.
LEMMA NewIsEmpty ==
  ASSUME NEW n \in Nat, NEW D
  PROVE  /\ NewSpine(n) \in Spines /\ DOMAIN NewSpine(n) = 0..n-1
         /\ \A i \in 0..n-1 : NewSpine(n)[i] = <<>>
         /\ SpineSize(NewSpine(n)) = n
         /\ Cardinality(Chosen(NewSpine(n), D)) = 0 /\ Cardinality(Places(NewSpine(n))) = 0
<1> DEFINE s == NewSpine(n)
<1>1. s \in [0..n-1 -> Seq(Elems)] /\ s \in Spines /\ DOMAIN s = 0..n-1
  BY DEF NewSpine, Spines
<1>2. \A i \in 0..n-1 : s[i] = <<>> /\ Len(s[i]) = 0
  BY DEF NewSpine
<1>3. Places(s) = {}
  <2>1. \A q \in Places(s) : q[1] \in 0..n-1 /\ q[2] \in 1..Len(s[q[1]])
    BY <1>1, PlacesAre
  <2> QED BY <1>2, <2>1
<1>4. Chosen(s, D) = {}
  BY <1>3 DEF Chosen
<1>5. Cardinality(0..n-1) = n
  BY FS_Interval
<1> HIDE DEF s
<1>6. SpineSize(s) = n
  BY <1>1, <1>5 DEF SpineSize
<1> QED BY <1>1, <1>2, <1>3, <1>4, <1>6, FS_EmptySet DEF s

\* The buckets of a spine are numbered from 0 to its size.
LEMMA Sized ==
  ASSUME NEW s \in Spines
  PROVE  SpineSize(s) \in Nat /\ DOMAIN s = 0..SpineSize(s)-1
<1>1. PICK n \in Nat : s \in [0..n-1 -> Seq(Elems)]
  BY DEF Spines
<1>2. Cardinality(0..n-1) = n
  BY FS_Interval
<1> QED BY <1>1, <1>2 DEF SpineSize

\* What the calls in g have in hand of D, and the calls made for e.
InHand(g, D) == UNION {{k} \X Chosen(g[k].old, D) : k \in DOMAIN g}
Asked(g, e)  == {k \in DOMAIN g : g[k].elem = e}

LEMMA InHandFinite ==
  ASSUME NEW g \in Seq(Frames), NEW D, NEW e
  PROVE  /\ IsFiniteSet(InHand(g, D)) /\ Cardinality(InHand(g, D)) \in Nat
         /\ IsFiniteSet(Asked(g, e)) /\ Cardinality(Asked(g, e)) \in Nat
<1> DEFINE F == [k \in DOMAIN g |-> {k} \X Chosen(g[k].old, D)]
<1>1. DOMAIN g = 1..Len(g) /\ Len(g) \in Nat
  OBVIOUS
<1>2. IsFiniteSet(DOMAIN g)
  BY <1>1, FS_Interval
<1>3. \A k \in DOMAIN g : IsFiniteSet(F[k])
  <2> TAKE k \in DOMAIN g
  <2>1. IsFiniteSet({k})
    BY FS_Singleton, Zenon
  <2>2. g[k] \in Frames
    BY <1>1, ElementOfSeq
  <2>5. g[k].old \in Spines
    BY <2>2 DEF Frames
  <2>3. IsFiniteSet(Chosen(g[k].old, D))
    BY <2>5, ChosenFinite
  <2>4. F[k] = {k} \X Chosen(g[k].old, D)
    OBVIOUS
  <2> HIDE DEF F
  <2> QED BY <2>1, <2>3, <2>4, FS_Product
<1>4. InHand(g, D) = UNION {F[k] : k \in DOMAIN g}
  BY DEF InHand
<1> HIDE DEF F
<1>5. IsFiniteSet(InHand(g, D))
  BY <1>2, <1>3, <1>4, FiniteFamily
<1>6. IsFiniteSet(Asked(g, e))
  <2>1. Asked(g, e) \subseteq DOMAIN g
    BY DEF Asked
  <2> QED BY <1>2, <2>1, FS_Subset
<1> QED BY <1>5, <1>6, FS_CardinalityType

\* A call of rehash more has in hand what is left of its old table, and its element.
LEMMA Pushed ==
  ASSUME NEW g \in Seq(Frames), NEW c \in Frames, NEW D, NEW e
  PROVE  /\ Append(g, c) \in Seq(Frames) /\ Len(Append(g, c)) = Len(g) + 1
         /\ Cardinality(InHand(Append(g, c), D)) =
              Cardinality(InHand(g, D)) + Cardinality(Chosen(c.old, D))
         /\ Cardinality(Asked(Append(g, c), e)) =
              Cardinality(Asked(g, e)) + (IF c.elem = e THEN 1 ELSE 0)
<1> DEFINE h == Append(g, c)  n == Len(g) + 1
<1>1. /\ h \in Seq(Frames) /\ Len(h) = n /\ Len(g) \in Nat /\ DOMAIN g = 1..Len(g) /\ DOMAIN h = 1..n
      /\ \A k \in 1..Len(g) : h[k] = g[k]
      /\ h[n] = c /\ n \in Nat
  OBVIOUS
<1> HIDE DEF h, n
<1>2. DOMAIN h = DOMAIN g \cup {n} /\ n \notin DOMAIN g
  BY <1>1 DEF n
<1> DEFINE S == Chosen(c.old, D)  T == {n} \X S
<1>3. c.old \in Spines
  BY DEF Frames
<1>4. IsFiniteSet(S) /\ Cardinality(S) \in Nat
  BY <1>3, ChosenFinite
<1>5. IsFiniteSet(T) /\ Cardinality(T) = Cardinality(S)
  <2> DEFINE f == [q \in S |-> <<n, q>>]
  <2>1. f \in [S -> T] /\ \A q \in S : f[q] = <<n, q>>
    OBVIOUS
  <2>2. \A q \in T : \E r \in S : q = <<n, r>>
    OBVIOUS
  <2> HIDE DEF f, S, T
  <2>3. f \in Injection(S, T)
    BY <2>1 DEF Injection, IsInjective
  <2>4. f \in Surjection(S, T)
    BY <2>1, <2>2 DEF Surjection
  <2> QED BY <1>4, <2>3, <2>4, FS_Bijection DEF Bijection, ExistsBijection
<1>6. InHand(h, D) = InHand(g, D) \cup T /\ InHand(g, D) \cap T = {}
  <2>1. InHand(h, D) = InHand(g, D) \cup T
    <3>1. \A k \in DOMAIN g : {k} \X Chosen(h[k].old, D) = {k} \X Chosen(g[k].old, D)
      BY <1>1
    <3>2. {n} \X Chosen(h[n].old, D) = T
      BY <1>1
    <3> DEFINE P(k) == {k} \X Chosen(h[k].old, D)  Q(k) == {k} \X Chosen(g[k].old, D)
    <3>3. InHand(h, D) = UNION {P(k) : k \in DOMAIN h} /\ InHand(g, D) = UNION {Q(k) : k \in DOMAIN g}
      BY DEF InHand
    <3>4. (\A k \in DOMAIN g : P(k) = Q(k)) /\ P(n) = T
      BY <3>1, <3>2
    <3> HIDE DEF P, Q, T
    <3> QED BY <1>2, <3>3, <3>4
  <2>2. \A q \in InHand(g, D) : q[1] \in DOMAIN g
    BY DEF InHand
  <2> QED BY <1>2, <2>1, <2>2
<1>7. Cardinality(InHand(h, D)) = Cardinality(InHand(g, D)) + Cardinality(S)
  <2>1. IsFiniteSet(InHand(g, D)) /\ Cardinality(InHand(g, D)) \in Nat
    BY InHandFinite
  <2> HIDE DEF S, T
  <2>2. Cardinality(InHand(g, D) \cup T) =
          Cardinality(InHand(g, D)) + Cardinality(T) - Cardinality(InHand(g, D) \cap T)
    BY <1>5, <2>1, FS_Union, Zenon
  <2>3. Cardinality(InHand(g, D) \cap T) = 0
    BY <1>6, FS_EmptySet
  <2> QED BY <1>4, <1>5, <1>6, <2>1, <2>2, <2>3
<1>8. Cardinality(Asked(h, e)) = Cardinality(Asked(g, e)) + (IF c.elem = e THEN 1 ELSE 0)
  <2>1. IsFiniteSet(Asked(g, e)) /\ Cardinality(Asked(g, e)) \in Nat
    BY InHandFinite
  <2>2. Asked(h, e) = IF c.elem = e THEN Asked(g, e) \cup {n} ELSE Asked(g, e)
    BY <1>1, <1>2 DEF Asked
  <2>3. n \notin Asked(g, e)
    BY <1>2 DEF Asked
  <2>4. Cardinality(Asked(g, e) \cup {n}) = Cardinality(Asked(g, e)) + 1
    BY <2>1, <2>3, FS_AddElement
  <2> QED BY <2>1, <2>2, <2>4
<1> QED BY <1>1, <1>7, <1>8 DEF h, n

\* The calls of rehash are the innermost and those it was called by.
LEMMA Innermost ==
  ASSUME NEW g \in Seq(Frames), g # <<>>
  PROVE  /\ Front(g) \in Seq(Frames) /\ Last(g) \in Frames /\ g = Append(Front(g), Last(g))
         /\ Len(Front(g)) = Len(g) - 1 /\ Len(g) \in Nat \ {0} /\ g[Len(g)] = Last(g)
         /\ \A D : Cardinality(InHand(g, D)) =
                     Cardinality(InHand(Front(g), D)) + Cardinality(Chosen(Last(g).old, D))
         /\ \A e : Cardinality(Asked(g, e)) =
                     Cardinality(Asked(Front(g), e)) + (IF Last(g).elem = e THEN 1 ELSE 0)
<1>1. Len(g) \in Nat \ {0} /\ \A k \in 1..Len(g) : g[k] \in Frames
  BY ElementOfSeq
<1>2. /\ Front(g) \in Seq(Frames) /\ Len(Front(g)) = Len(g) - 1
      /\ \A k \in 1..Len(g)-1 : Front(g)[k] = g[k]
  <2> DEFINE n == Len(g) - 1  f == SubSeq(g, 1, n)
  <2>1. n \in Nat /\ \A k \in 1..n : g[k] \in Frames
    BY <1>1
  <2>2. Front(g) = f
    BY DEF Front
  <2> HIDE DEF n
  <2>3. f \in Seq(Frames) /\ Len(f) = n /\ \A k \in 1..n : f[k] = g[k]
    BY <2>1, SubSeqProperties
  <2> HIDE DEF f
  <2> QED BY <2>2, <2>3 DEF n
<1>3. Last(g) \in Frames /\ Last(g) = g[Len(g)]
  BY <1>1 DEF Last
<1> DEFINE h == Append(Front(g), Last(g))
<1>4. h \in Seq(Frames) /\ Len(h) = Len(g) /\ \A k \in 1..Len(g) : h[k] = g[k]
  <2>1. /\ h \in Seq(Frames) /\ Len(h) = Len(Front(g)) + 1
        /\ \A k \in 1..Len(Front(g)) : h[k] = Front(g)[k]
        /\ h[Len(Front(g))+1] = Last(g)
    BY <1>2, <1>3, AppendProperties
  <2>2. Len(Front(g)) + 1 = Len(g) /\ Len(Front(g)) = Len(g) - 1 /\ Len(g) \in Nat
    BY <1>1, <1>2
  <2> HIDE DEF h
  <2>3. ASSUME NEW k \in 1..Len(g) PROVE h[k] = g[k]
    <3>1. \A n \in Nat : \A i \in 1..n : i = n \/ i \in 1..n-1
      OBVIOUS
    <3>2. k = Len(g) \/ k \in 1..Len(g)-1
      BY <2>2, <3>1, Zenon
    <3> QED BY <1>2, <1>3, <2>1, <2>2, <3>2, Zenon
  <2> QED BY <2>1, <2>2, <2>3
<1>5. /\ \A D : Cardinality(InHand(h, D)) =
                  Cardinality(InHand(Front(g), D)) + Cardinality(Chosen(Last(g).old, D))
      /\ \A e : Cardinality(Asked(h, e)) =
                  Cardinality(Asked(Front(g), e)) + (IF Last(g).elem = e THEN 1 ELSE 0)
  <2>1. Front(g) \in Seq(Frames) /\ Last(g) \in Frames
    BY <1>2, <1>3, Zenon
  <2> QED BY <2>1, Pushed, ZenonT(40)
<1> HIDE DEF h
<1>6. h = g
  BY <1>4, SeqEqual
<1>7. g = Append(Front(g), Last(g))
  BY <1>6 DEF h
<1> QED BY <1>1, <1>2, <1>3, <1>5, <1>6, <1>7

-----------------------------------------------------------------------------
(* What an insertion, a removal and a step of rehash's loop do to a spine. *)

Ordered(s) == \A i \in DOMAIN s : Descending(Key, s[i])

\* Every element is in the bucket that its hash leads to.
Placed(s) == \A i \in DOMAIN s : \A j \in 1..Len(s[i]) : Hash[s[i][j]] % SpineSize(s) = i

\* All places are those of the elements.
LEMMA AllChosen ==
  ASSUME NEW s \in Spines
  PROVE  Places(s) = Chosen(s, Elems)
<1>1. \A q \in Places(s) : s[q[1]][q[2]] \in Elems
  <2> TAKE q \in Places(s)
  <2>1. q[1] \in DOMAIN s /\ q[2] \in 1..Len(s[q[1]]) /\ s[q[1]] \in Seq(Elems)
    BY PlacesAre
  <2> QED BY <2>1, ElementOfSeq
<1> QED BY <1>1 DEF Chosen

\* The bucket of an element exists.
LEMMA BucketOf ==
  ASSUME NEW s \in Spines, DOMAIN s # {}, NEW e \in Elems
  PROVE  Hash[e] % SpineSize(s) \in DOMAIN s
<1>1. SpineSize(s) \in Nat /\ DOMAIN s = 0..SpineSize(s)-1
  BY Sized
<1>2. SpineSize(s) > 0
  BY <1>1
<1>3. Hash[e] \in Nat
  BY HashAssumption
<1> QED BY <1>1, <1>2, <1>3

\* A spine with one bucket changed.
LEMMA Changed ==
  ASSUME NEW s \in Spines, NEW i \in DOMAIN s, NEW b \in Seq(Elems)
  PROVE  LET u == [s EXCEPT ![i] = b] IN
         /\ u \in Spines /\ DOMAIN u = DOMAIN s /\ SpineSize(u) = SpineSize(s)
         /\ u[i] = b /\ \A k \in DOMAIN s : k # i => u[k] = s[k]
<1> DEFINE u == [s EXCEPT ![i] = b]
<1>1. PICK n \in Nat : s \in [0..n-1 -> Seq(Elems)]
  BY DEF Spines
<1>2. u \in [0..n-1 -> Seq(Elems)]
  BY <1>1
<1>3. u \in Spines /\ DOMAIN u = DOMAIN s /\ u[i] = b /\ \A k \in DOMAIN s : k # i => u[k] = s[k]
  BY <1>1, <1>2 DEF Spines
<1>4. SpineSize(u) = SpineSize(s)
  BY <1>3 DEF SpineSize
<1> QED BY <1>3, <1>4

\* An element goes to its bucket, in order.
LEMMA PutIn ==
  ASSUME NEW s \in Spines, DOMAIN s # {}, Ordered(s), Placed(s), NEW e \in Elems
  PROVE  LET i == Hash[e] % SpineSize(s)
             u == [s EXCEPT ![i] = InsertSorted(Key, s[i], e)] IN
         /\ u \in Spines /\ DOMAIN u = DOMAIN s /\ SpineSize(u) = SpineSize(s)
         /\ Ordered(u) /\ Placed(u)
         /\ \E p : OneMore(u, s, i, p, e)
<1> DEFINE i == Hash[e] % SpineSize(s)  b == s[i]  c == InsertSorted(Key, b, e)
           u == [s EXCEPT ![i] = c]  p == SortedPos(Key, b, e)
<1>1. i \in DOMAIN s
  BY BucketOf
<1>2. b \in Seq(Elems) /\ Len(b) \in Nat /\ Descending(Key, b)
  BY <1>1, PlacesAre DEF Ordered
<1>3. c \in Seq(Elems) /\ Descending(Key, c)
  BY <1>2, KeyAssumption, InsertionKeepsOrder
<1>4. p \in 1..Len(b)+1
  <2>1. CASE AtMost(Key, b, e) = {}
    BY <1>2, <2>1 DEF SortedPos
  <2>2. CASE AtMost(Key, b, e) # {}
    <3>1. FoundPos(Key, b, e) \in AtMost(Key, b, e)
      BY <1>2, <2>2, FoundIsFirst
    <3> QED BY <1>2, <2>2, <3>1 DEF SortedPos, AtMost
  <2> QED BY <2>1, <2>2
<1>5. c = InsertAt(b, p, e)
  BY DEF InsertSorted
<1> HIDE DEF p
<1>6. /\ Len(c) = Len(b) + 1
      /\ \A j \in 1..Len(b)+1 : c[j] = IF j < p THEN b[j] ELSE IF j = p THEN e ELSE b[j-1]
  <2> HIDE DEF b, c
  <2>1. \A j \in 1..Len(b)+1 :
          InsertAt(b, p, e)[j] = IF j < p THEN b[j] ELSE IF j = p THEN e ELSE b[j-1]
    BY <1>2, <1>4, InsertedAt
  <2>2. Len(InsertAt(b, p, e)) = Len(b) + 1
    BY <1>2, <1>4, InsertedAt
  <2> QED BY <1>5, <2>1, <2>2
<1> HIDE DEF c
<1>7. /\ u \in Spines /\ DOMAIN u = DOMAIN s /\ SpineSize(u) = SpineSize(s)
      /\ u[i] = c /\ \A k \in DOMAIN s : k # i => u[k] = s[k]
  BY <1>1, <1>3, Changed
<1> HIDE DEF u
<1>8. OneMore(u, s, i, p, e)
  BY <1>1, <1>4, <1>6, <1>7 DEF OneMore
<1>9. Ordered(u)
  BY <1>3, <1>7 DEF Ordered
<1>10. Placed(u)
  <2> SUFFICES ASSUME NEW k \in DOMAIN s, NEW j \in 1..Len(u[k])
               PROVE  Hash[u[k][j]] % SpineSize(s) = k
    BY <1>7 DEF Placed
  <2>1. CASE k # i
    BY <1>7, <2>1 DEF Placed
  <2>2. CASE k = i
    <3>1. j \in 1..Len(b)+1 /\ u[k][j] = IF j < p THEN b[j] ELSE IF j = p THEN e ELSE b[j-1]
      BY <1>6, <1>7, <2>2
    <3>2. CASE j = p
      BY <1>4, <2>2, <3>1, <3>2
    <3>3. CASE j < p
      <4>1. j \in 1..Len(b) /\ u[k][j] = b[j]
        BY <1>2, <1>4, <3>1, <3>3
      <4> QED BY <1>1, <2>2, <4>1 DEF Placed
    <3>4. CASE j > p
      <4>1. j-1 \in 1..Len(b) /\ u[k][j] = b[j-1]
        BY <1>2, <1>4, <3>1, <3>4
      <4> QED BY <1>1, <2>2, <4>1 DEF Placed
    <3> QED BY <1>4, <3>1, <3>2, <3>3, <3>4
  <2> QED BY <2>1, <2>2
<1> QED BY <1>7, <1>8, <1>9, <1>10 DEF c, u

\* An element is taken out of position p of bucket i.
LEMMA TakenOut ==
  ASSUME NEW s \in Spines, NEW i \in DOMAIN s, NEW p \in 1..Len(s[i])
  PROVE  LET u == [s EXCEPT ![i] = RemoveAt(s[i], p)] IN
         /\ u \in Spines /\ DOMAIN u = DOMAIN s /\ SpineSize(u) = SpineSize(s)
         /\ OneMore(s, u, i, p, s[i][p])
         /\ Placed(s) => Placed(u)
<1> DEFINE b == s[i]  c == RemoveAt(b, p)  u == [s EXCEPT ![i] = c]
<1>1. b \in Seq(Elems) /\ Len(b) \in Nat
  BY PlacesAre
<1>2. /\ c \in Seq(Elems) /\ Len(c) = Len(b) - 1
      /\ \A j \in 1..Len(b)-1 : c[j] = IF j < p THEN b[j] ELSE b[j+1]
  BY <1>1, RemovedAt
<1> HIDE DEF c
<1>3. /\ u \in Spines /\ DOMAIN u = DOMAIN s /\ SpineSize(u) = SpineSize(s)
      /\ u[i] = c /\ \A k \in DOMAIN s : k # i => u[k] = s[k]
  BY <1>2, Changed
<1> HIDE DEF u
<1>4. OneMore(s, u, i, p, b[p])
  <2>1. Len(b) = Len(c) + 1 /\ p \in 1..Len(c)+1 /\ Len(c) \in Nat
    BY <1>1, <1>2
  <2>2. \A j \in 1..Len(c)+1 : b[j] = IF j < p THEN c[j] ELSE IF j = p THEN b[p] ELSE c[j-1]
    <3> TAKE j \in 1..Len(c)+1
    <3>1. CASE j < p
      <4>1. j \in 1..Len(b)-1
        BY <2>1, <3>1
      <4> QED BY <1>2, <3>1, <4>1
    <3>2. CASE j > p
      <4>1. j-1 \in 1..Len(b)-1 /\ ~(j-1 < p) /\ j-1+1 = j
        BY <2>1, <3>2
      <4>2. c[j-1] = b[j]
        BY <1>2, <4>1
      <4> QED BY <2>1, <3>2, <4>2
    <3> QED BY <2>1, <3>1, <3>2
  <2> QED BY <1>3, <2>1, <2>2 DEF OneMore
<1>5. ASSUME Placed(s) PROVE Placed(u)
  <2> SUFFICES ASSUME NEW k \in DOMAIN s, NEW j \in 1..Len(u[k])
               PROVE  Hash[u[k][j]] % SpineSize(s) = k
    BY <1>3 DEF Placed
  <2>1. CASE k # i
    BY <1>3, <1>5, <2>1 DEF Placed
  <2>2. CASE k = i
    <3>1. u[k] = c /\ j \in 1..Len(b)-1
      BY <1>2, <1>3, <2>2
    <3>2. \E m \in 1..Len(b) : u[k][j] = b[m]
      <4>1. j \in 1..Len(b) /\ j+1 \in 1..Len(b)
        BY <1>1, <3>1
      <4> QED BY <1>2, <3>1, <4>1
    <3> QED BY <1>5, <2>2, <3>2 DEF Placed
  <2> QED BY <2>1, <2>2
<1> QED BY <1>3, <1>4, <1>5 DEF u, c

\* So is the head of a bucket, by the walk of an old table.
LEMMA HeadTaken ==
  ASSUME NEW s \in Spines, NEW i \in DOMAIN s, s[i] # <<>>
  PROVE  LET u == [s EXCEPT ![i] = Tail(s[i])] IN
         /\ u \in Spines /\ Head(s[i]) \in Elems /\ OneMore(s, u, i, 1, Head(s[i]))
<1> DEFINE b == s[i]  c == Tail(b)  u == [s EXCEPT ![i] = c]
<1>1. b \in Seq(Elems) /\ Len(b) \in Nat
  BY PlacesAre
<1>2. /\ Head(b) \in Elems /\ c \in Seq(Elems) /\ Len(c) = Len(b) - 1 /\ Len(b) > 0
      /\ Head(b) = b[1]
      /\ \A j \in 1..Len(b)-1 : c[j] = b[j+1]
  BY <1>1
<1> HIDE DEF c
<1>3. /\ u \in Spines /\ DOMAIN u = DOMAIN s
      /\ u[i] = c /\ \A k \in DOMAIN s : k # i => u[k] = s[k]
  BY <1>2, Changed
<1> HIDE DEF u
<1>4. OneMore(s, u, i, 1, Head(b))
  <2>1. Len(b) = Len(c) + 1 /\ 1 \in 1..Len(c)+1 /\ Len(c) \in Nat
    BY <1>1, <1>2
  <2>2. \A j \in 1..Len(c)+1 :
          b[j] = IF j < 1 THEN c[j] ELSE IF j = 1 THEN Head(b) ELSE c[j-1]
    <3> TAKE j \in 1..Len(c)+1
    <3>1. CASE j = 1
      BY <1>2, <3>1
    <3>2. CASE j > 1
      <4>1. j-1 \in 1..Len(b)-1 /\ j-1+1 = j
        BY <2>1, <3>2
      <4>2. c[j-1] = b[j]
        BY <1>2, <4>1
      <4> QED BY <2>1, <3>2, <4>2
    <3> QED BY <2>1, <3>1, <3>2
  <2> QED BY <1>3, <2>1, <2>2 DEF OneMore
<1> QED BY <1>2, <1>3, <1>4 DEF u, c

-----------------------------------------------------------------------------
(* What each part of an action does, counted. *)

Typed ==
  /\ spine \in Spines /\ growing \in Seq(Frames)
  /\ currSize \in Nat /\ missed \in Nat /\ found \in Elems \cup {Nothing}

\* An insertion puts one element more where it belongs.
LEMMA InsertDoes ==
  ASSUME Typed, exists, Ordered(spine), Placed(spine), NEW e \in Elems, Insert(e)
  PROVE  /\ spine' \in Spines /\ exists' /\ SpineSize(spine') = SpineSize(spine)
         /\ Ordered(spine') /\ Placed(spine') /\ currSize' = currSize + 1
         /\ \A D : Cardinality(Chosen(spine', D)) =
                     Cardinality(Chosen(spine, D)) + (IF e \in D THEN 1 ELSE 0)
         /\ Cardinality(Places(spine')) = Cardinality(Places(spine)) + 1
<1> DEFINE i == Hash[e] % SpineSize(spine)
           u == [spine EXCEPT ![i] = InsertSorted(Key, spine[i], e)]
<1>1. spine \in Spines /\ DOMAIN spine # {}
  BY DEF Typed, exists
<1>2. /\ u \in Spines /\ DOMAIN u = DOMAIN spine /\ SpineSize(u) = SpineSize(spine)
      /\ Ordered(u) /\ Placed(u)
      /\ \E p : OneMore(u, spine, i, p, e)
  BY <1>1, PutIn
<1>3. spine' = u /\ currSize' = currSize + 1
  BY DEF Insert, getTablePosForElem
<1> HIDE DEF i, u
<1>4. \A D : Cardinality(Chosen(u, D)) = Cardinality(Chosen(spine, D)) + (IF e \in D THEN 1 ELSE 0)
  BY <1>2, OneMoreCounted
<1>5. Places(u) = Chosen(u, Elems) /\ Places(spine) = Chosen(spine, Elems)
  BY <1>1, <1>2, AllChosen
<1>6. Cardinality(Places(u)) = Cardinality(Places(spine)) + 1
  BY <1>4, <1>5
<1>7. DOMAIN u # {}
  BY <1>1, <1>2
<1> QED BY <1>2, <1>3, <1>4, <1>6, <1>7 DEF exists

\* A call of rehash empties the table into its own hands.
LEMMA RehashDoes ==
  ASSUME Typed, exists, NEW e \in Elems, NEW callers \in Seq(Frames), rehash(e, callers)
  PROVE  /\ spine' \in Spines /\ exists' /\ SpineSize(spine') = 2 * SpineSize(spine)
         /\ Ordered(spine') /\ Placed(spine') /\ currSize' = 0
         /\ \A D : Cardinality(Chosen(spine', D)) = 0
         /\ Cardinality(Places(spine')) = 0
         /\ growing' \in Seq(Frames) /\ Len(growing') = Len(callers) + 1
         /\ growing'[Len(growing')].old = spine
         /\ \A D : Cardinality(InHand(growing', D)) =
                     Cardinality(InHand(callers, D)) + Cardinality(Chosen(spine, D))
         /\ \A x : Cardinality(Asked(growing', x)) =
                     Cardinality(Asked(callers, x)) + (IF e = x THEN 1 ELSE 0)
<1> DEFINE n == SpineSize(spine) * GROWFACTOR  c == [old |-> spine, elem |-> e]
<1>1. SpineSize(spine) \in Nat /\ SpineSize(spine) > 0
  BY Sized DEF Typed, exists
<1>2. n \in Nat /\ n = 2 * SpineSize(spine) /\ n > 0
  BY <1>1 DEF GROWFACTOR
<1>3. spine' = NewSpine(n) /\ currSize' = 0 /\ growing' = Append(callers, c)
  BY DEF rehash
<1> HIDE DEF n
<1>4. /\ spine' \in Spines /\ DOMAIN spine' = 0..n-1 /\ SpineSize(spine') = n
      /\ \A i \in 0..n-1 : spine'[i] = <<>>
      /\ Cardinality(Places(spine')) = 0 /\ \A D : Cardinality(Chosen(spine', D)) = 0
  BY <1>2, <1>3, NewIsEmpty
<1>5. exists' /\ Ordered(spine') /\ Placed(spine')
  <2>1. \A i \in DOMAIN spine' : Len(spine'[i]) = 0
    BY <1>4
  <2>2. 0 \in DOMAIN spine'
    BY <1>2, <1>4
  <2> QED BY <2>1, <2>2 DEF exists, Ordered, Placed, Descending
<1>6. c \in Frames /\ c.old = spine /\ c.elem = e
  BY DEF Frames, Typed
<1> HIDE DEF c
<1>7. /\ growing' \in Seq(Frames) /\ Len(growing') = Len(callers) + 1
      /\ \A D : Cardinality(InHand(growing', D)) =
                  Cardinality(InHand(callers, D)) + Cardinality(Chosen(spine, D))
      /\ \A x : Cardinality(Asked(growing', x)) =
                  Cardinality(Asked(callers, x)) + (IF e = x THEN 1 ELSE 0)
  BY <1>3, <1>6, Pushed
<1>8. growing'[Len(growing')].old = spine
  BY <1>3, <1>6, <1>7
<1> QED BY <1>2, <1>3, <1>4, <1>5, <1>7, <1>8

\* rehash's loop takes one element out of its hands.
LEMMA LoopDoes ==
  ASSUME NEW g \in Seq(Frames), g # <<>>, NEW i \in DOMAIN Last(g).old, Last(g).old[i] # <<>>
  PROVE  LET x == Head(Last(g).old[i])
             c == [Last(g) EXCEPT !.old[i] = Tail(@)]
             h == Append(Front(g), c) IN
         /\ x \in Elems /\ h \in Seq(Frames) /\ Len(h) = Len(g) /\ h[Len(h)].old = c.old
         /\ Cardinality(Places(g[Len(g)].old)) = Cardinality(Places(h[Len(h)].old)) + 1
         /\ \A D : Cardinality(InHand(g, D)) =
                     Cardinality(InHand(h, D)) + (IF x \in D THEN 1 ELSE 0)
         /\ \A y : Cardinality(Asked(g, y)) = Cardinality(Asked(h, y))
<1> DEFINE b == Last(g)  x == Head(b.old[i])  c == [b EXCEPT !.old[i] = Tail(@)]
           h == Append(Front(g), c)  u == [b.old EXCEPT ![i] = Tail(b.old[i])]
<1>1. /\ Front(g) \in Seq(Frames) /\ b \in Frames
      /\ Len(Front(g)) = Len(g) - 1 /\ Len(g) \in Nat \ {0} /\ g[Len(g)] = b
  BY Innermost
<1>2. b.old \in Spines /\ b.elem \in Elems
  BY <1>1 DEF Frames
<1>3. u \in Spines /\ x \in Elems /\ OneMore(b.old, u, i, 1, x)
  BY <1>2, HeadTaken
<1>4. c \in Frames /\ c.old = u /\ c.elem = b.elem
  BY <1>1, <1>2, <1>3 DEF Frames
<1> HIDE DEF x, u, c
<1>5. \A D : Cardinality(Chosen(b.old, D)) = Cardinality(Chosen(u, D)) + (IF x \in D THEN 1 ELSE 0)
  BY <1>3, OneMoreCounted
<1>6. /\ h \in Seq(Frames) /\ Len(h) = Len(g)
      /\ \A D : Cardinality(InHand(h, D)) =
                  Cardinality(InHand(Front(g), D)) + Cardinality(Chosen(u, D))
      /\ \A y : Cardinality(Asked(h, y)) =
                  Cardinality(Asked(Front(g), y)) + (IF b.elem = y THEN 1 ELSE 0)
  BY <1>1, <1>4, Pushed
<1>7. /\ \A D : Cardinality(InHand(g, D)) =
                  Cardinality(InHand(Front(g), D)) + Cardinality(Chosen(b.old, D))
      /\ \A y : Cardinality(Asked(g, y)) =
                  Cardinality(Asked(Front(g), y)) + (IF b.elem = y THEN 1 ELSE 0)
  BY Innermost
<1>8. h[Len(h)] = c
  BY <1>1, <1>4, <1>6
<1>9. Cardinality(Places(b.old)) = Cardinality(Places(u)) + 1
  <2>1. Places(b.old) = Chosen(b.old, Elems) /\ Places(u) = Chosen(u, Elems)
    BY <1>2, <1>3, AllChosen
  <2> QED BY <1>3, <1>5, <2>1
<1>10. \A D : Cardinality(InHand(g, D)) = Cardinality(InHand(h, D)) + (IF x \in D THEN 1 ELSE 0)
  <2> TAKE D
  <2>1. /\ Cardinality(InHand(Front(g), D)) \in Nat
        /\ Cardinality(Chosen(u, D)) \in Nat
    BY <1>1, <1>3, InHandFinite, ChosenFinite
  <2>2. Cardinality(InHand(g, D)) = Cardinality(InHand(Front(g), D)) + Cardinality(Chosen(b.old, D))
    BY <1>7
  <2>3. Cardinality(InHand(h, D)) = Cardinality(InHand(Front(g), D)) + Cardinality(Chosen(u, D))
    BY <1>6
  <2>4. Cardinality(Chosen(b.old, D)) = Cardinality(Chosen(u, D)) + (IF x \in D THEN 1 ELSE 0)
    BY <1>5
  <2> QED BY <2>1, <2>2, <2>3, <2>4
<1>11. \A y : Cardinality(Asked(g, y)) = Cardinality(Asked(h, y))
  BY <1>6, <1>7
<1> HIDE DEF h, b
<1> QED BY <1>1, <1>3, <1>4, <1>6, <1>8, <1>9, <1>10, <1>11 DEF x, c, b, h

\* A call of rehash that has nothing left has its element only.
LEMMA DoneHas ==
  ASSUME NEW g \in Seq(Frames), g # <<>>, Places(Last(g).old) = {}
  PROVE  /\ Front(g) \in Seq(Frames) /\ Len(Front(g)) = Len(g) - 1 /\ Last(g).elem \in Elems
         /\ \A D : Cardinality(InHand(g, D)) = Cardinality(InHand(Front(g), D))
         /\ \A y : Cardinality(Asked(g, y)) =
                     Cardinality(Asked(Front(g), y)) + (IF Last(g).elem = y THEN 1 ELSE 0)
<1>1. /\ Front(g) \in Seq(Frames) /\ Last(g) \in Frames /\ Len(Front(g)) = Len(g) - 1
  BY Innermost
<1>2. Last(g).elem \in Elems
  BY <1>1 DEF Frames
<1>3. \A D : Cardinality(Chosen(Last(g).old, D)) = 0
  <2> TAKE D
  <2>1. Chosen(Last(g).old, D) = {}
    BY DEF Chosen
  <2> QED BY <2>1, FS_EmptySet
<1>4. \A D : Cardinality(InHand(g, D)) = Cardinality(InHand(Front(g), D))
  <2> TAKE D
  <2>1. Cardinality(InHand(Front(g), D)) \in Nat
    BY <1>1, InHandFinite
  <2>2. Cardinality(InHand(g, D)) =
          Cardinality(InHand(Front(g), D)) + Cardinality(Chosen(Last(g).old, D))
    BY Innermost
  <2> QED BY <1>3, <2>1, <2>2
<1>5. \A y : Cardinality(Asked(g, y)) =
               Cardinality(Asked(Front(g), y)) + (IF Last(g).elem = y THEN 1 ELSE 0)
  BY Innermost
<1> QED BY <1>1, <1>2, <1>4, <1>5

-----------------------------------------------------------------------------
(* What the table and the calls hold, as BagTable sees it. *)

LEMMA Holding ==
  ASSUME NEW s \in Spines, NEW g \in Seq(Frames)
  PROVE  /\ \A e : Copies(s, e) = Chosen(s, {e})
         /\ \A e : UNION {{k} \X Copies(g[k].old, e) : k \in DOMAIN g} = InHand(g, {e})
         /\ UNION {{k} \X Places(g[k].old) : k \in DOMAIN g} = InHand(g, Elems)
<1>1. \A t, e : Copies(t, e) = Chosen(t, {e})
  BY DEF Copies, Chosen
<1>2. \A k \in DOMAIN g : Places(g[k].old) = Chosen(g[k].old, Elems)
  <2> TAKE k \in DOMAIN g
  <2>1. g[k] \in Frames
    OBVIOUS
  <2>2. g[k].old \in Spines
    BY <2>1 DEF Frames
  <2> QED BY <2>2, AllChosen
<1>3. UNION {{k} \X Places(g[k].old) : k \in DOMAIN g} = InHand(g, Elems)
  <2> DEFINE P(k) == {k} \X Places(g[k].old)  Q(k) == {k} \X Chosen(g[k].old, Elems)
  <2>1. \A k \in DOMAIN g : P(k) = Q(k)
    BY <1>2
  <2>2. InHand(g, Elems) = UNION {Q(k) : k \in DOMAIN g}
    BY DEF InHand
  <2> HIDE DEF P, Q
  <2>3. UNION {P(k) : k \in DOMAIN g} = InHand(g, Elems)
    BY <2>1, <2>2
  <2> QED BY <2>3 DEF P
<1> QED BY <1>1, <1>3 DEF InHand

\* Held and the count, by the sets that are counted.
LEMMA HeldIs ==
  ASSUME spine \in Spines, growing \in Seq(Frames)
  PROVE  /\ \A e : Held(e) = Cardinality(Chosen(spine, {e})) + Cardinality(InHand(growing, {e}))
                             + Cardinality(Asked(growing, e))
         /\ \A e : Held(e) \in Nat
         /\ Cardinality(OldPlaces) = Cardinality(InHand(growing, Elems))
<1>1. \A e : Held(e) = Cardinality(Chosen(spine, {e})) + Cardinality(InHand(growing, {e}))
                       + Cardinality(Asked(growing, e))
  BY Holding DEF Held, OldCopies, CallsFor, Asked
<1>2. \A e : Held(e) \in Nat
  <2> TAKE e
  <2>1. Cardinality(Chosen(spine, {e})) \in Nat
    BY ChosenFinite
  <2>2. Cardinality(InHand(growing, {e})) \in Nat /\ Cardinality(Asked(growing, e)) \in Nat
    BY InHandFinite
  <2> QED BY <1>1, <2>1, <2>2
<1> QED BY <1>1, <1>2, Holding DEF OldPlaces

\* The same after a step.
LEMMA HeldIsNext ==
  ASSUME spine' \in Spines, growing' \in Seq(Frames)
  PROVE  /\ \A e : Held(e)' = Cardinality(Chosen(spine', {e})) + Cardinality(InHand(growing', {e}))
                              + Cardinality(Asked(growing', e))
         /\ Cardinality(OldPlaces') = Cardinality(InHand(growing', Elems))
<1>1. \A e : Held(e)' = Cardinality(Chosen(spine', {e})) + Cardinality(InHand(growing', {e}))
                        + Cardinality(Asked(growing', e))
  BY Holding DEF Held, OldCopies, CallsFor, Asked
<1> QED BY <1>1, Holding DEF OldPlaces

\* With no call under way there is nothing in hand.
LEMMA NothingInHand ==
  /\ \A D : Cardinality(InHand(<<>>, D)) = 0
  /\ \A e : Cardinality(Asked(<<>>, e)) = 0
  /\ <<>> \in Seq(Frames)
<1>1. \A D : InHand(<<>>, D) = {}
  BY DEF InHand
<1>2. \A e : Asked(<<>>, e) = {}
  BY DEF Asked
<1>3. Cardinality({}) = 0
  BY FS_EmptySet
<1>4. <<>> \in Seq(Frames)
  OBVIOUS
<1> QED BY <1>1, <1>2, <1>3, <1>4, Zenon

\* The copies of all elements, counted one element after the other, are the places.
AllCopies(b) == UNION {{e} \X (1..b[e]) : e \in Elems}

LEMMA CopiesCounted ==
  ASSUME NEW s \in Spines, NEW b, \A e \in Elems : b[e] = Cardinality(Chosen(s, {e}))
  PROVE  Cardinality(AllCopies(b)) = Cardinality(Places(s))
<1> DEFINE T == UNION {{e} \X (1..b[e]) : e \in Elems}  C(e) == Chosen(s, {e})
           B(e) == Bijection(1..b[e], C(e))
           H == [e \in Elems |-> CHOOSE h : h \in B(e)]
           f == [r \in T |-> H[r[1]][r[2]]]
<1>1. \A e \in Elems : H[e] \in B(e)
  <2> TAKE e \in Elems
  <2>1. IsFiniteSet(C(e))
    BY ChosenFinite
  <2>2. ExistsBijection(1..b[e], C(e))
    BY <2>1, FS_CardinalityType
  <2>3. \E h : h \in B(e)
    BY <2>2 DEF ExistsBijection
  <2> HIDE DEF B
  <2> QED BY <2>3
<1> HIDE DEF H
<1>2. \A e \in Elems : /\ H[e] \in [1..b[e] -> C(e)]
                       /\ \A j, k \in 1..b[e] : H[e][j] = H[e][k] => j = k
                       /\ \A q \in C(e) : \E j \in 1..b[e] : H[e][j] = q
  BY <1>1 DEF Bijection, Injection, IsInjective, Surjection
<1>3. \A e, j : <<e, j>> \in T <=> e \in Elems /\ j \in 1..b[e]
  OBVIOUS
<1>4. \A r \in T : r = <<r[1], r[2]>> /\ r[1] \in Elems /\ r[2] \in 1..b[r[1]]
  OBVIOUS
<1>5. \A e : \A q \in C(e) : q \in Places(s) /\ s[q[1]][q[2]] = e
  BY DEF Chosen
<1>6. \A q \in Places(s) : s[q[1]][q[2]] \in Elems /\ q \in C(s[q[1]][q[2]])
  <2> TAKE q \in Places(s)
  <2>1. q \in Chosen(s, Elems)
    BY AllChosen
  <2> QED BY <2>1 DEF Chosen
<1> HIDE DEF T, C
<1>7. \A r \in T : f[r] = H[r[1]][r[2]] /\ f[r] \in C(r[1])
  <2> TAKE r \in T
  <2>1. r[1] \in Elems /\ r[2] \in 1..b[r[1]]
    BY <1>4
  <2>2. H[r[1]][r[2]] \in C(r[1])
    BY <1>2, <2>1
  <2> QED BY <2>2
<1>8. f \in [T -> Places(s)]
  BY <1>5, <1>7
<1>9. \A r \in T : s[f[r][1]][f[r][2]] = r[1]
  BY <1>5, <1>7
<1> HIDE DEF f
<1>10. \A r, q \in T : f[r] = f[q] => r = q
  <2> SUFFICES ASSUME NEW r \in T, NEW q \in T, f[r] = f[q] PROVE r = q
    OBVIOUS
  <2>1. r[1] = q[1]
    BY <1>9
  <2>2. r[2] = q[2]
    BY <1>2, <1>4, <1>7, <2>1
  <2> QED BY <1>4, <2>1, <2>2
<1>11. \A p \in Places(s) : \E r \in T : f[r] = p
  <2> TAKE p \in Places(s)
  <2> DEFINE e == s[p[1]][p[2]]
  <2>1. e \in Elems /\ p \in C(e)
    BY <1>6
  <2> HIDE DEF e
  <2>2. PICK j \in 1..b[e] : H[e][j] = p
    BY <1>2, <2>1
  <2>3. <<e, j>> \in T
    BY <1>3, <2>1
  <2>4. f[<<e, j>>] = p
    BY <1>7, <2>2, <2>3
  <2> QED BY <2>3, <2>4
<1>12. f \in Injection(T, Places(s))
  BY <1>8, <1>10 DEF Injection, IsInjective
<1>13. f \in Surjection(T, Places(s))
  BY <1>8, <1>11 DEF Surjection
<1>14. ExistsBijection(T, Places(s))
  BY <1>12, <1>13 DEF Bijection, ExistsBijection
<1>15. ExistsBijection(Places(s), T)
  BY <1>14, Fun_ExistsBijSymmetric
<1>16. IsFiniteSet(Places(s))
  BY ChosenFinite
<1> QED BY <1>15, <1>16, FS_Bijection DEF T, AllCopies

-----------------------------------------------------------------------------
(* The invariant, and the steps of the bag. *)

\* While a table grows nothing it gets goes uncounted.  So the inner table, which was
\* found full by a true count, is refilled with too little to be found full again: it
\* can be overfull by the elements that go in without a second look only.
Load ==
  /\ Lag /\ NestsOnce
  /\ growing # <<>> => exists /\ missed = 0
  /\ Len(growing) = 1 => SpineSize(spine) >= 2 /\ 3 * (currSize - 1) <= 4 * SpineSize(spine)
  /\ Len(growing) = 2 =>
       /\ SpineSize(spine) >= 4
       /\ 3 * (currSize + Cardinality(Places(growing[2].old))) <= 2 * SpineSize(spine) + 6

Inv == Typed /\ Ordered(spine) /\ Placed(spine) /\ Load

CountNow == currSize + Cardinality(OldPlaces) + Len(growing)

\* What the bag does not see.
LEMMA SameBag ==
  ASSUME \A e : Held(e)' = Held(e), CountNow' = CountNow, found' = found
  PROVE  UNCHANGED Bag!vars
<1>1. [e \in Elems |-> Held(e)]' = [e \in Elems |-> Held(e)]
  OBVIOUS
<1> QED BY <1>1 DEF Bag!vars, CountNow

\* One copy of an element more, and a count that is one more or the number of all.
LEMMA OneMoreInBag ==
  ASSUME NEW e \in Elems, \A x : Held(x)' = Held(x) + (IF x = e THEN 1 ELSE 0), found' = Nothing,
         CountNow' \in {CountNow + 1, Bag!Total + 1}, \A x : Held(x) \in Nat
  PROVE  Bag!Add(e)
<1> DEFINE b == [x \in Elems |-> Held(x)]
<1>1. b' = [x \in Elems |-> Held(x)']
  OBVIOUS
<1>2. \A x \in Elems : b[x] = Held(x)
  OBVIOUS
<1>3. DOMAIN b = Elems
  OBVIOUS
<1>4. \A x \in Elems : Held(x)' = Held(x) + (IF x = e THEN 1 ELSE 0)
  OBVIOUS
<1>5. b' = [b EXCEPT ![e] = @ + 1]
  <2>1. \A x \in Elems : Held(x)' = IF x = e THEN b[e] + 1 ELSE b[x]
    BY <1>2, <1>4
  <2> HIDE DEF b
  <2>2. [b EXCEPT ![e] = @ + 1] = [x \in Elems |-> IF x = e THEN b[e] + 1 ELSE b[x]]
    BY <1>3
  <2> QED BY <1>1, <2>1, <2>2
<1> QED BY <1>5 DEF Bag!Add, CountNow

\* The bag counts with the same operator.
LEMMA CountedAlike == \A S : Bag!Cardinality(S) = Cardinality(S)
  BY DEF Bag!Cardinality, Cardinality

\* A bag of a table with no call under way has as many elements as there are places.
LEMMA TotalIs ==
  ASSUME Typed, growing = <<>>
  PROVE  /\ Bag!Total = Cardinality(Places(spine))
         /\ \A e : Held(e) = Cardinality(Chosen(spine, {e})) /\ Held(e) \in Nat
         /\ CountNow = currSize
<1>1. spine \in Spines /\ growing \in Seq(Frames)
  BY DEF Typed
<1>2. /\ \A e : Held(e) = Cardinality(Chosen(spine, {e})) + Cardinality(InHand(growing, {e}))
                          + Cardinality(Asked(growing, e))
      /\ \A e : Held(e) \in Nat
      /\ Cardinality(OldPlaces) = Cardinality(InHand(growing, Elems))
  BY <1>1, HeldIs
<1>3. \A e : Held(e) = Cardinality(Chosen(spine, {e}))
  <2> TAKE e
  <2>1. Cardinality(Chosen(spine, {e})) \in Nat
    BY <1>1, ChosenFinite
  <2>2. Cardinality(InHand(growing, {e})) = 0 /\ Cardinality(Asked(growing, e)) = 0
    BY NothingInHand
  <2> QED BY <1>2, <2>1, <2>2
<1>4. CountNow = currSize
  <2>1. Cardinality(OldPlaces) = 0
    BY <1>2, NothingInHand
  <2>2. Len(growing) = 0
    OBVIOUS
  <2> QED BY <2>1, <2>2 DEF CountNow, Typed
<1>5. Bag!Total = Cardinality(Places(spine))
  <2> DEFINE b == [e \in Elems |-> Held(e)]
  <2>1. \A e \in Elems : b[e] = Cardinality(Chosen(spine, {e}))
    BY <1>3
  <2>2. Bag!Total = Cardinality(AllCopies(b))
    BY CountedAlike DEF Bag!Total, AllCopies
  <2> HIDE DEF b
  <2>3. Cardinality(AllCopies(b)) = Cardinality(Places(spine))
    BY <1>1, <2>1, CopiesCounted, Zenon
  <2> QED BY <2>2, <2>3, Zenon
<1> QED BY <1>2, <1>3, <1>4, <1>5

\* How a table that was not full is after an insertion.
LEMMA NumbersOf ==
  ASSUME Inv, exists
  PROVE  /\ SpineSize(spine) \in Nat /\ SpineSize(spine) >= 1
         /\ Cardinality(Places(spine)) \in Nat
         /\ currSize + missed = Cardinality(Places(spine))
         /\ 3 * (currSize - 2) <= 4 * SpineSize(spine)
         /\ currSize \in Nat /\ missed \in Nat /\ Len(growing) \in Nat
<1>1. spine \in Spines /\ growing \in Seq(Frames) /\ currSize \in Nat /\ missed \in Nat
  BY DEF Inv, Typed
<1>2. SpineSize(spine) \in Nat /\ SpineSize(spine) >= 1
  BY <1>1, Sized DEF exists
<1>3. Cardinality(Places(spine)) \in Nat
  BY <1>1, ChosenFinite
<1> QED BY <1>1, <1>2, <1>3 DEF Inv, Load, Lag

\* addToHTComp called from outside.
LEMMA AddStep ==
  ASSUME Inv, NEW e \in Elems, Add(e)
  PROVE  Inv' /\ Bag!Add(e)
<1>1. /\ exists /\ growing = <<>> /\ growing \in Seq(Frames) /\ Typed /\ Ordered(spine) /\ Placed(spine)
      /\ spine \in Spines /\ addToHTComp(e, <<>>) /\ found' = Nothing
      /\ missed' = IF isFull THEN 0 ELSE missed
  BY DEF Add, Ready, Inv, Typed
<1>2. /\ SpineSize(spine) \in Nat /\ SpineSize(spine) >= 1 /\ currSize \in Nat /\ missed \in Nat
      /\ Cardinality(Places(spine)) \in Nat
      /\ currSize + missed = Cardinality(Places(spine))
  BY <1>1, NumbersOf
<1>3. /\ Bag!Total = Cardinality(Places(spine)) /\ CountNow = currSize
      /\ \A x : Held(x) = Cardinality(Chosen(spine, {x})) /\ Held(x) \in Nat
  BY <1>1, TotalIs
<1>4. CASE ~isFull
  <2>1. Insert(e) /\ growing' = <<>> /\ missed' = missed
    BY <1>1, <1>4 DEF addToHTComp
  <2>2. /\ spine' \in Spines /\ exists' /\ SpineSize(spine') = SpineSize(spine)
        /\ Ordered(spine') /\ Placed(spine') /\ currSize' = currSize + 1
        /\ \A D : Cardinality(Chosen(spine', D)) =
                    Cardinality(Chosen(spine, D)) + (IF e \in D THEN 1 ELSE 0)
        /\ Cardinality(Places(spine')) = Cardinality(Places(spine)) + 1
    BY <1>1, <2>1, InsertDoes
  <2>3. Typed'
    BY <1>1, <1>2, <2>1, <2>2 DEF Typed
  <2>4. Load'
    <3>1. 3 * currSize <= 4 * SpineSize(spine)
      BY <1>2, <1>4 DEF isFull
    <3>2. Len(growing') = 0
      BY <2>1
    <3>3. Lag'
      BY <1>2, <2>1, <2>2, <3>1 DEF Lag
    <3> QED BY <2>1, <3>2, <3>3 DEF Load, NestsOnce
  <2>5. \A x : Held(x)' = Held(x) + (IF x = e THEN 1 ELSE 0)
    <3> TAKE x
    <3>1. Held(x)' = Cardinality(Chosen(spine', {x}))
      <4>1. Held(x)' = Cardinality(Chosen(spine', {x})) + Cardinality(InHand(growing', {x}))
                       + Cardinality(Asked(growing', x))
        BY <2>2, <2>3, HeldIsNext DEF Typed
      <4>2. Cardinality(InHand(growing', {x})) = 0 /\ Cardinality(Asked(growing', x)) = 0
        BY <2>1, NothingInHand
      <4>3. Cardinality(Chosen(spine', {x})) \in Nat
        BY <2>2, ChosenFinite
      <4> QED BY <4>1, <4>2, <4>3
    <3> QED BY <1>3, <2>2, <3>1
  <2>6. CountNow' = CountNow + 1
    <3>1. Cardinality(OldPlaces') = 0
      BY <2>1, <2>2, <2>3, HeldIsNext, NothingInHand DEF Typed
    <3>2. Len(growing') = 0
      BY <2>1
    <3> QED BY <1>2, <1>3, <2>2, <3>1, <3>2 DEF CountNow
  <2> QED BY <1>1, <1>3, <2>2, <2>3, <2>4, <2>5, <2>6, OneMoreInBag DEF Inv
<1>5. CASE isFull
  <2>1. rehash(e, <<>>) /\ missed' = 0
    BY <1>1, <1>5 DEF addToHTComp
  <2>2. /\ spine' \in Spines /\ exists' /\ SpineSize(spine') = 2 * SpineSize(spine)
        /\ Ordered(spine') /\ Placed(spine') /\ currSize' = 0
        /\ \A D : Cardinality(Chosen(spine', D)) = 0
        /\ Cardinality(Places(spine')) = 0
        /\ growing' \in Seq(Frames) /\ Len(growing') = Len(<<>>) + 1
        /\ \A D : Cardinality(InHand(growing', D)) =
                    Cardinality(InHand(<<>>, D)) + Cardinality(Chosen(spine, D))
        /\ \A x : Cardinality(Asked(growing', x)) =
                    Cardinality(Asked(<<>>, x)) + (IF e = x THEN 1 ELSE 0)
    BY <1>1, <2>1, RehashDoes
  <2>3. Len(growing') = 1
    BY <2>2
  <2>4. Typed'
    BY <1>1, <2>1, <2>2 DEF Typed
  <2>5. Load'
    <3>1. Lag'
      BY <1>2, <2>1, <2>2 DEF Lag
    <3> QED BY <1>2, <2>1, <2>2, <2>3, <3>1 DEF Load, NestsOnce
  <2>6. \A x : Held(x)' = Held(x) + (IF x = e THEN 1 ELSE 0)
    <3> TAKE x
    <3>1. Held(x)' = Cardinality(Chosen(spine', {x})) + Cardinality(InHand(growing', {x}))
                     + Cardinality(Asked(growing', x))
      BY <2>2, HeldIsNext
    <3>2. Cardinality(InHand(growing', {x})) = Held(x)
      BY <1>3, <2>2, NothingInHand
    <3>3. Cardinality(Asked(growing', x)) = IF e = x THEN 1 ELSE 0
      BY <2>2, NothingInHand
    <3> QED BY <1>3, <2>2, <3>1, <3>2, <3>3
  <2>7. CountNow' = Bag!Total + 1
    <3>1. Cardinality(OldPlaces') = Cardinality(Chosen(spine, Elems))
      <4>1. Cardinality(Chosen(spine, Elems)) \in Nat
        BY <1>1, ChosenFinite
      <4> QED BY <2>2, <4>1, HeldIsNext, NothingInHand
    <3>2. Cardinality(Chosen(spine, Elems)) = Bag!Total
      BY <1>1, <1>3, AllChosen
    <3> QED BY <1>2, <1>3, <2>2, <2>3, <3>1, <3>2 DEF CountNow
  <2> QED BY <1>1, <1>3, <2>2, <2>4, <2>5, <2>6, <2>7, OneMoreInBag DEF Inv
<1> QED BY <1>4, <1>5

\* How far the calls of rehash can have got.
LEMMA Growing ==
  ASSUME Inv, growing # <<>>
  PROVE  /\ exists /\ missed = 0 /\ (Len(growing) = 1 \/ Len(growing) = 2)
         /\ Len(growing) = 1 => SpineSize(spine) >= 2 /\ 3 * (currSize - 1) <= 4 * SpineSize(spine)
         /\ Len(growing) = 2 =>
              /\ SpineSize(spine) >= 4
              /\ 3 * (currSize + Cardinality(Places(growing[2].old))) <= 2 * SpineSize(spine) + 6
<1>1. growing \in Seq(Frames) /\ Load
  BY DEF Inv, Typed
<1>2. Len(growing) \in Nat /\ Len(growing) # 0 /\ Len(growing) <= 2
  BY <1>1 DEF Load, NestsOnce
<1>3. \A n \in Nat : n # 0 /\ n <= 2 => n = 1 \/ n = 2
  OBVIOUS
<1>4. Len(growing) = 1 \/ Len(growing) = 2
  BY <1>2, <1>3, Zenon
<1> QED BY <1>1, <1>4, Zenon DEF Load

\* rehash's loop adds one element: the bag had it all along.
LEMMA LoopStep ==
  ASSUME Inv, RehashNext
  PROVE  Inv' /\ UNCHANGED Bag!vars
<1>1. /\ growing # <<>> /\ growing \in Seq(Frames) /\ Typed /\ Ordered(spine) /\ Placed(spine)
      /\ spine \in Spines /\ found' = found /\ missed' = missed
  BY DEF RehashNext, Inv, Typed
<1>2. /\ exists /\ missed = 0 /\ (Len(growing) = 1 \/ Len(growing) = 2)
      /\ Len(growing) = 1 => SpineSize(spine) >= 2 /\ 3 * (currSize - 1) <= 4 * SpineSize(spine)
      /\ Len(growing) = 2 =>
           /\ SpineSize(spine) >= 4
           /\ 3 * (currSize + Cardinality(Places(growing[2].old))) <= 2 * SpineSize(spine) + 6
  BY <1>1, Growing
<1>3. /\ SpineSize(spine) \in Nat /\ SpineSize(spine) >= 1 /\ currSize \in Nat
      /\ Cardinality(Places(spine)) = currSize
  BY <1>2, NumbersOf
<1>4. PICK i \in DOMAIN Last(growing).old :
        /\ Last(growing).old[i] # <<>>
        /\ addToHTComp(Head(Last(growing).old[i]),
                       Append(Front(growing), [Last(growing) EXCEPT !.old[i] = Tail(@)]))
  BY DEF RehashNext
<1> DEFINE x == Head(Last(growing).old[i])
           c == [Last(growing) EXCEPT !.old[i] = Tail(@)]
           h == Append(Front(growing), c)
<1>5. /\ x \in Elems /\ h \in Seq(Frames) /\ Len(h) = Len(growing) /\ addToHTComp(x, h)
      /\ Cardinality(Places(growing[Len(growing)].old)) = Cardinality(Places(h[Len(h)].old)) + 1
      /\ \A D : Cardinality(InHand(growing, D)) =
                  Cardinality(InHand(h, D)) + (IF x \in D THEN 1 ELSE 0)
      /\ \A y : Cardinality(Asked(growing, y)) = Cardinality(Asked(h, y))
  BY <1>1, <1>4, LoopDoes
<1> HIDE DEF x, c, h
<1>6. /\ \A y : Held(y) = Cardinality(Chosen(spine, {y})) + Cardinality(InHand(h, {y}))
                          + (IF x = y THEN 1 ELSE 0) + Cardinality(Asked(h, y))
      /\ Cardinality(OldPlaces) = Cardinality(InHand(h, Elems)) + 1
      /\ \A D : Cardinality(InHand(h, D)) \in Nat
      /\ \A y : Cardinality(Asked(h, y)) \in Nat
      /\ \A D : Cardinality(Chosen(spine, D)) \in Nat
  <2>1. /\ \A D : Cardinality(InHand(h, D)) \in Nat
        /\ \A y : Cardinality(Asked(h, y)) \in Nat
    BY <1>5, InHandFinite
  <2>2. \A D : Cardinality(Chosen(spine, D)) \in Nat
    BY <1>1, ChosenFinite
  <2>3. \A y : Held(y) = Cardinality(Chosen(spine, {y})) + Cardinality(InHand(h, {y}))
                         + (IF x = y THEN 1 ELSE 0) + Cardinality(Asked(h, y))
    <3> TAKE y
    <3>1. Held(y) = Cardinality(Chosen(spine, {y})) + Cardinality(InHand(growing, {y}))
                    + Cardinality(Asked(growing, y))
      BY <1>1, HeldIs
    <3>2. Cardinality(InHand(growing, {y})) = Cardinality(InHand(h, {y})) + (IF x = y THEN 1 ELSE 0)
      BY <1>5
    <3>3. Cardinality(Asked(growing, y)) = Cardinality(Asked(h, y))
      BY <1>5
    <3>4. /\ Cardinality(Chosen(spine, {y})) \in Nat /\ Cardinality(InHand(h, {y})) \in Nat
          /\ Cardinality(Asked(h, y)) \in Nat
      BY <2>1, <2>2
    <3> QED BY <3>1, <3>2, <3>3, <3>4
  <2>4. Cardinality(OldPlaces) = Cardinality(InHand(h, Elems)) + 1
    BY <1>1, <1>5, HeldIs
  <2> QED BY <2>1, <2>2, <2>3, <2>4
<1>7. CASE ~isFull
  <2>1. Insert(x) /\ growing' = h /\ 3 * currSize <= 4 * SpineSize(spine)
    BY <1>3, <1>5, <1>7 DEF addToHTComp, isFull
  <2>2. /\ spine' \in Spines /\ exists' /\ SpineSize(spine') = SpineSize(spine)
        /\ Ordered(spine') /\ Placed(spine') /\ currSize' = currSize + 1
        /\ \A D : Cardinality(Chosen(spine', D)) =
                    Cardinality(Chosen(spine, D)) + (IF x \in D THEN 1 ELSE 0)
        /\ Cardinality(Places(spine')) = Cardinality(Places(spine)) + 1
    BY <1>1, <1>2, <1>5, <2>1, InsertDoes
  <2>3. Typed'
    BY <1>1, <1>3, <1>5, <2>1, <2>2 DEF Typed
  <2>4. Load'
    <3>1. Lag'
      BY <1>1, <1>2, <1>3, <2>1, <2>2 DEF Lag
    <3>2. (Len(growing') = 1 \/ Len(growing') = 2) /\ Len(growing') = Len(growing) /\ exists' /\ missed' = 0
      BY <1>1, <1>2, <1>5, <2>1, <2>2
    <3>3. ASSUME Len(growing') = 1
          PROVE  SpineSize(spine') >= 2 /\ 3 * (currSize' - 1) <= 4 * SpineSize(spine')
      BY <1>2, <1>3, <2>1, <2>2, <3>2, <3>3
    <3>4. ASSUME Len(growing') = 2
          PROVE  /\ SpineSize(spine') >= 4
                 /\ 3 * (currSize' + Cardinality(Places(growing'[2].old))) <= 2 * SpineSize(spine') + 6
      <4>1. Cardinality(Places(growing[2].old)) = Cardinality(Places(growing'[2].old)) + 1
        BY <1>5, <2>1, <3>2, <3>4
      <4>2. Cardinality(Places(growing'[2].old)) \in Nat
        <5>1. growing'[2] \in Frames
          BY <1>5, <2>1, <3>4
        <5> QED BY <5>1, ChosenFinite DEF Frames
      <4> QED BY <1>2, <1>3, <2>2, <3>2, <3>4, <4>1, <4>2
    <3>5. NestsOnce'
      BY <3>2 DEF NestsOnce
    <3> QED BY <3>1, <3>2, <3>3, <3>4, <3>5, Zenon DEF Load
  <2>5. \A y : Held(y)' = Held(y)
    <3> TAKE y
    <3>1. Held(y)' = Cardinality(Chosen(spine', {y})) + Cardinality(InHand(h, {y}))
                     + Cardinality(Asked(h, y))
      BY <1>5, <2>1, <2>2, HeldIsNext
    <3>2. Cardinality(Chosen(spine', {y})) = Cardinality(Chosen(spine, {y})) + (IF x = y THEN 1 ELSE 0)
      BY <2>2
    <3>3. /\ Cardinality(Chosen(spine, {y})) \in Nat /\ Cardinality(InHand(h, {y})) \in Nat
          /\ Cardinality(Asked(h, y)) \in Nat
      BY <1>6
    <3> QED BY <1>6, <3>1, <3>2, <3>3
  <2>6. CountNow' = CountNow
    <3>1. Cardinality(OldPlaces') = Cardinality(InHand(h, Elems))
      BY <1>5, <2>1, <2>2, HeldIsNext
    <3>2. Len(growing') = Len(growing) /\ Len(growing) \in Nat
      BY <1>2, <1>5, <2>1
    <3>3. Cardinality(InHand(h, Elems)) \in Nat
      BY <1>6
    <3> QED BY <1>3, <1>6, <2>2, <3>1, <3>2, <3>3 DEF CountNow
  <2> QED BY <1>1, <2>2, <2>3, <2>4, <2>5, <2>6, SameBag DEF Inv
<1>8. CASE isFull
  <2>1. rehash(x, h) /\ 4 * SpineSize(spine) < 3 * currSize
    BY <1>5, <1>8 DEF addToHTComp, isFull
  <2>2. Len(growing) = 1
    <3> SUFFICES ASSUME Len(growing) = 2 PROVE FALSE
      BY <1>2
    <3>1. Cardinality(Places(growing[2].old)) \in Nat
      <4>1. \A g \in Seq(Frames) : Len(g) = 2 => g[2] \in Frames
        OBVIOUS
      <4>2. growing[2] \in Frames
        BY <1>1, <4>1, Zenon
      <4> QED BY <4>2, ChosenFinite DEF Frames
    <3> QED BY <1>2, <1>3, <2>1, <3>1
  <2>3. /\ spine' \in Spines /\ exists' /\ SpineSize(spine') = 2 * SpineSize(spine)
        /\ Ordered(spine') /\ Placed(spine') /\ currSize' = 0
        /\ \A D : Cardinality(Chosen(spine', D)) = 0
        /\ Cardinality(Places(spine')) = 0
        /\ growing' \in Seq(Frames) /\ Len(growing') = Len(h) + 1
        /\ growing'[Len(growing')].old = spine
        /\ \A D : Cardinality(InHand(growing', D)) =
                    Cardinality(InHand(h, D)) + Cardinality(Chosen(spine, D))
        /\ \A y : Cardinality(Asked(growing', y)) =
                    Cardinality(Asked(h, y)) + (IF x = y THEN 1 ELSE 0)
    BY <1>1, <1>2, <1>5, <2>1, RehashDoes
  <2>4. Len(growing') = 2 /\ Len(h) = 1
    <3>1. Len(h) = 1
      BY <1>5, <2>2, Zenon
    <3>2. Len(growing') = Len(h) + 1
      BY <2>3, Zenon
    <3> QED BY <3>1, <3>2
  <2>5. Typed'
    BY <1>1, <1>2, <2>3 DEF Typed
  <2>6. Load'
    <3>1. Lag'
      BY <1>1, <1>2, <1>3, <2>3 DEF Lag
    <3>2. SpineSize(spine') >= 4
      BY <1>2, <1>3, <2>2, <2>3
    <3>3. growing'[2].old = spine
      BY <2>3, <2>4
    <3>4. 3 * (currSize' + Cardinality(Places(growing'[2].old))) <= 2 * SpineSize(spine') + 6
      BY <1>2, <1>3, <2>2, <2>3, <3>3
    <3> QED BY <1>1, <1>2, <2>3, <2>4, <3>1, <3>2, <3>4 DEF Load, NestsOnce
  <2>7. \A y : Held(y)' = Held(y)
    <3> TAKE y
    <3>1. Held(y)' = Cardinality(Chosen(spine', {y})) + Cardinality(InHand(growing', {y}))
                     + Cardinality(Asked(growing', y))
      BY <2>3, HeldIsNext
    <3>2. /\ Cardinality(Chosen(spine', {y})) = 0
          /\ Cardinality(InHand(growing', {y})) =
               Cardinality(InHand(h, {y})) + Cardinality(Chosen(spine, {y}))
          /\ Cardinality(Asked(growing', y)) = Cardinality(Asked(h, y)) + (IF x = y THEN 1 ELSE 0)
      BY <2>3
    <3>3. /\ Cardinality(Chosen(spine, {y})) \in Nat /\ Cardinality(InHand(h, {y})) \in Nat
          /\ Cardinality(Asked(h, y)) \in Nat
      BY <1>6
    <3> QED BY <1>6, <3>1, <3>2, <3>3
  <2>8. CountNow' = CountNow
    <3>1. Cardinality(OldPlaces') = Cardinality(InHand(h, Elems)) + Cardinality(Chosen(spine, Elems))
      BY <2>3, HeldIsNext
    <3>2. Cardinality(Chosen(spine, Elems)) = currSize
      BY <1>1, <1>3, AllChosen
    <3>3. Cardinality(InHand(h, Elems)) \in Nat
      BY <1>6
    <3> QED BY <1>3, <1>6, <2>2, <2>3, <2>4, <3>1, <3>2, <3>3 DEF CountNow
  <2> QED BY <1>1, <2>3, <2>5, <2>6, <2>7, <2>8, SameBag DEF Inv
<1> QED BY <1>7, <1>8

\* rehash returns: its element goes in.
LEMMA DoneStep ==
  ASSUME Inv, RehashDone
  PROVE  Inv' /\ UNCHANGED Bag!vars
<1> DEFINE h == Front(growing)  x == Last(growing).elem
<1>1. /\ growing # <<>> /\ growing \in Seq(Frames) /\ Typed /\ Ordered(spine) /\ Placed(spine)
      /\ spine \in Spines /\ found' = found /\ missed' = missed
      /\ Places(Last(growing).old) = {} /\ Insert(x) /\ growing' = h
  BY DEF RehashDone, Inv, Typed
<1>2. /\ exists /\ missed = 0 /\ (Len(growing) = 1 \/ Len(growing) = 2)
      /\ Len(growing) = 1 => SpineSize(spine) >= 2 /\ 3 * (currSize - 1) <= 4 * SpineSize(spine)
      /\ Len(growing) = 2 =>
           /\ SpineSize(spine) >= 4
           /\ 3 * (currSize + Cardinality(Places(growing[2].old))) <= 2 * SpineSize(spine) + 6
  BY <1>1, Growing
<1>3. /\ SpineSize(spine) \in Nat /\ SpineSize(spine) >= 1 /\ currSize \in Nat
      /\ Cardinality(Places(spine)) = currSize
  BY <1>2, NumbersOf
<1>4. /\ h \in Seq(Frames) /\ Len(h) = Len(growing) - 1 /\ x \in Elems
      /\ \A D : Cardinality(InHand(growing, D)) = Cardinality(InHand(h, D))
      /\ \A y : Cardinality(Asked(growing, y)) = Cardinality(Asked(h, y)) + (IF x = y THEN 1 ELSE 0)
  BY <1>1, DoneHas
<1>5. Len(growing) = 2 => Cardinality(Places(growing[2].old)) = 0
  <2>1. growing[Len(growing)] = Last(growing)
    BY <1>1, Innermost
  <2>2. Cardinality({}) = 0
    BY FS_EmptySet
  <2> QED BY <1>1, <2>1, <2>2
<1> HIDE DEF h, x
<1>6. /\ spine' \in Spines /\ exists' /\ SpineSize(spine') = SpineSize(spine)
      /\ Ordered(spine') /\ Placed(spine') /\ currSize' = currSize + 1
      /\ \A D : Cardinality(Chosen(spine', D)) =
                  Cardinality(Chosen(spine, D)) + (IF x \in D THEN 1 ELSE 0)
      /\ Cardinality(Places(spine')) = Cardinality(Places(spine)) + 1
  BY <1>1, <1>2, <1>4, InsertDoes
<1>7. Typed'
  BY <1>1, <1>3, <1>4, <1>6 DEF Typed
<1>8. Load'
  <2>1. (Len(growing') = 0 \/ Len(growing') = 1) /\ Len(growing') = Len(growing) - 1
    BY <1>1, <1>2, <1>4
  <2>2. 3 * (currSize - 1) <= 4 * SpineSize(spine)
    BY <1>2, <1>3, <1>5
  <2>3. Lag'
    BY <1>1, <1>2, <1>3, <1>6, <2>2 DEF Lag
  <2>4. Len(growing') = 1 => SpineSize(spine') >= 2 /\ 3 * (currSize' - 1) <= 4 * SpineSize(spine')
    <3> SUFFICES ASSUME Len(growing') = 1
                 PROVE  SpineSize(spine') >= 2 /\ 3 * (currSize' - 1) <= 4 * SpineSize(spine')
      OBVIOUS
    <3>1. Len(growing) = 2
      <4>1. 1 - 1 # 1
        OBVIOUS
      <4> QED BY <1>2, <2>1, <4>1, Zenon
    <3>2. SpineSize(spine) >= 4 /\ 3 * currSize <= 2 * SpineSize(spine) + 6
      BY <1>2, <1>3, <1>5, <3>1
    <3>3. SpineSize(spine') = SpineSize(spine) /\ currSize' = currSize + 1
      BY <1>6
    <3> QED BY <1>3, <3>2, <3>3
  <2>5. Len(growing') # 2 /\ Len(growing') <= 2
    BY <2>1
  <2> QED BY <1>1, <1>2, <1>6, <2>3, <2>4, <2>5 DEF Load, NestsOnce
<1>9. \A y : Held(y)' = Held(y)
  <2> TAKE y
  <2>1. Held(y) = Cardinality(Chosen(spine, {y})) + Cardinality(InHand(growing, {y}))
                  + Cardinality(Asked(growing, y))
    BY <1>1, HeldIs
  <2>2. Held(y)' = Cardinality(Chosen(spine', {y})) + Cardinality(InHand(h, {y}))
                   + Cardinality(Asked(h, y))
    BY <1>1, <1>4, <1>6, HeldIsNext
  <2>3. Cardinality(Chosen(spine', {y})) = Cardinality(Chosen(spine, {y})) + (IF x = y THEN 1 ELSE 0)
    BY <1>6
  <2>4. /\ Cardinality(InHand(growing, {y})) = Cardinality(InHand(h, {y}))
        /\ Cardinality(Asked(growing, y)) = Cardinality(Asked(h, y)) + (IF x = y THEN 1 ELSE 0)
    BY <1>4
  <2>5. Cardinality(Chosen(spine, {y})) \in Nat
    BY <1>1, ChosenFinite
  <2>6. Cardinality(InHand(h, {y})) \in Nat /\ Cardinality(Asked(h, y)) \in Nat
    BY <1>4, InHandFinite
  <2> QED BY <2>1, <2>2, <2>3, <2>4, <2>5, <2>6
<1>10. CountNow' = CountNow
  <2>1. Cardinality(OldPlaces') = Cardinality(InHand(h, Elems))
    BY <1>1, <1>4, <1>6, HeldIsNext
  <2>2. Cardinality(OldPlaces) = Cardinality(InHand(h, Elems))
    BY <1>1, <1>4, HeldIs
  <2>3. Len(growing') = Len(growing) - 1 /\ Len(growing) \in Nat
    BY <1>1, <1>2, <1>4
  <2>4. Cardinality(InHand(h, Elems)) \in Nat
    BY <1>4, InHandFinite
  <2> QED BY <1>3, <1>6, <2>1, <2>2, <2>3, <2>4 DEF CountNow
<1> QED BY <1>1, <1>6, <1>7, <1>8, <1>9, <1>10, SameBag DEF Inv

-----------------------------------------------------------------------------
(* Searching, and the calls that search. *)

\* What the bag stores has a place.
LEMMA StoredHasAPlace ==
  ASSUME Typed, growing = <<>>, NEW y \in Elems
  PROVE  y \in Bag!Stored <=> \E q \in Places(spine) : spine[q[1]][q[2]] = y
<1>1. Held(y) = Cardinality(Chosen(spine, {y})) /\ Held(y) \in Nat
  BY TotalIs
<1>2. IsFiniteSet(Chosen(spine, {y}))
  BY ChosenFinite DEF Typed
<1>3. Cardinality(Chosen(spine, {y})) = 0 <=> Chosen(spine, {y}) = {}
  BY <1>2, FS_EmptySet
<1>4. Chosen(spine, {y}) # {} <=> \E q \in Places(spine) : spine[q[1]][q[2]] = y
  BY DEF Chosen
<1>5. Held(y) > 0 <=> Chosen(spine, {y}) # {}
  <2>1. \A n \in Nat : n > 0 <=> n # 0
    OBVIOUS
  <2> QED BY <1>1, <1>3, <2>1, Zenon
<1>6. y \in Bag!Stored <=> Held(y) > 0
  <2>1. [x \in Elems |-> Held(x)][y] = Held(y)
    OBVIOUS
  <2> QED BY <2>1 DEF Bag!Stored
<1> QED BY <1>4, <1>5, <1>6, Zenon

\* findNode in the bucket an element hashes to: it stops at nothing only when no equal
\* element is stored anywhere, and it stops at an equal one if there is one.
LEMMA Stops ==
  ASSUME Inv, Ready, NEW e \in Elems
  PROVE  LET i == getTablePosForElem(e)  b == spine[i]  p == FoundPos(Key, b, e) IN
         /\ i \in DOMAIN spine /\ b \in Seq(Elems) /\ Len(b) \in Nat /\ Descending(Key, b)
         /\ AtMost(Key, b, e) = {} => Bag!EqualTo(e) = {}
         /\ AtMost(Key, b, e) # {} =>
              /\ p \in 1..Len(b) /\ b[p] \in Elems
              /\ b[p] \in IF Bag!EqualTo(e) # {} THEN Bag!EqualTo(e) ELSE Bag!Below(e)
<1> DEFINE i == getTablePosForElem(e)  b == spine[i]  p == FoundPos(Key, b, e)
<1>1. /\ spine \in Spines /\ Typed /\ growing = <<>> /\ DOMAIN spine # {}
      /\ Ordered(spine) /\ Placed(spine)
  BY DEF Inv, Typed, Ready, exists
<1>2. i \in DOMAIN spine /\ i = Hash[e] % SpineSize(spine)
  BY <1>1, BucketOf DEF getTablePosForElem
<1>3. b \in Seq(Elems) /\ Len(b) \in Nat /\ Descending(Key, b) /\ \A j \in 1..Len(b) : b[j] \in Elems
  BY <1>1, <1>2, PlacesAre, ElementOfSeq DEF Ordered
<1>4. \A y \in Elems : Key[y] \in Nat
  BY KeyAssumption
<1> HIDE DEF i
<1>5. ASSUME NEW y \in Bag!EqualTo(e)
      PROVE  \E j \in AtMost(Key, b, e) : Key[b[j]] = Key[e]
  <2>1. y \in Elems /\ y \in Bag!Stored /\ Key[y] = Key[e]
    BY DEF Bag!EqualTo, Bag!Stored
  <2>2. PICK q \in Places(spine) : spine[q[1]][q[2]] = y
    BY <1>1, <2>1, StoredHasAPlace
  <2>3. q[1] \in DOMAIN spine /\ q[2] \in 1..Len(spine[q[1]])
    BY <1>1, PlacesAre
  <2>4. Hash[y] % SpineSize(spine) = q[1]
    BY <1>1, <2>2, <2>3 DEF Placed
  <2>5. Hash[y] = Hash[e]
    BY <2>1, HashAssumption
  <2>6. q[1] = i
    BY <1>2, <2>4, <2>5
  <2>7. q[2] \in 1..Len(b) /\ Key[b[q[2]]] = Key[e]
    BY <2>1, <2>2, <2>3, <2>6
  <2> QED BY <1>4, <2>7 DEF AtMost
<1>6. AtMost(Key, b, e) = {} => Bag!EqualTo(e) = {}
  BY <1>5
<1>7. ASSUME AtMost(Key, b, e) # {}
      PROVE  /\ p \in 1..Len(b) /\ b[p] \in Elems
             /\ b[p] \in IF Bag!EqualTo(e) # {} THEN Bag!EqualTo(e) ELSE Bag!Below(e)
  <2>1. p \in AtMost(Key, b, e) /\ \A j \in AtMost(Key, b, e) : p <= j
    BY <1>3, <1>7, FoundIsFirst
  <2> HIDE DEF p
  <2>2. p \in 1..Len(b) /\ b[p] \in Elems /\ Key[b[p]] <= Key[e] /\ Key[b[p]] \in Nat /\ Key[e] \in Nat
    BY <1>3, <1>4, <2>1 DEF AtMost
  <2>3. b[p] \in Bag!Stored
    <3>1. <<i, p>> \in Places(spine) /\ spine[<<i, p>>[1]][<<i, p>>[2]] = b[p]
      BY <1>1, <1>2, <2>2, PlacesAre
    <3> QED BY <1>1, <2>2, <3>1, StoredHasAPlace
  <2>4. CASE Bag!EqualTo(e) # {}
    <3>1. PICK j \in AtMost(Key, b, e) : Key[b[j]] = Key[e]
      BY <1>5, <2>4
    <3>2. j \in 1..Len(b) /\ p <= j
      BY <2>1, <3>1 DEF AtMost
    <3>3. Key[b[p]] >= Key[e]
      BY <1>3, <2>2, <3>1, <3>2 DEF Descending
    <3> QED BY <2>2, <2>3, <2>4, <3>3 DEF Bag!EqualTo
  <2>5. CASE Bag!EqualTo(e) = {}
    <3>1. Key[b[p]] # Key[e]
      BY <2>3, <2>5 DEF Bag!EqualTo
    <3>2. b[p] \in Bag!Below(e)
      BY <2>2, <2>3, <3>1 DEF Bag!Below
    <3> QED BY <2>2, <2>5, <3>2
  <2> QED BY <2>4, <2>5
<1> QED BY <1>2, <1>3, <1>6, <1>7 DEF i

\* One copy of an element less.
LEMMA OneLessInBag ==
  ASSUME NEW e \in Elems, NEW x \in Elems,
         \A y : Held(y)' = Held(y) - (IF y = x THEN 1 ELSE 0), \A y : Held(y) \in Nat,
         x \in IF Bag!EqualTo(e) # {} THEN Bag!EqualTo(e) ELSE Bag!Below(e),
         CountNow > 0, CountNow' = CountNow - 1, found' = Nothing
  PROVE  Bag!Remove(e)
<1> DEFINE b == [y \in Elems |-> Held(y)]
<1>1. b' = [y \in Elems |-> Held(y)']
  OBVIOUS
<1>2. \A y \in Elems : b[y] = Held(y)
  OBVIOUS
<1>3. DOMAIN b = Elems
  OBVIOUS
<1>4. \A y \in Elems : Held(y)' = Held(y) - (IF y = x THEN 1 ELSE 0)
  OBVIOUS
<1>5. b' = [b EXCEPT ![x] = @ - 1]
  <2>1. \A y \in Elems : Held(y)' = IF y = x THEN b[x] - 1 ELSE b[y]
    BY <1>2, <1>4
  <2> HIDE DEF b
  <2>2. [b EXCEPT ![x] = @ - 1] = [y \in Elems |-> IF y = x THEN b[x] - 1 ELSE b[y]]
    BY <1>3
  <2> QED BY <1>1, <2>1, <2>2
<1> QED BY <1>5 DEF Bag!Remove, CountNow

\* With no call under way after a step, the bag is what the table has.
LEMMA QuietNext ==
  ASSUME spine' \in Spines, growing' = <<>>, currSize' \in Nat
  PROVE  /\ \A x : Held(x)' = Cardinality(Chosen(spine', {x}))
         /\ CountNow' = currSize'
<1>1. \A x : Held(x)' = Cardinality(Chosen(spine', {x}))
  <2> TAKE x
  <2>1. Held(x)' = Cardinality(Chosen(spine', {x})) + Cardinality(InHand(growing', {x}))
                   + Cardinality(Asked(growing', x))
    BY NothingInHand, HeldIsNext
  <2>2. Cardinality(InHand(growing', {x})) = 0 /\ Cardinality(Asked(growing', x)) = 0
    BY NothingInHand
  <2>3. Cardinality(Chosen(spine', {x})) \in Nat
    BY ChosenFinite
  <2> QED BY <2>1, <2>2, <2>3
<1>2. Cardinality(OldPlaces') = 0 /\ Len(growing') = 0
  BY NothingInHand, HeldIsNext
<1>3. CountNow' = currSize' + Cardinality(OldPlaces') + Len(growing')
  BY DEF CountNow
<1>4. CountNow' = currSize'
  <2>1. \A n \in Nat : n + 0 + 0 = n
    OBVIOUS
  <2> QED BY <1>2, <1>3, <2>1, Zenon
<1> QED BY <1>1, <1>4, Zenon

\* removeFromHTComp.
LEMMA RemoveStep ==
  ASSUME Inv, NEW e \in Elems, removeFromHTComp(e)
  PROVE  Inv' /\ (Bag!Refuse \/ Bag!Remove(e))
<1> DEFINE i == getTablePosForElem(e)  b == spine[i]  p == FoundPos(Key, b, e)
           rest == RemoveFound(Key, b, e)
<1>1. /\ Ready /\ exists /\ growing = <<>> /\ growing \in Seq(Frames)
      /\ Typed /\ Ordered(spine) /\ Placed(spine)
      /\ spine \in Spines /\ growing' = <<>> /\ found' = Nothing
  BY DEF removeFromHTComp, Ready, Inv, Typed
<1>2. /\ SpineSize(spine) \in Nat /\ currSize \in Nat /\ missed \in Nat
      /\ Cardinality(Places(spine)) \in Nat
      /\ currSize + missed = Cardinality(Places(spine))
      /\ 3 * (currSize - 2) <= 4 * SpineSize(spine)
  BY <1>1, NumbersOf
<1>3. /\ i \in DOMAIN spine /\ b \in Seq(Elems) /\ Len(b) \in Nat /\ Descending(Key, b)
      /\ AtMost(Key, b, e) = {} => Bag!EqualTo(e) = {}
      /\ AtMost(Key, b, e) # {} =>
           /\ p \in 1..Len(b) /\ b[p] \in Elems
           /\ b[p] \in IF Bag!EqualTo(e) # {} THEN Bag!EqualTo(e) ELSE Bag!Below(e)
  BY <1>1, Stops
<1>4. /\ CountNow = currSize
      /\ \A x : Held(x) = Cardinality(Chosen(spine, {x})) /\ Held(x) \in Nat
  BY <1>1, TotalIs
<1> HIDE DEF i, b, p
<1>5. CASE currSize = 0
  <2>1. UNCHANGED <<spine, currSize, missed, growing>> /\ found' = Nothing
    BY <1>1, <1>5 DEF removeFromHTComp
  <2>2. Inv'
    <3>1. Typed' /\ Ordered(spine') /\ Placed(spine')
      BY <1>1, <2>1 DEF Typed
    <3>2. Load'
      BY <2>1 DEF Inv, Load, Lag, NestsOnce, exists
    <3> QED BY <3>1, <3>2 DEF Inv
  <2>3. UNCHANGED [x \in Elems |-> Held(x)] /\ CountNow' = CountNow
    BY <2>1 DEF Held, Copies, OldCopies, CallsFor, CountNow, OldPlaces, Places
  <2>4. Bag!Refuse
    BY <1>4, <1>5, <2>1, <2>3 DEF Bag!Refuse, CountNow
  <2> QED BY <2>2, <2>4
<1>6. CASE currSize # 0 /\ AtMost(Key, b, e) = {}
  <2>1. /\ spine' = [spine EXCEPT ![i] = b] /\ currSize' = currSize - 1 /\ missed' = missed + 1
    BY <1>6 DEF removeFromHTComp, RemoveFound, i, b
  <2>2. spine' = spine
    BY <1>1, <1>3, <2>1 DEF b, Spines
  <2>3. currSize' \in Nat /\ missed' \in Nat
    BY <1>2, <1>6, <2>1
  <2>4. Inv'
    <3>1. Typed' /\ Ordered(spine') /\ Placed(spine')
      BY <1>1, <2>2, <2>3 DEF Typed
    <3>2. Lag'
      BY <1>2, <2>1, <2>2 DEF Lag
    <3>3. Len(growing') = 0
      BY <1>1
    <3> QED BY <1>1, <3>1, <3>2, <3>3 DEF Inv, Load, NestsOnce
  <2>5. UNCHANGED [x \in Elems |-> Held(x)]
    BY <1>1, <2>2 DEF Held, Copies, OldCopies, CallsFor, Places
  <2>6. CountNow' = CountNow - 1
    BY <1>1, <1>2, <1>4, <2>1, <2>2, <2>3, QuietNext
  <2>7. Bag!Remove(e)
    <3>1. CountNow > 0
      BY <1>2, <1>4, <1>6
    <3> QED BY <1>1, <1>3, <1>6, <2>5, <2>6, <3>1 DEF Bag!Remove, CountNow
  <2> QED BY <2>4, <2>7
<1>7. CASE currSize # 0 /\ AtMost(Key, b, e) # {}
  <2>1. /\ p \in 1..Len(b) /\ b[p] \in Elems
        /\ b[p] \in IF Bag!EqualTo(e) # {} THEN Bag!EqualTo(e) ELSE Bag!Below(e)
    BY <1>3, <1>7
  <2>2. RemoveFound(Key, b, e) = RemoveAt(b, p)
    BY <1>7 DEF RemoveFound, p
  <2>3. /\ RemoveAt(b, p) \in Seq(Elems) /\ Len(RemoveAt(b, p)) = Len(b) - 1
        /\ Descending(Key, RemoveAt(b, p))
    <3>1. RemoveAt(b, p) \in Seq(Elems) /\ Len(RemoveAt(b, p)) = Len(b) - 1
      BY <1>3, <2>1, RemovedAt
    <3>2. Descending(Key, RemoveFound(Key, b, e))
      BY <1>3, KeyAssumption, RemovalKeepsOrder
    <3> QED BY <2>2, <3>1, <3>2
  <2>4. RemoveAt(b, p) # b
    BY <1>3, <2>3
  <2>5. /\ spine' = [spine EXCEPT ![i] = RemoveAt(b, p)] /\ currSize' = currSize - 1
        /\ missed' = missed
    BY <1>2, <1>7, <2>2, <2>4 DEF removeFromHTComp, i, b
  <2>6. /\ spine' \in Spines /\ DOMAIN spine' = DOMAIN spine /\ SpineSize(spine') = SpineSize(spine)
        /\ OneMore(spine, spine', i, p, b[p]) /\ Placed(spine')
    BY <1>1, <1>3, <2>1, <2>5, TakenOut DEF b
  <2>7. Ordered(spine')
    BY <1>1, <1>3, <2>3, <2>5, Changed DEF Ordered
  <2>8. \A D : /\ Cardinality(Chosen(spine, D)) =
                    Cardinality(Chosen(spine', D)) + (IF b[p] \in D THEN 1 ELSE 0)
               /\ Cardinality(Chosen(spine', D)) \in Nat
    BY <2>6, OneMoreCounted, ChosenFinite
  <2>9. Cardinality(Places(spine)) = Cardinality(Places(spine')) + 1
    BY <1>1, <2>1, <2>6, <2>8, AllChosen
  <2>10. currSize' \in Nat /\ Cardinality(Places(spine')) \in Nat
    BY <1>2, <1>7, <2>5, <2>6, ChosenFinite
  <2>11. Inv'
    <3>1. Typed'
      BY <1>1, <2>5, <2>6, <2>10 DEF Typed
    <3>2. Lag'
      BY <1>2, <2>5, <2>6, <2>9, <2>10 DEF Lag
    <3>3. Len(growing') = 0
      BY <1>1
    <3> QED BY <1>1, <2>6, <2>7, <3>1, <3>2, <3>3 DEF Inv, Load, NestsOnce
  <2>12. \A x : Held(x)' = Held(x) - (IF x = b[p] THEN 1 ELSE 0)
    <3> TAKE x
    <3>1. Held(x)' = Cardinality(Chosen(spine', {x}))
      BY <1>1, <2>6, <2>10, QuietNext
    <3>2. Held(x) = Cardinality(Chosen(spine, {x}))
      BY <1>4
    <3>3. /\ Cardinality(Chosen(spine, {x})) =
               Cardinality(Chosen(spine', {x})) + (IF x = b[p] THEN 1 ELSE 0)
          /\ Cardinality(Chosen(spine', {x})) \in Nat
      BY <2>8
    <3> QED BY <3>1, <3>2, <3>3
  <2>13. CountNow > 0 /\ CountNow' = CountNow - 1
    BY <1>1, <1>2, <1>4, <1>7, <2>5, <2>6, <2>10, QuietNext
  <2>14. \A x : Held(x) \in Nat
    BY <1>4
  <2>15. Bag!Remove(e)
    BY <1>1, <2>1, <2>12, <2>13, <2>14, OneLessInBag
  <2> QED BY <2>11, <2>15
<1> QED BY <1>5, <1>6, <1>7

\* getHTElemComp.
LEMMA GetStep ==
  ASSUME Inv, NEW e \in Elems, getHTElemComp(e)
  PROVE  Inv' /\ Bag!Get(e)
<1> DEFINE i == getTablePosForElem(e)  b == spine[i]  p == FoundPos(Key, b, e)
<1>1. Ready /\ found' = LookUp(e) /\ UNCHANGED <<spine, currSize, growing, missed>>
  BY DEF getHTElemComp
<1>2. /\ AtMost(Key, b, e) = {} => Bag!EqualTo(e) = {}
      /\ AtMost(Key, b, e) # {} =>
           /\ b[p] \in Elems
           /\ b[p] \in IF Bag!EqualTo(e) # {} THEN Bag!EqualTo(e) ELSE Bag!Below(e)
  BY <1>1, Stops
<1>3. LookUp(e) = IF AtMost(Key, b, e) = {} THEN Nothing ELSE b[p]
  BY DEF LookUp
<1> HIDE DEF i, b, p
<1>4. found' \in Elems \cup {Nothing}
  BY <1>1, <1>2, <1>3
<1>5. Inv'
  <2>1. Typed' /\ Ordered(spine') /\ Placed(spine')
    BY <1>1, <1>4 DEF Inv, Typed
  <2>2. Load'
    BY <1>1 DEF Inv, Load, Lag, NestsOnce, exists
  <2> QED BY <2>1, <2>2 DEF Inv
<1>6. found' \in IF Bag!EqualTo(e) # {} THEN Bag!EqualTo(e) ELSE Bag!Below(e) \cup {Nothing}
  BY <1>1, <1>2, <1>3
<1>7. UNCHANGED [x \in Elems |-> Held(x)] /\ CountNow' = CountNow
  BY <1>1 DEF Held, Copies, OldCopies, CallsFor, CountNow, OldPlaces, Places
<1> QED BY <1>5, <1>6, <1>7 DEF Bag!Get, CountNow

-----------------------------------------------------------------------------
(* Tables made and destroyed. *)

\* A table with nothing in it, or none, is the empty bag.
LEMMA EmptyNext ==
  ASSUME spine' \in Spines, \A D : Cardinality(Chosen(spine', D)) = 0, growing' = <<>>,
         currSize' = 0, found' = Nothing
  PROVE  Bag!Destroy
<1>1. \A x : Held(x)' = 0
  BY QuietNext
<1>2. [x \in Elems |-> Held(x)]' = [x \in Elems |-> 0]
  BY <1>1
<1>3. CountNow' = 0
  BY QuietNext
<1> QED BY <1>2, <1>3 DEF Bag!Destroy, Bag!Empty, CountNow

\* initHashTableComp.
LEMMA MadeStep ==
  ASSUME Inv, initHashTableComp
  PROVE  Inv' /\ Bag!Destroy
<1>1. /\ spine' = NewSpine(HTCSTARTSIZE) /\ currSize' = 0 /\ found' = Nothing /\ missed' = 0
      /\ growing' = <<>>
  BY DEF initHashTableComp, Inv, Load
<1>2. /\ spine' \in Spines /\ SpineSize(spine') = HTCSTARTSIZE
      /\ \A i \in DOMAIN spine' : spine'[i] = <<>>
      /\ \A D : Cardinality(Chosen(spine', D)) = 0
      /\ Cardinality(Places(spine')) = 0
  BY <1>1, NewIsEmpty, StartAssumption
<1>3. Bag!Destroy
  BY <1>1, <1>2, EmptyNext
<1>4. Typed' /\ Ordered(spine') /\ Placed(spine')
  <2>1. Typed'
    BY <1>1, <1>2 DEF Typed
  <2>2. \A i \in DOMAIN spine' : Len(spine'[i]) = 0
    BY <1>2
  <2> QED BY <2>1, <2>2 DEF Ordered, Placed, Descending
<1>5. Load'
  <2>1. Lag'
    BY <1>1, <1>2, StartAssumption DEF Lag
  <2>2. Len(growing') = 0
    BY <1>1
  <2> QED BY <1>1, <2>1, <2>2 DEF Load, NestsOnce
<1> QED BY <1>3, <1>4, <1>5 DEF Inv

\* No table.
LEMMA NoTable ==
  /\ <<>> \in Spines /\ DOMAIN <<>> = {} /\ Ordered(<<>>) /\ Placed(<<>>)
  /\ \A D : Cardinality(Chosen(<<>>, D)) = 0
<1>1. <<>> = NewSpine(0)
  BY DEF NewSpine
<1>2. <<>> \in Spines /\ \A D : Cardinality(Chosen(<<>>, D)) = 0
  BY <1>1, NewIsEmpty
<1>3. DOMAIN <<>> = {}
  OBVIOUS
<1> QED BY <1>2, <1>3 DEF Ordered, Placed

\* destroyHashTableComp.
LEMMA DestroyStep ==
  ASSUME Inv, destroyHashTableComp
  PROVE  Inv' /\ Bag!Destroy
<1>1. /\ spine' = <<>> /\ currSize' = 0 /\ found' = Nothing /\ missed' = 0 /\ growing' = <<>>
  BY DEF destroyHashTableComp, Ready
<1>2. Bag!Destroy
  BY <1>1, NoTable, EmptyNext
<1>3. Typed' /\ Ordered(spine') /\ Placed(spine')
  BY <1>1, NoTable, NothingInHand DEF Typed
<1>4. Load'
  <2>1. Len(growing') = 0 /\ ~exists'
    BY <1>1, NoTable DEF exists
  <2> QED BY <1>1, <2>1 DEF Load, Lag, NestsOnce
<1> QED BY <1>2, <1>3, <1>4 DEF Inv

-----------------------------------------------------------------------------
(* The theorems. *)

\* Between program and first table there is nothing.
LEMMA InitStep ==
  ASSUME Init
  PROVE  Inv /\ Bag!Init
<1>1. /\ spine = <<>> /\ growing = <<>> /\ currSize = 0 /\ missed = 0 /\ found = Nothing
  BY DEF Init
<1>2. Typed
  BY <1>1, NoTable, NothingInHand DEF Typed
<1>3. Load
  <2>1. Len(growing) = 0 /\ ~exists
    BY <1>1, NoTable DEF exists
  <2> QED BY <1>1, <2>1 DEF Load, Lag, NestsOnce
<1>4. Ordered(spine) /\ Placed(spine)
  BY <1>1, NoTable
<1>5. \A x : Held(x) = 0
  <2> TAKE x
  <2>1. Held(x) = Cardinality(Chosen(spine, {x}))
    BY <1>1, <1>2, TotalIs
  <2> QED BY <1>1, <2>1, NoTable
<1>6. [x \in Elems |-> Held(x)] = [x \in Elems |-> 0]
  BY <1>5
<1>7. CountNow = 0
  BY <1>1, <1>2, TotalIs
<1> QED BY <1>1, <1>2, <1>3, <1>4, <1>6, <1>7 DEF Inv, Bag!Init, Bag!Empty, CountNow

\* Every step keeps the invariant, and is a step of the bag or none of it.
LEMMA EveryStep ==
  ASSUME Inv, [Next]_vars
  PROVE  Inv' /\ [Bag!Next]_(Bag!vars)
<1>1. CASE initHashTableComp
  BY <1>1, MadeStep DEF Bag!Next
<1>2. CASE destroyHashTableComp
  BY <1>2, DestroyStep DEF Bag!Next
<1>3. CASE RehashNext
  BY <1>3, LoopStep
<1>4. CASE RehashDone
  BY <1>4, DoneStep
<1>5. ASSUME NEW e \in Elems, Add(e) PROVE Inv' /\ Bag!Next
  BY <1>5, AddStep DEF Bag!Next
<1>6. ASSUME NEW e \in Elems, removeFromHTComp(e) PROVE Inv' /\ Bag!Next
  BY <1>6, RemoveStep DEF Bag!Next
<1>7. ASSUME NEW e \in Elems, getHTElemComp(e) PROVE Inv' /\ Bag!Next
  BY <1>7, GetStep DEF Bag!Next
<1>8. CASE UNCHANGED vars
  <2>1. Inv'
    BY <1>8 DEF vars, Inv, Typed, Load, Lag, NestsOnce, exists
  <2>2. UNCHANGED Bag!vars
    BY <1>8 DEF vars, Bag!vars, Held, Copies, OldCopies, CallsFor, OldPlaces, Places
  <2> QED BY <2>1, <2>2
<1> QED BY <1>1, <1>2, <1>3, <1>4, <1>5, <1>6, <1>7, <1>8 DEF Next

\* Every reachable state has the invariant.
LEMMA Invariance == Spec => []Inv
<1>1. Init => Inv
  BY InitStep
<1>2. Inv /\ [Next]_vars => Inv'
  BY EveryStep
<1> QED BY <1>1, <1>2, PTL DEF Spec

\* The table is well formed, and no bucket out of order (hashtablecomp.c and the lists
\* with a comparator it is made of).
THEOREM TypeCorrect == Spec => []TypeOK
<1>1. Inv => TypeOK
  <2> SUFFICES ASSUME Inv PROVE TypeOK
    OBVIOUS
  <2>1. Typed /\ Ordered(spine) /\ spine \in Spines /\ growing \in Seq(Frames)
    BY DEF Inv, Typed
  <2>2. spine \in [0..SpineSize(spine)-1 -> Seq(Elems)]
    <3>1. DOMAIN spine = 0..SpineSize(spine)-1
      BY <2>1, Sized
    <3> QED BY <2>1, <3>1 DEF Spines
  <2>3. ASSUME NEW k \in DOMAIN growing
        PROVE  growing[k].elem \in Elems /\ growing[k].old \in [DOMAIN growing[k].old -> Seq(Elems)]
    <3>1. growing[k] \in Frames
      BY <2>1
    <3>2. growing[k].old \in Spines /\ growing[k].elem \in Elems
      BY <3>1 DEF Frames
    <3> QED BY <3>2 DEF Spines
  <2> QED BY <2>1, <2>2, <2>3 DEF TypeOK, Typed, Ordered
<1> QED BY <1>1, Invariance, PTL

\* Whatever is stored is found by a look-up with an equal value (getHTElemComp,
\* hashtablecomp.c:158), however often the table grew and its buckets were renumbered.
THEOREM StoredIsFound == Spec => []Findable
<1>1. Inv => Findable
  <2> SUFFICES ASSUME Inv, NEW i \in DOMAIN spine, NEW e \in ToSet(spine[i])
               PROVE  LookUp(e) # Nothing /\ Key[LookUp(e)] = Key[e]
    BY DEF Findable
  <2> DEFINE b == spine[i]
  <2>1. b \in Seq(Elems) /\ Descending(Key, b)
    BY PlacesAre DEF Inv, Typed, Ordered
  <2>2. PICK k \in 1..Len(b) : b[k] = e
    BY <2>1 DEF ToSet
  <2>3. getTablePosForElem(e) = i
    BY <2>2 DEF Inv, Placed, getTablePosForElem
  <2> HIDE DEF b
  <2>4. /\ AtMost(Key, b, e) # {} /\ Key[b[FoundPos(Key, b, e)]] = Key[e]
    BY <2>1, <2>2, KeyAssumption, PresentIsFound
  <2>5. LookUp(e) = b[FoundPos(Key, b, e)]
    BY <2>3, <2>4 DEF LookUp, b
  <2>6. b[FoundPos(Key, b, e)] \in Elems
    <3>1. Len(b) \in Nat
      BY <2>1
    <3>2. FoundPos(Key, b, e) \in 1..Len(b)
      BY <2>4, <3>1, FoundIsFirst DEF AtMost
    <3> QED BY <2>1, <3>2, ElementOfSeq
  <2> QED BY <2>4, <2>5, <2>6, KeyAssumption
<1> QED BY <1>1, Invariance, PTL

\* currSize falls behind what is stored by exactly the removals that found nothing
\* (removeFromHTComp, hashtablecomp.c:141) and never runs ahead; and growing keeps up
\* with it, all but for one element, and ends (addToHTComp, hashtablecomp.c:113).
THEOREM CountLagsByMisses == Spec => []CountLags
<1>1. Inv => CountLags
  BY DEF Inv, Load, CountLags
<1> QED BY <1>1, Invariance, PTL

\* rehash is never called by an addToHTComp that a rehash called from another rehash
\* called: growing ends (hashtablecomp.c:78).
THEOREM GrowingNestsOnce == Spec => []NestsOnce
<1>1. Inv => NestsOnce
  BY DEF Inv, Load
<1> QED BY <1>1, Invariance, PTL

\* The table is the bag of its elements (hashtablecomp.c), an addition is one step of it
\* however often it grows the table, and nothing is lost or doubled by growing.
THEOREM TableIsABag == Spec => ImplementsBag
<1>1. Init => Bag!Init
  BY InitStep
<1>2. Inv /\ [Next]_vars => [Bag!Next]_(Bag!vars)
  BY EveryStep
<1> QED BY <1>1, <1>2, Invariance, PTL DEF Spec, ImplementsBag, Bag!Spec

=============================================================================
