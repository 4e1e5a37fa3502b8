----------------------------- MODULE DoubleList -----------------------------
(***************************************************************************)
(* The doubly linked list of src/xtrafun/Sources/doublelist.c, node by     *)
(* node, the one with a comparator of doublelistcomp.c, which is the same  *)
(* code but for its comparisons and one function, and the stacks and       *)
(* queues on top of the first.  A pointer is a node, Null, or Wild: a      *)
(* value that was never written.  Reading or writing through a pointer     *)
(* that is not a live node is undefined behaviour; it sets `broken` and    *)
(* ends the behaviour.                                                     *)
(*                                                                         *)
(* The library takes no lock of its own: a call is one step.               *)
(***************************************************************************)
EXTENDS ListOps, FiniteSets

CONSTANTS
  Elems,     \* the values stored, in the order memcmp gives them
  Key,       \* what a comparator compares them by; it may take two for equal
  Nodes,     \* what malloc can return; its size bounds the list's
  Null, Wild,
  MaxIndex,  \* bound: the largest index a caller passes; it reaches the end of any list
  MaxArray   \* bound: the longest array makeIntList is given

ASSUME ElemsAssumption == Elems \subseteq Nat
ASSUME KeyAssumption == Key \in [Elems -> Nat]
ASSUME PointersAssumption == Null \notin Nodes /\ Wild \notin Nodes /\ Null # Wild
ASSUME BoundsAssumption ==
  IsFiniteSet(Nodes) /\ MaxArray \in Nat /\ MaxIndex \in Nat /\ Cardinality(Nodes) <= MaxIndex + 1

VARIABLES
  live,              \* the nodes allocated and not freed
  mem, next, prev,   \* the fields of the nodes
  list,              \* the DListW: head, trail and currSize
  comp,              \* it is a DListWComp: a list with a comparator
  exists,            \* it is allocated
  made,              \* history: how long an array makeIntList was given, else 0
  call, ret, broken  \* as in SequenceList

nodes == <<live, mem, next, prev>>
vars  == <<live, mem, next, prev, list, comp, exists, made, call, ret, broken>>

Nothing  == -1
Pointers == Nodes \cup {Null, Wild}
Indices  == 0..MaxIndex

NoList == [head |-> Wild, trail |-> Wild, currSize |-> 0]

TypeOK ==
  /\ live \subseteq Nodes
  /\ mem \in [Nodes -> Elems \cup {Nothing}]
  /\ next \in [Nodes -> Pointers] /\ prev \in [Nodes -> Pointers]
  /\ list \in [head : Pointers, trail : Pointers, currSize : 0..Cardinality(Nodes)]
  /\ comp \in BOOLEAN /\ exists \in BOOLEAN /\ broken \in BOOLEAN /\ made \in 0..Cardinality(Nodes)
  /\ ret \in Elems \cup {Nothing}

Init ==
  /\ live = {} /\ mem = [n \in Nodes |-> Nothing]
  /\ next = [n \in Nodes |-> Wild] /\ prev = [n \in Nodes |-> Wild]
  /\ list = NoList /\ comp = FALSE /\ exists = FALSE /\ made = 0 /\ broken = FALSE
  /\ call = [op |-> "none", data |-> Nothing, index |-> Nothing] /\ ret = Nothing

-----------------------------------------------------------------------------
(* Pointers and nodes. *)

Follow(f, p) == IF p \in live THEN f[p] ELSE Wild

\* k steps from p along f.
Steps(f, p, k) ==
  LET walk[i \in 0..k] == IF i = 0 THEN p ELSE Follow(f, walk[i-1]) IN walk[k]

\* A call o(d, i) that returns r.
Returns(o, d, i, r) ==
  /\ exists /\ ~broken
  /\ call' = [op |-> o, data |-> d, index |-> i] /\ ret' = r
  /\ UNCHANGED <<comp, exists, made>>

Undefined == broken' = TRUE /\ UNCHANGED <<nodes, list>>

\* Mutant: the walk starts one node short from the trail.
getNodeFromIndexShort(i) ==
  IF i > list.currSize \div 2
  THEN Steps(prev, list.trail, IF i < list.currSize THEN list.currSize - i ELSE 0)
  ELSE Steps(next, list.head, i)

\* From the nearer end; an index past the end stops at the trail.
getNodeFromIndex(i) ==
  IF i > list.currSize \div 2
  THEN Steps(prev, list.trail, IF i < list.currSize THEN list.currSize - 1 - i ELSE 0)
  ELSE Steps(next, list.head, i)

\* memcmp(a, b), or the comparator's func(a, b).
Compare(a, b) == IF comp THEN Key[a] - Key[b] ELSE a - b

\* The first node whose element does not compare greater than d, or Null.
findNode(d) ==
  LET seek[k \in 0..Cardinality(Nodes)] ==
        IF k = 0 THEN list.head
        ELSE IF seek[k-1] # Null /\ Compare(d, mem[seek[k-1]]) < 0 THEN next[seek[k-1]] ELSE seek[k-1]
  IN seek[Cardinality(Nodes)]

\* initNakedDNode: a node of the heap, d copied into it.
Allocated(n, d) == n \notin live /\ live' = live \cup {n} /\ mem' = [mem EXCEPT ![n] = d]

-----------------------------------------------------------------------------
(* Linking a new node n in; currSize counts it. *)

addStartOfList(n) ==
  /\ next' = [next EXCEPT ![n] = list.head]
  /\ prev' = [prev EXCEPT ![n] = Null, ![list.head] = n]
  /\ list' = [list EXCEPT !.head = n, !.currSize = @ + 1]
  /\ UNCHANGED broken

\* Mutant: the new last node does not point back.
addEndOfListOneWay(n) ==
  IF list.trail \in live
  THEN /\ next' = [next EXCEPT ![n] = Null, ![list.trail] = n]
       /\ prev' = [prev EXCEPT ![n] = Null]
       /\ list' = [list EXCEPT !.trail = n, !.currSize = @ + 1]
       /\ UNCHANGED broken
  ELSE broken' = TRUE /\ UNCHANGED <<next, prev, list>>

addEndOfList(n) ==
  IF list.trail \in live
  THEN /\ next' = [next EXCEPT ![n] = Null, ![list.trail] = n]
       /\ prev' = [prev EXCEPT ![n] = list.trail]
       /\ list' = [list EXCEPT !.trail = n, !.currSize = @ + 1]
       /\ UNCHANGED broken
  ELSE broken' = TRUE /\ UNCHANGED <<next, prev, list>>

addBeforeNode(n, after) ==
  IF after \in live /\ prev[after] \in live
  THEN /\ next' = [next EXCEPT ![n] = after, ![prev[after]] = n]
       /\ prev' = [prev EXCEPT ![n] = prev[after], ![after] = n]
       /\ list' = [list EXCEPT !.currSize = @ + 1]
       /\ UNCHANGED broken
  ELSE broken' = TRUE /\ UNCHANGED <<next, prev, list>>

addFirstElement(n) ==
  /\ next' = [next EXCEPT ![n] = Null] /\ prev' = [prev EXCEPT ![n] = Null]
  /\ list' = [head |-> n, trail |-> n, currSize |-> list.currSize + 1]
  /\ UNCHANGED broken

-----------------------------------------------------------------------------
(* Taking a node out and freeing it; currSize follows. *)

\* A freed node's fields can be read no more.
Freed(n) == live' = live \ {n} /\ mem' = [mem EXCEPT ![n] = Nothing]

remFirstNodeFromList ==
  LET n == list.head  tmp == next[n] IN
  /\ next' = [next EXCEPT ![n] = Wild] /\ prev' = [prev EXCEPT ![n] = Wild, ![tmp] = Null]
  /\ Freed(n) /\ list' = [list EXCEPT !.head = tmp, !.currSize = @ - 1]
  /\ UNCHANGED broken

remLastNodeFromList ==
  LET n == list.trail  tmp == Follow(prev, n) IN
  IF tmp \in live
  THEN /\ next' = [next EXCEPT ![n] = Wild, ![tmp] = Null] /\ prev' = [prev EXCEPT ![n] = Wild]
       /\ Freed(n) /\ list' = [list EXCEPT !.trail = tmp, !.currSize = @ - 1]
       /\ UNCHANGED broken
  ELSE Undefined

remMiddleNode(n) ==
  LET before == Follow(prev, n)  after == Follow(next, n) IN
  IF before \in live /\ after \in live
  THEN /\ next' = [next EXCEPT ![n] = Wild, ![before] = after]
       /\ prev' = [prev EXCEPT ![n] = Wild, ![after] = before]
       /\ Freed(n) /\ list' = [list EXCEPT !.currSize = @ - 1]
       /\ UNCHANGED broken
  ELSE Undefined

\* The only node: head becomes NULL, trail keeps pointing at what was freed.
remOnlyNode ==
  LET n == list.head IN
  /\ next' = [next EXCEPT ![n] = Wild] /\ prev' = [prev EXCEPT ![n] = Wild]
  /\ Freed(n) /\ list' = [list EXCEPT !.head = Null, !.currSize = @ - 1]
  /\ UNCHANGED broken

-----------------------------------------------------------------------------
(* The functions of doublelist.h. *)

\* A new list in either form; an empty one, or that of makeIntList of the elements arr
\* in the fresh nodes ns, where only the loop writes trail, and for one element it does
\* not run.
NewList ==
  /\ ~exists /\ ~broken /\ exists' = TRUE /\ made' = 0
  /\ list' = [head |-> Null, trail |-> Null, currSize |-> 0]
  /\ call' = [op |-> "init", data |-> Nothing, index |-> Nothing] /\ ret' = Nothing
  /\ UNCHANGED <<nodes, broken>>

ListOf(arr, ns) ==
  LET size == Len(arr)
      At(n) == CHOOSE i \in 1..size : ns[i] = n
      Sibling(n, i) == IF i \in 1..size THEN ns[i] ELSE Null
      new == ToSet(ns) IN
  /\ ~exists /\ ~broken /\ exists' = TRUE /\ made' = size
  /\ live' = new
  /\ mem'  = [n \in Nodes |-> IF n \in new THEN arr[At(n)] ELSE Nothing]
  /\ next' = [n \in Nodes |-> IF n \in new THEN Sibling(n, At(n) + 1) ELSE Wild]
  /\ prev' = [n \in Nodes |-> IF n \in new THEN Sibling(n, At(n) - 1) ELSE Wild]
  /\ list' = [head |-> ns[1], trail |-> IF size > 1 THEN ns[size] ELSE Wild,
              currSize |-> size]
  /\ call' = [op |-> "make", data |-> Nothing, index |-> Nothing] /\ ret' = Nothing
  /\ UNCHANGED broken

initDList            == NewList /\ comp' = FALSE
makeIntList(arr, ns) == ListOf(arr, ns) /\ comp' = FALSE

addElemToList(d, i) ==
  /\ Returns("add", d, i, Nothing)
  /\ \E n \in Nodes :
       /\ Allocated(n, d)
       /\ IF list.head = Null THEN addFirstElement(n)
          ELSE IF i = 0 THEN addStartOfList(n)
          ELSE IF i >= list.currSize - 1 THEN addEndOfList(n)
          ELSE addBeforeNode(n, getNodeFromIndex(i))

addElemToListComp(d) ==
  /\ Returns("addComp", d, Nothing, Nothing)
  /\ \E n \in Nodes :
       /\ Allocated(n, d)
       /\ IF list.head = Null THEN addFirstElement(n)
          ELSE IF findNode(d) = Null THEN addEndOfList(n)
          ELSE IF findNode(d) = list.head THEN addStartOfList(n)
          ELSE addBeforeNode(n, findNode(d))

\* Mutant: the size is counted down outside the test for an empty list.
remElemFromListCountsAnyway(i) ==
  /\ Returns("rem", Nothing, i, Nothing)
  /\ IF list.currSize = 0
     THEN list' = [list EXCEPT !.currSize = @ - 1] /\ UNCHANGED <<nodes, broken>>
     ELSE IF list.currSize = 1 THEN remOnlyNode
     ELSE IF i = 0 THEN remFirstNodeFromList
     ELSE IF i >= list.currSize - 1 THEN remLastNodeFromList
     ELSE remMiddleNode(getNodeFromIndex(i))

remElemFromList(i) ==
  /\ Returns("rem", Nothing, i, Nothing)
  /\ IF list.currSize = 0 THEN UNCHANGED <<nodes, list, broken>>
     ELSE IF list.currSize = 1 THEN remOnlyNode
     ELSE IF i = 0 THEN remFirstNodeFromList
     ELSE IF i >= list.currSize - 1 THEN remLastNodeFromList
     ELSE remMiddleNode(getNodeFromIndex(i))

\* Nothing found: a one-element list stays, a longer one loses its last element.
remElemFromListComp(d) ==
  /\ Returns("remComp", d, Nothing, Nothing)
  /\ IF list.head = Null \/ (list.currSize = 1 /\ findNode(d) = Null)
     THEN UNCHANGED <<nodes, list, broken>>
     ELSE IF list.currSize = 1 THEN remOnlyNode
     ELSE IF findNode(d) \in {Null, list.trail} THEN remLastNodeFromList
     ELSE IF findNode(d) = list.head THEN remFirstNodeFromList
     ELSE remMiddleNode(findNode(d))

getElemAtIndex(i) ==
  LET n == getNodeFromIndex(i) IN
  /\ \/ list.currSize = 0 /\ Returns("get", Nothing, i, Nothing) /\ UNCHANGED broken
     \/ list.currSize > 0 /\ n \in live /\ Returns("get", Nothing, i, mem[n]) /\ UNCHANGED broken
     \/ list.currSize > 0 /\ n \notin live /\ Returns("get", Nothing, i, Nothing) /\ broken' = TRUE
  /\ UNCHANGED <<nodes, list>>

findElemListComp(d) ==
  /\ Returns("find", d, Nothing, IF findNode(d) = Null THEN Nothing ELSE mem[findNode(d)])
  /\ UNCHANGED <<nodes, list, broken>>

\* Every node from head on, along next, then the list itself.
destroyDList ==
  LET gone == {Steps(next, list.head, k) : k \in 0..Cardinality(Nodes)} IN
  /\ exists /\ ~broken /\ exists' = FALSE /\ made' = 0 /\ comp' = FALSE
  /\ live' = live \ gone
  /\ mem'  = [n \in Nodes |-> IF n \in gone THEN Nothing ELSE mem[n]]
  /\ next' = [n \in Nodes |-> IF n \in gone THEN Wild ELSE next[n]]
  /\ prev' = [n \in Nodes |-> IF n \in gone THEN Wild ELSE prev[n]]
  /\ list' = NoList
  /\ call' = [op |-> "destroy", data |-> Nothing, index |-> Nothing] /\ ret' = Nothing
  /\ UNCHANGED broken

-----------------------------------------------------------------------------
(* The functions of doublelistcomp.h: the same code but for the removal.   *)

initDListComp            == NewList /\ comp' = TRUE
makeIntListComp(arr, ns) == ListOf(arr, ns) /\ comp' = TRUE
addElemToList2(d, i)     == addElemToList(d, i)
addElemToListComp2(d)    == addElemToListComp(d)
remElemFromList2(i)      == remElemFromList(i)
getElemAtIndexComp(i)    == getElemAtIndex(i)
findElemListCompComp(d)  == findElemListComp(d)
destroyDListComp         == destroyDList

\* Nothing found: the list stays.
remElemFromListComp2(d) ==
  /\ Returns("remComp", d, Nothing, Nothing)
  /\ IF list.head = Null \/ findNode(d) = Null THEN UNCHANGED <<nodes, list, broken>>
     ELSE IF list.currSize = 1 THEN remOnlyNode
     ELSE IF findNode(d) = list.trail THEN remLastNodeFromList
     ELSE IF findNode(d) = list.head THEN remFirstNodeFromList
     ELSE remMiddleNode(findNode(d))

-----------------------------------------------------------------------------
(* stackList.c and queueList.c, on a list of their own. *)

pushDLStack(d)    == addElemToList(d, 0)
enqueueDLQueue(d) == addElemToList(d, list.currSize)

\* popDLStack, and dequeueDLQueue, which is the same.
popDLStack ==
  /\ Returns("pop", Nothing, Nothing, IF list.head = Null THEN Nothing ELSE mem[list.head])
  /\ IF list.currSize = 0 THEN UNCHANGED <<nodes, list, broken>>
     ELSE IF list.currSize = 1 THEN remOnlyNode
     ELSE remFirstNodeFromList

-----------------------------------------------------------------------------

\* The arrays makeIntList is called with, and the nodes malloc gives it for them.
Arrays == UNION {[1..k -> Elems] \X {ns \in [1..k -> Nodes] : IsInjective(ns)} : k \in 1..MaxArray}

\* After undefined behaviour the model says nothing more.
Stopped == broken /\ UNCHANGED vars

PlainCalls ==
  \/ destroyDList
  \/ \E d \in Elems : addElemToListComp(d) \/ remElemFromListComp(d) \/ findElemListComp(d)
  \/ \E i \in Indices : remElemFromList(i) \/ getElemAtIndex(i)
  \/ \E d \in Elems, i \in Indices : addElemToList(d, i)

CompCalls ==
  \/ destroyDListComp
  \/ \E d \in Elems : \/ addElemToListComp2(d) \/ remElemFromListComp2(d)
                      \/ findElemListCompComp(d)
  \/ \E i \in Indices : remElemFromList2(i) \/ getElemAtIndexComp(i)
  \/ \E d \in Elems, i \in Indices : addElemToList2(d, i)

StackAndQueueCalls == popDLStack \/ \E d \in Elems : pushDLStack(d) \/ enqueueDLQueue(d)

Next == \/ initDList \/ initDListComp
        \/ \E a \in Arrays : makeIntList(a[1], a[2]) \/ makeIntListComp(a[1], a[2])
        \/ ~comp /\ PlainCalls
        \/ comp /\ CompCalls
        \/ ~comp /\ made = 0 /\ StackAndQueueCalls
        \/ Stopped

Spec == Init /\ [][Next]_vars

-----------------------------------------------------------------------------
(* Properties. *)

Chain ==
  LET walk[k \in 1..list.currSize] ==
        IF k = 1 THEN list.head ELSE Follow(next, walk[k-1]) IN walk
Contents == LET chain == Chain IN
  [k \in 1..list.currSize |-> IF chain[k] \in live THEN mem[chain[k]] ELSE Nothing]

\* The one list that is not whole: made of a one-element array, so that trail was
\* never written, and never emptied since.
Fragile == exists /\ list.head # Null /\ list.trail = Wild

\* The pointer structure: currSize nodes from head along next, each pointing back
\* at the one before, the last one the trail; no other node is allocated, so no
\* call leaks or frees twice; and nothing is allocated when there is no list.
WellLinked ==
  IF ~exists THEN live = {} ELSE
  broken \/ LET size == list.currSize IN
    /\ live = ToSet(Chain) /\ Cardinality(live) = size
    /\ \A k \in 1..size : prev[Chain[k]] = IF k = 1 THEN Null ELSE Chain[k-1]
    /\ size = 0 => list.head = Null
    /\ size > 0 => next[Chain[size]] = Null /\ (list.trail = Chain[size] \/ Fragile)

Seqs == INSTANCE SequenceList WITH contents <- Contents, fragile <- Fragile

\* Pointer by pointer, the two lists are the sequence SequenceList says they are; for
\* one, only a list made of a one-element array ever has undefined behaviour.
ImplementsSequence == Seqs!Spec

\* "1- remove a value" (atomicOps.c:5): what remElemFromListComp removes is the
\* value it is given.
RemovesTheValue ==
  [][ /\ call'.op = "remComp" /\ ~comp /\ list'.currSize < list.currSize /\ ~broken'
      => \E k \in 1..Len(Contents) :
           Contents[k] = call'.data /\ Contents' = RemoveAt(Contents, k) ]_vars

=============================================================================
