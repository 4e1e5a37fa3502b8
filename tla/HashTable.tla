----------------------------- MODULE HashTable -----------------------------
(***************************************************************************)
(* The hash table of src/xtrafun/Sources/hashtablecomp.c: a spine of lists *)
(* with a comparator (here sequences, which DoubleList implements), and a  *)
(* count.  addToHTComp and rehash call each other: a table found full      *)
(* grows before the next element goes in, by adding what it holds to a     *)
(* larger one, which may itself be found full.  Each of their calls is a   *)
(* step, and the calls of rehash still running are a stack.                *)
(***************************************************************************)
EXTENDS ListOps, FiniteSets

CONSTANTS
  Elems, Key,     \* the values, and what the comparator compares them by
  Hash,           \* the hash function
  HTCSTARTSIZE,   \* buckets of a new table; the code has 3
  Nothing,
  MaxStored       \* bound: an add needs room for one more

ASSUME KeyAssumption == Key \in [Elems -> Nat] /\ Nothing \notin Elems
\* What any hash function must do: values that compare equal go to the same bucket.
ASSUME HashAssumption == /\ Hash \in [Elems -> Nat]
                         /\ \A d, e \in Elems : Key[d] = Key[e] => Hash[d] = Hash[e]
ASSUME StartAssumption == HTCSTARTSIZE \in Nat \ {0}

VARIABLES
  spine,     \* the buckets, numbered from 0; none when there is no table
  currSize,  \* the count
  growing,   \* the calls of rehash under way, the innermost last: what each has yet to
             \* take from the old table, and the element whose addition found that full
  found,     \* as in BagTable
  missed     \* history: removals counted since the table last grew that removed nothing

vars == <<spine, currSize, growing, found, missed>>

GROWFACTOR == 2

NewSpine(n)  == [i \in 0..n-1 |-> <<>>]
SpineSize(s) == Cardinality(DOMAIN s)

\* Where the elements of a spine are, and those equal to e.
Places(s)    == UNION {{i} \X (1..Len(s[i])) : i \in DOMAIN s}
Copies(s, e) == {p \in Places(s) : s[p[1]][p[2]] = e}

getTablePosForElem(e) == Hash[e] % SpineSize(spine)

\* Mutant: full one element later.
isFullLate == 4 * SpineSize(spine) < 3 * (currSize - 1)

\* currSpineSize/currSize < 0.75, in doubles: never for an empty table.
isFull == 4 * SpineSize(spine) < 3 * currSize

\* Mutant: each bucket is copied to the one of the same number.
rehashInPlace(e, callers) ==
  LET new == NewSpine(SpineSize(spine) * GROWFACTOR) IN
  /\ spine' = [i \in DOMAIN new |-> IF i \in DOMAIN spine THEN spine[i] ELSE <<>>]
  /\ growing' = Append(callers, [old |-> NewSpine(SpineSize(spine)), elem |-> e])
  /\ UNCHANGED currSize

\* Mutant: the walk of a bucket begins after its head.
rehashSkipsHeads(e, callers) ==
  LET tails == [i \in DOMAIN spine |-> IF spine[i] = <<>> THEN <<>> ELSE Tail(spine[i])] IN
  /\ spine' = NewSpine(SpineSize(spine) * GROWFACTOR) /\ currSize' = 0
  /\ growing' = Append(callers, [old |-> tails, elem |-> e])

\* rehash is called: a larger table, and all of the old one yet to be added to it.
rehash(e, callers) ==
  /\ spine' = NewSpine(SpineSize(spine) * GROWFACTOR) /\ currSize' = 0
  /\ growing' = Append(callers, [old |-> spine, elem |-> e])

Insert(e) == /\ spine' = [spine EXCEPT ![getTablePosForElem(e)] = InsertSorted(Key, @, e)]
             /\ currSize' = currSize + 1

\* As far as the insertion, or the call of rehash before it.
addToHTComp(e, callers) ==
  IF isFull THEN rehash(e, callers) ELSE Insert(e) /\ growing' = callers

-----------------------------------------------------------------------------

exists == DOMAIN spine # {}

\* A table that no call of addToHTComp is at work on.
Ready == exists /\ growing = <<>>

Init == spine = <<>> /\ currSize = 0 /\ growing = <<>> /\ found = Nothing /\ missed = 0

initHashTableComp ==
  /\ ~exists /\ spine' = NewSpine(HTCSTARTSIZE) /\ currSize' = 0
  /\ found' = Nothing /\ missed' = 0 /\ UNCHANGED growing

Add(e) ==
  /\ Ready /\ Cardinality(Places(spine)) < MaxStored
  /\ addToHTComp(e, <<>>)
  /\ missed' = IF isFull THEN 0 ELSE missed
  /\ found' = Nothing

\* rehash's loop: bucket by bucket, head to trail.
RehashNext ==
  /\ growing # <<>>
  /\ LET call == Last(growing) IN \E i \in DOMAIN call.old :
       /\ call.old[i] # <<>> /\ \A j \in 0..i-1 : call.old[j] = <<>>
       /\ addToHTComp(Head(call.old[i]),
                      Append(Front(growing), [call EXCEPT !.old[i] = Tail(@)]))
  /\ UNCHANGED <<found, missed>>

\* rehash returns, and the element it was called for goes in without a second look.
RehashDone ==
  /\ growing # <<>> /\ Places(Last(growing).old) = {}
  /\ Insert(Last(growing).elem) /\ growing' = Front(growing)
  /\ UNCHANGED <<found, missed>>

\* Mutant: the test for an empty table is left out.
removeUnguarded(e) ==
  LET pos == getTablePosForElem(e)  rest == RemoveFound(Key, spine[pos], e) IN
  /\ Ready /\ found' = Nothing
  /\ spine' = [spine EXCEPT ![pos] = rest] /\ currSize' = currSize - 1
  /\ missed' = missed + (IF rest = spine[pos] THEN 1 ELSE 0)
  /\ UNCHANGED growing

removeFromHTComp(e) ==
  LET pos == getTablePosForElem(e)  rest == RemoveFound(Key, spine[pos], e) IN
  /\ Ready /\ found' = Nothing
  /\ IF currSize = 0 THEN UNCHANGED <<spine, currSize, missed>>
     ELSE /\ spine' = [spine EXCEPT ![pos] = rest] /\ currSize' = currSize - 1
          /\ missed' = missed + (IF rest = spine[pos] THEN 1 ELSE 0)
  /\ UNCHANGED growing

\* What getHTElemComp returns: the first element of the bucket that is not greater.
LookUp(e) == LET bucket == spine[getTablePosForElem(e)] IN
  IF AtMost(Key, bucket, e) = {} THEN Nothing ELSE bucket[FoundPos(Key, bucket, e)]

getHTElemComp(e) == Ready /\ found' = LookUp(e) /\ UNCHANGED <<spine, currSize, growing, missed>>

destroyHashTableComp ==
  /\ Ready /\ spine' = <<>> /\ currSize' = 0 /\ found' = Nothing /\ missed' = 0
  /\ UNCHANGED growing

Next == \/ initHashTableComp \/ destroyHashTableComp \/ RehashNext \/ RehashDone
        \/ \E e \in Elems : Add(e) \/ removeFromHTComp(e) \/ getHTElemComp(e)

Spec == Init /\ [][Next]_vars

-----------------------------------------------------------------------------
(* Properties. *)

TypeOK ==
  /\ spine \in [0..SpineSize(spine)-1 -> Seq(Elems)]
  /\ \A i \in DOMAIN spine : Descending(Key, spine[i])
  /\ currSize \in Nat /\ missed \in Nat /\ found \in Elems \cup {Nothing}
  /\ \A k \in DOMAIN growing :
       growing[k].elem \in Elems /\ growing[k].old \in [DOMAIN growing[k].old -> Seq(Elems)]

\* Growing renumbers the buckets: whatever is stored is still where a look-up with an
\* equal value goes, and is not hidden there by another.
Findable == \A i \in DOMAIN spine : \A e \in ToSet(spine[i]) :
  LookUp(e) # Nothing /\ Key[LookUp(e)] = Key[e]

\* The count is behind what is stored by exactly the removals that found nothing since
\* the table last grew, and never ahead; and the table is overfull by one element at
\* most: one that lagged can be so when it has just grown, for it is not looked at again
\* before the element goes in.
Lag == exists => /\ currSize + missed = Cardinality(Places(spine))
                 /\ 3 * (currSize - 2) <= 4 * SpineSize(spine)

\* The table that a table grows to counts all it gets: growing nests once and no deeper.
NestsOnce == Len(growing) <= 2

\* However far the count of a table lags, growing keeps up with it, and ends.
CountLags == Lag /\ NestsOnce

\* What the calls of rehash have in hand: the places of the old tables they have not
\* come to, and the elements they were called for.
OldPlaces    == UNION {{k} \X Places(growing[k].old) : k \in DOMAIN growing}
OldCopies(e) == UNION {{k} \X Copies(growing[k].old, e) : k \in DOMAIN growing}
CallsFor(e)  == {k \in DOMAIN growing : growing[k].elem = e}

\* How many copies of e the table has, the ones on their way to it included.
Held(e) == Cardinality(Copies(spine, e)) + Cardinality(OldCopies(e)) + Cardinality(CallsFor(e))

\* Bucket by bucket, the table is the bag BagTable says it is; and an addition, however
\* often it grows the table, is one step of it.
Bag == INSTANCE BagTable WITH
         bag   <- [e \in Elems |-> Held(e)],
         count <- currSize + Cardinality(OldPlaces) + Len(growing)

ImplementsBag == Bag!Spec

=============================================================================
