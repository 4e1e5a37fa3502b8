------------------------------ MODULE BagTable ------------------------------
(***************************************************************************)
(* What hashtablecomp.c promises its callers: a table is a bag of values   *)
(* and a count.  Two promises are the code's own.  A removal takes a value *)
(* equal to the one asked for when there is one, but otherwise may take a  *)
(* smaller one; and it counts down whatever it took, so that the count can *)
(* fall behind, and once it is 0 nothing is removed any more.  Growing     *)
(* counts again.  HashTable implements this with buckets.                  *)
(***************************************************************************)
EXTENDS Integers, FiniteSets

CONSTANTS Elems, Key, Nothing

VARIABLES
  bag,    \* how often each value is stored
  count,  \* how many the table takes itself to hold
  found   \* what the last look-up returned; Nothing for NULL, or after another call

vars == <<bag, count, found>>

Empty     == [e \in Elems |-> 0]
Stored    == {e \in Elems : bag[e] > 0}
Total     == Cardinality(UNION {{e} \X (1..bag[e]) : e \in Elems})
EqualTo(d) == {e \in Stored : Key[e] = Key[d]}
Below(d)   == {e \in Stored : Key[e] < Key[d]}

Init == bag = Empty /\ count = 0 /\ found = Nothing

Add(d) == /\ found' = Nothing /\ count' \in {count + 1, Total + 1}
          /\ bag' = [bag EXCEPT ![d] = @ + 1]

Remove(d) ==
  /\ count > 0 /\ count' = count - 1 /\ found' = Nothing
  /\ \/ \E e \in IF EqualTo(d) # {} THEN EqualTo(d) ELSE Below(d) :
          bag' = [bag EXCEPT ![e] = @ - 1]
     \/ EqualTo(d) = {} /\ UNCHANGED bag

Refuse == count = 0 /\ found' = Nothing /\ UNCHANGED <<bag, count>>

Get(d) == /\ UNCHANGED <<count, bag>>
          /\ found' \in IF EqualTo(d) # {} THEN EqualTo(d) ELSE Below(d) \cup {Nothing}

Destroy == count' = 0 /\ found' = Nothing /\ bag' = Empty

Next == Refuse \/ Destroy \/ \E d \in Elems : Add(d) \/ Remove(d) \/ Get(d)

Spec == Init /\ [][Next]_vars

=============================================================================
