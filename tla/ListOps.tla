------------------------------- MODULE ListOps -------------------------------
(***************************************************************************)
(* What the searching functions of doublelist.c and doublelistcomp.c do to *)
(* a list taken as a sequence from head to trail.  key is the order they   *)
(* compare by: the elements themselves for memcmp, whatever the comparator *)
(* looks at for the lists that have one, which need not tell all elements  *)
(* apart.                                                                  *)
(***************************************************************************)
EXTENDS Integers, Sequences, SequencesExt

\* The positions findNode could stop at: elements that do not compare greater than d.
AtMost(key, s, d) == {k \in 1..Len(s) : key[s[k]] <= key[d]}

\* findNode: the first of them.
FoundPos(key, s, d) == CHOOSE k \in AtMost(key, s, d) : \A j \in AtMost(key, s, d) : k <= j

\* Where a sorted insertion of d goes: before that one, or at the end.
SortedPos(key, s, d) == IF AtMost(key, s, d) = {} THEN Len(s) + 1 ELSE FoundPos(key, s, d)

InsertSorted(key, s, d) == InsertAt(s, SortedPos(key, s, d), d)

\* A removal by value takes the element found, whatever its value.
RemoveFound(key, s, d) ==
  IF AtMost(key, s, d) = {} THEN s ELSE RemoveAt(s, FoundPos(key, s, d))

Descending(key, s) == \A j, k \in 1..Len(s) : j < k => key[s[j]] >= key[s[k]]

=============================================================================
