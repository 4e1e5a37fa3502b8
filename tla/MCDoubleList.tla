---------------------------- MODULE MCDoubleList ----------------------------
(***************************************************************************)
(* DoubleList for TLC.  No action tells one node from another and every    *)
(* property is a safety property, so permuting the nodes is a symmetry.    *)
(***************************************************************************)
EXTENDS DoubleList

\* The comparator takes 1 and 2 for equal.
KeyOf == <<1, 1, 2>>

NodeSymmetry == Permutations(Nodes)

=============================================================================
