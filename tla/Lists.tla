-------------------------------- MODULE Lists --------------------------------
(***************************************************************************)
(* Sorting a set of numbers, and keeping some elements of a list.  SelectSeq *)
(* and SetToSortSeq do the same; these say at which place an element is, which *)
(* is what the proofs reason about.                                        *)
(***************************************************************************)
EXTENDS Integers, FiniteSets

\* The place of i among the numbers in S.
Rank(i, S) == Cardinality({j \in S : j <= i})

\* The numbers in S, smallest first.
Ascending(S) == [n \in 1 .. Cardinality(S) |-> CHOOSE i \in S : Rank(i, S) = n]

\* What is left of a list when only the elements at the places in S are kept.
Keep(list, S) == [n \in 1 .. Cardinality(S) |-> list[Ascending(S)[n]]]
=============================================================================
