---------------------------- MODULE Subsequences ----------------------------
(***************************************************************************)
(* What stands in a list, and what a comprehension with a condition makes   *)
(* of one, defined without recursion so that it can be reasoned about.      *)
(***************************************************************************)
EXTENDS Naturals, Sequences, FiniteSets

In(list) == {list[i] : i \in DOMAIN list}

Place(kept, i) == Cardinality({h \in kept : h <= i})

\* The elements of list at the indexes kept, in their order.
Picked(list, kept) ==
  [k \in 1..Cardinality(kept) |-> list[CHOOSE i \in kept : Place(kept, i) = k]]
=============================================================================
