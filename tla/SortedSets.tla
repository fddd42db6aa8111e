---------------------------- MODULE SortedSets ----------------------------
(***************************************************************************)
(* The elements of a finite set in a strict total order: ORDER BY in a     *)
(* SELECT, or slices.SortFunc.                                             *)
(***************************************************************************)
EXTENDS Integers, FiniteSets

\* The i-th element is the one that i - 1 others come before.
Enumerated(S, before) ==
  [i \in 1 .. Cardinality(S) |-> CHOOSE x \in S : Cardinality(before[x]) = i - 1]

SortedBy(S, op(_, _)) == Enumerated(S, [x \in S |-> {y \in S : op(y, x)}])
===========================================================================
