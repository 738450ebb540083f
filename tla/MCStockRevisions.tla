------------------------- MODULE MCStockRevisions -------------------------
(***************************************************************************)
(* Two clerks, two products, and time for two revisions.                   *)
(***************************************************************************)
EXTENDS StockRevisions, TLC

CONSTANTS bread, milk, ana, ivan, first, second, norow, noone

MCOpening == [p \in Products |-> 1]

MCAmounts == {-1, 1}

\* Clerks, products and primary keys are interchangeable.
Symmetric == Permutations(Clerks) \cup Permutations(Products) \cup Permutations(Revisions)
=============================================================================
