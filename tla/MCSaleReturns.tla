--------------------------- MODULE MCSaleReturns ---------------------------
(***************************************************************************)
(* Two sales of one shop: one with a line of each of two products, *)
(* one with a line of one of them.                                           *)
(***************************************************************************)
EXTENDS SaleReturns

CONSTANTS bread, milk, first, second, a, b, c, refund1, refund2, delete1, delete2, nobody

MCSaleOf == [l \in Lines |-> IF l = c THEN second ELSE first]

MCProductOf == [l \in Lines |-> IF l = b THEN milk ELSE bread]

MCSold == [l \in Lines |-> IF l = b THEN 1 ELSE 2]

MCOpening == [p \in Products |-> 1]
=============================================================================
