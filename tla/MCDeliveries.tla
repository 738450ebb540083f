---------------------------- MODULE MCDeliveries ----------------------------
(***************************************************************************)
(* A delivery of two possible lines and a write-off of one, of two         *)
(* products, from one supplier or none.                                    *)
(***************************************************************************)
EXTENDS Deliveries, TLC

CONSTANTS flour, sugar, mill, none, invoice, writeoff, a, b, c, edit1, edit2, delete1, delete2, noline, nobody

MCDeliveryOf == [l \in Lines |-> IF l = c THEN writeoff ELSE invoice]

MCKindOf == [d \in Deliveries |-> IF d = invoice THEN "DELIVERY" ELSE "WRITE_OFF"]

MCOpening == [p \in Products |-> 0]

\* The requests of a kind, the lines of the delivery and the products are alike.
Alike ==
  UNION {Permutations(s) : s \in {Editors, Deleters, {a, b}, Products}}
=============================================================================
