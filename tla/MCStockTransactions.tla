------------------------ MODULE MCStockTransactions ------------------------
(***************************************************************************)
(* A shop with a latte made of milk and coffee, which are also sold and    *)
(* delivered on their own.                                                 *)
(***************************************************************************)
EXTENDS StockTransactions

CONSTANTS latte, milk, coffee, till1, till2, office, nobody

MCProducts == {latte, milk, coffee}

MCRecipe == [q \in {latte} |-> [p \in MCProducts |->
  CASE p = milk -> 2 [] p = coffee -> 1 [] OTHER -> 0]]

MCOpening == [p \in MCProducts |-> IF p = latte THEN 0 ELSE 3]

Line(p, n) == [item |-> p, amount |-> n]

Doc(kind, lines) == [kind |-> kind, lines |-> lines]

\* Lines in opposite orders, the same product twice, recipe and ingredient in
\* one document, a delivery of a recipe product, and each kind of document.
MCDocuments == {
  Doc("sale", <<Line(milk, 1), Line(coffee, 2)>>),
  Doc("sale", <<Line(latte, 2), Line(milk, 1)>>),
  Doc("refund", <<Line(latte, 1)>>),
  Doc("delivery", <<Line(coffee, 3), Line(milk, 1), Line(coffee, 1)>>),
  Doc("outgoing", <<Line(latte, 1), Line(milk, 1)>>)}

\* Each holds the row the next one is waiting for: three requests can close a
\* circle that no two of them can.
RingDocuments == {
  Doc("sale", <<Line(milk, 1), Line(coffee, 1)>>),
  Doc("delivery", <<Line(coffee, 1), Line(latte, 1)>>),
  Doc("outgoing", <<Line(latte, 1), Line(milk, 1)>>)}
=============================================================================
