---------------------------- MODULE StockLedger ----------------------------
(***************************************************************************)
(* What the warehouse promises about stock, with no transactions, locks or *)
(* rows in it: a document (sale, refund, delivery, write-off, scrap) is    *)
(* either posted, all of it and once, or it never happened, and stock is   *)
(* changed by nothing else.  StockTransactions implements this module.     *)
(***************************************************************************)
EXTENDS Integers

CONSTANTS
  Products,   \* rows of the product catalogue
  Requests,   \* attempts of users to post one document each
  Opening     \* stock of every product before the first document

VARIABLES
  stock,      \* what the catalogue says is on the shelf
  posted,     \* requests whose document is in the books
  journal     \* movement of every product that a request's document records

ledgerVars == <<stock, posted, journal>>

NoMovement == [p \in Products |-> 0]

Init ==
  /\ stock = Opening
  /\ posted = {}
  /\ journal = [r \in Requests |-> NoMovement]

\* The document of r enters the books: its movements reach the stock of every
\* product it names, in one step, and no other document changes.
Post(r) ==
  /\ r \notin posted
  /\ posted' = posted \cup {r}
  /\ journal' \in [Requests -> [Products -> Int]]
  /\ \A s \in Requests \ {r} : journal'[s] = journal[s]
  /\ stock' = [p \in Products |-> stock[p] + journal'[r][p]]

Next == \E r \in Requests : Post(r)

Spec == Init /\ [][Next]_ledgerVars
=============================================================================
