---------------------------- MODULE SaleReturns ----------------------------
(***************************************************************************)
(* What happens to a sale after it is in the books: lines of it are        *)
(* refunded (refund_new) or the whole sale is deleted (SalesDeleteView and *)
(* the delete signals of SaleItems), by requests that run concurrently.    *)
(*                                                                         *)
(* A refund reads how much of each line is left, compares it with what was *)
(* typed, and only then opens its transaction.  A deletion collects the    *)
(* rows to delete before its transaction, and gives the stock of every     *)
(* collected line back after the DELETE statement, whether or not that     *)
(* statement found the row.  The database checks foreign keys when a       *)
(* transaction commits.  Product rows are locked as StockTransactions      *)
(* shows, so here a transaction's stock movement appears when it commits.  *)
(***************************************************************************)
EXTENDS Integers, FiniteSets, Functions

CONSTANTS
  Sales,        \* sales cashiers may ring up
  Lines,        \* their lines
  SaleOf,       \* the sale of a line
  ProductOf,    \* the product of a line
  Sold,         \* the quantity of a line
  Products,
  Opening,      \* stock before the first sale
  Refunders,    \* requests to refund lines of a sale
  Deleters,     \* requests to delete a sale
  Quantities,   \* what can be typed for a line, 0 when it is left empty
  Nobody        \* holder of a row nobody has locked

Requests == Refunders \cup Deleters

ASSUME SalesAssumption ==
  /\ IsFiniteSet(Lines)
  /\ SaleOf \in [Lines -> Sales]
  /\ ProductOf \in [Lines -> Products]
  /\ Sold \in [Lines -> Nat \ {0}]
  /\ Opening \in [Products -> Int]

ASSUME RequestsAssumption ==
  /\ IsFiniteSet(Refunders)
  /\ Quantities \subseteq Nat
  /\ Refunders \cap Deleters = {}
  /\ Nobody \notin Requests

VARIABLES
  saleRows,     \* sales in the database
  lineRows,     \* sale lines in the database
  rung,         \* sales ever rung up: a primary key is not used again
  refunded,     \* refunded[r][l]: quantity on the refund line of l that r has saved
  stock,        \* committed Product.quantity
  pc,
  sale,         \* the sale a request is about
  typed,        \* refund: quantity typed for every line
  collected,    \* deletion: lines collected before the transaction
  lockedBy      \* deletion that has the row of a sale line locked

vars == <<saleRows, lineRows, rung, refunded, stock, pc, sale, typed, collected, lockedBy>>

NoLines == [l \in Lines |-> 0]

LinesOf(s) == {l \in Lines : SaleOf[l] = s}

\* Units of p in the lines of L, when line l has amount[l].
Units(L, amount, p) ==
  SumFunction([l \in {k \in L : ProductOf[k] = p} |-> amount[l]])

RefundedOf(l) == SumFunction([r \in Refunders |-> refunded[r][l]])

\* What refund_new shows, and enforces, as still refundable.
Remaining(l) == Sold[l] - RefundedOf(l)

\* A refund of s is in the database.
HasRefund(s) == \E r \in Refunders, l \in LinesOf(s) : refunded[r][l] > 0

-----------------------------------------------------------------------------
Init ==
  /\ saleRows = {} /\ lineRows = {} /\ rung = {}
  /\ refunded = [r \in Refunders |-> NoLines]
  /\ stock = Opening
  /\ pc = [r \in Requests |-> "idle"]
  /\ sale \in [Requests -> Sales]
  /\ typed = [r \in Refunders |-> NoLines]
  /\ collected = [r \in Deleters |-> {}]
  /\ lockedBy = [l \in Lines |-> Nobody]

\* Fault: a primary key that was given away may be given again.
RingUpAgain(s) ==
  /\ s \notin saleRows
  /\ saleRows' = saleRows \cup {s}
  /\ lineRows' = lineRows \cup LinesOf(s)
  /\ stock' = [p \in Products |-> stock[p] - Units(LinesOf(s), Sold, p)]
  /\ UNCHANGED <<rung, refunded, pc, sale, typed, collected, lockedBy>>

\* sales_add commits a sale: StockTransactions has its details.
RingUp(s) ==
  /\ s \notin rung
  /\ rung' = rung \cup {s}
  /\ saleRows' = saleRows \cup {s}
  /\ lineRows' = lineRows \cup LinesOf(s)
  /\ stock' = [p \in Products |-> stock[p] - Units(LinesOf(s), Sold, p)]
  /\ UNCHANGED <<refunded, pc, sale, typed, collected, lockedBy>>

-----------------------------------------------------------------------------
(* Refunds *)

\* The POST reads the sale, its lines and what was refunded of each, and
\* accepts quantities that do not exceed what is left.
CheckRemaining(r) ==
  /\ pc[r] = "idle"
  /\ sale[r] \in saleRows
  /\ \E q \in [Lines -> Quantities] :
       /\ q # NoLines
       /\ \A l \in Lines :
            q[l] > 0 => l \in lineRows \cap LinesOf(sale[r]) /\ q[l] <= Remaining(l)
       /\ typed' = [typed EXCEPT ![r] = q]
  /\ pc' = [pc EXCEPT ![r] = "checked"]
  /\ UNCHANGED <<saleRows, lineRows, rung, refunded, stock, sale, collected, lockedBy>>

\* The sale is not there (404), or more was typed for a line than is left.
RefuseRefund(r) ==
  /\ pc[r] = "idle"
  /\ sale[r] \in rung
  /\ \/ sale[r] \notin saleRows
     \/ \E l \in LinesOf(sale[r]), n \in Quantities : n > Remaining(l)
  /\ pc' = [pc EXCEPT ![r] = "refused"]
  /\ UNCHANGED <<saleRows, lineRows, rung, refunded, stock, sale, typed, collected, lockedBy>>

\* The header and the lines are inserted and the stock of each line's product
\* is given back, in one transaction.
SaveRefund(r) ==
  /\ refunded' = [refunded EXCEPT ![r] = typed[r]]
  /\ stock' = [p \in Products |-> stock[p] + Units(Lines, typed[r], p)]
  /\ pc' = [pc EXCEPT ![r] = "done"]
  /\ UNCHANGED <<saleRows, lineRows, rung, sale, typed, collected, lockedBy>>

\* Fault: the foreign keys carry no database constraint.
CommitUnchecked(r) == pc[r] = "checked" /\ SaveRefund(r)

\* The foreign keys to the sale and its lines hold at COMMIT; rows that a
\* deletion in progress has locked are waited for.
CommitRefund(r) ==
  /\ pc[r] = "checked"
  /\ \A l \in LinesOf(sale[r]) : lockedBy[l] = Nobody
  /\ sale[r] \in saleRows
  /\ {l \in Lines : typed[r][l] > 0} \subseteq lineRows
  /\ SaveRefund(r)

-----------------------------------------------------------------------------
(* Deletion *)

\* A refund protects its sale: the confirmation page says so.
RefuseDeletion(r) ==
  /\ pc[r] = "idle"
  /\ sale[r] \in rung
  /\ sale[r] \notin saleRows \/ HasRefund(sale[r])
  /\ pc' = [pc EXCEPT ![r] = "refused"]
  /\ UNCHANGED <<saleRows, lineRows, rung, refunded, stock, sale, typed, collected, lockedBy>>

\* Before its transaction the deletion finds no refund and collects the lines.
Collect(r) ==
  /\ pc[r] = "idle"
  /\ sale[r] \in saleRows
  /\ ~HasRefund(sale[r])
  /\ pc' = [pc EXCEPT ![r] = "collected"]
  /\ collected' = [collected EXCEPT ![r] = LinesOf(sale[r]) \cap lineRows]
  /\ UNCHANGED <<saleRows, lineRows, rung, refunded, stock, sale, typed, lockedBy>>

\* Fault: the receiver goes on when the sale of a deleted line is not there.
DeleteLinesAnyway(r) ==
  /\ pc[r] = "collected"
  /\ \A l \in collected[r] : lockedBy[l] = Nobody
  /\ lockedBy' = [l \in Lines |-> IF l \in collected[r] THEN r ELSE lockedBy[l]]
  /\ pc' = [pc EXCEPT ![r] = "restored"]
  /\ UNCHANGED <<saleRows, lineRows, rung, refunded, stock, sale, typed, collected>>

\* DELETE of the collected lines, which waits for a deletion that has locked
\* them, then per collected line its stock is given back and its sale looked
\* up to refresh the total: that fails when the sale is gone.
DeleteLines(r) ==
  /\ pc[r] = "collected"
  /\ \A l \in collected[r] : lockedBy[l] = Nobody
  /\ sale[r] \in saleRows
  /\ lockedBy' = [l \in Lines |-> IF l \in collected[r] THEN r ELSE lockedBy[l]]
  /\ pc' = [pc EXCEPT ![r] = "restored"]
  /\ UNCHANGED <<saleRows, lineRows, rung, refunded, stock, sale, typed, collected>>

Unlock(r) == lockedBy' = [l \in Lines |-> IF lockedBy[l] = r THEN Nobody ELSE lockedBy[l]]

\* DELETE of the sale and COMMIT, which a refund saved meanwhile would stop.
CommitDeletion(r) ==
  /\ pc[r] = "restored"
  /\ ~HasRefund(sale[r])
  /\ saleRows' = saleRows \ {sale[r]}
  /\ lineRows' = lineRows \ collected[r]
  /\ stock' = [p \in Products |-> stock[p] + Units(collected[r], Sold, p)]
  /\ Unlock(r)
  /\ pc' = [pc EXCEPT ![r] = "done"]
  /\ UNCHANGED <<rung, refunded, sale, typed, collected>>

\* Any statement of either transaction may raise, a missing row or a foreign
\* key among them; nothing of the transaction stays.
Fail(r) ==
  /\ pc[r] \in {"checked", "collected", "restored"}
  /\ Unlock(r)
  /\ pc' = [pc EXCEPT ![r] = "failed"]
  /\ UNCHANGED <<saleRows, lineRows, rung, refunded, stock, sale, typed, collected>>

\* The form is sent again.
Retry(r) ==
  /\ pc[r] = "failed"
  /\ pc' = [pc EXCEPT ![r] = "idle"]
  /\ UNCHANGED <<saleRows, lineRows, rung, refunded, stock, sale, typed, collected, lockedBy>>

\* Every request has its answer.
AllAnswered == (\A r \in Requests : pc[r] \in {"done", "refused"}) /\ UNCHANGED vars

Next ==
  \/ \E s \in Sales : RingUp(s)
  \/ \E r \in Refunders : CheckRemaining(r) \/ RefuseRefund(r) \/ CommitRefund(r)
  \/ \E r \in Deleters :
       RefuseDeletion(r) \/ Collect(r) \/ DeleteLines(r) \/ CommitDeletion(r)
  \/ \E r \in Requests : Fail(r) \/ Retry(r)
  \/ AllAnswered

Spec == Init /\ [][Next]_vars

-----------------------------------------------------------------------------
(* Properties *)

\* The variables have their types; a sale is in the database only once it has been
\* rung up, and what holds a line's row is a deletion.
TypeOK ==
  /\ saleRows \subseteq rung /\ rung \subseteq Sales
  /\ lineRows \subseteq Lines
  /\ refunded \in [Refunders -> [Lines -> Nat]]
  /\ stock \in [Products -> Int]
  /\ pc \in [Requests -> {"idle", "checked", "collected", "restored", "refused", "failed", "done"}]
  /\ sale \in [Requests -> Sales]
  /\ typed \in [Refunders -> [Lines -> Nat]]
  /\ collected \in [Deleters -> SUBSET Lines]
  /\ lockedBy \in [Lines -> Deleters \cup {Nobody}]

\* A refund is a record of money handed back and stays together with its sale:
\* no deletion, however it interleaves with the refund, takes away the sale or
\* a line that a saved refund points at (PROTECT, then the foreign key), and
\* no line is left without its sale.
RefundKeepsSale ==
  /\ \A r \in Refunders, l \in Lines : refunded[r][l] > 0 => l \in lineRows
  /\ \A l \in lineRows : SaleOf[l] \in saleRows

\* The stock of a line is given back by the transaction that really deletes it:
\* when a deletion has restored its lines' stock they are all still there and
\* locked by it, although it collected them before its transaction began.
GivesBackItsOwn ==
  \A r \in Deleters : pc[r] = "restored" =>
    \A l \in collected[r] : l \in lineRows /\ lockedBy[l] = r

\* Stock is what the surviving rows say: sold lines out, refunded ones in.  A
\* sale that two requests delete at once gives its stock back once.
StockMatchesRows ==
  \A p \in Products :
    stock[p] = Opening[p] - Units(lineRows, Sold, p)
                 + SumFunction([r \in Refunders |-> Units(Lines, refunded[r], p)])

\* "Caps each line at what hasn't already been refunded from it, so the same
\* item can't be refunded twice over across separate refund transactions
\* against the same sale": no line has more refunded than was sold of it.
NoOverRefund == \A l \in Lines : RefundedOf(l) <= Sold[l]
=============================================================================
