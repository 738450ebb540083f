------------------------- MODULE StockTransactions -------------------------
(***************************************************************************)
(* How STORA changes Product.quantity.  Every till or warehouse request    *)
(* that posts a document (sale, refund, delivery, write-off, scrap) runs   *)
(* one database transaction: for each line it locks the product row        *)
(* (select_for_update), and for a sale or refund of a recipe product the   *)
(* rows of its ingredients too, adds the movement to the value it read     *)
(* under the lock, and inserts the line.  The locks are kept until the     *)
(* transaction commits or rolls back.  Requests run concurrently, lock     *)
(* rows in the order of their lines, and the database breaks circular      *)
(* waits by aborting one of the transactions; the user may then send the   *)
(* same document again.                                                    *)
(***************************************************************************)
EXTENDS Integers, Sequences, FiniteSets, Functions

CONSTANTS
  Products,        \* rows of products_product
  RecipeProducts,  \* the ones with is_recipe set
  Recipe,          \* Recipe[q][p]: units of ingredient p in one unit of q
  Requests,        \* HTTP requests, each posting one document
  NoRequest,       \* "nobody" as the holder of a row lock
  Documents,       \* the documents requests may carry
  Opening          \* stock before the first request

Kinds == {"sale", "refund", "delivery", "outgoing"}

\* A line of a document: the product and the quantity typed for it.
Lines == [item : Products, amount : Nat \ {0}]

ASSUME RecipeAssumption ==
  /\ RecipeProducts \subseteq Products
  /\ Recipe \in [RecipeProducts -> [Products -> Nat]]

ASSUME DocumentAssumption ==
  /\ \A d \in Documents : d.kind \in Kinds
  /\ \A d \in Documents : d.lines \in Seq(Lines) /\ Len(d.lines) > 0

ASSUME RequestAssumption == IsFiniteSet(Requests) /\ NoRequest \notin Requests

ASSUME OpeningAssumption == Opening \in [Products -> Int]

VARIABLES
  quantity,   \* committed value of Product.quantity
  newest,     \* newest version of that row, its holder's uncommitted one included
  holder,     \* the request whose transaction holds the row lock
  doc,        \* the document each request carries
  pc,         \* the statement each request is about to run
  lineNo,     \* the line of its document it is at
  want,       \* the row its current SELECT ... FOR UPDATE is asking for
  todo,       \* the further ingredient rows that SELECT will ask for
  inMemory,   \* quantity attribute of the Product instances it has loaded
  rows        \* per product, net movement of the document lines it has inserted

vars == <<quantity, newest, holder, doc, pc, lineNo, want, todo, inMemory, rows>>

Phases == {"ready", "product", "ingredients", "adjust", "insert", "commit",
           "committed", "failed"}

Nothing == [p \in Products |-> 0]

-----------------------------------------------------------------------------
(* Documents *)

\* Deliveries and refunds bring stock in, sales and write-offs take it out.
Sign(kind) == IF kind \in {"delivery", "refund"} THEN 1 ELSE -1

\* Only sales and refunds look at is_recipe: adjust_stock_for_sale.
UsesRecipe(kind, item) == kind \in {"sale", "refund"} /\ item \in RecipeProducts

\* Fault: a recipe product is taken off its own, meaningless, stock.
OwnRowTargets(kind, item) == {item}

\* Rows whose quantity a line changes.
Targets(kind, item) ==
  IF UsesRecipe(kind, item) THEN {p \in Products : Recipe[item][p] > 0} ELSE {item}

\* Units of p that one unit of item stands for.
UnitsOf(kind, item, p) ==
  IF UsesRecipe(kind, item) THEN Recipe[item][p]
  ELSE IF p = item THEN 1 ELSE 0

\* The movement of p that a line of a document of this kind makes.
Change(kind, line, p) == Sign(kind) * line.amount * UnitsOf(kind, line.item, p)

-----------------------------------------------------------------------------
(* Requests and locks *)

Running(r) == pc[r] \in {"product", "ingredients", "adjust", "insert", "commit"}

CurrentLine(r) == doc[r].lines[lineNo[r]]

CurrentTargets(r) == Targets(doc[r].kind, CurrentLine(r).item)

Locking(r) == pc[r] \in {"product", "ingredients"}

\* Fault: get() in place of select_for_update().get(), which waits for nobody.
ReadableAnyway(r) == want[r] \in Products

\* A row can be locked again by the transaction that already holds it.
Lockable(r) == holder[want[r]] \in {NoRequest, r}

Blocked(r) == Locking(r) /\ ~Lockable(r)

\* r waits, through other waiting requests, for itself.
Deadlocked(r) ==
  \E S \in SUBSET Requests :
    /\ r \in S
    /\ \A s \in S : Blocked(s)
    /\ S = {holder[want[s]] : s \in S}

-----------------------------------------------------------------------------
Init ==
  /\ quantity = Opening
  /\ newest = Opening
  /\ holder = [p \in Products |-> NoRequest]
  /\ doc \in [Requests -> Documents]
  /\ pc = [r \in Requests |-> "ready"]
  /\ lineNo = [r \in Requests |-> 1]
  /\ want = [r \in Requests |-> doc[r].lines[1].item]
  /\ todo = [r \in Requests |-> {}]
  /\ inMemory = [r \in Requests |-> Nothing]
  /\ rows = [r \in Requests |-> Nothing]

\* The POST arrives, or arrives again after it failed: the cart is still on
\* the screen.  BEGIN, and the document's header row is inserted.
Submit(r) ==
  /\ pc[r] \in {"ready", "failed"}
  /\ pc' = [pc EXCEPT ![r] = "product"]
  /\ lineNo' = [lineNo EXCEPT ![r] = 1]
  /\ want' = [want EXCEPT ![r] = doc[r].lines[1].item]
  /\ UNCHANGED <<quantity, newest, holder, doc, todo, inMemory, rows>>

\* The row lock is granted and the row's newest version is loaded.
TakeLock(r) ==
  /\ Lockable(r)
  /\ holder' = [holder EXCEPT ![want[r]] = r]
  /\ inMemory' = [inMemory EXCEPT ![r][want[r]] = newest[want[r]]]
  /\ UNCHANGED <<quantity, newest, doc, lineNo, rows>>

\* SELECT ... FOR UPDATE of the line's own product; a plain product (or a
\* recipe with no ingredients, which then changes nothing) needs no other row.
LockProduct(r) ==
  /\ pc[r] = "product"
  /\ TakeLock(r)
  /\ UsesRecipe(doc[r].kind, CurrentLine(r).item) => CurrentTargets(r) = {}
  /\ pc' = [pc EXCEPT ![r] = "adjust"]
  /\ UNCHANGED <<want, todo>>

\* The same for a recipe product: its ingredients are locked next, by one
\* statement that visits their rows in an order the database chooses.
LockRecipe(r) ==
  /\ pc[r] = "product"
  /\ TakeLock(r)
  /\ UsesRecipe(doc[r].kind, CurrentLine(r).item)
  /\ pc' = [pc EXCEPT ![r] = "ingredients"]
  /\ \E i \in CurrentTargets(r) :
       /\ want' = [want EXCEPT ![r] = i]
       /\ todo' = [todo EXCEPT ![r] = CurrentTargets(r) \ {i}]

LockNextIngredient(r) ==
  /\ pc[r] = "ingredients"
  /\ TakeLock(r)
  /\ \E i \in todo[r] :
       /\ want' = [want EXCEPT ![r] = i]
       /\ todo' = [todo EXCEPT ![r] = @ \ {i}]
  /\ UNCHANGED pc

LockLastIngredient(r) ==
  /\ pc[r] = "ingredients"
  /\ TakeLock(r)
  /\ todo[r] = {}
  /\ pc' = [pc EXCEPT ![r] = "adjust"]
  /\ UNCHANGED <<want, todo>>

\* quantity is written from the loaded instances, row by row; nobody else can
\* see or touch the rows in between.
AdjustStock(r) ==
  /\ pc[r] = "adjust"
  /\ newest' = [p \in Products |->
       IF p \in CurrentTargets(r)
       THEN inMemory[r][p] + Change(doc[r].kind, CurrentLine(r), p)
       ELSE newest[p]]
  /\ pc' = [pc EXCEPT ![r] = "insert"]
  /\ UNCHANGED <<quantity, holder, doc, lineNo, want, todo, inMemory, rows>>

\* Fault: the loop over the lines does not stop after the last one.
InsertPastLastLine(r) ==
  /\ pc[r] = "insert"
  /\ lineNo' = [lineNo EXCEPT ![r] = @ + 1]
  /\ pc' = [pc EXCEPT ![r] = IF lineNo[r] < Len(doc[r].lines) THEN "product" ELSE "commit"]
  /\ UNCHANGED <<quantity, newest, holder, doc, want, todo, inMemory, rows>>

\* The line itself is inserted (and the document's total refreshed); then the
\* next line, or the end of the atomic block.
InsertLine(r) ==
  /\ pc[r] = "insert"
  /\ rows' = [rows EXCEPT ![r] =
       [p \in Products |-> @[p] + Change(doc[r].kind, CurrentLine(r), p)]]
  /\ IF lineNo[r] < Len(doc[r].lines)
     THEN /\ lineNo' = [lineNo EXCEPT ![r] = @ + 1]
          /\ want' = [want EXCEPT ![r] = doc[r].lines[lineNo[r] + 1].item]
          /\ pc' = [pc EXCEPT ![r] = "product"]
     ELSE /\ pc' = [pc EXCEPT ![r] = "commit"]
          /\ UNCHANGED <<lineNo, want>>
  /\ UNCHANGED <<quantity, newest, holder, doc, todo, inMemory>>

Unlock(r) == holder' = [p \in Products |-> IF holder[p] = r THEN NoRequest ELSE holder[p]]

Commit(r) ==
  /\ pc[r] = "commit"
  /\ quantity' = [p \in Products |-> IF holder[p] = r THEN newest[p] ELSE quantity[p]]
  /\ Unlock(r)
  /\ pc' = [pc EXCEPT ![r] = "committed"]
  /\ UNCHANGED <<newest, doc, lineNo, want, todo, inMemory, rows>>

\* Fault: the view answers from its except branch with the transaction left open.
LeaveOpen(r) ==
  /\ newest' = [p \in Products |-> IF holder[p] = r THEN quantity[p] ELSE newest[p]]
  /\ rows' = [rows EXCEPT ![r] = Nothing]
  /\ pc' = [pc EXCEPT ![r] = "failed"]
  /\ UNCHANGED <<quantity, holder, doc, lineNo, want, todo, inMemory>>

\* Fault: no atomic block, so what was saved before the error stays.
KeepWrittenLines(r) ==
  /\ quantity' = [p \in Products |-> IF holder[p] = r THEN newest[p] ELSE quantity[p]]
  /\ Unlock(r)
  /\ pc' = [pc EXCEPT ![r] = "failed"]
  /\ UNCHANGED <<newest, doc, lineNo, want, todo, inMemory, rows>>

\* ROLLBACK: the request's versions and lines disappear, its locks are freed,
\* the view reports the failure.
Rollback(r) ==
  /\ newest' = [p \in Products |-> IF holder[p] = r THEN quantity[p] ELSE newest[p]]
  /\ Unlock(r)
  /\ rows' = [rows EXCEPT ![r] = Nothing]
  /\ pc' = [pc EXCEPT ![r] = "failed"]
  /\ UNCHANGED <<quantity, doc, lineNo, want, todo, inMemory>>

\* Any statement of the block may raise (the except branch of the views).
Fail(r) == Running(r) /\ Rollback(r)

\* The database aborts a transaction it finds in a circular wait.
AbortVictim(r) == Deadlocked(r) /\ Rollback(r)

Step(r) ==
  \/ LockProduct(r) \/ LockRecipe(r) \/ LockNextIngredient(r) \/ LockLastIngredient(r)
  \/ AdjustStock(r) \/ InsertLine(r) \/ Commit(r)

\* Every document is in the books; nothing is left to do.
AllCommitted == (\A r \in Requests : pc[r] = "committed") /\ UNCHANGED vars

Next ==
  \/ \E r \in Requests : Submit(r) \/ Step(r) \/ Fail(r) \/ AbortVictim(r)
  \/ AllCommitted

Spec == Init /\ [][Next]_vars

\* A running request keeps running, the database serves the queue of a row
\* lock in order, and it looks for deadlocks.  Nobody has to send a failed
\* document again.
FairSpec ==
  /\ Spec
  /\ \A r \in Requests : SF_vars(Step(r)) /\ WF_vars(AbortVictim(r))

-----------------------------------------------------------------------------
(* Properties *)

\* The variables have their types, and no request runs past the last line of
\* its document.
TypeOK ==
  /\ quantity \in [Products -> Int]
  /\ newest \in [Products -> Int]
  /\ holder \in [Products -> Requests \cup {NoRequest}]
  /\ doc \in [Requests -> Documents]
  /\ pc \in [Requests -> Phases]
  /\ lineNo \in [Requests -> Nat \ {0}]
  /\ \A r \in Requests : lineNo[r] <= Len(doc[r].lines)
  /\ want \in [Requests -> Products]
  /\ todo \in [Requests -> SUBSET Products]
  /\ inMemory \in [Requests -> [Products -> Int]]
  /\ rows \in [Requests -> [Products -> Int]]

\* What r has written to p ahead of the line that says so.
Unrecorded(r, p) ==
  IF pc[r] = "insert" THEN Change(doc[r].kind, CurrentLine(r), p) ELSE 0

\* No lost update.  The version a transaction is building of a row is the last
\* committed value plus exactly the movements of its own lines, whatever other
\* sales, refunds and deliveries of the product commit meanwhile; a row nobody
\* holds has no uncommitted version (SaleItems.save, DeliveryItems.save).
NoLostUpdate ==
  /\ \A p \in Products : holder[p] = NoRequest => newest[p] = quantity[p]
  /\ \A p \in Products, r \in Requests :
       holder[p] = r => newest[p] = quantity[p] + rows[r][p] + Unrecorded(r, p)

\* A row lock never outlives its transaction, so no crash, deadlock or failed
\* line leaves a product that nobody can sell any more.
NoOrphanLock == \A p \in Products, r \in Requests : holder[p] = r => Running(r)

\* What a document moves in all, from its lines alone.
DocumentEffect(d, p) ==
  SumFunction([i \in DOMAIN d.lines |-> Change(d.kind, d.lines[i], p)])

\* Stock reconciles: a product's quantity is its opening stock plus what the
\* committed documents say, line by line.  Half a document, a document counted
\* twice, a recipe charged to its own row or two concurrent sales overwriting
\* each other would all show here.
StockMatchesDocuments ==
  \A p \in Products :
    quantity[p] = Opening[p] +
      SumFunction([r \in {s \in Requests : pc[s] = "committed"} |-> DocumentEffect(doc[r], p)])

Ledger == INSTANCE StockLedger WITH
  stock <- quantity,
  posted <- {r \in Requests : pc[r] = "committed"},
  journal <- [r \in Requests |-> IF pc[r] = "committed" THEN rows[r] ELSE Nothing]

\* Concurrent, failing, repeated requests look to a reader of committed data
\* like documents posted whole, one at a time: sales_add, refund_new and
\* deliveries_add with the save methods they call implement the ledger.
ImplementsLedger == Ledger!Spec

\* Every request is answered: lines that wait for each other's rows do not
\* hang the tills, each ends with a saved document or an error on the screen.
EveryRequestAnswered ==
  \A r \in Requests : Running(r) ~> pc[r] \in {"committed", "failed"}
=============================================================================
