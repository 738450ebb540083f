--------------------------- MODULE ProductEditing ---------------------------
(***************************************************************************)
(* Users edit a product while it is being sold, and turn one that was sold *)
(* as a plain item into a recipe.  A request loads the product's row, puts *)
(* what was typed into the instance, and saves every column of it without  *)
(* having locked the row.  The edit page saves twice: in its own           *)
(* transaction and again in UpdateView.form_valid; between the two it      *)
(* dispatches the task that charges the ingredient with the sales of the   *)
(* past.  Sales and that task do lock the product's row, so each is one    *)
(* step here.                                                              *)
(***************************************************************************)
EXTENDS Integers

CONSTANTS
  Editors,   \* requests that save the product
  PerUnit,   \* units of the ingredient in one unit of the product
  Stock,     \* stock of product and ingredient before the first sale
  MaxSold,   \* bound: units of the product sold
  MaxQueue   \* bound: tasks waiting for the Celery worker

VARIABLES
  row,         \* the product's row: quantity, is_recipe, ingredients_backfilled_at
  ingredient,  \* quantity of the ingredient
  sold,        \* sum of sale_quantity over the product's SaleItems
  queue,       \* backfill tasks the broker holds
  runs,        \* how often the backfill went past its guard
  pc, form     \* what a request does; the instance it has in memory

vars == <<row, ingredient, sold, queue, runs, pc, form>>

Init ==
  /\ row = [quantity |-> Stock, isRecipe |-> FALSE, backfilled |-> FALSE]
  /\ ingredient = Stock
  /\ sold = 0 /\ queue = 0 /\ runs = 0
  /\ pc = [e \in Editors |-> "idle"]
  /\ form = [e \in Editors |-> row]

\* adjust_stock_for_sale for one unit.
Sell ==
  /\ sold < MaxSold
  /\ sold' = sold + 1
  /\ IF row.isRecipe
     THEN ingredient' = ingredient - PerUnit /\ UNCHANGED row
     ELSE row' = [row EXCEPT !.quantity = @ - 1] /\ UNCHANGED ingredient
  /\ UNCHANGED <<queue, runs, pc, form>>

\* One cell of the grid: is_recipe is not among the fields of its form.
LoadForGrid(e) ==
  /\ pc[e] = "idle"
  /\ form' = [form EXCEPT ![e] = row]
  /\ pc' = [pc EXCEPT ![e] = "save cell"]
  /\ UNCHANGED <<row, ingredient, sold, queue, runs>>

\* The edit page, with "is a recipe" ticked or not.
LoadForPage(e) ==
  /\ pc[e] = "idle"
  /\ \E ticked \in BOOLEAN : form' = [form EXCEPT ![e] = [row EXCEPT !.isRecipe = ticked]]
  /\ pc' = [pc EXCEPT ![e] = "save page"]
  /\ UNCHANGED <<row, ingredient, sold, queue, runs>>

\* Every column of the row is written from the instance.
WriteRow(e) == row' = form[e] /\ UNCHANGED <<ingredient, sold, queue, runs, form>>

SaveCell(e) ==
  /\ pc[e] = "save cell"
  /\ WriteRow(e)
  /\ pc' = [pc EXCEPT ![e] = "idle"]

\* form.save() and the formsets, in one transaction ...
SavePage(e) ==
  /\ pc[e] = "save page"
  /\ WriteRow(e)
  /\ pc' = [pc EXCEPT ![e] = "dispatch"]

\* ... which may also fail and leave nothing behind.
FailPage(e) ==
  /\ pc[e] = "save page"
  /\ pc' = [pc EXCEPT ![e] = "idle"]
  /\ UNCHANGED <<row, ingredient, sold, queue, runs, form>>

\* dispatch_task for a recipe whose instance says no backfill has run; without
\* a broker the task is only logged.
Dispatch(e) ==
  /\ pc[e] = "dispatch"
  /\ \/ form[e].isRecipe /\ ~form[e].backfilled /\ queue < MaxQueue /\ queue' = queue + 1
     \/ UNCHANGED queue
  /\ pc' = [pc EXCEPT ![e] = "save again"]
  /\ UNCHANGED <<row, ingredient, sold, runs, form>>

\* super().form_valid(form) calls form.save() once more.
SaveAgain(e) ==
  /\ pc[e] = "save again"
  /\ WriteRow(e)
  /\ pc' = [pc EXCEPT ![e] = "idle"]

\* backfill_recipe_ingredient_stock in the worker: past its guard ...
Backfill ==
  /\ queue > 0
  /\ row.isRecipe /\ ~row.backfilled
  /\ queue' = queue - 1
  /\ runs' = runs + 1
  /\ ingredient' = ingredient - PerUnit * sold
  /\ row' = [row EXCEPT !.backfilled = TRUE]
  /\ UNCHANGED <<sold, pc, form>>

\* ... or stopped by it.
SkipBackfill ==
  /\ queue > 0
  /\ ~row.isRecipe \/ row.backfilled
  /\ queue' = queue - 1
  /\ UNCHANGED <<row, ingredient, sold, runs, pc, form>>

Next ==
  \/ Sell \/ Backfill \/ SkipBackfill
  \/ \E e \in Editors :
       \/ LoadForGrid(e) \/ LoadForPage(e) \/ SaveCell(e) \/ SavePage(e) \/ FailPage(e)
       \/ Dispatch(e) \/ SaveAgain(e)

Spec == Init /\ [][Next]_vars

-----------------------------------------------------------------------------
(* Properties *)

\* "Runs once per recipe: guarded by `ingredients_backfilled_at`, so saving the
\* recipe again later does not re-run it and double-deduct"
\* (backfill_recipe_ingredient_stock).
RunsOnce == runs <= 1

\* "`quantity` is excluded on purpose: it must only change via Deliveries/Sales"
\* (ProductInlineEditForm): no edit of the product changes its stock.
OnlyDocumentsMoveStock == [][row'.quantity # row.quantity => sold' # sold]_vars
=============================================================================
