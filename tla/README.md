# STORA: a TLA+ verification project

STORA is a point-of-sale and warehouse application: a Django project
(`src/STORA`) on PostgreSQL, served by the multi-threaded waitress server, with
Celery and Redis for background tasks where they are installed and a fiscal
printer driven through a vendor program, ECRCommApp. This directory models the
parts of it in which something can go wrong that a test would hardly reach:
requests of several tills that interleave in the database, transactions that
fail half-way, a device whose answers get lost, forms that save what they
loaded long ago, sessions of which the last copy wins, reports that compute the
past backwards, a backup that stops between two steps.

Contents: 1 the system, 2 the plan, 3 the modules and the code, 4 the runs,
5 the proofs, 6 findings, 7 assumptions and limits, 8 how to run it.

## 1. The system

Every request runs in a thread of its own and in PostgreSQL's READ COMMITTED
mode. There is no `ATOMIC_REQUESTS`: a statement outside `transaction.atomic()`
commits by itself, and what a view reads before its atomic block may have
changed when the block runs. Row locks come only from `select_for_update()`,
from UPDATE and DELETE, and from foreign keys.

| Component | State | Operations | Interacts with |
|---|---|---|---|
| Stock movements (`sales/models.py`, `sales/views.py`, `deliveries/models.py`, `deliveries/views.py`) | `Product.quantity`; documents and their lines | `sales_add`, `refund_new`, `deliveries_add`; `SaleItems.save`, `RefundItems.save`, `DeliveryItems.save`, `adjust_stock_for_sale` | everything that reads or writes `Product.quantity` |
| Refunds and deletion of sales | `SaleAttributes`, `SaleItems`, `RefundAttributes`, `RefundItems` | `refund_new`, `SalesDeleteView`, `_restore_stock_on_delete` | stock movements; fiscal printing of a storno |
| Fiscal printing (`sales/fiscal.py`) | `FiscalCounter`, fiscal fields of a document, the ECRCommApp process, the receipt open on the device | `attempt_print`, `attempt_print_refund`, the retry views, reports, service cash | sales and refunds after their commit |
| Stock revisions (`revisions/`) | `RevisionAttributes`, `RevisionItems` | start, load, add, set, remove, cancel, complete | overwrites `Product.quantity`; read by the reports |
| Product editing and backfill (`products/views.py`, `sales/tasks.py`, `core/utils.py`) | the whole row of `Product` with its JSON blob of attributes, its barcodes, `ingredients_backfilled_at`, the Celery queue | grid cell, edit page, attribute, bulk actions, archive, delete, barcode columns, `dispatch_task`, `backfill_recipe_ingredient_stock` | writes back the quantity that sales change |
| Deliveries: editing and deletion | delivery lines, removal log, `_deliveries_being_deleted` | line edits, `DeliveryDeleteView`, internal numbers | stock movements, supplier links |
| Sale and delivery tabs (`sales/tab_state.py`, `deliveries/tab_state.py`) | three drafts of each screen in the session | page, autosave, switch, cancel, save | the session row, loaded and saved as a whole |
| Orders (`orders/`) | `OrderCounter`, orders and their lines | `order_new`, `order_edit`, `order_ai_draft_all`, `order_confirm`, `order_discard` | suppliers' candidates; nothing depends on orders |
| Price lists (`pricelists/`) | lists with their rules, periods, `is_deleted` | create, edit, delete; `resolve_prices`, `rules_for_price_list` | the register charges what they resolve to |
| Reports (`reports/services.py`) | none of their own | `stock_as_of`, `stock_movement_totals`, `_sell_price_as_of` | read all movements, completed revisions and the price log |
| Category tree | `Category.parent`, `show_on_pos` | create, move, toggle, delete; `get_descendant_ids` | read by pickers, price lists, reports |
| Backups (`core/management/commands/backup_db.py`) | PostgreSQL's change counter, state file, dumps | decide, dump, rename, save the state, rotate | a scheduler outside |
| Excel import (`deliveries/excel_import.py`, `deliveries/views.py`) | the reviewed grid, pending products | parse, review, create products and delivery in one transaction | the catalogue, which others extend meanwhile |
| The till's own commands (`sales/fiscal.py`) | `ServiceCashMovement` | X, Z and period reports, service cash | the fiscal device |
| Scale barcodes, accounts, PINs, void log, API, search, AI services, pages that only read | rows nobody else depends on | parsers, inserts, queries | - |

What is hard, and the property that would be wrong if it went wrong:

- **Stock movements.** Two tills sell one product; carts lock the same rows in
  opposite orders; a recipe's ingredients are locked by one statement in the
  database's order; a later line fails after earlier ones have moved stock; the
  cashier sends the same cart again. Stock must be exactly what the committed
  documents say, no lock may outlive its transaction, everybody gets an answer.
- **Refunds and deletion.** Both check before their transaction and act in it.
  A refunded sale must stay, a deleted one gives its stock back once, nothing is
  refunded beyond what was sold.
- **Fiscal printing.** Retry against an attempt that still runs, commands
  executed with their answer lost, processes left behind, a restart of the
  server. Numbers are unique, what says PRINTED was printed, a storno follows
  its original, no attempt hangs, no storno is printed twice.
- **Stock revisions.** Several clerks count, one of them completes while the
  shop sells. One open revision, no accepted count lost, closed revisions stay
  closed, stock agrees with what completions recorded.
- **Product editing.** A form loaded before a sale and saved after it. Editing
  does not move stock; a recipe is backfilled once; a cell, a key of the blob and a
  barcode's slot keep what somebody put there as long as no outdated copy is saved.
- **Deliveries.** Edits that overlap with each other and with the deletion of the
  document, and may give it another supplier. Stock moves by what the lines change,
  no line outlives its document, the link with a supplier is not retracted while a
  line says who delivered.
- **Tabs.** Several windows and autosaves load and store one session. A delivery's
  draft stays on its tab, a saved document does not come back as a draft.
- **Orders.** Numbers drawn at once or by orders that fail; lines deleted and
  recreated while others edit or discard; a draft confirmed while it is
  discarded. Numbers without gap or repetition, no order without lines, no
  person's order deleted.
- **Price lists.** Rules of several lists and scopes compete. The register charges
  what the list's page shows and what the catalogue showed, whatever else is in
  the cart.
- **Reports.** Nothing is stored per day; a forgotten or wrongly signed movement
  falsifies all earlier days. What is computed is what was, and columns add up.
- **Category tree.** Forms that exclude what they found when they were built. No
  category leaves the tree.
- **Backups.** Runs that overlap, fail and stop anywhere; changes during a dump.
  "Unchanged" must mean saved, and rotation keeps the newest.
- **Import.** The last of several new products clashes, with a product added meanwhile
  or with a row of another file in the same grid. All or nothing, and only for a cause
  the clerk can see.
- **Till.** Money moves and its answer or its row is lost. The records explain the
  cash, only a Z report closes the day.

`PROJECT.json` lists every hazard with the line where it bites, and the
properties that watch it or the reason why none does yet.

## 2. The plan

In the order of what the shop loses when it goes wrong:

1. `StockLedger` (abstract) and `StockTransactions` - done, with proofs in
   `StockTransactionsProofs`.
2. `SaleReturns` - done. It takes a stock movement as one step, which is what
   `StockTransactions` proves of it; proofs in `SaleReturnsProofs`.
3. `FiscalPrinting` - done for receipts, with proofs in `FiscalPrintingProofs`;
   reports and service cash are in `Till` (9).
4. `StockRevisions` - done; proofs in `StockRevisionsProofs`.
5. `ProductEditing` - done for the row and the backfill; the other columns and
   the barcodes are in `ProductGrid` and `BarcodeSlots` (8), the change log of
   prices in `Reports`.
6. `Deliveries` - done for editing and deletion: line edits with a product
   swapped, the document given another supplier, the whole-delivery flag, supplier
   links; internal document numbers
   and the catalogue's `delivery_price` are left out. Proofs in `DeliveriesProofs`.
7. `Drafts`, `Orders` - done; the proofs about drafts alone are in `DraftsProofs`.
8. `ProductGrid`, `BarcodeSlots` - done.
9. `PriceLists`, `Reports`, `CategoryTree`, `Backups`, `Imports`, `Till` - done,
   checked side by side with 7 and 8 by `Office`.
10. `OfficeProofs` - done: every invariant of every part of `Office`, proved of the
   composition. `SumTheorems` holds the facts about sums, least elements and
   recursion that these and the other proofs share.

What is left, should the project grow: the formset of a product's suppliers; the
change of a sale's existing line in the admin. Runs are
kept to one per question; small instances have two actors wherever the hazard
needs two, three where a circle of waits needs three.

## 3. The modules and the code

Every definition that models code is in `PROJECT.json` under `map`, with the
lines it stands for. Definitions whose comment begins with "Fault:" are not part
of any specification: each is a plausible slip in the operation that follows it,
written down so that one can see that the properties notice it.

**StockLedger** - what the warehouse promises: a document is posted whole, once,
or not at all; nothing else moves stock. No locks, no transactions.

**StockTransactions** - the database transactions that do it. `quantity` is the
committed column, `newest` the newest version of the row including the one its
lock holder has not committed, `inMemory` the `Product` instances a request has
loaded. `pc` is the statement a request runs next: `product` is
`select_for_update().get()`, `ingredients` the statement that locks the
ingredients of a recipe (one row per step, in any order), `adjust` the
`quantity` assignment and save, `insert` the line's own INSERT. `Submit` stands
for the beginning of `sales_add`, `refund_new` and `deliveries_add`; the kinds
of document differ in their sign and in whether they look at `is_recipe`, as
`UsesRecipe` and `Sign` say. `Fail` is any statement that raises; `AbortVictim`
is the deadlock detector.

**SaleReturns** - refunds and deletions of existing sales. `CheckRemaining` is
everything `refund_new` reads before its atomic block, `CommitRefund` the block.
`Collect` is what Django's deletion collector reads, `DeleteLines` the DELETE of
the lines together with the signal receiver that gives stock back and refreshes
the sale's total, `CommitDeletion` the DELETE of the sale and the COMMIT, at
which the foreign keys of refunds are checked.

**FiscalPrinting** - the fiscal part of `sales/fiscal.py`, a step per command.
The commands between the opening and the closing of a receipt (`FDSaleItem` per
line, `FDTotalSum`, `FDPrintBarcode`) are one step, `Sell`: they differ in
wording only. `abandoned` is an ECRCommApp that nobody will stop, because
`_wait_for_server` raises before the `try` that would; it goes on answering on
the one port. Each command has three outcomes: executed and answered, executed
with its answer lost (`LoseAnswer`), not executed. ECRCommApp and the device are
external and modelled from how `fiscal.py` uses them.

**StockRevisions** - `revisions/`. A request is a record in `req`: what a clerk
asked for when the view looked (`Ask...`), carried out later (`Count`, `Preload`,
`Create`) or refused. `revLock` and `rowLock` are the row locks of a revision and
of a product; a completion holds the first from its beginning and takes one of
the second per counted row. `before` is the `quantity_before_complete` column.

**Deliveries** - what happens to a document after `deliveries_add`. `Post` is
the part of `delivery_edit` before its atomic block: the formset is bound to the
lines the database has by then and compares each with what was posted
(`has_changed`), so a line that somebody else changed meanwhile is written back
as the page showed it. A line marked for removal is not validated, and skipped when
it is already gone. The form of a delivery also writes its `supplier`, or none
(`Choices`, `given`); for other documents it has no effect here. `LockHeader` is
`form.save()`, whose UPDATE of the document's row makes edits of one document wait
for each other, and shows to others at the COMMIT; `CommitEdit` is
`formset.save()` with `DeliveryItems.save` and `_restore_stock_on_delete` for
each line. `Collect`, `DeleteLines` and `CommitDeletion` are the three parts of
Django's deletion as in `SaleReturns`; `deleting` is the module-level set
`_deliveries_being_deleted`, which keeps its mark when a deletion fails. Only
one line per edit is retyped, removed or added. When an edit writes several
lines, the search for other deliveries of a removed product sees all of them as
they will be; in the code it sees those that come later in the form as they were.
A request is answered once: what is shown again after an error is posted by another.
A transaction's movements and links appear at its COMMIT, which `StockTransactions`
justifies; product locks are not repeated here, so some waits and deadlocks of
the code are missing and nothing else is.

**ProductEditing** - one product that users edit while it is sold. `form[e]` is
the instance a request has in memory; `WriteRow` writes all of it, as `save()`
without `update_fields` does. `SavePage`, `Dispatch` and `SaveAgain` are the
three parts of the edit page's `form_valid`.

**ProductGrid** - the same row seen cell by cell: columns and the keys of the
`attributes` blob. `Load` is `get_object_or_404` of a POST, `page` the edit page
a user has open, `Write` what a save puts into the database: every column
(`SavePage`, `SaveField`), the blob alone (`SaveAttribute`, `update_fields`), or
one cell (`SetCell`, the bulk actions and the archive). The edit page saves its
instance twice: `SavePage` is `form.save()` in the transaction, `SaveAgain` the one in
`super().form_valid`, and `again` says who is between the two. The history variables
`stale` and `crossed` remember which cells a request wrote back although others
had written them since it loaded the row: the code takes no lock against that,
and the properties are about all other cells.

**BarcodeSlots** - the barcodes of one product: the grid's numbered columns
(`ClearSlot`, `RetypeSlot`, `AddSlot`) and the formset of the edit page
(`SavePage`), which renumbers what is on it. `gap` and `outdated` remember the two
ways in which the code itself lets numbers and slots differ.

**Orders** - `orders/`. A request goes through `step`; `Draw` is the locked read
of `OrderCounter` inside the order's own transaction, so `counter` stays held
until `Create`, `SaveDraft` or a failure. `Look` and `LockLines` are the two halves
of a DELETE under READ COMMITTED: the rows it sees, and those still there when
their locks are free. `Clashes` is `unique_order_product` and the foreign key,
`Discard` the deletion whose foreign keys are checked at COMMIT.

**Drafts** - `sales/tab_state.py` and `deliveries/tab_state.py` with the views that
use them. A request carries a copy of the whole session from its first access
(`Load`) to its answer, which writes all of it back. `Named` tells the screens
apart: delivery pages name their tab, sale pages leave it to the session's active
one. `Resolve` is `resolve_tab_for_page`. A draft is a cart, its fields are not told
apart. A page goes on autosaving until the next one replaces it (`AnswerGet`), also
while its own save is answered. `tangled` remembers carts that something else -
another request, window or tab - held when they were saved, and those their page
posted again after that.

**PriceLists** - `pricelists/`. `Beats` is `_rule_sort_key`, `Fetched` what
`resolve_prices` reads for a batch, `CandidateRules` what it keeps for one product,
`PageRules` is `rules_for_price_list`. Two rules of one list and scope that reach the
same product are a tie, which the database's row order decides; `Winners` and
`PageRules` are therefore sets.

**Reports** - `reports/services.py` over shop days in which anything may be sold,
refunded, received late, revised or repriced. `StockAsOf`, `Totals` and
`SellPriceAsOf` are computed as the code does, backwards; `shelf` and `tag` are what
was true at the end of each day. `LoadLate` is "Load into Revision" that finds a
revision open and adds its row when that has been completed: a row without
`quantity_before_complete`, for which the reports take the snapshot
(`reports/services.py:97`, `:303`) and read a change to 0. `untracked` remembers such a
row, and the two limits the code itself names: recipes edited since, prices changed in
bulk past the log. Revisions completed before that column existed are not modelled.

**CategoryTree** - `Open`, `Wave` and `Save` are the building of a `CategoryForm`: each
wave is one query of `get_descendant_ids`. `crossed` remembers that a form was saved
whose descendants were collected from an older tree.

**Backups** - the command `backup_db`, one action per effect outside the process.
Names carry the local time of a moment, `Local`; an older dump of the same name is
replaced. `reset`, `together` and `InOrder` say when the counter started again, runs
overlapped, and names sort by date.

**Imports** - `Parsed` is the loop of `parse_delivery_import` with its sets of names and
barcodes seen, together with the page's own: what is read is added to the rows the grid
already has, the quantity of a known product to its row (`Raise`), and a product the
page was not made with (`onPage`) is dropped. `Import` may come at any time of the
review, so the grid may hold rows of several files; `file` tells them apart. The clerk
removes rows and links possible duplicates (`RemoveRow`, `LinkRow`), or opens the page
again, which restores its draft (`Reload`). `Save` to `Commit` is the transaction of
`deliveries_add` with `_materialize_pending_products`, a row at a time, while others add
products; `Refusable` is what makes the database refuse a row: a clash with the
catalogue or with a row of this delivery, a barcode named twice, a value that is too
long. `RollBack` shows the grid again. Which product a new row is similar to is the
clerk's choice; the grid's other edits (quantities, prices) are not modelled.

**Till** - the till's own commands: each thread starts one and either gets an
answer, loses it, is refused with Code F, or fails; `Finish` is
`record_service_cash_move`. The device counts cash and sales, and closes the day on
`FDDailyRpt` as the comment on the item numbers says it does.

**Office** puts the ten modules from ProductGrid to Till side by side: none of them
reads what another writes, so a behaviour follows one of them (`part`), the
variables of the others are `Off`, and the states are the sum of theirs, not the
product. Drafts is there twice, for sales and for deliveries. Its assumptions are
those of its parts, stated in each as `...Assumptions` and ASSUMEd here.

The `MC...` modules give the constants their values and add nothing else.

## 4. The runs

| Run | Question | Instance |
|---|---|---|
| `stock_transactions` | Is stock what committed documents say, and do the transactions implement the ledger? | 2 requests, 5 documents of all four kinds, 3 products of which one is a recipe |
| `stock_deadlocks` | Does everybody get an answer when lines wait in a circle? | 3 requests, 3 documents that close a circle of three |
| `sale_returns` | Do refunds and deletions leave sales, lines and stock in agreement? | 2 sales, 3 lines, 2 products, 2 refunds, 2 deletions |
| `sale_over_refund` | Is a line refunded at most as often as it was sold? No. | 2 refunds, 1 deletion |
| `fiscal_printing` | Are numbers unique, PRINTED true, stornos in order, attempts finite? | 1 sale, 1 refund, 2 threads, 3 attempts, 1 lost answer |
| `fiscal_double_print` | Is a storno printed once? No. | the same, no answer lost |
| `stock_revisions` | One open revision, no count lost, stock reconciled, closed ones closed? | 2 clerks, 2 products, 2 revisions |
| `deliveries` | Do overlapping edits and deletions leave stock, lines, documents and links in agreement? | a delivery of 2 lines and a write-off of 1, 2 products, 1 supplier or none, 2 edits, 2 deletions |
| `delivery_removal` | Is stock what the lines say after a removal? No. | 1 edit, quantities 1 and 2 |
| `office` | Do the ten parts below keep what they promise while users overlap, transactions fail and processes stop? | see Bounds |
| `backfill_twice` | Does the backfill run once per recipe? No. | 1 editor, 2 units sold |
| `stale_quantity` | Does editing leave stock alone? No. | 1 editor |

What they show, beyond the one-line answers:

- `ImplementsLedger` is the refinement of `StockLedger` with `quantity` for its
  stock, the committed requests for the posted ones and the inserted lines for
  the journal. `StockMatchesDocuments` says the same with sums, from the
  documents themselves rather than from what the transactions wrote down.
- `PrintedIsPrinted` and `StornoFollowsOriginal` are stated for behaviours in
  which no answer of the device is lost. With a lost answer they are false, and
  the code cannot know better: after `FDStartFiscRcp` is executed and its answer
  lost, a receipt is open that the next thread sells into, and `FDCancelRcp`
  voids whatever is open. The run explores lost answers all the same, for
  `NumbersUnique` and `AttemptEnds`, which hold through them.
- `StockFollowsLines` compares, in every transaction, what stock moves by with
  what the lines change by. It leaves out exactly the transactions that remove a
  line which is not what they take it to be, for which it is false: a second
  deletion of the same document reverses it again (as a delivery, whatever it
  was), and an edit gives back what its page said.
- `LinkedWhenDelivered` says of every step that it retracts no link of a product
  and a supplier that some line in the books supports, and that the lines it writes
  are linked. It does not say that every delivered product is linked: an edit that
  only gives the document another supplier saves no line, and so links nothing
  (section 6).
- `ChangesAreRecorded` says of each step what `StockMatchesHistory` says of the
  sum: only a document or a completion that writes down what it replaces moves
  stock.
- `StockMatchesHistory` is the equation `stock_as_of` in `reports/services.py`
  relies on when it undoes completed revisions.

- `office` checks each part's properties where the part is followed, two of them
  joined into one where they are about one promise. Some exclude what the code
  gives no guarantee for, with a history variable that says exactly when:
  `DoneIsGone` carts that another request, window or tab held when they were
  saved, or that their page posted again afterwards; `ProductAsEdited` cells written
  back by a request that had loaded them, or had saved the edit page for the first
  time, before another wrote them, slots after a barcode was cleared in front of
  another; `TreeStaysWhole` forms saved from an outdated tree;
  `UnchangedMeansSaved` a counter that was reset, overlapping runs, names that do
  not sort by date; `AsOfIsAsItWas` recipes edited, prices changed in bulk, rows
  loaded into a completed revision;
  `BalanceAddsUp` ingredients of refunded recipe products; `PageAgreesWithRegister`
  ties. The model explores those behaviours too, and in each the property
  without the condition is false: section 6 lists them.
- `ImportOutcome` says that a save does the whole grid or nothing, and that a row is
  refused only over a product of the catalogue, a row of another import that is still
  in the grid, or a fault of its own; two rows of one file cannot be the reason, which
  is what the comparison within a file is for (`excel_import.py:384-399`).
- `TillExplained` is an equation between the device's cash and the rows. It holds
  with lost answers and crashes because it names them: the money whose answer never
  arrived, or whose row was never saved, is the only difference.

**Bounds.** Two actors with every pair of operations show each check-then-act
race in the code, because each of those has two participants; circles of waits
are also checked with three. `MaxAttempts` 3 is a first attempt, a retry that
overlaps it and one that follows. `MaxFound` 1 is enough to reach a correction
below zero, an overflowing column and a count of zero, which is what the
properties tell apart. In `deliveries` every line holds one unit, so an edit
changes its product; two quantities are used in `delivery_removal`. `MaxMoved` 1 lets a sale and a delivery fall anywhere
around a completion. `MaxSold` and `MaxQueue` bound the violation runs only. In
`stock_revisions` clerks, products and primary keys are symmetric: the
specification compares them for equality only, and their opening values are
alike; so are the edits, the deletions, the lines of the delivery and the products
in `deliveries`.

In `office`: orders have 4 requests (create, edit, edit or confirm, discard), 1
supplier and 1 product, as lines of different products do not meet; drafts 2 tabs,
2 windows, 2 carts, `MaxInFlight` 2 and `MaxRequests` 4, in which a late autosave,
a second window and a switch fit; price lists 2 lists, 5 rows that cover every
scope, fixed and rounded, `MaxRules` 2, and 2 days so that one list expires; reports
a flour and a bun made of it, 2 days and 4 events, so that a late document, a
refund and a revision come in any order; 3 categories, the smallest number in which
a descendant is found in a second query; 2 attributes and the one column that is
not on the edit page; 3 barcodes, 2 of them with a column in the grid; 4 moments of
which the last falls back, `KeepMin` 2 above `MaxSize` 1, so that the minimum
binds; files of one row or of two with clashing names, codes and barcodes or a name
that is too long, `MaxImports` 2, so that the rows of a second file meet those of a
first, and 2 products of others; a till with amounts 1 and 2 and 4 commands. Orders, categories,
barcodes, products, attributes and users are symmetric: the specifications compare
them for equality only.

**Fairness.** `StockTransactions!FairSpec` assumes strong fairness of a
request's steps, because PostgreSQL serves the waiters of a row in order, so a
lock that is free again and again is granted; and weak fairness of
`AbortVictim`, the deadlock detector (`deadlock_timeout`). Nothing obliges a
user to send a failed document again. `FiscalPrinting!FairSpec` assumes weak
fairness of a thread's step: each command has a socket timeout, `Popen` and
`terminate` return, and the transaction on the counter's row is two statements
long. No fairness is assumed of users, retries, restarts or failures.

**Deadlock** is checked in every run that may not stop: the states in which
everything is answered have an explicit stuttering step (`AllCommitted`,
`AllAnswered`), so anything else that stops is an error. It is off in
`deliveries`, where everything stops once the requests are answered and all
documents have been entered, and in `office`, where the bounded
numbers of requests, events, moments and commands run out.

## 5. The proofs

Every invariant, every action property and the refinement that the passing runs check
is also a theorem, proved for all values of the constants; liveness is not (see the
end of this section). Each module of proofs EXTENDS the module it is about and proves
of it under the assumptions named there: that constants have the shapes the schema
gives them, that placeholders (`Nobody`, `NoLine`, `Nothing`) are not what they stand
in for, and that sets over which something is summed, counted or ranked are finite.
TLC evaluates these assumptions in the runs. Where a property is not inductive, the
strengthening is `IInv`, its parts are named, and each action of `Next` has a step
with a sub-step for each part it can disturb.

**SumTheorems** - sums over finite sets, for all the modules whose properties add up
lines or movements. The community modules define a sum by a recursive function that
takes elements out by CHOOSE. That there is one such function, and that the sum does
not depend on the choices (`SumOnSplit`), is shown by a minimal counterexample among
the finite subsets (`WFMin` of the library); the same argument over the naturals gives
`Recursion` (a first value and a step define a sequence), `UpTo`, `Ranks` (the
elements of a finite linear order have the ranks 1, 2, 3 ...) and `UnbeatenExists` (of
finitely many things some are beaten by none). No theorem with an operator as parameter is used.

**StockTransactionsProofs** - `TypeCorrect`, `LosesNoUpdate`, `LeavesNoLock`,
`RefinesLedger`, `StockReconciles`. That a held row's newest version is the
committed one plus the holder's own lines (`NoLostUpdate`) is kept by `AdjustStock`
only if what the request has *in memory* is still the newest version, and if the rows
it is about to write are all locked by it. `IInv` therefore adds `LineInv`, the rows a
request has locked at each point of its line and what it has loaded of them, and
`RecordedInv`, that a request that is not running or has not locked a row has
recorded nothing for it. The refinement uses `NoLostUpdate` at `Commit`,
where committed stock changes by what the journal gets; all other steps leave
the ledger alone. `StockReconciles` needs more: that what a request has recorded is
what the lines inserted so far say (`RowsMatchLines`, with `EffectUpTo` for the sum up to a
line), so that a commit adds one document's sum to that of the committed documents.

**SaleReturnsProofs** - `TypeCorrect`, `RefundsKeepTheirSales`,
`DeletionsGiveBackTheirOwn`, `StockIsWhatTheRowsSay`. A deletion removes only the
lines it collected before its transaction, so that no line outlives its sale needs
`CollectedAll`: from `Collect` on, a deletion has collected every line its sale still
has, because a line is only ever added together with its sale, and as long as it has
not begun to delete, and the sale is there, so are the lines. `StockInv` adds that
only a request that is done has refunded something (`RefundedOnce`), so a refund
changes the sum by its own lines, and a deletion by those it has itself deleted.

**FiscalPrintingProofs** - `TypeCorrect`, `NumbersAreUnique`, `PrintedWasPrinted`,
`StornosFollow`. Unique numbers need to know where numbers come from: `BelowCounter`,
a number in use or drawn is below the counter; `Drawing`, a thread between
`LockCounter` and `SaveCounter` holds the counter's row and has read its present
value; `DrawnOnce`, a number a thread has drawn and not yet used is no other thread's
and on no receipt. The last two are stated while no answer is lost, and so is their
strengthening, `OInv`: it needs `Alone`, that only one thread at a time is between
opening and closing a receipt, because the device refuses the second opening and
nobody leaves one open without a lost answer. From it follow `OwnSlip` (the open
receipt is that thread's document, under the number it drew, with the link it looked
up), `Answered` (the number a thread was given is a receipt of its document) and
`Linked` (the link it carries is a receipt of the original).

**StockRevisionsProofs** - `TypeCorrect`, `OneIsOpen`, `AcceptedCountsReachStock`,
`ClosedRevisionsStay`, `StockChangesRecorded`, `StockIsItsHistory`. Closed revisions
stay closed because whoever writes to a revision holds its row: `HoldsRevision` (a
completion holds the lock of the revision it names, which is still open and has the
rows it has read) and `HoldsProducts` (it holds the product rows it has come to, whose
committed quantity is what it noted for `quantity_before_complete`) are the
strengthening; `Named` gives the types of what a request carries. For the history,
`AppliedInv`: a row that was applied belongs to a completed revision and is still
there, so no later step changes the correction it stands for.

**DeliveriesProofs** - `TypeCorrect`, `LinesHaveTheirDocuments`, `DeliveredAreLinked`,
`StockFollows`. `EditorInv` says that an edit holds lines of its own document and
saves none that it removes, `KeysInv` that what is in the database has been created, a
line after its document; as no primary key is used twice, what is gone stays gone
(`GoneStays`). `StockFollows` compares
two sums over lines in every step. It is a sum a deletion can get wrong: one that
found its document gone reverses with the sign of a delivery, whatever it was.
`ReversalInv` says that such a deletion has no line left to remove. For
`DeliveredAreLinked` each step that touches links is compared line by line with what
it leaves in the books, under the suppliers it leaves there.

**DraftsProofs** - `TypeCorrect`, `DraftsStay`, `DoneStaysGone`, for any tabs, windows
and requests. The stored session alone is not inductive, because any copy of it may be
written next: `Home` says of every place that holds a cart - the stored session, each
request's copy, each window, each request's page - that it comes with its own tab.
That a saved document is gone needs the same breadth: a cart that has not been begun,
or was saved while nothing else held it, is `Away` from the stored session, from each
copy of it and from every page but one about to be replaced (`DInv`), so no request
can bring it back; if that page posts it once more, it is `tangled` and no longer
claimed. The invariant also says that only autosaves are in the slots of autosaves and
that what a page shows has been begun (`Begun`).

**OfficeProofs** - theorems of `Office!Spec`, whose run checks the same properties. A
step of the office is a step of the part it follows or leaves it alone (`Follows`), so
the conjunction of the parts' inductive invariants, each under "this part is
followed", is one of the office (`OfficeInv`, `Inductive`), and `TypeCorrect` follows.
`Drafts` is taken twice from its proofs, for the sale screen, whose pages do not name
their tab, and for the delivery screens, whose pages do; `DraftsAlike` and
`SalesAlike` say that its operators are the ones the office uses. The other parts'
invariants stand at the end of their own modules and are proved here:

- *Orders* (`NumbersInOrder`, `OrdersStayIntact`): that numbers have neither
  repetition nor gap needs the holder of the counter to have drawn the committed
  value (`Holds`) and every smaller number to be some saved order's (`Full`); that the
  lines stay with their orders needs `Fresh`, that an order about to be created is not
  there yet and has a product, and `Found`, that the rows a request deletes are lines
  of the order it is about, which a discard found as a draft of the AI's.
- *PriceLists* (`RegisterChargesAsShown`, `PageShowsTheRegister`): the state needs its
  types only. The argument is about the operators: what wins for a product depends on
  the rules that reach it and not on the batch, because the rules a batch adds reach
  other products; and where rules compete some rule is beaten by none.
- *Reports* (`ReportsRememberRight`, `MovementsBalance`): undoing what came after a
  day gives what was (`ShelfKept`, `TagKept`), for the days to come as well, because
  a document may be dated ahead. Each event changes each day's sum by its own
  quantity, of the product itself or of what its recipe takes. `LogInOrder` says that
  the price log's last entry is the latest. Rows balance in any state of the right
  types. A row loaded late moves no stock and is counted all the same: the days before
  it are claimed only while there is none (`StockTracked`).
- *CategoryTree* (`TreesStayWhole`): `NoCycle` says of every set of categories that
  one has its parent outside it; that all are then within reach of the top, which the
  code finds level by level, is shown with the levels as a recursive function. `FormsFollow`
  says that a form whose tree has not changed has found all children of what it has
  asked about, so that when nothing is left to ask, it excludes all descendants.
- *ProductGrid* and *BarcodeSlots* (`ProductStaysAsEdited`): a cell of a page
  (`PageFresh`) or of a loaded row (`LoadedFresh`) that is not marked stale is what the
  database holds, so `crossed` names every cell that could be lost; a request between its
  two saves is past its page (`PastPage`), so what it will write is what it has just
  written or is marked stale. The positions of
  barcodes are 1, 2, 3 ... (`Compact`) and their keys are not repeated
  (`KeysUnique`), so a barcode's position is its slot in the list.
- *Backups* (`UnchangedIsSaved`, `NewestAreKept`): `CountersPast` and `StateOlder` say
  that counters read are of the past and states written no newer than the dump they
  name, `Alone` that without overlap the dump a run has made is the newest, `FileKept`
  that the one the state names is on disk and holds what was counted; `DumpsNamed` and
  `PartsNamed` that names are moments, so that the newest name is the newest dump.
- *Till* (`TillAddsUp`): `ReportsMoveNothing`, a command has an amount just when it is
  about cash; the sums over rows and over commands under way change by one term a step.
- *Imports* (`ImportsAllOrNothing`): `SavedSoFar` says that a save has done what the
  rows up to the one it has got to ask for, and no more; `RowsApart` that no two new
  rows of one file are alike and that none is of a file to come, whatever the grid held
  when the file was read, so a row can only clash with what others added or with a row
  of another file; `CodePicked` and `Unique` that codes are not handed out twice. That a free code is
  found follows by counting: there are more codes in the range searched than products.

Only model-checked: liveness under fairness (`EveryRequestAnswered`, `AttemptEnds`),
which is out of the prover's reach. `ProductEditing` has no theorem: its runs show two
properties that the code violates.

## 6. Findings

- `refund_new` checks what is left of a line outside its transaction and locks
  nothing: two refunds at once give back more than was sold (`NoOverRefund`),
  against its own docstring (`sales/views.py:636-639`).
- `refund_fiscal_retry` looks at `fiscal_status` before an attempt that records
  it at its very end: a second click meanwhile prints the storno again
  (`OneReceiptPerStorno`), against the comment at `sales/views.py:833-834`.
- The product edit page saves its instance twice; the second save erases
  `ingredients_backfilled_at` when the task has run in between, and the next
  save backfills again (`RunsOnce`), against `sales/tasks.py:23-25`.
- Removing a line of a delivery gives back what the form posted for it: a line
  retyped and then removed in one edit takes the retyped quantity out of stock
  (`StockMatchesLines`), against the comment at `deliveries/models.py:336-339`.
- Grid and edit page write every column of a row they loaded unlocked, stock
  among them (`OnlyDocumentsMoveStock`), against `products/forms.py:170-172`.

Noticed while modelling, visible in the models or plain in the code, without a run of
their own:

- Orders: a draft confirmed between `order_discard`'s read and its DELETE is deleted
  all the same. A failed `order_edit` shows the grid again with the supplier's
  candidates only, so lines of other products are not "still below"
  (`orders/views.py:319-323`).
- Tabs: with another request of the session under way at the payment, the paid cart
  can come back as a draft. So it can when its page autosaves once more - a click, a
  change, the retry every 5 seconds (`sale_add.html:784-835`,
  `delivery_add.html:238-306`) - after the save has cleared the draft and before the
  next page is there. The saved state of a delivery's formset does not keep
  `source_item` and `scrap_reason`.
- Deliveries: an edit that gives a delivery another supplier saves only the lines that
  are changed with it; the product of an unchanged line is not linked to the new
  supplier, and stays linked to the old one, although `DeliveryItems.save` means every
  delivered product to be linked (`deliveries/models.py:236-247`).
- Price lists: an edit that loaded a list before it was deleted restores it; two
  rules of one list and scope may win differently on page and register.
- Category tree: two forms saved crosswise close a cycle, for which
  `get_descendant_ids` never ends; a category or product saved after its deletion
  appears again.
- Barcodes: after a barcode is cleared in front of another the rest keep their
  numbers, and the next one added repeats one (`products/views.py:246-258`).
- Reports: refunds of recipe products have no column for their ingredients, so such a
  row does not add up although opening and closing are right. A row that "Load into
  Revision" adds to a revision just completed (`revisions/views.py:75`) is read as a
  change from the snapshot to 0, which falsifies the days before it.
- Products: what another user writes into a product between the two saves of the edit
  page is overwritten by the second (`products/views.py:930`).
- Backups: in the hour that falls back, a dump can replace or be rotated before an
  older one; after a reset of the statistics the counter may coincide with the saved
  one although there were changes.
- Import: a row that names a barcode twice is not noticed until it is saved; a row
  without a code may be handed the code a later row states, which then gets another;
  a file of new products without quantities cannot be saved. A row of a product that
  was added after the page was opened is dropped without a word
  (`_delivery_items_table.html:1402-1403`), and counted among the rows "loaded into the
  grid". Names and barcodes are compared within one file only: rows of a second one, or
  the same file imported again, clash when the delivery is saved. After a failed save
  or a reload, a new row has lost its "Possible duplicate" link.
- Till: a service cash movement whose answer was lost is logged as FAILED although the
  money moved; one whose server stopped has no row.

## 7. Assumptions and limits

Of PostgreSQL: a row lock is exclusive and ends with its transaction; a
statement that waited for a row sees its newest committed version; a transaction
in a circle of waits is aborted; foreign keys declared by Django are deferred and
hold at COMMIT; inserting a row that refers to another takes a KEY SHARE lock on
that one, which waits for `FOR UPDATE`; a partial unique index admits one open
revision.

Of the session store: one row, read whole at the first access and written whole at
the end of a request that modified it; the last writer wins.

Of the data: quantities are integers (the columns are decimals of fixed scale);
prices are left out where nothing depends on them and are cents in `PriceLists`;
names and PINs are left out. A refund or document is one value of a small set. A
request that raises is one action whatever the exception.

Not modelled, with the reason, is listed per component in `PROJECT.json`. In short:
scale barcodes (a pure parser of digits), the AI services (calls of a language
model), accounts and permissions (static tables), pages and API that only read, PINs
and the void log (inserts nothing else reads), templates and browser code (present
as what they can send). Inside modelled components: internal document numbers, the
catalogue's average delivery price, the formset of suppliers, similarity of names. Two
runs of the backup that begin within the same minute write the same partial file
(`backup_db.py:148-152`), which would leave a broken dump; in the model each run has its
own.

## 8. Running it

    tlc -workers 2 -config StockTransactions.cfg MCStockTransactions.tla
    tlc -workers 2 -config Office.cfg MCOffice.tla
    tlapm StockTransactionsProofs.tla

Each run's module and configuration are in `PROJECT.json`. The largest runs are
`stock_revisions`, with about 1.1 million states in half a minute, and `office`, with
about 1.4 million in under two minutes.
