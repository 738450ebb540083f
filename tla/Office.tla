------------------------------- MODULE Office -------------------------------
(***************************************************************************)
(* The parts of the shop whose records the other modules do not share, side *)
(* by side: orders, drafts, price lists, reports, the product catalogue,    *)
(* backups, imports and the till.  No step of one reads what another        *)
(* writes, so a behaviour follows one of them, chosen at the start; the     *)
(* variables of the others are Off.                                         *)
(***************************************************************************)
EXTENDS Integers, Sequences

CONSTANTS
    Users,        \* whoever works: windows, editors, threads, processes
    Requests,     \* requests about orders
    OrderedProducts, Suppliers, Categories,
    Ranked, Orderable,                                               \* orders
    Tabs, SaleCarts, DeliveryCarts, KindOf, MaxInFlight, MaxRequests, \* drafts
    Lists, PricedProducts, PriceCategories, PriceSuppliers, CategoryOf,
    SuppliersOf, SellPrice, PriceRows, Periods, Priorities, PriceEditors, LastPriceDay,
    MaxRules,                                                        \* price lists
    Goods, Recipes, Uses, Cooked, Opening, Quantities, SalePrices, FirstPrice,
    LastDay, MaxEvents,                                              \* reports
    Attributes, Fields, Listed, Values, Unset,                       \* a product's row
    Codes, GRID_SLOT_COUNT, MaxRows,                                 \* its barcodes
    Local, Interval, ForceAfter, KeepMin, MaxSize, MaxChanges,       \* backups
    FileNames, FileCodes, FileBarcodes, TooLong, Files, MaxImports, MaxOthers, \* imports
    Amounts, MaxCommands,                                            \* the till
    Top,          \* the parent of a top-level category
    Blank,        \* an emptied cell
    BlankCode,    \* an empty code cell of a file
    Empty, Bare,  \* no draft, a draft without a product
    Nothing,      \* nobody, no request, no row, no price ...
    Off           \* what the variables of the other parts hold

VARIABLES
    part,
    next, counter, status, origin, number, lines, asked, step,
    session, page, request, sent, home, done, tangled,
    today, lists, editing,
    day, events, quantity, recipe, sold, refunded, received, revised,
    price, priceLog, shelf, tag, untracked,
    parent, onPos, form, crossed,
    exists, row, productPage, loaded, again, stale, wanted, rowCrossed,
    barcodes, lastId, view, gap, outdated,
    now, content, changed, state, dumps, run, made, reset, together,
    catalogue, others, onPage, phase, grid, imports, at, code, fileCounter, created,
    delivered, refused,
    cash, sales, memory, job, movements, commands, moved, zReports

orderVars == <<next, counter, status, origin, number, lines, asked, step>>
draftVars == <<session, page, request, sent, home, done, tangled>>
priceListVars == <<today, lists, editing>>
reportVars == <<day, events, quantity, recipe, sold, refunded, received, revised,
                price, priceLog, shelf, tag, untracked>>
categoryVars == <<parent, onPos, form, crossed>>
productVars == <<exists, row, productPage, loaded, again, stale, wanted, rowCrossed>>
barcodeVars == <<barcodes, lastId, view, gap, outdated>>
backupVars == <<now, content, changed, state, dumps, run, made, reset, together>>
importVars == <<catalogue, others, onPage, phase, grid, imports, at, code,
                fileCounter, created, delivered, refused>>
tillVars == <<cash, sales, memory, job, movements, commands, moved, zReports>>
vars == <<part, orderVars, draftVars, priceListVars, reportVars, categoryVars,
          productVars, barcodeVars, backupVars, importVars, tillVars>>

Orders == INSTANCE Orders WITH Products <- OrderedProducts, Nobody <- Nothing
SaleDrafts == INSTANCE Drafts
    WITH Windows <- Users, Carts <- SaleCarts, Kinds <- {"sale"},
         KindOf <- [c \in SaleCarts |-> "sale"], Named <- FALSE
DeliveryDrafts == INSTANCE Drafts
    WITH Windows <- Users, Carts <- DeliveryCarts,
         Kinds <- {KindOf[c] : c \in DeliveryCarts}, Named <- TRUE
PriceLists == INSTANCE PriceLists
    WITH Products <- PricedProducts, Categories <- PriceCategories,
         Suppliers <- PriceSuppliers, Editors <- PriceEditors, LastDay <- LastPriceDay, Rows <- PriceRows,
         NoCategory <- Nothing, NoPrice <- Nothing, NoList <- Nothing
Reports == INSTANCE Reports
CategoryTree == INSTANCE CategoryTree
    WITH Editors <- Users, Absent <- Off, Closed <- Nothing
ProductGrid == INSTANCE ProductGrid WITH page <- productPage, crossed <- rowCrossed
BarcodeSlots == INSTANCE BarcodeSlots
Backups == INSTANCE Backups WITH Runs <- Users, NoState <- Nothing
Imports == INSTANCE Imports
    WITH Names <- FileNames, Codes <- FileCodes, Barcodes <- FileBarcodes,
         Blank <- BlankCode, counter <- fileCounter, NoRow <- Nothing
Till == INSTANCE Till WITH Threads <- Users, NoJob <- Nothing

OfficeAssumptions ==
    /\ Orders!OrderAssumptions
    /\ SaleDrafts!DraftAssumptions /\ DeliveryDrafts!DraftAssumptions
    /\ PriceLists!PriceListAssumptions
    /\ Reports!ReportAssumptions
    /\ CategoryTree!CategoryAssumptions
    /\ ProductGrid!ProductGridAssumptions
    /\ BarcodeSlots!BarcodeAssumptions
    /\ Backups!BackupAssumptions
    /\ Imports!ImportAssumptions
    /\ Till!TillAssumptions
ASSUME OfficeAssumptions

Parts == {"orders", "sale drafts", "delivery drafts", "price lists", "reports",
          "category tree", "product grid", "barcode slots", "backups", "imports", "till"}

-----------------------------------------------------------------------------
(* The parts that are not followed *)

OrdersOff ==
    /\ next = Off /\ counter = Off /\ status = Off /\ origin = Off
    /\ number = Off /\ lines = Off /\ asked = Off /\ step = Off
DraftsOff ==
    /\ session = Off /\ page = Off /\ request = Off /\ sent = Off
    /\ home = Off /\ done = Off /\ tangled = Off
PriceListsOff == today = Off /\ lists = Off /\ editing = Off
ReportsOff ==
    /\ day = Off /\ events = Off /\ quantity = Off /\ recipe = Off /\ sold = Off
    /\ refunded = Off /\ received = Off /\ revised = Off /\ price = Off
    /\ priceLog = Off /\ shelf = Off /\ tag = Off /\ untracked = Off
CategoryTreeOff == parent = Off /\ onPos = Off /\ form = Off /\ crossed = Off
ProductGridOff ==
    /\ exists = Off /\ row = Off /\ productPage = Off /\ loaded = Off /\ again = Off
    /\ stale = Off /\ wanted = Off /\ rowCrossed = Off
BarcodeSlotsOff ==
    barcodes = Off /\ lastId = Off /\ view = Off /\ gap = Off /\ outdated = Off
BackupsOff ==
    /\ now = Off /\ content = Off /\ changed = Off /\ state = Off /\ dumps = Off
    /\ run = Off /\ made = Off /\ reset = Off /\ together = Off
ImportsOff ==
    /\ catalogue = Off /\ others = Off /\ onPage = Off /\ phase = Off /\ grid = Off
    /\ imports = Off /\ at = Off /\ code = Off /\ fileCounter = Off /\ created = Off
    /\ delivered = Off /\ refused = Off
TillOff ==
    /\ cash = Off /\ sales = Off /\ memory = Off /\ job = Off
    /\ movements = Off /\ commands = Off /\ moved = Off /\ zReports = Off

-----------------------------------------------------------------------------
Init ==
    /\ part \in Parts
    /\ IF part = "orders" THEN Orders!Init ELSE OrdersOff
    /\ CASE part = "sale drafts" -> SaleDrafts!Init
         [] part = "delivery drafts" -> DeliveryDrafts!Init
         [] OTHER -> DraftsOff
    /\ IF part = "price lists" THEN PriceLists!Init ELSE PriceListsOff
    /\ IF part = "reports" THEN Reports!Init ELSE ReportsOff
    /\ IF part = "category tree" THEN CategoryTree!Init ELSE CategoryTreeOff
    /\ IF part = "product grid" THEN ProductGrid!Init ELSE ProductGridOff
    /\ IF part = "barcode slots" THEN BarcodeSlots!Init ELSE BarcodeSlotsOff
    /\ IF part = "backups" THEN Backups!Init ELSE BackupsOff
    /\ IF part = "imports" THEN Imports!Init ELSE ImportsOff
    /\ IF part = "till" THEN Till!Init ELSE TillOff

\* A step leaves the variables of all parts but the one followed alone.
Rest(followed) ==
    /\ UNCHANGED part
    /\ IF followed = "orders" THEN TRUE ELSE UNCHANGED orderVars
    /\ IF followed = "drafts" THEN TRUE ELSE UNCHANGED draftVars
    /\ IF followed = "price lists" THEN TRUE ELSE UNCHANGED priceListVars
    /\ IF followed = "reports" THEN TRUE ELSE UNCHANGED reportVars
    /\ IF followed = "category tree" THEN TRUE ELSE UNCHANGED categoryVars
    /\ IF followed = "product grid" THEN TRUE ELSE UNCHANGED productVars
    /\ IF followed = "barcode slots" THEN TRUE ELSE UNCHANGED barcodeVars
    /\ IF followed = "backups" THEN TRUE ELSE UNCHANGED backupVars
    /\ IF followed = "imports" THEN TRUE ELSE UNCHANGED importVars
    /\ IF followed = "till" THEN TRUE ELSE UNCHANGED tillVars

Next ==
    \/ part = "orders" /\ Orders!Next /\ Rest("orders")
    \/ part = "sale drafts" /\ SaleDrafts!Next /\ Rest("drafts")
    \/ part = "delivery drafts" /\ DeliveryDrafts!Next /\ Rest("drafts")
    \/ part = "price lists" /\ PriceLists!Next /\ Rest("price lists")
    \/ part = "reports" /\ Reports!Next /\ Rest("reports")
    \/ part = "category tree" /\ CategoryTree!Next /\ Rest("category tree")
    \/ part = "product grid" /\ ProductGrid!Next /\ Rest("product grid")
    \/ part = "barcode slots" /\ BarcodeSlots!Next /\ Rest("barcode slots")
    \/ part = "backups" /\ Backups!Next /\ Rest("backups")
    \/ part = "imports" /\ Imports!Next /\ Rest("imports")
    \/ part = "till" /\ Till!Next /\ Rest("till")

Spec == Init /\ [][Next]_vars

-----------------------------------------------------------------------------
(* Correctness: the properties of the parts, each where its part is followed *)

TypeOK ==
    /\ part \in Parts
    /\ part = "orders" => Orders!TypeOK
    /\ part = "sale drafts" => SaleDrafts!TypeOK
    /\ part = "delivery drafts" => DeliveryDrafts!TypeOK
    /\ part = "price lists" => PriceLists!TypeOK
    /\ part = "reports" => Reports!TypeOK
    /\ part = "category tree" => CategoryTree!TypeOK
    /\ part = "product grid" => ProductGrid!TypeOK
    /\ part = "barcode slots" => BarcodeSlots!TypeOK
    /\ part = "backups" => Backups!TypeOK
    /\ part = "imports" => Imports!TypeOK
    /\ part = "till" => Till!TypeOK

\* OrderCounter: "two orders saved at the same moment can never draw the same
\* number", and none is left out.
OrderNumbers == part = "orders" => Orders!OrderNumbers

\* order_edit, order_confirm and order_discard of overlapping requests leave no
\* order without lines, no line without its order, no product twice on one, and
\* delete no order a person made.
OrdersIntact == part = "orders" => Orders!OrdersHaveLines /\ Orders!HandMadeStay

\* deliveries/tab_state.py: a draft of a delivery stays on the tab it was begun
\* on, whichever windows and autosaves overlap.
DraftsStayHome == part = "delivery drafts" => DeliveryDrafts!DraftsStayHome

\* sales/tab_state.py, deliveries/tab_state.py: a document that has been saved is
\* not a draft again, unless something else held its cart when it was.
DoneIsGone ==
    /\ part = "sale drafts" => SaleDrafts!DoneIsGone
    /\ part = "delivery drafts" => DeliveryDrafts!DoneIsGone

\* rules_for_price_list and resolve_prices: while one list is active, its page
\* shows what the register charges.
PageAgreesWithRegister == part = "price lists" => PriceLists!PageAgreesWithRegister

\* resolve_prices: the products it is asked about together do not change the
\* price of one.
ChargedAsShown == part = "price lists" => PriceLists!ChargedAsShown

\* stock_as_of and _sell_price_as_of: undoing what came later says what was.
AsOfIsAsItWas == part = "reports" => Reports!AsOfIsAsItWas

\* stock_movement_totals: opening balance and movements add up to closing.
BalanceAddsUp == part = "reports" => Reports!BalanceAddsUp

\* CategoryForm: no category is cut off from the top of the tree.
TreeStaysWhole == part = "category tree" => CategoryTree!TreeStaysWhole

\* The product views: a cell of a product, and the slot of each of its barcodes,
\* is what somebody last made it, unless a request saved what was outdated.
ProductAsEdited ==
    /\ part = "product grid" => ProductGrid!CellsKeepTheirValue
    /\ part = "barcode slots" => BarcodeSlots!PositionsAreSlots

\* backup_db: a run that finds nothing changed finds it all on disk.
UnchangedMeansSaved == part = "backups" => Backups!UnchangedMeansSaved

\* backup_db, _rotate: the newest dumps are never deleted.
NewestKept == part = "backups" => Backups!NewestKept

\* deliveries_add with imported rows: all of it is saved or nothing, and it is
\* refused only over what others did, a row of another file, or a row's own fault.
ImportOutcome == part = "imports" => Imports!AllOrNothing /\ Imports!RefusedForCause

\* record_service_cash_move, print_x_report, print_z_report: the records explain
\* the money in the till.
TillExplained == part = "till" => Till!TillExplained
=============================================================================
