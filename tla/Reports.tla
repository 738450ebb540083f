------------------------------ MODULE Reports ------------------------------
(***************************************************************************)
(* The stock reports (src/STORA/reports/services.py).  No day's stock is    *)
(* stored: stock_as_of starts from the current quantities and undoes every  *)
(* dated movement after the day, stock_movement_totals adds a column per    *)
(* kind of movement, and prices of the past are read back from              *)
(* ProductChangeLog.  The shop's days are the environment: sales, refunds,  *)
(* dated documents, revisions, prices and recipes in any order.             *)
(***************************************************************************)
EXTENDS Integers, FiniteSets, Sequences, Functions

CONSTANTS
    Goods,        \* products that keep a stock
    Recipes,      \* recipe products, which do not
    Uses,         \* RecipeIngredient: recipe -> ingredient -> quantity
    Cooked,       \* the quantities once a recipe has been edited
    Opening,      \* Product.quantity on the first day
    Quantities,   \* quantities of one movement
    SalePrices,   \* Product.sell_price
    FirstPrice,
    LastDay,      \* bound on the days
    MaxEvents     \* bound on the movements and changes

Products == Goods \cup Recipes
Days == 1..LastDay
\* movement_type, without the sign it has on stock.
Documents == {"delivered", "written_off", "scrapped"}
OUTGOING_MOVEMENT_TYPES == {"written_off", "scrapped"}

ReportAssumptions ==
    /\ Goods \cap Recipes = {} /\ IsFiniteSet(Recipes)
    /\ Uses \in [Recipes -> [Goods -> Nat]] /\ Cooked \in [Recipes -> [Goods -> Nat]]
    /\ Opening \in [Goods -> Int]
    /\ Quantities \subseteq Nat /\ FirstPrice \in SalePrices
    /\ LastDay \in Nat \ {0} /\ MaxEvents \in Nat

VARIABLES
    day,        \* today
    events,     \* how many movements there have been (bounded)
    quantity,   \* Product.quantity
    recipe,     \* the current composition
    sold,       \* SaleItems: quantity of a product sold on a day
    refunded,   \* RefundItems: of what was sold on a day, refunded on another
    received,   \* DeliveryItems, by movement type and document_date
    revised,    \* what completed revisions changed, by the day of completion
    price,      \* Product.sell_price of the goods, one for all of them
    priceLog,   \* ProductChangeLog of sell_price: <<day, old value>>
    shelf,      \* history: the stock at the end of each day, by the papers
    tag,        \* history: the price at the end of each day
    untracked   \* history: a recipe was edited, a price changed in bulk, a row
                \* put into a revision already completed

vars == <<day, events, quantity, recipe, sold, refunded, received, revised,
          price, priceLog, shelf, tag, untracked>>

-----------------------------------------------------------------------------
(* The reports *)

Sum(f) == SumFunction(f)
Over(f, days) == Sum([d \in days |-> f[d]])

SoldIn(p, days) == Over(sold[p], days)
RefundedIn(p, days) == Sum([sd \in Days \X days |-> refunded[p][sd]])
ReceivedIn(type, p, days) == Over(received[type][p], days)

\* What recipe sales took of an ingredient: today's composition times the sales.
ConsumedIn(i, days) == Sum([r \in Recipes |-> recipe[r][i] * SoldIn(r, days)])
\* Fault: refunds of recipe products are forgotten (those of plain products
\* once were).
ReturnedNever(i, days) == 0
\* What refunds of recipe products gave back.
ReturnedIn(i, days) == Sum([r \in Recipes |-> recipe[r][i] * RefundedIn(r, days)])

\* stock_as_of: the current quantity, less the effect of all that came after.
NetChange(p, days) ==
    RefundedIn(p, days) - SoldIn(p, days)
      + ReceivedIn("delivered", p, days)
      - Sum([type \in OUTGOING_MOVEMENT_TYPES |-> ReceivedIn(type, p, days)])
      + Over(revised[p], days)
      - ConsumedIn(p, days) + ReturnedIn(p, days)
After(d) == {e \in Days : e > d}
StockAsOf(p, d) == quantity[p] - NetChange(p, After(d))

\* Fault: the changes of the day itself are undone as well.
SellPriceBefore(d) ==
    LET later == {i \in DOMAIN priceLog : priceLog[i][1] >= d}
    IN  IF later = {} THEN price
        ELSE priceLog[CHOOSE i \in later : \A j \in later : i <= j][2]
\* _sell_price_as_of: undo the logged changes later than the day, last first.
SellPriceAsOf(d) ==
    LET later == {i \in DOMAIN priceLog : priceLog[i][1] > d}
    IN  IF later = {} THEN price
        ELSE priceLog[CHOOSE i \in later : \A j \in later : i <= j][2]

\* Fault: revisions are left out of the period.
TotalsUnrevised(p, start, end) ==
    LET period == start..end
    IN  [opening |-> StockAsOf(p, start - 1),
         delivered |-> ReceivedIn("delivered", p, period),
         sold |-> SoldIn(p, period),
         refunded |-> RefundedIn(p, period),
         scrapped |-> ReceivedIn("scrapped", p, period),
         written_off |-> ReceivedIn("written_off", p, period),
         revised |-> 0,
         recipe_consumed |-> ConsumedIn(p, period),
         closing |-> StockAsOf(p, end)]
\* stock_movement_totals: the row of a product for [start, end].
Totals(p, start, end) ==
    LET period == start..end
    IN  [opening |-> StockAsOf(p, start - 1),
         delivered |-> ReceivedIn("delivered", p, period),
         sold |-> SoldIn(p, period),
         refunded |-> RefundedIn(p, period),
         scrapped |-> ReceivedIn("scrapped", p, period),
         written_off |-> ReceivedIn("written_off", p, period),
         revised |-> Over(revised[p], period),
         recipe_consumed |-> ConsumedIn(p, period),
         closing |-> StockAsOf(p, end)]

-----------------------------------------------------------------------------
TypeOK ==
    /\ day \in Days /\ events \in 0..MaxEvents
    /\ quantity \in [Goods -> Int]
    /\ recipe \in {Uses, Cooked}
    /\ sold \in [Products -> [Days -> Nat]]
    /\ refunded \in [Products -> [Days \X Days -> Nat]]
    /\ received \in [Documents -> [Goods -> [Days -> Nat]]]
    /\ revised \in [Goods -> [Days -> Int]]
    /\ price \in SalePrices /\ priceLog \in Seq(Days \X SalePrices)
    /\ shelf \in [0..LastDay -> [Goods -> Int]]
    /\ tag \in [0..LastDay -> SalePrices]
    /\ untracked \subseteq {"recipe", "price", "revision"}

Init ==
    /\ day = 1 /\ events = 0
    /\ quantity = Opening
    /\ recipe = Uses
    /\ sold = [p \in Products |-> [d \in Days |-> 0]]
    /\ refunded = [p \in Products |-> [sd \in Days \X Days |-> 0]]
    /\ received = [type \in Documents |-> [p \in Goods |-> [d \in Days |-> 0]]]
    /\ revised = [p \in Goods |-> [d \in Days |-> 0]]
    /\ price = FirstPrice /\ priceLog = <<>>
    /\ shelf = [d \in 0..LastDay |-> Opening]
    /\ tag = [d \in 0..LastDay |-> FirstPrice]
    /\ untracked = {}

-----------------------------------------------------------------------------
(* What moves stock and prices *)

Event ==
    /\ events < MaxEvents
    /\ events' = events + 1
    /\ UNCHANGED day

\* Stock changes now; by the papers it changed at the end of day d and on.
Move(change, d) ==
    /\ quantity' = [p \in Goods |-> quantity[p] + change[p]]
    /\ shelf' = [e \in 0..LastDay |->
                   IF e >= d THEN [p \in Goods |-> shelf[e][p] + change[p]] ELSE shelf[e]]
Only(p, q) == [g \in Goods |-> IF g = p THEN q ELSE 0]
\* adjust_stock_for_sale: a recipe product's ingredients, else the product.
Effect(p, q) ==
    IF p \in Recipes THEN [g \in Goods |-> - recipe[p][g] * q] ELSE Only(p, - q)

Sell(p, q) ==
    /\ Event
    /\ sold' = [sold EXCEPT ![p][day] = @ + q]
    /\ Move(Effect(p, q), day)
    /\ UNCHANGED <<recipe, refunded, received, revised, price, priceLog, tag, untracked>>

\* refund_new gives back no more than was sold.
Refund(p, d, q) ==
    /\ Event
    /\ q <= sold[p][d] - Sum([e \in Days |-> refunded[p][<<d, e>>]])
    /\ refunded' = [refunded EXCEPT ![p][<<d, day>>] = @ + q]
    /\ Move(Effect(p, - q), day)
    /\ UNCHANGED <<recipe, sold, received, revised, price, priceLog, tag, untracked>>

\* A document entered today, dated any day: "paperwork actually arrives" late.
Receive(type, p, q, d) ==
    /\ Event
    /\ received' = [received EXCEPT ![type][p][d] = @ + q]
    /\ Move(Only(p, IF type \in OUTGOING_MOVEMENT_TYPES THEN - q ELSE q), d)
    /\ UNCHANGED <<recipe, sold, refunded, revised, price, priceLog, tag, untracked>>

\* revision_complete sets the quantity to what was found and keeps the change.
Revise(p, found) ==
    /\ Event
    /\ revised' = [revised EXCEPT ![p][day] = @ + found - quantity[p]]
    /\ Move(Only(p, found - quantity[p]), day)
    /\ UNCHANGED <<recipe, sold, refunded, received, price, priceLog, tag, untracked>>

\* "Load into Revision" finds an open revision and adds its rows when that has
\* just been completed: nothing is counted and stock stays, but the reports take
\* the row, without quantity_before_complete, for a change from the snapshot to 0.
LoadLate(p) ==
    /\ Event
    /\ revised' = [revised EXCEPT ![p][day] = @ - quantity[p]]
    /\ untracked' = untracked \cup {"revision"}
    /\ UNCHANGED <<quantity, recipe, sold, refunded, received, price, priceLog, shelf, tag>>

\* A price is edited (logged) or changed by a bulk "Apply Price", which goes
\* past the log.
SetPrice(v, logged) ==
    /\ Event
    /\ v # price
    /\ price' = v
    /\ tag' = [d \in 0..LastDay |-> IF d >= day THEN v ELSE tag[d]]
    /\ priceLog' = IF logged THEN Append(priceLog, <<day, price>>) ELSE priceLog
    /\ untracked' = IF logged THEN untracked ELSE untracked \cup {"price"}
    /\ UNCHANGED <<quantity, recipe, sold, refunded, received, revised, shelf>>

EditRecipe ==
    /\ Event
    /\ recipe # Cooked
    /\ recipe' = Cooked
    /\ untracked' = untracked \cup {"recipe"}
    /\ UNCHANGED <<quantity, sold, refunded, received, revised, price, priceLog, shelf, tag>>

NextDay ==
    /\ day < LastDay
    /\ day' = day + 1
    /\ UNCHANGED <<events, quantity, recipe, sold, refunded, received, revised,
                   price, priceLog, shelf, tag, untracked>>

Next ==
    \/ \E p \in Products, q \in Quantities :
         Sell(p, q) \/ \E d \in Days : Refund(p, d, q)
    \/ \E p \in Goods, q \in Quantities :
         Revise(p, q) \/ LoadLate(p) \/ \E type \in Documents, d \in Days : Receive(type, p, q, d)
    \/ \E v \in SalePrices, logged \in BOOLEAN : SetPrice(v, logged)
    \/ EditRecipe
    \/ NextDay

Spec == Init /\ [][Next]_vars

-----------------------------------------------------------------------------
(* Correctness *)

StockTracked == untracked \cap {"recipe", "revision"} = {}

\* stock_as_of, which replays backwards from today, says of every day what the
\* stock was (documents counted on the day they are dated), and so does
\* _sell_price_as_of of prices: but for the limits the code names, recipes
\* edited since and prices changed in bulk, and for rows added to a revision
\* already completed, which the code does not foresee.
AsOfIsAsItWas ==
    \A d \in 0..day :
        /\ StockTracked => \A p \in Goods : StockAsOf(p, d) = shelf[d][p]
        /\ "price" \notin untracked => SellPriceAsOf(d) = tag[d]

\* Opening balance and movements "add up to closing" for every product and
\* period, unless a recipe product was refunded in it: the movement columns of
\* its ingredients have none for that.
BalanceAddsUp ==
    \A p \in Goods, start \in Days, end \in Days :
        start <= end /\ ReturnedIn(p, start..end) = 0 =>
            LET row == Totals(p, start, end)
            IN  row.closing = row.opening + row.delivered - row.sold + row.refunded
                                - row.scrapped - row.written_off + row.revised
                                - row.recipe_consumed

-----------------------------------------------------------------------------
(* The invariant that makes the first so: inductive, for any products,      *)
(* recipes, quantities, prices and days; the second needs the types alone   *)

\* The reports are right of the days to come as well: documents are dated then.
ShelfKept ==
    StockTracked =>
        \A d \in 0..LastDay : \A p \in Goods : StockAsOf(p, d) = shelf[d][p]
TagKept == "price" \notin untracked => \A d \in 0..LastDay : SellPriceAsOf(d) = tag[d]

\* No price is logged for a day to come.
LogInOrder == \A i \in DOMAIN priceLog : priceLog[i][1] <= day

IInv == TypeOK /\ ShelfKept /\ TagKept /\ LogInOrder
=============================================================================
