----------------------------- MODULE PriceLists -----------------------------
(***************************************************************************)
(* Price lists (src/STORA/pricelists): lists of rules are created, edited   *)
(* (the rules deleted and recreated) and deleted (a flag); resolve_prices   *)
(* says which rule prices a product at the register, rules_for_price_list   *)
(* which rule a list's own page shows.  Edits and deletions overlap: an     *)
(* edit loads the list, the others act, the edit saves every column.        *)
(***************************************************************************)
EXTENDS Integers, FiniteSets

CONSTANTS
    Lists,        \* names of lists, numbered in the order of their creation
    Products, Categories, Suppliers,
    CategoryOf,   \* Product.category, or NoCategory
    SuppliersOf,  \* ProductSupplier: the suppliers of a product
    SellPrice,    \* Product.sell_price, in cents
    Rows,         \* the rows a user may post, valid or not (see Clean)
    Periods,      \* <<start_date, end_date>>
    Priorities,
    Editors,      \* requests that edit a list, each with what it has loaded
    LastDay,      \* bound on today
    MaxRules,     \* bound on the rules of a list
    NoCategory, NoPrice, NoList

PriceListAssumptions ==
    /\ Lists \subseteq Nat /\ IsFiniteSet(Lists) /\ IsFiniteSet(Rows)
    /\ CategoryOf \in [Products -> Categories \cup {NoCategory}]
    /\ SuppliersOf \in [Products -> SUBSET Suppliers]
    /\ SellPrice \in [Products -> Nat]
    /\ Priorities \subseteq Int
    /\ LastDay \in Nat \ {0}

VARIABLES
    today,
    lists,      \* the saved lists
    editing     \* the lists being edited, as they were loaded

vars == <<today, lists, editing>>

-----------------------------------------------------------------------------
(* Rules *)

\* SCOPE_SPECIFICITY: the lower the more specific.
Specificity == [PRODUCT |-> 0, CATEGORY |-> 1, SUPPLIER |-> 2]
Targets == [PRODUCT |-> Products, CATEGORY |-> Categories, SUPPLIER |-> Suppliers]

\* PriceListRule.clean: a target of the row's own scope, and either a discount
\* or a fixed price, the latter for a single product only.
Clean(row) ==
    /\ row.scope \in DOMAIN Specificity
    /\ row.target \in Targets[row.scope]
    /\ row.fixed # NoPrice => row.scope = "PRODUCT"
    /\ (row.fixed = NoPrice) # (row.discount = NoPrice)

\* _parse_rules: at least one row, and one bad row refuses them all.
Parsed == {rows \in SUBSET Rows : /\ rows # {} /\ Cardinality(rows) <= MaxRules
                                  /\ \A row \in rows : Clean(row)}

\* effective_price: rounded half up to the cent.
EffectivePrice(rule, base) ==
    IF rule.fixed # NoPrice THEN rule.fixed
    ELSE (base * (100 - rule.discount) + 50) \div 100

\* Whether a rule reaches a product, dynamically through category or supplier.
Covers(rule, p) ==
    CASE rule.scope = "PRODUCT" -> rule.target = p
      [] rule.scope = "CATEGORY" -> rule.target = CategoryOf[p]
      [] OTHER -> rule.target \in SuppliersOf[p]

Saved == {l \in Lists : lists[l] # NoList}
RulesOf(l) == {[list |-> l, rule |-> rule] : rule \in lists[l].rules}

\* _active_rules: of lists that are in their period and not deleted.
Active(l) == ~ lists[l].deleted /\ lists[l].period[1] <= today /\ today <= lists[l].period[2]
ActiveRules == UNION {RulesOf(l) : l \in {k \in Saved : Active(k)}}

\* Fault: the specificity is not negated, the widest rule wins.
BeatsWidest(a, b) ==
    LET la == lists[a.list]
        lb == lists[b.list]
        sa == Specificity[a.rule.scope]
        sb == Specificity[b.rule.scope]
    IN  \/ la.priority > lb.priority
        \/ la.priority = lb.priority /\ sa > sb
        \/ la.priority = lb.priority /\ sa = sb /\ a.list > b.list
\* _rule_sort_key: a beats b by priority, then specificity, then creation.
Beats(a, b) ==
    LET la == lists[a.list]
        lb == lists[b.list]
        sa == Specificity[a.rule.scope]
        sb == Specificity[b.rule.scope]
    IN  \/ la.priority > lb.priority
        \/ la.priority = lb.priority /\ sa < sb
        \/ la.priority = lb.priority /\ sa = sb /\ a.list > b.list

\* The rules resolve_prices fetches for a whole batch of products.
Fetched(batch) ==
    {r \in ActiveRules :
       CASE r.rule.scope = "PRODUCT" -> r.rule.target \in batch
         [] r.rule.scope = "CATEGORY" -> r.rule.target \in {CategoryOf[q] : q \in batch}
         [] OTHER -> r.rule.target \in UNION {SuppliersOf[q] : q \in batch}}

\* Fault: the batch's rules are taken as they were fetched.
AllFetched(batch, p) == Fetched(batch)
\* Of those, the ones that may price p.
CandidateRules(batch, p) == {r \in Fetched(batch) : Covers(r.rule, p)}

\* resolve_prices: the maximum; max() keeps the first of equals, which is
\* whichever the database returned first.
Winners(batch, p) ==
    LET c == CandidateRules(batch, p) IN {r \in c : \A q \in c : ~ Beats(q, r)}
Prices(batch, p) ==
    IF Winners(batch, p) = {} THEN {SellPrice[p]}
    ELSE {EffectivePrice(r.rule, SellPrice[p]) : r \in Winners(batch, p)}

\* rules_for_price_list: on a list's own page the most specific rule wins.
PageRules(l, p) ==
    LET c == {r \in RulesOf(l) : Covers(r.rule, p)}
    IN  {r \in c : \A q \in c : Specificity[r.rule.scope] <= Specificity[q.rule.scope]}
\* price_list_detail: the new price next to each product the list covers.
DetailPrices(l, p) == {EffectivePrice(r.rule, SellPrice[p]) : r \in PageRules(l, p)}

-----------------------------------------------------------------------------
List == [priority : Priorities, period : Periods, deleted : BOOLEAN, rules : Parsed]

TypeOK ==
    /\ today \in 1..LastDay
    /\ lists \in [Lists -> List \cup {NoList}]
    /\ editing \in [Editors -> [list : Lists, deleted : BOOLEAN] \cup {NoList}]

Init ==
    /\ today = 1
    /\ lists = [l \in Lists |-> NoList]
    /\ editing = [e \in Editors |-> NoList]

\* price_list_create: header and rules in one transaction.  A bad row, an empty
\* grid or an error saves nothing, which is no step.
Create(l, priority, period, rules) ==
    /\ lists[l] = NoList
    /\ \A k \in Lists : k < l => lists[k] # NoList
    /\ lists' = [lists EXCEPT ![l] = [priority |-> priority, period |-> period,
                                      deleted |-> FALSE, rules |-> rules]]
    /\ UNCHANGED <<today, editing>>

\* price_list_edit: get_object_or_404 loads the row ...
LoadEdit(e, l) ==
    /\ editing[e] = NoList
    /\ lists[l] # NoList
    /\ editing' = [editing EXCEPT ![e] = [list |-> l, deleted |-> lists[l].deleted]]
    /\ UNCHANGED <<today, lists>>

\* ... form.save() writes every column of it, is_deleted as it was loaded, and
\* locks the row, so that replacing the rules of one list is serialised.
SaveEdit(e, priority, period, rules) ==
    /\ editing[e] # NoList
    /\ lists' = [lists EXCEPT ![editing[e].list] =
                   [priority |-> priority, period |-> period,
                    deleted |-> editing[e].deleted, rules |-> rules]]
    /\ editing' = [editing EXCEPT ![e] = NoList]
    /\ UNCHANGED today

\* The edit is refused or fails: nothing is saved.
DropEdit(e) ==
    /\ editing[e] # NoList
    /\ editing' = [editing EXCEPT ![e] = NoList]
    /\ UNCHANGED <<today, lists>>

\* price_list_delete: update_fields=['is_deleted'].
Delete(l) ==
    /\ lists[l] # NoList
    /\ lists' = [lists EXCEPT ![l].deleted = TRUE]
    /\ UNCHANGED <<today, editing>>

NextDay ==
    /\ today < LastDay
    /\ today' = today + 1
    /\ UNCHANGED <<lists, editing>>

Next ==
    \/ \E priority \in Priorities, period \in Periods, rules \in Parsed :
         \/ \E l \in Lists : Create(l, priority, period, rules)
         \/ \E e \in Editors : SaveEdit(e, priority, period, rules)
    \/ \E e \in Editors : DropEdit(e) \/ \E l \in Lists : LoadEdit(e, l)
    \/ \E l \in Lists : Delete(l)
    \/ NextDay

Spec == Init /\ [][Next]_vars

-----------------------------------------------------------------------------
(* Correctness *)

\* Two rules of one scope in one list that reach the same product: which of
\* them wins is left to the order of the database's rows.
Tied(l, p) ==
    \E r, q \in RulesOf(l) :
        r # q /\ r.rule.scope = q.rule.scope /\ Covers(r.rule, p) /\ Covers(q.rule, p)

\* The list's page uses the "same tie-break as resolve_prices()": where no
\* other list is active, the register charges what the list's page says, and
\* the catalogue's price for products the list does not cover.
PageAgreesWithRegister ==
    \A l \in Saved : Active(l) /\ (\A k \in Saved \ {l} : ~ Active(k)) =>
        \A p \in Products : ~ Tied(l, p) =>
            Prices(Products, p) = IF DetailPrices(l, p) = {} THEN {SellPrice[p]} ELSE DetailPrices(l, p)

\* What the register shows (prices of the whole catalogue, resolved at once)
\* is what a cashier's sale is charged (_enforce_effective_prices resolves the
\* cart alone): the batch a product is resolved in does not change its price.
\* At every moment that price is one single price, ties apart.
ChargedAsShown ==
    \A cart \in SUBSET Products : \A p \in cart :
        /\ Prices(cart, p) = Prices(Products, p)
        /\ (\A l \in Saved : ~ Tied(l, p)) => Cardinality(Prices(cart, p)) = 1
=============================================================================
