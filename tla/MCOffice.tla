------------------------------ MODULE MCOffice ------------------------------
(***************************************************************************)
(* Two workers, and what each part needs for its interesting cases; the     *)
(* names n1, n2, n3 (requests, categories, barcodes), k1, k2 (products,     *)
(* carts, attributes) and w1, w2 (workers) are shared by the parts.         *)
(***************************************************************************)
EXTENDS Office, TLC

CONSTANTS n1, n2, n3, n4, k1, k2, w1, w2, mill, clerk

\* Orders: one supplier of all the products.
MCRanked == [s \in Suppliers |-> OrderedProducts \X {1}]

\* Drafts: one cart of each kind.
MCKindOf == ("bread" :> "delivery") @@ ("waste" :> "write_off")

\* Price lists: tea belongs to a category, both products to a supplier; every
\* scope, discounts that need rounding, a fixed price, and one that is refused
\* because it is not for a product.
Discount(scope, target, percent) ==
    [scope |-> scope, target |-> target, discount |-> percent, fixed |-> Nothing]
Fixed(scope, target, cents) ==
    [scope |-> scope, target |-> target, discount |-> Nothing, fixed |-> cents]
MCRows == {Discount("PRODUCT", "tea", 5), Discount("CATEGORY", "drinks", 15),
           Discount("SUPPLIER", "mill", 10),
           Fixed("PRODUCT", "tea", 100), Fixed("CATEGORY", "drinks", 100)}
MCCategoryOf == [tea |-> "drinks", bread |-> Nothing]
MCSuppliersOf == [tea |-> {"mill"}, bread |-> {"mill"}]
MCSellPrice == [tea |-> 199, bread |-> 105]
MCPeriods == {<<1, 1>>, <<1, 2>>}

\* Reports: a bun of flour.
MCUses == "bun" :> ("flour" :> 2)
MCCooked == "bun" :> ("flour" :> 1)
MCOpening == "flour" :> 3

\* Backups: the local time falls back after the third moment.
MCLocal == <<1, 2, 3, 2>>

\* Imports: a file of one row, of any sort, or of two.
MCRow == [code : {0}, name : {"a", "b"}, barcodes : {<<>>, <<"x">>}, quantity : {0, 1}]
           \cup [code : {2}, name : {"a", "b"}, barcodes : {<<"x">>}, quantity : {1}]
MCOdd == {[code |-> 0, name |-> "a", barcodes |-> <<"x", "x">>, quantity |-> 1],
          [code |-> 0, name |-> "long", barcodes |-> <<>>, quantity |-> 1]}
MCFiles == {<<r>> : r \in MCRow \cup MCOdd}
             \cup {f \in MCRow \X MCRow : f[1].code = 0 /\ f[2].code = 2}

Alike == Permutations({n1, n2, n3}) \cup Permutations({k1, k2}) \cup Permutations({w1, w2})
=============================================================================
