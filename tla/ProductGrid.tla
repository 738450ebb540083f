---------------------------- MODULE ProductGrid ----------------------------
(***************************************************************************)
(* The ways a product's row is written (src/STORA/products): the edit page, *)
(* one cell of the Products grid, one attribute of it, and the actions on a *)
(* selection.  Each loads the product and saves it without a lock; some     *)
(* write every column, some only what they are about.  One product: the     *)
(* actions on a selection treat each row of it alike.                       *)
(***************************************************************************)
EXTENDS FiniteSets

CONSTANTS
    Attributes,   \* keys of Product.attributes, the JSON blob
    Fields,       \* columns a user edits: category, sell_price, is_archived ...
    Listed,       \* the fields of the edit page; is_archived is not one
    Values,
    Unset,        \* an attribute without a value: its key is not in the blob
    Users,        \* requests
    Nothing       \* a user without a request

Cells == Attributes \cup Fields
OnPage == Attributes \cup Listed

Rows == [Cells -> Values]

ProductGridAssumptions ==
    /\ Attributes \cap Fields = {}
    /\ Listed \subseteq Fields
    /\ Unset \in Values
    /\ Nothing \notin Rows

VARIABLES
    exists,     \* the product is there
    row,        \* its cells
    page,       \* the cells on the edit page a user has open
    loaded,     \* the instance of a request, as it was loaded or last saved
    again,      \* the users whose request has saved the edit page and will save again
    stale,      \* history: cells written by others since a request loaded them
    wanted,     \* history: what was last put into each cell by a user
    crossed     \* history: cells overwritten with what was stale

vars == <<exists, row, page, loaded, again, stale, wanted, crossed>>

TypeOK ==
    /\ exists \in BOOLEAN
    /\ row \in Rows /\ wanted \in Rows
    /\ page \in [Users -> Rows \cup {Nothing}]
    /\ loaded \in [Users -> Rows \cup {Nothing}]
    /\ again \subseteq Users
    /\ stale \in [Users -> SUBSET Cells]
    /\ crossed \subseteq Cells

Init ==
    /\ exists = TRUE
    /\ row = [c \in Cells |-> Unset] /\ wanted = row
    /\ page = [u \in Users |-> Nothing]
    /\ loaded = [u \in Users |-> Nothing]
    /\ again = {}
    /\ stale = [u \in Users |-> {}]
    /\ crossed = {}

-----------------------------------------------------------------------------
\* A write of the cells of new that differ from those in the database, to put
\* what is meant there: cells of meant are what the user asked for, the others
\* in written come along as they were loaded.
Write(u, new, written, meant) ==
    LET changed == {c \in written : new[c] # row[c]} IN
    /\ row' = [c \in Cells |-> IF c \in written THEN new[c] ELSE row[c]]
    /\ wanted' = [c \in Cells |-> IF c \in meant THEN new[c] ELSE wanted[c]]
    /\ crossed' = (crossed \cup (stale[u] \cap written)) \ meant
    /\ stale' = [v \in Users |-> IF v = u THEN {}
                                 ELSE IF loaded[v] # Nothing \/ page[v] # Nothing
                                 THEN stale[v] \cup changed \cup meant ELSE {}]

\* ProductUpdateView, GET: the page is filled from the row.
OpenPage(u) ==
    /\ exists
    /\ page[u] = Nothing /\ loaded[u] = Nothing
    /\ page' = [page EXCEPT ![u] = row]
    /\ UNCHANGED <<exists, row, loaded, again, stale, wanted, crossed>>

\* get_object_or_404 of a POST: a cell of the grid, or the edit page.
Load(u) ==
    /\ exists
    /\ loaded[u] = Nothing
    /\ loaded' = [loaded EXCEPT ![u] = row]
    /\ stale' = [stale EXCEPT ![u] = @ \cap OnPage]   \* the rest is fresh again
    /\ UNCHANGED <<exists, row, page, again, wanted, crossed>>

\* ProductUpdateView, POST: form.save() writes every column, what is on the
\* page as the page has it and the rest as it was loaded; one that was deleted
\* meanwhile is inserted again.
SavePage(u, c, v) ==
    LET new == [d \in Cells |-> IF d = c THEN v
                                ELSE IF d \in OnPage THEN page[u][d]
                                ELSE loaded[u][d]]
    IN  /\ page[u] # Nothing /\ loaded[u] # Nothing
        /\ c \in OnPage
        /\ Write(u, new, Cells, {c})
        /\ exists' = TRUE
        /\ page' = [page EXCEPT ![u] = Nothing]
        /\ loaded' = [loaded EXCEPT ![u] = new]
        /\ again' = again \cup {u}

\* super().form_valid(form) calls form.save() once more, outside the transaction:
\* every column of the same instance, over what others wrote in between.
SaveAgain(u) ==
    /\ u \in again
    /\ Write(u, loaded[u], Cells, {})
    /\ exists' = TRUE
    /\ loaded' = [loaded EXCEPT ![u] = Nothing]
    /\ again' = again \ {u}
    /\ UNCHANGED page

\* ProductInlineUpdateView: one cell is changed, every column written.
SaveField(u, c, v) ==
    /\ loaded[u] # Nothing /\ page[u] = Nothing /\ u \notin again
    /\ c \in Fields
    /\ Write(u, [loaded[u] EXCEPT ![c] = v], Cells, {c})
    /\ exists' = TRUE
    /\ loaded' = [loaded EXCEPT ![u] = Nothing]
    /\ UNCHANGED <<page, again>>

\* Fault: the blob is made anew of the one attribute.
OneAttribute(u, c, v) == [d \in Cells |-> IF d = c THEN v ELSE Unset]
\* _update_attribute: a copy of the blob loaded, with the one key set or popped.
Blob(u, c, v) == [loaded[u] EXCEPT ![c] = v]

\* It is saved with update_fields=['attributes'], and not if the row is gone.
SaveAttribute(u, c, v) ==
    /\ loaded[u] # Nothing /\ page[u] = Nothing /\ u \notin again
    /\ exists
    /\ c \in Attributes
    /\ Write(u, Blob(u, c, v), Attributes, {c})
    /\ loaded' = [loaded EXCEPT ![u] = Nothing]
    /\ UNCHANGED <<exists, page, again>>

\* Invalid input, an unexpected error, a page left: nothing is saved, or not again.
GiveUp(u) ==
    /\ page[u] # Nothing \/ loaded[u] # Nothing
    /\ page' = [page EXCEPT ![u] = Nothing]
    /\ loaded' = [loaded EXCEPT ![u] = Nothing]
    /\ again' = again \ {u}
    /\ stale' = [stale EXCEPT ![u] = {}]
    /\ UNCHANGED <<exists, row, wanted, crossed>>

\* ProductBulkActionView set_category, set_sell_price, set_attribute, and
\* product_archive: one UPDATE of one column, or of one key of the blob.
SetCell(u, c, v) ==
    /\ exists
    /\ page[u] = Nothing /\ loaded[u] = Nothing
    /\ Write(u, [row EXCEPT ![c] = v], {c}, {c})
    /\ UNCHANGED <<exists, page, loaded, again>>

\* delete: a product without sales or deliveries goes (one that has them raises
\* ProtectedError and is archived instead, which is SetCell).
Delete ==
    /\ exists
    /\ exists' = FALSE
    /\ UNCHANGED <<row, page, loaded, again, stale, wanted, crossed>>

Next ==
    \/ \E u \in Users :
         \/ OpenPage(u) \/ Load(u) \/ GiveUp(u) \/ SaveAgain(u)
         \/ \E c \in Cells, v \in Values :
              SavePage(u, c, v) \/ SaveField(u, c, v) \/ SaveAttribute(u, c, v) \/ SetCell(u, c, v)
    \/ Delete

Spec == Init /\ [][Next]_vars

-----------------------------------------------------------------------------
\* A cell holds what somebody last put there, whichever way others write other
\* cells of the product ("every other attribute on each product is left exactly
\* as it was"), unless a request that had loaded the row, or saved the edit page,
\* before that wrote it back.
CellsKeepTheirValue == \A c \in Cells \ crossed : row[c] = wanted[c]

-----------------------------------------------------------------------------
(* The invariant that makes it so: inductive, for any attributes, fields,   *)
(* values and requests                                                      *)

\* What the open edit page shows and is not stale is in the database ...
PageFresh(u) == page[u] # Nothing => \A c \in OnPage \ stale[u] : page[u][c] = row[c]

\* ... and so is what a request has loaded, but for the cells the page gives.
GivenByPage(u) == IF page[u] # Nothing THEN OnPage ELSE {}
LoadedFresh(u) ==
    loaded[u] # Nothing =>
      \A c \in Cells \ (GivenByPage(u) \cup stale[u]) : loaded[u][c] = row[c]

\* A user who has nothing open has nothing that could be stale.
NothingStale(u) == page[u] = Nothing /\ loaded[u] = Nothing => stale[u] = {}

\* A request that will save again is past its page.
PastPage == \A u \in again : page[u] = Nothing /\ loaded[u] # Nothing

Fresh == \A u \in Users : PageFresh(u) /\ LoadedFresh(u) /\ NothingStale(u)

IInv == TypeOK /\ Fresh /\ PastPage /\ CellsKeepTheirValue
=============================================================================
