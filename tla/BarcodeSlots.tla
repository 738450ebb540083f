---------------------------- MODULE BarcodeSlots ----------------------------
(***************************************************************************)
(* The barcodes of one product (src/STORA/products): the grid shows the     *)
(* first of them in numbered columns and edits one column at a time, the    *)
(* edit page renumbers all of them.  Both load the list and save without a  *)
(* lock.  A barcode another product has is refused, which is no step.       *)
(***************************************************************************)
EXTENDS Naturals, FiniteSets, Sequences

CONSTANTS
    Codes,
    Blank,             \* the cell is emptied
    GRID_SLOT_COUNT,
    MaxRows,           \* bound on the barcodes ever added
    Users,             \* requests
    Nothing            \* a user without a request

VARIABLES
    barcodes,   \* the rows of Barcode
    lastId,     \* the last primary key
    view,       \* the list each user has loaded, and whether for the edit page
    gap,        \* history: a barcode was cleared in front of another
    outdated    \* history: a list was saved that had changed since it was loaded

vars == <<barcodes, lastId, view, gap, outdated>>

Barcode == [id : 1..MaxRows, code : Codes, position : 1..MaxRows + 1]
\* Meta.ordering.
Before(a, b) == a.position < b.position \/ (a.position = b.position /\ a.id < b.id)
Ordered(rows) ==
    CHOOSE list \in [1..Cardinality(rows) -> rows] :
        \A i, j \in DOMAIN list : i < j => Before(list[i], list[j])
Views == [page : BOOLEAN, list : Seq(Barcode)]

BarcodeAssumptions ==
    /\ Blank \notin Codes /\ Nothing \notin Views
    /\ GRID_SLOT_COUNT \in Nat /\ MaxRows \in Nat

TypeOK ==
    /\ barcodes \subseteq Barcode
    /\ lastId \in 0..MaxRows
    /\ view \in [Users -> Views \cup {Nothing}]
    /\ gap \in BOOLEAN /\ outdated \in BOOLEAN

Init ==
    /\ barcodes = {} /\ lastId = 0
    /\ view = [u \in Users |-> Nothing]
    /\ gap = FALSE /\ outdated = FALSE

-----------------------------------------------------------------------------
CodesOf(rows) == {b.code : b \in rows}
Without(rows, ids) == {b \in rows : b.id \notin ids}
IdsOf(list) == {list[i].id : i \in DOMAIN list}

\* ProductUpdateView, GET, or ProductBarcodeInlineUpdateView's
\* list(product.barcode.all()).
Look(u, page) ==
    /\ view[u] = Nothing
    /\ view' = [view EXCEPT ![u] = [page |-> page, list |-> Ordered(barcodes)]]
    /\ UNCHANGED <<barcodes, lastId, gap, outdated>>

Editing(u, page) == view[u] # Nothing /\ view[u].page = page
List(u) == view[u].list
Fresh(u) == List(u) = Ordered(barcodes)
Close(u) == view' = [view EXCEPT ![u] = Nothing]

\* The grid: the cell of an existing barcode is emptied ...
ClearSlot(u, slot) ==
    /\ Editing(u, FALSE)
    /\ slot <= GRID_SLOT_COUNT /\ slot \in DOMAIN List(u)
    /\ barcodes' = Without(barcodes, {List(u)[slot].id})
    /\ gap' = (gap \/ slot < Len(List(u)))
    /\ outdated' = (outdated \/ ~ Fresh(u))
    /\ Close(u)
    /\ UNCHANGED lastId

\* ... or another code typed into it; one cleared meanwhile is inserted again.
RetypeSlot(u, slot, code) ==
    LET b == List(u)[slot]
        others == Without(barcodes, {b.id})
    IN  /\ Editing(u, FALSE)
        /\ slot <= GRID_SLOT_COUNT /\ slot \in DOMAIN List(u)
        /\ code \notin CodesOf(others)
        /\ barcodes' = others \cup {[b EXCEPT !.code = code]}
        /\ outdated' = (outdated \/ ~ Fresh(u))
        /\ Close(u)
        /\ UNCHANGED <<lastId, gap>>

\* Fault: any empty slot will do.
EmptySlot(slot, list) == slot > Len(list)
\* "A brand-new barcode can only be added in the next free slot."
NextSlot(slot, list) == slot = Len(list) + 1

AddSlot(u, slot, code) ==
    /\ Editing(u, FALSE)
    /\ slot <= GRID_SLOT_COUNT /\ NextSlot(slot, List(u))
    /\ code \notin CodesOf(barcodes)
    /\ lastId < MaxRows
    /\ lastId' = lastId + 1
    /\ barcodes' = barcodes \cup {[id |-> lastId', code |-> code, position |-> slot]}
    /\ outdated' = (outdated \/ ~ Fresh(u))
    /\ Close(u)
    /\ UNCHANGED gap

\* The edit page: rows are removed, one may be added, the rest renumbered in
\* their order on the page.  A kept row that was deleted meanwhile makes the formset
\* invalid, a removed one is skipped; one added meanwhile is not on the page and
\* stays as it is.
SavePage(u, keep, new) ==
    LET kept == {i \in DOMAIN List(u) : List(u)[i].id \in keep}
        place(i) == Cardinality({j \in kept : j <= i})
        added == IF new = Blank THEN {}
                 ELSE {[id |-> lastId + 1, code |-> new, position |-> Cardinality(kept) + 1]}
        saved == {[List(u)[i] EXCEPT !.position = place(i)] : i \in kept} \cup added
        rest == Without(barcodes, IdsOf(List(u)))
    IN  /\ Editing(u, TRUE)
        /\ keep \subseteq IdsOf(List(u))
        /\ keep \subseteq {b.id : b \in barcodes}
        /\ new \notin CodesOf(barcodes)
        /\ CodesOf(saved) \cap CodesOf(rest) = {}
        /\ lastId' = lastId + Cardinality(added) /\ lastId' <= MaxRows
        /\ barcodes' = saved \cup rest
        /\ gap' = (gap /\ ~ Fresh(u))
        /\ outdated' = ~ Fresh(u)
        /\ Close(u)

\* "Fill in the earlier barcode slot first.", a code that is taken, a page left.
GiveUp(u) ==
    /\ view[u] # Nothing
    /\ Close(u)
    /\ UNCHANGED <<barcodes, lastId, gap, outdated>>

Next ==
    \E u \in Users :
        \/ \E page \in BOOLEAN : Look(u, page)
        \/ \E slot \in 1..GRID_SLOT_COUNT :
             \/ ClearSlot(u, slot)
             \/ \E code \in Codes : RetypeSlot(u, slot, code) \/ AddSlot(u, slot, code)
        \/ \E keep \in SUBSET (1..MaxRows), new \in Codes \cup {Blank} : SavePage(u, keep, new)
        \/ GiveUp(u)

Spec == Init /\ [][Next]_vars

-----------------------------------------------------------------------------
\* The numbers of the barcodes are their slots, so that "the NEXT page load"
\* shows one that is added in the slot it was typed into: unless a barcode was
\* cleared in front of another (the rest keep their numbers, and the next one
\* added repeats one), or a list was saved over another's changes.
PositionsAreSlots ==
    ~ gap /\ ~ outdated =>
        \A i \in DOMAIN Ordered(barcodes) : Ordered(barcodes)[i].position = i

-----------------------------------------------------------------------------
(* The invariant that makes it so: inductive, for any users and codes *)

\* A primary key is given once, and no list holds one twice.
KeysUnique ==
    /\ \A b \in barcodes : b.id <= lastId
    /\ \A b, c \in barcodes : b.id = c.id => b = c
    /\ \A u \in Users : view[u] # Nothing =>
         /\ \A i \in DOMAIN List(u) : List(u)[i].id <= lastId
         /\ \A i, j \in DOMAIN List(u) : List(u)[i].id = List(u)[j].id => i = j

\* The positions are 1, 2, 3 ... without a repetition or a gap.
Compact(rows) ==
    \E n \in Nat :
        /\ \A b \in rows : b.position \in 1..n
        /\ \A b, c \in rows : b.position = c.position => b = c
        /\ \A i \in 1..n : \E b \in rows : b.position = i

IInv == TypeOK /\ KeysUnique /\ (~ gap /\ ~ outdated => Compact(barcodes))
=============================================================================
