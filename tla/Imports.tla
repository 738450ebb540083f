------------------------------ MODULE Imports ------------------------------
(***************************************************************************)
(* A delivery imported from an Excel file (src/STORA/deliveries):           *)
(* parse_delivery_import resolves the rows against the catalogue, the page  *)
(* adds them to its grid, the clerk reviews them or imports another file,   *)
(* and saving the delivery first creates the products that are new          *)
(* (_materialize_pending_products) in the delivery's transaction: all of it *)
(* is saved or nothing.  Other users add products at any moment; names,     *)
(* codes and barcodes are unique in the database.                           *)
(***************************************************************************)
EXTENDS Naturals, FiniteSets, Sequences, SequencesExt

CONSTANTS
    Names, Codes, Barcodes,
    TooLong,      \* names that the database has no room for
    Blank,        \* an empty code cell
    Files,        \* what a file may hold: sequences of rows (see Row)
    MaxImports,   \* bound on the files imported
    MaxOthers,    \* bound on the products that others add
    NoRow         \* nothing has been refused

Row == [code : Codes \cup {Blank}, name : Names, barcodes : Seq(Barcodes), quantity : Nat]

ImportAssumptions ==
    /\ Codes \subseteq Nat /\ Blank \notin Codes
    /\ Files \subseteq Seq(Row)
    /\ MaxImports \in Nat /\ MaxOthers \in Nat

VARIABLES
    catalogue,  \* the products: their code, name and barcodes
    others,     \* how many of them others have added (bounded)
    onPage,     \* productsById: the products the page was made with
    phase,      \* review (the grid is on screen), saving, creating, saved
    grid,       \* the rows on screen: of a known product or of a new one
    imports,    \* how many files have been imported (bounded)
    at,         \* the row the save has got to
    code,       \* the internal code it has picked for it
    counter,    \* next_code_counter; 0 before it is needed
    created,    \* products created by the transaction so far
    delivered,  \* the delivery's lines so far: name and quantity
    refused     \* the row named by PendingProductError, with its code, until the
                \* clerk goes on

vars == <<catalogue, others, onPage, phase, grid, imports, at, code, counter,
          created, delivered, refused>>

-----------------------------------------------------------------------------
(* Reading the file *)

\* A row of the grid: "file" tells the imports apart (not in the code), "linkable"
\* is duplicate_candidate, of whichever product the similarity search takes.
Known(p, q) ==
    [new |-> FALSE, name |-> p.name, code |-> p.code, barcodes |-> <<>>, quantity |-> q,
     file |-> 0, linkable |-> FALSE]
NewRow(row, c) ==
    [new |-> TRUE, name |-> row.name, code |-> c, barcodes |-> row.barcodes,
     quantity |-> row.quantity, file |-> imports + 1, linkable |-> TRUE]

\* get_free_internal_codes()[1]: one past the highest in use.
NextFree(products) ==
    IF products = {} THEN 1
    ELSE 1 + CHOOSE c \in {p.code : p \in products} : \A p \in products : p.code <= c

\* A code match comes first, then any of the row's barcodes.
Matches(row) ==
    LET byCode == {p \in catalogue : p.code = row.code}
    IN  IF byCode # {} THEN byCode
        ELSE {p \in catalogue : p.barcodes \cap ToSet(row.barcodes) # {}}

\* The page gives the quantity to the product's row if the grid has one, and
\* drops it without a word if it has not heard of the product.
RowOf(rows, p) == {j \in DOMAIN rows : ~ rows[j].new /\ rows[j].name = p.name}
Raise(rows, p, q) == [rows EXCEPT ![CHOOSE j \in RowOf(rows, p) : TRUE].quantity = @ + q]
Place(rows, p, q) ==
    IF p \notin onPage THEN rows
    ELSE IF RowOf(rows, p) = {} THEN Append(rows, Known(p, q))
    ELSE Raise(rows, p, q)

Alike(r, s) == r.name = s.name \/ ToSet(r.barcodes) \cap ToSet(s.barcodes) # {}

\* Fault: barcodes are not compared within the file.
SeenName(row, news) == \E n \in news : n.name = row.name
\* seen_new_names, seen_new_barcodes: a new row that shares either with an
\* earlier new one of the file is left out.
Seen(row, news) ==
    \E n \in news : Alike(n, row)

\* One row of the file: the grid so far, and the next code to hand out.
ReadRow(sofar, row) ==
    LET news == {r \in ToSet(sofar.rows) : r.new /\ r.file = imports + 1}
        next == IF sofar.next = 0 THEN NextFree(catalogue) ELSE sofar.next
    IN  IF Matches(row) # {}
        THEN IF row.quantity = 0 THEN sofar
             ELSE [sofar EXCEPT !.rows = Place(@, CHOOSE p \in Matches(row) : TRUE, row.quantity)]
        ELSE IF Seen(row, news) THEN sofar
        ELSE IF row.code = Blank
             THEN [rows |-> Append(sofar.rows, NewRow(row, next)), next |-> next + 1]
             ELSE [sofar EXCEPT !.rows = Append(@, NewRow(row, row.code))]
\* The grid with all that the file adds to it.
Parsed(file) ==
    LET read[n \in 0..Len(file)] == IF n = 0 THEN [rows |-> grid, next |-> 0]
                                    ELSE ReadRow(read[n - 1], file[n])
    IN  read[Len(file)].rows

-----------------------------------------------------------------------------
Product == [code : Nat, name : Names, barcodes : SUBSET Barcodes]
GridRow == [new : BOOLEAN, name : Names, code : Nat, barcodes : Seq(Barcodes),
            quantity : Nat, file : Nat, linkable : BOOLEAN]
Line == Names \X (Nat \ {0})

TypeOK ==
    /\ catalogue \subseteq Product /\ created \subseteq Product
    /\ others \in 0..MaxOthers /\ imports \in 0..MaxImports
    /\ onPage \subseteq catalogue
    /\ phase \in {"review", "saving", "creating", "saved"}
    /\ grid \in Seq(GridRow)
    /\ at \in 0..Len(grid) + 1
    /\ code \in Nat /\ counter \in Nat
    /\ delivered \in Seq(Line)

Init ==
    /\ catalogue = {} /\ others = 0 /\ onPage = {}
    /\ phase = "review"
    /\ grid = <<>> /\ imports = 0 /\ at = 0 /\ code = 0 /\ counter = 0
    /\ created = {} /\ delivered = <<>>
    /\ refused = NoRow

Clash(p, products) ==
    \E q \in products : q.name = p.name \/ q.code = p.code \/ q.barcodes \cap p.barcodes # {}

\* Another user saves a product; one that clashes with a row of this
\* transaction waits for it and fails.
Other(p) ==
    /\ others < MaxOthers
    /\ p.name \notin TooLong /\ ~ Clash(p, catalogue \cup created)
    /\ catalogue' = catalogue \cup {p}
    /\ others' = others + 1
    /\ UNCHANGED <<onPage, phase, grid, imports, at, code, counter, created, delivered, refused>>

\* A file is uploaded, the first or, as its messages advise, the same again,
\* corrected; a file without a usable row adds none.
Import(file) ==
    /\ phase = "review"
    /\ imports < MaxImports
    /\ grid' = Parsed(file)
    /\ imports' = imports + 1
    /\ refused' = NoRow
    /\ UNCHANGED <<catalogue, others, onPage, phase, at, code, counter, created, delivered>>

\* pendingRowFromSaved: the rows of a page made anew, without the duplicates
\* they were suspected of.
Restored(rows) == [i \in DOMAIN rows |-> [rows[i] EXCEPT !.linkable = FALSE]]

\* The page is opened again, with the rows of its draft.
Reload ==
    /\ phase = "review"
    /\ grid' = Restored(grid)
    /\ onPage' = catalogue
    /\ refused' = NoRow
    /\ UNCHANGED <<catalogue, others, phase, imports, at, code, counter, created, delivered>>

\* The clerk removes a row ...
RemoveRow(i) ==
    /\ phase = "review"
    /\ i \in DOMAIN grid
    /\ grid' = RemoveAt(grid, i)
    /\ refused' = NoRow
    /\ UNCHANGED <<catalogue, others, onPage, phase, imports, at, code, counter,
                   created, delivered>>

\* ... or links a possible duplicate to the product it is: its quantity goes to
\* that product's row if there is one (importStatusCellClick).
LinkRow(i, p) ==
    /\ phase = "review"
    /\ i \in DOMAIN grid /\ grid[i].new /\ grid[i].linkable
    /\ grid' = IF RowOf(grid, p) = {} THEN [grid EXCEPT ![i] = Known(p, grid[i].quantity)]
               ELSE RemoveAt(Raise(grid, p, grid[i].quantity), i)
    /\ refused' = NoRow
    /\ UNCHANGED <<catalogue, others, onPage, phase, imports, at, code, counter,
                   created, delivered>>

-----------------------------------------------------------------------------
(* Saving the delivery *)

\* deliveries_add first reads the products for the page it may show again.
Save ==
    /\ phase = "review"
    /\ grid # <<>>
    /\ onPage' = catalogue
    /\ phase' = "saving"
    /\ at' = 1 /\ counter' = 0
    /\ created' = {} /\ delivered' = <<>>
    /\ refused' = NoRow
    /\ UNCHANGED <<catalogue, others, grid, imports, code>>

\* Fault: the products have been created outside the transaction.
RollBackLines(why) ==
    /\ phase' = "review"
    /\ at' = 0 /\ code' = 0 /\ counter' = 0
    /\ created' = {} /\ delivered' = <<>>
    /\ catalogue' = catalogue \cup created
    /\ grid' = Restored(grid)
    /\ refused' = why
    /\ UNCHANGED <<others, onPage, imports>>

\* The transaction is rolled back, the grid shown again.
RollBack(why) ==
    /\ phase' = "review"
    /\ at' = 0 /\ code' = 0 /\ counter' = 0
    /\ created' = {} /\ delivered' = <<>>
    /\ grid' = Restored(grid)
    /\ refused' = why
    /\ UNCHANGED <<catalogue, others, onPage, imports>>

\* Fault: a row without a quantity is a line as well.
DeliverAny(row) == delivered' = Append(delivered, <<row.name, row.quantity>>)
\* Only a row with a quantity is a line of the delivery.
Deliver(row) ==
    delivered' = IF row.quantity > 0 THEN Append(delivered, <<row.name, row.quantity>>)
                 ELSE delivered

\* A row of a known product; the form demands a quantity.
KeepRow ==
    /\ phase = "saving"
    /\ at <= Len(grid) /\ ~ grid[at].new
    /\ grid[at].quantity > 0
    /\ Deliver(grid[at])
    /\ at' = at + 1
    /\ UNCHANGED <<catalogue, others, onPage, phase, grid, imports, code, counter,
                   created, refused>>

\* A code that is taken "falls back to the next free one".
PickCode ==
    LET taken == {p.code : p \in catalogue \cup created}
        from == IF counter = 0 THEN NextFree(catalogue \cup created) ELSE counter
        free == CHOOSE c \in from..(from + Cardinality(taken)) :
                    c \notin taken /\ \A d \in from..(c - 1) : d \in taken
        kept == grid[at].code \notin taken
    IN  /\ phase = "saving"
        /\ at <= Len(grid) /\ grid[at].new
        /\ code' = IF kept THEN grid[at].code ELSE free
        /\ counter' = IF kept THEN counter ELSE free + 1
        /\ phase' = "creating"
        /\ UNCHANGED <<catalogue, others, onPage, grid, imports, at, created, delivered, refused>>

Pending == [code |-> code, name |-> grid[at].name, barcodes |-> ToSet(grid[at].barcodes)]
\* The barcodes are inserted one by one: a row may clash with itself.
TwiceInRow(row) == Cardinality(ToSet(row.barcodes)) < Len(row.barcodes)
\* IntegrityError or DataError.
Refusable ==
    \/ Clash(Pending, catalogue \cup created)
    \/ TwiceInRow(grid[at]) \/ grid[at].name \in TooLong

CreateRow ==
    /\ phase = "creating"
    /\ ~ Refusable
    /\ created' = created \cup {Pending}
    /\ Deliver(grid[at])
    /\ at' = at + 1
    /\ phase' = "saving"
    /\ UNCHANGED <<catalogue, others, onPage, grid, imports, code, counter, refused>>

\* PendingProductError names the row.
RefuseRow ==
    /\ phase = "creating"
    /\ Refusable
    /\ RollBack([row |-> grid[at], code |-> code])

\* A delivery needs a line; the products come with it.
Commit ==
    /\ phase = "saving"
    /\ at > Len(grid)
    /\ delivered # <<>>
    /\ catalogue' = catalogue \cup created
    /\ created' = {}
    /\ phase' = "saved"
    /\ UNCHANGED <<others, onPage, grid, imports, at, code, counter, delivered, refused>>

\* No line at all, an invalid header, an unexpected error.
Fail ==
    /\ phase \in {"saving", "creating"}
    /\ RollBack(NoRow)

Next ==
    \/ \E c \in Codes, n \in Names, b \in SUBSET Barcodes :
         Other([code |-> c, name |-> n, barcodes |-> b])
    \/ \E file \in Files : Import(file)
    \/ \E i \in DOMAIN grid : RemoveRow(i) \/ \E p \in onPage : LinkRow(i, p)
    \/ Reload
    \/ Save \/ KeepRow \/ PickCode \/ CreateRow \/ RefuseRow \/ Commit \/ Fail

Spec == Init /\ [][Next]_vars

-----------------------------------------------------------------------------
(* Correctness *)

\* Rows of one file that would clash "make the second one fail at Save (taking
\* the whole delivery down with it)" and are caught when it is read: a row is
\* refused only over a product of the catalogue or a row of another file, both
\* of which the clerk can see, or for its own sake: it names one barcode twice
\* (which reading the file does not notice) or is too long.
RefusedForCause ==
    refused # NoRow =>
        \/ TwiceInRow(refused.row) \/ refused.row.name \in TooLong
        \/ Clash([refused.row EXCEPT !.barcodes = ToSet(@), !.code = refused.code], catalogue)
        \/ \E i \in DOMAIN grid :
             grid[i].new /\ grid[i].file # refused.row.file /\ Alike(grid[i], refused.row)

\* What a row has become: a product, and a line for each quantity up to it.
IsOf(p, row) == p.name = row.name /\ p.barcodes = ToSet(row.barcodes)
LinesUpTo(rows) ==
    LET lines[n \in 0..Len(rows)] ==
          IF n = 0 THEN <<>>
          ELSE IF rows[n].quantity = 0 THEN lines[n - 1]
          ELSE Append(lines[n - 1], <<rows[n].name, rows[n].quantity>>)
    IN  lines

\* A save that went through has done the whole grid: each new row is a product
\* with its barcodes under a code of its own, each row with a quantity a line
\* of the delivery; one that did not has added no product to the catalogue.
AllOrNothing ==
    /\ phase = "saved" =>
         /\ \A i \in DOMAIN grid : grid[i].new => \E p \in catalogue : IsOf(p, grid[i])
         /\ delivered = LinesUpTo(grid)[Len(grid)]
    /\ phase # "saved" => Cardinality(catalogue) = others
    /\ \A p, q \in catalogue : p # q => ~ Clash(p, {q})

-----------------------------------------------------------------------------
(* The invariant that makes them so: inductive, for any catalogue and files *)

\* No two new rows of a file are the same product, and none is of a file to come.
RowsApart ==
    /\ \A i, j \in DOMAIN grid :
         i # j /\ grid[i].new /\ grid[j].new /\ grid[i].file = grid[j].file =>
             ~ Alike(grid[i], grid[j])
    /\ \A i \in DOMAIN grid : grid[i].file <= imports

\* What a save has done is what its rows so far ask for, and no more.
SavedSoFar ==
    /\ phase = "review" => at = 0
    /\ phase \in {"saving", "creating"} =>
         /\ at \in 1..(Len(grid) + 1)
         /\ \A i \in 1..(at - 1) : grid[i].new => \E p \in created : IsOf(p, grid[i])
         /\ \A p \in created : \E i \in 1..(at - 1) : grid[i].new /\ IsOf(p, grid[i])
         /\ delivered = LinesUpTo(grid)[at - 1]
    /\ phase \notin {"saving", "creating"} => created = {}

\* The code picked is free of the save's own products; others may have taken it.
CodePicked ==
    phase = "creating" => /\ at <= Len(grid) /\ grid[at].new
                          /\ \A p \in created : p.code # code

\* Names, codes and barcodes are unique, also among rows not yet committed.
Unique == \A p, q \in catalogue \cup created : p # q => ~ Clash(p, {q})

IInv ==
    /\ TypeOK /\ RowsApart /\ SavedSoFar /\ CodePicked /\ Unique
    /\ IsFiniteSet(catalogue) /\ IsFiniteSet(created)
    /\ AllOrNothing /\ RefusedForCause
=============================================================================
