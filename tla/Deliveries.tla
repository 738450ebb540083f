----------------------------- MODULE Deliveries -----------------------------
(***************************************************************************)
(* What happens to a delivery, write-off or scrap document after it is in  *)
(* the books (deliveries/models.py and views.py): delivery_edit changes,   *)
(* adds and removes its lines, DeliveryDeleteView deletes it whole, by     *)
(* requests that run concurrently.                                         *)
(*                                                                         *)
(* delivery_edit validates its forms outside the transaction, which then   *)
(* begins by saving the document's own row: that makes two edits of one    *)
(* document wait for each other, and may give it another supplier.  A line *)
(* that is changed is compared with the row the database has by then, and  *)
(* one that is not changed is not saved; a line that is removed gives back *)
(* what the form says, and a deletion what it has collected beforehand.    *)
(* Product rows are locked as StockTransactions shows, so here a           *)
(* transaction's movements and links appear when it commits.               *)
(***************************************************************************)
EXTENDS Integers, FiniteSets, Functions

CONSTANTS
  Deliveries,   \* primary keys of documents
  Lines,        \* primary keys of lines
  DeliveryOf,   \* the document a line will belong to
  KindOf,       \* movement_type of a document
  Suppliers,
  NoSupplier,   \* of a document without one; also of any that is not a delivery,
                \* whose supplier has no effect here
  Products,
  Quantities,   \* what is typed for a line
  Editors,      \* requests to edit a document
  Deleters,     \* requests to delete one
  Opening,      \* stock before the first document
  NoLine,       \* a line that is not in the database
  Nobody        \* holder of a row nobody has locked

Requests == Editors \cup Deleters

Rows == [item : Products, quantity : Quantities]

ASSUME DocumentsAssumption ==
  /\ IsFiniteSet(Lines)
  /\ Deliveries \cap Lines = {}
  /\ DeliveryOf \in [Lines -> Deliveries]
  /\ KindOf \in [Deliveries -> {"DELIVERY", "WRITE_OFF", "SCRAP"}]
  /\ NoSupplier \notin Suppliers
  /\ Quantities \subseteq Nat \ {0}
  /\ Opening \in [Products -> Int]
  /\ NoLine \notin Rows

ASSUME RequestsAssumption == Editors \cap Deleters = {} /\ Nobody \notin Requests

VARIABLES
  headers,    \* documents in the database
  supplier,   \* their suppliers
  rows,       \* their lines
  born,       \* documents and lines ever created: a primary key is not used again
  stock,      \* committed Product.quantity
  links,      \* ProductSupplier rows with linked_from_delivery
  removals,   \* lines that have a DeliveryItemRemoval
  deleting,   \* _deliveries_being_deleted
  headerLock, lineLock,  \* holders of row locks
  pc,
  target,     \* the document a request is about
  page,       \* edit: the lines as the page shows them
  writes,     \* edit: lines its forms will save
  removes,    \* lines a request will remove, with what it takes them to hold
  adds,       \* edit: a new line, or NoLine
  given,      \* edit: the supplier the document is posted with
  reversal    \* deletion: the sign it reverses with, whether as a correction, and
              \* the supplier it then takes the lines to be from

inputs == <<target, page, writes, removes, adds, given>>
locks == <<headerLock, lineLock>>
documents == <<headers, supplier, rows, born>>
vars == <<documents, stock, links, removals, deleting, locks, pc, inputs, reversal>>

Empty == [l \in Lines |-> NoLine]

NoReversal == [sign |-> 1, correction |-> FALSE, supplier |-> NoSupplier]

LinesOf(d) == {l \in Lines : DeliveryOf[l] = d}

\* The lines for which f holds a row.
Held(f) == {l \in Lines : f[l] # NoLine}

Of(f, d) == [l \in Lines |-> IF l \in LinesOf(d) THEN f[l] ELSE NoLine]

\* Deliveries bring stock in, the other movements take it out.
Sign(kind) == IF kind = "DELIVERY" THEN 1 ELSE -1

\* Units of p on the lines of f.
Units(f, p) ==
  SumFunction([l \in {k \in Held(f) : f[k].item = p} |-> f[l].quantity])

\* The lines of f on deliveries that have a supplier, when documents have those of s.
Supplied(f, s) ==
  {l \in Held(f) : KindOf[DeliveryOf[l]] = "DELIVERY" /\ s[DeliveryOf[l]] # NoSupplier}

\* Pairs of product and supplier on these lines.
Delivered(f, s) == {<<f[l].item, s[DeliveryOf[l]]>> : l \in Supplied(f, s)}

\* What the document of a request may be given for a supplier.
Choices(d) == IF KindOf[d] = "DELIVERY" THEN Suppliers \cup {NoSupplier} ELSE {NoSupplier}

-----------------------------------------------------------------------------
Init ==
  /\ headers = {} /\ rows = Empty /\ born = {}
  /\ supplier = [d \in Deliveries |-> NoSupplier]
  /\ stock = Opening
  /\ links = {} /\ removals = {} /\ deleting = {}
  /\ headerLock = [d \in Deliveries |-> Nobody]
  /\ lineLock = [l \in Lines |-> Nobody]
  /\ pc = [r \in Requests |-> "idle"]
  /\ target \in [Requests -> Deliveries]
  /\ page = [r \in Editors |-> Empty]
  /\ writes = [r \in Editors |-> Empty]
  /\ removes = [r \in Requests |-> Empty]
  /\ adds = [r \in Editors |-> NoLine]
  /\ given = [r \in Editors |-> NoSupplier]
  /\ reversal = [r \in Deleters |-> NoReversal]

\* deliveries_add commits a document: StockTransactions has its details.  Each
\* product of a delivery is linked to its supplier.
Add(d) ==
  /\ d \notin born
  /\ \E f \in [LinesOf(d) -> Rows \cup {NoLine}] :
       /\ \E l \in LinesOf(d) : f[l] # NoLine
       /\ rows' = [l \in Lines |-> IF l \in LinesOf(d) THEN f[l] ELSE rows[l]]
  /\ \E s \in Choices(d) : supplier' = [supplier EXCEPT ![d] = s]
  /\ headers' = headers \cup {d}
  /\ born' = born \cup {d} \cup (Held(rows') \cap LinesOf(d))
  /\ stock' = [p \in Products |-> stock[p] + Sign(KindOf[d]) * Units(Of(rows', d), p)]
  /\ links' = links \cup Delivered(Of(rows', d), supplier')
  /\ UNCHANGED <<removals, deleting, locks, pc, inputs, reversal>>

-----------------------------------------------------------------------------
(* Editing *)

\* The edit page is shown.
Open(r) ==
  /\ pc[r] = "idle"
  /\ target[r] \in headers
  /\ page' = [page EXCEPT ![r] = Of(rows, target[r])]
  /\ pc' = [pc EXCEPT ![r] = "page"]
  /\ UNCHANGED <<documents, stock, links, removals, deleting, locks, target,
                 writes, removes, adds, given, reversal>>

\* What a form saves when a line is posted as f says: the lines that differ from
\* the database (has_changed), those marked for removal excepted.
Changed(f, removed) ==
  [l \in Lines |-> IF f[l] # rows[l] /\ l \notin removed THEN f[l] ELSE NoLine]

\* The forms are valid: the document still exists, and each line of the page that
\* is not marked for removal.
Valid(r, removed) == target[r] \in headers /\ Held(page[r]) \ removed \subseteq Held(rows)

\* The page is posted and its forms are valid, with the supplier shown or another.
\* One line has been retyped, and perhaps removed after that, or a new one added;
\* the others are posted as shown.  A removed line that is already gone is skipped.
Post(r) ==
  /\ pc[r] = "page"
  /\ \/ \E l \in Held(page[r]), row \in Rows, remove \in BOOLEAN :
          LET f == [page[r] EXCEPT ![l] = row]
              removed == IF remove THEN {l} ELSE {}
          IN
          /\ Valid(r, removed)
          /\ Held(f) \ removed # {}
          /\ removes' = [removes EXCEPT ![r] =
               [k \in Lines |-> IF k \in removed \cap Held(rows) THEN f[k] ELSE NoLine]]
          /\ writes' = [writes EXCEPT ![r] = Changed(f, removed)]
          /\ UNCHANGED adds
     \/ \E row \in Rows :
          /\ Valid(r, {})
          /\ adds' = [adds EXCEPT ![r] = row]
          /\ writes' = [writes EXCEPT ![r] = Changed(page[r], {})]
          /\ UNCHANGED removes
  /\ \E s \in Choices(target[r]) : given' = [given EXCEPT ![r] = s]
  /\ page' = [page EXCEPT ![r] = Empty]
  /\ pc' = [pc EXCEPT ![r] = "valid"]
  /\ UNCHANGED <<documents, stock, links, removals, deleting, locks, target, reversal>>

\* What a request held is gone, and it is answered.
Finish(r) ==
  /\ pc' = [pc EXCEPT ![r] = "answered"]
  /\ headerLock' = [d \in Deliveries |-> IF headerLock[d] = r THEN Nobody ELSE headerLock[d]]
  /\ lineLock' = [l \in Lines |-> IF lineLock[l] = r THEN Nobody ELSE lineLock[l]]
  /\ page' = [e \in Editors |-> IF e = r THEN Empty ELSE page[e]]
  /\ writes' = [e \in Editors |-> IF e = r THEN Empty ELSE writes[e]]
  /\ adds' = [e \in Editors |-> IF e = r THEN NoLine ELSE adds[e]]
  /\ given' = [e \in Editors |-> IF e = r THEN NoSupplier ELSE given[e]]
  /\ removes' = [removes EXCEPT ![r] = Empty]
  /\ reversal' = [e \in Deleters |-> IF e = r THEN NoReversal ELSE reversal[e]]
  /\ UNCHANGED target

\* Otherwise it is shown again, with its errors, to be posted as another request;
\* or it is 404.
Refuse(r) ==
  /\ pc[r] = "page"
  /\ ~Valid(r, {})
  /\ Finish(r)
  /\ UNCHANGED <<documents, stock, links, removals, deleting>>

\* form.save() updates the document's row, its supplier included, or inserts it
\* again when it is gone, and so waits for whoever has it locked.  Others see the
\* row as it was until the transaction commits.
LockHeader(r) ==
  /\ pc[r] = "valid"
  /\ headerLock[target[r]] = Nobody
  /\ headerLock' = [headerLock EXCEPT ![target[r]] = r]
  /\ pc' = [pc EXCEPT ![r] = "saving"]
  /\ UNCHANGED <<documents, stock, links, removals, deleting, lineLock, inputs, reversal>>

\* Fault: a changed line is stored with the difference that stock moves by.
KeepDifference(r) ==
  [l \in Lines |-> IF removes[r][l] # NoLine THEN NoLine
                   ELSE IF writes[r][l] # NoLine
                   THEN [writes[r][l] EXCEPT !.quantity = @ - rows[l].quantity] ELSE rows[l]]

\* The lines after the changes and removals of r.
LinesKept(r) ==
  [l \in Lines |-> IF removes[r][l] # NoLine THEN NoLine
                   ELSE IF writes[r][l] # NoLine THEN writes[r][l] ELSE rows[l]]

\* Fault: a line whose product is swapped moves the new product by the difference.
DifferenceOnNewProduct(r, p) ==
  Units(writes[r], p)
    - SumFunction([l \in {k \in Held(writes[r]) : writes[r][k].item = p} |-> rows[l].quantity])
    - Units(removes[r], p)

\* Net units of p that the saved lines of r gain (DeliveryItems.save compares
\* with the row it finds) and the removed ones give back.
Gain(r, p) ==
  Units(writes[r], p)
    - Units([l \in Lines |-> IF writes[r][l] = NoLine THEN NoLine ELSE rows[l]], p)
    - Units(removes[r], p)

\* Fault: the link goes with the line, whatever else the supplier has delivered.
RetractAnyway(gone, kept) == gone

\* Links to retract when the lines of gone are removed and kept remain.
Retract(gone, kept) == gone \ kept

\* The lines are saved: changed ones, removed ones, then a new one.  A changed
\* line that is gone raises.  Only a delivery is linked and leaves removals, and
\* only when the document is not known to be being deleted as a whole.  What the
\* lines see is the supplier the document has just been given.
CommitEdit(r) ==
  /\ pc[r] = "saving"
  /\ \A l \in Held(writes[r]) \cup Held(removes[r]) : lineLock[l] = Nobody
  /\ Held(writes[r]) \subseteq Held(rows)
  /\ supplier' = [supplier EXCEPT ![target[r]] = given[r]]
  /\ \E new \in SUBSET (LinesOf(target[r]) \ born) :
       /\ Cardinality(new) = IF adds[r] = NoLine THEN 0 ELSE 1
       /\ rows' = [l \in Lines |-> IF l \in new THEN adds[r] ELSE LinesKept(r)[l]]
       /\ born' = born \cup new
       /\ stock' = [p \in Products |->
            stock[p] + Sign(KindOf[target[r]]) *
              (Gain(r, p) + IF new # {} /\ adds[r].item = p THEN adds[r].quantity ELSE 0)]
       /\ links' =
            (IF target[r] \in deleting THEN links
             ELSE links \ Retract(Delivered(removes[r], supplier'), Delivered(LinesKept(r), supplier')))
            \cup Delivered(writes[r], supplier')
            \cup Delivered([l \in Lines |-> IF l \in new THEN adds[r] ELSE NoLine], supplier')
  /\ headers' = headers \cup {target[r]}
  /\ removals' = removals \cup
       (IF KindOf[target[r]] = "DELIVERY" /\ target[r] \notin deleting THEN Held(removes[r]) ELSE {})
  /\ Finish(r)
  /\ UNCHANGED deleting

-----------------------------------------------------------------------------
(* Deletion of a whole document *)

\* The document is found, its lines are collected, and pre_delete marks it.
Collect(r) ==
  /\ pc[r] = "idle"
  /\ target[r] \in headers
  /\ removes' = [removes EXCEPT ![r] = Of(rows, target[r])]
  /\ deleting' = deleting \cup {target[r]}
  /\ pc' = [pc EXCEPT ![r] = "collected"]
  /\ UNCHANGED <<documents, stock, links, removals, locks, target, page, writes, adds, given,
                 reversal>>

\* DELETE of the lines, which waits for those that are locked.  post_delete then
\* asks for the document: one that is gone is taken for a delivery.
DeleteLines(r) ==
  /\ pc[r] = "collected"
  /\ \A l \in Held(removes[r]) : lineLock[l] = Nobody
  /\ lineLock' = [l \in Lines |-> IF removes[r][l] # NoLine THEN r ELSE lineLock[l]]
  /\ reversal' = [reversal EXCEPT ![r] =
       LET correction == target[r] \in headers \ deleting /\ KindOf[target[r]] = "DELIVERY" IN
       [sign |-> IF target[r] \in headers THEN Sign(KindOf[target[r]]) ELSE 1,
        correction |-> correction,
        supplier |-> IF correction THEN supplier[target[r]] ELSE NoSupplier]]
  /\ pc' = [pc EXCEPT ![r] = "restored"]
  /\ UNCHANGED <<documents, stock, links, removals, deleting, headerLock, inputs>>

\* Fault: the foreign key of a line carries no database constraint.
NoConstraint(r) == TRUE

\* No line that was added meanwhile still points at the document.
NothingLeft(r) == Held(Of(rows, target[r])) \subseteq Held(removes[r])

\* DELETE of the document itself, post_delete unmarks it, COMMIT.
CommitDeletion(r) ==
  /\ pc[r] = "restored"
  /\ headerLock[target[r]] = Nobody
  /\ NothingLeft(r)
  /\ rows' = [l \in Lines |-> IF removes[r][l] # NoLine THEN NoLine ELSE rows[l]]
  /\ headers' = headers \ {target[r]}
  /\ supplier' = [supplier EXCEPT ![target[r]] = NoSupplier]
  /\ stock' = [p \in Products |-> stock[p] - reversal[r].sign * Units(removes[r], p)]
  /\ links' = IF reversal[r].correction
              THEN links \ Retract(
                     Delivered(removes[r], [supplier EXCEPT ![target[r]] = reversal[r].supplier]),
                     Delivered(rows', supplier'))
              ELSE links
  /\ removals' = removals \cup (IF reversal[r].correction THEN Held(removes[r]) ELSE {})
  /\ deleting' = deleting \ {target[r]}
  /\ Finish(r)
  /\ UNCHANGED born

\* A statement raises, a deadlock among them: nothing of the transaction stays,
\* but the mark of pre_delete does.
Fail(r) ==
  /\ pc[r] \notin {"idle", "answered"}
  /\ Finish(r)
  /\ UNCHANGED <<documents, stock, links, removals, deleting>>

Next ==
  \/ \E d \in Deliveries : Add(d)
  \/ \E r \in Editors : Open(r) \/ Post(r) \/ Refuse(r) \/ LockHeader(r) \/ CommitEdit(r)
  \/ \E r \in Deleters : Collect(r) \/ DeleteLines(r) \/ CommitDeletion(r)
  \/ \E r \in Requests : Fail(r)

Spec == Init /\ [][Next]_vars

-----------------------------------------------------------------------------
(* Properties *)

\* The variables have their types.
TypeOK ==
  /\ headers \subseteq Deliveries /\ born \subseteq Deliveries \cup Lines
  /\ supplier \in [Deliveries -> Suppliers \cup {NoSupplier}]
  /\ rows \in [Lines -> Rows \cup {NoLine}]
  /\ stock \in [Products -> Int]
  /\ removals \subseteq born /\ deleting \subseteq born
  /\ headerLock \in [Deliveries -> Requests \cup {Nobody}]
  /\ lineLock \in [Lines -> Requests \cup {Nobody}]
  /\ pc \in [Requests -> {"idle", "page", "valid", "saving", "collected", "restored", "answered"}]
  /\ target \in [Requests -> Deliveries]
  /\ page \in [Editors -> [Lines -> Rows \cup {NoLine}]]
  /\ writes \in [Editors -> [Lines -> Rows \cup {NoLine}]]
  /\ removes \in [Requests -> [Lines -> Rows \cup {NoLine}]]
  /\ adds \in [Editors -> Rows \cup {NoLine}]
  /\ given \in [Editors -> Suppliers \cup {NoSupplier}]
  /\ reversal \in [Deleters -> [sign : {-1, 1}, correction : BOOLEAN,
                                 supplier : Suppliers \cup {NoSupplier}]]

\* What the lines in the database say was moved of p.
Booked(p) ==
  Units([l \in Lines |-> IF Sign(KindOf[DeliveryOf[l]]) = 1 THEN rows[l] ELSE NoLine], p)
    - Units([l \in Lines |-> IF Sign(KindOf[DeliveryOf[l]]) = 1 THEN NoLine ELSE rows[l]], p)

\* r removes a line that is not, or no longer, what r takes it to be.
Stale(r) == \E l \in Held(removes[r]) : removes[r][l] # rows[l]

\* Stock follows the lines: whatever edits and deletions of a document overlap,
\* a transaction moves the stock of every product by exactly what it changes in
\* the lines, unless it removes a line of which it has a stale picture
\* (DeliveryItems.save, _restore_stock_on_delete).
StockFollowsLines ==
  [][(\A r \in Requests : pc'[r] # pc[r] => ~Stale(r)) =>
       \A p \in Products : stock'[p] - stock[p] = Booked(p)' - Booked(p)]_vars

\* The lines whose content a step changes or adds.
Saved == [l \in Lines |-> IF rows'[l] # rows[l] THEN rows'[l] ELSE NoLine]

\* No step retracts the link of a product with a supplier who, by some line in the
\* books, has delivered it: removals of other lines of the product, by edits that
\* are concurrent, stale or bring another supplier included, never do.  A line that
\* is added or changed is linked (DeliveryItems.save, _restore_stock_on_delete).
LinkedWhenDelivered ==
  [][/\ links \cap Delivered(rows', supplier') \subseteq links'
     /\ Delivered(Saved, supplier') \subseteq links']_vars

\* No line is left without its document, though a deletion collects the lines
\* before its transaction and edits go on adding some.
NoLineAlone == \A l \in Held(rows) : DeliveryOf[l] \in headers

\* "If a delivery item is removed, undo whatever effect it had on stock": stock
\* is what the lines in the database say (_restore_stock_on_delete).
StockMatchesLines == \A p \in Products : stock[p] = Opening[p] + Booked(p)
=============================================================================
