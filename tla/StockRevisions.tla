--------------------------- MODULE StockRevisions ---------------------------
(***************************************************************************)
(* Stock counts (revisions/models.py and views.py).  Clerks on several     *)
(* computers count products into the one open revision while the shop goes *)
(* on selling; completing the revision overwrites the stock of every       *)
(* counted product with what was found.  A request first looks whether the *)
(* revision is open and only later, in its own transaction, locks the      *)
(* revision's row and looks again; "Load into Revision" (revision_home)    *)
(* never locks it.                                                         *)
(***************************************************************************)
EXTENDS Integers, FiniteSets, Functions

CONSTANTS
  Products,
  Revisions,   \* primary keys revisions may get
  Clerks,      \* requests of clerks and managers
  Amounts,     \* quantities a clerk may type: whole, negative to take off
  NoRow,       \* a product that is not in a revision
  NoOne,       \* a row that is not locked
  Opening,     \* stock before the first movement
  MaxFound,    \* bound: the largest quantity the found_quantity column holds
  MaxMoved     \* bound: net quantity sold or delivered of a product

ASSUME RevisionsAssumption ==
  /\ IsFiniteSet(Revisions)
  /\ NoOne \notin Clerks
  /\ NoRow \notin Int
  /\ Amounts \subseteq Int
  /\ Opening \in [Products -> Int]
  /\ MaxFound \in Nat /\ MaxMoved \in Nat

VARIABLES
  status,     \* RevisionAttributes.status, "none" before the row is created
  found,      \* found[v][p]: RevisionItems.found_quantity, or NoRow
  before,     \* before[v][p]: quantity_before_complete, NoRow while it is null
  revLock,    \* the request whose transaction has locked the row of a revision
  quantity,   \* committed Product.quantity
  rowLock,    \* the completion that has locked the row of a product
  moved,      \* net movement of the documents posted so far
  req,        \* the request a clerk is waiting for
  counted,    \* completion: the rows of the revision when its loop starts
  replaced    \* completion: the quantities it has overwritten so far

completion == <<counted, replaced>>
vars == <<status, found, before, revLock, quantity, rowLock, moved, req, completion>>

NoRows == [p \in Products |-> NoRow]

Rows(v) == {p \in Products : found[v][p] # NoRow}

\* What a request does (op), to which product of which revision, how much.
Request(op, v, p, n) == [op |-> op, rev |-> v, product |-> p, amount |-> n]

Idle == Request("idle", NoOne, NoOne, 0)

Ask(r, q) == req[r] = Idle /\ req' = [req EXCEPT ![r] = q]

Answer(r) == req' = [req EXCEPT ![r] = Idle]

-----------------------------------------------------------------------------
Init ==
  /\ status = [v \in Revisions |-> "none"]
  /\ found = [v \in Revisions |-> NoRows]
  /\ before = [v \in Revisions |-> NoRows]
  /\ revLock = [v \in Revisions |-> NoOne]
  /\ quantity = Opening
  /\ rowLock = [p \in Products |-> NoOne]
  /\ moved = [p \in Products |-> 0]
  /\ req = [r \in Clerks |-> Idle]
  /\ counted = [r \in Clerks |-> NoRows]
  /\ replaced = [r \in Clerks |-> NoRows]

\* A sale, refund or delivery of p is committed: StockTransactions.
Move(p, n) ==
  /\ rowLock[p] = NoOne
  /\ moved[p] + n \in -MaxMoved..MaxMoved
  /\ quantity' = [quantity EXCEPT ![p] = @ + n]
  /\ moved' = [moved EXCEPT ![p] = @ + n]
  /\ UNCHANGED <<status, found, before, revLock, rowLock, req, completion>>

-----------------------------------------------------------------------------
(* Starting and loading *)

\* revision_start finds no open revision, or joins the one there is.
AskStart(r) ==
  /\ \A v \in Revisions : status[v] # "OPEN"
  /\ Ask(r, Request("start", NoOne, NoOne, 0))
  /\ UNCHANGED <<status, found, before, revLock, quantity, rowLock, moved, completion>>

\* Fault: only the view's own check stands against a second open revision.
CreateUnchecked(r) ==
  /\ req[r].op = "start"
  /\ \E v \in Revisions : status[v] = "none" /\ status' = [status EXCEPT ![v] = "OPEN"]
  /\ Answer(r)
  /\ UNCHANGED <<found, before, revLock, quantity, rowLock, moved, completion>>

\* The row is inserted if the partial unique index allows it.
Create(r) ==
  /\ req[r].op = "start"
  /\ \A v \in Revisions : status[v] # "OPEN"
  /\ \E v \in Revisions : status[v] = "none" /\ status' = [status EXCEPT ![v] = "OPEN"]
  /\ Answer(r)
  /\ UNCHANGED <<found, before, revLock, quantity, rowLock, moved, completion>>

\* IntegrityError: somebody else was faster, the clerk is sent to that revision.
Join(r) ==
  /\ req[r].op = "start"
  /\ \E v \in Revisions : status[v] = "OPEN" /\ revLock[v] = NoOne
  /\ Answer(r)
  /\ UNCHANGED <<status, found, before, revLock, quantity, rowLock, moved, completion>>

\* revision_home?preload= looks for the open revision, or has just started it ...
AskPreload(r, v, p) ==
  /\ status[v] = "OPEN"
  /\ Ask(r, Request("preload", v, p, 0))
  /\ UNCHANGED <<status, found, before, revLock, quantity, rowLock, moved, completion>>

\* ... and gives it a row for the product, found 0, unless it has one.  The new
\* row's foreign key waits for the revision's row, but asks for no status.
Preload(r) ==
  /\ req[r].op = "preload"
  /\ found[req[r].rev][req[r].product] = NoRow => revLock[req[r].rev] = NoOne
  /\ found' = [found EXCEPT ![req[r].rev][req[r].product] = IF @ = NoRow THEN 0 ELSE @]
  /\ Answer(r)
  /\ UNCHANGED <<status, before, revLock, quantity, rowLock, moved, completion>>

-----------------------------------------------------------------------------
(* Counting *)

\* revision_add_item and revision_set_item see the revision open.
AskCount(r, v, p, n) ==
  /\ status[v] = "OPEN"
  /\ \/ Ask(r, Request("add", v, p, n))
     \/ n >= 0 /\ Ask(r, Request("set", v, p, n))
  /\ UNCHANGED <<status, found, before, revLock, quantity, rowLock, moved, completion>>

\* What is found of a product that has a row, or gets one, holding 0.
SoFar(r) == IF found[req[r].rev][req[r].product] = NoRow THEN 0 ELSE found[req[r].rev][req[r].product]

\* The count a request leaves in the row: add_count, set_count.
NewCount(r) == IF req[r].op = "add" THEN SoFar(r) + req[r].amount ELSE req[r].amount

\* Fault: the view's own check is taken for good.
CountUnlocked(r) ==
  /\ req[r].op \in {"add", "set"}
  /\ NewCount(r) \in 0..MaxFound
  /\ found' = [found EXCEPT ![req[r].rev][req[r].product] = NewCount(r)]
  /\ Answer(r)
  /\ UNCHANGED <<status, before, revLock, quantity, rowLock, moved, completion>>

\* Fault: a correction is not compared with what has been counted.
CountBelowZero(r) ==
  /\ req[r].op \in {"add", "set"}
  /\ revLock[req[r].rev] = NoOne
  /\ status[req[r].rev] = "OPEN"
  /\ NewCount(r) <= MaxFound
  /\ found' = [found EXCEPT ![req[r].rev][req[r].product] = NewCount(r)]
  /\ Answer(r)
  /\ UNCHANGED <<status, before, revLock, quantity, rowLock, moved, completion>>

\* The revision's row is locked, still open, and the count is written.
Count(r) ==
  /\ req[r].op \in {"add", "set"}
  /\ revLock[req[r].rev] = NoOne
  /\ status[req[r].rev] = "OPEN"
  /\ NewCount(r) \in 0..MaxFound
  /\ found' = [found EXCEPT ![req[r].rev][req[r].product] = NewCount(r)]
  /\ Answer(r)
  /\ UNCHANGED <<status, before, revLock, quantity, rowLock, moved, completion>>

\* Otherwise nothing is written: the revision is no longer open, the correction
\* takes off more than there is, or the column cannot hold the sum.
RefuseCount(r) ==
  /\ req[r].op \in {"add", "set"}
  /\ revLock[req[r].rev] = NoOne
  /\ status[req[r].rev] # "OPEN" \/ NewCount(r) \notin 0..MaxFound
  /\ Answer(r)
  /\ UNCHANGED <<status, found, before, revLock, quantity, rowLock, moved, completion>>

\* revision_remove_item locks the open revision and deletes the row.
Remove(v, p) ==
  /\ revLock[v] = NoOne
  /\ status[v] = "OPEN"
  /\ found[v][p] # NoRow
  /\ found' = [found EXCEPT ![v][p] = NoRow]
  /\ UNCHANGED <<status, before, revLock, quantity, rowLock, moved, req, completion>>

-----------------------------------------------------------------------------
(* Closing *)

\* revision_cancel: the counted rows stay, stock is not touched.
CancelRevision(v) ==
  /\ revLock[v] = NoOne
  /\ status[v] = "OPEN"
  /\ status' = [status EXCEPT ![v] = "CANCELLED"]
  /\ UNCHANGED <<found, before, revLock, quantity, rowLock, moved, req, completion>>

\* revision_complete locks the open revision and reads its rows.
StartCompletion(r, v) ==
  /\ revLock[v] = NoOne
  /\ status[v] = "OPEN"
  /\ Ask(r, Request("complete", v, NoOne, 0))
  /\ revLock' = [revLock EXCEPT ![v] = r]
  /\ counted' = [counted EXCEPT ![r] = found[v]]
  /\ UNCHANGED <<status, found, before, quantity, rowLock, moved, replaced>>

Pending(r) == {p \in Products : counted[r][p] # NoRow /\ replaced[r][p] = NoRow}

\* Fault: the stock it replaces is the snapshot taken when the count began.
ReplaceFromSnapshot(r, p) ==
  /\ req[r].op = "complete"
  /\ p \in Pending(r)
  /\ rowLock[p] = NoOne
  /\ rowLock' = [rowLock EXCEPT ![p] = r]
  /\ replaced' = [replaced EXCEPT ![r][p] = Opening[p]]
  /\ UNCHANGED <<status, found, before, revLock, quantity, moved, req, counted>>

\* Per row the product is locked, its quantity noted and overwritten.
Replace(r, p) ==
  /\ req[r].op = "complete"
  /\ p \in Pending(r)
  /\ rowLock[p] = NoOne
  /\ rowLock' = [rowLock EXCEPT ![p] = r]
  /\ replaced' = [replaced EXCEPT ![r][p] = quantity[p]]
  /\ UNCHANGED <<status, found, before, revLock, quantity, moved, req, counted>>

\* The locks of a completion are freed and what it had in memory is gone.
EndCompletion(r) ==
  /\ revLock' = [revLock EXCEPT ![req[r].rev] = NoOne]
  /\ rowLock' = [p \in Products |-> IF rowLock[p] = r THEN NoOne ELSE rowLock[p]]
  /\ counted' = [counted EXCEPT ![r] = NoRows]
  /\ replaced' = [replaced EXCEPT ![r] = NoRows]
  /\ Answer(r)

\* The revision is closed and everything becomes visible.
CommitCompletion(r) ==
  /\ req[r].op = "complete"
  /\ Pending(r) = {}
  /\ quantity' = [p \in Products |-> IF counted[r][p] = NoRow THEN quantity[p] ELSE counted[r][p]]
  /\ before' = [before EXCEPT ![req[r].rev] = replaced[r]]
  /\ status' = [status EXCEPT ![req[r].rev] = "COMPLETED"]
  /\ EndCompletion(r)
  /\ UNCHANGED <<found, moved>>

\* It fails, or is the victim of a deadlock with a sale, and is rolled back.
FailCompletion(r) ==
  /\ req[r].op = "complete"
  /\ EndCompletion(r)
  /\ UNCHANGED <<status, found, before, quantity, moved>>

Next ==
  \/ \E p \in Products, n \in {-1, 1} : Move(p, n)
  \/ \E v \in Revisions : CancelRevision(v) \/ \E p \in Products : Remove(v, p)
  \/ \E r \in Clerks :
       \/ AskStart(r) \/ Create(r) \/ Join(r)
       \/ Preload(r) \/ Count(r) \/ RefuseCount(r)
       \/ CommitCompletion(r) \/ FailCompletion(r)
       \/ \E p \in Products : Replace(r, p)
       \/ \E v \in Revisions : StartCompletion(r, v)
       \/ \E v \in Revisions, p \in Products :
            AskPreload(r, v, p) \/ \E n \in Amounts : AskCount(r, v, p, n)

Spec == Init /\ [][Next]_vars

-----------------------------------------------------------------------------
(* Properties *)

Counts == Nat \cup {NoRow}

Requests ==
  [op : {"idle", "start", "preload", "add", "set", "complete"},
   rev : Revisions \cup {NoOne}, product : Products \cup {NoOne}, amount : Int]

\* The variables have their types: in particular nothing is ever found to be
\* there less than zero times, whatever corrections clerks type.
TypeOK ==
  /\ status \in [Revisions -> {"none", "OPEN", "COMPLETED", "CANCELLED"}]
  /\ found \in [Revisions -> [Products -> Counts]]
  /\ before \in [Revisions -> [Products -> Int \cup {NoRow}]]
  /\ revLock \in [Revisions -> Clerks \cup {NoOne}]
  /\ quantity \in [Products -> Int]
  /\ rowLock \in [Products -> Clerks \cup {NoOne}]
  /\ moved \in [Products -> Int]
  /\ req \in [Clerks -> Requests]
  /\ counted \in [Clerks -> [Products -> Counts]]
  /\ replaced \in [Clerks -> [Products -> Int \cup {NoRow}]]

\* At most one revision is open, however many clerks press "Start" at once
\* (only_one_open_revision).
OneOpenRevision ==
  \A v, w \in Revisions : status[v] = "OPEN" /\ status[w] = "OPEN" => v = w

\* "A count made right at that moment would silently write into the now-closed
\* revision's row and never reach Product.quantity": no count does.  A row of
\* a completed revision that a clerk counted anything into was applied.
CountsReachStock ==
  \A v \in Revisions, p \in Products :
    status[v] = "COMPLETED" /\ found[v][p] \notin {NoRow, 0} => before[v][p] # NoRow

\* Stock reconciles with its history: opening stock, what documents moved, and
\* for every row a completion applied the difference it recorded.  This is what
\* "Stock as of date" undoes (reports/services.py), so a count written late, a
\* sale between reading and overwriting a quantity, or a half-rolled-back
\* completion would make that report wrong.
StockMatchesHistory ==
  \A p \in Products :
    quantity[p] = Opening[p] + moved[p] +
      SumFunction([v \in {w \in Revisions : before[w][p] # NoRow} |-> found[v][p] - before[v][p]])

\* No step changes stock behind the books' back: what changes a product's
\* quantity is a document, or a completion that records exactly the quantity it
\* replaces and sets exactly the one that was found (revision_complete).
ChangesAreRecorded ==
  [][\A p \in Products : quantity'[p] # quantity[p] =>
       \/ quantity'[p] - quantity[p] = moved'[p] - moved[p]
       \/ \E v \in Revisions :
            /\ status[v] = "OPEN" /\ status'[v] = "COMPLETED"
            /\ before'[v][p] = quantity[p]
            /\ quantity'[p] = found'[v][p]]_vars

\* A closed revision stays as it was closed: its status never changes again,
\* and nothing anyone had asked for while it was open changes a count in it.
ClosedStaysClosed ==
  [][\A v \in Revisions : status[v] \in {"COMPLETED", "CANCELLED"} =>
       /\ status'[v] = status[v]
       /\ \A p \in Rows(v) : found'[v][p] = found[v][p]
       /\ before'[v] = before[v]]_vars
=============================================================================
