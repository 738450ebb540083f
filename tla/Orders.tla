------------------------------- MODULE Orders -------------------------------
(***************************************************************************)
(* Orders to suppliers (src/STORA/orders): order_new and order_ai_draft_all *)
(* create them under numbers drawn from OrderCounter, order_edit deletes    *)
(* and recreates the lines, order_confirm and order_discard end the life of *)
(* a draft.  Every request is one handler run by a user; requests overlap.  *)
(* PostgreSQL runs READ COMMITTED: DELETE waits for row locks and then      *)
(* skips rows that went meanwhile, foreign keys are checked at COMMIT.      *)
(***************************************************************************)
EXTENDS Naturals, FiniteSets

CONSTANTS
    Requests,      \* the requests users send, each handled once
    Suppliers,
    Products,
    Ranked,        \* Ranked[s]: products of s with their ProductSupplier.position
    Orderable,     \* products that are neither recipes nor archived
    Nobody         \* no request

OrderIds == Requests \X Suppliers   \* an order is named by who created it, for whom
Positions == {1, 2, 3}

OrderAssumptions ==
    /\ Nobody \notin Requests
    /\ Ranked \in [Suppliers -> SUBSET (Products \X Positions)]
    /\ Orderable \subseteq Products

VARIABLES
    next,       \* OrderCounter.next_number, committed
    counter,    \* the request whose transaction holds the counter's row
    status,     \* of each order: NONE, DRAFT, CONFIRMED or GONE (deleted)
    origin,     \* who made it: "user" or "ai"
    number,     \* order_number; 0 before the order is saved
    lines,      \* rows of OrderItems: <<order, product, request that wrote it>>
    asked,      \* what each request is about (see Idle)
    step        \* where each request stands

vars == <<next, counter, status, origin, number, lines, asked, step>>

-----------------------------------------------------------------------------
(* Helpers *)

\* _candidate_products: what a supplier carries at one of the positions.
Candidates(s, positions) ==
    {p \in Orderable : \E i \in positions : <<p, i>> \in Ranked[s]}

LinesOf(o) == {l \in lines : l[1] = o}
ProductsOf(rows) == {l[2] : l \in rows}
Exists(o) == status[o] \in {"DRAFT", "CONFIRMED"}

\* asked[r]: the order, the products entered, the rows an edit or a discard
\* is about to delete, and the suppliers "AI Draft All" still has to visit.
Idle == [order |-> <<>>, products |-> {}, rows |-> {}, suppliers |-> {}]
Begin(r, s, o, products, rows, suppliers) ==
    /\ step' = [step EXCEPT ![r] = s]
    /\ asked' = [asked EXCEPT ![r] = [order |-> o, products |-> products,
                                      rows |-> rows, suppliers |-> suppliers]]
GoTo(r, s) == step' = [step EXCEPT ![r] = s]

\* The request in whose transaction a row is being deleted, if any: others
\* that want to delete it wait.
Held(row) == \E r \in Requests : step[r] \in {"replacing", "discarding"} /\ row \in asked[r].rows

-----------------------------------------------------------------------------
TypeOK ==
    /\ next \in Nat \ {0}
    /\ counter \in Requests \cup {Nobody}
    /\ status \in [OrderIds -> {"NONE", "DRAFT", "CONFIRMED", "GONE"}]
    /\ origin \in [OrderIds -> {"user", "ai"}]
    /\ number \in [OrderIds -> Nat]
    /\ lines \subseteq OrderIds \X Products \X Requests
    /\ step \in [Requests -> {"idle", "new", "saving", "drafting", "draftsaving", "confirm",
                              "edit", "editing", "replacing",
                              "discard", "deleting", "discarding", "done"}]

Init ==
    /\ next = 1
    /\ counter = Nobody
    /\ status = [o \in OrderIds |-> "NONE"]
    /\ origin = [o \in OrderIds |-> "user"]
    /\ number = [o \in OrderIds |-> 0]
    /\ lines = {}
    /\ asked = [r \in Requests |-> Idle]
    /\ step = [r \in Requests |-> "idle"]

-----------------------------------------------------------------------------
(* Creating orders *)

\* Fault: the counter is read without its lock.
DrawableAnyway == TRUE
\* OrderCounter.next draws with SELECT ... FOR UPDATE: it waits for the
\* transaction that holds the row.
Drawable == counter = Nobody

\* _save_items_from_post: the products with a quantity > 0, any of the
\* catalogue; with none of them the form is shown again with an error.
Entered == (SUBSET Products) \ {{}}

\* order_new POST with a valid form.
New(r, s, products) ==
    /\ step[r] = "idle"
    /\ products \in Entered
    /\ Begin(r, "new", <<r, s>>, products, {}, {})
    /\ UNCHANGED <<next, counter, status, origin, number, lines>>

\* OrderAttributes.save: the number is drawn inside the order's own
\* transaction, which keeps the counter's row until it ends.
Draw(r) ==
    /\ step[r] \in {"new", "drafting"}
    /\ asked[r].order # <<>>
    /\ Drawable
    /\ counter' = r
    /\ number' = [number EXCEPT ![asked[r].order] = next]
    /\ GoTo(r, IF step[r] = "new" THEN "saving" ELSE "draftsaving")
    /\ UNCHANGED <<next, status, origin, lines, asked>>

Unlock(r) == counter' = IF counter = r THEN Nobody ELSE counter

\* order_new commits: header, positions and lines, CONFIRMED by default.
Create(r) ==
    LET o == asked[r].order IN
    /\ step[r] = "saving"
    /\ next' = number[o] + 1
    /\ status' = [status EXCEPT ![o] = "CONFIRMED"]
    /\ lines' = lines \cup {<<o, p, r>> : p \in asked[r].products}
    /\ GoTo(r, "done")
    /\ Unlock(r)
    /\ UNCHANGED <<origin, number, asked>>

\* Anything raised in the atomic block: rolled back, the form is shown again.
FailNew(r) ==
    /\ step[r] = "saving"
    /\ number' = [number EXCEPT ![asked[r].order] = 0]
    /\ GoTo(r, "done")
    /\ Unlock(r)
    /\ UNCHANGED <<next, status, origin, lines, asked>>

\* order_ai_draft_all: visits every supplier, each in a transaction of its own.
DraftAll(r) ==
    /\ step[r] = "idle"
    /\ Begin(r, "drafting", <<>>, {}, {}, Suppliers)
    /\ UNCHANGED <<next, counter, status, origin, number, lines>>

\* One supplier: no candidates, a failed AI call or nothing suggested skip it;
\* otherwise the products Claude suggests, candidates only, are to be ordered.
Suggest(r, s, products) ==
    /\ step[r] = "drafting" /\ asked[r].order = <<>>
    /\ s \in asked[r].suppliers
    /\ products \subseteq Candidates(s, Positions)
    /\ Begin(r, "drafting", IF products = {} THEN <<>> ELSE <<r, s>>,
             products, {}, asked[r].suppliers \ {s})
    /\ UNCHANGED <<next, counter, status, origin, number, lines>>

\* The draft's transaction commits, or fails and is skipped; on to the next.
SaveDraft(r) ==
    LET o == asked[r].order IN
    /\ step[r] = "draftsaving"
    /\ next' = number[o] + 1
    /\ status' = [status EXCEPT ![o] = "DRAFT"]
    /\ origin' = [origin EXCEPT ![o] = "ai"]
    /\ lines' = lines \cup {<<o, p, r>> : p \in asked[r].products}
    /\ Begin(r, "drafting", <<>>, {}, {}, asked[r].suppliers)
    /\ Unlock(r)
    /\ UNCHANGED number

SkipDraft(r) ==
    /\ step[r] = "draftsaving"
    /\ number' = [number EXCEPT ![asked[r].order] = 0]
    /\ Begin(r, "drafting", <<>>, {}, {}, asked[r].suppliers)
    /\ Unlock(r)
    /\ UNCHANGED <<next, status, origin, lines>>

\* The loop ends, or breaks off when the AI is not configured.
EndDrafts(r) ==
    /\ step[r] = "drafting" /\ asked[r].order = <<>>
    /\ GoTo(r, "done")
    /\ UNCHANGED <<next, counter, status, origin, number, lines, asked>>

-----------------------------------------------------------------------------
(* Editing an order *)

\* order_edit POST: the order is found, its positions are read.
Edit(r, o, products) ==
    /\ step[r] = "idle"
    /\ Exists(o)
    /\ products \in Entered
    /\ Begin(r, "edit", o, products, {}, {})
    /\ UNCHANGED <<next, counter, status, origin, number, lines>>

\* The DELETE of order.items.all(), or the one order.delete() begins with,
\* starts: it sees the rows committed by now ...
Look(r) ==
    /\ step[r] \in {"edit", "discard"}
    /\ asked' = [asked EXCEPT ![r].rows = LinesOf(asked[r].order)]
    /\ GoTo(r, IF step[r] = "edit" THEN "editing" ELSE "deleting")
    /\ UNCHANGED <<next, counter, status, origin, number, lines>>

\* ... waits for those that others are deleting, and takes what is left.
LockLines(r) ==
    /\ step[r] \in {"editing", "deleting"}
    /\ ~ \E row \in asked[r].rows : Held(row)
    /\ asked' = [asked EXCEPT ![r].rows = @ \cap lines]
    /\ GoTo(r, IF step[r] = "editing" THEN "replacing" ELSE "discarding")
    /\ UNCHANGED <<next, counter, status, origin, number, lines>>

\* Fault: nothing stops the new lines.
ClashesNever(r) == FALSE
\* unique_order_product: a line of the same product that this edit has not
\* deleted; and the foreign key of the new lines, checked at COMMIT.
Clashes(r) ==
    LET o == asked[r].order IN
    \/ ~ Exists(o)
    \/ asked[r].products \cap ProductsOf(LinesOf(o) \ asked[r].rows) # {}

Replace(r) ==
    LET o == asked[r].order IN
    /\ step[r] = "replacing"
    /\ ~ Clashes(r)
    /\ lines' = (lines \ asked[r].rows) \cup {<<o, p, r>> : p \in asked[r].products}
    /\ GoTo(r, "done")
    /\ UNCHANGED <<next, counter, status, origin, number, asked>>

\* IntegrityError, or anything else: rolled back, the page is shown again.
FailEdit(r) ==
    /\ step[r] = "replacing"
    /\ GoTo(r, "done")
    /\ UNCHANGED <<next, counter, status, origin, number, lines, asked>>

-----------------------------------------------------------------------------
(* Confirming and discarding a draft *)

\* Fault: the filter on the status is dropped.
IsThere(o) == Exists(o)
\* get_object_or_404(..., status=DRAFT), without a lock.
IsDraft(o) == status[o] = "DRAFT"

Find(r, s, o) ==
    /\ step[r] = "idle"
    /\ s \in {"confirm", "discard"}
    /\ IsDraft(o)
    /\ Begin(r, s, o, {}, {}, {})
    /\ UNCHANGED <<next, counter, status, origin, number, lines>>

\* order_confirm: save(update_fields=['status']) raises when the row is gone.
Confirm(r) ==
    LET o == asked[r].order IN
    /\ step[r] = "confirm"
    /\ status' = [status EXCEPT ![o] = IF Exists(o) THEN "CONFIRMED" ELSE @]
    /\ GoTo(r, "done")
    /\ UNCHANGED <<next, counter, origin, number, lines, asked>>

\* order_discard: order.delete() deletes the lines it can see, then the order;
\* at COMMIT the foreign key refuses if lines written meanwhile are left.
Discard(r) ==
    LET o == asked[r].order IN
    /\ step[r] = "discarding"
    /\ GoTo(r, "done")
    /\ IF LinesOf(o) \subseteq asked[r].rows /\ Exists(o)
         THEN /\ status' = [status EXCEPT ![o] = "GONE"]
              /\ lines' = lines \ asked[r].rows
         ELSE UNCHANGED <<status, lines>>
    /\ UNCHANGED <<next, counter, origin, number, asked>>

Next ==
    \E r \in Requests :
        \/ \E s \in Suppliers, products \in SUBSET Products :
             New(r, s, products) \/ Suggest(r, s, products)
        \/ Draw(r) \/ Create(r) \/ FailNew(r)
        \/ DraftAll(r) \/ SaveDraft(r) \/ SkipDraft(r) \/ EndDrafts(r)
        \/ \E o \in OrderIds, products \in SUBSET Products : Edit(r, o, products)
        \/ Look(r) \/ LockLines(r) \/ Replace(r) \/ FailEdit(r)
        \/ \E o \in OrderIds, s \in {"confirm", "discard"} : Find(r, s, o)
        \/ Confirm(r) \/ Discard(r)

Spec == Init /\ [][Next]_vars

-----------------------------------------------------------------------------
(* Correctness *)

\* "Two orders saved at the same moment can never draw the same number"
\* (OrderCounter): over all orders ever saved, discarded ones included, the
\* numbers are 1, 2, 3 ... with neither a repetition nor a gap, whatever fails.
Saved == {o \in OrderIds : status[o] # "NONE"}
OrderNumbers ==
    /\ \A o, p \in Saved : number[o] = number[p] => o = p
    /\ {number[o] : o \in Saved} = 1..(next - 1)

\* order_discard "can't be pointed at a real, human-built order": however
\* confirmations, discards and edits overlap, only the AI's orders are deleted.
HandMadeStay == \A o \in OrderIds : status[o] = "GONE" => origin[o] = "ai"

\* Edits that delete and recreate the lines while others edit or discard leave
\* no order empty, no line without its order and no product twice on an order.
OrdersHaveLines ==
    /\ \A o \in OrderIds : Exists(o) <=> LinesOf(o) # {}
    /\ \A l, m \in lines : l[1] = m[1] /\ l[2] = m[2] => l = m

-----------------------------------------------------------------------------
(* The invariant that makes them so: inductive, for any requests, suppliers *)
(* and products                                                             *)

Asks == [order : OrderIds \cup {<<>>}, products : SUBSET Products,
         rows : SUBSET (OrderIds \X Products \X Requests), suppliers : SUBSET Suppliers]

Types == TypeOK /\ asked \in [Requests -> Asks]

Creating(r) ==
    \/ step[r] \in {"new", "saving", "draftsaving"}
    \/ step[r] = "drafting" /\ asked[r].order # <<>>
Drawing(r) == step[r] \in {"saving", "draftsaving"}

\* The order a request is about to create is one of its own, not there yet, with
\* at least one product; so is each order "AI Draft All" has still to come to.
Fresh(r) ==
    /\ step[r] = "idle" => \A s \in Suppliers : status[<<r, s>>] = "NONE"
    /\ step[r] \in {"drafting", "draftsaving"} =>
         \A s \in asked[r].suppliers : status[<<r, s>>] = "NONE" /\ asked[r].order # <<r, s>>
    /\ Creating(r) => /\ asked[r].order \in {r} \X Suppliers
                      /\ status[asked[r].order] = "NONE"
                      /\ asked[r].products # {}

\* Between drawing its number and saving the order, a request holds the counter,
\* whose committed value is that number.
Holds(r) == Drawing(r) => counter = r /\ number[asked[r].order] = next

\* The committed counter is past the number of every order saved, and every
\* number below it is some order's.
Below == \A o \in Saved : number[o] \in Nat /\ 1 <= number[o] /\ number[o] < next
Unique == \A o, p \in Saved : number[o] = number[p] => o = p
Full == \A n \in Nat : 1 <= n /\ n < next => \E o \in Saved : number[o] = n

\* What an edit, a confirmation or a discard has found was there, a discard an
\* order of the AI's; the rows it deletes are lines of that order.
Discarding(r) == step[r] \in {"discard", "deleting", "discarding"}
Editing(r) == step[r] \in {"edit", "editing", "replacing"}
Found(r) ==
    /\ Discarding(r) \/ Editing(r) \/ step[r] = "confirm" =>
         asked[r].order \in OrderIds /\ status[asked[r].order] # "NONE"
    /\ Discarding(r) \/ step[r] = "confirm" => origin[asked[r].order] = "ai"
    /\ Editing(r) => asked[r].products # {}
    /\ Discarding(r) \/ Editing(r) => \A l \in asked[r].rows : l[1] = asked[r].order

FromAI == \A o \in OrderIds : status[o] \in {"DRAFT", "GONE"} => origin[o] = "ai"

Whole == \A o \in OrderIds : Exists(o) <=> \E l \in lines : l[1] = o
Once == \A l, m \in lines : l[1] = m[1] /\ l[2] = m[2] => l = m

IInv ==
    /\ Types
    /\ \A r \in Requests : Fresh(r) /\ Holds(r) /\ Found(r)
    /\ Below /\ Unique /\ Full
    /\ FromAI /\ Whole /\ Once
=============================================================================
