------------------------------- MODULE Drafts -------------------------------
(***************************************************************************)
(* The parallel drafts ("tabs") of the sale and the delivery screens:       *)
(* sales/tab_state.py and deliveries/tab_state.py, the views that use them, *)
(* and the session they live in.  A request loads the whole session at its  *)
(* first access and, when it has modified it, writes the whole session back *)
(* at its end: the last one to finish wins.  Several windows of one user    *)
(* and fire-and-forget autosaves overlap.                                   *)
(* Named tells the screens apart: the delivery pages name their tab in      *)
(* every request (draft_tab, tab), the sale pages leave it to the session.  *)
(***************************************************************************)
EXTENDS Naturals, FiniteSets

CONSTANTS
    Tabs,         \* TAB_IDS, an interval 1..n
    Windows,      \* browser windows of one session
    Carts,        \* what is being rung up or delivered
    Kinds,        \* operation types: delivery, write_off, scrap; or sale
    KindOf,       \* the operation type a cart is meant for
    Named,        \* pages name their tab (deliveries) or not (sales)
    Empty,        \* no draft
    Bare,         \* a draft without any product row
    MaxInFlight,  \* bound: requests under way at once
    MaxRequests   \* bound: requests the windows send by themselves

DraftAssumptions ==
    /\ Tabs \subseteq Nat \ {0} /\ Tabs # {}
    /\ KindOf \in [Carts -> Kinds]
    /\ Empty \notin Carts /\ Bare \notin Carts /\ Empty # Bare
    /\ MaxRequests \in Nat

VARIABLES
    session,   \* the stored session: active tab, draft of each tab, last change
    page,      \* what each window shows: its tab, its operation type, its cart
    request,   \* the requests under way, one navigation and one autosave a window
    sent,      \* how many requests the windows have sent (bounded)
    home,      \* history: the tab a cart was begun on, 0 before
    done,      \* history: carts whose document has been saved
    tangled    \* history: carts something else still held when they were completed, or
               \* that the page showing them posted again before it was replaced

vars == <<session, page, request, sent, home, done, tangled>>

-----------------------------------------------------------------------------
(* Helpers *)

Session == [active : Tabs, draft : [Tabs -> Carts \cup {Empty, Bare}], change : [Tabs -> BOOLEAN]]
\* "details": the page of the saved document, which belongs to no tab.
Page == [tab : Tabs, kind : Kinds \cup {"details"}, cart : Carts \cup {Empty}]
Slots == Windows \X {"navigation", "autosave"}
Ops == {"get", "complete", "switch", "cancel", "autosave"}

\* A request under way: what it asks for and, once loaded, its copy of the session.
None == [op |-> "none"]
Sent(op, p, to) == [op |-> op, page |-> p, to |-> to, loaded |-> FALSE]
WithSession(q) == [op |-> q.op, page |-> q.page, to |-> q.to, loaded |-> TRUE, session |-> session]
InFlight == {k \in Slots : request[k] # None}
Free(k) ==
    /\ request[k] = None
    /\ Cardinality(InFlight) < MaxInFlight
    /\ sent < MaxRequests
Navigation(w) == <<w, "navigation">>

SetDraft(s, t, d) == [s EXCEPT !.draft[t] = d]
\* Fault: the draft is left where it was.
LeaveDraft(s, t) == s
ClearDraft(s, t) == [s EXCEPT !.draft[t] = Empty]
HasItems(d) == d \in Carts
Lowest(S) == CHOOSE t \in S : \A u \in S : t <= u

\* Fault: the delivery screens go by the session's active tab as well.
ActiveTab(q, s) == s.active
\* The draft a request is about: the tab its page names, or the active one.
TabOf(q, s) == IF Named THEN q.page.tab ELSE s.active

\* resolve_tab_for_page: stay on a tab that is free or of the same kind, else
\* the first tab of the kind, else the first free one, else stay after all.
Resolve(s, kind) ==
    LET ofKind(t) == HasItems(s.draft[t]) /\ KindOf[s.draft[t]] = kind
        same == {t \in Tabs : ofKind(t)}
        free == {t \in Tabs : ~ HasItems(s.draft[t])}
    IN  CASE ~ HasItems(s.draft[s.active]) \/ ofKind(s.active) -> s.active
          [] same # {} -> Lowest(same)
          [] same = {} /\ free # {} -> Lowest(free)
          [] OTHER -> s.active

\* deliveries_add, GET: the resolved tab becomes active; its draft is shown
\* again if it is of this kind.
DeliveryPage(s, kind) ==
    LET t == Resolve(s, kind)
        d == s.draft[t]
    IN  [session |-> [s EXCEPT !.active = t],
         page |-> [tab |-> t, kind |-> kind,
                   cart |-> IF HasItems(d) /\ KindOf[d] = kind THEN d ELSE Empty]]

\* sales_add, GET: the active tab's draft; one with ghost rows only is dropped.
SalePage(s, kind) ==
    LET d == s.draft[s.active]
    IN  [session |-> IF d = Bare THEN ClearDraft(s, s.active) ELSE s,
         page |-> [tab |-> s.active, kind |-> kind, cart |-> IF HasItems(d) THEN d ELSE Empty]]

Shown(s, kind) ==
    CASE kind = "details" ->
           [session |-> s, page |-> [tab |-> s.active, kind |-> kind, cart |-> Empty]]
      [] kind # "details" /\ Named -> DeliveryPage(s, kind)
      [] OTHER -> SalePage(s, kind)

\* switch_delivery_tab goes to the screen of the tab's draft if there is one.
KindAfterSwitch(s, q) ==
    LET d == s.draft[q.to] IN IF HasItems(d) THEN KindOf[d] ELSE q.page.kind

-----------------------------------------------------------------------------
TypeOK ==
    /\ session \in Session
    /\ page \in [Windows -> Page]
    /\ \A k \in Slots :
         \/ request[k] = None
         \/ /\ request[k].op \in Ops
            /\ request[k].page \in Page
            /\ request[k].to \in Tabs
            /\ request[k].loaded => request[k].session \in Session
    /\ sent \in 0..MaxRequests
    /\ home \in [Carts -> Tabs \cup {0}]
    /\ done \subseteq Carts /\ tangled \subseteq done

Init ==
    /\ session = [active |-> Lowest(Tabs), draft |-> [t \in Tabs |-> Empty],
                  change |-> [t \in Tabs |-> FALSE]]
    /\ \E kind \in Kinds :
         page = [w \in Windows |-> [tab |-> Lowest(Tabs), kind |-> kind, cart |-> Empty]]
    /\ request = [k \in Slots |-> None]
    /\ sent = 0
    /\ home = [c \in Carts |-> 0]
    /\ done = {}
    /\ tangled = {}

-----------------------------------------------------------------------------
(* The browser *)

\* A product is scanned or added on a page whose grid is empty.
Start(w, c) ==
    /\ home[c] = 0
    /\ page[w].cart = Empty /\ page[w].kind = KindOf[c]
    /\ page' = [page EXCEPT ![w].cart = c]
    /\ home' = [home EXCEPT ![c] = page[w].tab]
    /\ UNCHANGED <<session, request, sent, done, tangled>>

\* Save and print, switch, Cancel, or a page opened from the menu.  It is sent when
\* it is loaded: what the page does in between it could have done before sending.
Navigate(w, op, to, kind) ==
    LET k == Navigation(w) IN
    /\ Free(k)
    /\ op \in {"get", "complete", "switch", "cancel"}
    /\ op = "complete" => page[w].cart # Empty
    /\ op \in {"complete", "cancel"} => kind = page[w].kind /\ to = page[w].tab
    /\ op = "get" => to = page[w].tab
    /\ op = "switch" => kind = page[w].kind /\ to # page[w].tab
    /\ request' = [request EXCEPT ![k] = WithSession(Sent(op, [page[w] EXCEPT !.kind = kind], to))]
    /\ sent' = sent + 1
    /\ UNCHANGED <<session, page, home, done, tangled>>

\* The page posts its rows in the background and does not wait: on a scan, on an
\* edit, or every 5 seconds until it is answered.  It goes on doing so until the
\* next page replaces it, also after the document it shows has been saved.
Autosave(w) ==
    /\ Free(<<w, "autosave">>)
    /\ page[w].kind \in Kinds
    /\ request' = [request EXCEPT ![<<w, "autosave">>] = Sent("autosave", page[w], page[w].tab)]
    /\ sent' = sent + 1
    /\ tangled' = tangled \cup ({page[w].cart} \cap done)
    /\ UNCHANGED <<session, page, home, done>>

-----------------------------------------------------------------------------
(* The server *)

\* The first access to request.session reads the stored one: an autosave, or
\* the page loaded after a redirect.
Load(k) ==
    LET q == request[k] IN
    /\ q # None /\ ~ q.loaded
    /\ request' = [request EXCEPT ![k] = WithSession(q)]
    /\ UNCHANGED <<session, page, sent, home, done, tangled>>

Loaded(k, op) == request[k] # None /\ request[k].op = op /\ request[k].loaded

\* The end of a request: the response takes the window to its next request.
Answer(k, s, next) ==
    /\ session' = s
    /\ request' = [request EXCEPT ![k] = next]
    /\ UNCHANGED sent
GoOn(q, kind) == Sent("get", [q.page EXCEPT !.kind = kind], q.page.tab)

\* A page is rendered; the session is written only when it was modified.
AnswerGet(k) ==
    LET q == request[k]
        shown == Shown(q.session, q.page.kind)
    IN  /\ Loaded(k, "get")
        /\ Answer(k, IF shown.session = q.session THEN session ELSE shown.session, None)
        /\ page' = [page EXCEPT ![k[1]] = shown.page]
        /\ UNCHANGED <<home, done, tangled>>

\* sales_draft_save, delivery_draft_save.
AnswerAutosave(k) ==
    LET q == request[k]
        t == TabOf(q, q.session)
        kept == IF q.page.cart = Empty THEN Bare ELSE q.page.cart
    IN  /\ Loaded(k, "autosave")
        /\ Answer(k, [SetDraft(q.session, t, kept) EXCEPT !.change[t] = FALSE], None)
        /\ UNCHANGED <<page, home, done, tangled>>

\* switch_sale_tab, switch_delivery_tab, and the page the browser loads next.
AnswerSwitch(k) ==
    LET q == request[k] IN
    /\ Loaded(k, "switch")
    /\ Answer(k, [q.session EXCEPT !.active = q.to], GoOn(q, KindAfterSwitch(q.session, q)))
    /\ UNCHANGED <<page, home, done, tangled>>

\* cancel_sale, cancel_delivery_tab.
AnswerCancel(k) ==
    LET q == request[k]
        t == TabOf(q, q.session)
    IN  /\ Loaded(k, "cancel")
        /\ Answer(k, [ClearDraft(q.session, t) EXCEPT !.active = t], GoOn(q, q.page.kind))
        /\ UNCHANGED <<page, home, done, tangled>>

\* What else holds a cart at the moment it is completed: another request under
\* way (an old copy of the session), another window, another tab.
HeldElsewhere(k, c, t) ==
    \/ InFlight # {k}
    \/ \E w \in Windows \ {k[1]} : page[w].cart = c
    \/ \E u \in Tabs \ {t} : request[k].session.draft[u] = c

\* The document is saved, its draft is dropped; a sale leaves its change, if
\* there is any, on screen.  Sales and deliveries begin the next one, the other
\* documents are shown.
AnswerComplete(k, change) ==
    LET q == request[k]
        t == TabOf(q, q.session)
        c == q.page.cart
        s == [ClearDraft(q.session, t) EXCEPT !.change[t] = @ \/ (change /\ ~ Named)]
        next == IF q.page.kind \in {"sale", "delivery"} THEN q.page.kind ELSE "details"
    IN  /\ Loaded(k, "complete")
        /\ Answer(k, s, GoOn(q, next))
        /\ done' = done \cup {c}
        /\ tangled' = IF HeldElsewhere(k, c, t) THEN tangled \cup {c} ELSE tangled
        /\ UNCHANGED <<page, home>>

\* It is refused or fails: the draft is kept and the same page shown again.
AnswerRefuse(k) ==
    LET q == request[k]
        t == TabOf(q, q.session)
    IN  /\ Loaded(k, "complete")
        /\ Answer(k, SetDraft(q.session, t, q.page.cart), None)
        /\ page' = [page EXCEPT ![k[1]] = [q.page EXCEPT !.tab = t]]
        /\ UNCHANGED <<home, done, tangled>>

Next ==
    \/ \E w \in Windows :
         \/ \E c \in Carts : Start(w, c)
         \/ \E op \in Ops, to \in Tabs, kind \in Kinds : Navigate(w, op, to, kind)
         \/ Autosave(w)
    \/ \E k \in Slots :
         \/ Load(k) \/ AnswerGet(k) \/ AnswerAutosave(k) \/ AnswerSwitch(k) \/ AnswerCancel(k)
         \/ AnswerRefuse(k)
         \/ \E change \in BOOLEAN : AnswerComplete(k, change)

Spec == Init /\ [][Next]_vars

-----------------------------------------------------------------------------
(* Correctness *)

\* A delivery's POST "names its tab explicitly so a second browser window can't
\* redirect the save to the wrong draft": whatever overlaps and whichever copy
\* of the session wins, a delivery's draft is only ever on the tab it began on.
DraftsStayHome ==
    Named => \A t \in Tabs : session.draft[t] \in Carts => home[session.draft[t]] = t

\* A document that has been saved does not come back as a draft to be saved
\* again, unless something else held its cart at that moment or its own page,
\* still on screen, posted the rows again before the next page replaced it.
DoneIsGone == \A t \in Tabs : session.draft[t] \in done => session.draft[t] \in tangled
=============================================================================
