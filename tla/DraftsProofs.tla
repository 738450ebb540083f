---------------------------- MODULE DraftsProofs ----------------------------
(***************************************************************************)
(* Proofs, for any tabs, windows, carts and requests, that the variables of *)
(* Drafts keep their types and that on the delivery screens a draft is only *)
(* ever on the tab it was begun on.  Why: wherever a cart is - the stored   *)
(* session, a request's copy of it, a window, a request's page - it comes   *)
(* with its own tab, so whichever copy wins puts it back there.             *)
(***************************************************************************)
EXTENDS Drafts, TLAPS, WellFoundedInduction

-----------------------------------------------------------------------------
(* The inductive invariant *)

Kept == Carts \cup {Empty, Bare}
Waiting == [op : Ops, page : Page, to : Tabs, loaded : {FALSE}]
Running == [op : Ops, page : Page, to : Tabs, loaded : {TRUE}, session : Session]

Types == TypeOK /\ request \in [Slots -> {None} \cup Waiting \cup Running]

\* What is completed is a cart.
Completes ==
  \A k \in Slots : request[k] # None /\ request[k].op = "complete" =>
    request[k].page.cart # Empty

AtHome(s) == \A t \in Tabs : s.draft[t] \in Carts => home[s.draft[t]] = t
PageAtHome(p) == p.cart \in Carts => home[p.cart] = p.tab

RequestAtHome(q) ==
  q # None => PageAtHome(q.page) /\ (q.loaded => AtHome(q.session))

Home ==
  /\ AtHome(session)
  /\ \A w \in Windows : PageAtHome(page[w])
  /\ \A k \in Slots : RequestAtHome(request[k])

IInv == Types /\ Completes /\ (Named => Home)

-----------------------------------------------------------------------------
(* Sessions and pages *)

LEMMA LeastOne ==
  ASSUME NEW S, S \subseteq Nat, S # {}
  PROVE  Lowest(S) \in S
<1>1. \E t \in S : \A u \in S : ~ (<<u, t>> \in OpToRel(<, Nat))
  BY NatLessThanWellFounded, WFMin
<1>2. PICK t \in S : \A u \in S : ~ (<<u, t>> \in OpToRel(<, Nat))  BY <1>1
<1>3. \A u \in S : ~ (u < t)  BY <1>2 DEF OpToRel
<1>4. \A u \in S : t <= u  BY <1>3
<1> QED  BY <1>4 DEF Lowest

LEMMA SetDraftKeeps ==
  ASSUME NEW s \in Session, NEW t \in Tabs, NEW d \in Kept
  PROVE  /\ SetDraft(s, t, d) \in Session
         /\ AtHome(s) /\ (d \in Carts => home[d] = t) => AtHome(SetDraft(s, t, d))
<1>1. s = [active |-> s.active, draft |-> s.draft, change |-> s.change]
      /\ s.active \in Tabs /\ s.draft \in [Tabs -> Kept] /\ s.change \in [Tabs -> BOOLEAN]
  BY DEF Session, Kept
<1>2. SetDraft(s, t, d) = [active |-> s.active, draft |-> [s.draft EXCEPT ![t] = d],
                           change |-> s.change]
  BY <1>1 DEF SetDraft
<1>3. [s.draft EXCEPT ![t] = d] \in [Tabs -> Kept]  BY <1>1
<1>4. SetDraft(s, t, d) \in Session  BY <1>1, <1>2, <1>3 DEF Session, Kept
<1>5. AtHome(s) /\ (d \in Carts => home[d] = t) => AtHome(SetDraft(s, t, d))
  BY <1>1, <1>2 DEF AtHome
<1> QED  BY <1>4, <1>5

LEMMA ClearDraftKeeps ==
  ASSUME DraftAssumptions, NEW s \in Session, NEW t \in Tabs
  PROVE  ClearDraft(s, t) \in Session /\ (AtHome(s) => AtHome(ClearDraft(s, t)))
<1>1. ClearDraft(s, t) = SetDraft(s, t, Empty)  BY DEF ClearDraft, SetDraft
<1> QED  BY <1>1, SetDraftKeeps DEF Kept, DraftAssumptions

\* Activating a tab or showing change leaves the drafts alone.
LEMMA ActiveChangeKeep ==
  ASSUME NEW s \in Session, NEW t \in Tabs, NEW b \in BOOLEAN
  PROVE  /\ [s EXCEPT !.active = t] \in Session
         /\ [s EXCEPT !.change[t] = b] \in Session
         /\ AtHome(s) => AtHome([s EXCEPT !.active = t]) /\ AtHome([s EXCEPT !.change[t] = b])
<1>1. s = [active |-> s.active, draft |-> s.draft, change |-> s.change]
      /\ s.active \in Tabs /\ s.draft \in [Tabs -> Kept] /\ s.change \in [Tabs -> BOOLEAN]
  BY DEF Session, Kept
<1>2. [s EXCEPT !.active = t] = [active |-> t, draft |-> s.draft, change |-> s.change]
  BY <1>1
<1>3. [s EXCEPT !.change[t] = b] = [active |-> s.active, draft |-> s.draft,
                                    change |-> [s.change EXCEPT ![t] = b]]
  BY <1>1
<1>4. [s.change EXCEPT ![t] = b] \in [Tabs -> BOOLEAN]  BY <1>1
<1> QED  BY <1>1, <1>2, <1>3, <1>4 DEF Session, Kept, AtHome

LEMMA ResolveInTabs ==
  ASSUME DraftAssumptions, NEW s \in Session, NEW kind
  PROVE  Resolve(s, kind) \in Tabs
<1>1. s.active \in Tabs  BY DEF Session
<1>2. \A S \in SUBSET Tabs : S # {} => Lowest(S) \in Tabs
  BY LeastOne DEF DraftAssumptions
<1> QED  BY <1>1, <1>2 DEF Resolve

\* A page that is rendered: the session it leaves and what it shows.
LEMMA ShownKeeps ==
  ASSUME DraftAssumptions, NEW s \in Session, NEW kind \in Kinds \cup {"details"}
  PROVE  /\ Shown(s, kind).session \in Session
         /\ Shown(s, kind).page \in Page
         /\ Named /\ AtHome(s) => AtHome(Shown(s, kind).session) /\ PageAtHome(Shown(s, kind).page)
<1>1. \A t \in Tabs : s.draft[t] \in Kept  BY DEF Session, Kept
<1>0. CASE kind = "details"
  <2>1. Shown(s, kind) = [session |-> s, page |-> [tab |-> s.active, kind |-> kind, cart |-> Empty]]
    BY <1>0 DEF Shown
  <2>2. Shown(s, kind).session = s
        /\ Shown(s, kind).page = [tab |-> s.active, kind |-> kind, cart |-> Empty]
    BY <2>1
  <2> QED  BY <2>2 DEF Session, Page, PageAtHome, DraftAssumptions
<1>2. CASE kind # "details" /\ Named
  <2> DEFINE t == Resolve(s, kind)
             c == IF HasItems(s.draft[t]) /\ KindOf[s.draft[t]] = kind THEN s.draft[t] ELSE Empty
  <2>1. t \in Tabs  BY ResolveInTabs
  <2> HIDE DEF t
  <2>2. c \in Carts \cup {Empty} /\ (c \in Carts => c = s.draft[t])
    BY DEF HasItems, DraftAssumptions
  <2> HIDE DEF c
  <2>3. Shown(s, kind) = [session |-> [s EXCEPT !.active = t],
                          page |-> [tab |-> t, kind |-> kind, cart |-> c]]
    BY <1>2 DEF Shown, DeliveryPage, t, c
  <2>4. Shown(s, kind).session = [s EXCEPT !.active = t]
        /\ Shown(s, kind).page = [tab |-> t, kind |-> kind, cart |-> c]
    BY <2>3
  <2>5. [tab |-> t, kind |-> kind, cart |-> c] \in Page  BY <2>1, <2>2 DEF Page
  <2>6. AtHome(s) => PageAtHome([tab |-> t, kind |-> kind, cart |-> c])
    BY <2>1, <2>2 DEF AtHome, PageAtHome
  <2> QED  BY <2>1, <2>4, <2>5, <2>6, ActiveChangeKeep
<1>3. CASE kind # "details" /\ ~ Named
  <2> DEFINE t == s.active
             c == IF HasItems(s.draft[t]) THEN s.draft[t] ELSE Empty
  <2>1. t \in Tabs  BY DEF Session
  <2>2. c \in Carts \cup {Empty}  BY DEF HasItems
  <2>3. Shown(s, kind).page = [tab |-> t, kind |-> kind, cart |-> c]
        /\ Shown(s, kind).session \in {s, ClearDraft(s, t)}
    BY <1>3 DEF Shown, SalePage
  <2> HIDE DEF t, c
  <2> QED  BY <1>3, <2>1, <2>2, <2>3, ClearDraftKeeps DEF Page
<1> QED  BY <1>0, <1>2, <1>3

-----------------------------------------------------------------------------
(* Requests *)

LEMMA LoadingRuns ==
  ASSUME NEW q \in Waiting, session \in Session
  PROVE  /\ WithSession(q) \in Running /\ WithSession(q).op = q.op
         /\ WithSession(q).page = q.page /\ WithSession(q).session = session
  BY DEF WithSession, Waiting, Running

\* What is known of a request that is answered.
LEMMA AnsweredRequest ==
  ASSUME DraftAssumptions, IInv, NEW k \in Slots, NEW op, Loaded(k, op)
  PROVE  /\ request[k] \in Running /\ request[k] # None
         /\ request[k].page \in Page /\ request[k].page.tab \in Tabs
         /\ request[k].page.cart \in Kept /\ request[k].page.kind \in Kinds \cup {"details"}
         /\ request[k].to \in Tabs /\ request[k].session \in Session
         /\ TabOf(request[k], request[k].session) \in Tabs
         /\ Named => /\ PageAtHome(request[k].page) /\ AtHome(request[k].session)
                     /\ TabOf(request[k], request[k].session) = request[k].page.tab
<1>1. request[k] # None /\ request[k].loaded /\ request[k] \in {None} \cup Waiting \cup Running
  BY DEF Loaded, IInv, Types
<1>2. request[k] \in Running  BY <1>1 DEF Waiting
<1>3. request[k].page \in Page /\ request[k].to \in Tabs /\ request[k].session \in Session
  BY <1>2 DEF Running
<1>4. Named => PageAtHome(request[k].page) /\ AtHome(request[k].session)
  BY <1>1 DEF IInv, Home, RequestAtHome
<1> QED  BY <1>1, <1>2, <1>3, <1>4 DEF Page, Kept, TabOf, Session

\* A request ends: what it leaves in the session and in the windows is at home.
LEMMA AnswerKeeps ==
  ASSUME IInv, NEW k \in Slots, NEW s \in Session, NEW next \in {None} \cup Waiting,
         Answer(k, s, next),
         page' \in [Windows -> Page], home' = home, done' \subseteq Carts, tangled' \subseteq done',
         next # None => next.op # "complete",
         Named => /\ AtHome(s) /\ \A w \in Windows : PageAtHome(page'[w])
                  /\ next # None => PageAtHome(next.page)
  PROVE  IInv'
<1>1. /\ request' = [request EXCEPT ![k] = next] /\ session' = s /\ sent' = sent
      /\ request \in [Slots -> {None} \cup Waiting \cup Running]
  BY DEF Answer, IInv, Types
<1>2. request' \in [Slots -> {None} \cup Waiting \cup Running]  BY <1>1
<1>3. \A q \in Waiting \cup Running :
        /\ q.op \in Ops /\ q.page \in Page /\ q.to \in Tabs
        /\ q.loaded => q.session \in Session
  BY DEF Waiting, Running
<1>4. TypeOK'
  BY <1>1, <1>2, <1>3 DEF IInv, Types, TypeOK
<1>5. Completes'
  BY <1>1 DEF IInv, Completes
<1>6. ASSUME Named PROVE Home'
  <2>1. next # None => ~ next.loaded  BY DEF Waiting
  <2>2. AtHome(session)' /\ \A w \in Windows : PageAtHome(page[w])'
    BY <1>1, <1>6 DEF AtHome, PageAtHome
  <2>3. ASSUME NEW j \in Slots PROVE RequestAtHome(request[j])'
    <3>1. CASE j = k  BY <1>1, <1>6, <2>1, <3>1 DEF RequestAtHome, PageAtHome
    <3>2. CASE j # k
      <4>1. request'[j] = request[j]  BY <1>1, <3>2
      <4>2. RequestAtHome(request[j])  BY <1>6 DEF IInv, Home
      <4> QED  BY <4>1, <4>2 DEF RequestAtHome, PageAtHome, AtHome
    <3> QED  BY <3>1, <3>2
  <2> QED  BY <2>2, <2>3 DEF Home
<1> QED  BY <1>2, <1>4, <1>5, <1>6 DEF IInv, Types

-----------------------------------------------------------------------------
LEMMA InitIInv == DraftAssumptions /\ Init => IInv
<1> SUFFICES ASSUME DraftAssumptions, Init PROVE IInv  OBVIOUS
<1>1. Lowest(Tabs) \in Tabs  BY LeastOne DEF DraftAssumptions
<1>2. session \in Session  BY <1>1 DEF Init, Session
<1>3. page \in [Windows -> Page]
  <2>1. PICK kind \in Kinds :
          page = [w \in Windows |-> [tab |-> Lowest(Tabs), kind |-> kind, cart |-> Empty]]
    BY DEF Init
  <2> QED  BY <1>1, <2>1 DEF Page
<1>4. Types
  <2>1. home \in [Carts -> Tabs \cup {0}] /\ sent \in 0..MaxRequests
        /\ done \subseteq Carts /\ tangled \subseteq done
    BY DEF Init, DraftAssumptions
  <2>2. request = [k \in Slots |-> None]  BY DEF Init
  <2> QED  BY <1>2, <1>3, <2>1, <2>2 DEF Types, TypeOK
<1>5. Completes  BY DEF Init, Completes
<1>6. Home
  <2>1. AtHome(session)  BY DEF Init, AtHome, DraftAssumptions
  <2>2. \A w \in Windows : PageAtHome(page[w])
    BY DEF Init, PageAtHome, DraftAssumptions
  <2> QED  BY <2>1, <2>2 DEF Init, Home, RequestAtHome
<1> QED  BY <1>4, <1>5, <1>6 DEF IInv

\* A cart that is begun was nowhere before.
LEMMA StartKeeps ==
  ASSUME DraftAssumptions, IInv, NEW w \in Windows, NEW c \in Carts, Start(w, c)
  PROVE  IInv'
<1>1. /\ home' = [home EXCEPT ![c] = page[w].tab] /\ home[c] = 0
      /\ page' = [page EXCEPT ![w].cart = c]
      /\ session' = session /\ request' = request /\ sent' = sent /\ done' = done
      /\ tangled' = tangled
  BY DEF Start
<1>2. /\ page \in [Windows -> Page] /\ home \in [Carts -> Tabs \cup {0}]
      /\ page[w] = [tab |-> page[w].tab, kind |-> page[w].kind, cart |-> page[w].cart]
      /\ page[w].tab \in Tabs /\ page[w].kind \in Kinds \cup {"details"}
  BY DEF IInv, Types, TypeOK, Page
<1>3. page'[w] = [tab |-> page[w].tab, kind |-> page[w].kind, cart |-> c]
      /\ \A v \in Windows \ {w} : page'[v] = page[v]
  BY <1>1, <1>2
<1>4. page' \in [Windows -> Page]
  <2>1. page'[w] \in Page  BY <1>2, <1>3 DEF Page
  <2> QED  BY <1>1, <1>2, <1>3, <2>1
<1>5. Types'
  BY <1>1, <1>2, <1>4 DEF IInv, Types, TypeOK
<1>6. Completes'  BY <1>1 DEF IInv, Completes
<1>7. ASSUME Named PROVE Home'
  <2>1. \A t \in Tabs : t # 0  BY DEF DraftAssumptions
  <2>2. \A d \in Carts, t \in Tabs : home[d] = t => home'[d] = t  BY <1>1, <1>2, <2>1
  <2>3. home'[c] = page[w].tab  BY <1>1, <1>2
  <2>4. AtHome(session)'
    BY <1>1, <1>7, <2>2 DEF IInv, Home, AtHome
  <2>5. ASSUME NEW v \in Windows PROVE PageAtHome(page[v])'
    <3>1. CASE v = w  BY <1>3, <2>3, <3>1 DEF PageAtHome
    <3>2. CASE v # w
      <4>1. PageAtHome(page[v]) /\ page[v].tab \in Tabs
        BY <1>2, <1>7 DEF IInv, Home, Page
      <4> QED  BY <1>3, <2>2, <3>2, <4>1 DEF PageAtHome
    <3> QED  BY <3>1, <3>2
  <2>6. ASSUME NEW k \in Slots PROVE RequestAtHome(request[k])'
    <3>1. RequestAtHome(request[k])  BY <1>7 DEF IInv, Home
    <3>2. request[k] \in {None} \cup Waiting \cup Running  BY DEF IInv, Types
    <3>3. request[k] # None => request[k].page.tab \in Tabs
      BY <3>2 DEF Waiting, Running, Page
    <3> QED  BY <1>1, <2>2, <3>1, <3>3 DEF RequestAtHome, PageAtHome, AtHome
  <2> QED  BY <2>4, <2>5, <2>6 DEF Home
<1> QED  BY <1>5, <1>6, <1>7 DEF IInv

\* A request is sent, or loads the session: its page and its copy are at home
\* because the window's and the stored session's are.
LEMMA BeginKeeps ==
  ASSUME DraftAssumptions, IInv, NEW k \in Slots, NEW q \in Waiting \cup Running,
         request' = [request EXCEPT ![k] = q], sent' \in 0..MaxRequests,
         UNCHANGED <<session, page, home, done>>, tangled' \subseteq done,
         q.op = "complete" => q.page.cart # Empty,
         Named => PageAtHome(q.page) /\ (q.loaded => q.session = session)
  PROVE  IInv'
<1>1. request \in [Slots -> {None} \cup Waiting \cup Running]  BY DEF IInv, Types
<1>2. request' \in [Slots -> {None} \cup Waiting \cup Running]  BY <1>1
<1>3. \A r \in Waiting \cup Running :
        /\ r.op \in Ops /\ r.page \in Page /\ r.to \in Tabs
        /\ r.loaded => r.session \in Session
  BY DEF Waiting, Running
<1>4. TypeOK'
  BY <1>2, <1>3 DEF IInv, Types, TypeOK
<1>5. Completes'  BY <1>1 DEF IInv, Completes
<1>6. ASSUME Named PROVE Home'
  <2>1. AtHome(session)' /\ \A w \in Windows : PageAtHome(page[w])'
    BY <1>6 DEF IInv, Home, AtHome, PageAtHome
  <2>2. ASSUME NEW j \in Slots PROVE RequestAtHome(request[j])'
    <3>1. CASE j = k
      <4>1. PageAtHome(q.page) /\ (q.loaded => AtHome(q.session))
        BY <1>6 DEF IInv, Home
      <4>2. request'[j] = q  BY <1>1, <3>1
      <4> QED  BY <4>1, <4>2 DEF RequestAtHome, PageAtHome, AtHome
    <3>2. CASE j # k
      <4>1. request'[j] = request[j]  BY <1>1, <3>2
      <4>2. RequestAtHome(request[j])  BY <1>6 DEF IInv, Home
      <4> QED  BY <4>1, <4>2 DEF RequestAtHome, PageAtHome, AtHome
    <3> QED  BY <3>1, <3>2
  <2> QED  BY <2>1, <2>2 DEF Home
<1> QED  BY <1>2, <1>4, <1>5, <1>6 DEF IInv, Types

-----------------------------------------------------------------------------
(* The steps *)

\* A page with another operation type has the same tab and cart.
LEMMA OtherKind ==
  ASSUME NEW p \in Page, NEW kind \in Kinds \cup {"details"}
  PROVE  /\ [p EXCEPT !.kind = kind] \in Page
         /\ PageAtHome(p) => PageAtHome([p EXCEPT !.kind = kind])
         /\ [p EXCEPT !.kind = kind].cart = p.cart
<1>1. p = [tab |-> p.tab, kind |-> p.kind, cart |-> p.cart]
      /\ p.tab \in Tabs /\ p.cart \in Carts \cup {Empty}
  BY DEF Page
<1>2. [p EXCEPT !.kind = kind] = [tab |-> p.tab, kind |-> kind, cart |-> p.cart]
  BY <1>1
<1> QED  BY <1>1, <1>2 DEF Page, PageAtHome

LEMMA BrowserKeeps ==
  ASSUME DraftAssumptions, IInv, NEW w \in Windows,
         \/ \E op \in Ops, to \in Tabs, kind \in Kinds : Navigate(w, op, to, kind)
         \/ Autosave(w)
  PROVE  IInv'
<1>0. /\ session \in Session /\ page[w] \in Page /\ sent \in 0..MaxRequests
      /\ tangled \subseteq done
      /\ Named => PageAtHome(page[w])
  BY DEF IInv, Types, TypeOK, Home
<1>1. CASE \E op \in Ops, to \in Tabs, kind \in Kinds : Navigate(w, op, to, kind)
  <2>1. PICK op \in Ops, to \in Tabs, kind \in Kinds : Navigate(w, op, to, kind)  BY <1>1
  <2> DEFINE p == [page[w] EXCEPT !.kind = kind]
             q == WithSession(Sent(op, p, to))
  <2>2. p \in Page /\ p.cart = page[w].cart /\ (Named => PageAtHome(p))
    BY <1>0, OtherKind
  <2>3. Navigation(w) \in Slots  BY DEF Navigation, Slots
  <2>4. /\ request' = [request EXCEPT ![Navigation(w)] = q] /\ sent' = sent + 1
        /\ sent < MaxRequests /\ UNCHANGED <<session, page, home, done, tangled>>
        /\ op = "complete" => page[w].cart # Empty
    BY <2>1 DEF Navigate, Free
  <2> HIDE DEF p
  <2>5. q \in Running /\ q.op = op /\ q.page = p /\ q.session = session
    <3>1. Sent(op, p, to) \in Waiting /\ Sent(op, p, to).op = op /\ Sent(op, p, to).page = p
      BY <2>2 DEF Sent, Waiting
    <3> QED  BY <1>0, <3>1, LoadingRuns
  <2> HIDE DEF q
  <2>6. sent' \in 0..MaxRequests  BY <1>0, <2>4 DEF DraftAssumptions
  <2> QED  BY <1>0, <2>2, <2>3, <2>4, <2>5, <2>6, BeginKeeps
<1>2. CASE Autosave(w)
  <2> DEFINE k == <<w, "autosave">>
             q == Sent("autosave", page[w], page[w].tab)
  <2>1. k \in Slots  BY DEF Slots
  <2>2. /\ request' = [request EXCEPT ![k] = q] /\ sent' = sent + 1
        /\ sent < MaxRequests /\ UNCHANGED <<session, page, home, done>>
        /\ tangled' = tangled \cup ({page[w].cart} \cap done)
    BY <1>2 DEF Autosave, Free
  <2>3. "autosave" \in Ops /\ page[w].tab \in Tabs  BY <1>0 DEF Ops, Page
  <2>4. q \in Waiting /\ q.op = "autosave" /\ q.page = page[w] /\ q.loaded = FALSE
    BY <1>0, <2>3 DEF Sent, Waiting
  <2> HIDE DEF q, k
  <2>5. sent' \in 0..MaxRequests  BY <1>0, <2>2 DEF DraftAssumptions
  <2> QED  BY <1>0, <2>1, <2>2, <2>4, <2>5, BeginKeeps
<1> QED  BY <1>1, <1>2

LEMMA LoadKeeps ==
  ASSUME DraftAssumptions, IInv, NEW k \in Slots, Load(k)
  PROVE  IInv'
<1>1. /\ request[k] # None /\ ~ request[k].loaded
      /\ request' = [request EXCEPT ![k] = WithSession(request[k])]
      /\ UNCHANGED <<session, page, sent, home, done, tangled>>
  BY DEF Load
<1>2. request[k] \in Waiting
  BY <1>1 DEF IInv, Types, Running
<1>3. session \in Session /\ sent \in 0..MaxRequests /\ tangled \subseteq done
  BY DEF IInv, Types, TypeOK
<1>4. WithSession(request[k]) \in Running /\ WithSession(request[k]).op = request[k].op
      /\ WithSession(request[k]).page = request[k].page
      /\ WithSession(request[k]).session = session
  BY <1>2, <1>3, LoadingRuns
<1>5. request[k].op = "complete" => request[k].page.cart # Empty
  BY <1>1 DEF IInv, Completes
<1>6. Named => PageAtHome(request[k].page)
  BY <1>1 DEF IInv, Home, RequestAtHome
<1> QED  BY <1>1, <1>3, <1>4, <1>5, <1>6, BeginKeeps

\* The page loaded after an answer.
LEMMA GoOnKeeps ==
  ASSUME NEW q, q.page \in Page, NEW kind \in Kinds \cup {"details"}
  PROVE  /\ GoOn(q, kind) \in Waiting /\ GoOn(q, kind).op = "get"
         /\ PageAtHome(q.page) => PageAtHome(GoOn(q, kind).page)
<1>1. [q.page EXCEPT !.kind = kind] \in Page
      /\ (PageAtHome(q.page) => PageAtHome([q.page EXCEPT !.kind = kind]))
  BY OtherKind
<1>2. "get" \in Ops /\ q.page.tab \in Tabs  BY DEF Ops, Page
<1> QED  BY <1>1, <1>2 DEF GoOn, Sent, Waiting

LEMMA AnswersKeep ==
  ASSUME DraftAssumptions, IInv, NEW k \in Slots,
         AnswerGet(k) \/ AnswerAutosave(k) \/ AnswerSwitch(k) \/ AnswerCancel(k)
  PROVE  IInv'
<1> DEFINE q == request[k]
           t == TabOf(q, q.session)
<1>0. /\ session \in Session /\ page \in [Windows -> Page]
      /\ done \subseteq Carts /\ tangled \subseteq done
      /\ Named => AtHome(session) /\ \A w \in Windows : PageAtHome(page[w])
  BY DEF IInv, Types, TypeOK, Home
<1>1. CASE AnswerGet(k)
  <2> DEFINE shown == Shown(q.session, q.page.kind)
             s == IF shown.session = q.session THEN session ELSE shown.session
  <2>1. Loaded(k, "get") /\ Answer(k, s, None)
        /\ page' = [page EXCEPT ![k[1]] = shown.page] /\ UNCHANGED <<home, done, tangled>>
    BY <1>1 DEF AnswerGet
  <2>2. q.session \in Session /\ q.page.kind \in Kinds \cup {"details"}
        /\ (Named => AtHome(q.session))
    BY <2>1, AnsweredRequest
  <2>3. /\ shown.session \in Session /\ shown.page \in Page
        /\ Named => AtHome(shown.session) /\ PageAtHome(shown.page)
    BY <2>2, ShownKeeps
  <2> HIDE DEF q, shown
  <2>4. s \in Session /\ (Named => AtHome(s))  BY <1>0, <2>3
  <2>5. page' \in [Windows -> Page] /\ (Named => \A w \in Windows : PageAtHome(page'[w]))
    BY <1>0, <2>1, <2>3
  <2> HIDE DEF s
  <2> QED  BY <1>0, <2>1, <2>4, <2>5, AnswerKeeps
<1>2. CASE AnswerAutosave(k)
  <2> DEFINE kept == IF q.page.cart = Empty THEN Bare ELSE q.page.cart
             s == [SetDraft(q.session, t, kept) EXCEPT !.change[t] = FALSE]
  <2>1. Loaded(k, "autosave") /\ Answer(k, s, None) /\ UNCHANGED <<page, home, done, tangled>>
    BY <1>2 DEF AnswerAutosave
  <2>2. /\ q.session \in Session /\ t \in Tabs /\ q.page.cart \in Kept
        /\ Named => AtHome(q.session) /\ PageAtHome(q.page) /\ t = q.page.tab
    BY <2>1, AnsweredRequest
  <2>3. kept \in Kept /\ (Named /\ kept \in Carts => home[kept] = t)
    BY <2>2 DEF Kept, PageAtHome, DraftAssumptions
  <2> HIDE DEF q, t, kept
  <2>4. SetDraft(q.session, t, kept) \in Session
        /\ (Named => AtHome(SetDraft(q.session, t, kept)))
    BY <2>2, <2>3, SetDraftKeeps
  <2>5. s \in Session /\ (Named => AtHome(s))  BY <2>2, <2>4, ActiveChangeKeep
  <2> HIDE DEF s
  <2> QED  BY <1>0, <2>1, <2>5, AnswerKeeps
<1>3. CASE AnswerSwitch(k)
  <2> DEFINE s == [q.session EXCEPT !.active = q.to]
             kind == KindAfterSwitch(q.session, q)
  <2>1. Loaded(k, "switch") /\ Answer(k, s, GoOn(q, kind))
        /\ UNCHANGED <<page, home, done, tangled>>
    BY <1>3 DEF AnswerSwitch
  <2>2. /\ q.session \in Session /\ q.to \in Tabs /\ q.page \in Page
        /\ q.page.kind \in Kinds \cup {"details"}
        /\ Named => AtHome(q.session) /\ PageAtHome(q.page)
    BY <2>1, AnsweredRequest
  <2>3. kind \in Kinds \cup {"details"}
    BY <2>2 DEF KindAfterSwitch, HasItems, DraftAssumptions
  <2> HIDE DEF q, kind
  <2>4. s \in Session /\ (Named => AtHome(s))  BY <2>2, ActiveChangeKeep
  <2> HIDE DEF s
  <2>5. GoOn(q, kind) \in Waiting /\ GoOn(q, kind).op = "get"
        /\ (Named => PageAtHome(GoOn(q, kind).page))
    BY <2>2, <2>3, GoOnKeeps
  <2> QED  BY <1>0, <2>1, <2>4, <2>5, AnswerKeeps
<1>4. CASE AnswerCancel(k)
  <2> DEFINE s == [ClearDraft(q.session, t) EXCEPT !.active = t]
             kind == q.page.kind
  <2>1. Loaded(k, "cancel") /\ Answer(k, s, GoOn(q, kind))
        /\ UNCHANGED <<page, home, done, tangled>>
    BY <1>4 DEF AnswerCancel
  <2>2. /\ q.session \in Session /\ t \in Tabs /\ q.page \in Page
        /\ kind \in Kinds \cup {"details"}
        /\ Named => AtHome(q.session) /\ PageAtHome(q.page)
    BY <2>1, AnsweredRequest
  <2> HIDE DEF q, t, kind
  <2>3. ClearDraft(q.session, t) \in Session /\ (Named => AtHome(ClearDraft(q.session, t)))
    BY <2>2, ClearDraftKeeps
  <2>4. s \in Session /\ (Named => AtHome(s))  BY <2>2, <2>3, ActiveChangeKeep
  <2> HIDE DEF s
  <2>5. GoOn(q, kind) \in Waiting /\ GoOn(q, kind).op = "get"
        /\ (Named => PageAtHome(GoOn(q, kind).page))
    BY <2>2, GoOnKeeps
  <2> QED  BY <1>0, <2>1, <2>4, <2>5, AnswerKeeps
<1> QED  BY <1>1, <1>2, <1>3, <1>4

LEMMA CompleteKeeps ==
  ASSUME DraftAssumptions, IInv, NEW k \in Slots, NEW change \in BOOLEAN,
         AnswerComplete(k, change)
  PROVE  IInv'
<1> DEFINE q == request[k]
           t == TabOf(q, q.session)
           s == [ClearDraft(q.session, t) EXCEPT !.change[t] = @ \/ (change /\ ~ Named)]
           next == IF q.page.kind \in {"sale", "delivery"} THEN q.page.kind ELSE "details"
<1>0. /\ page \in [Windows -> Page] /\ done \subseteq Carts /\ tangled \subseteq done
      /\ Named => \A w \in Windows : PageAtHome(page[w])
  BY DEF IInv, Types, TypeOK, Home
<1>1. /\ Loaded(k, "complete") /\ done' = done \cup {q.page.cart} /\ home' = home
      /\ tangled' \in {tangled, tangled \cup {q.page.cart}}
      /\ Answer(k, s, GoOn(q, next)) /\ page' = page
  BY DEF AnswerComplete
<1>2. /\ q.session \in Session /\ t \in Tabs /\ q.page \in Page
      /\ q.page.cart \in Carts \cup {Empty} /\ q.page.kind \in Kinds \cup {"details"}
      /\ Named => AtHome(q.session) /\ PageAtHome(q.page)
  BY <1>1, AnsweredRequest DEF Page
<1>3. q.page.cart # Empty  BY <1>1, AnsweredRequest DEF IInv, Completes, Loaded
<1>4. done' \subseteq Carts /\ tangled' \subseteq done'  BY <1>0, <1>1, <1>2, <1>3
<1>5. GoOn(q, next) \in Waiting /\ GoOn(q, next).op = "get"
      /\ (Named => PageAtHome(GoOn(q, next).page))
  <2>1. next \in Kinds \cup {"details"}  BY <1>2
  <2> HIDE DEF next
  <2> QED  BY <1>2, <2>1, GoOnKeeps
<1>6. s \in Session /\ (Named => AtHome(s))
  <2> HIDE DEF q, t
  <2> DEFINE cleared == ClearDraft(q.session, t)
             shows == cleared.change[t] \/ (change /\ ~ Named)
  <2>1. cleared \in Session /\ (Named => AtHome(cleared))
    BY <1>2, ClearDraftKeeps
  <2>2. s = [cleared EXCEPT !.change[t] = shows]  OBVIOUS
  <2>3. cleared.change[t] \in BOOLEAN  BY <1>2, <2>1 DEF Session
  <2> HIDE DEF cleared
  <2>4. shows \in BOOLEAN  BY <2>3
  <2> HIDE DEF shows, s
  <2>5. [cleared EXCEPT !.change[t] = shows] \in Session
        /\ (AtHome(cleared) => AtHome([cleared EXCEPT !.change[t] = shows]))
    BY <1>2, <2>1, <2>4, ActiveChangeKeep
  <2> QED  BY <2>1, <2>2, <2>5
<1> HIDE DEF q, s, next
<1> QED  BY <1>0, <1>1, <1>4, <1>5, <1>6, AnswerKeeps

LEMMA RefuseKeeps ==
  ASSUME DraftAssumptions, IInv, NEW k \in Slots, AnswerRefuse(k)
  PROVE  IInv'
<1> DEFINE q == request[k]
           t == TabOf(q, q.session)
           s == SetDraft(q.session, t, q.page.cart)
           p == [q.page EXCEPT !.tab = t]
<1>0. /\ page \in [Windows -> Page] /\ done \subseteq Carts /\ tangled \subseteq done
      /\ Named => \A w \in Windows : PageAtHome(page[w])
  BY DEF IInv, Types, TypeOK, Home
<1>1. Loaded(k, "complete") /\ Answer(k, s, None) /\ page' = [page EXCEPT ![k[1]] = p]
      /\ UNCHANGED <<home, done, tangled>>
  BY DEF AnswerRefuse
<1>2. /\ q.session \in Session /\ t \in Tabs /\ q.page \in Page /\ q.page.cart \in Kept
      /\ Named => AtHome(q.session) /\ PageAtHome(q.page) /\ t = q.page.tab
  BY <1>1, AnsweredRequest
<1> HIDE DEF q, t
<1>3. s \in Session /\ (Named => AtHome(s))
  BY <1>2, SetDraftKeeps DEF PageAtHome
<1>4. p \in Page /\ (Named => PageAtHome(p))
  <2>1. q.page = [tab |-> q.page.tab, kind |-> q.page.kind, cart |-> q.page.cart]
        /\ q.page.kind \in Kinds \cup {"details"} /\ q.page.cart \in Carts \cup {Empty}
    BY <1>2 DEF Page
  <2>2. p = [tab |-> t, kind |-> q.page.kind, cart |-> q.page.cart]  BY <2>1
  <2> QED  BY <1>2, <2>1, <2>2 DEF Page, PageAtHome
<1> HIDE DEF s, p
<1>5. page' \in [Windows -> Page] /\ (Named => \A w \in Windows : PageAtHome(page'[w]))
  BY <1>0, <1>1, <1>4
<1> QED  BY <1>0, <1>1, <1>3, <1>5, AnswerKeeps

LEMMA StepIInv == DraftAssumptions /\ IInv /\ [Next]_vars => IInv'
<1> SUFFICES ASSUME DraftAssumptions, IInv, [Next]_vars PROVE IInv'  OBVIOUS
<1>1. CASE UNCHANGED vars
  BY <1>1 DEF vars, IInv, Types, TypeOK, Completes, Home, AtHome, PageAtHome, RequestAtHome
<1>2. CASE Next
  BY <1>2, StartKeeps, BrowserKeeps, LoadKeeps, AnswersKeep, CompleteKeeps, RefuseKeeps DEF Next
<1> QED  BY <1>1, <1>2

LEMMA Inductive == DraftAssumptions => (Spec => []IInv)
<1> SUFFICES ASSUME DraftAssumptions PROVE Spec => []IInv  OBVIOUS
<1>1. Init => IInv  BY InitIInv
<1>2. IInv /\ [Next]_vars => IInv'  BY StepIInv
<1> QED  BY <1>1, <1>2, PTL DEF Spec

-----------------------------------------------------------------------------
(* Documents that have been saved.  A cart is cold before it is begun and,
   unless something else held it then, once its document is saved: from then
   on it is on no draft, in no copy of the session, and on no page but one
   that is about to be replaced.  If that page posts it once more, the cart is
   tangled from then on. *)

In(s, c) == \E t \in Tabs : s.draft[t] = c

Away(c) ==
  /\ ~ In(session, c)
  /\ \A k \in Slots : request[k] # None =>
       /\ request[k].loaded => ~ In(request[k].session, c)
       /\ request[k].page.cart = c => request[k].op = "get"
  /\ \A w \in Windows : page[w].cart = c =>
       request[Navigation(w)] # None /\ request[Navigation(w)].op = "get"

Cold(c) == home[c] = 0 \/ c \in done \ tangled

\* Autosaves, and nothing else, are in the slots of autosaves.
Slotted == \A k \in Slots : request[k] # None => (k[2] = "autosave" <=> request[k].op = "autosave")

\* What a page shows has been begun.
Begun == \A w \in Windows : page[w].cart \in Carts => home[page[w].cart] # 0

DInv ==
  /\ Slotted
  /\ Begun
  /\ \A c \in Carts : (c \in done => home[c] # 0) /\ (Cold(c) => Away(c))

LEMMA InitDInv == DraftAssumptions /\ Init => DInv
<1> SUFFICES ASSUME DraftAssumptions, Init PROVE DInv  OBVIOUS
<1>1. request = [k \in Slots |-> None] /\ done = {}  BY DEF Init
<1>2. ASSUME NEW c \in Carts PROVE Away(c)
  <2>1. c # Empty  BY DEF DraftAssumptions
  <2>2. ~ In(session, c)  BY <2>1 DEF Init, In
  <2>3. \A w \in Windows : page[w].cart # c  BY <2>1 DEF Init
  <2> QED  BY <1>1, <2>2, <2>3 DEF Away
<1>3. Begun  BY DEF Init, Begun, DraftAssumptions
<1> QED  BY <1>1, <1>2, <1>3 DEF DInv, Slotted

\* A request begins to hold what the window and the stored session hold.
LEMMA BeginAway ==
  ASSUME IInv, NEW k \in Slots, NEW q, NEW c, Away(c),
         request' = [request EXCEPT ![k] = q], UNCHANGED <<session, page>>,
         q # None => /\ q.loaded => q.session = session
                     /\ q.page.cart = c => q.op = "get",
         \A w \in Windows : k = Navigation(w) /\ page[w].cart = c => q # None /\ q.op = "get"
  PROVE  Away(c)'
<1>1. request \in [Slots -> {None} \cup Waiting \cup Running]  BY DEF IInv, Types
<1>2. request'[k] = q /\ \A j \in Slots \ {k} : request'[j] = request[j]  BY <1>1
<1>3. ~ In(session, c)'  BY DEF Away, In
<1>4. ASSUME NEW j \in Slots, request'[j] # None
      PROVE  /\ request'[j].loaded => ~ In(request'[j].session, c)
             /\ request'[j].page.cart = c => request'[j].op = "get"
  BY <1>2, <1>4 DEF Away
<1>5. ASSUME NEW w \in Windows, page'[w].cart = c
      PROVE  request'[Navigation(w)] # None /\ request'[Navigation(w)].op = "get"
  <2>1. Navigation(w) \in Slots  BY DEF Navigation, Slots
  <2> QED  BY <1>2, <1>5, <2>1 DEF Away
<1> QED  BY <1>3, <1>4, <1>5 DEF Away, In

\* A request ends without bringing the cart back.
LEMMA AnswerAway ==
  ASSUME IInv, NEW k \in Slots, NEW s, NEW next \in {None} \cup Waiting, NEW c, Away(c),
         Answer(k, s, next), ~ In(s, c),
         next # None => next.op = "get",
         \A w \in Windows : page'[w].cart = c =>
           page[w].cart = c /\ (k = Navigation(w) => next # None)
  PROVE  Away(c)'
<1>1. /\ request \in [Slots -> {None} \cup Waiting \cup Running]
      /\ request' = [request EXCEPT ![k] = next] /\ session' = s
  BY DEF IInv, Types, Answer
<1>2. request'[k] = next /\ \A j \in Slots \ {k} : request'[j] = request[j]  BY <1>1
<1>3. next # None => ~ next.loaded  BY DEF Waiting
<1>4. ~ In(session, c)'  BY <1>1 DEF In
<1>5. ASSUME NEW j \in Slots, request'[j] # None
      PROVE  /\ request'[j].loaded => ~ In(request'[j].session, c)
             /\ request'[j].page.cart = c => request'[j].op = "get"
  BY <1>2, <1>3, <1>5 DEF Away
<1>6. ASSUME NEW w \in Windows, page'[w].cart = c
      PROVE  request'[Navigation(w)] # None /\ request'[Navigation(w)].op = "get"
  <2>1. Navigation(w) \in Slots  BY DEF Navigation, Slots
  <2> QED  BY <1>2, <1>6, <2>1 DEF Away
<1> QED  BY <1>4, <1>5, <1>6 DEF Away, In

\* The drafts of a session after it has been changed.
LEMMA DraftsAfter ==
  ASSUME DraftAssumptions, NEW s \in Session, NEW t \in Tabs, NEW d, NEW c \in Carts
  PROVE  /\ ~ In(s, c) /\ d # c => ~ In(SetDraft(s, t, d), c)
         /\ (\A u \in Tabs \ {t} : s.draft[u] # c) => ~ In(ClearDraft(s, t), c)
         /\ ~ In(s, c) => ~ In([s EXCEPT !.active = t], c)
         /\ \A b : ~ In(s, c) => ~ In([s EXCEPT !.change[t] = b], c)
<1>1. s = [active |-> s.active, draft |-> s.draft, change |-> s.change]
      /\ s.draft \in [Tabs -> Kept]
  BY DEF Session, Kept
<1>2. Empty # c  BY DEF DraftAssumptions
<1>3. SetDraft(s, t, d).draft = [s.draft EXCEPT ![t] = d]
      /\ ClearDraft(s, t).draft = [s.draft EXCEPT ![t] = Empty]
      /\ [s EXCEPT !.active = t].draft = s.draft
      /\ \A b : [s EXCEPT !.change[t] = b].draft = s.draft
  BY <1>1 DEF SetDraft, ClearDraft
<1> QED  BY <1>1, <1>2, <1>3 DEF In

\* Steps of the browser, and the first access to the session.
LEMMA BrowserDInv ==
  ASSUME DraftAssumptions, IInv, DInv,
         \/ \E w \in Windows, c \in Carts : Start(w, c)
         \/ \E w \in Windows, op \in Ops, to \in Tabs, kind \in Kinds : Navigate(w, op, to, kind)
         \/ \E w \in Windows : Autosave(w)
         \/ \E k \in Slots : Load(k)
  PROVE  DInv'
<1>0. /\ request \in [Slots -> {None} \cup Waiting \cup Running]
      /\ page \in [Windows -> Page] /\ home \in [Carts -> Tabs \cup {0}]
  BY DEF IInv, Types, TypeOK
<1>1. ASSUME NEW w \in Windows, NEW c \in Carts, Start(w, c) PROVE DInv'
  <2>1. /\ home' = [home EXCEPT ![c] = page[w].tab] /\ home[c] = 0
        /\ page' = [page EXCEPT ![w].cart = c] /\ page[w].tab # 0
        /\ UNCHANGED <<session, request, done, tangled>>
    BY <1>0, <1>1 DEF Start, Page, DraftAssumptions
  <2>2. Slotted' /\ Begun'
    <3>1. page' = [page EXCEPT ![w].cart = c] /\ page \in [Windows -> Page] /\ Begun
          /\ home' = [home EXCEPT ![c] = page[w].tab] /\ home \in [Carts -> Tabs \cup {0}]
          /\ page[w].tab # 0 /\ home[c] = 0
      BY <1>0, <2>1 DEF DInv
    <3>2. page[w] = [tab |-> page[w].tab, kind |-> page[w].kind, cart |-> page[w].cart]
      BY <1>0 DEF Page
    <3>3. page'[w].cart = c /\ \A v \in Windows \ {w} : page'[v] = page[v]
      BY <3>1, <3>2
    <3>4. Begun'  BY <3>1, <3>3 DEF Begun
    <3> QED  BY <2>1, <3>4 DEF DInv, Slotted
  <2>3. home'[c] # 0 /\ ~ Cold(c)'
    <3>1. c \notin done  BY <2>1 DEF DInv
    <3> QED  BY <1>0, <2>1, <3>1 DEF Cold
  <2>4. ASSUME NEW d \in Carts, d # c
        PROVE  (d \in done' => home'[d] # 0) /\ (Cold(d)' => Away(d)')
    <3>1. home'[d] = home[d]  BY <1>0, <2>1, <2>4
    <3>2. page[w] = [tab |-> page[w].tab, kind |-> page[w].kind, cart |-> page[w].cart]
      BY <1>0 DEF Page
    <3>3. page'[w].cart = c /\ \A v \in Windows \ {w} : page'[v] = page[v]
      BY <1>0, <2>1, <3>2
    <3>4. Away(d) => Away(d)'  BY <2>1, <2>4, <3>3 DEF Away, In
    <3> QED  BY <2>1, <3>1, <3>4 DEF DInv, Cold
  <2> QED  BY <2>2, <2>3, <2>4 DEF DInv
<1>2. ASSUME NEW k \in Slots, NEW q,
             request' = [request EXCEPT ![k] = q], UNCHANGED <<session, page, home, done>>,
             tangled \subseteq tangled',
             q # None => (k[2] = "autosave" <=> q.op = "autosave"),
             \A c \in Carts : Away(c) /\ Cold(c)' =>
               /\ q # None => /\ q.loaded => q.session = session
                              /\ q.page.cart = c => q.op = "get"
               /\ \A w \in Windows : k = Navigation(w) /\ page[w].cart = c => q # None /\ q.op = "get"
      PROVE  DInv'
  <2>1. Slotted' /\ Begun'  BY <1>0, <1>2 DEF DInv, Slotted, Begun
  <2>2. ASSUME NEW c \in Carts, Cold(c)' PROVE Away(c) => Away(c)'  BY <1>2, <2>2, BeginAway
  <2>3. \A c \in Carts : Cold(c)' => Cold(c)  BY <1>2 DEF Cold
  <2> QED  BY <1>2, <2>1, <2>2, <2>3 DEF DInv
<1>3. ASSUME NEW w \in Windows, NEW op \in Ops, NEW to \in Tabs, NEW kind \in Kinds,
             Navigate(w, op, to, kind)
      PROVE  DInv'
  <2> DEFINE k == Navigation(w)
             p == [page[w] EXCEPT !.kind = kind]
             q == WithSession(Sent(op, p, to))
  <2>1. k \in Slots /\ k[2] # "autosave"  BY DEF Navigation, Slots
  <2>2. request[k] = None /\ op # "autosave" /\ request' = [request EXCEPT ![k] = q]
        /\ UNCHANGED <<session, page, home, done, tangled>>
    BY <1>3 DEF Navigate, Free
  <2>3. p.cart = page[w].cart  BY <1>0, OtherKind
  <2>4. q.op = op /\ q.page = p /\ q.session = session  BY DEF Sent, WithSession
  <2>5. \A c : Away(c) => page[w].cart # c  BY <2>2 DEF Away
  <2>6. \A v \in Windows : k = Navigation(v) => v = w  BY DEF Navigation
  <2> HIDE DEF k, q, p
  <2>7. \A c \in Carts : Away(c) =>
               /\ q # None => /\ q.loaded => q.session = session
                              /\ q.page.cart = c => q.op = "get"
               /\ \A v \in Windows : k = Navigation(v) /\ page[v].cart = c => q # None /\ q.op = "get"
    BY <2>3, <2>4, <2>5, <2>6
  <2>8. q # None => (k[2] = "autosave" <=> q.op = "autosave")  BY <2>1, <2>2, <2>4
  <2> QED  BY <1>2, <2>1, <2>2, <2>7, <2>8
<1>4. ASSUME NEW w \in Windows, Autosave(w) PROVE DInv'
  <2> DEFINE k == <<w, "autosave">>
             q == Sent("autosave", page[w], page[w].tab)
  <2>1. k \in Slots /\ k[2] = "autosave" /\ \A v \in Windows : k # Navigation(v)
    BY DEF Navigation, Slots
  <2>2. request' = [request EXCEPT ![k] = q] /\ UNCHANGED <<session, page, home, done>>
        /\ tangled' = tangled \cup ({page[w].cart} \cap done)
    BY <1>4 DEF Autosave
  <2>3. q.op = "autosave" /\ q.page = page[w] /\ ~ q.loaded  BY DEF Sent
  <2>4. \A c \in Carts : Cold(c)' => page[w].cart # c  BY <2>2 DEF Cold, DInv, Begun
  <2> HIDE DEF k, q
  <2>5. \A c \in Carts : Away(c) /\ Cold(c)' =>
               /\ q # None => /\ q.loaded => q.session = session
                              /\ q.page.cart = c => q.op = "get"
               /\ \A v \in Windows : k = Navigation(v) /\ page[v].cart = c => q # None /\ q.op = "get"
    BY <2>1, <2>3, <2>4
  <2>6. q # None => (k[2] = "autosave" <=> q.op = "autosave")  BY <2>1, <2>3
  <2> QED  BY <1>2, <2>1, <2>2, <2>5, <2>6
<1>5. ASSUME NEW k \in Slots, Load(k) PROVE DInv'
  <2> DEFINE q == WithSession(request[k])
  <2>1. request[k] # None /\ request' = [request EXCEPT ![k] = q]
        /\ UNCHANGED <<session, page, home, done, tangled>>
    BY <1>5 DEF Load
  <2>2. q.op = request[k].op /\ q.page = request[k].page /\ q.session = session
    BY DEF WithSession
  <2>3. q # None  BY DEF WithSession, None
  <2> HIDE DEF q
  <2>4. k[2] = "autosave" <=> q.op = "autosave"  BY <2>1, <2>2 DEF DInv, Slotted
  <2>5. ASSUME NEW c, Away(c)
        PROVE  /\ q.page.cart = c => q.op = "get"
               /\ \A w \in Windows : k = Navigation(w) /\ page[w].cart = c => q.op = "get"
    BY <2>1, <2>2, <2>5 DEF Away
  <2>6. \A c \in Carts : Away(c) =>
               /\ q # None => /\ q.loaded => q.session = session
                              /\ q.page.cart = c => q.op = "get"
               /\ \A w \in Windows : k = Navigation(w) /\ page[w].cart = c => q # None /\ q.op = "get"
    BY <2>2, <2>3, <2>5
  <2>7. q # None => (k[2] = "autosave" <=> q.op = "autosave")  BY <2>4
  <2> QED  BY <1>2, <2>1, <2>6, <2>7
<1> QED  BY <1>1, <1>3, <1>4, <1>5

\* What is answered never brings back a cart that is away.
LEMMA AnswersDInv ==
  ASSUME DraftAssumptions, IInv, DInv, NEW k \in Slots,
         NEW s, NEW next \in {None} \cup Waiting, Answer(k, s, next),
         request[k] # None, home' = home, done' = done, tangled' = tangled,
         next # None => next.op = "get" /\ request[k].op # "autosave",
         \A c \in Carts : Away(c) =>
           /\ ~ In(s, c)
           /\ \A w \in Windows : page'[w].cart = c =>
                page[w].cart = c /\ (k = Navigation(w) => next # None)
  PROVE  DInv'
<1>1. /\ request \in [Slots -> {None} \cup Waiting \cup Running]
      /\ request' = [request EXCEPT ![k] = next]
  BY DEF IInv, Types, Answer
<1>2. Slotted'  BY <1>1 DEF DInv, Slotted
<1>3. ASSUME NEW c \in Carts, Away(c) PROVE Away(c)'
  <2>1. /\ ~ In(s, c)
        /\ \A w \in Windows : page'[w].cart = c =>
             page[w].cart = c /\ (k = Navigation(w) => next # None)
    BY <1>3
  <2> QED  BY <1>3, <2>1, AnswerAway
<1>4. Begun'
  <2>1. \A c \in Carts : home[c] = 0 => Away(c) /\ \A w \in Windows : page[w].cart # c
    BY DEF DInv, Cold, Begun
  <2> QED  BY <2>1 DEF Begun
<1> QED  BY <1>2, <1>3, <1>4 DEF DInv, Cold

LEMMA SameWindow == \A k \in Slots, w \in Windows : k = Navigation(w) => k[1] = w
  BY DEF Navigation

\* A page shows, and leaves in the session, only drafts that are in the session.
LEMMA ShownAway ==
  ASSUME DraftAssumptions, NEW s \in Session, NEW kind \in Kinds \cup {"details"},
         NEW c \in Carts, ~ In(s, c)
  PROVE  ~ In(Shown(s, kind).session, c) /\ Shown(s, kind).page.cart # c
<1>1. c # Empty /\ s.active \in Tabs  BY DEF DraftAssumptions, Session
<1>0. CASE kind = "details"
  <2>1. Shown(s, kind).session = s /\ Shown(s, kind).page.cart = Empty  BY <1>0 DEF Shown
  <2> QED  BY <1>1, <2>1
<1>2. CASE kind # "details" /\ Named
  <2> DEFINE t == Resolve(s, kind)
             cart == IF HasItems(s.draft[t]) /\ KindOf[s.draft[t]] = kind THEN s.draft[t] ELSE Empty
  <2>1. t \in Tabs  BY ResolveInTabs
  <2>2. Shown(s, kind).session = [s EXCEPT !.active = t] /\ Shown(s, kind).page.cart = cart
    BY <1>2 DEF Shown, DeliveryPage
  <2> HIDE DEF t
  <2>3. cart # c  BY <1>1, <2>1 DEF In
  <2> QED  BY <2>1, <2>2, <2>3, DraftsAfter
<1>3. CASE kind # "details" /\ ~ Named
  <2> DEFINE t == s.active
             cart == IF HasItems(s.draft[t]) THEN s.draft[t] ELSE Empty
  <2>1. Shown(s, kind).session \in {s, ClearDraft(s, t)} /\ Shown(s, kind).page.cart = cart
    BY <1>3 DEF Shown, SalePage
  <2>2. cart # c  BY <1>1 DEF In
  <2> HIDE DEF cart, t
  <2>3. \A u \in Tabs \ {t} : s.draft[u] # c  BY DEF In
  <2>4. t \in Tabs  BY <1>1 DEF t
  <2> QED  BY <2>1, <2>2, <2>3, <2>4, DraftsAfter
<1> QED  BY <1>0, <1>2, <1>3

LEMMA AnswerDInv ==
  ASSUME DraftAssumptions, IInv, DInv, NEW k \in Slots,
         \/ AnswerGet(k) \/ AnswerAutosave(k) \/ AnswerSwitch(k) \/ AnswerCancel(k)
         \/ AnswerRefuse(k)
  PROVE  DInv'
<1> DEFINE q == request[k]
           t == TabOf(q, q.session)
<1>0. page \in [Windows -> Page] /\ k[1] \in Windows
  BY DEF IInv, Types, TypeOK, Slots
<1>1. CASE AnswerGet(k)
  <2> DEFINE shown == Shown(q.session, q.page.kind)
             s == IF shown.session = q.session THEN session ELSE shown.session
  <2>1. Loaded(k, "get") /\ Answer(k, s, None)
        /\ page' = [page EXCEPT ![k[1]] = shown.page] /\ UNCHANGED <<home, done, tangled>>
    BY <1>1 DEF AnswerGet
  <2>2. q # None /\ q.session \in Session /\ q.page.kind \in Kinds \cup {"details"}
    BY <2>1, AnsweredRequest
  <2>3. ASSUME NEW c \in Carts, Away(c)
        PROVE  /\ ~ In(s, c)
               /\ \A w \in Windows : page'[w].cart = c =>
                    page[w].cart = c /\ (k = Navigation(w) => None # None)
    <3>1. ~ In(q.session, c) /\ ~ In(session, c)
      BY <2>1, <2>2, <2>3 DEF Away, Loaded
    <3>2. ~ In(shown.session, c) /\ shown.page.cart # c  BY <2>2, <3>1, <2>3, ShownAway
    <3> HIDE DEF shown, q
    <3> QED  BY <1>0, <2>1, <3>1, <3>2, SameWindow
  <2> HIDE DEF s, shown
  <2> QED  BY <2>1, <2>2, <2>3, AnswersDInv
<1>2. CASE AnswerAutosave(k)
  <2> DEFINE kept == IF q.page.cart = Empty THEN Bare ELSE q.page.cart
             s == [SetDraft(q.session, t, kept) EXCEPT !.change[t] = FALSE]
  <2>1. Loaded(k, "autosave") /\ Answer(k, s, None) /\ UNCHANGED <<page, home, done, tangled>>
    BY <1>2 DEF AnswerAutosave
  <2>2. q # None /\ q.session \in Session /\ t \in Tabs /\ q.page.cart \in Kept
    BY <2>1, AnsweredRequest
  <2>3. ASSUME NEW c \in Carts, Away(c)
        PROVE  /\ ~ In(s, c)
               /\ \A w \in Windows : page'[w].cart = c =>
                    page[w].cart = c /\ (k = Navigation(w) => None # None)
    <3>1. ~ In(q.session, c) /\ kept # c
      BY <2>1, <2>2, <2>3 DEF Away, Loaded, DraftAssumptions
    <3>2. \A w \in Windows : k = Navigation(w) => page[w].cart # c
      BY <2>1, <2>3 DEF Away, Loaded
    <3>3. kept \in Kept  BY <2>2 DEF Kept
    <3> HIDE DEF q, t, kept
    <3>4. SetDraft(q.session, t, kept) \in Session /\ ~ In(SetDraft(q.session, t, kept), c)
      BY <2>2, <2>3, <3>1, <3>3, SetDraftKeeps, DraftsAfter
    <3>5. ~ In(s, c)  BY <2>2, <2>3, <3>4, DraftsAfter
    <3> QED  BY <2>1, <3>2, <3>5
  <2> HIDE DEF s
  <2> QED  BY <2>1, <2>2, <2>3, AnswersDInv
<1>3. CASE AnswerSwitch(k)
  <2> DEFINE s == [q.session EXCEPT !.active = q.to]
             next == GoOn(q, KindAfterSwitch(q.session, q))
  <2>1. Loaded(k, "switch") /\ Answer(k, s, next) /\ UNCHANGED <<page, home, done, tangled>>
    BY <1>3 DEF AnswerSwitch
  <2>2. /\ q # None /\ q.session \in Session /\ q.to \in Tabs /\ q.page \in Page
        /\ q.page.kind \in Kinds \cup {"details"} /\ q.op = "switch"
    BY <2>1, AnsweredRequest DEF Loaded
  <2>3. next \in Waiting /\ next.op = "get" /\ next # None
    <3>1. KindAfterSwitch(q.session, q) \in Kinds \cup {"details"}
      BY <2>2 DEF KindAfterSwitch, HasItems, DraftAssumptions
    <3>2. next # None  BY DEF GoOn, Sent, None
    <3> QED  BY <2>2, <3>1, <3>2, GoOnKeeps
  <2>4. \A c \in Carts : Away(c) => ~ In(s, c)
    BY <2>1, <2>2, DraftsAfter DEF Away, Loaded
  <2> HIDE DEF s, next
  <2> QED  BY <2>1, <2>2, <2>3, <2>4, AnswersDInv
<1>4. CASE AnswerCancel(k)
  <2> DEFINE s == [ClearDraft(q.session, t) EXCEPT !.active = t]
             next == GoOn(q, q.page.kind)
  <2>1. Loaded(k, "cancel") /\ Answer(k, s, next) /\ UNCHANGED <<page, home, done, tangled>>
    BY <1>4 DEF AnswerCancel
  <2>2. /\ q # None /\ q.session \in Session /\ t \in Tabs /\ q.page \in Page
        /\ q.page.kind \in Kinds \cup {"details"} /\ q.op = "cancel"
    BY <2>1, AnsweredRequest DEF Loaded
  <2>3. next \in Waiting /\ next.op = "get" /\ next # None
    <3>1. next # None  BY DEF GoOn, Sent, None
    <3> QED  BY <2>2, <3>1, GoOnKeeps
  <2>4. ASSUME NEW c \in Carts, Away(c) PROVE ~ In(s, c)
    <3>1. \A u \in Tabs \ {t} : q.session.draft[u] # c  BY <2>1, <2>2, <2>4 DEF Away, Loaded, In
    <3> HIDE DEF q, t
    <3>2. ClearDraft(q.session, t) \in Session /\ ~ In(ClearDraft(q.session, t), c)
      BY <2>2, <2>4, <3>1, ClearDraftKeeps, DraftsAfter
    <3> QED  BY <2>2, <2>4, <3>2, DraftsAfter
  <2> HIDE DEF s, next
  <2> QED  BY <2>1, <2>2, <2>3, <2>4, AnswersDInv
<1>5. CASE AnswerRefuse(k)
  <2> DEFINE s == SetDraft(q.session, t, q.page.cart)
             p == [q.page EXCEPT !.tab = t]
  <2>1. Loaded(k, "complete") /\ Answer(k, s, None) /\ page' = [page EXCEPT ![k[1]] = p]
        /\ UNCHANGED <<home, done, tangled>>
    BY <1>5 DEF AnswerRefuse
  <2>2. q # None /\ q.session \in Session /\ t \in Tabs /\ q.page \in Page
    BY <2>1, AnsweredRequest
  <2>3. p.cart = q.page.cart  BY <2>2 DEF Page
  <2>4. ASSUME NEW c \in Carts, Away(c)
        PROVE  /\ ~ In(s, c)
               /\ \A w \in Windows : page'[w].cart = c =>
                    page[w].cart = c /\ (k = Navigation(w) => None # None)
    <3>1. ~ In(q.session, c) /\ q.page.cart # c  BY <2>1, <2>2, <2>4 DEF Away, Loaded
    <3> HIDE DEF q, t, p
    <3>2. ~ In(s, c)  BY <2>2, <2>4, <3>1, DraftsAfter
    <3> QED  BY <1>0, <2>1, <2>3, <3>1, <3>2, SameWindow
  <2> HIDE DEF s, p
  <2> QED  BY <2>1, <2>2, <2>4, AnswersDInv
<1> QED  BY <1>1, <1>2, <1>3, <1>4, <1>5

\* The cart that is completed was not cold; if nothing else held it, it is away
\* from now on.
LEMMA CompleteDInv ==
  ASSUME DraftAssumptions, IInv, DInv, NEW k \in Slots, NEW change \in BOOLEAN,
         AnswerComplete(k, change)
  PROVE  DInv'
<1> DEFINE q == request[k]
           t == TabOf(q, q.session)
           s == [ClearDraft(q.session, t) EXCEPT !.change[t] = @ \/ (change /\ ~ Named)]
           kind == IF q.page.kind \in {"sale", "delivery"} THEN q.page.kind ELSE "details"
           next == GoOn(q, kind)
<1>a. PICK done1 \in Carts : done1 = q.page.cart
  <2>1. Loaded(k, "complete")  BY DEF AnswerComplete
  <2>2. q.page.cart \in Carts  BY <2>1, AnsweredRequest DEF Loaded, Page, IInv, Completes
  <2> QED  BY <2>2
<1>0. /\ page \in [Windows -> Page] /\ k[1] \in Windows
      /\ request \in [Slots -> {None} \cup Waiting \cup Running]
  BY DEF IInv, Types, TypeOK, Slots
<1>1. /\ Loaded(k, "complete") /\ done' = done \cup {done1} /\ home' = home
      /\ tangled' = IF HeldElsewhere(k, done1, t) THEN tangled \cup {done1} ELSE tangled
      /\ Answer(k, s, next) /\ page' = page
  BY <1>a DEF AnswerComplete
<1>2. /\ q # None /\ q.loaded /\ q.op = "complete" /\ q.session \in Session /\ t \in Tabs
      /\ q.page \in Page /\ q.page.kind \in Kinds \cup {"details"} /\ done1 = q.page.cart
  BY <1>1, <1>a, AnsweredRequest DEF Loaded
<1>3. next \in Waiting /\ next.op = "get" /\ next # None /\ ~ next.loaded
  <2>1. next # None /\ ~ next.loaded  BY DEF GoOn, Sent, None
  <2>2. kind \in Kinds \cup {"details"}  BY <1>2
  <2> HIDE DEF kind
  <2> QED  BY <1>2, <2>1, <2>2, GoOnKeeps
<1>5. ~ Cold(done1) /\ k[2] # "autosave"
  BY <1>2 DEF DInv, Away, Slotted
<1>6. \A c \in Carts : (\A u \in Tabs \ {t} : q.session.draft[u] # c) => ~ In(s, c)
  <2> SUFFICES ASSUME NEW c \in Carts, \A u \in Tabs \ {t} : q.session.draft[u] # c
               PROVE  ~ In(s, c)
    OBVIOUS
  <2> HIDE DEF q, t
  <2> DEFINE cleared == ClearDraft(q.session, t)
  <2>1. cleared \in Session /\ ~ In(cleared, c)  BY <1>2, ClearDraftKeeps, DraftsAfter
  <2>2. s = [cleared EXCEPT !.change[t] = cleared.change[t] \/ (change /\ ~ Named)]  OBVIOUS
  <2> HIDE DEF cleared, s
  <2> QED  BY <1>2, <2>1, <2>2, DraftsAfter
<1> HIDE DEF next
<1>8. request'[k] = next /\ session' = s /\ \A j \in Slots \ {k} : request'[j] = request[j]
  BY <1>0, <1>1 DEF Answer
<1>9. Slotted' /\ Begun'  BY <1>1, <1>3, <1>5, <1>8 DEF DInv, Slotted, Begun
<1>10. \A w \in Windows : w = k[1] <=> k = Navigation(w)
  BY <1>5 DEF Slots, Navigation
<1>11. ASSUME NEW c \in Carts, Away(c) PROVE Away(c)'
  <2>1. \A u \in Tabs : q.session.draft[u] # c  BY <1>2, <1>11 DEF Away, In
  <2>2. ~ In(s, c)  BY <1>6, <2>1
  <2>3. \A w \in Windows : page'[w].cart = c => page[w].cart = c  BY <1>1
  <2> HIDE DEF q, s
  <2> QED  BY <1>1, <1>3, <1>11, <2>2, <2>3, AnswerAway
<1>12. ASSUME Cold(done1)' PROVE Away(done1)'
  <2>1. ~ HeldElsewhere(k, done1, t)  BY <1>1, <1>2, <1>5, <1>12 DEF Cold
  <2>2. /\ InFlight = {k} /\ \A w \in Windows \ {k[1]} : page[w].cart # done1
        /\ \A u \in Tabs \ {t} : q.session.draft[u] # done1
    BY <2>1 DEF HeldElsewhere
  <2>3. \A j \in Slots \ {k} : request[j] = None  BY <2>2 DEF InFlight
  <2>5. ~ In(s, done1)  BY <1>2, <1>6, <2>2
  <2> HIDE DEF s
  <2>6. ~ In(session, done1)'  BY <1>8, <2>5 DEF In
  <2>7. \A j \in Slots : request'[j] # None => request'[j].op = "get" /\ ~ request'[j].loaded
    BY <1>3, <1>8, <2>3
  <2>8. ASSUME NEW w \in Windows, page'[w].cart = done1
        PROVE  request'[Navigation(w)] # None /\ request'[Navigation(w)].op = "get"
    <3>1. w = k[1]  BY <1>1, <2>2, <2>8
    <3> QED  BY <1>3, <1>8, <1>10, <3>1
  <2> QED  BY <2>6, <2>7, <2>8 DEF Away, In
<1>13. ASSUME NEW c \in Carts
       PROVE  (c \in done' => home'[c] # 0) /\ (Cold(c)' => Away(c)')
  <2>1. CASE c = done1  BY <1>1, <1>5, <1>12, <2>1 DEF Cold
  <2>2. CASE c # done1
    <3>1. Cold(c)' => Cold(c)  BY <1>1, <2>2 DEF Cold
    <3> QED  BY <1>1, <1>11, <2>2, <3>1 DEF DInv
  <2> QED  BY <2>1, <2>2
<1> QED  BY <1>9, <1>13 DEF DInv

LEMMA StepDInv == DraftAssumptions /\ IInv /\ DInv /\ [Next]_vars => DInv'
<1> SUFFICES ASSUME DraftAssumptions, IInv, DInv, [Next]_vars PROVE DInv'  OBVIOUS
<1>1. CASE UNCHANGED vars
  BY <1>1 DEF vars, DInv, Slotted, Begun, Cold, Away, In
<1>2. CASE Next
  BY <1>2, BrowserDInv, AnswerDInv, CompleteDInv DEF Next
<1> QED  BY <1>1, <1>2

LEMMA DInvGone == IInv /\ DInv => DoneIsGone
<1> SUFFICES ASSUME IInv, DInv, NEW t \in Tabs, session.draft[t] \in done,
                    session.draft[t] \notin tangled
             PROVE  FALSE
  BY DEF DoneIsGone
<1>1. done \subseteq Carts  BY DEF IInv, Types, TypeOK
<1> QED  BY <1>1 DEF DInv, Cold, Away, In

-----------------------------------------------------------------------------
(* The theorems *)

LEMMA IInvHome == IInv => DraftsStayHome
  BY DEF IInv, Home, AtHome, DraftsStayHome

\* The variables of Drafts have their types in every reachable state, for any
\* tabs, windows and carts, on either screen.
THEOREM TypeCorrect == DraftAssumptions => (Spec => []TypeOK)
<1>1. IInv => TypeOK  BY DEF IInv, Types
<1> QED  BY <1>1, Inductive, PTL

\* deliveries/tab_state.py: however many windows and autosaves overlap and
\* whichever copy of the session wins, a delivery's draft is on the tab it was
\* begun on.
THEOREM DraftsStay == DraftAssumptions => (Spec => []DraftsStayHome)
  BY IInvHome, Inductive, PTL

\* sales/tab_state.py, deliveries/tab_state.py: however many windows, autosaves and
\* copies of the session there are, the cart of a saved document is not a draft
\* again unless something else held it when it was saved or its page, still shown,
\* posted it once more.
THEOREM DoneStaysGone == DraftAssumptions => (Spec => []DoneIsGone)
<1> SUFFICES ASSUME DraftAssumptions PROVE Spec => []DoneIsGone  OBVIOUS
<1>1. Init => DInv  BY InitDInv
<1>2. IInv /\ DInv /\ [Next]_vars => DInv'  BY StepDInv
<1>3. Spec => []IInv  BY Inductive
<1>4. IInv /\ DInv => DoneIsGone  BY DInvGone
<1> QED  BY <1>1, <1>2, <1>3, <1>4, PTL DEF Spec
=============================================================================
