---------------------------- MODULE OfficeProofs ----------------------------
(***************************************************************************)
(* Theorems of the office: a behaviour of Office that follows a part is a  *)
(* behaviour of that part, so the inductive invariant of each part (IInv in  *)
(* its module) gives the property of the office that speaks of it, for any   *)
(* users, requests, tabs and whatever constants the other parts have.  The   *)
(* proofs of the drafts are in DraftsProofs, those of the other parts here.  *)
(***************************************************************************)
EXTENDS Office, SumTheorems, SequenceTheorems, TLAPS

OnDeliveries == INSTANCE DraftsProofs
    WITH Windows <- Users, Carts <- DeliveryCarts,
         Kinds <- {KindOf[c] : c \in DeliveryCarts}, Named <- TRUE
OnSales == INSTANCE DraftsProofs
    WITH Windows <- Users, Carts <- SaleCarts, Kinds <- {"sale"},
         KindOf <- [c \in SaleCarts |-> "sale"], Named <- FALSE

-----------------------------------------------------------------------------
(* The parts and the modules of their proofs define the same operators *)

LEMMA DraftsAlike ==
  /\ DeliveryDrafts!DraftAssumptions => OnDeliveries!DraftAssumptions
  /\ DeliveryDrafts!Init => OnDeliveries!Init
  /\ DeliveryDrafts!Next => OnDeliveries!Next
  /\ OnDeliveries!DraftsStayHome => DeliveryDrafts!DraftsStayHome
  /\ OnDeliveries!DoneIsGone => DeliveryDrafts!DoneIsGone
  /\ OnDeliveries!TypeOK => DeliveryDrafts!TypeOK
<1>1. DeliveryDrafts!DraftAssumptions => OnDeliveries!DraftAssumptions
  BY DEF DeliveryDrafts!DraftAssumptions, OnDeliveries!DraftAssumptions
<1>2. DeliveryDrafts!Init => OnDeliveries!Init
  BY DEF DeliveryDrafts!Init, OnDeliveries!Init, DeliveryDrafts!Lowest,
     OnDeliveries!Lowest, DeliveryDrafts!None, OnDeliveries!None, DeliveryDrafts!Slots,
     OnDeliveries!Slots
<1>3. DeliveryDrafts!Next => OnDeliveries!Next
  <2>1. \A w, c : DeliveryDrafts!Start(w, c) => OnDeliveries!Start(w, c)
    BY DEF DeliveryDrafts!Start, OnDeliveries!Start, DeliveryDrafts!Navigation,
       OnDeliveries!Navigation, DeliveryDrafts!None, OnDeliveries!None
  <2>2. \A k : DeliveryDrafts!Free(k) => OnDeliveries!Free(k)
    <3>1. DeliveryDrafts!InFlight = OnDeliveries!InFlight
      BY DEF DeliveryDrafts!InFlight, OnDeliveries!InFlight, DeliveryDrafts!Slots,
         OnDeliveries!Slots, DeliveryDrafts!None, OnDeliveries!None
    <3>2. \A T : DeliveryDrafts!Cardinality(T) = OnDeliveries!Cardinality(T)
      BY DEF DeliveryDrafts!Cardinality, OnDeliveries!Cardinality
    <3> QED  BY <3>1, <3>2 DEF DeliveryDrafts!Free, OnDeliveries!Free,
                DeliveryDrafts!None, OnDeliveries!None
  <2>3. \A w, op, to, kind : DeliveryDrafts!Navigate(w, op, to, kind)
          => OnDeliveries!Navigate(w, op, to, kind)
    BY <2>2 DEF DeliveryDrafts!Navigate, OnDeliveries!Navigate, DeliveryDrafts!Navigation,
       OnDeliveries!Navigation, DeliveryDrafts!WithSession, OnDeliveries!WithSession,
       DeliveryDrafts!Sent, OnDeliveries!Sent
  <2>4. \A w : DeliveryDrafts!Autosave(w) => OnDeliveries!Autosave(w)
    BY <2>2 DEF DeliveryDrafts!Autosave, OnDeliveries!Autosave, DeliveryDrafts!Navigation,
       OnDeliveries!Navigation, DeliveryDrafts!None, OnDeliveries!None,
       DeliveryDrafts!Sent, OnDeliveries!Sent
  <2>5. \A k : DeliveryDrafts!Load(k) => OnDeliveries!Load(k)
    BY DEF DeliveryDrafts!Load, OnDeliveries!Load, DeliveryDrafts!None, OnDeliveries!None,
       DeliveryDrafts!WithSession, OnDeliveries!WithSession
  <2>6. \A k : DeliveryDrafts!AnswerGet(k) => OnDeliveries!AnswerGet(k)
    <3>1. \A T : DeliveryDrafts!Lowest(T) = OnDeliveries!Lowest(T)
      BY DEF DeliveryDrafts!Lowest, OnDeliveries!Lowest
    <3>2. \A s, kind : DeliveryDrafts!Resolve(s, kind) = OnDeliveries!Resolve(s, kind)
      BY <3>1 DEF DeliveryDrafts!Resolve, OnDeliveries!Resolve, DeliveryDrafts!HasItems,
         OnDeliveries!HasItems
    <3>3. \A s, kind : DeliveryDrafts!Shown(s, kind) = OnDeliveries!Shown(s, kind)
      BY <3>2 DEF DeliveryDrafts!Shown, OnDeliveries!Shown, DeliveryDrafts!DeliveryPage,
         OnDeliveries!DeliveryPage, DeliveryDrafts!HasItems, OnDeliveries!HasItems
    <3> QED
      BY <3>3 DEF DeliveryDrafts!AnswerGet, OnDeliveries!AnswerGet, DeliveryDrafts!Loaded,
         OnDeliveries!Loaded, DeliveryDrafts!None, OnDeliveries!None,
         DeliveryDrafts!Answer, OnDeliveries!Answer
  <2>7. \A k : DeliveryDrafts!AnswerAutosave(k) => OnDeliveries!AnswerAutosave(k)
    BY DEF DeliveryDrafts!AnswerAutosave, OnDeliveries!AnswerAutosave,
       DeliveryDrafts!Loaded, OnDeliveries!Loaded, DeliveryDrafts!None, OnDeliveries!None,
       DeliveryDrafts!Answer, OnDeliveries!Answer, DeliveryDrafts!TabOf,
       OnDeliveries!TabOf, DeliveryDrafts!SetDraft, OnDeliveries!SetDraft
  <2>8. \A k : DeliveryDrafts!AnswerSwitch(k) => OnDeliveries!AnswerSwitch(k)
    BY DEF DeliveryDrafts!AnswerSwitch, OnDeliveries!AnswerSwitch, DeliveryDrafts!Loaded,
       OnDeliveries!Loaded, DeliveryDrafts!None, OnDeliveries!None, DeliveryDrafts!Answer,
       OnDeliveries!Answer, DeliveryDrafts!GoOn, OnDeliveries!GoOn, DeliveryDrafts!Sent,
       OnDeliveries!Sent, DeliveryDrafts!KindAfterSwitch, OnDeliveries!KindAfterSwitch,
       DeliveryDrafts!HasItems, OnDeliveries!HasItems
  <2>9. \A k : DeliveryDrafts!AnswerCancel(k) => OnDeliveries!AnswerCancel(k)
    BY DEF DeliveryDrafts!AnswerCancel, OnDeliveries!AnswerCancel, DeliveryDrafts!Loaded,
       OnDeliveries!Loaded, DeliveryDrafts!None, OnDeliveries!None, DeliveryDrafts!Answer,
       OnDeliveries!Answer, DeliveryDrafts!GoOn, OnDeliveries!GoOn, DeliveryDrafts!Sent,
       OnDeliveries!Sent, DeliveryDrafts!TabOf, OnDeliveries!TabOf,
       DeliveryDrafts!ClearDraft, OnDeliveries!ClearDraft
  <2>10. \A k : DeliveryDrafts!AnswerRefuse(k) => OnDeliveries!AnswerRefuse(k)
    BY DEF DeliveryDrafts!AnswerRefuse, OnDeliveries!AnswerRefuse, DeliveryDrafts!Loaded,
       OnDeliveries!Loaded, DeliveryDrafts!None, OnDeliveries!None, DeliveryDrafts!Answer,
       OnDeliveries!Answer, DeliveryDrafts!TabOf, OnDeliveries!TabOf,
       DeliveryDrafts!SetDraft, OnDeliveries!SetDraft
  <2>11. \A k, change : DeliveryDrafts!AnswerComplete(k, change)
           => OnDeliveries!AnswerComplete(k, change)
    BY DEF DeliveryDrafts!AnswerComplete, OnDeliveries!AnswerComplete,
       DeliveryDrafts!Loaded, OnDeliveries!Loaded, DeliveryDrafts!None, OnDeliveries!None,
       DeliveryDrafts!Answer, OnDeliveries!Answer, DeliveryDrafts!GoOn, OnDeliveries!GoOn,
       DeliveryDrafts!Sent, OnDeliveries!Sent, DeliveryDrafts!TabOf, OnDeliveries!TabOf,
       DeliveryDrafts!ClearDraft, OnDeliveries!ClearDraft, DeliveryDrafts!HeldElsewhere,
       OnDeliveries!HeldElsewhere, DeliveryDrafts!InFlight, OnDeliveries!InFlight,
       DeliveryDrafts!Slots, OnDeliveries!Slots
  <2> QED
    BY <2>1, <2>3, <2>4, <2>5, <2>6, <2>7, <2>8, <2>9, <2>10, <2>11 DEF
       DeliveryDrafts!Next, OnDeliveries!Next, DeliveryDrafts!Slots, OnDeliveries!Slots,
       DeliveryDrafts!Ops, OnDeliveries!Ops
<1>4. OnDeliveries!DraftsStayHome => DeliveryDrafts!DraftsStayHome
  BY DEF DeliveryDrafts!DraftsStayHome, OnDeliveries!DraftsStayHome
<1>5. OnDeliveries!DoneIsGone => DeliveryDrafts!DoneIsGone
  BY DEF DeliveryDrafts!DoneIsGone, OnDeliveries!DoneIsGone
<1>6. OnDeliveries!TypeOK => DeliveryDrafts!TypeOK
  BY DEF DeliveryDrafts!TypeOK, OnDeliveries!TypeOK, DeliveryDrafts!Session,
     OnDeliveries!Session, DeliveryDrafts!Page, OnDeliveries!Page, DeliveryDrafts!Slots,
     OnDeliveries!Slots, DeliveryDrafts!None, OnDeliveries!None, DeliveryDrafts!Ops,
     OnDeliveries!Ops
<1> QED  BY <1>1, <1>2, <1>3, <1>4, <1>5, <1>6

LEMMA SalesAlike ==
  /\ SaleDrafts!DraftAssumptions => OnSales!DraftAssumptions
  /\ SaleDrafts!Init => OnSales!Init
  /\ SaleDrafts!Next => OnSales!Next
  /\ OnSales!DoneIsGone => SaleDrafts!DoneIsGone
  /\ OnSales!TypeOK => SaleDrafts!TypeOK
<1>1. SaleDrafts!DraftAssumptions => OnSales!DraftAssumptions
  BY DEF SaleDrafts!DraftAssumptions, OnSales!DraftAssumptions
<1>2. SaleDrafts!Init => OnSales!Init
  BY DEF SaleDrafts!Init, OnSales!Init, SaleDrafts!Lowest, OnSales!Lowest,
     SaleDrafts!None, OnSales!None, SaleDrafts!Slots, OnSales!Slots
<1>3. SaleDrafts!Next => OnSales!Next
  <2>1. \A w, c : SaleDrafts!Start(w, c) => OnSales!Start(w, c)
    BY DEF SaleDrafts!Start, OnSales!Start, SaleDrafts!Navigation, OnSales!Navigation,
           SaleDrafts!None, OnSales!None
  <2>2. \A k : SaleDrafts!Free(k) => OnSales!Free(k)
    <3>1. SaleDrafts!InFlight = OnSales!InFlight
      BY DEF SaleDrafts!InFlight, OnSales!InFlight, SaleDrafts!Slots, OnSales!Slots,
             SaleDrafts!None, OnSales!None
    <3>2. \A T : SaleDrafts!Cardinality(T) = OnSales!Cardinality(T)
      BY DEF SaleDrafts!Cardinality, OnSales!Cardinality
    <3> QED  BY <3>1, <3>2 DEF SaleDrafts!Free, OnSales!Free, SaleDrafts!None,
                OnSales!None
  <2>3. \A w, op, to, kind : SaleDrafts!Navigate(w, op, to, kind)
          => OnSales!Navigate(w, op, to, kind)
    BY <2>2 DEF SaleDrafts!Navigate, OnSales!Navigate, SaleDrafts!Navigation,
       OnSales!Navigation, SaleDrafts!WithSession, OnSales!WithSession, SaleDrafts!Sent,
       OnSales!Sent
  <2>4. \A w : SaleDrafts!Autosave(w) => OnSales!Autosave(w)
    BY <2>2 DEF SaleDrafts!Autosave, OnSales!Autosave, SaleDrafts!Navigation,
       OnSales!Navigation, SaleDrafts!None, OnSales!None, SaleDrafts!Sent, OnSales!Sent
  <2>5. \A k : SaleDrafts!Load(k) => OnSales!Load(k)
    BY DEF SaleDrafts!Load, OnSales!Load, SaleDrafts!None, OnSales!None,
       SaleDrafts!WithSession, OnSales!WithSession
  <2>6. \A k : SaleDrafts!AnswerGet(k) => OnSales!AnswerGet(k)
    <3>1. \A s, kind : SaleDrafts!Shown(s, kind) = OnSales!Shown(s, kind)
      BY DEF SaleDrafts!Shown, OnSales!Shown, SaleDrafts!SalePage, OnSales!SalePage,
         SaleDrafts!ClearDraft, OnSales!ClearDraft, SaleDrafts!HasItems, OnSales!HasItems
    <3> QED
      BY <3>1 DEF SaleDrafts!AnswerGet, OnSales!AnswerGet, SaleDrafts!Loaded,
         OnSales!Loaded, SaleDrafts!None, OnSales!None, SaleDrafts!Answer, OnSales!Answer
  <2>7. \A k : SaleDrafts!AnswerAutosave(k) => OnSales!AnswerAutosave(k)
    BY DEF SaleDrafts!AnswerAutosave, OnSales!AnswerAutosave, SaleDrafts!Loaded,
       OnSales!Loaded, SaleDrafts!None, OnSales!None, SaleDrafts!Answer, OnSales!Answer,
       SaleDrafts!TabOf, OnSales!TabOf, SaleDrafts!SetDraft, OnSales!SetDraft
  <2>8. \A k : SaleDrafts!AnswerSwitch(k) => OnSales!AnswerSwitch(k)
    BY DEF SaleDrafts!AnswerSwitch, OnSales!AnswerSwitch, SaleDrafts!Loaded,
       OnSales!Loaded, SaleDrafts!None, OnSales!None, SaleDrafts!Answer, OnSales!Answer,
       SaleDrafts!GoOn, OnSales!GoOn, SaleDrafts!Sent, OnSales!Sent,
       SaleDrafts!KindAfterSwitch, OnSales!KindAfterSwitch, SaleDrafts!HasItems,
       OnSales!HasItems
  <2>9. \A k : SaleDrafts!AnswerCancel(k) => OnSales!AnswerCancel(k)
    BY DEF SaleDrafts!AnswerCancel, OnSales!AnswerCancel, SaleDrafts!Loaded,
       OnSales!Loaded, SaleDrafts!None, OnSales!None, SaleDrafts!Answer, OnSales!Answer,
       SaleDrafts!GoOn, OnSales!GoOn, SaleDrafts!Sent, OnSales!Sent, SaleDrafts!TabOf,
       OnSales!TabOf, SaleDrafts!ClearDraft, OnSales!ClearDraft
  <2>10. \A k : SaleDrafts!AnswerRefuse(k) => OnSales!AnswerRefuse(k)
    BY DEF SaleDrafts!AnswerRefuse, OnSales!AnswerRefuse, SaleDrafts!Loaded,
       OnSales!Loaded, SaleDrafts!None, OnSales!None, SaleDrafts!Answer, OnSales!Answer,
       SaleDrafts!TabOf, OnSales!TabOf, SaleDrafts!SetDraft, OnSales!SetDraft
  <2>11. \A k, change : SaleDrafts!AnswerComplete(k, change)
           => OnSales!AnswerComplete(k, change)
    BY DEF SaleDrafts!AnswerComplete, OnSales!AnswerComplete, SaleDrafts!Loaded,
       OnSales!Loaded, SaleDrafts!None, OnSales!None, SaleDrafts!Answer, OnSales!Answer,
       SaleDrafts!GoOn, OnSales!GoOn, SaleDrafts!Sent, OnSales!Sent, SaleDrafts!TabOf,
       OnSales!TabOf, SaleDrafts!ClearDraft, OnSales!ClearDraft, SaleDrafts!HeldElsewhere,
       OnSales!HeldElsewhere, SaleDrafts!InFlight, OnSales!InFlight, SaleDrafts!Slots,
       OnSales!Slots
  <2> QED
    BY <2>1, <2>3, <2>4, <2>5, <2>6, <2>7, <2>8, <2>9, <2>10, <2>11 DEF SaleDrafts!Next,
       OnSales!Next, SaleDrafts!Slots, OnSales!Slots, SaleDrafts!Ops, OnSales!Ops
<1>4. OnSales!DoneIsGone => SaleDrafts!DoneIsGone
  BY DEF SaleDrafts!DoneIsGone, OnSales!DoneIsGone
<1>5. OnSales!TypeOK => SaleDrafts!TypeOK
  BY DEF SaleDrafts!TypeOK, OnSales!TypeOK, SaleDrafts!Session, OnSales!Session,
     SaleDrafts!Page, OnSales!Page, SaleDrafts!Slots, OnSales!Slots, SaleDrafts!None,
     OnSales!None, SaleDrafts!Ops, OnSales!Ops
<1> QED  BY <1>1, <1>2, <1>3, <1>4, <1>5

-----------------------------------------------------------------------------
(* Orders *)

LEMMA OrdersNoOrderIsNone == \A r \in Requests, s \in Suppliers : <<r, s>> # <<>>
  OBVIOUS

LEMMA OrdersEnteredSome == \A products \in Orders!Entered : products # {}
  BY DEF Orders!Entered

LEMMA OrdersInitIInv == Orders!OrderAssumptions /\ Orders!Init => Orders!IInv
<1> SUFFICES ASSUME Orders!OrderAssumptions, Orders!Init PROVE Orders!IInv  OBVIOUS
<1>1. Orders!Types
  <2>1. Orders!Idle \in Orders!Asks  BY DEF Orders!Idle, Orders!Asks
  <2> QED  BY <2>1 DEF Orders!Types, Orders!Init, Orders!TypeOK
<1>2. \A r \in Requests : Orders!Fresh(r) /\ Orders!Holds(r) /\ Orders!Found(r)
  BY DEF Orders!Init, Orders!Fresh, Orders!Holds, Orders!Found, Orders!Creating,
     Orders!Drawing, Orders!Discarding, Orders!Editing, Orders!OrderIds
<1>3. Orders!Below /\ Orders!Unique /\ Orders!Full
  BY DEF Orders!Init, Orders!Below, Orders!Unique, Orders!Full, Orders!Saved,
     Orders!OrderIds
<1>4. Orders!FromAI /\ Orders!Whole /\ Orders!Once
  BY DEF Orders!Init, Orders!FromAI, Orders!Whole, Orders!Once, Orders!Exists
<1> QED  BY <1>1, <1>2, <1>3, <1>4 DEF Orders!IInv

LEMMA OrdersStepIInv ==
  Orders!OrderAssumptions /\ Orders!IInv /\ [Orders!Next]_(Orders!vars) => Orders!IInv'
<1> SUFFICES ASSUME Orders!OrderAssumptions, Orders!IInv, [Orders!Next]_(Orders!vars)
             PROVE  Orders!IInv'
  OBVIOUS
<1> USE DEF Orders!IInv
<1>1. ASSUME NEW r \in Requests, NEW s \in Suppliers,
             NEW products \in SUBSET OrderedProducts,
             Orders!New(r, s, products)
      PROVE Orders!IInv'
  <2>1. Orders!Types'
    BY <1>1 DEF Orders!New, Orders!Types, Orders!TypeOK, Orders!Asks, Orders!GoTo,
       Orders!Begin, Orders!OrderIds
  <2>2. \A q \in Requests : (Orders!Fresh(q) /\ Orders!Holds(q) /\ Orders!Found(q))'
    <3>1. (Orders!Fresh(r) /\ Orders!Holds(r) /\ Orders!Found(r))'
      <4>1. /\ step'[r] = "new"
            /\ asked'[r] = [order |-> <<r, s>>, products |-> products, rows |-> {}, suppliers |-> {}]
            /\ status' = status /\ origin' = origin
        BY <1>1 DEF Orders!New, Orders!Types, Orders!TypeOK, Orders!Begin
      <4>2. status[<<r, s>>] = "NONE" /\ products # {}
        BY <1>1, OrdersEnteredSome DEF Orders!New, Orders!Fresh
      <4>3. Orders!Fresh(r)'
        BY <4>1, <4>2 DEF Orders!Fresh, Orders!Creating
      <4>4. Orders!Holds(r)' /\ Orders!Found(r)'
        BY <4>1, <4>2
        DEF Orders!Holds, Orders!Found, Orders!Drawing, Orders!Discarding,
            Orders!Editing
      <4> QED  BY <4>3, <4>4
    <3>2. ASSUME NEW q \in Requests, q # r
          PROVE  (Orders!Fresh(q) /\ Orders!Holds(q) /\ Orders!Found(q))'
      <4>1. step'[q] = step[q] /\ asked'[q] = asked[q]
        BY <1>1, <3>2 DEF Orders!New, Orders!Types, Orders!TypeOK, Orders!Begin
      <4> QED
        BY <1>1, <4>1
        DEF Orders!New, Orders!Fresh, Orders!Holds, Orders!Found, Orders!Creating,
            Orders!Drawing, Orders!Discarding, Orders!Editing
    <3> QED  BY <3>1, <3>2
  <2>3. (Orders!Below /\ Orders!Unique /\ Orders!Full)'
    BY <1>1 DEF Orders!New, Orders!Below, Orders!Unique, Orders!Full, Orders!Saved
  <2>4. (Orders!FromAI /\ Orders!Whole /\ Orders!Once)'
    BY <1>1 DEF Orders!New, Orders!FromAI, Orders!Whole, Orders!Once, Orders!Exists
  <2> QED  BY <2>1, <2>2, <2>3, <2>4 DEF Orders!IInv

<1>2. ASSUME NEW r \in Requests, NEW s \in Suppliers,
             NEW products \in SUBSET OrderedProducts,
             Orders!Suggest(r, s, products)
      PROVE Orders!IInv'
  <2>1. Orders!Types'
    BY <1>2 DEF Orders!Suggest, Orders!Types, Orders!TypeOK, Orders!Asks, Orders!GoTo,
       Orders!Begin, Orders!OrderIds
  <2>2. \A q \in Requests : (Orders!Fresh(q) /\ Orders!Holds(q) /\ Orders!Found(q))'
    <3>1. (Orders!Fresh(r) /\ Orders!Holds(r) /\ Orders!Found(r))'
      <4>1. /\ step'[r] = "drafting"
            /\ asked'[r] = [order |-> IF products = {} THEN <<>> ELSE <<r, s>>, products |-> products,
                          rows |-> {}, suppliers |-> asked[r].suppliers \ {s}]
            /\ status' = status /\ origin' = origin
        BY <1>2 DEF Orders!Suggest, Orders!Types, Orders!TypeOK, Orders!Begin
      <4>2. /\ status[<<r, s>>] = "NONE"
            /\ \A t \in asked[r].suppliers : status[<<r, t>>] = "NONE"
        BY <1>2 DEF Orders!Suggest, Orders!Fresh
      <4>3. Orders!Fresh(r)'
        BY <4>1, <4>2 DEF Orders!Fresh, Orders!Creating
      <4>4. Orders!Holds(r)' /\ Orders!Found(r)'
        BY <4>1, <4>2
        DEF Orders!Holds, Orders!Found, Orders!Drawing, Orders!Discarding,
            Orders!Editing
      <4> QED  BY <4>3, <4>4
    <3>2. ASSUME NEW q \in Requests, q # r
          PROVE  (Orders!Fresh(q) /\ Orders!Holds(q) /\ Orders!Found(q))'
      <4>1. step'[q] = step[q] /\ asked'[q] = asked[q]
        BY <1>2, <3>2 DEF Orders!Suggest, Orders!Types, Orders!TypeOK, Orders!Begin
      <4> QED
        BY <1>2, <4>1 DEF Orders!Suggest, Orders!Fresh, Orders!Holds, Orders!Found,
           Orders!Creating, Orders!Drawing, Orders!Discarding, Orders!Editing
    <3> QED  BY <3>1, <3>2
  <2>3. (Orders!Below /\ Orders!Unique /\ Orders!Full)'
    BY <1>2 DEF Orders!Suggest, Orders!Below, Orders!Unique, Orders!Full, Orders!Saved
  <2>4. (Orders!FromAI /\ Orders!Whole /\ Orders!Once)'
    BY <1>2 DEF Orders!Suggest, Orders!FromAI, Orders!Whole, Orders!Once, Orders!Exists
  <2> QED  BY <2>1, <2>2, <2>3, <2>4 DEF Orders!IInv

<1>3. ASSUME NEW r \in Requests, Orders!DraftAll(r)
      PROVE Orders!IInv'
  <2>1. Orders!Types'
    BY <1>3 DEF Orders!DraftAll, Orders!Types, Orders!TypeOK, Orders!Asks, Orders!GoTo,
       Orders!Begin
  <2>2. \A q \in Requests : (Orders!Fresh(q) /\ Orders!Holds(q) /\ Orders!Found(q))'
    BY <1>3 DEF Orders!DraftAll, Orders!Types, Orders!TypeOK, Orders!Asks, Orders!GoTo,
       Orders!Begin, Orders!Fresh, Orders!Holds, Orders!Found, Orders!Creating,
       Orders!Drawing, Orders!Discarding, Orders!Editing
  <2>3. (Orders!Below /\ Orders!Unique /\ Orders!Full)'
    BY <1>3 DEF Orders!DraftAll, Orders!Below, Orders!Unique, Orders!Full, Orders!Saved
  <2>4. (Orders!FromAI /\ Orders!Whole /\ Orders!Once)'
    BY <1>3 DEF Orders!DraftAll, Orders!FromAI, Orders!Whole, Orders!Once, Orders!Exists
  <2> QED  BY <2>1, <2>2, <2>3, <2>4 DEF Orders!IInv

<1>4. ASSUME NEW r \in Requests, Orders!EndDrafts(r)
      PROVE Orders!IInv'
  <2>1. Orders!Types'
    BY <1>4 DEF Orders!EndDrafts, Orders!Types, Orders!TypeOK, Orders!Asks,
       Orders!GoTo, Orders!Begin
  <2>2. \A q \in Requests : (Orders!Fresh(q) /\ Orders!Holds(q) /\ Orders!Found(q))'
    BY <1>4 DEF Orders!EndDrafts, Orders!Types, Orders!TypeOK, Orders!Asks,
       Orders!GoTo, Orders!Begin, Orders!Fresh, Orders!Holds, Orders!Found,
       Orders!Creating, Orders!Drawing, Orders!Discarding, Orders!Editing
  <2>3. (Orders!Below /\ Orders!Unique /\ Orders!Full)'
    BY <1>4 DEF Orders!EndDrafts, Orders!Below, Orders!Unique, Orders!Full, Orders!Saved
  <2>4. (Orders!FromAI /\ Orders!Whole /\ Orders!Once)'
    BY <1>4 DEF Orders!EndDrafts, Orders!FromAI, Orders!Whole, Orders!Once,
       Orders!Exists
  <2> QED  BY <2>1, <2>2, <2>3, <2>4 DEF Orders!IInv

<1>5. ASSUME NEW r \in Requests, NEW o \in Orders!OrderIds,
             NEW products \in SUBSET OrderedProducts,
             Orders!Edit(r, o, products)
      PROVE Orders!IInv'
  <2>1. Orders!Types'
    BY <1>5 DEF Orders!Edit, Orders!Types, Orders!TypeOK, Orders!Asks, Orders!GoTo,
       Orders!Begin
  <2>2. \A q \in Requests : (Orders!Fresh(q) /\ Orders!Holds(q) /\ Orders!Found(q))'
    <3>1. (Orders!Fresh(r) /\ Orders!Holds(r) /\ Orders!Found(r))'
      <4>1. /\ step'[r] = "edit"
            /\ asked'[r] = [order |-> o, products |-> products, rows |-> {}, suppliers |-> {}]
            /\ status' = status /\ origin' = origin
        BY <1>5 DEF Orders!Edit, Orders!Types, Orders!TypeOK, Orders!Begin
      <4>2. status[o] # "NONE" /\ products # {}
        BY <1>5, OrdersEnteredSome DEF Orders!Edit, Orders!Exists
      <4>3. Orders!Fresh(r)'
        BY <4>1, <4>2 DEF Orders!Fresh, Orders!Creating
      <4>4. Orders!Holds(r)' /\ Orders!Found(r)'
        BY <4>1, <4>2
        DEF Orders!Holds, Orders!Found, Orders!Drawing, Orders!Discarding,
            Orders!Editing
      <4> QED  BY <4>3, <4>4
    <3>2. ASSUME NEW q \in Requests, q # r
          PROVE  (Orders!Fresh(q) /\ Orders!Holds(q) /\ Orders!Found(q))'
      <4>1. step'[q] = step[q] /\ asked'[q] = asked[q]
        BY <1>5, <3>2 DEF Orders!Edit, Orders!Types, Orders!TypeOK, Orders!Begin
      <4> QED
        BY <1>5, <4>1
        DEF Orders!Edit, Orders!Fresh, Orders!Holds, Orders!Found, Orders!Creating,
            Orders!Drawing, Orders!Discarding, Orders!Editing
    <3> QED  BY <3>1, <3>2
  <2>3. (Orders!Below /\ Orders!Unique /\ Orders!Full)'
    BY <1>5 DEF Orders!Edit, Orders!Below, Orders!Unique, Orders!Full, Orders!Saved
  <2>4. (Orders!FromAI /\ Orders!Whole /\ Orders!Once)'
    BY <1>5 DEF Orders!Edit, Orders!FromAI, Orders!Whole, Orders!Once, Orders!Exists
  <2> QED  BY <2>1, <2>2, <2>3, <2>4 DEF Orders!IInv

<1>6. ASSUME NEW r \in Requests, Orders!Look(r)
      PROVE Orders!IInv'
  <2>1. Orders!Types'
    BY <1>6 DEF Orders!Look, Orders!Types, Orders!TypeOK, Orders!Asks, Orders!GoTo,
       Orders!Begin, Orders!LinesOf
  <2>2. \A q \in Requests : (Orders!Fresh(q) /\ Orders!Holds(q) /\ Orders!Found(q))'
    BY <1>6 DEF Orders!Look, Orders!Types, Orders!TypeOK, Orders!Asks, Orders!GoTo,
       Orders!Begin, Orders!Fresh, Orders!Holds, Orders!Found, Orders!Creating,
       Orders!Drawing, Orders!Discarding, Orders!Editing, Orders!LinesOf
  <2>3. (Orders!Below /\ Orders!Unique /\ Orders!Full)'
    BY <1>6 DEF Orders!Look, Orders!Below, Orders!Unique, Orders!Full, Orders!Saved
  <2>4. (Orders!FromAI /\ Orders!Whole /\ Orders!Once)'
    BY <1>6 DEF Orders!Look, Orders!FromAI, Orders!Whole, Orders!Once, Orders!Exists
  <2> QED  BY <2>1, <2>2, <2>3, <2>4 DEF Orders!IInv

<1>7. ASSUME NEW r \in Requests, Orders!LockLines(r)
      PROVE Orders!IInv'
  <2>1. Orders!Types'
    BY <1>7 DEF Orders!LockLines, Orders!Types, Orders!TypeOK, Orders!Asks,
       Orders!GoTo, Orders!Begin
  <2>2. \A q \in Requests : (Orders!Fresh(q) /\ Orders!Holds(q) /\ Orders!Found(q))'
    BY <1>7 DEF Orders!LockLines, Orders!Types, Orders!TypeOK, Orders!Asks,
       Orders!GoTo, Orders!Begin, Orders!Fresh, Orders!Holds, Orders!Found,
       Orders!Creating, Orders!Drawing, Orders!Discarding, Orders!Editing
  <2>3. (Orders!Below /\ Orders!Unique /\ Orders!Full)'
    BY <1>7 DEF Orders!LockLines, Orders!Below, Orders!Unique, Orders!Full, Orders!Saved
  <2>4. (Orders!FromAI /\ Orders!Whole /\ Orders!Once)'
    BY <1>7 DEF Orders!LockLines, Orders!FromAI, Orders!Whole, Orders!Once,
       Orders!Exists
  <2> QED  BY <2>1, <2>2, <2>3, <2>4 DEF Orders!IInv

<1>8. ASSUME NEW r \in Requests, Orders!FailEdit(r)
      PROVE Orders!IInv'
  <2>1. Orders!Types'
    BY <1>8 DEF Orders!FailEdit, Orders!Types, Orders!TypeOK, Orders!Asks, Orders!GoTo,
       Orders!Begin
  <2>2. \A q \in Requests : (Orders!Fresh(q) /\ Orders!Holds(q) /\ Orders!Found(q))'
    BY <1>8 DEF Orders!FailEdit, Orders!Types, Orders!TypeOK, Orders!Asks, Orders!GoTo,
       Orders!Begin, Orders!Fresh, Orders!Holds, Orders!Found, Orders!Creating,
       Orders!Drawing, Orders!Discarding, Orders!Editing
  <2>3. (Orders!Below /\ Orders!Unique /\ Orders!Full)'
    BY <1>8 DEF Orders!FailEdit, Orders!Below, Orders!Unique, Orders!Full, Orders!Saved
  <2>4. (Orders!FromAI /\ Orders!Whole /\ Orders!Once)'
    BY <1>8 DEF Orders!FailEdit, Orders!FromAI, Orders!Whole, Orders!Once, Orders!Exists
  <2> QED  BY <2>1, <2>2, <2>3, <2>4 DEF Orders!IInv

<1>9. ASSUME NEW r \in Requests, NEW o \in Orders!OrderIds,
             NEW s \in {"confirm", "discard"},
             Orders!Find(r, s, o)
      PROVE Orders!IInv'
  <2>1. Orders!Types'
    BY <1>9 DEF Orders!Find, Orders!Types, Orders!TypeOK, Orders!Asks, Orders!GoTo,
       Orders!Begin
  <2>2. \A q \in Requests : (Orders!Fresh(q) /\ Orders!Holds(q) /\ Orders!Found(q))'
    BY <1>9 DEF Orders!Find, Orders!Types, Orders!TypeOK, Orders!Asks, Orders!GoTo,
       Orders!Begin, Orders!Fresh, Orders!Holds, Orders!Found, Orders!Creating,
       Orders!Drawing, Orders!Discarding, Orders!Editing, Orders!IsDraft, Orders!FromAI
  <2>3. (Orders!Below /\ Orders!Unique /\ Orders!Full)'
    BY <1>9 DEF Orders!Find, Orders!Below, Orders!Unique, Orders!Full, Orders!Saved
  <2>4. (Orders!FromAI /\ Orders!Whole /\ Orders!Once)'
    BY <1>9 DEF Orders!Find, Orders!FromAI, Orders!Whole, Orders!Once, Orders!Exists
  <2> QED  BY <2>1, <2>2, <2>3, <2>4 DEF Orders!IInv
<1>10. ASSUME NEW r \in Requests, Orders!Draw(r) PROVE Orders!IInv'
  <2>0. /\ asked[r].order \in Orders!OrderIds /\ asked[r].order \in {r} \X Suppliers
        /\ status[asked[r].order] = "NONE"
        /\ \A q \in Requests : ~ Orders!Drawing(q)
    BY <1>10 DEF Orders!Draw, Orders!Drawable, Orders!Fresh, Orders!Creating,
       Orders!Holds, Orders!Drawing, Orders!OrderIds, Orders!Types, Orders!TypeOK,
       Orders!OrderAssumptions
  <2>1. Orders!Types'
    BY <1>10, <2>0
    DEF Orders!Draw, Orders!Types, Orders!TypeOK, Orders!Asks, Orders!GoTo
  <2>2. \A q \in Requests : (Orders!Fresh(q) /\ Orders!Holds(q) /\ Orders!Found(q))'
    <3>1. (Orders!Fresh(r) /\ Orders!Holds(r) /\ Orders!Found(r))'
      <4>1. /\ step'[r] = (IF step[r] = "new" THEN "saving" ELSE "draftsaving")
            /\ step[r] \in {"new", "drafting"}
            /\ asked' = asked /\ status' = status /\ next' = next /\ counter' = r
            /\ number'[asked[r].order] = next
        BY <1>10, <2>0 DEF Orders!Draw, Orders!GoTo, Orders!Types, Orders!TypeOK
      <4>2. Orders!Fresh(r)'  BY <2>0, <4>1 DEF Orders!Fresh, Orders!Creating
      <4>3. Orders!Holds(r)'  BY <4>1 DEF Orders!Holds
      <4>4. Orders!Found(r)'
        BY <4>1 DEF Orders!Found, Orders!Discarding, Orders!Editing
      <4> QED  BY <4>2, <4>3, <4>4
    <3>2. ASSUME NEW q \in Requests, q # r
          PROVE  (Orders!Fresh(q) /\ Orders!Holds(q) /\ Orders!Found(q))'
      <4>1. step'[q] = step[q] /\ asked'[q] = asked[q]
        BY <1>10, <3>2
        DEF Orders!Draw, Orders!Types, Orders!TypeOK, Orders!GoTo, Orders!Begin
      <4>2. (Orders!Fresh(q) /\ Orders!Holds(q))'
        BY <1>10, <2>0, <3>2, <4>1
        DEF Orders!Draw, Orders!Fresh, Orders!Holds, Orders!Creating, Orders!Drawing,
            Orders!Types, Orders!TypeOK, Orders!Unlock
      <4>3. Orders!Found(q)'
        BY <1>10, <2>0, <3>2, <4>1
        DEF Orders!Draw, Orders!Found, Orders!Discarding, Orders!Editing, Orders!Types,
            Orders!TypeOK
      <4> QED  BY <4>2, <4>3
    <3> QED  BY <3>1, <3>2
  <2>3. (Orders!Below /\ Orders!Unique /\ Orders!Full)'
    <3>1. Orders!Saved' = Orders!Saved /\ \A o \in Orders!Saved : number'[o] = number[o]
      BY <1>10, <2>0 DEF Orders!Draw, Orders!Saved, Orders!Types, Orders!TypeOK
    <3> QED  BY <1>10, <3>1 DEF Orders!Draw, Orders!Below, Orders!Unique, Orders!Full
  <2>4. (Orders!FromAI /\ Orders!Whole /\ Orders!Once)'
    BY <1>10 DEF Orders!Draw, Orders!FromAI, Orders!Whole, Orders!Once, Orders!Exists
  <2> QED  BY <2>1, <2>2, <2>3, <2>4 DEF Orders!IInv
<1>11. ASSUME NEW r \in Requests, Orders!Create(r) PROVE Orders!IInv'
  <2>0. /\ asked[r].order \in Orders!OrderIds /\ asked[r].order \in {r} \X Suppliers
        /\ status[asked[r].order] = "NONE" /\ asked[r].products # {}
        /\ number[asked[r].order] = next /\ counter = r /\ counter' = Nothing
        /\ asked[r].products \subseteq OrderedProducts
    BY <1>11 DEF Orders!Create, Orders!Unlock, Orders!Fresh, Orders!Creating,
       Orders!Holds, Orders!Drawing, Orders!OrderIds, Orders!Types, Orders!Asks
  <2>1. Orders!Types'
    BY <1>11, <2>0
    DEF Orders!Create, Orders!Types, Orders!TypeOK, Orders!Asks, Orders!GoTo,
        Orders!Begin
  <2>2. \A q \in Requests : (Orders!Fresh(q) /\ Orders!Holds(q) /\ Orders!Found(q))'
    <3>1. (Orders!Fresh(r) /\ Orders!Holds(r) /\ Orders!Found(r))'
      BY <1>11, <2>0
      DEF Orders!Create, Orders!GoTo, Orders!Begin, Orders!Types, Orders!TypeOK,
          Orders!Fresh, Orders!Holds, Orders!Found, Orders!Creating, Orders!Drawing,
          Orders!Discarding, Orders!Editing
    <3>2. ASSUME NEW q \in Requests, q # r
          PROVE  (Orders!Fresh(q) /\ Orders!Holds(q) /\ Orders!Found(q))'
      <4>1. step'[q] = step[q] /\ asked'[q] = asked[q]
        BY <1>11, <3>2
        DEF Orders!Create, Orders!Types, Orders!TypeOK, Orders!GoTo, Orders!Begin
      <4>2. (Orders!Fresh(q) /\ Orders!Holds(q))'
        BY <1>11, <2>0, <3>2, <4>1
        DEF Orders!Create, Orders!Fresh, Orders!Holds, Orders!Creating, Orders!Drawing,
            Orders!Types, Orders!TypeOK, Orders!Unlock
      <4>3. Orders!Found(q)'
        BY <1>11, <2>0, <3>2, <4>1
        DEF Orders!Create, Orders!Found, Orders!Discarding, Orders!Editing,
            Orders!Types, Orders!TypeOK
      <4> QED  BY <4>2, <4>3
    <3> QED  BY <3>1, <3>2
  <2>3. (Orders!Below /\ Orders!Unique /\ Orders!Full)'
    <3>1. /\ Orders!Saved' = Orders!Saved \cup {asked[r].order}
               /\ asked[r].order \notin Orders!Saved
          /\ number' = number /\ next' = next + 1 /\ next \in Nat
      BY <1>11, <2>0 DEF Orders!Create, Orders!Saved, Orders!Types, Orders!TypeOK
    <3>2. Orders!Below'
      BY <2>0, <3>1 DEF Orders!Below, Orders!Types, Orders!TypeOK
    <3>3. Orders!Unique'
      BY <2>0, <3>1 DEF Orders!Unique, Orders!Below
    <3>4. Orders!Full'
      BY <2>0, <3>1 DEF Orders!Full
    <3> QED  BY <3>2, <3>3, <3>4
  <2>4. (Orders!FromAI /\ Orders!Whole /\ Orders!Once)'
    <3>0. /\ lines' = lines \cup {<<asked[r].order, p, r>> : p \in asked[r].products}
          /\ status' = [status EXCEPT ![asked[r].order] = "CONFIRMED"]
          /\ \A l \in lines : l[1] # asked[r].order
      BY <1>11, <2>0 DEF Orders!Create, Orders!Whole, Orders!Exists
    <3>1. Orders!FromAI'
      BY <1>11, <2>0 DEF Orders!Create, Orders!FromAI, Orders!Types, Orders!TypeOK
    <3>2. Orders!Whole'
      <4>1. PICK p \in asked[r].products : TRUE  BY <2>0
      <4>2. <<asked[r].order, p, r>> \in lines'  BY <3>0
      <4>3. \A o \in Orders!OrderIds \ {asked[r].order} :
              (\E l \in lines' : l[1] = o) <=> (\E l \in lines : l[1] = o)
        BY <3>0
      <4>4. \A o \in Orders!OrderIds \ {asked[r].order} : status'[o] = status[o]
        BY <3>0 DEF Orders!Types, Orders!TypeOK
      <4>5. status'[asked[r].order] \in {"DRAFT", "CONFIRMED"}
        BY <2>0, <3>0 DEF Orders!Types, Orders!TypeOK
      <4> QED  BY <2>0, <4>2, <4>3, <4>4, <4>5 DEF Orders!Whole, Orders!Exists
    <3>3. Orders!Once'
      BY <2>0, <3>0 DEF Orders!Once
    <3> QED  BY <3>1, <3>2, <3>3
  <2> QED  BY <2>1, <2>2, <2>3, <2>4 DEF Orders!IInv
<1>12. ASSUME NEW r \in Requests, Orders!SaveDraft(r) PROVE Orders!IInv'
  <2>0. /\ asked[r].order \in Orders!OrderIds /\ asked[r].order \in {r} \X Suppliers
        /\ status[asked[r].order] = "NONE" /\ asked[r].products # {}
        /\ number[asked[r].order] = next /\ counter = r /\ counter' = Nothing
        /\ asked[r].products \subseteq OrderedProducts
    BY <1>12 DEF Orders!SaveDraft, Orders!Unlock, Orders!Fresh, Orders!Creating,
       Orders!Holds, Orders!Drawing, Orders!OrderIds, Orders!Types, Orders!Asks
  <2>1. Orders!Types'
    BY <1>12, <2>0 DEF Orders!SaveDraft, Orders!Types, Orders!TypeOK, Orders!Asks,
       Orders!GoTo, Orders!Begin
  <2>2. \A q \in Requests : (Orders!Fresh(q) /\ Orders!Holds(q) /\ Orders!Found(q))'
    <3>1. (Orders!Fresh(r) /\ Orders!Holds(r) /\ Orders!Found(r))'
      BY <1>12, <2>0 DEF Orders!SaveDraft, Orders!GoTo, Orders!Begin, Orders!Types,
         Orders!TypeOK, Orders!Fresh, Orders!Holds, Orders!Found, Orders!Creating,
         Orders!Drawing, Orders!Discarding, Orders!Editing
    <3>2. ASSUME NEW q \in Requests, q # r
          PROVE  (Orders!Fresh(q) /\ Orders!Holds(q) /\ Orders!Found(q))'
      <4>1. step'[q] = step[q] /\ asked'[q] = asked[q]
        BY <1>12, <3>2 DEF Orders!SaveDraft, Orders!Types, Orders!TypeOK, Orders!GoTo,
           Orders!Begin
      <4>2. (Orders!Fresh(q) /\ Orders!Holds(q))'
        BY <1>12, <2>0, <3>2, <4>1
        DEF Orders!SaveDraft, Orders!Fresh, Orders!Holds, Orders!Creating,
            Orders!Drawing, Orders!Types, Orders!TypeOK, Orders!Unlock
      <4>3. Orders!Found(q)'
        BY <1>12, <2>0, <3>2, <4>1
        DEF Orders!SaveDraft, Orders!Found, Orders!Discarding, Orders!Editing,
            Orders!Types, Orders!TypeOK
      <4> QED  BY <4>2, <4>3
    <3> QED  BY <3>1, <3>2
  <2>3. (Orders!Below /\ Orders!Unique /\ Orders!Full)'
    <3>1. /\ Orders!Saved' = Orders!Saved \cup {asked[r].order}
               /\ asked[r].order \notin Orders!Saved
          /\ number' = number /\ next' = next + 1 /\ next \in Nat
      BY <1>12, <2>0 DEF Orders!SaveDraft, Orders!Saved, Orders!Types, Orders!TypeOK
    <3>2. Orders!Below'
      BY <2>0, <3>1 DEF Orders!Below, Orders!Types, Orders!TypeOK
    <3>3. Orders!Unique'
      BY <2>0, <3>1 DEF Orders!Unique, Orders!Below
    <3>4. Orders!Full'
      BY <2>0, <3>1 DEF Orders!Full
    <3> QED  BY <3>2, <3>3, <3>4
  <2>4. (Orders!FromAI /\ Orders!Whole /\ Orders!Once)'
    <3>0. /\ lines' = lines \cup {<<asked[r].order, p, r>> : p \in asked[r].products}
          /\ status' = [status EXCEPT ![asked[r].order] = "DRAFT"]
          /\ \A l \in lines : l[1] # asked[r].order
      BY <1>12, <2>0 DEF Orders!SaveDraft, Orders!Whole, Orders!Exists
    <3>1. Orders!FromAI'
      BY <1>12, <2>0 DEF Orders!SaveDraft, Orders!FromAI, Orders!Types, Orders!TypeOK
    <3>2. Orders!Whole'
      <4>1. PICK p \in asked[r].products : TRUE  BY <2>0
      <4>2. <<asked[r].order, p, r>> \in lines'  BY <3>0
      <4>3. \A o \in Orders!OrderIds \ {asked[r].order} :
              (\E l \in lines' : l[1] = o) <=> (\E l \in lines : l[1] = o)
        BY <3>0
      <4>4. \A o \in Orders!OrderIds \ {asked[r].order} : status'[o] = status[o]
        BY <3>0 DEF Orders!Types, Orders!TypeOK
      <4>5. status'[asked[r].order] \in {"DRAFT", "CONFIRMED"}
        BY <2>0, <3>0 DEF Orders!Types, Orders!TypeOK
      <4> QED  BY <2>0, <4>2, <4>3, <4>4, <4>5 DEF Orders!Whole, Orders!Exists
    <3>3. Orders!Once'
      BY <2>0, <3>0 DEF Orders!Once
    <3> QED  BY <3>1, <3>2, <3>3
  <2> QED  BY <2>1, <2>2, <2>3, <2>4 DEF Orders!IInv
<1>13. ASSUME NEW r \in Requests, Orders!FailNew(r) PROVE Orders!IInv'
  <2>0. /\ asked[r].order \in Orders!OrderIds /\ asked[r].order \in {r} \X Suppliers
        /\ status[asked[r].order] = "NONE" /\ asked[r].products # {}
        /\ number[asked[r].order] = next /\ counter = r /\ counter' = Nothing
        /\ asked[r].products \subseteq OrderedProducts
    BY <1>13 DEF Orders!FailNew, Orders!Unlock, Orders!Fresh, Orders!Creating,
       Orders!Holds, Orders!Drawing, Orders!OrderIds, Orders!Types, Orders!Asks
  <2>1. Orders!Types'
    BY <1>13, <2>0 DEF Orders!FailNew, Orders!Types, Orders!TypeOK, Orders!Asks,
       Orders!GoTo, Orders!Begin
  <2>2. \A q \in Requests : (Orders!Fresh(q) /\ Orders!Holds(q) /\ Orders!Found(q))'
    <3>1. (Orders!Fresh(r) /\ Orders!Holds(r) /\ Orders!Found(r))'
      BY <1>13, <2>0
      DEF Orders!FailNew, Orders!GoTo, Orders!Begin, Orders!Types, Orders!TypeOK,
          Orders!Fresh, Orders!Holds, Orders!Found, Orders!Creating, Orders!Drawing,
          Orders!Discarding, Orders!Editing
    <3>2. ASSUME NEW q \in Requests, q # r
          PROVE  (Orders!Fresh(q) /\ Orders!Holds(q) /\ Orders!Found(q))'
      <4>1. step'[q] = step[q] /\ asked'[q] = asked[q]
        BY <1>13, <3>2 DEF Orders!FailNew, Orders!Types, Orders!TypeOK, Orders!GoTo,
           Orders!Begin
      <4>2. (Orders!Fresh(q) /\ Orders!Holds(q))'
        BY <1>13, <2>0, <3>2, <4>1
        DEF Orders!FailNew, Orders!Fresh, Orders!Holds, Orders!Creating,
            Orders!Drawing, Orders!Types, Orders!TypeOK, Orders!Unlock
      <4>3. Orders!Found(q)'
        BY <1>13, <2>0, <3>2, <4>1
        DEF Orders!FailNew, Orders!Found, Orders!Discarding, Orders!Editing,
            Orders!Types, Orders!TypeOK
      <4> QED  BY <4>2, <4>3
    <3> QED  BY <3>1, <3>2
  <2>3. (Orders!Below /\ Orders!Unique /\ Orders!Full)'
    <3>1. Orders!Saved' = Orders!Saved /\ \A o \in Orders!Saved : number'[o] = number[o]
      BY <1>13, <2>0 DEF Orders!FailNew, Orders!Saved, Orders!Types, Orders!TypeOK
    <3> QED  BY <1>13, <3>1 DEF Orders!FailNew, Orders!Below, Orders!Unique, Orders!Full
  <2>4. (Orders!FromAI /\ Orders!Whole /\ Orders!Once)'
    BY <1>13 DEF Orders!FailNew, Orders!FromAI, Orders!Whole, Orders!Once, Orders!Exists
  <2> QED  BY <2>1, <2>2, <2>3, <2>4 DEF Orders!IInv
<1>14. ASSUME NEW r \in Requests, Orders!SkipDraft(r) PROVE Orders!IInv'
  <2>0. /\ asked[r].order \in Orders!OrderIds /\ asked[r].order \in {r} \X Suppliers
        /\ status[asked[r].order] = "NONE" /\ asked[r].products # {}
        /\ number[asked[r].order] = next /\ counter = r /\ counter' = Nothing
        /\ asked[r].products \subseteq OrderedProducts
    BY <1>14 DEF Orders!SkipDraft, Orders!Unlock, Orders!Fresh, Orders!Creating,
       Orders!Holds, Orders!Drawing, Orders!OrderIds, Orders!Types, Orders!Asks
  <2>1. Orders!Types'
    BY <1>14, <2>0 DEF Orders!SkipDraft, Orders!Types, Orders!TypeOK, Orders!Asks,
       Orders!GoTo, Orders!Begin
  <2>2. \A q \in Requests : (Orders!Fresh(q) /\ Orders!Holds(q) /\ Orders!Found(q))'
    <3>1. (Orders!Fresh(r) /\ Orders!Holds(r) /\ Orders!Found(r))'
      BY <1>14, <2>0 DEF Orders!SkipDraft, Orders!GoTo, Orders!Begin, Orders!Types,
         Orders!TypeOK, Orders!Fresh, Orders!Holds, Orders!Found, Orders!Creating,
         Orders!Drawing, Orders!Discarding, Orders!Editing
    <3>2. ASSUME NEW q \in Requests, q # r
          PROVE  (Orders!Fresh(q) /\ Orders!Holds(q) /\ Orders!Found(q))'
      <4>1. step'[q] = step[q] /\ asked'[q] = asked[q]
        BY <1>14, <3>2 DEF Orders!SkipDraft, Orders!Types, Orders!TypeOK, Orders!GoTo,
           Orders!Begin
      <4>2. (Orders!Fresh(q) /\ Orders!Holds(q))'
        BY <1>14, <2>0, <3>2, <4>1
        DEF Orders!SkipDraft, Orders!Fresh, Orders!Holds, Orders!Creating,
            Orders!Drawing, Orders!Types, Orders!TypeOK, Orders!Unlock
      <4>3. Orders!Found(q)'
        BY <1>14, <2>0, <3>2, <4>1
        DEF Orders!SkipDraft, Orders!Found, Orders!Discarding, Orders!Editing,
            Orders!Types, Orders!TypeOK
      <4> QED  BY <4>2, <4>3
    <3> QED  BY <3>1, <3>2
  <2>3. (Orders!Below /\ Orders!Unique /\ Orders!Full)'
    <3>1. Orders!Saved' = Orders!Saved /\ \A o \in Orders!Saved : number'[o] = number[o]
      BY <1>14, <2>0 DEF Orders!SkipDraft, Orders!Saved, Orders!Types, Orders!TypeOK
    <3> QED
      BY <1>14, <3>1 DEF Orders!SkipDraft, Orders!Below, Orders!Unique, Orders!Full
  <2>4. (Orders!FromAI /\ Orders!Whole /\ Orders!Once)'
    BY <1>14 DEF Orders!SkipDraft, Orders!FromAI, Orders!Whole, Orders!Once,
       Orders!Exists
  <2> QED  BY <2>1, <2>2, <2>3, <2>4 DEF Orders!IInv
<1>15. ASSUME NEW r \in Requests, Orders!Replace(r) PROVE Orders!IInv'
  <2>0. /\ asked[r].order \in Orders!OrderIds /\ asked[r].products # {}
        /\ asked[r].products \subseteq OrderedProducts
        /\ Orders!Exists(asked[r].order)
        /\ \A l \in asked[r].rows : l[1] = asked[r].order
    BY <1>15 DEF Orders!Replace, Orders!Clashes, Orders!Found, Orders!Editing,
       Orders!Types, Orders!Asks
  <2>1. Orders!Types'
    BY <1>15, <2>0 DEF Orders!Replace, Orders!Types, Orders!TypeOK, Orders!GoTo
  <2>2. \A q \in Requests : (Orders!Fresh(q) /\ Orders!Holds(q) /\ Orders!Found(q))'
    <3>1. (Orders!Fresh(r) /\ Orders!Holds(r) /\ Orders!Found(r))'
      BY <1>15, <2>0 DEF Orders!Replace, Orders!GoTo, Orders!Types, Orders!TypeOK,
         Orders!Fresh, Orders!Holds, Orders!Found, Orders!Creating, Orders!Drawing,
         Orders!Discarding, Orders!Editing
    <3>2. ASSUME NEW q \in Requests, q # r
          PROVE  (Orders!Fresh(q) /\ Orders!Holds(q) /\ Orders!Found(q))'
      <4>1. step'[q] = step[q] /\ asked'[q] = asked[q]
        BY <1>15, <3>2 DEF Orders!Replace, Orders!Types, Orders!TypeOK, Orders!GoTo,
           Orders!Begin
      <4>2. (Orders!Fresh(q) /\ Orders!Holds(q))'
        BY <1>15, <2>0, <3>2, <4>1
        DEF Orders!Replace, Orders!Fresh, Orders!Holds, Orders!Creating,
            Orders!Drawing, Orders!Types, Orders!TypeOK, Orders!Unlock
      <4>3. Orders!Found(q)'
        BY <1>15, <2>0, <3>2, <4>1
        DEF Orders!Replace, Orders!Found, Orders!Discarding, Orders!Editing,
            Orders!Types, Orders!TypeOK
      <4> QED  BY <4>2, <4>3
    <3> QED  BY <3>1, <3>2
  <2>3. (Orders!Below /\ Orders!Unique /\ Orders!Full)'
    BY <1>15 DEF Orders!Replace, Orders!Below, Orders!Unique, Orders!Full, Orders!Saved
  <2>4. (Orders!FromAI /\ Orders!Whole /\ Orders!Once)'
    <3>0. lines' = (lines \ asked[r].rows)
                     \cup {<<asked[r].order, p, r>> : p \in asked[r].products}
      BY <1>15 DEF Orders!Replace
    <3>1. Orders!FromAI'
      BY <1>15 DEF Orders!Replace, Orders!FromAI
    <3>2. Orders!Whole'
      <4>1. PICK p \in asked[r].products : TRUE  BY <2>0
      <4>2. <<asked[r].order, p, r>> \in lines'  BY <3>0
      <4>3. \A o \in Orders!OrderIds \ {asked[r].order} :
              (\E l \in lines' : l[1] = o) <=> (\E l \in lines : l[1] = o)
        BY <2>0, <3>0
      <4>4. status' = status  BY <1>15 DEF Orders!Replace
      <4> QED  BY <2>0, <4>2, <4>3, <4>4 DEF Orders!Whole, Orders!Exists
    <3>3. \A l \in lines \ asked[r].rows : l[1] = asked[r].order
            => l[2] \notin asked[r].products
      BY <1>15 DEF Orders!Replace, Orders!Clashes, Orders!ProductsOf, Orders!LinesOf
    <3>4. Orders!Once'
      BY <3>0, <3>3 DEF Orders!Once
    <3> QED  BY <3>1, <3>2, <3>4
  <2> QED  BY <2>1, <2>2, <2>3, <2>4 DEF Orders!IInv
<1>16. ASSUME NEW r \in Requests, Orders!Confirm(r) PROVE Orders!IInv'
  <2>0. /\ asked[r].order \in Orders!OrderIds /\ status[asked[r].order] # "NONE"
        /\ origin[asked[r].order] = "ai"
    BY <1>16 DEF Orders!Confirm, Orders!Found
  <2>1. Orders!Types'
    BY <1>16, <2>0 DEF Orders!Confirm, Orders!Types, Orders!TypeOK, Orders!GoTo,
       Orders!Exists
  <2>2. \A q \in Requests : (Orders!Fresh(q) /\ Orders!Holds(q) /\ Orders!Found(q))'
    <3>1. (Orders!Fresh(r) /\ Orders!Holds(r) /\ Orders!Found(r))'
      BY <1>16, <2>0 DEF Orders!Confirm, Orders!GoTo, Orders!Types, Orders!TypeOK,
         Orders!Fresh, Orders!Holds, Orders!Found, Orders!Creating, Orders!Drawing,
         Orders!Discarding, Orders!Editing
    <3>2. ASSUME NEW q \in Requests, q # r
          PROVE  (Orders!Fresh(q) /\ Orders!Holds(q) /\ Orders!Found(q))'
      <4>1. step'[q] = step[q] /\ asked'[q] = asked[q]
        BY <1>16, <3>2 DEF Orders!Confirm, Orders!Types, Orders!TypeOK, Orders!GoTo,
           Orders!Begin
      <4>2. (Orders!Fresh(q) /\ Orders!Holds(q))'
        <5>1. \A o \in Orders!OrderIds : status'[o] = "NONE" <=> status[o] = "NONE"
          BY <1>16, <2>0 DEF Orders!Confirm, Orders!Types, Orders!TypeOK, Orders!Exists
        <5>2. \A s \in Suppliers : <<q, s>> \in Orders!OrderIds  BY DEF Orders!OrderIds
        <5>3. asked[q].suppliers \subseteq Suppliers  BY DEF Orders!Types, Orders!Asks
        <5>4. Orders!Fresh(q)'
          BY <4>1, <5>1, <5>2, <5>3 DEF Orders!Fresh, Orders!Creating
        <5>5. Orders!Holds(q)'
          BY <1>16, <4>1 DEF Orders!Confirm, Orders!Holds, Orders!Drawing
        <5> QED  BY <5>4, <5>5
      <4>3. Orders!Found(q)'
        BY <1>16, <2>0, <3>2, <4>1
        DEF Orders!Confirm, Orders!Found, Orders!Discarding, Orders!Editing,
            Orders!Types, Orders!TypeOK, Orders!Exists
      <4> QED  BY <4>2, <4>3
    <3> QED  BY <3>1, <3>2
  <2>3. (Orders!Below /\ Orders!Unique /\ Orders!Full)'
    <3>1. Orders!Saved' = Orders!Saved
      BY <1>16, <2>0 DEF Orders!Confirm, Orders!Saved, Orders!Exists, Orders!Types,
         Orders!TypeOK
    <3> QED  BY <1>16, <3>1 DEF Orders!Confirm, Orders!Below, Orders!Unique, Orders!Full
  <2>4. (Orders!FromAI /\ Orders!Whole /\ Orders!Once)'
    BY <1>16, <2>0 DEF Orders!Confirm, Orders!FromAI, Orders!Whole, Orders!Once,
       Orders!Exists, Orders!Types, Orders!TypeOK
  <2> QED  BY <2>1, <2>2, <2>3, <2>4 DEF Orders!IInv
<1>17. ASSUME NEW r \in Requests, Orders!Discard(r) PROVE Orders!IInv'
  <2>0. /\ asked[r].order \in Orders!OrderIds /\ status[asked[r].order] # "NONE"
        /\ origin[asked[r].order] = "ai"
        /\ \A l \in asked[r].rows : l[1] = asked[r].order
    BY <1>17 DEF Orders!Discard, Orders!Found, Orders!Discarding
  <2>1. Orders!Types'
    BY <1>17, <2>0 DEF Orders!Discard, Orders!Types, Orders!TypeOK, Orders!GoTo,
       Orders!Exists
  <2>2. \A q \in Requests : (Orders!Fresh(q) /\ Orders!Holds(q) /\ Orders!Found(q))'
    <3>1. (Orders!Fresh(r) /\ Orders!Holds(r) /\ Orders!Found(r))'
      BY <1>17, <2>0 DEF Orders!Discard, Orders!GoTo, Orders!Types, Orders!TypeOK,
         Orders!Fresh, Orders!Holds, Orders!Found, Orders!Creating, Orders!Drawing,
         Orders!Discarding, Orders!Editing
    <3>2. ASSUME NEW q \in Requests, q # r
          PROVE  (Orders!Fresh(q) /\ Orders!Holds(q) /\ Orders!Found(q))'
      <4>1. step'[q] = step[q] /\ asked'[q] = asked[q]
        BY <1>17, <3>2 DEF Orders!Discard, Orders!Types, Orders!TypeOK, Orders!GoTo,
           Orders!Begin
      <4>2. (Orders!Fresh(q) /\ Orders!Holds(q))'
        <5>1. \A o \in Orders!OrderIds : status'[o] = "NONE" <=> status[o] = "NONE"
          BY <1>17, <2>0 DEF Orders!Discard, Orders!Types, Orders!TypeOK, Orders!Exists
        <5>2. \A s \in Suppliers : <<q, s>> \in Orders!OrderIds  BY DEF Orders!OrderIds
        <5>3. asked[q].suppliers \subseteq Suppliers  BY DEF Orders!Types, Orders!Asks
        <5>4. Orders!Fresh(q)'
          BY <4>1, <5>1, <5>2, <5>3 DEF Orders!Fresh, Orders!Creating
        <5>5. Orders!Holds(q)'
          BY <1>17, <4>1 DEF Orders!Discard, Orders!Holds, Orders!Drawing
        <5> QED  BY <5>4, <5>5
      <4>3. Orders!Found(q)'
        BY <1>17, <2>0, <3>2, <4>1
        DEF Orders!Discard, Orders!Found, Orders!Discarding, Orders!Editing,
            Orders!Types, Orders!TypeOK, Orders!Exists
      <4> QED  BY <4>2, <4>3
    <3> QED  BY <3>1, <3>2
  <2>3. (Orders!Below /\ Orders!Unique /\ Orders!Full)'
    <3>1. Orders!Saved' = Orders!Saved
      BY <1>17, <2>0 DEF Orders!Discard, Orders!Saved, Orders!Exists, Orders!Types,
         Orders!TypeOK
    <3> QED  BY <1>17, <3>1 DEF Orders!Discard, Orders!Below, Orders!Unique, Orders!Full
  <2>4. (Orders!FromAI /\ Orders!Whole /\ Orders!Once)'
    <3>1. CASE Orders!LinesOf(asked[r].order) \subseteq asked[r].rows
                 /\ Orders!Exists(asked[r].order)
      BY <1>17, <2>0, <3>1
      DEF Orders!Discard, Orders!FromAI, Orders!Whole, Orders!Once, Orders!Exists,
          Orders!LinesOf, Orders!Types, Orders!TypeOK
    <3>2. CASE ~ (Orders!LinesOf(asked[r].order) \subseteq asked[r].rows /\ Orders!Exists(asked[r].order))
      BY <1>17, <3>2 DEF Orders!Discard, Orders!FromAI, Orders!Whole, Orders!Once,
         Orders!Exists
    <3> QED  BY <3>1, <3>2
  <2> QED  BY <2>1, <2>2, <2>3, <2>4 DEF Orders!IInv
<1>18. CASE UNCHANGED Orders!vars
  BY <1>18 DEF Orders!vars, Orders!Types, Orders!TypeOK, Orders!Fresh, Orders!Holds,
     Orders!Found, Orders!Creating, Orders!Drawing, Orders!Discarding, Orders!Editing,
     Orders!Below, Orders!Unique, Orders!Full, Orders!Saved, Orders!FromAI,
     Orders!Whole, Orders!Once, Orders!Exists
<1> QED
  BY <1>1, <1>2, <1>3, <1>4, <1>5, <1>6, <1>7, <1>8, <1>9, <1>10, <1>11, <1>12, <1>13,
     <1>14,
     <1>15, <1>16, <1>17, <1>18
  DEF Orders!Next

LEMMA OrdersIInvNumbers == Orders!IInv => Orders!OrderNumbers
<1> SUFFICES ASSUME Orders!IInv PROVE Orders!OrderNumbers  OBVIOUS
<1>1. \A n \in {number[o] : o \in Orders!Saved} : n \in 1..(next - 1)
  BY DEF Orders!IInv, Orders!Below, Orders!Types, Orders!TypeOK
<1>2. \A n \in 1..(next - 1) : n \in {number[o] : o \in Orders!Saved}
  BY DEF Orders!IInv, Orders!Full, Orders!Types, Orders!TypeOK
<1> QED  BY <1>1, <1>2 DEF Orders!IInv, Orders!Unique, Orders!OrderNumbers

LEMMA OrdersIInvHandMade == Orders!IInv => Orders!HandMadeStay
  BY DEF Orders!IInv, Orders!FromAI, Orders!HandMadeStay

LEMMA OrdersIInvLines == Orders!IInv => Orders!OrdersHaveLines
<1>1. \A o \in Orders!OrderIds : Orders!LinesOf(o) # {} <=> \E l \in lines : l[1] = o
  BY DEF Orders!LinesOf
<1> QED  BY <1>1 DEF Orders!IInv, Orders!Whole, Orders!Once, Orders!OrdersHaveLines

-----------------------------------------------------------------------------
(* Product grid *)

LEMMA GridInitIInv ==
  ProductGrid!ProductGridAssumptions /\ ProductGrid!Init => ProductGrid!IInv
  BY DEF ProductGrid!ProductGridAssumptions, ProductGrid!Init, ProductGrid!IInv,
     ProductGrid!TypeOK, ProductGrid!Rows, ProductGrid!Fresh, ProductGrid!PageFresh,
     ProductGrid!LoadedFresh, ProductGrid!NothingStale, ProductGrid!PastPage,
     ProductGrid!CellsKeepTheirValue

\* A write preserves the invariant when every cell it writes, other than those
\* the user meant, is as it is in the database unless it is stale; what it keeps
\* loaded is all it has written.
LEMMA GridWriteKeeps ==
  ASSUME ProductGrid!ProductGridAssumptions, ProductGrid!IInv, NEW u \in Users,
         NEW new \in ProductGrid!Rows, NEW written \in SUBSET ProductGrid!Cells,
         NEW meant \in SUBSET written,
         ProductGrid!Write(u, new, written, meant),
         \A c \in written \ (meant \cup stale[u]) : new[c] = row[c],
         exists' \in BOOLEAN,
         productPage' = [productPage EXCEPT ![u] = Nothing],
         NEW kept \in {Nothing, new}, kept # Nothing => written = ProductGrid!Cells,
         loaded' = [loaded EXCEPT ![u] = kept],
         again' \in {again \ {u}, again \cup {u}}, u \in again' => kept # Nothing
  PROVE  ProductGrid!IInv'
<1>0. /\ ProductGrid!TypeOK /\ ProductGrid!Fresh /\ ProductGrid!PastPage
      /\ ProductGrid!CellsKeepTheirValue /\ new # Nothing
  BY DEF ProductGrid!IInv, ProductGrid!ProductGridAssumptions
<1>1. ProductGrid!TypeOK'
  <2>1. row' \in ProductGrid!Rows /\ wanted' \in ProductGrid!Rows
    BY <1>0 DEF ProductGrid!TypeOK, ProductGrid!Write, ProductGrid!Rows
  <2>2. productPage' \in [Users -> ProductGrid!Rows \cup {Nothing}]
          /\ loaded' \in [Users -> ProductGrid!Rows \cup {Nothing}]
    BY <1>0 DEF ProductGrid!TypeOK
  <2>3. stale' \in [Users -> SUBSET ProductGrid!Cells]
    BY <1>0 DEF ProductGrid!TypeOK, ProductGrid!Write
  <2>4. rowCrossed' \subseteq ProductGrid!Cells
    BY <1>0 DEF ProductGrid!TypeOK, ProductGrid!Write
  <2>5. again' \subseteq Users  BY <1>0 DEF ProductGrid!TypeOK
  <2> QED  BY <2>1, <2>2, <2>3, <2>4, <2>5 DEF ProductGrid!TypeOK
<1>4. ProductGrid!PastPage'
  <2> SUFFICES ASSUME NEW v \in again' PROVE productPage'[v] = Nothing /\ loaded'[v] # Nothing
    BY DEF ProductGrid!PastPage
  <2>1. again \subseteq Users  BY <1>0 DEF ProductGrid!TypeOK
  <2>2. CASE v = u  BY <1>0, <2>2 DEF ProductGrid!TypeOK
  <2>3. CASE v # u  BY <1>0, <2>1, <2>3 DEF ProductGrid!TypeOK, ProductGrid!PastPage
  <2> QED  BY <2>2, <2>3
<1>2. ProductGrid!CellsKeepTheirValue'
  <2> SUFFICES ASSUME NEW c \in ProductGrid!Cells, c \notin rowCrossed'
               PROVE  row'[c] = wanted'[c]
    BY DEF ProductGrid!CellsKeepTheirValue
  <2>1. CASE c \in meant  BY <2>1 DEF ProductGrid!Write
  <2>2. CASE c \in written \ meant
    <3>1. c \notin rowCrossed /\ c \notin stale[u]  BY <2>2 DEF ProductGrid!Write
    <3>2. row'[c] = new[c] /\ wanted'[c] = wanted[c]  BY <2>2 DEF ProductGrid!Write
    <3> QED  BY <1>0, <2>2, <3>1, <3>2 DEF ProductGrid!CellsKeepTheirValue
  <2>3. CASE c \notin written
    <3>1. c \notin rowCrossed /\ row'[c] = row[c] /\ wanted'[c] = wanted[c]
      BY <2>3 DEF ProductGrid!Write
    <3> QED  BY <1>0, <3>1 DEF ProductGrid!CellsKeepTheirValue
  <2> QED  BY <2>1, <2>2, <2>3
<1>3. ProductGrid!Fresh'
  <2> SUFFICES ASSUME NEW v \in Users
               PROVE  ProductGrid!PageFresh(v)' /\ ProductGrid!LoadedFresh(v)'
                        /\ ProductGrid!NothingStale(v)'
    BY DEF ProductGrid!Fresh
  <2>1. CASE v = u
    <3>1. productPage'[u] = Nothing /\ loaded'[u] = kept /\ stale'[u] = {}
      BY <1>0 DEF ProductGrid!TypeOK, ProductGrid!Write
    <3>2. kept # Nothing => \A c \in ProductGrid!Cells : row'[c] = new[c]
      BY DEF ProductGrid!Write
    <3> QED
      BY <1>0, <2>1, <3>1, <3>2
      DEF ProductGrid!PageFresh, ProductGrid!LoadedFresh, ProductGrid!NothingStale
  <2>2. CASE v # u
    <3>1. productPage'[v] = productPage[v] /\ loaded'[v] = loaded[v]
      BY <1>0, <2>2 DEF ProductGrid!TypeOK
    <3>2. productPage[v] # Nothing \/ loaded[v] # Nothing =>
            \A c \in ProductGrid!Cells \ stale'[v] : c \notin stale[v] /\ row'[c] = row[c]
      BY <2>2 DEF ProductGrid!Write
    <3>3. productPage[v] = Nothing /\ loaded[v] = Nothing => stale'[v] = {}
      BY <2>2 DEF ProductGrid!Write
    <3>4. ProductGrid!OnPage \subseteq ProductGrid!Cells
      BY DEF ProductGrid!ProductGridAssumptions, ProductGrid!OnPage, ProductGrid!Cells
    <3>5. ProductGrid!PageFresh(v)'
      <4> SUFFICES ASSUME productPage[v] # Nothing, NEW c \in ProductGrid!OnPage \ stale'[v]
                   PROVE  productPage[v][c] = row'[c]
        BY <3>1 DEF ProductGrid!PageFresh
      <4> QED  BY <1>0, <3>2, <3>4 DEF ProductGrid!Fresh, ProductGrid!PageFresh
    <3>6. ProductGrid!LoadedFresh(v)'
      BY <1>0, <3>1, <3>2
      DEF ProductGrid!Fresh, ProductGrid!LoadedFresh, ProductGrid!GivenByPage
    <3> QED  BY <3>1, <3>3, <3>5, <3>6 DEF ProductGrid!NothingStale
  <2> QED  BY <2>1, <2>2
<1> QED  BY <1>1, <1>2, <1>3, <1>4 DEF ProductGrid!IInv

LEMMA GridStepIInv ==
  ProductGrid!ProductGridAssumptions /\ ProductGrid!IInv
    /\ [ProductGrid!Next]_(ProductGrid!vars) => ProductGrid!IInv'
<1> SUFFICES ASSUME ProductGrid!ProductGridAssumptions, ProductGrid!IInv,
                    [ProductGrid!Next]_(ProductGrid!vars)
             PROVE  ProductGrid!IInv'
  OBVIOUS
<1>0. /\ ProductGrid!TypeOK /\ ProductGrid!Fresh /\ ProductGrid!PastPage
      /\ ProductGrid!CellsKeepTheirValue
  BY DEF ProductGrid!IInv
<1>00. ProductGrid!OnPage \subseteq ProductGrid!Cells
         /\ Attributes \subseteq ProductGrid!Cells /\ Fields \subseteq ProductGrid!Cells
  BY DEF ProductGrid!ProductGridAssumptions, ProductGrid!OnPage, ProductGrid!Cells
<1>1. ASSUME NEW u \in Users, ProductGrid!OpenPage(u) PROVE ProductGrid!IInv'
  <2>1. ProductGrid!TypeOK' /\ ProductGrid!CellsKeepTheirValue' /\ ProductGrid!PastPage'
    BY <1>0, <1>1
    DEF ProductGrid!OpenPage, ProductGrid!TypeOK, ProductGrid!CellsKeepTheirValue,
        ProductGrid!PastPage, ProductGrid!ProductGridAssumptions
  <2>2. ProductGrid!Fresh'
    BY <1>0, <1>1 DEF ProductGrid!OpenPage, ProductGrid!TypeOK, ProductGrid!Fresh,
       ProductGrid!PageFresh, ProductGrid!LoadedFresh, ProductGrid!NothingStale,
       ProductGrid!GivenByPage
  <2> QED  BY <2>1, <2>2 DEF ProductGrid!IInv
<1>2. ASSUME NEW u \in Users, ProductGrid!Load(u) PROVE ProductGrid!IInv'
  <2>1. ProductGrid!TypeOK' /\ ProductGrid!CellsKeepTheirValue' /\ ProductGrid!PastPage'
    BY <1>0, <1>2
    DEF ProductGrid!Load, ProductGrid!TypeOK, ProductGrid!CellsKeepTheirValue,
        ProductGrid!PastPage, ProductGrid!ProductGridAssumptions
  <2>2. ASSUME NEW v \in Users
        PROVE  ProductGrid!PageFresh(v)' /\ ProductGrid!LoadedFresh(v)'
                 /\ ProductGrid!NothingStale(v)'
    <3>1. CASE v = u
      <4>1. loaded'[u] = row /\ productPage'[u] = productPage[u] /\ row' = row
            /\ stale'[u] = stale[u] \cap ProductGrid!OnPage
        BY <1>0, <1>2 DEF ProductGrid!Load, ProductGrid!TypeOK
      <4>2. productPage[u] = Nothing => stale[u] = {}
        BY <1>0, <1>2 DEF ProductGrid!Load, ProductGrid!Fresh, ProductGrid!NothingStale
      <4> QED
        BY <1>0, <1>2, <3>1, <4>1, <4>2
        DEF ProductGrid!Fresh, ProductGrid!PageFresh, ProductGrid!LoadedFresh,
            ProductGrid!NothingStale
    <3>2. CASE v # u
      BY <1>0, <1>2, <3>2
      DEF ProductGrid!Load, ProductGrid!TypeOK, ProductGrid!Fresh,
          ProductGrid!PageFresh, ProductGrid!LoadedFresh, ProductGrid!NothingStale,
          ProductGrid!GivenByPage
    <3> QED  BY <3>1, <3>2
  <2> QED  BY <2>1, <2>2 DEF ProductGrid!IInv, ProductGrid!Fresh
<1>3. ASSUME NEW u \in Users, ProductGrid!GiveUp(u) PROVE ProductGrid!IInv'
  <2>1. ProductGrid!TypeOK' /\ ProductGrid!CellsKeepTheirValue' /\ ProductGrid!PastPage'
    BY <1>0, <1>3
    DEF ProductGrid!GiveUp, ProductGrid!TypeOK, ProductGrid!CellsKeepTheirValue,
        ProductGrid!PastPage, ProductGrid!ProductGridAssumptions
  <2>2. ProductGrid!Fresh'
    BY <1>0, <1>3 DEF ProductGrid!GiveUp, ProductGrid!TypeOK, ProductGrid!Fresh,
       ProductGrid!PageFresh, ProductGrid!LoadedFresh, ProductGrid!NothingStale,
       ProductGrid!GivenByPage
  <2> QED  BY <2>1, <2>2 DEF ProductGrid!IInv
<1>4. ASSUME NEW u \in Users, NEW c \in ProductGrid!Cells, NEW v \in Values,
             ProductGrid!SavePage(u, c, v)
      PROVE  ProductGrid!IInv'
  <2> DEFINE new == [d \in ProductGrid!Cells |-> IF d = c THEN v
                                     ELSE IF d \in ProductGrid!OnPage THEN productPage[u][d] ELSE loaded[u][d]]
  <2>1. ProductGrid!Write(u, new, ProductGrid!Cells, {c}) /\ exists' = TRUE
        /\ productPage' = [productPage EXCEPT ![u] = Nothing]
             /\ loaded' = [loaded EXCEPT ![u] = new] /\ again' = again \cup {u}
        /\ productPage[u] # Nothing /\ loaded[u] # Nothing
    BY <1>4 DEF ProductGrid!SavePage
  <2>2. productPage[u] \in ProductGrid!Rows /\ loaded[u] \in ProductGrid!Rows
    BY <1>0, <2>1 DEF ProductGrid!TypeOK
  <2>3. new \in ProductGrid!Rows  BY <2>2 DEF ProductGrid!Rows
  <2>7. new # Nothing  BY <2>3 DEF ProductGrid!ProductGridAssumptions
  <2>4. \A d \in ProductGrid!Cells \ ({c} \cup stale[u]) : new[d] = row[d]
    BY <1>0, <2>1
    DEF ProductGrid!Fresh, ProductGrid!PageFresh, ProductGrid!LoadedFresh,
        ProductGrid!GivenByPage
  <2> HIDE DEF new
  <2>5. ProductGrid!Cells \in SUBSET ProductGrid!Cells /\ {c} \in SUBSET ProductGrid!Cells
          /\ exists' \in BOOLEAN
    BY <2>1
  <2>6. ProductGrid!Write(u, new, ProductGrid!Cells, {c})  BY <2>1
  <2> QED  BY <2>1, <2>3, <2>4, <2>5, <2>6, <2>7, GridWriteKeeps
<1>5. ASSUME NEW u \in Users, NEW c \in ProductGrid!Cells, NEW v \in Values,
             ProductGrid!SaveField(u, c, v)
      PROVE  ProductGrid!IInv'
  <2> DEFINE new == [loaded[u] EXCEPT ![c] = v]
  <2>1. ProductGrid!Write(u, new, ProductGrid!Cells, {c}) /\ exists' = TRUE
          /\ productPage' = productPage
        /\ loaded' = [loaded EXCEPT ![u] = Nothing] /\ again' = again \ {u}
        /\ productPage[u] = Nothing /\ loaded[u] # Nothing
    BY <1>5 DEF ProductGrid!SaveField
  <2>2. loaded[u] \in ProductGrid!Rows /\ productPage' = [productPage EXCEPT ![u] = Nothing]
    BY <1>0, <2>1 DEF ProductGrid!TypeOK
  <2>3. new \in ProductGrid!Rows  BY <2>2 DEF ProductGrid!Rows
  <2>4. \A d \in ProductGrid!Cells \ ({c} \cup stale[u]) : new[d] = row[d]
    BY <1>0, <2>1, <2>2
    DEF ProductGrid!Fresh, ProductGrid!LoadedFresh, ProductGrid!GivenByPage,
        ProductGrid!Rows
  <2> HIDE DEF new
  <2>5. ProductGrid!Cells \in SUBSET ProductGrid!Cells /\ {c} \in SUBSET ProductGrid!Cells
          /\ exists' \in BOOLEAN
    BY <2>1
  <2>6. ProductGrid!Write(u, new, ProductGrid!Cells, {c})  BY <2>1
  <2> QED  BY <2>1, <2>2, <2>3, <2>4, <2>5, <2>6, GridWriteKeeps
<1>6. ASSUME NEW u \in Users, NEW c \in ProductGrid!Cells, NEW v \in Values,
             ProductGrid!SaveAttribute(u, c, v)
      PROVE  ProductGrid!IInv'
  <2> DEFINE new == ProductGrid!Blob(u, c, v)
  <2>1. ProductGrid!Write(u, new, Attributes, {c}) /\ exists' = exists
          /\ productPage' = productPage
        /\ loaded' = [loaded EXCEPT ![u] = Nothing] /\ again' = again \ {u}
        /\ productPage[u] = Nothing /\ loaded[u] # Nothing /\ c \in Attributes
    BY <1>6 DEF ProductGrid!SaveAttribute
  <2>2. loaded[u] \in ProductGrid!Rows
          /\ productPage' = [productPage EXCEPT ![u] = Nothing] /\ exists' \in BOOLEAN
    BY <1>0, <2>1 DEF ProductGrid!TypeOK
  <2>3. new \in ProductGrid!Rows  BY <2>2 DEF ProductGrid!Rows, ProductGrid!Blob
  <2>4. \A d \in Attributes \ ({c} \cup stale[u]) : new[d] = row[d]
    BY <1>0, <1>00, <2>1, <2>2
    DEF ProductGrid!Fresh, ProductGrid!LoadedFresh, ProductGrid!GivenByPage,
        ProductGrid!Rows, ProductGrid!Blob
  <2> HIDE DEF new
  <2>5. Attributes \in SUBSET ProductGrid!Cells /\ {c} \in SUBSET Attributes
    BY <1>00, <2>1
  <2>6. ProductGrid!Write(u, new, Attributes, {c})  BY <2>1
  <2> QED  BY <2>1, <2>2, <2>3, <2>4, <2>5, <2>6, GridWriteKeeps
<1>7. ASSUME NEW u \in Users, NEW c \in ProductGrid!Cells, NEW v \in Values,
             ProductGrid!SetCell(u, c, v)
      PROVE  ProductGrid!IInv'
  <2> DEFINE new == [row EXCEPT ![c] = v]
  <2>1. ProductGrid!Write(u, new, {c}, {c}) /\ exists' = exists
          /\ productPage' = productPage /\ loaded' = loaded /\ again' = again \ {u}
        /\ productPage[u] = Nothing /\ loaded[u] = Nothing
    BY <1>0, <1>7 DEF ProductGrid!SetCell, ProductGrid!PastPage
  <2>2. /\ productPage' = [productPage EXCEPT ![u] = Nothing]
             /\ loaded' = [loaded EXCEPT ![u] = Nothing]
        /\ exists' \in BOOLEAN /\ new \in ProductGrid!Rows
    BY <1>0, <2>1 DEF ProductGrid!TypeOK, ProductGrid!Rows
  <2> HIDE DEF new
  <2>3. \A d \in {c} \ ({c} \cup stale[u]) : new[d] = row[d]  OBVIOUS
  <2> QED  BY <2>1, <2>2, <2>3, GridWriteKeeps
<1>9. ASSUME NEW u \in Users, ProductGrid!SaveAgain(u) PROVE ProductGrid!IInv'
  <2> DEFINE new == loaded[u]
  <2>1. /\ ProductGrid!Write(u, new, ProductGrid!Cells, {}) /\ exists' = TRUE
        /\ productPage' = productPage /\ loaded' = [loaded EXCEPT ![u] = Nothing]
        /\ again' = again \ {u} /\ u \in again
    BY <1>9 DEF ProductGrid!SaveAgain
  <2>2. productPage[u] = Nothing /\ loaded[u] # Nothing
    BY <1>0, <2>1 DEF ProductGrid!PastPage
  <2>3. new \in ProductGrid!Rows /\ productPage' = [productPage EXCEPT ![u] = Nothing]
    BY <1>0, <2>1, <2>2 DEF ProductGrid!TypeOK
  <2>4. \A d \in ProductGrid!Cells \ ({} \cup stale[u]) : new[d] = row[d]
    BY <1>0, <2>2 DEF ProductGrid!Fresh, ProductGrid!LoadedFresh, ProductGrid!GivenByPage
  <2>5. /\ u \notin again' /\ exists' \in BOOLEAN
        /\ ProductGrid!Cells \in SUBSET ProductGrid!Cells /\ {} \in SUBSET ProductGrid!Cells
    BY <2>1
  <2> HIDE DEF new
  <2> QED  BY <2>1, <2>3, <2>4, <2>5, GridWriteKeeps
<1>8. CASE ProductGrid!Delete \/ UNCHANGED ProductGrid!vars
  <2>1. ProductGrid!TypeOK' /\ ProductGrid!CellsKeepTheirValue' /\ ProductGrid!PastPage'
    BY <1>0, <1>8 DEF ProductGrid!Delete, ProductGrid!vars, ProductGrid!TypeOK,
       ProductGrid!CellsKeepTheirValue, ProductGrid!PastPage
  <2>2. ProductGrid!Fresh'
    BY <1>0, <1>8
    DEF ProductGrid!Delete, ProductGrid!vars, ProductGrid!Fresh, ProductGrid!PageFresh,
        ProductGrid!LoadedFresh, ProductGrid!NothingStale, ProductGrid!GivenByPage
  <2> QED  BY <2>1, <2>2 DEF ProductGrid!IInv
<1> QED  BY <1>1, <1>2, <1>3, <1>4, <1>5, <1>6, <1>7, <1>8, <1>9 DEF ProductGrid!Next

-----------------------------------------------------------------------------
(* Price lists *)

LEMMA PriceRowsFinite ==
  PriceLists!PriceListAssumptions => IsFiniteSet(Lists) /\ IsFiniteSet(PriceRows)
  BY DEF PriceLists!PriceListAssumptions, PriceLists!IsFiniteSet, IsFiniteSet

LEMMA PriceCountOfOne == ASSUME NEW x PROVE PriceLists!Cardinality({x}) = 1
  BY FS_Singleton DEF PriceLists!Cardinality, Cardinality

LEMMA PriceInitTypes ==
  PriceLists!PriceListAssumptions /\ PriceLists!Init => PriceLists!TypeOK
  BY DEF PriceLists!PriceListAssumptions, PriceLists!Init, PriceLists!TypeOK

LEMMA PriceStepTypes ==
  PriceLists!PriceListAssumptions /\ PriceLists!TypeOK
    /\ [PriceLists!Next]_(PriceLists!vars) => PriceLists!TypeOK'
<1> SUFFICES ASSUME PriceLists!PriceListAssumptions, PriceLists!TypeOK,
                    [PriceLists!Next]_(PriceLists!vars)
             PROVE  PriceLists!TypeOK'
  OBVIOUS
<1>1. ASSUME NEW priority \in Priorities, NEW period \in Periods,
             NEW rules \in PriceLists!Parsed,
             NEW l \in Lists, PriceLists!Create(l, priority, period, rules)
      PROVE  PriceLists!TypeOK'
  BY <1>1 DEF PriceLists!Create, PriceLists!TypeOK, PriceLists!List
<1>2. ASSUME NEW priority \in Priorities, NEW period \in Periods,
             NEW rules \in PriceLists!Parsed,
             NEW e \in PriceEditors, PriceLists!SaveEdit(e, priority, period, rules)
      PROVE  PriceLists!TypeOK'
  BY <1>2 DEF PriceLists!SaveEdit, PriceLists!TypeOK, PriceLists!List
<1>3. ASSUME NEW e \in PriceEditors, PriceLists!DropEdit(e) PROVE PriceLists!TypeOK'
  BY <1>3 DEF PriceLists!DropEdit, PriceLists!TypeOK
<1>4. ASSUME NEW e \in PriceEditors, NEW l \in Lists, PriceLists!LoadEdit(e, l)
      PROVE  PriceLists!TypeOK'
  <2>1. lists[l] \in PriceLists!List  BY <1>4 DEF PriceLists!LoadEdit, PriceLists!TypeOK
  <2> QED  BY <1>4, <2>1 DEF PriceLists!LoadEdit, PriceLists!TypeOK, PriceLists!List
<1>5. ASSUME NEW l \in Lists, PriceLists!Delete(l) PROVE PriceLists!TypeOK'
  <2>1. lists[l] \in PriceLists!List  BY <1>5 DEF PriceLists!Delete, PriceLists!TypeOK
  <2> QED  BY <1>5, <2>1 DEF PriceLists!Delete, PriceLists!TypeOK, PriceLists!List
<1>6. CASE PriceLists!NextDay
  BY <1>6 DEF PriceLists!NextDay, PriceLists!TypeOK, PriceLists!PriceListAssumptions
<1>7. CASE UNCHANGED PriceLists!vars
  BY <1>7 DEF PriceLists!vars, PriceLists!TypeOK
<1> QED  BY <1>1, <1>2, <1>3, <1>4, <1>5, <1>6, <1>7 DEF PriceLists!Next

\* The rules that may price a product are those that cover it, whatever else is
\* resolved with it.
LEMMA PriceCandidatesOfProduct ==
  ASSUME NEW batch, NEW p \in batch
  PROVE  PriceLists!CandidateRules(batch, p)
           = {r \in PriceLists!ActiveRules : PriceLists!Covers(r.rule, p)}
BY DEF PriceLists!CandidateRules, PriceLists!Fetched, PriceLists!Covers

\* They are rules of saved lists.
LEMMA PriceCandidateTypes ==
  ASSUME PriceLists!TypeOK, PriceLists!PriceListAssumptions, NEW batch, NEW p,
         NEW r \in PriceLists!CandidateRules(batch, p)
  PROVE  /\ r.list \in PriceLists!Saved /\ r.rule \in PriceRows
              /\ r.rule \in lists[r.list].rules
         /\ r = [list |-> r.list, rule |-> r.rule]
         /\ r.list \in Lists /\ r.list \in Int /\ lists[r.list].priority \in Int
         /\ PriceLists!Specificity[r.rule.scope] \in 0..2 /\ PriceLists!Covers(r.rule, p)
         /\ r.rule.scope \in DOMAIN PriceLists!Specificity
<1>1. PICK l \in PriceLists!Saved : r \in PriceLists!RulesOf(l)
  BY DEF PriceLists!CandidateRules, PriceLists!Fetched, PriceLists!ActiveRules
<1>2. PICK rule \in lists[l].rules : r = [list |-> l, rule |-> rule]
  BY <1>1 DEF PriceLists!RulesOf
<1>3. l \in Lists /\ lists[l] \in PriceLists!List
  BY <1>1 DEF PriceLists!Saved, PriceLists!TypeOK
<1>4. rule \in PriceRows /\ PriceLists!Clean(rule)
  BY <1>2, <1>3 DEF PriceLists!List, PriceLists!Parsed
<1>5. rule.scope \in DOMAIN PriceLists!Specificity  BY <1>4 DEF PriceLists!Clean
<1>6. PriceLists!Specificity[rule.scope] \in 0..2  BY <1>5 DEF PriceLists!Specificity
<1>7. lists[l].priority \in Int /\ l \in Int
  <2>1. lists[l].priority \in Priorities  BY <1>3 DEF PriceLists!List
  <2>2. \A i \in Priorities : i \in Int  BY DEF PriceLists!PriceListAssumptions
  <2>3. \A k \in Lists : k \in Nat  BY DEF PriceLists!PriceListAssumptions
  <2>4. l \in Nat  BY <1>3, <2>3
  <2>5. lists[l].priority \in Int  BY <2>1, <2>2
  <2> QED  BY <2>4, <2>5
<1>8. PriceLists!Covers(r.rule, p)  BY DEF PriceLists!CandidateRules
<1> QED  BY <1>1, <1>2, <1>3, <1>4, <1>5, <1>6, <1>7, <1>8

LEMMA PriceCandidatesFinite ==
  ASSUME PriceLists!TypeOK, PriceLists!PriceListAssumptions, NEW batch, NEW p
  PROVE  IsFiniteSet(PriceLists!CandidateRules(batch, p))
<1> DEFINE C == PriceLists!CandidateRules(batch, p)
           f == [r \in C |-> <<r.list, r.rule>>]
<1>1. \A r \in C : /\ <<r.list, r.rule>> \in Lists \X PriceRows
                   /\ r = [list |-> r.list, rule |-> r.rule]
  BY PriceCandidateTypes
<1>2. f \in [C -> Lists \X PriceRows]  BY <1>1
<1>3. \A r, q \in C : f[r] = f[q] => r = q
  BY <1>1
<1> HIDE DEF f, C
<1>4. f \in Injection(C, Lists \X PriceRows)  BY <1>2, <1>3 DEF Injection, IsInjective
<1>5. IsFiniteSet(Lists \X PriceRows)  BY FS_Product, PriceRowsFinite
<1> QED  BY <1>4, <1>5, FS_Injection DEF C

\* By the order of rules one is best; two that are, tie.
LEMMA PriceBestCandidate ==
  ASSUME PriceLists!TypeOK, PriceLists!PriceListAssumptions, NEW batch, NEW p,
         PriceLists!CandidateRules(batch, p) # {}
  PROVE  PriceLists!Winners(batch, p) # {}
<1> DEFINE C == PriceLists!CandidateRules(batch, p)
           R == {x \in C \X C : PriceLists!Beats(x[1], x[2])}
<1>1. \A r \in C : /\ r.list \in Int /\ lists[r.list].priority \in Int
                   /\ PriceLists!Specificity[r.rule.scope] \in Int
  BY PriceCandidateTypes
<1>2. \A x \in C : ~ PriceLists!Beats(x, x)
  BY <1>1 DEF PriceLists!Beats
<1>3. \A x, y, z \in C : PriceLists!Beats(x, y) /\ PriceLists!Beats(y, z)
        => PriceLists!Beats(x, z)
  BY <1>1 DEF PriceLists!Beats
<1>4. IsFiniteSet(C) /\ C # {}  BY PriceCandidatesFinite
<1>5. \E m \in C : \A x \in C : <<x, m>> \notin R
  <2>1. \A x \in C : <<x, x>> \notin R  BY <1>2
  <2>2. \A x, y, z \in C : <<x, y>> \in R /\ <<y, z>> \in R => <<x, z>> \in R  BY <1>3
  <2>3. R \in SUBSET (C \X C)  OBVIOUS
  <2> HIDE DEF C, R
  <2> QED  BY <1>4, <2>1, <2>2, <2>3, UnbeatenExists
<1> QED  BY <1>5 DEF PriceLists!Winners

LEMMA PriceBestIsOne ==
  ASSUME PriceLists!TypeOK, PriceLists!PriceListAssumptions, NEW batch, NEW p,
         \A l \in PriceLists!Saved : ~ PriceLists!Tied(l, p),
         NEW r \in PriceLists!Winners(batch, p), NEW q \in PriceLists!Winners(batch, p)
  PROVE  r = q
<1>1. /\ r \in PriceLists!CandidateRules(batch, p)
           /\ q \in PriceLists!CandidateRules(batch, p)
      /\ ~ PriceLists!Beats(q, r) /\ ~ PriceLists!Beats(r, q)
  BY DEF PriceLists!Winners
<1>2. /\ r.list \in Int /\ lists[r.list].priority \in Int
           /\ PriceLists!Specificity[r.rule.scope] \in 0..2
      /\ q.list \in Int /\ lists[q.list].priority \in Int
           /\ PriceLists!Specificity[q.rule.scope] \in 0..2
  BY <1>1, PriceCandidateTypes
<1>3. r.list = q.list /\ PriceLists!Specificity[r.rule.scope]
        = PriceLists!Specificity[q.rule.scope]
  BY <1>1, <1>2 DEF PriceLists!Beats
<1>4. /\ r \in PriceLists!RulesOf(r.list) /\ q \in PriceLists!RulesOf(r.list)
           /\ r.list \in PriceLists!Saved
      /\ PriceLists!Covers(r.rule, p) /\ PriceLists!Covers(q.rule, p)
      /\ r.rule.scope \in DOMAIN PriceLists!Specificity
           /\ q.rule.scope \in DOMAIN PriceLists!Specificity
  BY <1>1, <1>3, PriceCandidateTypes DEF PriceLists!RulesOf
<1>5. r.rule.scope = q.rule.scope  BY <1>3, <1>4 DEF PriceLists!Specificity
<1> QED  BY <1>4, <1>5 DEF PriceLists!Tied

LEMMA PriceCharged ==
  PriceLists!TypeOK /\ PriceLists!PriceListAssumptions => PriceLists!ChargedAsShown
<1> SUFFICES ASSUME PriceLists!TypeOK, PriceLists!PriceListAssumptions,
                    NEW cart \in SUBSET PricedProducts, NEW p \in cart
             PROVE  /\ PriceLists!Prices(cart, p) = PriceLists!Prices(PricedProducts, p)
                    /\ (\A l \in PriceLists!Saved : ~ PriceLists!Tied(l, p))
                         => PriceLists!Cardinality(PriceLists!Prices(cart, p)) = 1
  BY DEF PriceLists!ChargedAsShown
<1>1. PriceLists!CandidateRules(cart, p) = PriceLists!CandidateRules(PricedProducts, p)
  BY PriceCandidatesOfProduct
<1>2. PriceLists!Winners(cart, p) = PriceLists!Winners(PricedProducts, p)
  BY <1>1 DEF PriceLists!Winners
<1>3. PriceLists!Prices(cart, p) = PriceLists!Prices(PricedProducts, p)
  BY <1>2 DEF PriceLists!Prices
<1>4. ASSUME \A l \in PriceLists!Saved : ~ PriceLists!Tied(l, p)
      PROVE  PriceLists!Cardinality(PriceLists!Prices(cart, p)) = 1
  <2>1. \E c : PriceLists!Prices(cart, p) = {c}
    <3>1. CASE PriceLists!Winners(cart, p) = {}
      BY <3>1 DEF PriceLists!Prices
    <3>2. CASE PriceLists!Winners(cart, p) # {}
      <4>1. PICK r \in PriceLists!Winners(cart, p) : TRUE  BY <3>2
      <4>2. PriceLists!Winners(cart, p) = {r}  BY <1>4, <4>1, PriceBestIsOne
      <4>3. PriceLists!Prices(cart, p) = {PriceLists!EffectivePrice(r.rule, SellPrice[p])}
        BY <4>2 DEF PriceLists!Prices
      <4> QED  BY <4>3
    <3> QED  BY <3>1, <3>2
  <2> QED  BY <2>1, PriceCountOfOne
<1> QED  BY <1>3, <1>4

LEMMA PricePageAgrees ==
  PriceLists!TypeOK /\ PriceLists!PriceListAssumptions => PriceLists!PageAgreesWithRegister
<1> SUFFICES ASSUME PriceLists!TypeOK, PriceLists!PriceListAssumptions,
                    NEW l \in PriceLists!Saved, PriceLists!Active(l),
                    \A k \in PriceLists!Saved \ {l} : ~ PriceLists!Active(k),
                    NEW p \in PricedProducts
             PROVE  PriceLists!Prices(PricedProducts, p)
                      = IF PriceLists!DetailPrices(l, p)
                        = {} THEN {SellPrice[p]} ELSE PriceLists!DetailPrices(l, p)
  BY DEF PriceLists!PageAgreesWithRegister
<1> DEFINE C == {r \in PriceLists!RulesOf(l) : PriceLists!Covers(r.rule, p)}
<1>1. PriceLists!ActiveRules = PriceLists!RulesOf(l)
  BY DEF PriceLists!ActiveRules
<1>2. PriceLists!CandidateRules(PricedProducts, p) = C
  BY <1>1, PriceCandidatesOfProduct
<1>3. \A r, q \in C : ~ PriceLists!Beats(q, r)
        <=> PriceLists!Specificity[r.rule.scope] <= PriceLists!Specificity[q.rule.scope]
  <2>1. \A r \in C : /\ r.list = l /\ l \in Int /\ lists[l].priority \in Int
                     /\ PriceLists!Specificity[r.rule.scope] \in 0..2
    BY <1>2, PriceCandidateTypes DEF PriceLists!RulesOf
  <2> QED  BY <2>1 DEF PriceLists!Beats
<1>4. PriceLists!Winners(PricedProducts, p) = PriceLists!PageRules(l, p)
  BY <1>2, <1>3 DEF PriceLists!Winners, PriceLists!PageRules
<1> QED  BY <1>4 DEF PriceLists!Prices, PriceLists!DetailPrices

-----------------------------------------------------------------------------
(* Reports: sums over days *)

LEMMA ReportSumIs == ASSUME NEW f PROVE Reports!Sum(f) = SumFunctionOnSet(f, DOMAIN f)
  BY DEF Reports!Sum, Reports!SumFunction, Reports!SumFunctionOnSet,
         Reports!FoldFunctionOnSet, Reports!MapThenFoldSet, SumFunctionOnSet,
         FoldFunctionOnSet, MapThenFoldSet

LEMMA ReportRecipesFinite == Reports!ReportAssumptions => IsFiniteSet(Recipes)
  BY DEF Reports!ReportAssumptions, Reports!IsFiniteSet, IsFiniteSet

LEMMA ReportDaysFinite ==
  ASSUME Reports!ReportAssumptions, NEW A \in SUBSET Reports!Days
  PROVE  IsFiniteSet(A) /\ IsFiniteSet(Reports!Days \X A) /\ IsFiniteSet(Reports!Days)
<1>1. LastDay \in Int  BY DEF Reports!ReportAssumptions
<1>2. IsFiniteSet(Reports!Days)  BY <1>1, FS_Interval DEF Reports!Days
<1>3. IsFiniteSet(A)  BY <1>2, FS_Subset
<1> QED  BY <1>2, <1>3, FS_Product

\* Functions of integers, and one that differs from another by q at one argument.
Whole(K, f) == \A k \in K : f[k] \in Int
Raised(K, f, g, e, q) == \A k \in K : g[k] = IF k = e THEN f[k] + q ELSE f[k]
RaisedIn(K, L, f, g, w, e, q) ==
  \A v \in K : \A d \in L : g[v][d] = IF v = w /\ d = e THEN f[v][d] + q ELSE f[v][d]

LEMMA ReportSumRaised ==
  ASSUME NEW T, IsFiniteSet(T), NEW f, NEW g, NEW x, NEW q \in Int,
         Whole(T, f), Raised(T, f, g, x, q)
  PROVE  /\ SumFunctionOnSet(f, T) \in Int
         /\ SumFunctionOnSet(g, T) = SumFunctionOnSet(f, T) + IF x \in T THEN q ELSE 0
<1>1. \A t \in T : f[t] \in Int /\ g[t] \in Int  BY DEF Whole, Raised
<1>2. \A t \in T \ {x} : f[t] = g[t]  BY DEF Raised
<1>3. SumFunctionOnSet(f, T) \in Int  BY <1>1, SumOnSplit
<1>4. CASE x \in T
  <2>1. SumFunctionOnSet(g, T) = SumFunctionOnSet(f, T) - f[x] + g[x]
    BY <1>1, <1>2, <1>4, SumOnChanged
  <2>2. f[x] \in Int /\ g[x] = f[x] + q  BY <1>4 DEF Whole, Raised
  <2> QED  BY <1>3, <1>4, <2>1, <2>2
<1>5. CASE x \notin T
  <2>1. \A t \in T : g[t] = f[t]  BY <1>2, <1>5
  <2>2. SumFunctionOnSet(g, T) = SumFunctionOnSet(f, T)  BY <2>1, SumOnSame
  <2> QED  BY <1>3, <1>5, <2>2
<1> QED  BY <1>4, <1>5

LEMMA ReportOverIsSum ==
  ASSUME Reports!ReportAssumptions, NEW A \in SUBSET Reports!Days, NEW f,
         \A d \in Reports!Days : f[d] \in Int
  PROVE  Reports!Over(f, A) = SumFunctionOnSet(f, A) /\ Reports!Over(f, A) \in Int
<1>1. IsFiniteSet(A)  BY ReportDaysFinite
<1> DEFINE g == [d \in A |-> f[d]]
<1>2. \A d \in A : g[d] = f[d]  OBVIOUS
<1>3. DOMAIN g = A  OBVIOUS
<1>4. Reports!Over(f, A) = SumFunctionOnSet(g, A)  BY <1>3, ReportSumIs DEF Reports!Over
<1> HIDE DEF g
<1>5. SumFunctionOnSet(g, A) = SumFunctionOnSet(f, A)  BY <1>1, <1>2, SumOnSame
<1>6. SumFunctionOnSet(f, A) \in Int  BY <1>1, SumOnSplit
<1> QED  BY <1>4, <1>5, <1>6

LEMMA ReportOverParts ==
  ASSUME Reports!ReportAssumptions, NEW A \in SUBSET Reports!Days,
         NEW B \in SUBSET Reports!Days, A \cap B = {},
         NEW f, \A d \in Reports!Days : f[d] \in Int
  PROVE  Reports!Over(f, A \cup B) = Reports!Over(f, A) + Reports!Over(f, B)
<1>1. A \cup B \in SUBSET Reports!Days /\ (A \cup B) \ A = B /\ A \in SUBSET (A \cup B)
  OBVIOUS
<1>2. IsFiniteSet(A \cup B)  BY <1>1, ReportDaysFinite
<1>3. \A d \in A \cup B : f[d] \in Int  OBVIOUS
<1>4. SumFunctionOnSet(f, A \cup B) = SumFunctionOnSet(f, A) + SumFunctionOnSet(f, B)
  BY <1>1, <1>2, <1>3, SumOnParts
<1> QED  BY <1>1, <1>4, ReportOverIsSum

\* One more movement on day e.
LEMMA ReportOverChanged ==
  ASSUME Reports!ReportAssumptions, NEW A \in SUBSET Reports!Days, NEW f, NEW g,
         NEW e \in Reports!Days, NEW q \in Int,
         Whole(Reports!Days, f), Raised(Reports!Days, f, g, e, q)
  PROVE  Reports!Over(g, A) = Reports!Over(f, A) + IF e \in A THEN q ELSE 0
<1>0. /\ \A d \in Reports!Days : f[d] \in Int
      /\ \A d \in Reports!Days : g[d] = IF d = e THEN f[d] + q ELSE f[d]
  BY DEF Whole, Raised
<1>1. IsFiniteSet(A)  BY ReportDaysFinite
<1>2. \A d \in Reports!Days : g[d] \in Int  BY <1>0
<1>3. Reports!Over(g, A) = SumFunctionOnSet(g, A)
        /\ Reports!Over(f, A) = SumFunctionOnSet(f, A)
  BY <1>0, <1>2, ReportOverIsSum
<1>4. Whole(A, f) /\ Raised(A, f, g, e, q)  BY DEF Whole, Raised
<1> QED  BY <1>1, <1>3, <1>4, ReportSumRaised

\* The same for refunds, which have two days.
RefundsOver(f, A) == Reports!Sum([sd \in Reports!Days \X A |-> f[sd]])

LEMMA ReportRefundsSum ==
  ASSUME Reports!ReportAssumptions, NEW A \in SUBSET Reports!Days, NEW f,
         \A sd \in Reports!Days \X Reports!Days : f[sd] \in Int
  PROVE  /\ RefundsOver(f, A) = SumFunctionOnSet(f, Reports!Days \X A)
         /\ RefundsOver(f, A) \in Int
<1>1. IsFiniteSet(Reports!Days \X A)
        /\ Reports!Days \X A \subseteq Reports!Days \X Reports!Days
  BY ReportDaysFinite
<1> DEFINE S == Reports!Days \X A
           g == [sd \in S |-> f[sd]]
<1>2. \A sd \in S : g[sd] = f[sd] /\ f[sd] \in Int  BY <1>1
<1>3. DOMAIN g = S  OBVIOUS
<1>4. RefundsOver(f, A) = SumFunctionOnSet(g, S)  BY <1>3, ReportSumIs DEF RefundsOver
<1>5. IsFiniteSet(S)  BY <1>1
<1> HIDE DEF g, S
<1>6. SumFunctionOnSet(g, S) = SumFunctionOnSet(f, S)  BY <1>5, <1>2, SumOnSame
<1>7. SumFunctionOnSet(f, S) \in Int  BY <1>2, <1>5, SumOnSplit
<1> QED  BY <1>4, <1>6, <1>7 DEF S

LEMMA ReportRefundsParts ==
  ASSUME Reports!ReportAssumptions, NEW A \in SUBSET Reports!Days,
         NEW B \in SUBSET Reports!Days, A \cap B = {},
         NEW f, \A sd \in Reports!Days \X Reports!Days : f[sd] \in Int
  PROVE  RefundsOver(f, A \cup B) = RefundsOver(f, A) + RefundsOver(f, B)
<1> DEFINE S == Reports!Days \X A
           T == Reports!Days \X (A \cup B)
<1>1. A \cup B \in SUBSET Reports!Days /\ S \in SUBSET T /\ T \ S = Reports!Days \X B
  OBVIOUS
<1>2. IsFiniteSet(T)  BY <1>1, ReportDaysFinite
<1>3. \A sd \in T : f[sd] \in Int  OBVIOUS
<1> HIDE DEF S, T
<1>4. SumFunctionOnSet(f, T) = SumFunctionOnSet(f, S) + SumFunctionOnSet(f, T \ S)
  BY <1>1, <1>2, <1>3, SumOnParts
<1>5. RefundsOver(f, A \cup B) = SumFunctionOnSet(f, T)  BY <1>1, ReportRefundsSum DEF T
<1>6. RefundsOver(f, A) = SumFunctionOnSet(f, S)  BY ReportRefundsSum DEF S
<1>7. RefundsOver(f, B) = SumFunctionOnSet(f, Reports!Days \X B)  BY ReportRefundsSum
<1> QED  BY <1>1, <1>4, <1>5, <1>6, <1>7

LEMMA ReportRefundsChanged ==
  ASSUME Reports!ReportAssumptions, NEW A \in SUBSET Reports!Days, NEW f, NEW g,
         NEW d \in Reports!Days, NEW e \in Reports!Days,
         NEW q \in Int, Whole(Reports!Days \X Reports!Days, f),
         Raised(Reports!Days \X Reports!Days, f, g, <<d, e>>, q)
  PROVE  RefundsOver(g, A) = RefundsOver(f, A) + IF e \in A THEN q ELSE 0
<1> DEFINE S == Reports!Days \X A
           x == <<d, e>>
<1>0. /\ \A sd \in Reports!Days \X Reports!Days : f[sd] \in Int
      /\ \A sd \in Reports!Days \X Reports!Days :
           g[sd] = IF sd = <<d, e>> THEN f[sd] + q ELSE f[sd]
  BY DEF Whole, Raised
<1>1. IsFiniteSet(S) /\ S \subseteq Reports!Days \X Reports!Days  BY ReportDaysFinite
<1>2. \A sd \in Reports!Days \X Reports!Days : g[sd] \in Int  BY <1>0
<1>3. RefundsOver(g, A) = SumFunctionOnSet(g, S)
        /\ RefundsOver(f, A) = SumFunctionOnSet(f, S)
  BY <1>0, <1>2, ReportRefundsSum
<1>4. x \in S <=> e \in A  OBVIOUS
<1>5. Whole(S, f) /\ Raised(S, f, g, x, q)  BY <1>1 DEF Whole, Raised
<1> HIDE DEF S, x
<1> QED  BY <1>1, <1>3, <1>4, <1>5, ReportSumRaised

-----------------------------------------------------------------------------
(* Reports: types *)

LEMMA ReportInitTypes == Reports!ReportAssumptions /\ Reports!Init => Reports!TypeOK
  BY DEF Reports!ReportAssumptions, Reports!Init, Reports!TypeOK, Reports!Days,
     Reports!Products

LEMMA ReportMoveTypes ==
  ASSUME Reports!ReportAssumptions, Reports!TypeOK, NEW change \in [Goods -> Int], NEW d,
         Reports!Move(change, d)
  PROVE  quantity' \in [Goods -> Int] /\ shelf' \in [0..LastDay -> [Goods -> Int]]
<1>1. quantity \in [Goods -> Int] /\ shelf \in [0..LastDay -> [Goods -> Int]]
  BY DEF Reports!TypeOK
<1>2. quantity' = [p \in Goods |-> quantity[p] + change[p]]  BY DEF Reports!Move
<1>3. shelf' = [e \in 0..LastDay |->
                  IF e >= d THEN [p \in Goods |-> shelf[e][p] + change[p]] ELSE shelf[e]]
  BY DEF Reports!Move
<1>4. \A p \in Goods : change[p] \in Int  OBVIOUS
<1>5. ASSUME NEW e \in 0..LastDay
      PROVE  (IF e >= d THEN [p \in Goods |-> shelf[e][p] + change[p]] ELSE shelf[e]) \in [Goods -> Int]
  <2>1. shelf[e] \in [Goods -> Int]  BY <1>1
  <2> QED  BY <1>4, <2>1
<1> QED  BY <1>1, <1>2, <1>3, <1>4, <1>5

LEMMA ReportEffectType ==
  ASSUME Reports!ReportAssumptions, Reports!TypeOK, NEW p, NEW q \in Int
  PROVE  Reports!Effect(p, q) \in [Goods -> Int] /\ Reports!Only(p, q) \in [Goods -> Int]
<1>1. recipe \in [Recipes -> [Goods -> Nat]]
  BY DEF Reports!TypeOK, Reports!ReportAssumptions
<1>2. CASE p \in Recipes
  <2>1. \A g \in Goods : recipe[p][g] \in Nat  BY <1>1, <1>2
  <2>2. \A g \in Goods : - recipe[p][g] * q \in Int  BY <2>1
  <2> QED  BY <1>2, <2>2 DEF Reports!Effect, Reports!Only
<1>3. CASE p \notin Recipes
  BY <1>3 DEF Reports!Effect, Reports!Only
<1> QED  BY <1>2, <1>3

LEMMA ReportEventTypes ==
  Reports!ReportAssumptions /\ Reports!TypeOK /\ Reports!Event
    => events' \in 0..MaxEvents /\ day' = day
<1> SUFFICES ASSUME Reports!ReportAssumptions, Reports!TypeOK, Reports!Event
             PROVE  events' \in 0..MaxEvents /\ day' = day
  OBVIOUS
<1>1. events \in 0..MaxEvents /\ MaxEvents \in Nat
  BY DEF Reports!TypeOK, Reports!ReportAssumptions
<1>2. events < MaxEvents /\ events' = events + 1 /\ day' = day  BY DEF Reports!Event
<1> QED  BY <1>1, <1>2

LEMMA ReportChangedRow ==
  ASSUME NEW K, NEW f \in [K -> Nat], NEW k, NEW v \in Nat
  PROVE  [f EXCEPT ![k] = v] \in [K -> Nat]
OBVIOUS

LEMMA ReportStepTypes ==
  Reports!ReportAssumptions /\ Reports!TypeOK /\ [Reports!Next]_(Reports!vars)
    => Reports!TypeOK'
<1> SUFFICES ASSUME Reports!ReportAssumptions, Reports!TypeOK, [Reports!Next]_(Reports!vars)
             PROVE  Reports!TypeOK'
  OBVIOUS
<1>0. \A q \in Quantities : q \in Nat  BY DEF Reports!ReportAssumptions
<1>1. ASSUME NEW p \in Reports!Products, NEW q \in Quantities, Reports!Sell(p, q)
      PROVE  Reports!TypeOK'
  <2>1. events' \in 0..MaxEvents /\ day' = day
    BY <1>1, ReportEventTypes DEF Reports!Sell
  <2>2. quantity' \in [Goods -> Int] /\ shelf' \in [0..LastDay -> [Goods -> Int]]
    <3>1. Reports!Effect(p, q) \in [Goods -> Int]  BY <1>0, ReportEffectType
    <3>2. Reports!Move(Reports!Effect(p, q), day)  BY <1>1 DEF Reports!Sell
    <3> QED  BY <3>1, <3>2, ReportMoveTypes
  <2>3. sold' \in [Reports!Products -> [Reports!Days -> Nat]]
    <3>1. sold \in [Reports!Products -> [Reports!Days -> Nat]] /\ q \in Nat
      BY <1>0 DEF Reports!TypeOK
    <3>2. sold' = [sold EXCEPT ![p] = [sold[p] EXCEPT ![day] = sold[p][day] + q]]
      BY <1>1, <3>1 DEF Reports!Sell
    <3>3. day \in Reports!Days  BY DEF Reports!TypeOK
    <3>4. sold[p] \in [Reports!Days -> Nat] /\ sold[p][day] \in Nat  BY <3>1, <3>3
    <3>5. sold[p][day] + q \in Nat  BY <3>1, <3>4
    <3>6. [sold[p] EXCEPT ![day] = sold[p][day] + q] \in [Reports!Days -> Nat]
      BY <3>4, <3>5, ReportChangedRow
    <3> QED  BY <3>1, <3>2, <3>6
  <2> QED  BY <1>1, <2>1, <2>2, <2>3 DEF Reports!Sell, Reports!TypeOK
<1>2. ASSUME NEW p \in Reports!Products, NEW q \in Quantities, NEW d \in Reports!Days,
             Reports!Refund(p, d, q)
      PROVE  Reports!TypeOK'
  <2>1. events' \in 0..MaxEvents /\ day' = day
    BY <1>2, ReportEventTypes DEF Reports!Refund
  <2>2. quantity' \in [Goods -> Int] /\ shelf' \in [0..LastDay -> [Goods -> Int]]
    <3>1. - q \in Int  BY <1>0
    <3>2. Reports!Effect(p, - q) \in [Goods -> Int]  BY <3>1, ReportEffectType
    <3>3. Reports!Move(Reports!Effect(p, - q), day)  BY <1>2 DEF Reports!Refund
    <3> QED  BY <3>2, <3>3, ReportMoveTypes
  <2>3. refunded' \in [Reports!Products -> [Reports!Days \X Reports!Days -> Nat]]
    <3>1. refunded \in [Reports!Products -> [Reports!Days \X Reports!Days -> Nat]]
            /\ q \in Nat
      BY <1>0 DEF Reports!TypeOK
    <3> DEFINE sd == <<d, day>>
    <3>2. refunded' = [refunded EXCEPT ![p] = [refunded[p] EXCEPT ![sd] = refunded[p][sd] + q]]
      BY <1>2, <3>1 DEF Reports!Refund
    <3>3. sd \in Reports!Days \X Reports!Days  BY DEF Reports!TypeOK
    <3> HIDE DEF sd
    <3>4. refunded[p] \in [Reports!Days \X Reports!Days -> Nat] /\ refunded[p][sd] \in Nat
      BY <3>1, <3>3
    <3>5. refunded[p][sd] + q \in Nat  BY <3>1, <3>4
    <3>6. [refunded[p] EXCEPT ![sd] = refunded[p][sd] + q]
            \in [Reports!Days \X Reports!Days -> Nat]
      BY <3>4, <3>5, ReportChangedRow
    <3> QED  BY <3>1, <3>2, <3>6
  <2> QED  BY <1>2, <2>1, <2>2, <2>3 DEF Reports!Refund, Reports!TypeOK
<1>3. ASSUME NEW p \in Goods, NEW q \in Quantities, Reports!Revise(p, q)
      PROVE  Reports!TypeOK'
  <2>1. events' \in 0..MaxEvents /\ day' = day
    BY <1>3, ReportEventTypes DEF Reports!Revise
  <2>2. q - quantity[p] \in Int  BY <1>0 DEF Reports!TypeOK
  <2>3. quantity' \in [Goods -> Int] /\ shelf' \in [0..LastDay -> [Goods -> Int]]
    <3>1. Reports!Only(p, q - quantity[p]) \in [Goods -> Int]  BY <2>2, ReportEffectType
    <3>2. Reports!Move(Reports!Only(p, q - quantity[p]), day)
      BY <1>3 DEF Reports!Revise
    <3> QED  BY <3>1, <3>2, ReportMoveTypes
  <2>4. revised' \in [Goods -> [Reports!Days -> Int]]
    <3>1. revised \in [Goods -> [Reports!Days -> Int]] /\ q \in Nat /\ quantity[p] \in Int
            /\ day \in Reports!Days
      BY <1>0 DEF Reports!TypeOK
    <3>2. revised' = [revised EXCEPT ![p][day] = @ + q - quantity[p]]
      BY <1>3 DEF Reports!Revise
    <3>3. revised[p] \in [Reports!Days -> Int]  BY <3>1
    <3>4. revised[p][day] + q - quantity[p] \in Int  BY <3>1, <3>3
    <3> QED  BY <3>1, <3>2, <3>3, <3>4
  <2> QED  BY <1>3, <2>1, <2>3, <2>4 DEF Reports!Revise, Reports!TypeOK
<1>9. ASSUME NEW p \in Goods, Reports!LoadLate(p) PROVE Reports!TypeOK'
  <2>1. events' \in 0..MaxEvents /\ day' = day
    BY <1>9, ReportEventTypes DEF Reports!LoadLate
  <2>2. revised' \in [Goods -> [Reports!Days -> Int]]
    <3>1. revised \in [Goods -> [Reports!Days -> Int]] /\ quantity[p] \in Int
            /\ day \in Reports!Days
      BY DEF Reports!TypeOK
    <3>2. revised' = [revised EXCEPT ![p][day] = @ - quantity[p]]
      BY <1>9 DEF Reports!LoadLate
    <3>3. revised[p] \in [Reports!Days -> Int]  BY <3>1
    <3>4. revised[p][day] - quantity[p] \in Int  BY <3>1, <3>3
    <3> QED  BY <3>1, <3>2, <3>3, <3>4
  <2> QED  BY <1>9, <2>1, <2>2 DEF Reports!LoadLate, Reports!TypeOK
<1>4. ASSUME NEW p \in Goods, NEW q \in Quantities, NEW type \in Reports!Documents,
             NEW d \in Reports!Days,
             Reports!Receive(type, p, q, d)
      PROVE  Reports!TypeOK'
  <2> DEFINE change == IF type \in Reports!OUTGOING_MOVEMENT_TYPES THEN - q ELSE q
  <2>1. events' \in 0..MaxEvents /\ day' = day
    BY <1>4, ReportEventTypes DEF Reports!Receive
  <2>2. change \in Int  BY <1>0
  <2>3. quantity' \in [Goods -> Int] /\ shelf' \in [0..LastDay -> [Goods -> Int]]
    <3>1. Reports!Only(p, change) \in [Goods -> Int]  BY <2>2, ReportEffectType
    <3>2. Reports!Move(Reports!Only(p, change), d)  BY <1>4 DEF Reports!Receive
    <3> QED  BY <3>1, <3>2, ReportMoveTypes
  <2>4. received' \in [Reports!Documents -> [Goods -> [Reports!Days -> Nat]]]
    <3>1. received \in [Reports!Documents -> [Goods -> [Reports!Days -> Nat]]] /\ q \in Nat
      BY <1>0 DEF Reports!TypeOK
    <3>2. received' = [received EXCEPT ![type][p][d] = @ + q]
      BY <1>4 DEF Reports!Receive
    <3>3. received[type] \in [Goods -> [Reports!Days -> Nat]]
            /\ received[type][p] \in [Reports!Days -> Nat]
          /\ received[type][p][d] + q \in Nat
      BY <3>1
    <3> QED  BY <3>1, <3>2, <3>3
  <2> QED  BY <1>4, <2>1, <2>3, <2>4 DEF Reports!Receive, Reports!TypeOK
<1>5. ASSUME NEW v \in SalePrices, NEW logged \in BOOLEAN, Reports!SetPrice(v, logged)
      PROVE  Reports!TypeOK'
  <2>1. events' \in 0..MaxEvents /\ day' = day
    BY <1>5, ReportEventTypes DEF Reports!SetPrice
  <2>2. priceLog' \in Seq(Reports!Days \X SalePrices)
    <3>1. priceLog \in Seq(Reports!Days \X SalePrices)
            /\ <<day, price>> \in Reports!Days \X SalePrices
      BY DEF Reports!TypeOK
    <3>2. Append(priceLog, <<day, price>>) \in Seq(Reports!Days \X SalePrices)  BY <3>1
    <3> QED  BY <1>5, <3>1, <3>2 DEF Reports!SetPrice
  <2>3. tag' \in [0..LastDay -> SalePrices] /\ price' \in SalePrices
    BY <1>5 DEF Reports!SetPrice, Reports!TypeOK
  <2>4. untracked' \subseteq {"recipe", "price", "revision"}
    BY <1>5 DEF Reports!SetPrice, Reports!TypeOK
  <2> QED  BY <1>5, <2>1, <2>2, <2>3, <2>4 DEF Reports!SetPrice, Reports!TypeOK
<1>6. CASE Reports!EditRecipe
  <2>1. events' \in 0..MaxEvents /\ day' = day
    BY <1>6, ReportEventTypes DEF Reports!EditRecipe
  <2> QED  BY <1>6, <2>1 DEF Reports!EditRecipe, Reports!TypeOK
<1>7. CASE Reports!NextDay
  <2>1. day \in 1..LastDay /\ LastDay \in Int /\ day < LastDay /\ day' = day + 1
    BY <1>7 DEF Reports!NextDay, Reports!TypeOK, Reports!Days, Reports!ReportAssumptions
  <2>2. day' \in Reports!Days  BY <2>1 DEF Reports!Days
  <2> QED  BY <1>7, <2>2 DEF Reports!NextDay, Reports!TypeOK
<1>8. CASE UNCHANGED Reports!vars
  BY <1>8 DEF Reports!vars, Reports!TypeOK
<1> QED
  BY <1>1, <1>2, <1>3, <1>4, <1>5, <1>6, <1>7, <1>8, <1>9 DEF Reports!Next

-----------------------------------------------------------------------------
(* Reports: net changes of a period *)

\* What the reports know of a product's movements on any set of days are numbers.
LEMMA ReportMovementTypes ==
  ASSUME Reports!ReportAssumptions, Reports!TypeOK
  PROVE  /\ \A p \in Reports!Products : \A d \in Reports!Days : sold[p][d] \in Int
         /\ \A p \in Reports!Products : \A sd \in Reports!Days \X Reports!Days : refunded[p][sd] \in Int
         /\ \A type \in Reports!Documents, p \in Goods : \A d \in Reports!Days : received[type][p][d] \in Int
         /\ \A p \in Goods : \A d \in Reports!Days : revised[p][d] \in Int
         /\ \A r \in Recipes, p \in Goods : recipe[r][p] \in Int
<1>1. recipe \in [Recipes -> [Goods -> Nat]]
  BY DEF Reports!TypeOK, Reports!ReportAssumptions
<1>2. \A r \in Recipes, p \in Goods : recipe[r][p] \in Int  BY <1>1
<1> QED  BY <1>2 DEF Reports!TypeOK

LEMMA ReportPeriodTypes ==
  ASSUME Reports!ReportAssumptions, Reports!TypeOK, NEW A \in SUBSET Reports!Days
  PROVE  /\ \A p \in Reports!Products : Reports!SoldIn(p, A) \in Int
              /\ Reports!RefundedIn(p, A) \in Int
         /\ \A type \in Reports!Documents, p \in Goods : Reports!ReceivedIn(type, p, A) \in Int
         /\ \A p \in Goods : Reports!Over(revised[p], A) \in Int
<1>1. ASSUME NEW p \in Reports!Products
      PROVE  Reports!SoldIn(p, A) \in Int /\ Reports!RefundedIn(p, A) \in Int
  <2>1. Reports!SoldIn(p, A) \in Int
    BY ReportMovementTypes, ReportOverIsSum DEF Reports!SoldIn
  <2>2. RefundsOver(refunded[p], A) \in Int  BY ReportMovementTypes, ReportRefundsSum
  <2> QED  BY <2>1, <2>2 DEF Reports!RefundedIn, RefundsOver
<1>2. ASSUME NEW type \in Reports!Documents, NEW p \in Goods
      PROVE  Reports!ReceivedIn(type, p, A) \in Int
  BY ReportMovementTypes, ReportOverIsSum DEF Reports!ReceivedIn
<1>3. ASSUME NEW p \in Goods PROVE Reports!Over(revised[p], A) \in Int
  BY ReportMovementTypes, ReportOverIsSum
<1> QED  BY <1>1, <1>2, <1>3

LEMMA ReportPeriodParts ==
  ASSUME Reports!ReportAssumptions, Reports!TypeOK, NEW A \in SUBSET Reports!Days,
         NEW B \in SUBSET Reports!Days, A \cap B = {}
  PROVE  /\ \A p \in Reports!Products :
              /\ Reports!SoldIn(p, A \cup B) = Reports!SoldIn(p, A) + Reports!SoldIn(p, B)
                               /\ Reports!RefundedIn(p, A \cup B)
                                    = Reports!RefundedIn(p, A) + Reports!RefundedIn(p, B)
         /\ \A type \in Reports!Documents, p \in Goods :
              Reports!ReceivedIn(type, p, A \cup B)
                = Reports!ReceivedIn(type, p, A) + Reports!ReceivedIn(type, p, B)
         /\ \A p \in Goods : Reports!Over(revised[p], A \cup B)
              = Reports!Over(revised[p], A) + Reports!Over(revised[p], B)
<1>1. ASSUME NEW p \in Reports!Products
      PROVE  /\ Reports!SoldIn(p, A \cup B) = Reports!SoldIn(p, A) + Reports!SoldIn(p, B)
             /\ Reports!RefundedIn(p, A \cup B)
                  = Reports!RefundedIn(p, A) + Reports!RefundedIn(p, B)
  <2>1. Reports!SoldIn(p, A \cup B) = Reports!SoldIn(p, A) + Reports!SoldIn(p, B)
    BY ReportMovementTypes, ReportOverParts DEF Reports!SoldIn
  <2>2. RefundsOver(refunded[p], A \cup B)
          = RefundsOver(refunded[p], A) + RefundsOver(refunded[p], B)
    BY ReportMovementTypes, ReportRefundsParts
  <2> QED  BY <2>1, <2>2 DEF Reports!RefundedIn, RefundsOver
<1>2. ASSUME NEW type \in Reports!Documents, NEW p \in Goods
      PROVE  Reports!ReceivedIn(type, p, A \cup B)
               = Reports!ReceivedIn(type, p, A) + Reports!ReceivedIn(type, p, B)
  BY ReportMovementTypes, ReportOverParts DEF Reports!ReceivedIn
<1>3. ASSUME NEW p \in Goods
      PROVE  Reports!Over(revised[p], A \cup B)
               = Reports!Over(revised[p], A) + Reports!Over(revised[p], B)
  BY ReportMovementTypes, ReportOverParts
<1> QED  BY <1>1, <1>2, <1>3

\* What recipes take of an ingredient, given how many of each: linear.
Cooking(c, i, x) == Reports!Sum([r \in Recipes |-> c[r][i] * x[r]])

CookInts(c, i, x) == \A r \in Recipes : c[r][i] \in Int /\ x[r] \in Int

LEMMA ReportCookingSum ==
  ASSUME Reports!ReportAssumptions, NEW c, NEW i, NEW x, CookInts(c, i, x)
  PROVE  /\ Cooking(c, i, x) = SumFunctionOnSet([r \in Recipes |-> c[r][i] * x[r]], Recipes)
         /\ Cooking(c, i, x) \in Int
<1> DEFINE f == [r \in Recipes |-> c[r][i] * x[r]]
<1>1. DOMAIN f = Recipes /\ \A r \in Recipes : f[r] \in Int  BY DEF CookInts
<1>2. Cooking(c, i, x) = SumFunctionOnSet(f, Recipes)  BY <1>1, ReportSumIs DEF Cooking
<1>3. IsFiniteSet(Recipes)  BY ReportRecipesFinite
<1> HIDE DEF f
<1>4. SumFunctionOnSet(f, Recipes) \in Int  BY <1>1, <1>3, SumOnSplit
<1> QED  BY <1>2, <1>4 DEF f

SumsOf(z, x, y) == \A r \in Recipes : z[r] = x[r] + y[r]

LEMMA ReportCookingAdds ==
  ASSUME Reports!ReportAssumptions, NEW c, NEW i, NEW x, NEW y, NEW z,
         CookInts(c, i, x), CookInts(c, i, y), SumsOf(z, x, y)
  PROVE  Cooking(c, i, z) = Cooking(c, i, x) + Cooking(c, i, y)
<1> DEFINE f == [r \in Recipes |-> c[r][i] * x[r]]
           g == [r \in Recipes |-> c[r][i] * y[r]]
           h == [r \in Recipes |-> c[r][i] * z[r]]
<1>1. \A r \in Recipes : f[r] \in Int /\ g[r] \in Int /\ h[r] = f[r] + g[r]
  <2> TAKE r \in Recipes
  <2>1. c[r][i] \in Int /\ x[r] \in Int /\ y[r] \in Int /\ z[r] = x[r] + y[r]
    BY DEF CookInts, SumsOf
  <2>2. \A a, b, d \in Int : a * (b + d) = a * b + a * d  OBVIOUS
  <2>3. c[r][i] * z[r] = c[r][i] * x[r] + c[r][i] * y[r]  BY <2>1, <2>2
  <2> QED  BY <2>1, <2>3
<1>2. IsFiniteSet(Recipes)  BY ReportRecipesFinite
<1>3. CookInts(c, i, z)  BY DEF CookInts, SumsOf
<1>4. /\ Cooking(c, i, x) = SumFunctionOnSet(f, Recipes)
      /\ Cooking(c, i, y) = SumFunctionOnSet(g, Recipes)
      /\ Cooking(c, i, z) = SumFunctionOnSet(h, Recipes)
  BY <1>3, ReportCookingSum
<1> HIDE DEF f, g, h
<1>5. SumFunctionOnSet(h, Recipes)
        = SumFunctionOnSet(f, Recipes) + SumFunctionOnSet(g, Recipes)
  BY <1>1, <1>2, SumOnAdded
<1> QED  BY <1>4, <1>5

\* The net change of a period, given all movements.
SalesOf(s, A) == [r \in Recipes |-> Reports!Over(s[r], A)]
RefundsOf(rf, A) == [r \in Recipes |-> RefundsOver(rf[r], A)]
OutOf(rc, p, A) == Reports!Sum([type \in Reports!OUTGOING_MOVEMENT_TYPES |-> Reports!Over(rc[type][p], A)])
Net(s, rf, rc, rv, c, p, A) ==
    RefundsOver(rf[p], A) - Reports!Over(s[p], A) + Reports!Over(rc["delivered"][p], A) - OutOf(rc, p, A)
      + Reports!Over(rv[p], A) - Cooking(c, p, SalesOf(s, A)) + Cooking(c, p, RefundsOf(rf, A))

Numbers(s, rf, rc, rv, c) ==
    /\ \A p \in Reports!Products : \A d \in Reports!Days : s[p][d] \in Int
    /\ \A p \in Reports!Products : \A sd \in Reports!Days \X Reports!Days : rf[p][sd] \in Int
    /\ \A type \in Reports!Documents, p \in Goods : \A d \in Reports!Days : rc[type][p][d] \in Int
    /\ \A p \in Goods : \A d \in Reports!Days : rv[p][d] \in Int
    /\ \A r \in Recipes, p \in Goods : c[r][p] \in Int

LEMMA ReportNumbersNow ==
  Reports!ReportAssumptions /\ Reports!TypeOK
    => Numbers(sold, refunded, received, revised, recipe)
  BY ReportMovementTypes DEF Numbers

LEMMA ReportNetTerms ==
  ASSUME Reports!ReportAssumptions, NEW A \in SUBSET Reports!Days, NEW p \in Goods,
         NEW s, NEW rf, NEW rc, NEW rv, NEW c, Numbers(s, rf, rc, rv, c)
  PROVE  /\ RefundsOver(rf[p], A) \in Int /\ Reports!Over(s[p], A) \in Int
         /\ Reports!Over(rc["delivered"][p], A) \in Int
         /\ OutOf(rc, p, A) = Reports!Over(rc["written_off"][p], A) + Reports!Over(rc["scrapped"][p], A)
         /\ Reports!Over(rc["written_off"][p], A) \in Int
              /\ Reports!Over(rc["scrapped"][p], A) \in Int
         /\ Reports!Over(rv[p], A) \in Int
         /\ OutOf(rc, p, A) \in Int
         /\ CookInts(c, p, SalesOf(s, A)) /\ CookInts(c, p, RefundsOf(rf, A))
         /\ Cooking(c, p, SalesOf(s, A)) \in Int /\ Cooking(c, p, RefundsOf(rf, A)) \in Int
<1>1. p \in Reports!Products /\ Recipes \subseteq Reports!Products
  BY DEF Reports!Products
<1>2. RefundsOver(rf[p], A) \in Int /\ Reports!Over(s[p], A) \in Int
  BY <1>1, ReportOverIsSum, ReportRefundsSum DEF Numbers
<1>3. \A type \in Reports!Documents : Reports!Over(rc[type][p], A) \in Int
  BY ReportOverIsSum DEF Numbers
<1>4. Reports!Over(rv[p], A) \in Int  BY ReportOverIsSum DEF Numbers
<1>5. \A r \in Recipes : SalesOf(s, A)[r] \in Int /\ RefundsOf(rf, A)[r] \in Int
  BY <1>1, ReportOverIsSum, ReportRefundsSum DEF Numbers, SalesOf, RefundsOf
<1>6. CookInts(c, p, SalesOf(s, A)) /\ CookInts(c, p, RefundsOf(rf, A))
  BY <1>5 DEF Numbers, CookInts
<1>7. Cooking(c, p, SalesOf(s, A)) \in Int  BY <1>6, ReportCookingSum
<1>8. Cooking(c, p, RefundsOf(rf, A)) \in Int  BY <1>6, ReportCookingSum
<1>9. OutOf(rc, p, A) = Reports!Over(rc["written_off"][p], A) + Reports!Over(rc["scrapped"][p], A)
  <2> DEFINE f == [type \in Reports!OUTGOING_MOVEMENT_TYPES |-> Reports!Over(rc[type][p], A)]
             O == {"written_off", "scrapped"}
  <2>1. f["written_off"] = Reports!Over(rc["written_off"][p], A)
          /\ f["scrapped"] = Reports!Over(rc["scrapped"][p], A)
    BY DEF Reports!OUTGOING_MOVEMENT_TYPES
  <2>2. f["written_off"] \in Int /\ f["scrapped"] \in Int
    BY <1>3, <2>1 DEF Reports!Documents
  <2>3. OutOf(rc, p, A) = SumFunctionOnSet(f, O)
    BY ReportSumIs DEF OutOf, Reports!OUTGOING_MOVEMENT_TYPES
  <2>4. IsFiniteSet(O) /\ IsFiniteSet({"scrapped"}) /\ IsFiniteSet({})
    <3>1. IsFiniteSet({}) /\ IsFiniteSet({"scrapped"})  BY FS_EmptySet, FS_Singleton
    <3>2. IsFiniteSet({"scrapped"} \cup {"written_off"})  BY <3>1, FS_AddElement
    <3>3. {"scrapped"} \cup {"written_off"} = O  OBVIOUS
    <3> QED  BY <3>1, <3>2, <3>3
  <2>5. \A type \in O : f[type] \in Int  BY <2>2
  <2> HIDE DEF f
  <2>6. SumFunctionOnSet(f, O) = f["written_off"] + SumFunctionOnSet(f, O \ {"written_off"})
    BY <2>4, <2>5, SumOnSplit
  <2>7. O \ {"written_off"} = {"scrapped"} /\ {"scrapped"} \ {"scrapped"} = {}  OBVIOUS
  <2>8. SumFunctionOnSet(f, {"scrapped"}) = f["scrapped"] + SumFunctionOnSet(f, {})
    BY <2>2, <2>4, <2>7, SumOnSplit
  <2>9. SumFunctionOnSet(f, {}) = 0  BY <2>4, SumOnZeros
  <2> HIDE DEF O
  <2>10. OutOf(rc, p, A) = f["written_off"] + (f["scrapped"] + 0)
    BY <2>3, <2>6, <2>7, <2>8, <2>9
  <2>11. OutOf(rc, p, A) = f["written_off"] + f["scrapped"]  BY <2>2, <2>10
  <2> QED  BY <2>1, <2>11
<1>10. "delivered" \in Reports!Documents /\ "written_off" \in Reports!Documents
         /\ "scrapped" \in Reports!Documents
  BY DEF Reports!Documents
<1>11. OutOf(rc, p, A) \in Int  BY <1>3, <1>9, <1>10
<1> QED  BY <1>2, <1>3, <1>4, <1>6, <1>7, <1>8, <1>9, <1>10, <1>11

\* The two kinds of outgoing documents.
LEMMA ReportOutgoingSum ==
  ASSUME Reports!ReportAssumptions, Reports!TypeOK, NEW A \in SUBSET Reports!Days,
         NEW p \in Goods
  PROVE  Reports!Sum([type \in Reports!OUTGOING_MOVEMENT_TYPES |-> Reports!ReceivedIn(type, p, A)])
           = Reports!ReceivedIn("written_off", p, A) + Reports!ReceivedIn("scrapped", p, A)
<1>1. Reports!Sum([type \in Reports!OUTGOING_MOVEMENT_TYPES |-> Reports!ReceivedIn(type, p, A)])
        = OutOf(received, p, A)
  BY DEF OutOf, Reports!ReceivedIn
<1>2. OutOf(received, p, A)
        = Reports!Over(received["written_off"][p], A) + Reports!Over(received["scrapped"][p], A)
  BY ReportNumbersNow, ReportNetTerms
<1> QED  BY <1>1, <1>2 DEF Reports!ReceivedIn

Sales(A) == [r \in Recipes |-> Reports!SoldIn(r, A)]
Refunds(A) == [r \in Recipes |-> Reports!RefundedIn(r, A)]

LEMMA ReportConsumedCooking ==
  ASSUME NEW i, NEW A
  PROVE  /\ Reports!ConsumedIn(i, A) = Cooking(recipe, i, Sales(A))
         /\ Reports!ReturnedIn(i, A) = Cooking(recipe, i, Refunds(A))
<1>1. [r \in Recipes |-> recipe[r][i] * Reports!SoldIn(r, A)]
        = [r \in Recipes |-> recipe[r][i] * Sales(A)[r]]
  BY DEF Sales
<1>2. [r \in Recipes |-> recipe[r][i] * Reports!RefundedIn(r, A)]
        = [r \in Recipes |-> recipe[r][i] * Refunds(A)[r]]
  BY DEF Refunds
<1> QED  BY <1>1, <1>2 DEF Reports!ConsumedIn, Reports!ReturnedIn, Cooking

LEMMA ReportRecipeTypes ==
  ASSUME Reports!ReportAssumptions, Reports!TypeOK, NEW A \in SUBSET Reports!Days,
         NEW i \in Goods
  PROVE  /\ CookInts(recipe, i, Sales(A)) /\ CookInts(recipe, i, Refunds(A))
         /\ Reports!ConsumedIn(i, A) \in Int /\ Reports!ReturnedIn(i, A) \in Int
<1>1. \A r \in Recipes : recipe[r][i] \in Int /\ Sales(A)[r] \in Int
        /\ Refunds(A)[r] \in Int
  BY ReportMovementTypes, ReportPeriodTypes DEF Sales, Refunds, Reports!Products
<1>2. CookInts(recipe, i, Sales(A)) /\ CookInts(recipe, i, Refunds(A))
  BY <1>1 DEF CookInts
<1>3. Cooking(recipe, i, Sales(A)) \in Int /\ Cooking(recipe, i, Refunds(A)) \in Int
  BY <1>2, ReportCookingSum
<1>4. Reports!ConsumedIn(i, A) \in Int /\ Reports!ReturnedIn(i, A) \in Int
  BY <1>3, ReportConsumedCooking
<1> QED  BY <1>2, <1>4

LEMMA ReportRecipeParts ==
  ASSUME Reports!ReportAssumptions, Reports!TypeOK, NEW A \in SUBSET Reports!Days,
         NEW B \in SUBSET Reports!Days, A \cap B = {},
         NEW i \in Goods
  PROVE  /\ Reports!ConsumedIn(i, A \cup B)
              = Reports!ConsumedIn(i, A) + Reports!ConsumedIn(i, B)
         /\ Reports!ReturnedIn(i, A \cup B)
              = Reports!ReturnedIn(i, A) + Reports!ReturnedIn(i, B)
<1>1. /\ SumsOf(Sales(A \cup B), Sales(A), Sales(B))
      /\ SumsOf(Refunds(A \cup B), Refunds(A), Refunds(B))
  BY ReportPeriodParts DEF Sales, Refunds, Reports!Products, SumsOf
<1>2. /\ CookInts(recipe, i, Sales(A)) /\ CookInts(recipe, i, Sales(B))
      /\ CookInts(recipe, i, Refunds(A)) /\ CookInts(recipe, i, Refunds(B))
  BY ReportRecipeTypes
<1>3. Cooking(recipe, i, Sales(A \cup B))
        = Cooking(recipe, i, Sales(A)) + Cooking(recipe, i, Sales(B))
  BY <1>1, <1>2, ReportCookingAdds
<1>4. Cooking(recipe, i, Refunds(A \cup B))
        = Cooking(recipe, i, Refunds(A)) + Cooking(recipe, i, Refunds(B))
  BY <1>1, <1>2, ReportCookingAdds
<1> QED  BY <1>3, <1>4, ReportConsumedCooking

\* The net change, column by column.
LEMMA ReportNetColumns ==
  ASSUME Reports!ReportAssumptions, Reports!TypeOK, NEW A \in SUBSET Reports!Days,
         NEW p \in Goods
  PROVE  /\ Reports!NetChange(p, A)
              = Reports!RefundedIn(p, A) - Reports!SoldIn(p, A) + Reports!ReceivedIn("delivered", p, A)
               - (Reports!ReceivedIn("written_off", p, A) + Reports!ReceivedIn("scrapped", p, A))
               + Reports!Over(revised[p], A) - Reports!ConsumedIn(p, A) + Reports!ReturnedIn(p, A)
         /\ Reports!NetChange(p, A) \in Int
         /\ Reports!RefundedIn(p, A) \in Int /\ Reports!SoldIn(p, A) \in Int
              /\ Reports!ReceivedIn("delivered", p, A) \in Int
         /\ Reports!ReceivedIn("written_off", p, A) \in Int
              /\ Reports!ReceivedIn("scrapped", p, A) \in Int
         /\ Reports!Over(revised[p], A) \in Int /\ Reports!ConsumedIn(p, A) \in Int
              /\ Reports!ReturnedIn(p, A) \in Int
<1>1. /\ Reports!RefundedIn(p, A) \in Int /\ Reports!SoldIn(p, A) \in Int
           /\ Reports!ReceivedIn("delivered", p, A) \in Int
      /\ Reports!ReceivedIn("written_off", p, A) \in Int
           /\ Reports!ReceivedIn("scrapped", p, A) \in Int
      /\ Reports!Over(revised[p], A) \in Int
  BY ReportPeriodTypes DEF Reports!Products, Reports!Documents
<1>2. Reports!ConsumedIn(p, A) \in Int /\ Reports!ReturnedIn(p, A) \in Int
  BY ReportRecipeTypes
<1>3. Reports!NetChange(p, A)
        = Reports!RefundedIn(p, A) - Reports!SoldIn(p, A) + Reports!ReceivedIn("delivered", p, A)
               - (Reports!ReceivedIn("written_off", p, A) + Reports!ReceivedIn("scrapped", p, A))
               + Reports!Over(revised[p], A) - Reports!ConsumedIn(p, A) + Reports!ReturnedIn(p, A)
  BY ReportOutgoingSum DEF Reports!NetChange
<1> QED  BY <1>1, <1>2, <1>3

LEMMA ReportNetParts ==
  ASSUME Reports!ReportAssumptions, Reports!TypeOK, NEW A \in SUBSET Reports!Days,
         NEW B \in SUBSET Reports!Days, A \cap B = {},
         NEW p \in Goods
  PROVE  Reports!NetChange(p, A \cup B) = Reports!NetChange(p, A) + Reports!NetChange(p, B)
<1>0. A \cup B \in SUBSET Reports!Days /\ p \in Reports!Products
  BY DEF Reports!Products
<1>1. /\ Reports!SoldIn(p, A \cup B) = Reports!SoldIn(p, A) + Reports!SoldIn(p, B)
      /\ Reports!RefundedIn(p, A \cup B)
           = Reports!RefundedIn(p, A) + Reports!RefundedIn(p, B)
  BY <1>0, ReportPeriodParts
<1>2. /\ Reports!ReceivedIn("delivered", p, A \cup B)
           = Reports!ReceivedIn("delivered", p, A) + Reports!ReceivedIn("delivered", p, B)
      /\ Reports!ReceivedIn("written_off", p, A \cup B)
           = Reports!ReceivedIn("written_off", p, A) + Reports!ReceivedIn("written_off", p, B)
      /\ Reports!ReceivedIn("scrapped", p, A \cup B)
           = Reports!ReceivedIn("scrapped", p, A) + Reports!ReceivedIn("scrapped", p, B)
  BY ReportPeriodParts DEF Reports!Documents
<1>3. Reports!Over(revised[p], A \cup B)
        = Reports!Over(revised[p], A) + Reports!Over(revised[p], B)
  BY ReportPeriodParts
<1>4. /\ Reports!ConsumedIn(p, A \cup B)
           = Reports!ConsumedIn(p, A) + Reports!ConsumedIn(p, B)
      /\ Reports!ReturnedIn(p, A \cup B)
           = Reports!ReturnedIn(p, A) + Reports!ReturnedIn(p, B)
  BY ReportRecipeParts
<1>5. Reports!NetChange(p, A \cup B)
        = Reports!RefundedIn(p, A \cup B) - Reports!SoldIn(p, A \cup B) + Reports!ReceivedIn("delivered", p, A \cup B)
               - (Reports!ReceivedIn("written_off", p, A \cup B) + Reports!ReceivedIn("scrapped", p, A \cup B))
               + Reports!Over(revised[p], A \cup B) - Reports!ConsumedIn(p, A \cup B) + Reports!ReturnedIn(p, A \cup B)
  BY <1>0, ReportNetColumns
<1> QED  BY <1>1, <1>2, <1>3, <1>4, <1>5, ReportNetColumns

LEMMA ReportBalanceSum ==
  ASSUME NEW close \in Int, NEW after \in Int, NEW refunds \in Int, NEW sells \in Int,
         NEW delivs \in Int, NEW offs \in Int, NEW scraps \in Int, NEW revs \in Int,
         NEW used \in Int,
         NEW during,
         during = refunds - sells + delivs - (offs + scraps) + revs - used + 0
  PROVE  close - after
           = (close - (during + after)) + delivs - sells + refunds - scraps - offs + revs - used
OBVIOUS

LEMMA ReportBalances == Reports!ReportAssumptions /\ Reports!TypeOK => Reports!BalanceAddsUp
<1> SUFFICES ASSUME Reports!ReportAssumptions, Reports!TypeOK, NEW p \in Goods,
                    NEW start \in Reports!Days, NEW end \in Reports!Days,
                    start <= end, Reports!ReturnedIn(p, start..end) = 0
             PROVE  LET total == Reports!Totals(p, start, end)
                    IN  total.closing = total.opening + total.delivered - total.sold + total.refunded
                                        - total.scrapped - total.written_off + total.revised
                                        - total.recipe_consumed
  BY DEF Reports!BalanceAddsUp
<1> DEFINE A == start..end
           B == Reports!After(end)
<1>1. LastDay \in Int /\ start \in Int /\ end \in Int
  BY DEF Reports!ReportAssumptions, Reports!Days
<1>2. Reports!After(start - 1) = A \cup B /\ A \in SUBSET Reports!Days
        /\ B \in SUBSET Reports!Days /\ A \cap B = {}
  BY <1>1 DEF Reports!After, Reports!Days
<1>3. quantity[p] \in Int  BY DEF Reports!TypeOK
<1> HIDE DEF A, B
<1>4. Reports!NetChange(p, A \cup B) = Reports!NetChange(p, A) + Reports!NetChange(p, B)
  BY <1>2, ReportNetParts
<1>5. Reports!NetChange(p, A) \in Int /\ Reports!NetChange(p, B) \in Int
  BY <1>2, ReportNetColumns
<1>6. /\ Reports!StockAsOf(p, start - 1)
           = quantity[p] - (Reports!NetChange(p, A) + Reports!NetChange(p, B))
      /\ Reports!StockAsOf(p, end) = quantity[p] - Reports!NetChange(p, B)
  BY <1>2, <1>4 DEF Reports!StockAsOf, B
<1>7. Reports!ReturnedIn(p, A) = 0  BY DEF A
<1>8. Reports!NetChange(p, A)
        = Reports!RefundedIn(p, A) - Reports!SoldIn(p, A) + Reports!ReceivedIn("delivered", p, A)
               - (Reports!ReceivedIn("written_off", p, A) + Reports!ReceivedIn("scrapped", p, A))
               + Reports!Over(revised[p], A) - Reports!ConsumedIn(p, A) + Reports!ReturnedIn(p, A)
  BY <1>2, ReportNetColumns
<1>9. /\ Reports!RefundedIn(p, A) \in Int /\ Reports!SoldIn(p, A) \in Int
           /\ Reports!ReceivedIn("delivered", p, A) \in Int
      /\ Reports!ReceivedIn("written_off", p, A) \in Int
           /\ Reports!ReceivedIn("scrapped", p, A) \in Int
      /\ Reports!Over(revised[p], A) \in Int /\ Reports!ConsumedIn(p, A) \in Int
  BY <1>2, ReportNetColumns
<1>10. Reports!NetChange(p, A)
         = Reports!RefundedIn(p, A) - Reports!SoldIn(p, A) + Reports!ReceivedIn("delivered", p, A)
               - (Reports!ReceivedIn("written_off", p, A) + Reports!ReceivedIn("scrapped", p, A))
               + Reports!Over(revised[p], A) - Reports!ConsumedIn(p, A) + 0
  BY <1>7, <1>8
<1> DEFINE NA == Reports!NetChange(p, A)
           NB == Reports!NetChange(p, B)
           now1 == quantity[p]
           rf == Reports!RefundedIn(p, A)
           sl == Reports!SoldIn(p, A)
           dv == Reports!ReceivedIn("delivered", p, A)
           wo == Reports!ReceivedIn("written_off", p, A)
           sc == Reports!ReceivedIn("scrapped", p, A)
           rv == Reports!Over(revised[p], A)
           us == Reports!ConsumedIn(p, A)
<1>11. /\ now1 \in Int /\ NB \in Int /\ rf \in Int /\ sl \in Int /\ dv \in Int
       /\ wo \in Int /\ sc \in Int /\ rv \in Int /\ us \in Int
       /\ NA = rf - sl + dv - (wo + sc) + rv - us + 0
       /\ Reports!StockAsOf(p, start - 1) = now1 - (NA + NB)
       /\ Reports!StockAsOf(p, end) = now1 - NB
  BY <1>3, <1>5, <1>6, <1>9, <1>10
<1> HIDE DEF NA, NB, now1, rf, sl, dv, wo, sc, rv, us
<1>12. now1 - NB = (now1 - (NA + NB)) + dv - sl + rf - sc - wo + rv - us
  BY <1>11, ReportBalanceSum
<1>13. Reports!StockAsOf(p, end)
         = Reports!StockAsOf(p, start - 1) + dv - sl + rf - sc - wo + rv - us
  BY <1>11, <1>12
<1> QED  BY <1>13 DEF Reports!Totals, A, rf, sl, dv, wo, sc, rv, us

-----------------------------------------------------------------------------
(* Reports: the net change after one more movement *)

LEMMA ReportNetNow ==
  ASSUME NEW p, NEW A
  PROVE  Reports!NetChange(p, A) = Net(sold, refunded, received, revised, recipe, p, A)
<1>1. [r \in Recipes |-> recipe[r][p] * Reports!SoldIn(r, A)]
        = [r \in Recipes |-> recipe[r][p] * SalesOf(sold, A)[r]]
  BY DEF SalesOf, Reports!SoldIn
<1>2. [r \in Recipes |-> recipe[r][p] * Reports!RefundedIn(r, A)]
        = [r \in Recipes |-> recipe[r][p] * RefundsOf(refunded, A)[r]]
  BY DEF RefundsOf, RefundsOver, Reports!RefundedIn
<1>3. /\ Reports!ConsumedIn(p, A) = Cooking(recipe, p, SalesOf(sold, A))
      /\ Reports!ReturnedIn(p, A) = Cooking(recipe, p, RefundsOf(refunded, A))
  BY <1>1, <1>2 DEF Reports!ConsumedIn, Reports!ReturnedIn, Cooking
<1>4. Reports!Sum([type \in Reports!OUTGOING_MOVEMENT_TYPES |-> Reports!ReceivedIn(type, p, A)])
        = OutOf(received, p, A)
  BY DEF OutOf, Reports!ReceivedIn
<1>5. /\ Reports!RefundedIn(p, A) = RefundsOver(refunded[p], A)
           /\ Reports!SoldIn(p, A) = Reports!Over(sold[p], A)
      /\ Reports!ReceivedIn("delivered", p, A) = Reports!Over(received["delivered"][p], A)
  BY DEF Reports!RefundedIn, RefundsOver, Reports!SoldIn, Reports!ReceivedIn
<1> QED  BY <1>3, <1>4, <1>5, Zenon DEF Reports!NetChange, Net

LEMMA ReportNetThen ==
  ASSUME NEW CONSTANT p, NEW CONSTANT A
  PROVE  Reports!NetChange(p, A)'
           = Net(sold', refunded', received', revised', recipe', p, A)
<1>1. [r \in Recipes |-> (recipe')[r][p] * Reports!SoldIn(r, A)']
        = [r \in Recipes |-> (recipe')[r][p] * SalesOf(sold', A)[r]]
  BY DEF SalesOf, Reports!SoldIn
<1>2. [r \in Recipes |-> (recipe')[r][p] * Reports!RefundedIn(r, A)']
        = [r \in Recipes |-> (recipe')[r][p] * RefundsOf(refunded', A)[r]]
  BY DEF RefundsOf, RefundsOver, Reports!RefundedIn
<1>3. /\ Reports!ConsumedIn(p, A)' = Cooking(recipe', p, SalesOf(sold', A))
      /\ Reports!ReturnedIn(p, A)' = Cooking(recipe', p, RefundsOf(refunded', A))
  BY <1>1, <1>2 DEF Reports!ConsumedIn, Reports!ReturnedIn, Cooking
<1>4. Reports!Sum([type \in Reports!OUTGOING_MOVEMENT_TYPES |-> Reports!ReceivedIn(type, p, A)]) '
        = OutOf(received', p, A)
  BY DEF OutOf, Reports!ReceivedIn
<1>5. /\ Reports!RefundedIn(p, A)' = RefundsOver(refunded'[p], A)
           /\ Reports!SoldIn(p, A)' = Reports!Over(sold'[p], A)
      /\ Reports!ReceivedIn("delivered", p, A)' = Reports!Over(received'["delivered"][p], A)
  BY DEF Reports!RefundedIn, RefundsOver, Reports!SoldIn, Reports!ReceivedIn
<1> QED  BY <1>3, <1>4, <1>5 DEF Reports!NetChange, Net

\* One recipe is sold or refunded k more times.
LEMMA ReportCookingChanged ==
  ASSUME Reports!ReportAssumptions, NEW c, NEW i, NEW x, NEW y, NEW r, NEW k \in Int,
         CookInts(c, i, x), Raised(Recipes, x, y, r, k)
  PROVE  Cooking(c, i, y) = Cooking(c, i, x) + IF r \in Recipes THEN c[r][i] * k ELSE 0
<1> DEFINE f == [a \in Recipes |-> c[a][i] * x[a]]
           g == [a \in Recipes |-> c[a][i] * y[a]]
<1>1. IsFiniteSet(Recipes)  BY ReportRecipesFinite
<1>0. /\ \A a \in Recipes : c[a][i] \in Int /\ x[a] \in Int
      /\ \A a \in Recipes : y[a] = IF a = r THEN x[a] + k ELSE x[a]
  BY DEF CookInts, Raised
<1>2. \A a \in Recipes : y[a] \in Int  BY <1>0
<1>3. /\ \A a \in Recipes : f[a] \in Int
      /\ \A a \in Recipes : a # r => g[a] = f[a]
  BY <1>0, <1>2
<1>4. CookInts(c, i, y)  BY <1>0, <1>2 DEF CookInts
<1>5. /\ Cooking(c, i, x) = SumFunctionOnSet(f, Recipes)
      /\ Cooking(c, i, y) = SumFunctionOnSet(g, Recipes)
  BY <1>4, ReportCookingSum
<1> DEFINE m == IF r \in Recipes THEN c[r][i] * k ELSE 0
<1>6. m \in Int  BY <1>0
<1>7. r \in Recipes => g[r] = f[r] + m
  <2> SUFFICES ASSUME r \in Recipes PROVE g[r] = f[r] + c[r][i] * k  OBVIOUS
  <2>1. c[r][i] \in Int /\ x[r] \in Int /\ y[r] = x[r] + k  BY <1>0
  <2>2. \A a, b, d \in Int : a * (b + d) = a * b + a * d  OBVIOUS
  <2>3. c[r][i] * y[r] = c[r][i] * x[r] + c[r][i] * k  BY <2>1, <2>2
  <2> QED  BY <2>3
<1>8. m = (IF r \in Recipes THEN m ELSE 0)  OBVIOUS
<1>9. m = IF r \in Recipes THEN c[r][i] * k ELSE 0  OBVIOUS
<1> HIDE DEF f, g, m
<1>10. Whole(Recipes, f) /\ Raised(Recipes, f, g, r, m)  BY <1>3, <1>7 DEF Whole, Raised
<1>11. SumFunctionOnSet(g, Recipes) = SumFunctionOnSet(f, Recipes) + m
  <2>1. SumFunctionOnSet(g, Recipes)
          = SumFunctionOnSet(f, Recipes) + IF r \in Recipes THEN m ELSE 0
    BY <1>1, <1>6, <1>10, ReportSumRaised
  <2> QED  BY <1>8, <2>1
<1> QED  BY <1>5, <1>9, <1>11

\* What q of a product take from an ingredient or the product itself.
Takes(c, w, q, p) == IF w \in Recipes THEN c[w][p] * q ELSE IF p = w THEN q ELSE 0

\* Whether q is a whole number.
IsWhole(q) == q \in Int

LEMMA ReportNetSold ==
  ASSUME Reports!ReportAssumptions, NEW A \in SUBSET Reports!Days, NEW p \in Goods,
         NEW s, NEW rf, NEW rc, NEW rv, NEW c, Numbers(s, rf, rc, rv, c),
         NEW t, NEW w \in Reports!Products, NEW e \in Reports!Days, NEW q, IsWhole(q),
         RaisedIn(Reports!Products, Reports!Days, s, t, w, e, q)
  PROVE  Net(t, rf, rc, rv, c, p, A)
           = Net(s, rf, rc, rv, c, p, A) - IF e \in A THEN Takes(c, w, q, p) ELSE 0
<1>q. q \in Int  BY DEF IsWhole
<1> USE <1>q
<1> DEFINE k == IF e \in A THEN q ELSE 0
<1>1. p \in Reports!Products /\ Recipes \subseteq Reports!Products
        /\ (w \in Recipes => p # w)
  BY DEF Reports!Products, Reports!ReportAssumptions
<1>0. \A v \in Reports!Products : \A d \in Reports!Days :
        t[v][d] = IF v = w /\ d = e THEN s[v][d] + q ELSE s[v][d]
  BY DEF RaisedIn
<1>2. \A v \in Reports!Products : \A d \in Reports!Days : s[v][d] \in Int /\ t[v][d] \in Int
  BY <1>0 DEF Numbers
<1>3. ASSUME NEW v \in Reports!Products
      PROVE  Reports!Over(t[v], A) = IF v
               = w THEN Reports!Over(s[v], A) + k ELSE Reports!Over(s[v], A)
  <2>1. CASE v = w
    <3>1. Raised(Reports!Days, s[v], t[v], e, q) /\ Whole(Reports!Days, s[v])
      BY <1>0, <1>2, <2>1 DEF Raised, Whole
    <3> QED  BY <2>1, <3>1, ReportOverChanged
  <2>2. CASE v # w
    <3>1. Raised(Reports!Days, s[v], t[v], e, 0) /\ Whole(Reports!Days, s[v])
      BY <1>0, <1>2, <2>2 DEF Raised, Whole
    <3>2. Reports!Over(t[v], A) = Reports!Over(s[v], A) + IF e \in A THEN 0 ELSE 0
      BY <3>1, ReportOverChanged
    <3>3. Reports!Over(s[v], A) \in Int  BY <1>2, ReportOverIsSum
    <3> QED  BY <2>2, <3>2, <3>3
  <2> QED  BY <2>1, <2>2
<1>4. k \in Int  OBVIOUS
<1>5. /\ Reports!Over(s[p], A) \in Int /\ RefundsOver(rf[p], A) \in Int
           /\ Reports!Over(rc["delivered"][p], A) \in Int
      /\ OutOf(rc, p, A) \in Int /\ Reports!Over(rv[p], A) \in Int
      /\ Cooking(c, p, SalesOf(s, A)) \in Int /\ Cooking(c, p, RefundsOf(rf, A)) \in Int
      /\ CookInts(c, p, SalesOf(s, A))
  BY ReportNetTerms
<1>6. Raised(Recipes, SalesOf(s, A), SalesOf(t, A), w, k)
  BY <1>1, <1>3 DEF SalesOf, Raised
<1> HIDE DEF k
<1>7. Cooking(c, p, SalesOf(t, A))
        = Cooking(c, p, SalesOf(s, A)) + IF w \in Recipes THEN c[w][p] * k ELSE 0
  BY <1>4, <1>5, <1>6, ReportCookingChanged
<1>8. Reports!Over(t[p], A) = Reports!Over(s[p], A) + IF p = w THEN k ELSE 0
  BY <1>1, <1>3, <1>5, <1>4
<1> DEFINE m == IF w \in Recipes THEN c[w][p] * k ELSE 0
           n == IF p = w THEN k ELSE 0
<1>9. m \in Int /\ n \in Int  BY <1>4, <1>5 DEF CookInts
<1>10. m + n = IF e \in A THEN Takes(c, w, q, p) ELSE 0
  <2>1. CASE w \in Recipes
    <3>1. c[w][p] \in Int /\ n = 0 /\ m = c[w][p] * k
      BY <1>1, <1>5, <2>1 DEF CookInts
    <3>2. e \notin A => c[w][p] * k = 0  BY <3>1 DEF k
    <3>3. e \in A => c[w][p] * k = c[w][p] * q /\ c[w][p] * q \in Int  BY <3>1 DEF k
    <3> QED  BY <2>1, <3>1, <3>2, <3>3 DEF Takes
  <2>2. CASE w \notin Recipes
    BY <2>2 DEF Takes, k
  <2> QED  BY <2>1, <2>2
<1> DEFINE NetS == Net(s, rf, rc, rv, c, p, A)
           NetT == Net(t, rf, rc, rv, c, p, A)
<1>11. Cooking(c, p, SalesOf(t, A)) = Cooking(c, p, SalesOf(s, A)) + m
         /\ Reports!Over(t[p], A) = Reports!Over(s[p], A) + n
  BY <1>7, <1>8
<1>12. NetS = RefundsOver(rf[p], A) - Reports!Over(s[p], A) + Reports!Over(rc["delivered"][p], A) - OutOf(rc, p, A)
      + Reports!Over(rv[p], A) - Cooking(c, p, SalesOf(s, A)) + Cooking(c, p, RefundsOf(rf, A))
  BY DEF Net
<1>13. NetT = RefundsOver(rf[p], A) - Reports!Over(t[p], A) + Reports!Over(rc["delivered"][p], A) - OutOf(rc, p, A)
      + Reports!Over(rv[p], A) - Cooking(c, p, SalesOf(t, A)) + Cooking(c, p, RefundsOf(rf, A))
  BY DEF Net
<1> HIDE DEF m, n, NetS, NetT
<1>14. NetT = NetS - (m + n)  BY <1>5, <1>9, <1>11, <1>12, <1>13
<1> QED  BY <1>10, <1>14 DEF NetS, NetT

LEMMA ReportNetRefunded ==
  ASSUME Reports!ReportAssumptions, NEW A \in SUBSET Reports!Days, NEW p \in Goods,
         NEW s, NEW rf, NEW rc, NEW rv, NEW c, Numbers(s, rf, rc, rv, c),
         NEW t, NEW w \in Reports!Products, NEW o \in Reports!Days, NEW e \in Reports!Days,
         NEW q, IsWhole(q),
         RaisedIn(Reports!Products, Reports!Days \X Reports!Days, rf, t, w, <<o, e>>, q)
  PROVE  Net(s, t, rc, rv, c, p, A)
           = Net(s, rf, rc, rv, c, p, A) + IF e \in A THEN Takes(c, w, q, p) ELSE 0
<1>q. q \in Int  BY DEF IsWhole
<1> USE <1>q
<1> DEFINE k == IF e \in A THEN q ELSE 0
<1>1. p \in Reports!Products /\ Recipes \subseteq Reports!Products
        /\ (w \in Recipes => p # w)
  BY DEF Reports!Products, Reports!ReportAssumptions
<1>0. \A v \in Reports!Products : \A sd \in Reports!Days \X Reports!Days :
        t[v][sd] = IF v = w /\ sd = <<o, e>> THEN rf[v][sd] + q ELSE rf[v][sd]
  BY DEF RaisedIn
<1>2. \A v \in Reports!Products : \A sd \in Reports!Days \X Reports!Days :
        rf[v][sd] \in Int /\ t[v][sd] \in Int
  BY <1>0 DEF Numbers
<1>3. ASSUME NEW v \in Reports!Products
      PROVE  RefundsOver(t[v], A) = IF v
               = w THEN RefundsOver(rf[v], A) + k ELSE RefundsOver(rf[v], A)
  <2>1. CASE v = w
    <3>1. Raised(Reports!Days \X Reports!Days, rf[v], t[v], <<o, e>>, q)
          /\ Whole(Reports!Days \X Reports!Days, rf[v])
      BY <1>0, <1>2, <2>1 DEF Raised, Whole
    <3> QED  BY <2>1, <3>1, ReportRefundsChanged
  <2>2. CASE v # w
    <3>1. \A sd \in Reports!Days \X Reports!Days : rf[v][sd] \in Int /\ t[v][sd] = rf[v][sd]
      BY <1>0, <1>2, <2>2
    <3>2. RefundsOver(t[v], A) = RefundsOver(rf[v], A)
      <4>1. \A sd \in Reports!Days \X A : t[v][sd] = rf[v][sd]  BY <3>1
      <4> QED  BY <4>1 DEF RefundsOver
    <3> QED  BY <2>2, <3>2
  <2> QED  BY <2>1, <2>2
<1>4. k \in Int  OBVIOUS
<1>5. /\ Reports!Over(s[p], A) \in Int /\ RefundsOver(rf[p], A) \in Int
           /\ Reports!Over(rc["delivered"][p], A) \in Int
      /\ OutOf(rc, p, A) \in Int /\ Reports!Over(rv[p], A) \in Int
      /\ Cooking(c, p, SalesOf(s, A)) \in Int /\ Cooking(c, p, RefundsOf(rf, A)) \in Int
      /\ CookInts(c, p, RefundsOf(rf, A))
  BY ReportNetTerms
<1>6. Raised(Recipes, RefundsOf(rf, A), RefundsOf(t, A), w, k)
  BY <1>1, <1>3 DEF RefundsOf, Raised
<1> HIDE DEF k
<1>7. Cooking(c, p, RefundsOf(t, A))
        = Cooking(c, p, RefundsOf(rf, A)) + IF w \in Recipes THEN c[w][p] * k ELSE 0
  BY <1>4, <1>5, <1>6, ReportCookingChanged
<1>8. RefundsOver(t[p], A) = RefundsOver(rf[p], A) + IF p = w THEN k ELSE 0
  BY <1>1, <1>3, <1>5, <1>4
<1> DEFINE m == IF w \in Recipes THEN c[w][p] * k ELSE 0
           n == IF p = w THEN k ELSE 0
<1>9. m \in Int /\ n \in Int  BY <1>4, <1>5 DEF CookInts
<1>10. m + n = IF e \in A THEN Takes(c, w, q, p) ELSE 0
  <2>1. CASE w \in Recipes
    <3>1. c[w][p] \in Int /\ n = 0 /\ m = c[w][p] * k
      BY <1>1, <1>5, <2>1 DEF CookInts
    <3>2. e \notin A => c[w][p] * k = 0  BY <3>1 DEF k
    <3>3. e \in A => c[w][p] * k = c[w][p] * q /\ c[w][p] * q \in Int  BY <3>1 DEF k
    <3> QED  BY <2>1, <3>1, <3>2, <3>3 DEF Takes
  <2>2. CASE w \notin Recipes
    BY <2>2 DEF Takes, k
  <2> QED  BY <2>1, <2>2
<1> DEFINE NetS == Net(s, rf, rc, rv, c, p, A)
           NetT == Net(s, t, rc, rv, c, p, A)
<1>11. /\ Cooking(c, p, RefundsOf(t, A)) = Cooking(c, p, RefundsOf(rf, A)) + m
       /\ RefundsOver(t[p], A) = RefundsOver(rf[p], A) + n
  BY <1>7, <1>8
<1>12. NetS = RefundsOver(rf[p], A) - Reports!Over(s[p], A) + Reports!Over(rc["delivered"][p], A) - OutOf(rc, p, A)
      + Reports!Over(rv[p], A) - Cooking(c, p, SalesOf(s, A)) + Cooking(c, p, RefundsOf(rf, A))
  BY DEF Net
<1>13. NetT = RefundsOver(t[p], A) - Reports!Over(s[p], A) + Reports!Over(rc["delivered"][p], A) - OutOf(rc, p, A)
      + Reports!Over(rv[p], A) - Cooking(c, p, SalesOf(s, A)) + Cooking(c, p, RefundsOf(t, A))
  BY DEF Net
<1> HIDE DEF m, n, NetS, NetT
<1>14. NetT = NetS + (m + n)  BY <1>5, <1>9, <1>11, <1>12, <1>13
<1> QED  BY <1>10, <1>14 DEF NetS, NetT

\* A document of kind k entered for day e.
Entered(rc, t, k, w, e, q) ==
  /\ q \in Int /\ w \in Goods /\ k \in Reports!Documents /\ e \in Reports!Days
  /\ \A type \in Reports!Documents, v \in Goods : \A d \in Reports!Days :
       t[type][v][d] = IF type = k /\ v = w /\ d = e THEN rc[type][v][d] + q ELSE rc[type][v][d]

\* What a document line of q pieces adds to the stock.
Inward(k, q) == IF k \in Reports!OUTGOING_MOVEMENT_TYPES THEN - q ELSE q

LEMMA ReportNetReceived ==
  ASSUME Reports!ReportAssumptions, NEW A \in SUBSET Reports!Days, NEW p \in Goods,
         NEW s, NEW rf, NEW rc, NEW rv, NEW c, Numbers(s, rf, rc, rv, c),
         NEW t, NEW w, NEW k, NEW e, NEW q,
         Entered(rc, t, k, w, e, q)
  PROVE  Net(s, rf, t, rv, c, p, A)
           = Net(s, rf, rc, rv, c, p, A)
               + IF e \in A /\ p = w THEN Inward(k, q) ELSE 0
<1>q. q \in Int /\ w \in Goods /\ k \in Reports!Documents /\ e \in Reports!Days
  BY DEF Entered
<1> USE <1>q
<1>1. \A type \in Reports!Documents : \A d \in Reports!Days : rc[type][p][d] \in Int
        /\ t[type][p][d] \in Int
  BY DEF Numbers, Entered
<1>2. ASSUME NEW type \in Reports!Documents
      PROVE  Reports!Over(t[type][p], A) = Reports!Over(rc[type][p], A) + IF type = k
               /\ p = w /\ e \in A THEN q ELSE 0
  <2> DEFINE n == IF type = k /\ p = w THEN q ELSE 0
  <2>1. /\ Raised(Reports!Days, rc[type][p], t[type][p], e, n)
        /\ Whole(Reports!Days, rc[type][p])
    BY <1>1 DEF Raised, Whole, Entered
  <2>2. n \in Int  OBVIOUS
  <2>3. n = IF type = k /\ p = w THEN q ELSE 0  OBVIOUS
  <2> HIDE DEF n
  <2>4. Reports!Over(t[type][p], A)
          = Reports!Over(rc[type][p], A) + IF e \in A THEN n ELSE 0
    BY <2>1, <2>2, ReportOverChanged
  <2> QED  BY <2>3, <2>4
<1>3. Numbers(s, rf, t, rv, c)  BY DEF Numbers, Entered
<1>4. /\ Reports!Over(s[p], A) \in Int /\ RefundsOver(rf[p], A) \in Int
           /\ Reports!Over(rc["delivered"][p], A) \in Int
      /\ OutOf(rc, p, A) = Reports!Over(rc["written_off"][p], A) + Reports!Over(rc["scrapped"][p], A)
      /\ OutOf(t, p, A) = Reports!Over(t["written_off"][p], A) + Reports!Over(t["scrapped"][p], A)
      /\ Reports!Over(rc["written_off"][p], A) \in Int
           /\ Reports!Over(rc["scrapped"][p], A) \in Int
      /\ Reports!Over(rv[p], A) \in Int
      /\ Cooking(c, p, SalesOf(s, A)) \in Int /\ Cooking(c, p, RefundsOf(rf, A)) \in Int
  BY <1>3, ReportNetTerms
<1> DEFINE NetS == Net(s, rf, rc, rv, c, p, A)
           NetT == Net(s, rf, t, rv, c, p, A)
           by(type) == IF type = k /\ p = w /\ e \in A THEN q ELSE 0
<1>5. by("delivered") \in Int /\ by("written_off") \in Int /\ by("scrapped") \in Int
  OBVIOUS
<1>6. /\ Reports!Over(t["delivered"][p], A)
           = Reports!Over(rc["delivered"][p], A) + by("delivered")
      /\ Reports!Over(t["written_off"][p], A)
           = Reports!Over(rc["written_off"][p], A) + by("written_off")
      /\ Reports!Over(t["scrapped"][p], A)
           = Reports!Over(rc["scrapped"][p], A) + by("scrapped")
  BY <1>2 DEF Reports!Documents
<1>7. NetS = RefundsOver(rf[p], A) - Reports!Over(s[p], A) + Reports!Over(rc["delivered"][p], A) - OutOf(rc, p, A)
      + Reports!Over(rv[p], A) - Cooking(c, p, SalesOf(s, A)) + Cooking(c, p, RefundsOf(rf, A))
  BY DEF Net
<1>8. NetT = RefundsOver(rf[p], A) - Reports!Over(s[p], A) + Reports!Over(t["delivered"][p], A) - OutOf(t, p, A)
      + Reports!Over(rv[p], A) - Cooking(c, p, SalesOf(s, A)) + Cooking(c, p, RefundsOf(rf, A))
  BY DEF Net
<1>9. by("delivered") - (by("written_off") + by("scrapped"))
        = IF e \in A /\ p = w THEN Inward(k, q) ELSE 0
  BY DEF Inward, Reports!OUTGOING_MOVEMENT_TYPES, Reports!Documents
<1> HIDE DEF NetS, NetT, by
<1>10. NetT = NetS + (by("delivered") - (by("written_off") + by("scrapped")))
  BY <1>4, <1>5, <1>6, <1>7, <1>8
<1> QED  BY <1>9, <1>10 DEF NetS, NetT

\* The hypotheses of that lemma as one fact, so that it can be cited of a step.
Receipt(p, A, s, rf, rc, rv, c, t, k, w, e, q) ==
  A \in SUBSET Reports!Days /\ p \in Goods /\ Numbers(s, rf, rc, rv, c)
    /\ Entered(rc, t, k, w, e, q)

LEMMA ReportNetReceipt ==
  ASSUME Reports!ReportAssumptions, NEW A, NEW p, NEW s, NEW rf, NEW rc, NEW rv, NEW c,
         NEW t, NEW w, NEW k, NEW e, NEW q,
         Receipt(p, A, s, rf, rc, rv, c, t, k, w, e, q)
  PROVE  Net(s, rf, t, rv, c, p, A)
           = Net(s, rf, rc, rv, c, p, A)
               + IF e \in A /\ p = w THEN Inward(k, q) ELSE 0
BY ReportNetReceived DEF Receipt

LEMMA ReportNetRevised ==
  ASSUME Reports!ReportAssumptions, NEW A \in SUBSET Reports!Days, NEW p \in Goods,
         NEW s, NEW rf, NEW rc, NEW rv, NEW c, Numbers(s, rf, rc, rv, c),
         NEW t, NEW w \in Goods, NEW e \in Reports!Days, NEW q, IsWhole(q),
         RaisedIn(Goods, Reports!Days, rv, t, w, e, q)
  PROVE  Net(s, rf, rc, t, c, p, A)
           = Net(s, rf, rc, rv, c, p, A) + IF e \in A /\ p = w THEN q ELSE 0
<1>q. q \in Int  BY DEF IsWhole
<1> USE <1>q
<1> DEFINE n == IF p = w THEN q ELSE 0
<1>1. Whole(Reports!Days, rv[p]) /\ Raised(Reports!Days, rv[p], t[p], e, n)
  BY DEF Numbers, Raised, RaisedIn, Whole
<1>2. n \in Int /\ n = IF p = w THEN q ELSE 0  OBVIOUS
<1> HIDE DEF n
<1>3. Reports!Over(t[p], A) = Reports!Over(rv[p], A) + IF e \in A THEN n ELSE 0
  BY <1>1, <1>2, ReportOverChanged
<1>4. /\ Reports!Over(s[p], A) \in Int /\ RefundsOver(rf[p], A) \in Int
           /\ Reports!Over(rc["delivered"][p], A) \in Int
      /\ OutOf(rc, p, A) \in Int /\ Reports!Over(rv[p], A) \in Int
      /\ Cooking(c, p, SalesOf(s, A)) \in Int /\ Cooking(c, p, RefundsOf(rf, A)) \in Int
  BY ReportNetTerms
<1>5. Reports!Over(t[p], A) = Reports!Over(rv[p], A) + IF e \in A /\ p = w THEN q ELSE 0
  BY <1>2, <1>3
<1> QED  BY <1>4, <1>5 DEF Net

-----------------------------------------------------------------------------
(* Reports: every step keeps the stock of every day *)

LEMMA ReportShelfMoves ==
  ASSUME Reports!ReportAssumptions, Reports!TypeOK, Reports!ShelfKept,
         NEW change \in [Goods -> Int], NEW e \in Reports!Days,
         Reports!Move(change, e), untracked' = untracked,
         \A p \in Goods : \A A \in SUBSET Reports!Days :
            Reports!NetChange(p, A)' = Reports!NetChange(p, A) + IF e \in A THEN change[p] ELSE 0
  PROVE  Reports!ShelfKept'
<1> SUFFICES ASSUME Reports!StockTracked, NEW d \in 0..LastDay, NEW p \in Goods
             PROVE  Reports!StockAsOf(p, d)' = shelf'[d][p]
  BY DEF Reports!ShelfKept, Reports!StockTracked
<1>1. Reports!StockAsOf(p, d) = shelf[d][p]  BY DEF Reports!ShelfKept
<1>2. Reports!After(d) \in SUBSET Reports!Days /\ (e \in Reports!After(d) <=> e > d)
  BY DEF Reports!After
<1>3. Reports!StockAsOf(p, d)' = quantity'[p] - Reports!NetChange(p, Reports!After(d))'
  BY DEF Reports!StockAsOf, Reports!After, Reports!Days
<1>4. Reports!NetChange(p, Reports!After(d))'
        = Reports!NetChange(p, Reports!After(d)) + IF e \in Reports!After(d) THEN change[p] ELSE 0
  BY <1>2
<1>5. quantity'[p] = quantity[p] + change[p]  BY DEF Reports!Move
<1>6. shelf'[d][p] = IF d >= e THEN shelf[d][p] + change[p] ELSE shelf[d][p]
  BY DEF Reports!Move
<1>7. Reports!NetChange(p, Reports!After(d)) \in Int  BY <1>2, ReportNetColumns
<1>8. quantity[p] \in Int /\ change[p] \in Int /\ e \in Int /\ d \in Int
  BY DEF Reports!TypeOK, Reports!Days
<1>9. Reports!StockAsOf(p, d) = quantity[p] - Reports!NetChange(p, Reports!After(d))
  BY DEF Reports!StockAsOf
<1> QED  BY <1>1, <1>2, <1>3, <1>4, <1>5, <1>6, <1>7, <1>8, <1>9

LEMMA ReportTakesEffect ==
  ASSUME Reports!ReportAssumptions, Reports!TypeOK, NEW w, NEW q \in Int, NEW p \in Goods
  PROVE  /\ Reports!Effect(w, q)[p] = - Takes(recipe, w, q, p)
         /\ Reports!Effect(w, - q)[p] = Takes(recipe, w, q, p)
         /\ Takes(recipe, w, q, p) \in Int
<1>1. CASE w \in Recipes
  <2> DEFINE a == recipe[w][p]
  <2>1. a \in Int  BY <1>1, ReportMovementTypes
  <2>2. Reports!Effect(w, q)[p] = - a * q /\ Reports!Effect(w, - q)[p] = - a * (- q)
          /\ Takes(recipe, w, q, p) = a * q
    BY <1>1 DEF Reports!Effect, Takes
  <2> HIDE DEF a
  <2>3. a * q \in Int /\ - a * (- q) = a * q  BY <2>1
  <2> QED  BY <2>2, <2>3
<1>2. CASE w \notin Recipes
  <2>1. Reports!Effect(w, q)[p] = (IF p = w THEN - q ELSE 0)
    BY <1>2 DEF Reports!Effect, Reports!Only
  <2>2. Reports!Effect(w, - q)[p] = (IF p = w THEN - (- q) ELSE 0)
    BY <1>2 DEF Reports!Effect, Reports!Only
  <2>3. Takes(recipe, w, q, p) = (IF p = w THEN q ELSE 0)  BY <1>2 DEF Takes
  <2> QED  BY <2>1, <2>2, <2>3
<1> QED  BY <1>1, <1>2

LEMMA ReportStepShelf ==
  Reports!ReportAssumptions /\ Reports!TypeOK /\ Reports!ShelfKept
    /\ [Reports!Next]_(Reports!vars) => Reports!ShelfKept'
<1> SUFFICES ASSUME Reports!ReportAssumptions, Reports!TypeOK, Reports!ShelfKept,
                    [Reports!Next]_(Reports!vars)
             PROVE  Reports!ShelfKept'
  OBVIOUS
<1> USE DEF Reports!Event
<1>a. \A q \in Quantities : q \in Int  BY DEF Reports!ReportAssumptions
<1>b. day \in Reports!Days  BY DEF Reports!TypeOK
<1>c. Numbers(sold, refunded, received, revised, recipe)  BY ReportNumbersNow
<1>1. ASSUME NEW w \in Reports!Products, NEW q \in Quantities, Reports!Sell(w, q)
      PROVE  Reports!ShelfKept'
  <2>0. IsWhole(q)  BY <1>a DEF IsWhole
  <2>1. q \in Int /\ Reports!Effect(w, q) \in [Goods -> Int]  BY <1>a, ReportEffectType
  <2>2. Reports!Move(Reports!Effect(w, q), day) /\ untracked' = untracked
          /\ sold' = [sold EXCEPT ![w][day] = @ + q]
        /\ recipe' = recipe /\ refunded' = refunded /\ received' = received
             /\ revised' = revised
    BY <1>1 DEF Reports!Sell
  <2>3. RaisedIn(Reports!Products, Reports!Days, sold, sold', w, day, q)
    BY <1>b, <2>2 DEF Reports!TypeOK, RaisedIn
  <2>4. ASSUME NEW p \in Goods, NEW A \in SUBSET Reports!Days
        PROVE  Reports!NetChange(p, A)'
                 = Reports!NetChange(p, A) + IF day \in A THEN Reports!Effect(w, q)[p] ELSE 0
    <3>1. Net(sold', refunded, received, revised, recipe, p, A)
            = Net(sold, refunded, received, revised, recipe, p, A)
                - IF day \in A THEN Takes(recipe, w, q, p) ELSE 0
      <4>1. A \in SUBSET Reports!Days /\ p \in Goods  OBVIOUS
      <4> QED  BY <1>b, <1>c, <2>0, <2>3, <4>1, ReportNetSold
    <3>2. Reports!NetChange(p, A)' = Net(sold', refunded, received, revised, recipe, p, A)
      BY <2>2, ReportNetThen
    <3>3. Reports!NetChange(p, A) \in Int  BY ReportNetColumns
    <3>4. Reports!Effect(w, q)[p] = - Takes(recipe, w, q, p)
            /\ Takes(recipe, w, q, p) \in Int
      BY <2>1, ReportTakesEffect
    <3> QED  BY <3>1, <3>2, <3>3, <3>4, ReportNetNow
  <2> QED  BY <1>b, <2>1, <2>2, <2>4, ReportShelfMoves
<1>2. ASSUME NEW w \in Reports!Products, NEW q \in Quantities, NEW o \in Reports!Days,
             Reports!Refund(w, o, q)
      PROVE  Reports!ShelfKept'
  <2>0. IsWhole(q)  BY <1>a DEF IsWhole
  <2>1. q \in Int /\ - q \in Int /\ Reports!Effect(w, - q) \in [Goods -> Int]
    BY <1>a, ReportEffectType
  <2>2. Reports!Move(Reports!Effect(w, - q), day) /\ untracked' = untracked
        /\ refunded' = [refunded EXCEPT ![w][<<o, day>>] = @ + q]
        /\ recipe' = recipe /\ sold' = sold /\ received' = received /\ revised' = revised
    BY <1>2 DEF Reports!Refund
  <2>3. RaisedIn(Reports!Products, Reports!Days \X Reports!Days,
                 refunded, refunded', w, <<o, day>>, q)
    BY <1>b, <2>2 DEF Reports!TypeOK, RaisedIn
  <2>4. ASSUME NEW p \in Goods, NEW A \in SUBSET Reports!Days
        PROVE  Reports!NetChange(p, A)'
                 = Reports!NetChange(p, A) + IF day \in A THEN Reports!Effect(w, - q)[p] ELSE 0
    <3>1. Net(sold, refunded', received, revised, recipe, p, A)
            = Net(sold, refunded, received, revised, recipe, p, A)
                + IF day \in A THEN Takes(recipe, w, q, p) ELSE 0
      BY <1>b, <1>c, <2>0, <2>3, ReportNetRefunded
    <3>2. Reports!NetChange(p, A)' = Net(sold, refunded', received, revised, recipe, p, A)
      BY <2>2, ReportNetThen
    <3>3. Reports!Effect(w, - q)[p] = Takes(recipe, w, q, p)  BY <2>1, ReportTakesEffect
    <3> QED  BY <3>1, <3>2, <3>3, ReportNetNow
  <2> QED  BY <1>b, <2>1, <2>2, <2>4, ReportShelfMoves
<1>3. ASSUME NEW w \in Goods, NEW q \in Quantities, Reports!Revise(w, q)
      PROVE  Reports!ShelfKept'
  <2> DEFINE n == q - quantity[w]
  <2>1. q \in Int /\ n \in Int /\ quantity[w] \in Int  BY <1>a DEF Reports!TypeOK
  <2>2. Reports!Move(Reports!Only(w, n), day) /\ untracked' = untracked
        /\ revised' = [revised EXCEPT ![w][day] = @ + q - quantity[w]]
        /\ recipe' = recipe /\ sold' = sold /\ refunded' = refunded /\ received' = received
    BY <1>3 DEF Reports!Revise
  <2>3. ASSUME NEW v \in Goods, NEW d \in Reports!Days
        PROVE (revised')[v][d] = IF v = w
                /\ d = day THEN revised[v][d] + n ELSE revised[v][d]
    <3>1. (revised')[v][d]
            = IF v = w /\ d = day THEN revised[v][d] + q - quantity[w] ELSE revised[v][d]
      BY <1>b, <2>2 DEF Reports!TypeOK
    <3>2. revised[v][d] \in Int  BY DEF Reports!TypeOK
    <3>3. revised[v][d] + q - quantity[w] = revised[v][d] + n  BY <2>1, <3>2
    <3> QED  BY <3>1, <3>3
  <2>6. RaisedIn(Goods, Reports!Days, revised, revised', w, day, n)  BY <2>3 DEF RaisedIn
  <2>0. IsWhole(n)  BY <2>1 DEF IsWhole
  <2> HIDE DEF n
  <2>4. Reports!Only(w, n) \in [Goods -> Int]
          /\ \A p \in Goods : Reports!Only(w, n)[p] = IF p = w THEN n ELSE 0
    BY <2>1, ReportEffectType DEF Reports!Only
  <2>5. ASSUME NEW p \in Goods, NEW A \in SUBSET Reports!Days
        PROVE  Reports!NetChange(p, A)'
                 = Reports!NetChange(p, A) + IF day \in A THEN Reports!Only(w, n)[p] ELSE 0
    <3>1. Net(sold, refunded, received, revised', recipe, p, A)
            = Net(sold, refunded, received, revised, recipe, p, A)
                + IF day \in A /\ p = w THEN n ELSE 0
      <4>1. A \in SUBSET Reports!Days /\ p \in Goods  OBVIOUS
      <4> QED  BY <1>b, <1>c, <2>0, <2>6, <4>1, ReportNetRevised
    <3>2. Reports!NetChange(p, A)' = Net(sold, refunded, received, revised', recipe, p, A)
      BY <2>2, ReportNetThen
    <3> QED  BY <2>4, <3>1, <3>2, ReportNetNow
  <2> QED  BY <1>b, <2>2, <2>4, <2>5, ReportShelfMoves
<1>4. ASSUME NEW w \in Goods, NEW q \in Quantities, NEW k \in Reports!Documents,
             NEW e \in Reports!Days,
             Reports!Receive(k, w, q, e)
      PROVE  Reports!ShelfKept'
  <2> DEFINE n == Inward(k, q)
  <2>1. q \in Int /\ n \in Int  BY <1>a DEF Inward
  <2>2. Reports!Move(Reports!Only(w, n), e) /\ untracked' = untracked
        /\ received' = [received EXCEPT ![k][w][e] = @ + q]
        /\ recipe' = recipe /\ sold' = sold /\ refunded' = refunded /\ revised' = revised
    BY <1>4 DEF Reports!Receive, Inward
  <2>3. Entered(received, received', k, w, e, q)
    <3>1. \A type \in Reports!Documents, v \in Goods : \A d \in Reports!Days :
            (received')[type][v][d] = IF type = k /\ v = w /\ d = e
                                        THEN received[type][v][d] + q
                                        ELSE received[type][v][d]
      <4>1. received \in [Reports!Documents -> [Goods -> [Reports!Days -> Nat]]]
        BY DEF Reports!TypeOK
      <4> QED  BY <2>2, <4>1
    <3> QED  BY <2>1, <3>1 DEF Entered
  <2>4. ASSUME NEW p \in Goods, NEW A \in SUBSET Reports!Days
        PROVE  Reports!NetChange(p, A)'
                 = Reports!NetChange(p, A) + IF e \in A THEN Reports!Only(w, n)[p] ELSE 0
    <3>1. Net(sold, refunded, received', revised, recipe, p, A)
            = Net(sold, refunded, received, revised, recipe, p, A)
                + IF e \in A /\ p = w THEN n ELSE 0
      <4>1. Receipt(p, A, sold, refunded, received, revised, recipe, received', k, w, e, q)
        BY <1>c, <2>3 DEF Receipt
      <4> QED  BY <4>1, ReportNetReceipt
    <3>2. Reports!NetChange(p, A)' = Net(sold, refunded, received', revised, recipe, p, A)
      BY <2>2, ReportNetThen
    <3>3. Reports!Only(w, n)[p] = IF p = w THEN n ELSE 0  BY DEF Reports!Only
    <3> HIDE DEF n
    <3> QED  BY <3>1, <3>2, <3>3, ReportNetNow
  <2> HIDE DEF n
  <2>5. Reports!Only(w, n) \in [Goods -> Int]  BY <2>1, ReportEffectType
  <2> QED  BY <2>2, <2>4, <2>5, ReportShelfMoves
<1>5. ASSUME UNCHANGED <<quantity, recipe, sold, refunded, received, revised, shelf>>,
             Reports!StockTracked' => Reports!StockTracked
      PROVE  Reports!ShelfKept'
  <2> SUFFICES ASSUME Reports!StockTracked, NEW d \in 0..LastDay, NEW p \in Goods
               PROVE  Reports!StockAsOf(p, d)' = shelf'[d][p]
    BY <1>5 DEF Reports!ShelfKept
  <2>1. Reports!NetChange(p, Reports!After(d))' = Reports!NetChange(p, Reports!After(d))
    BY <1>5, ReportNetThen, ReportNetNow
  <2>2. Reports!StockAsOf(p, d)' = quantity'[p] - Reports!NetChange(p, Reports!After(d))'
    BY DEF Reports!StockAsOf, Reports!After, Reports!Days
  <2>3. Reports!StockAsOf(p, d)' = Reports!StockAsOf(p, d)
    BY <1>5, <2>1, <2>2 DEF Reports!StockAsOf
  <2> QED  BY <1>5, <2>3 DEF Reports!ShelfKept
<1>6. ASSUME NEW v \in SalePrices, NEW logged \in BOOLEAN, Reports!SetPrice(v, logged)
      PROVE  Reports!ShelfKept'
  BY <1>5, <1>6 DEF Reports!SetPrice, Reports!StockTracked
<1>7. CASE Reports!EditRecipe
  BY <1>7 DEF Reports!EditRecipe, Reports!ShelfKept, Reports!StockTracked
<1>8. CASE Reports!NextDay
  BY <1>5, <1>8 DEF Reports!NextDay, Reports!StockTracked
<1>9. CASE UNCHANGED Reports!vars
  BY <1>5, <1>9 DEF Reports!vars, Reports!StockTracked
<1>10. ASSUME NEW p \in Goods, Reports!LoadLate(p) PROVE Reports!ShelfKept'
  BY <1>10 DEF Reports!LoadLate, Reports!ShelfKept, Reports!StockTracked
<1> QED
  BY <1>1, <1>2, <1>3, <1>4, <1>6, <1>7, <1>8, <1>9, <1>10 DEF Reports!Next

LEMMA ReportInitShelf == Reports!ReportAssumptions /\ Reports!Init => Reports!ShelfKept
<1> SUFFICES ASSUME Reports!ReportAssumptions, Reports!Init, NEW d \in 0..LastDay,
                    NEW p \in Goods
             PROVE  Reports!StockAsOf(p, d) = shelf[d][p]
  BY DEF Reports!ShelfKept
<1> DEFINE A == Reports!After(d)
<1>1. Reports!TypeOK  BY ReportInitTypes
<1>2. A \in SUBSET Reports!Days /\ p \in Reports!Products
        /\ Recipes \subseteq Reports!Products
  BY DEF Reports!After, Reports!Products
<1>3. IsFiniteSet(A) /\ IsFiniteSet(Reports!Days \X A)
        /\ Reports!Days \X A \subseteq Reports!Days \X Reports!Days
  BY <1>2, ReportDaysFinite
<1> HIDE DEF A
<1>4. ASSUME NEW f, \A e \in Reports!Days : f[e] = 0 PROVE Reports!Over(f, A) = 0
  <2>1. \A e \in Reports!Days : f[e] \in Int  BY <1>4
  <2>2. Reports!Over(f, A) = SumFunctionOnSet(f, A)  BY <1>2, <2>1, ReportOverIsSum
  <2>3. \A e \in A : f[e] = 0  BY <1>2, <1>4
  <2> QED  BY <1>3, <2>2, <2>3, SumOnZeros
<1>5. ASSUME NEW f, \A sd \in Reports!Days \X Reports!Days : f[sd] = 0
      PROVE  RefundsOver(f, A) = 0
  <2>1. \A sd \in Reports!Days \X Reports!Days : f[sd] \in Int  BY <1>5
  <2>2. RefundsOver(f, A) = SumFunctionOnSet(f, Reports!Days \X A)
    BY <1>2, <2>1, ReportRefundsSum
  <2>3. \A sd \in Reports!Days \X A : f[sd] = 0  BY <1>3, <1>5
  <2> QED  BY <1>3, <2>2, <2>3, SumOnZeros
<1>6. \A v \in Reports!Products : Reports!SoldIn(v, A) = 0
  BY <1>4 DEF Reports!SoldIn, Reports!Init
<1>7. ASSUME NEW v \in Reports!Products PROVE Reports!RefundedIn(v, A) = 0
  <2>1. RefundsOver(refunded[v], A) = 0  BY <1>5 DEF Reports!Init
  <2> QED  BY <2>1 DEF Reports!RefundedIn, RefundsOver
<1>8. \A type \in Reports!Documents : Reports!ReceivedIn(type, p, A) = 0
  BY <1>4 DEF Reports!ReceivedIn, Reports!Init
<1>9. Reports!Over(revised[p], A) = 0  BY <1>4 DEF Reports!Init
<1>10. ASSUME NEW x, \A r \in Recipes : x[r] = 0 PROVE Cooking(recipe, p, x) = 0
  <2>0. \A r \in Recipes : recipe[r][p] \in Int  BY <1>1, ReportMovementTypes
  <2>1. SumsOf(x, x, x) /\ CookInts(recipe, p, x)  BY <1>10, <2>0 DEF SumsOf, CookInts
  <2>2. Cooking(recipe, p, x) = Cooking(recipe, p, x) + Cooking(recipe, p, x)
    BY <1>1, <2>1, ReportCookingAdds
  <2>3. Cooking(recipe, p, x) \in Int  BY <1>1, <2>1, ReportCookingSum
  <2> QED  BY <2>2, <2>3
<1>11. \A r \in Recipes : Sales(A)[r] = 0 /\ Refunds(A)[r] = 0
  BY <1>2, <1>6, <1>7 DEF Sales, Refunds
<1>12. Reports!ConsumedIn(p, A) = 0 /\ Reports!ReturnedIn(p, A) = 0
  BY <1>10, <1>11, ReportConsumedCooking
<1>13. Reports!NetChange(p, A)
         = Reports!RefundedIn(p, A) - Reports!SoldIn(p, A) + Reports!ReceivedIn("delivered", p, A)
               - (Reports!ReceivedIn("written_off", p, A) + Reports!ReceivedIn("scrapped", p, A))
               + Reports!Over(revised[p], A) - Reports!ConsumedIn(p, A) + Reports!ReturnedIn(p, A)
  BY <1>1, <1>2, ReportNetColumns
<1>14. Reports!NetChange(p, A) = 0
  BY <1>2, <1>6, <1>7, <1>8, <1>9, <1>12, <1>13 DEF Reports!Documents
<1>15. quantity[p] = shelf[d][p] /\ quantity[p] \in Int
  BY DEF Reports!Init, Reports!ReportAssumptions
<1> QED  BY <1>14, <1>15 DEF Reports!StockAsOf, A

-----------------------------------------------------------------------------
(* Reports: prices read back from the log *)

Later(log, d) == {i \in DOMAIN log : log[i][1] > d}
First(S) == CHOOSE i \in S : \A j \in S : i <= j
PriceBack(log, current, d) == IF Later(log, d)
  = {} THEN current ELSE log[First(Later(log, d))][2]

LEMMA ReportFirstIsLeast ==
  ASSUME NEW S \in SUBSET Nat, S # {}
  PROVE  First(S) \in S /\ \A j \in S : First(S) <= j
  BY LeastNatural DEF First

LEMMA ReportPriceBackNow ==
  ASSUME NEW d PROVE Reports!SellPriceAsOf(d) = PriceBack(priceLog, price, d)
  BY DEF Reports!SellPriceAsOf, PriceBack, Later, First
LEMMA ReportPriceBackThen ==
  ASSUME NEW CONSTANT d
  PROVE  Reports!SellPriceAsOf(d)' = PriceBack(priceLog', price', d)
  BY DEF Reports!SellPriceAsOf, PriceBack, Later, First

LEMMA ReportPriceBackLogged ==
  ASSUME NEW D \in SUBSET Int, NEW P, NEW log \in Seq(D \X P), NEW date \in D,
         NEW current \in P,
         NEW new, NEW d \in Int, \A i \in DOMAIN log : log[i][1] <= date
  PROVE  PriceBack(Append(log, <<date, current>>), new, d)
           = IF d >= date THEN new ELSE PriceBack(log, current, d)
<1> DEFINE n == Len(log) + 1
           longer == Append(log, <<date, current>>)
<1>1. /\ n \in Nat \ {0} /\ DOMAIN log = 1..Len(log) /\ DOMAIN longer = 1..n
      /\ longer[n] = <<date, current>> /\ \A i \in DOMAIN log : longer[i] = log[i]
  OBVIOUS
<1>2. \A i \in DOMAIN log : log[i][1] \in Int
  <2> SUFFICES ASSUME NEW i \in DOMAIN log PROVE log[i][1] \in Int  OBVIOUS
  <2>1. log[i] \in D \X P  BY <1>1
  <2>2. log[i][1] \in D  BY <2>1
  <2> QED  BY <2>2
<1>3. CASE d >= date
  <2>1. Later(longer, d) = {}
    <3> SUFFICES ASSUME NEW i \in 1..n PROVE ~ (longer[i][1] > d)  BY <1>1 DEF Later
    <3>1. CASE i = n  BY <1>1, <1>3, <3>1
    <3>2. CASE i # n
      <4>1. i \in DOMAIN log  BY <1>1, <3>2
      <4> QED  BY <1>1, <1>2, <1>3, <4>1
    <3> QED  BY <3>1, <3>2
  <2> QED  BY <1>3, <2>1 DEF PriceBack
<1>4. CASE ~ (d >= date)
  <2>1. n \in Later(longer, d)  BY <1>1, <1>4 DEF Later
  <2>2. Later(log, d) \subseteq DOMAIN log /\ Later(log, d) \in SUBSET Nat
        /\ Later(longer, d) \in SUBSET Nat
    BY <1>1 DEF Later
  <2>3. Later(longer, d) = Later(log, d) \cup {n}
    <3>1. ASSUME NEW i \in Later(longer, d) PROVE i \in Later(log, d) \cup {n}
      <4>1. i \in 1..n /\ longer[i][1] > d  BY <1>1 DEF Later
      <4>2. i # n => i \in DOMAIN log  BY <1>1, <4>1
      <4> QED  BY <1>1, <4>1, <4>2 DEF Later
    <3>2. ASSUME NEW i \in Later(log, d) PROVE i \in Later(longer, d)
      BY <1>1 DEF Later
    <3> QED  BY <2>1, <3>1, <3>2
  <2>4. First(Later(longer, d)) \in Later(longer, d)
        /\ \A j \in Later(longer, d) : First(Later(longer, d)) <= j
    BY <2>1, <2>2, ReportFirstIsLeast
  <2>5. CASE Later(log, d) = {}
    <3>1. First(Later(longer, d)) = n  BY <2>3, <2>4, <2>5
    <3> QED  BY <1>1, <1>4, <2>1, <2>5, <3>1 DEF PriceBack
  <2>6. CASE Later(log, d) # {}
    <3> DEFINE m == First(Later(log, d))
               l == First(Later(longer, d))
    <3>1. m \in Later(log, d) /\ \A j \in Later(log, d) : m <= j
      BY <2>2, <2>6, ReportFirstIsLeast
    <3>2. m \in Nat /\ m < n  BY <1>1, <2>2, <3>1
    <3>3. l <= m /\ l \in Nat  BY <2>2, <2>3, <2>4, <3>1
    <3>4. l \in Later(log, d)
      <4>1. l # n
        <5> HIDE DEF l, m
        <5> QED  BY <1>1, <3>2, <3>3
      <4> QED  BY <2>3, <2>4, <4>1
    <3>5. l = m
      <4>1. m <= l  BY <3>1, <3>4
      <4> HIDE DEF l, m
      <4> QED  BY <3>2, <3>3, <4>1
    <3>6. longer[l][2] = log[m][2]  BY <1>1, <2>2, <3>1, <3>5
    <3> QED  BY <1>4, <2>1, <2>6, <3>6 DEF PriceBack
  <2> QED  BY <2>5, <2>6
<1> QED  BY <1>3, <1>4

LEMMA ReportStepTag ==
  Reports!ReportAssumptions /\ Reports!TypeOK /\ Reports!TagKept /\ Reports!LogInOrder
    /\ [Reports!Next]_(Reports!vars) => Reports!TagKept' /\ Reports!LogInOrder'
<1> SUFFICES ASSUME Reports!ReportAssumptions, Reports!TypeOK, Reports!TagKept,
                    Reports!LogInOrder, [Reports!Next]_(Reports!vars)
             PROVE  Reports!TagKept' /\ Reports!LogInOrder'
  OBVIOUS
<1>1. ASSUME UNCHANGED <<price, priceLog, tag>>,
             "price" \notin untracked'
               => "price" \notin untracked, day' >= day, day' \in Int
      PROVE  Reports!TagKept' /\ Reports!LogInOrder'
  <2>1. \A d \in 0..LastDay : Reports!SellPriceAsOf(d)' = Reports!SellPriceAsOf(d)
    BY <1>1, ReportPriceBackNow, ReportPriceBackThen
  <2>2. Reports!TagKept'  BY <1>1, <2>1 DEF Reports!TagKept
  <2>3. ASSUME NEW i \in DOMAIN priceLog PROVE priceLog[i][1] <= day'
    <3>1. priceLog[i] \in Reports!Days \X SalePrices /\ day \in Int
      BY DEF Reports!TypeOK, Reports!Days
    <3>2. priceLog[i][1] \in Int  BY <3>1 DEF Reports!Days
    <3> QED  BY <1>1, <3>1, <3>2 DEF Reports!LogInOrder
  <2> QED  BY <1>1, <2>2, <2>3 DEF Reports!LogInOrder
<1>2. day \in Int /\ Reports!Days \in SUBSET Int /\ day \in Reports!Days
  BY DEF Reports!TypeOK, Reports!Days
<1>3. ASSUME NEW v \in SalePrices, NEW logged \in BOOLEAN, Reports!SetPrice(v, logged)
      PROVE  Reports!TagKept' /\ Reports!LogInOrder'
  <2>1. day' = day /\ price' = v
          /\ tag' = [d \in 0..LastDay |-> IF d >= day THEN v ELSE tag[d]]
    BY <1>3 DEF Reports!SetPrice, Reports!Event
  <2>2. CASE logged
    <3>1. priceLog' = Append(priceLog, <<day, price>>) /\ untracked' = untracked
      BY <1>3, <2>2 DEF Reports!SetPrice
    <3>2. priceLog \in Seq(Reports!Days \X SalePrices) /\ price \in SalePrices
      BY DEF Reports!TypeOK
    <3>3. \A i \in DOMAIN priceLog : priceLog[i][1] <= day  BY DEF Reports!LogInOrder
    <3>4. ASSUME "price" \notin untracked', NEW d \in 0..LastDay
          PROVE  Reports!SellPriceAsOf(d)' = tag'[d]
      <4>1. PriceBack(Append(priceLog, <<day, price>>), v, d)
              = IF d >= day THEN v ELSE PriceBack(priceLog, price, d)
        BY <1>2, <3>2, <3>3, ReportPriceBackLogged
      <4>2. Reports!SellPriceAsOf(d)' = PriceBack(priceLog', price', d)
        BY ReportPriceBackThen
      <4>3. PriceBack(priceLog, price, d) = tag[d]
        BY <3>1, <3>4, ReportPriceBackNow DEF Reports!TagKept
      <4> QED  BY <2>1, <3>1, <4>1, <4>2, <4>3
    <3>5. ASSUME NEW i \in DOMAIN priceLog' PROVE priceLog'[i][1] <= day
      <4>1. CASE i = Len(priceLog) + 1
        <5>1. priceLog'[i] = <<day, price>>  BY <3>1, <3>2, <4>1
        <5> QED  BY <1>2, <5>1
      <4>2. CASE i # Len(priceLog) + 1
        <5>1. i \in DOMAIN priceLog /\ priceLog'[i] = priceLog[i]
          BY <3>1, <3>2, <3>5, <4>2
        <5> QED  BY <3>3, <5>1
      <4> QED  BY <4>1, <4>2
    <3> QED  BY <2>1, <3>4, <3>5 DEF Reports!TagKept, Reports!LogInOrder
  <2>3. CASE ~ logged
    BY <1>3, <2>1, <2>3 DEF Reports!SetPrice, Reports!TagKept, Reports!LogInOrder
  <2> QED  BY <2>2, <2>3
<1>4. CASE Reports!NextDay
  BY <1>1, <1>2, <1>4 DEF Reports!NextDay
<1>5. ASSUME day' = day, UNCHANGED <<price, priceLog, tag>>,
             "price" \notin untracked' => "price" \notin untracked
      PROVE  Reports!TagKept' /\ Reports!LogInOrder'
  BY <1>1, <1>2, <1>5
<1>6. ASSUME NEW w \in Reports!Products, NEW q \in Quantities, Reports!Sell(w, q)
      PROVE  Reports!TagKept' /\ Reports!LogInOrder'
  BY <1>5, <1>6 DEF Reports!Sell, Reports!Event
<1>7. ASSUME NEW w \in Reports!Products, NEW q \in Quantities, NEW o \in Reports!Days,
             Reports!Refund(w, o, q)
      PROVE  Reports!TagKept' /\ Reports!LogInOrder'
  BY <1>5, <1>7 DEF Reports!Refund, Reports!Event
<1>8. ASSUME NEW w \in Goods, NEW q \in Quantities, Reports!Revise(w, q)
      PROVE  Reports!TagKept' /\ Reports!LogInOrder'
  BY <1>5, <1>8 DEF Reports!Revise, Reports!Event
<1>9. ASSUME NEW w \in Goods, NEW q \in Quantities, NEW k \in Reports!Documents,
             NEW e \in Reports!Days,
             Reports!Receive(k, w, q, e)
      PROVE  Reports!TagKept' /\ Reports!LogInOrder'
  BY <1>5, <1>9 DEF Reports!Receive, Reports!Event
<1>10. CASE Reports!EditRecipe
  BY <1>5, <1>10 DEF Reports!EditRecipe, Reports!Event
<1>11. CASE UNCHANGED Reports!vars
  BY <1>5, <1>11 DEF Reports!vars
<1>12. ASSUME NEW w \in Goods, Reports!LoadLate(w)
       PROVE  Reports!TagKept' /\ Reports!LogInOrder'
  BY <1>5, <1>12 DEF Reports!LoadLate, Reports!Event
<1> QED
  BY <1>3, <1>4, <1>6, <1>7, <1>8, <1>9, <1>10, <1>11, <1>12 DEF Reports!Next

LEMMA ReportInitIInv == Reports!ReportAssumptions /\ Reports!Init => Reports!IInv
<1> SUFFICES ASSUME Reports!ReportAssumptions, Reports!Init PROVE Reports!IInv  OBVIOUS
<1>1. Reports!TypeOK /\ Reports!ShelfKept  BY ReportInitTypes, ReportInitShelf
<1>2. priceLog = <<>> /\ price = FirstPrice /\ tag = [d \in 0..LastDay |-> FirstPrice]
  BY DEF Reports!Init
<1>3. Reports!LogInOrder  BY <1>2 DEF Reports!LogInOrder
<1>4. Reports!TagKept  BY <1>2 DEF Reports!TagKept, Reports!SellPriceAsOf
<1> QED  BY <1>1, <1>3, <1>4 DEF Reports!IInv

LEMMA ReportStepIInv ==
  Reports!ReportAssumptions /\ Reports!IInv /\ [Reports!Next]_(Reports!vars)
    => Reports!IInv'
  BY ReportStepTypes, ReportStepShelf, ReportStepTag DEF Reports!IInv

LEMMA ReportAsOf == Reports!ReportAssumptions /\ Reports!IInv => Reports!AsOfIsAsItWas
<1> SUFFICES ASSUME Reports!ReportAssumptions, Reports!IInv, NEW d \in 0..day
             PROVE  /\ Reports!StockTracked
                         => \A p \in Goods : Reports!StockAsOf(p, d) = shelf[d][p]
                    /\ "price" \notin untracked => Reports!SellPriceAsOf(d) = tag[d]
  BY DEF Reports!AsOfIsAsItWas
<1>1. d \in 0..LastDay
  BY DEF Reports!IInv, Reports!TypeOK, Reports!Days, Reports!ReportAssumptions
<1> QED  BY <1>1 DEF Reports!IInv, Reports!ShelfKept, Reports!TagKept

-----------------------------------------------------------------------------
(* The category tree: what every step keeps *)

LEMMA TreeInitIInv ==
  CategoryTree!CategoryAssumptions /\ CategoryTree!Init => CategoryTree!IInv
  BY DEF CategoryTree!CategoryAssumptions, CategoryTree!Init, CategoryTree!IInv,
     CategoryTree!TypeOK, CategoryTree!ParentsExist, CategoryTree!NoCycle,
     CategoryTree!FormsFollow, CategoryTree!Existing

LEMMA TreeStepTypes ==
  CategoryTree!CategoryAssumptions /\ CategoryTree!TypeOK
    /\ [CategoryTree!Next]_(CategoryTree!vars) => CategoryTree!TypeOK'
<1> SUFFICES ASSUME CategoryTree!CategoryAssumptions, CategoryTree!TypeOK,
                    [CategoryTree!Next]_(CategoryTree!vars)
             PROVE  CategoryTree!TypeOK'
  OBVIOUS
<1>0. ASSUME NEW keep \in SUBSET Users
      PROVE  CategoryTree!Outdated(keep) \in [Users -> CategoryTree!Forms \cup {Nothing}]
  <2>1. ASSUME NEW e \in Users, form[e] # Nothing
        PROVE  [form[e] EXCEPT !.fresh = FALSE] \in CategoryTree!Forms
    <3>1. form[e] \in CategoryTree!Forms  BY <2>1 DEF CategoryTree!TypeOK
    <3> QED  BY <3>1 DEF CategoryTree!Forms
  <2> QED  BY <2>1 DEF CategoryTree!Outdated
<1>1. ASSUME NEW c \in Categories, CategoryTree!Delete(c) PROVE CategoryTree!TypeOK'
  <2>1. form' \in [Users -> CategoryTree!Forms \cup {Nothing}]
    BY <1>0, <1>1 DEF CategoryTree!Delete
  <2> QED  BY <1>1, <2>1 DEF CategoryTree!Delete, CategoryTree!TypeOK
<1>2. ASSUME NEW c \in Categories, NEW shown \in BOOLEAN, CategoryTree!TogglePos(c, shown)
      PROVE  CategoryTree!TypeOK'
  BY <1>2 DEF CategoryTree!TogglePos, CategoryTree!TypeOK
<1>3. ASSUME NEW c \in Categories, NEW shown \in BOOLEAN, NEW p \in Categories \cup {Top},
             CategoryTree!Create(c, p, shown)
      PROVE  CategoryTree!TypeOK'
  <2>1. form' \in [Users -> CategoryTree!Forms \cup {Nothing}]
    BY <1>0, <1>3 DEF CategoryTree!Create
  <2> QED  BY <1>3, <2>1 DEF CategoryTree!Create, CategoryTree!TypeOK
<1>4. ASSUME NEW e \in Users, NEW c \in Categories, CategoryTree!Open(e, c)
      PROVE  CategoryTree!TypeOK'
  BY <1>4 DEF CategoryTree!Open, CategoryTree!TypeOK, CategoryTree!Forms
<1>5. ASSUME NEW e \in Users, CategoryTree!Wave(e) PROVE CategoryTree!TypeOK'
  <2>1. form[e] \in CategoryTree!Forms
    BY <1>5 DEF CategoryTree!Wave, CategoryTree!TypeOK
  <2>2. [form[e] EXCEPT !.frontier = CategoryTree!Children(form[e].frontier),
                        !.found = form[e].found \cup CategoryTree!Children(form[e].frontier)] \in CategoryTree!Forms
    BY <2>1 DEF CategoryTree!Forms, CategoryTree!Children, CategoryTree!Existing
  <2>3. form' = [form EXCEPT ![e] = [form[e] EXCEPT !.frontier = CategoryTree!Children(form[e].frontier),
                                    !.found = form[e].found \cup CategoryTree!Children(form[e].frontier)]]
    BY <1>5 DEF CategoryTree!Wave, CategoryTree!TypeOK
  <2> QED  BY <1>5, <2>2, <2>3 DEF CategoryTree!Wave, CategoryTree!TypeOK
<1>6. ASSUME NEW e \in Users, CategoryTree!Refuse(e) PROVE CategoryTree!TypeOK'
  BY <1>6 DEF CategoryTree!Refuse, CategoryTree!TypeOK
<1>7. ASSUME NEW e \in Users, NEW p \in Categories \cup {Top}, NEW shown \in BOOLEAN,
             CategoryTree!Save(e, p, shown)
      PROVE  CategoryTree!TypeOK'
  <2>1. form' \in [Users -> CategoryTree!Forms \cup {Nothing}]
    BY <1>0, <1>7 DEF CategoryTree!Save
  <2>2. form[e] \in CategoryTree!Forms
    BY <1>7 DEF CategoryTree!Save, CategoryTree!TypeOK
  <2>3. form[e].fresh \in BOOLEAN  BY <2>2 DEF CategoryTree!Forms
  <2> QED  BY <1>7, <2>1, <2>3 DEF CategoryTree!Save, CategoryTree!TypeOK
<1>8. CASE UNCHANGED CategoryTree!vars
  BY <1>8 DEF CategoryTree!vars, CategoryTree!TypeOK
<1> QED  BY <1>1, <1>2, <1>3, <1>4, <1>5, <1>6, <1>7, <1>8 DEF CategoryTree!Next

LEMMA TreeStepParents ==
  CategoryTree!CategoryAssumptions /\ CategoryTree!TypeOK /\ CategoryTree!ParentsExist
    /\ [CategoryTree!Next]_(CategoryTree!vars) => CategoryTree!ParentsExist'
<1> SUFFICES ASSUME CategoryTree!CategoryAssumptions, CategoryTree!TypeOK,
                    CategoryTree!ParentsExist, [CategoryTree!Next]_(CategoryTree!vars)
             PROVE  CategoryTree!ParentsExist'
  OBVIOUS
<1> USE DEF CategoryTree!CategoryAssumptions, CategoryTree!TypeOK, CategoryTree!ParentsExist, CategoryTree!Existing
<1>1. ASSUME NEW c \in Categories, CategoryTree!Delete(c) PROVE CategoryTree!ParentsExist'
  BY <1>1 DEF CategoryTree!Delete
<1>2. ASSUME NEW c \in Categories, NEW p \in Categories \cup {Top},
             p \in CategoryTree!Existing \cup {Top},
             parent' = [parent EXCEPT ![c] = p]
      PROVE  CategoryTree!ParentsExist'
  BY <1>2
<1>3. ASSUME NEW c \in Categories, NEW shown \in BOOLEAN, NEW p \in Categories \cup {Top},
             CategoryTree!Create(c, p, shown)
      PROVE  CategoryTree!ParentsExist'
  BY <1>2, <1>3 DEF CategoryTree!Create
<1>4. ASSUME NEW e \in Users, NEW p \in Categories \cup {Top}, NEW shown \in BOOLEAN,
             CategoryTree!Save(e, p, shown)
      PROVE  CategoryTree!ParentsExist'
  <2>1. form[e].category \in Categories
    BY <1>4 DEF CategoryTree!Save, CategoryTree!Forms
  <2> QED  BY <1>2, <1>4, <2>1 DEF CategoryTree!Save
<1>5. ASSUME parent' = parent PROVE CategoryTree!ParentsExist'
  BY <1>5
<1> HIDE DEF CategoryTree!CategoryAssumptions, CategoryTree!TypeOK, CategoryTree!ParentsExist, CategoryTree!Existing
<1> QED
  BY <1>1, <1>3, <1>4, <1>5
  DEF CategoryTree!Next, CategoryTree!Open, CategoryTree!Wave, CategoryTree!Refuse,
      CategoryTree!TogglePos, CategoryTree!vars

\* A form that has asked of all it has found knows every descendant.
LEMMA TreeStepCycle ==
  CategoryTree!CategoryAssumptions /\ CategoryTree!IInv
    /\ [CategoryTree!Next]_(CategoryTree!vars) => CategoryTree!NoCycle'
<1> SUFFICES ASSUME CategoryTree!CategoryAssumptions, CategoryTree!IInv,
                    [CategoryTree!Next]_(CategoryTree!vars), ~ crossed',
                    NEW S \in SUBSET (CategoryTree!Existing'), S # {}
             PROVE  \E c \in S : parent'[c] \notin S
  BY DEF CategoryTree!NoCycle
<1>0. CategoryTree!TypeOK /\ CategoryTree!ParentsExist /\ CategoryTree!FormsFollow
        /\ S \subseteq Categories
  BY DEF CategoryTree!IInv, CategoryTree!Existing
<1>a. ~ crossed
  BY <1>0 DEF CategoryTree!Next, CategoryTree!Delete, CategoryTree!Create,
     CategoryTree!Open, CategoryTree!Wave, CategoryTree!Save, CategoryTree!Refuse,
     CategoryTree!TogglePos, CategoryTree!vars, CategoryTree!TypeOK
<1>b. ASSUME NEW T \in SUBSET CategoryTree!Existing, T # {}
      PROVE  \E c \in T : parent[c] \notin T
  BY <1>a, <1>b DEF CategoryTree!IInv, CategoryTree!NoCycle
<1>1. ASSUME NEW c \in Categories, CategoryTree!Delete(c)
      PROVE  \E d \in S : parent'[d] \notin S
  <2>1. S \subseteq CategoryTree!Existing /\ c \notin S /\ Top \notin S
    BY <1>0, <1>1 DEF CategoryTree!Delete, CategoryTree!Existing, CategoryTree!TypeOK,
       CategoryTree!CategoryAssumptions
  <2>2. PICK d \in S : parent[d] \notin S  BY <1>b, <2>1
  <2>3. parent'[d] = Top \/ parent'[d] = parent[d]
    BY <1>0, <1>1, <2>1, <2>2 DEF CategoryTree!Delete
  <2> QED  BY <2>1, <2>2, <2>3
<1>2. ASSUME NEW c \in Categories, NEW shown \in BOOLEAN, NEW p \in Categories \cup {Top},
             CategoryTree!Create(c, p, shown)
      PROVE  \E d \in S : parent'[d] \notin S
  <2>1. c \notin CategoryTree!Existing /\ p \in CategoryTree!Existing \cup {Top}
          /\ parent' = [parent EXCEPT ![c] = p]
    BY <1>2 DEF CategoryTree!Create
  <2>2. S \ {c} \subseteq CategoryTree!Existing /\ Top \notin S
          /\ \A d \in S \ {c} : parent'[d] = parent[d]
    BY <1>0, <2>1
    DEF CategoryTree!Existing, CategoryTree!TypeOK, CategoryTree!CategoryAssumptions
  <2>3. CASE S \ {c} = {}
    <3>1. S = {c} /\ parent'[c] = p  BY <1>0, <2>1, <2>3 DEF CategoryTree!TypeOK
    <3> QED  BY <2>1, <2>2, <3>1
  <2>4. CASE S \ {c} # {}
    <3>1. PICK d \in S \ {c} : parent[d] \notin S \ {c}  BY <1>b, <2>2, <2>4
    <3>2. parent[d] \in CategoryTree!Existing \cup {Top}
      BY <1>0, <2>2, <3>1 DEF CategoryTree!ParentsExist
    <3>3. parent[d] # c  BY <2>1, <3>2, <1>2 DEF CategoryTree!CategoryAssumptions
    <3> QED  BY <2>2, <3>1, <3>3
  <2> QED  BY <2>3, <2>4
<1>3. ASSUME NEW e \in Users, NEW p \in Categories \cup {Top}, NEW shown \in BOOLEAN,
             CategoryTree!Save(e, p, shown)
      PROVE  \E d \in S : parent'[d] \notin S
  <2> DEFINE c == form[e].category
             X == {c} \cup form[e].found
  <2>1. form[e] \in CategoryTree!Forms /\ form[e] # Nothing /\ form[e].frontier = {}
    BY <1>0, <1>3 DEF CategoryTree!Save, CategoryTree!TypeOK
  <2>2. form[e].fresh  BY <1>3 DEF CategoryTree!Save
  <2>3. c \in CategoryTree!Existing /\ CategoryTree!Children(X) \subseteq X
    <3>1. X \ form[e].frontier = X  BY <2>1
    <3> QED  BY <1>0, <2>1, <2>2, <3>1 DEF CategoryTree!FormsFollow
  <2>4. p \in (CategoryTree!Existing \ X) \cup {Top} /\ parent' = [parent EXCEPT ![c] = p]
    BY <1>3 DEF CategoryTree!Save, CategoryTree!Excluded
  <2> HIDE DEF X
  <2>5. c \in X /\ c \in Categories  BY <2>1 DEF X, CategoryTree!Forms
  <2> HIDE DEF c
  <2>6. parent'[c] = p /\ \A d \in Categories \ {c} : parent'[d] = parent[d]
    BY <1>0, <2>4, <2>5 DEF CategoryTree!TypeOK
  <2>7. S \subseteq CategoryTree!Existing  BY <1>0, <2>3, <2>6 DEF CategoryTree!Existing
  <2>8. Top \notin S  BY <1>0 DEF CategoryTree!CategoryAssumptions
  <2>9. CASE c \notin S
    <3>1. PICK d \in S : parent[d] \notin S  BY <1>b, <2>7
    <3> QED  BY <1>0, <2>6, <2>9, <3>1
  <2>10. CASE c \in S /\ p \notin S
    BY <2>6, <2>10
  <2>11. CASE c \in S /\ p \in S
    <3>1. p \in S \ X /\ S \ X \subseteq CategoryTree!Existing
      BY <2>4, <2>7, <2>8, <2>11
    <3>2. PICK d \in S \ X : parent[d] \notin S \ X  BY <1>b, <3>1
    <3>3. parent[d] \notin X
      <4>1. d \notin CategoryTree!Children(X)  BY <2>3, <3>2
      <4> QED  BY <3>1, <3>2, <4>1 DEF CategoryTree!Children
    <3>4. parent'[d] = parent[d]  BY <1>0, <2>5, <2>6, <3>2
    <3> QED  BY <3>2, <3>3, <3>4
  <2> QED  BY <2>9, <2>10, <2>11
<1>4. ASSUME parent' = parent PROVE \E d \in S : parent'[d] \notin S
  BY <1>b, <1>4 DEF CategoryTree!Existing
<1> QED
  BY <1>1, <1>2, <1>3, <1>4
  DEF CategoryTree!Next, CategoryTree!Open, CategoryTree!Wave, CategoryTree!Refuse,
      CategoryTree!TogglePos, CategoryTree!vars

LEMMA TreeStepForms ==
  CategoryTree!CategoryAssumptions /\ CategoryTree!IInv
    /\ [CategoryTree!Next]_(CategoryTree!vars) => CategoryTree!FormsFollow'
<1> SUFFICES ASSUME CategoryTree!CategoryAssumptions, CategoryTree!IInv,
                    [CategoryTree!Next]_(CategoryTree!vars), NEW e \in Users,
                    form'[e] # Nothing, form'[e].fresh
             PROVE  /\ form'[e].category \in CategoryTree!Existing'
                    /\ form'[e].frontier \subseteq {form'[e].category} \cup form'[e].found
                    /\ (CategoryTree!Children(({form[e].category} \cup form[e].found) \ form[e].frontier))'
                         \subseteq form'[e].found
  BY DEF CategoryTree!FormsFollow
<1> DEFINE Goal == /\ form'[e].category \in CategoryTree!Existing'
                    /\ form'[e].frontier \subseteq {form'[e].category} \cup form'[e].found
                    /\ (CategoryTree!Children(({form[e].category} \cup form[e].found) \ form[e].frontier))'
                         \subseteq form'[e].found
<1>0. CategoryTree!TypeOK /\ CategoryTree!FormsFollow  BY DEF CategoryTree!IInv
<1>1. ASSUME parent' = parent, form'[e] = form[e] PROVE Goal
  <2>1. /\ form[e].category \in CategoryTree!Existing
        /\ form[e].frontier \subseteq {form[e].category} \cup form[e].found
        /\ CategoryTree!Children(({form[e].category} \cup form[e].found) \ form[e].frontier)
             \subseteq form[e].found
    BY <1>0, <1>1 DEF CategoryTree!FormsFollow
  <2> QED  BY <1>1, <2>1 DEF CategoryTree!Children, CategoryTree!Existing
<1>2. ASSUME NEW keep \in SUBSET Users, form' = CategoryTree!Outdated(keep) PROVE FALSE
  <2>1. form[e] # Nothing /\ form'[e] = [form[e] EXCEPT !.fresh = FALSE]
    BY <1>2 DEF CategoryTree!Outdated
  <2>2. form[e] \in CategoryTree!Forms  BY <1>0, <2>1 DEF CategoryTree!TypeOK
  <2> QED  BY <2>1, <2>2 DEF CategoryTree!Forms
<1>3. ASSUME NEW c \in Categories, NEW a \in Users, CategoryTree!Open(a, c) PROVE Goal
  <2>1. CASE a = e
    <3>1. form'[e] = [category |-> c, found |-> {}, frontier |-> {c}, fresh |-> TRUE]
          /\ c \in CategoryTree!Existing /\ parent' = parent
      BY <1>0, <1>3, <2>1 DEF CategoryTree!Open, CategoryTree!TypeOK
    <3>2. ({form'[e].category} \cup form'[e].found) \ form'[e].frontier = {}  BY <3>1
    <3>3. (CategoryTree!Children(({form[e].category} \cup form[e].found) \ form[e].frontier))' = {}
      BY <3>2 DEF CategoryTree!Children
    <3> QED  BY <3>1, <3>3 DEF CategoryTree!Existing
  <2>2. CASE a # e
    BY <1>0, <1>1, <1>3, <2>2 DEF CategoryTree!Open, CategoryTree!TypeOK
  <2> QED  BY <2>1, <2>2
<1>4. ASSUME NEW a \in Users, CategoryTree!Wave(a) PROVE Goal
  <2>1. CASE a = e
    <3> DEFINE F == form[e].frontier
               X == {form[e].category} \cup form[e].found
    <3>1. form[e] \in CategoryTree!Forms /\ form[e] # Nothing /\ parent' = parent
      BY <1>0, <1>4, <2>1 DEF CategoryTree!Wave, CategoryTree!TypeOK
    <3>2. form'[e] = [form[e] EXCEPT !.frontier = CategoryTree!Children(F), !.found = form[e].found \cup CategoryTree!Children(F)]
      BY <1>0, <1>4, <2>1 DEF CategoryTree!Wave, CategoryTree!TypeOK
    <3>3. /\ form'[e].category = form[e].category
               /\ form'[e].frontier = CategoryTree!Children(F)
          /\ form'[e].found = form[e].found \cup CategoryTree!Children(F) /\ form[e].fresh
      BY <3>1, <3>2 DEF CategoryTree!Forms
    <3>4. /\ form[e].category \in CategoryTree!Existing /\ F \subseteq X
               /\ CategoryTree!Children(X \ F) \subseteq form[e].found
      BY <1>0, <3>1, <3>3 DEF CategoryTree!FormsFollow
    <3>5. (CategoryTree!Children(({form[e].category} \cup form[e].found) \ form[e].frontier))'
            = CategoryTree!Children((X \cup CategoryTree!Children(F)) \ CategoryTree!Children(F))
      BY <3>1, <3>3 DEF CategoryTree!Children, CategoryTree!Existing
    <3>6. CategoryTree!Children((X \cup CategoryTree!Children(F)) \ CategoryTree!Children(F))
            \subseteq CategoryTree!Children(X \ F) \cup CategoryTree!Children(F)
      BY DEF CategoryTree!Children
    <3>7. (CategoryTree!Children(({form[e].category} \cup form[e].found) \ form[e].frontier))'
            \subseteq form'[e].found
      BY <3>3, <3>4, <3>5, <3>6
    <3>8. form'[e].category \in CategoryTree!Existing'
      BY <3>1, <3>3, <3>4 DEF CategoryTree!Existing
    <3> QED  BY <3>3, <3>7, <3>8
  <2>2. CASE a # e
    BY <1>0, <1>1, <1>4, <2>2 DEF CategoryTree!Wave, CategoryTree!TypeOK
  <2> QED  BY <2>1, <2>2
<1>5. ASSUME NEW a \in Users, CategoryTree!Refuse(a) PROVE Goal
  BY <1>0, <1>1, <1>5 DEF CategoryTree!Refuse, CategoryTree!TypeOK
<1>6. ASSUME NEW a \in Users, NEW p \in Categories \cup {Top}, NEW shown \in BOOLEAN,
             CategoryTree!Save(a, p, shown)
      PROVE  Goal
  BY <1>2, <1>6 DEF CategoryTree!Save
<1>7. ASSUME NEW c \in Categories, CategoryTree!Delete(c) PROVE Goal
  BY <1>2, <1>7 DEF CategoryTree!Delete
<1>8. ASSUME NEW c \in Categories, NEW shown \in BOOLEAN, NEW p \in Categories \cup {Top},
             CategoryTree!Create(c, p, shown)
      PROVE  Goal
  BY <1>2, <1>8 DEF CategoryTree!Create
<1>9. ASSUME NEW c \in Categories, NEW shown \in BOOLEAN, CategoryTree!TogglePos(c, shown)
      PROVE  Goal
  BY <1>1, <1>9 DEF CategoryTree!TogglePos
<1>10. CASE UNCHANGED CategoryTree!vars
  BY <1>1, <1>10 DEF CategoryTree!vars
<1>11. CASE \E c \in Categories :
               \/ CategoryTree!Delete(c)
               \/ \E shown \in BOOLEAN :
                    CategoryTree!TogglePos(c, shown) \/ \E p \in Categories
                      \cup {Top} : CategoryTree!Create(c, p, shown)
  <2> QED  BY <1>7, <1>8, <1>9, <1>11
<1>12. CASE \E a \in Users :
               \/ \E c \in Categories : CategoryTree!Open(a, c)
               \/ CategoryTree!Wave(a) \/ CategoryTree!Refuse(a)
               \/ \E p \in Categories \cup {Top}, shown \in BOOLEAN : CategoryTree!Save(a, p, shown)
  <2> QED  BY <1>3, <1>4, <1>5, <1>6, <1>12
<1> QED  BY <1>10, <1>11, <1>12 DEF CategoryTree!Next

LEMMA TreeStepIInv ==
  CategoryTree!CategoryAssumptions /\ CategoryTree!IInv
    /\ [CategoryTree!Next]_(CategoryTree!vars) => CategoryTree!IInv'
  BY TreeStepTypes, TreeStepParents, TreeStepCycle, TreeStepForms DEF CategoryTree!IInv

-----------------------------------------------------------------------------
(* The category tree: what the list of categories shows *)

\* The categories at each depth of the tree.
Levels(L) == L = [n \in Nat |-> IF n = 0 THEN CategoryTree!Children({Top}) ELSE CategoryTree!Children(L[n - 1])]

LEMMA TreeLevelsExist == \E L : Levels(L)
<1> DEFINE V == SUBSET CategoryTree!Existing
           below == [S \in V |-> CategoryTree!Children(S)]
<1>1. CategoryTree!Children({Top}) \in V /\ below \in [V -> V]
  BY DEF CategoryTree!Children
<1> HIDE DEF V
<1>2. PICK L \in [Nat -> V] : L[0] = CategoryTree!Children({Top})
             /\ \A n \in Nat : L[n + 1] = below[L[n]]
  <2> HIDE DEF below
  <2> QED  BY <1>1, Recursion DEF Repeats
<1>3. ASSUME NEW n \in Nat
      PROVE  L[n] = IF n = 0 THEN CategoryTree!Children({Top}) ELSE CategoryTree!Children(L[n - 1])
  <2>1. CASE n = 0  BY <1>2, <2>1
  <2>2. CASE n # 0
    <3>1. n - 1 \in Nat /\ (n - 1) + 1 = n  BY <2>2
    <3>2. L[n] = below[L[n - 1]] /\ L[n - 1] \in V  BY <1>2, <3>1
    <3> QED  BY <2>2, <3>2
  <2> QED  BY <2>1, <2>2
<1>4. Levels(L)  BY <1>2, <1>3 DEF Levels
<1> QED  BY <1>4

LEMMA TreeLevelsOfChildren ==
  ASSUME CategoryTree!CategoryAssumptions, CategoryTree!TypeOK, NEW L, Levels(L),
         NEW n \in Nat
  PROVE  /\ L[n] \subseteq CategoryTree!Existing
         /\ \A c \in L[n] : IF n = 0 THEN parent[c] = Top ELSE parent[c] \in L[n - 1]
         /\ L[n + 1] = CategoryTree!Children(L[n])
<1>1. L[n] = IF n = 0 THEN CategoryTree!Children({Top}) ELSE CategoryTree!Children(L[n - 1])
  BY DEF Levels
<1>2. L[n + 1] = CategoryTree!Children(L[n])
  <2>1. n + 1 \in Nat /\ n + 1 # 0 /\ (n + 1) - 1 = n  OBVIOUS
  <2>2. \A k \in Nat : L[k] = IF k
          = 0 THEN CategoryTree!Children({Top}) ELSE CategoryTree!Children(L[k - 1])
    BY DEF Levels
  <2> QED  BY <2>1, <2>2
<1>3. \A T : CategoryTree!Children(T) \subseteq CategoryTree!Existing
        /\ \A c \in CategoryTree!Children(T) : parent[c] \in T
  BY DEF CategoryTree!Children
<1> QED  BY <1>1, <1>2, <1>3

\* No category is at two depths.
LEMMA TreeLevelsApart ==
  ASSUME CategoryTree!CategoryAssumptions, CategoryTree!TypeOK, NEW L, Levels(L)
  PROVE  \A i, j \in Nat : i < j => L[i] \cap L[j] = {}
<1> DEFINE Bad == {i \in Nat : \E j \in Nat : i < j /\ L[i] \cap L[j] # {}}
<1> SUFFICES ASSUME Bad # {} PROVE FALSE  OBVIOUS
<1>1. PICK i \in Bad : \A k \in Bad : i <= k
  <2>1. Bad \in SUBSET Nat  OBVIOUS
  <2> HIDE DEF Bad
  <2> QED  BY <2>1, LeastNatural
<1>2. i \in Nat  BY <1>1
<1>3. PICK j \in Nat : i < j /\ L[i] \cap L[j] # {}  BY <1>1
<1>4. PICK c \in L[i] : c \in L[j]  BY <1>3
<1>5. j # 0 /\ j - 1 \in Nat  BY <1>2, <1>3
<1>6. parent[c] \in L[j - 1] /\ L[j - 1] \subseteq CategoryTree!Existing
  <2>1. parent[c] \in L[j - 1]  BY <1>3, <1>4, <1>5, TreeLevelsOfChildren
  <2> QED  BY <1>5, <2>1, TreeLevelsOfChildren
<1>7. i # 0
  <2> SUFFICES ASSUME i = 0 PROVE FALSE  OBVIOUS
  <2>1. parent[c] = Top  BY <1>2, <1>4, TreeLevelsOfChildren
  <2> QED  BY <1>6, <2>1 DEF CategoryTree!Existing, CategoryTree!CategoryAssumptions
<1>8. i - 1 \in Nat /\ i - 1 < j - 1 /\ ~ (i <= i - 1)  BY <1>2, <1>3, <1>7
<1>9. parent[c] \in L[i - 1]  BY <1>2, <1>4, <1>7, TreeLevelsOfChildren
<1>10. i - 1 \in Bad  BY <1>5, <1>6, <1>8, <1>9
<1> QED  BY <1>1, <1>8, <1>10

\* There are no more depths than categories.
LEMMA TreeLevelsEnd ==
  ASSUME CategoryTree!CategoryAssumptions, CategoryTree!TypeOK, NEW L, Levels(L)
  PROVE  Cardinality(Categories) \in Nat /\ L[Cardinality(Categories)] = {}
<1> DEFINE N == Cardinality(Categories)
<1>1. IsFiniteSet(Categories) /\ N \in Nat
  BY FS_CardinalityType DEF CategoryTree!CategoryAssumptions, CategoryTree!IsFiniteSet,
     IsFiniteSet
<1> SUFFICES ASSUME L[N] # {} PROVE FALSE  BY <1>1
<1> HIDE DEF N
<1>2. \A n \in 0..N : L[n] # {}
  <2> DEFINE Bad == {k \in Nat : k <= N /\ L[N - k] = {}}
  <2> SUFFICES ASSUME Bad # {} PROVE FALSE
    <3> SUFFICES ASSUME NEW n \in 0..N, L[n] = {} PROVE Bad # {}  OBVIOUS
    <3>1. N - n \in Nat /\ N - n <= N /\ N - (N - n) = n  BY <1>1
    <3> QED  BY <3>1
  <2>1. PICK k \in Bad : \A m \in Bad : k <= m
    <3>1. Bad \in SUBSET Nat  OBVIOUS
    <3> HIDE DEF Bad
    <3> QED  BY <3>1, LeastNatural
  <2>2. k \in Nat /\ k <= N /\ L[N - k] = {}  BY <2>1
  <2>3. k # 0  BY <1>1, <2>2
  <2>4. k - 1 \in Nat /\ k - 1 <= N /\ ~ (k <= k - 1) /\ N - (k - 1) = (N - k) + 1
          /\ N - k \in Nat
    BY <1>1, <2>2, <2>3
  <2>5. L[(N - k) + 1] = CategoryTree!Children({})
    <3> DEFINE m == N - k
    <3>1. m \in Nat /\ L[m] = {}  BY <2>2, <2>4
    <3> HIDE DEF m
    <3>2. L[m + 1] = CategoryTree!Children(L[m])  BY <3>1, TreeLevelsOfChildren
    <3> QED  BY <3>1, <3>2 DEF m
  <2>6. k - 1 \in Bad  BY <2>4, <2>5 DEF CategoryTree!Children
  <2> QED  BY <2>1, <2>4, <2>6
<1> DEFINE f == [n \in 0..N |-> CHOOSE c \in L[n] : TRUE]
<1>3. ASSUME NEW n \in 0..N PROVE f[n] \in L[n] /\ f[n] \in Categories
  <2>1. f[n] \in L[n]  BY <1>2
  <2>2. n \in Nat  BY <1>1
  <2> HIDE DEF f
  <2>3. L[n] \subseteq CategoryTree!Existing  BY <2>2, TreeLevelsOfChildren
  <2> QED  BY <2>1, <2>3 DEF CategoryTree!Existing
<1>4. f \in [0..N -> Categories]  BY <1>3
<1>5. ASSUME NEW m \in 0..N, NEW n \in 0..N, f[m] = f[n] PROVE m = n
  <2> HIDE DEF f
  <2>1. L[m] \cap L[n] # {}  BY <1>3, <1>5
  <2>2. m \in Nat /\ n \in Nat  BY <1>1
  <2>3. ~ (m < n) /\ ~ (n < m)
    <3>1. \A i, j \in Nat : i < j => L[i] \cap L[j] = {}  BY TreeLevelsApart
    <3> QED  BY <2>1, <2>2, <3>1
  <2> QED  BY <2>2, <2>3
<1> HIDE DEF f
<1>6. f \in Injection(0..N, Categories)  BY <1>4, <1>5 DEF Injection, IsInjective
<1>7. Cardinality(0..N) <= N  BY <1>1, <1>6, FS_Injection DEF N
<1>8. Cardinality(0..N) = N + 1
  <2>1. 0 \in Int /\ N \in Int /\ ~ (0 > N)  BY <1>1
  <2>2. Cardinality(0..N) = N - 0 + 1  BY <2>1, FS_Interval
  <2> QED  BY <1>1, <2>2
<1> QED  BY <1>1, <1>7, <1>8

LEMMA TreeWhole ==
  CategoryTree!CategoryAssumptions /\ CategoryTree!IInv => CategoryTree!TreeStaysWhole
<1> SUFFICES ASSUME CategoryTree!CategoryAssumptions, CategoryTree!IInv, ~ crossed
             PROVE  CategoryTree!Shown = CategoryTree!Existing
  BY DEF CategoryTree!TreeStaysWhole
<1> DEFINE L == CHOOSE g : Levels(g)
           N == Cardinality(Categories)
<1>0. CategoryTree!TypeOK /\ CategoryTree!ParentsExist  BY DEF CategoryTree!IInv
<1>1. Levels(L)  BY TreeLevelsExist
<1>2. CategoryTree!Shown = UNION {L[n] : n \in 0..N}
  BY DEF CategoryTree!Shown, Levels, CategoryTree!Cardinality, Cardinality
<1> HIDE DEF L
<1>3. N \in Nat /\ L[N] = {}  BY <1>0, <1>1, TreeLevelsEnd
<1> HIDE DEF N
<1>4. ASSUME NEW n \in 0..N PROVE L[n] \subseteq CategoryTree!Existing
  <2>1. n \in Nat  BY <1>3
  <2> QED  BY <1>0, <1>1, <2>1, TreeLevelsOfChildren
<1>5. CategoryTree!Shown \subseteq CategoryTree!Existing  BY <1>2, <1>4
<1>6. ASSUME CategoryTree!Existing \ CategoryTree!Shown # {} PROVE FALSE
  <2>1. PICK c \in CategoryTree!Existing \ CategoryTree!Shown : parent[c] \notin CategoryTree!Existing \ CategoryTree!Shown
    <3>1. CategoryTree!Existing \ CategoryTree!Shown \in SUBSET CategoryTree!Existing
      OBVIOUS
    <3> QED  BY <1>6, <3>1 DEF CategoryTree!IInv, CategoryTree!NoCycle
  <2>2. CASE parent[c] = Top
    <3>1. c \in L[0]  BY <1>1, <2>1, <2>2 DEF Levels, CategoryTree!Children
    <3> QED  BY <1>2, <1>3, <2>1, <3>1
  <2>3. CASE parent[c] # Top
    <3>1. parent[c] \in CategoryTree!Shown
      BY <1>0, <2>1, <2>3 DEF CategoryTree!ParentsExist
    <3>2. PICK n \in 0..N : parent[c] \in L[n]  BY <1>2, <3>1
    <3>3. n \in Nat /\ n + 1 \in 0..N  BY <1>3, <3>2
    <3>4. L[n + 1] = CategoryTree!Children(L[n])
      BY <1>0, <1>1, <3>3, TreeLevelsOfChildren
    <3>5. c \in L[n + 1]  BY <2>1, <3>2, <3>4 DEF CategoryTree!Children
    <3> QED  BY <1>2, <2>1, <3>3, <3>5
  <2> QED  BY <2>2, <2>3
<1> QED  BY <1>5, <1>6

-----------------------------------------------------------------------------
(* Backups: what the rotation keeps *)

LEMMA BackupCount == \A T : Backups!Cardinality(T) = Cardinality(T)
  BY DEF Backups!Cardinality, Cardinality

\* Dump by dump, as long as one must go.
Left(L, S) ==
    L = [n \in Nat |-> IF n = 0 THEN S
                       ELSE IF Backups!MustGo(L[n - 1]) THEN L[n - 1] \ {Backups!Oldest(L[n - 1])}
                       ELSE L[n - 1]]

LEMMA BackupLeftExists == ASSUME NEW S PROVE \E L : Left(L, S)
<1> DEFINE V == SUBSET S
           after == [T \in V |-> IF Backups!MustGo(T) THEN T \ {Backups!Oldest(T)} ELSE T]
<1>1. S \in V /\ after \in [V -> V]  OBVIOUS
<1>2. \A T \in V : after[T] = IF Backups!MustGo(T) THEN T \ {Backups!Oldest(T)} ELSE T
  OBVIOUS
<1> HIDE DEF V, after
<1>3. PICK L \in [Nat -> V] : L[0] = S /\ \A n \in Nat : L[n + 1] = after[L[n]]
  BY <1>1, Recursion DEF Repeats
<1>4. ASSUME NEW n \in Nat
      PROVE  L[n] = IF n = 0 THEN S
                    ELSE IF Backups!MustGo(L[n - 1]) THEN L[n - 1] \ {Backups!Oldest(L[n - 1])}
                    ELSE L[n - 1]
  <2>1. CASE n = 0  BY <1>3, <2>1
  <2>2. CASE n # 0
    <3>1. n - 1 \in Nat /\ (n - 1) + 1 = n  BY <2>2
    <3>2. L[n] = after[L[n - 1]] /\ L[n - 1] \in V  BY <1>3, <3>1
    <3> QED  BY <1>2, <2>2, <3>2
  <2> QED  BY <2>1, <2>2
<1>5. Left(L, S)
  <2>1. L = [n \in Nat |-> L[n]]  BY <1>3
  <2> QED  BY <1>4, <2>1 DEF Left
<1> QED  BY <1>5

\* A set of dumps none of which is ever the one to go is kept.
LEMMA BackupRotatedKeeps ==
  ASSUME NEW S, IsFiniteSet(S), NEW K \in SUBSET S,
         \A T \in SUBSET S : K \subseteq T /\ Backups!MustGo(T)
           => Backups!Oldest(T) \notin K
  PROVE  K \subseteq Backups!Rotated(S) /\ Backups!Rotated(S) \subseteq S
<1> DEFINE L == CHOOSE l : Left(l, S)
           N == Cardinality(S)
           Bad == {n \in Nat : ~ (K \subseteq L[n] /\ L[n] \subseteq S)}
<1>1. Left(L, S)  BY BackupLeftExists
<1>2. Backups!Rotated(S) = L[N]  BY BackupCount DEF Backups!Rotated, Left
<1>3. N \in Nat  BY FS_CardinalityType
<1> HIDE DEF L, N
<1> SUFFICES ASSUME Bad # {} PROVE FALSE  BY <1>2, <1>3
<1>4. PICK n \in Bad : \A m \in Bad : n <= m
  <2>1. Bad \in SUBSET Nat  OBVIOUS
  <2> HIDE DEF Bad
  <2> QED  BY <2>1, LeastNatural
<1>5. n \in Nat /\ ~ (K \subseteq L[n] /\ L[n] \subseteq S)  BY <1>4
<1>6. L[n] = IF n = 0 THEN S
             ELSE IF Backups!MustGo(L[n - 1]) THEN L[n - 1] \ {Backups!Oldest(L[n - 1])} ELSE L[n - 1]
  BY <1>1, <1>5 DEF Left
<1>7. n # 0  BY <1>5, <1>6
<1>8. n - 1 \in Nat /\ ~ (n <= n - 1)  BY <1>5, <1>7
<1>9. K \subseteq L[n - 1] /\ L[n - 1] \subseteq S  BY <1>4, <1>8
<1> QED  BY <1>5, <1>6, <1>7, <1>9

LEMMA BackupOldestIsOne ==
  ASSUME NEW T, T # {}, \A d \in T : d.name \in Nat
  PROVE  Backups!Oldest(T) \in T /\ \A e \in T : Backups!Oldest(T).name <= e.name
<1> DEFINE names == {d.name : d \in T}
<1>1. names \in SUBSET Nat /\ names # {}  OBVIOUS
<1>2. PICK n \in names : \A m \in names : n <= m
  <2> HIDE DEF names
  <2> QED  BY <1>1, LeastNatural
<1>3. \E d \in T : \A e \in T : d.name <= e.name  BY <1>2
<1> QED  BY <1>3 DEF Backups!Oldest

LEMMA BackupMomentTypes ==
  Backups!BackupAssumptions => /\ Backups!Moments = 1..Len(Local) /\ Len(Local) \in Nat
                               /\ \A m \in Backups!Moments : Local[m] \in Nat /\ m \in Nat
                               /\ IsFiniteSet(Backups!Moments) /\ 1 \in Backups!Moments
<1> SUFFICES ASSUME Backups!BackupAssumptions
             PROVE  /\ Backups!Moments = 1..Len(Local) /\ Len(Local) \in Nat
                    /\ \A m \in Backups!Moments : Local[m] \in Nat /\ m \in Nat
                    /\ IsFiniteSet(Backups!Moments) /\ 1 \in Backups!Moments
  OBVIOUS
<1>1. Local \in Seq(Nat) /\ Local # <<>>  BY DEF Backups!BackupAssumptions
<1>2. Backups!Moments = 1..Len(Local) /\ Len(Local) \in Nat /\ Len(Local) # 0
  BY <1>1 DEF Backups!Moments
<1>3. IsFiniteSet(1..Len(Local))  BY <1>2, FS_Interval
<1> QED  BY <1>1, <1>2, <1>3

LEMMA BackupDumpsFinite ==
  ASSUME Backups!BackupAssumptions, Backups!TypeOK, Backups!DumpsNamed
  PROVE  /\ IsFiniteSet(dumps) /\ IsFiniteSet(made)
         /\ \A d \in dumps : /\ d.at \in made /\ d.at \in Nat /\ d.name = Local[d.at]
                             /\ d.name \in Nat /\ d.content \in Nat
         /\ \A d, e \in dumps : d.name = e.name => e = d
         /\ \A d, e \in dumps : d.at = e.at => e = d
<1>1. IsFiniteSet(made) /\ made \subseteq Backups!Moments
  BY BackupMomentTypes, FS_Subset DEF Backups!TypeOK
<1>2. \A d \in dumps : d.at \in made /\ d.name = Local[d.at] /\ d.content \in Nat
  BY DEF Backups!DumpsNamed, Backups!TypeOK, Backups!Dump, Backups!BackupAssumptions
<1>3. \A d \in dumps : d.at \in Nat /\ d.name \in Nat  BY <1>1, <1>2, BackupMomentTypes
<1>4. \A d, e \in dumps : d.name = e.name => e = d  BY DEF Backups!DumpsNamed
<1>5. \A d, e \in dumps : d.at = e.at => e = d  BY <1>2, <1>4
<1> DEFINE f == [d \in dumps |-> d.at]
<1>6. f \in Injection(dumps, made)  BY <1>2, <1>5 DEF Injection, IsInjective
<1>7. IsFiniteSet(dumps)
  <2> HIDE DEF f
  <2> QED  BY <1>1, <1>6, FS_Injection
<1> QED  BY <1>1, <1>2, <1>3, <1>4, <1>5, <1>7

\* While names sort by date, the rotation keeps each of the newest dumps on disk.
LEMMA BackupRotationKeepsNewest ==
  ASSUME Backups!BackupAssumptions, Backups!TypeOK, Backups!DumpsNamed, Backups!InOrder,
         NEW k \in dumps,
         Cardinality({n \in made : n > k.at}) < KeepMin
  PROVE  k \in Backups!Rotated(dumps)
<1>1. ASSUME NEW T \in SUBSET dumps, {k} \subseteq T, Backups!MustGo(T),
             Backups!Oldest(T) \in {k}
      PROVE  FALSE
  <2> DEFINE U == T \ {k}
             newer == {n \in made : n > k.at}
             f == [d \in U |-> d.at]
  <2>1. T # {} /\ \A d \in T : d.name \in Nat  BY <1>1, BackupDumpsFinite
  <2>2. Backups!Oldest(T) = k /\ \A d \in T : k.name <= d.name
    BY <1>1, <2>1, BackupOldestIsOne
  <2>3. ASSUME NEW d \in U PROVE d.at \in newer
    <3>1. d \in dumps /\ d # k /\ k.name <= d.name  BY <2>2
    <3>2. /\ d.at \in made /\ k.at \in made /\ d.name = Local[d.at] /\ k.name = Local[k.at]
          /\ d.at \in Nat /\ k.at \in Nat /\ d.name \in Nat /\ k.name \in Nat
      BY <3>1, BackupDumpsFinite
    <3>3. d.at # k.at  BY <3>1, BackupDumpsFinite
    <3>4. d.at < k.at => d.name < k.name  BY <3>2 DEF Backups!InOrder
    <3> QED  BY <3>1, <3>2, <3>3, <3>4
  <2>4. \A d, e \in U : f[d] = f[e] => d = e  BY BackupDumpsFinite
  <2>5. f \in Injection(U, newer)  BY <2>3, <2>4 DEF Injection, IsInjective
  <2>6. IsFiniteSet(newer) /\ IsFiniteSet(T) /\ IsFiniteSet(U)
    BY BackupDumpsFinite, FS_Subset
  <2> HIDE DEF f, newer
  <2>7. Cardinality(U) <= Cardinality(newer)  BY <2>5, <2>6, FS_Injection
  <2>8. Cardinality(U) = Cardinality(T) - 1  BY <1>1, <2>6, FS_RemoveElement
  <2>9. Cardinality(T) \in Nat /\ Cardinality(newer) \in Nat /\ KeepMin \in Nat
    BY <2>6, FS_CardinalityType DEF Backups!BackupAssumptions
  <2>10. Cardinality(T) > KeepMin  BY <1>1, BackupCount DEF Backups!MustGo
  <2>11. Cardinality(newer) < KeepMin  BY DEF newer
  <2> HIDE DEF U
  <2> QED  BY <2>7, <2>8, <2>9, <2>10, <2>11
<1>2. IsFiniteSet(dumps)  BY BackupDumpsFinite
<1>3. {k} \in SUBSET dumps  OBVIOUS
<1>4. {k} \subseteq Backups!Rotated(dumps)  BY <1>1, <1>2, <1>3, BackupRotatedKeeps
<1> QED  BY <1>4

LEMMA BackupRotationOnlyDeletes ==
  ASSUME Backups!BackupAssumptions, Backups!TypeOK, Backups!DumpsNamed
  PROVE  Backups!Rotated(dumps) \subseteq dumps
<1>1. IsFiniteSet(dumps) /\ {} \in SUBSET dumps  BY BackupDumpsFinite
<1>2. \A T \in SUBSET dumps : {} \subseteq T /\ Backups!MustGo(T)
        => Backups!Oldest(T) \notin {}
  OBVIOUS
<1> QED  BY <1>1, <1>2, BackupRotatedKeeps

-----------------------------------------------------------------------------
(* Backups: types *)

WorkingRun == [step : {"counted", "dumped", "renamed", "saved"}, counter : 0..MaxChanges,
               part : Backups!Dump \cup {Backups!NoDump}]

LEMMA BackupRunTypes ==
  ASSUME Backups!TypeOK, NEW r \in Users
  PROVE  /\ Backups!Working(r) => run[r] \in WorkingRun
         /\ run[r].step \in {"counted", "dumped", "renamed", "saved"} => Backups!Working(r)
         /\ run[r] \in WorkingRun \cup {Backups!Idle}
<1>1. run[r] \in WorkingRun \cup {Backups!Idle}  BY DEF Backups!TypeOK, WorkingRun
<1>2. Backups!Working(r) => run[r] \in WorkingRun  BY <1>1 DEF Backups!Working
<1>3. run[r].step \in {"counted", "dumped", "renamed", "saved"} => Backups!Working(r)
  BY DEF Backups!Working, Backups!Idle
<1> QED  BY <1>1, <1>2, <1>3

LEMMA BackupInitIInv == Backups!BackupAssumptions /\ Backups!Init => Backups!IInv
<1> SUFFICES ASSUME Backups!BackupAssumptions, Backups!Init PROVE Backups!IInv  OBVIOUS
<1>1. Backups!TypeOK
  <2>1. now \in Backups!Moments
    <3>1. now = 1  BY DEF Backups!Init
    <3>2. 1 \in Backups!Moments  BY BackupMomentTypes
    <3> QED  BY <3>1, <3>2
  <2>2. content \in 0..MaxChanges /\ changed \in 0..MaxChanges
    BY DEF Backups!Init, Backups!BackupAssumptions
  <2> QED  BY <2>1, <2>2 DEF Backups!Init, Backups!TypeOK
<1>2. \A r \in Users : ~ Backups!Working(r) /\ ~ Backups!Dumped(r)
  BY DEF Backups!Init, Backups!Working, Backups!Dumped, Backups!Idle
<1>3. Backups!DumpsNamed /\ Backups!PartsNamed /\ Backups!Alone /\ Backups!StateOlder
        /\ Backups!FileKept /\ Backups!NewestKept
  BY <1>2 DEF Backups!Init, Backups!DumpsNamed, Backups!PartsNamed, Backups!Alone,
     Backups!StateOlder, Backups!FileKept, Backups!NewestKept
<1>4. Backups!CountersPast  BY <1>2 DEF Backups!Init, Backups!CountersPast
<1> QED  BY <1>1, <1>3, <1>4 DEF Backups!IInv

LEMMA BackupStepTypes ==
  Backups!BackupAssumptions /\ Backups!TypeOK /\ Backups!DumpsNamed /\ Backups!PartsNamed
    /\ Backups!CountersPast /\ [Backups!Next]_(Backups!vars) => Backups!TypeOK'
<1> SUFFICES ASSUME Backups!BackupAssumptions, Backups!TypeOK, Backups!DumpsNamed,
                    Backups!PartsNamed, Backups!CountersPast, [Backups!Next]_(Backups!vars)
             PROVE  Backups!TypeOK'
  OBVIOUS
<1>0. /\ content \in Nat /\ changed \in Nat /\ changed <= content /\ MaxChanges \in Nat
      /\ content <= MaxChanges /\ now \in Nat
  BY BackupMomentTypes
  DEF Backups!TypeOK, Backups!CountersPast, Backups!BackupAssumptions
<1>r. run \in [Users -> WorkingRun \cup {Backups!Idle}]
  BY DEF Backups!TypeOK, WorkingRun
<1>s. ASSUME run' \in [Users -> WorkingRun \cup {Backups!Idle}],
             UNCHANGED <<now, content, changed>>, state' \in Backups!State \cup {Nothing},
             dumps' \subseteq Backups!Dump, made'
               \subseteq Backups!Moments, reset' \in BOOLEAN, together' \in BOOLEAN
      PROVE  Backups!TypeOK'
  BY <1>s DEF Backups!TypeOK, WorkingRun
<1>1. CASE Backups!Change
  <2>1. content' \in 0..MaxChanges /\ changed' \in 0..MaxChanges
    BY <1>0, <1>1 DEF Backups!Change
  <2> QED  BY <1>1, <2>1 DEF Backups!Change, Backups!TypeOK
<1>2. CASE Backups!Reset
  <2>1. changed' \in 0..MaxChanges  BY <1>0, <1>2 DEF Backups!Reset
  <2> QED  BY <1>2, <2>1 DEF Backups!Reset, Backups!TypeOK
<1>3. CASE Backups!Tick
  BY <1>3 DEF Backups!Tick, Backups!TypeOK
<1>4. ASSUME NEW r \in Users, NEW force \in BOOLEAN, Backups!Start(r, force)
      PROVE  Backups!TypeOK'
  <2>1. [step |-> "counted", counter |-> changed, part |-> Backups!NoDump] \in WorkingRun
    BY DEF WorkingRun, Backups!TypeOK
  <2>2. run' \in [Users -> WorkingRun \cup {Backups!Idle}]
    BY <1>4, <1>r, <2>1 DEF Backups!Start
  <2>3. together' \in BOOLEAN  BY <1>4 DEF Backups!Start, Backups!TypeOK
  <2> QED  BY <1>4, <1>s, <2>2, <2>3 DEF Backups!Start, Backups!TypeOK
<1>5. ASSUME NEW r \in Users, Backups!TakeDump(r) PROVE Backups!TypeOK'
  <2>1. run[r] \in WorkingRun  BY <1>5, BackupRunTypes DEF Backups!TakeDump
  <2>2. [name |-> Local[now], content |-> content, at |-> now] \in Backups!Dump
    BY DEF Backups!Dump, Backups!Names, Backups!TypeOK
  <2>3. run' = [run EXCEPT ![r] = [run[r] EXCEPT !.step = "dumped",
                   !.part = [name |-> Local[now], content |-> content, at |-> now]]]
    BY <1>5, <1>r DEF Backups!TakeDump
  <2>4. [run[r] EXCEPT !.step = "dumped",
                   !.part = [name |-> Local[now], content |-> content, at |-> now]] \in WorkingRun
    BY <2>1, <2>2 DEF WorkingRun
  <2>5. run' \in [Users -> WorkingRun \cup {Backups!Idle}]  BY <1>r, <2>3, <2>4
  <2> QED  BY <1>5, <1>s, <2>5 DEF Backups!TakeDump, Backups!TypeOK
<1>t. ASSUME NEW r \in Users, Backups!Working(r),
             NEW k \in {"counted", "dumped", "renamed", "saved"},
             Backups!To(r, k)
      PROVE  run' \in [Users -> WorkingRun \cup {Backups!Idle}]
  <2>1. run[r] \in WorkingRun  BY <1>t, BackupRunTypes
  <2>2. [run[r] EXCEPT !.step = k] \in WorkingRun  BY <2>1 DEF WorkingRun
  <2>3. run' = [run EXCEPT ![r] = [run[r] EXCEPT !.step = k]]
    BY <1>r, <1>t DEF Backups!To
  <2> QED  BY <1>r, <2>2, <2>3
<1>6. ASSUME NEW r \in Users, Backups!Rename(r) PROVE Backups!TypeOK'
  <2>1. Backups!Working(r) /\ Backups!Dumped(r)
    BY <1>6, BackupRunTypes DEF Backups!Rename, Backups!Dumped
  <2>2. run[r].part \in Backups!Dump  BY <2>1 DEF Backups!PartsNamed
  <2>3. run[r].part.at \in Backups!Moments  BY <2>2 DEF Backups!Dump
  <2>4. run' \in [Users -> WorkingRun \cup {Backups!Idle}]
    BY <1>6, <1>t, <2>1 DEF Backups!Rename
  <2>5. dumps' \subseteq Backups!Dump /\ made' \subseteq Backups!Moments
    BY <1>6, <2>2, <2>3 DEF Backups!Rename, Backups!TypeOK
  <2> QED  BY <1>6, <1>s, <2>4, <2>5 DEF Backups!Rename, Backups!TypeOK
<1>7. ASSUME NEW r \in Users, Backups!SaveState(r) PROVE Backups!TypeOK'
  <2>1. Backups!Working(r) /\ Backups!Dumped(r)
    BY <1>7, BackupRunTypes DEF Backups!SaveState, Backups!Dumped
  <2>2. run[r].part \in Backups!Dump /\ run[r] \in WorkingRun
    BY <2>1, BackupRunTypes DEF Backups!PartsNamed
  <2>3. state' \in Backups!State
    BY <1>7, <2>2
    DEF Backups!SaveState, Backups!State, Backups!TypeOK, Backups!CounterSeen,
        WorkingRun, Backups!Dump
  <2>4. run' \in [Users -> WorkingRun \cup {Backups!Idle}]
    BY <1>7, <1>t, <2>1 DEF Backups!SaveState
  <2> QED  BY <1>7, <1>s, <2>3, <2>4 DEF Backups!SaveState, Backups!TypeOK
<1>8. ASSUME NEW r \in Users, Backups!Rotate(r) PROVE Backups!TypeOK'
  <2>1. run' \in [Users -> WorkingRun \cup {Backups!Idle}]
    BY <1>8, <1>r DEF Backups!Rotate
  <2>2. dumps' \subseteq Backups!Dump
    BY <1>8, BackupRotationOnlyDeletes DEF Backups!Rotate, Backups!TypeOK
  <2> QED  BY <1>8, <1>s, <2>1, <2>2 DEF Backups!Rotate, Backups!TypeOK
<1>9. ASSUME NEW r \in Users, Backups!Stop(r) PROVE Backups!TypeOK'
  <2>1. run' \in [Users -> WorkingRun \cup {Backups!Idle}]
    BY <1>9, <1>r DEF Backups!Stop
  <2> QED  BY <1>9, <1>s, <2>1 DEF Backups!Stop, Backups!TypeOK
<1>10. CASE UNCHANGED Backups!vars
  BY <1>10 DEF Backups!vars, Backups!TypeOK
<1> QED  BY <1>1, <1>2, <1>3, <1>4, <1>5, <1>6, <1>7, <1>8, <1>9, <1>10 DEF Backups!Next

-----------------------------------------------------------------------------
(* Backups: every step keeps the rest *)

LEMMA BackupStepDumps ==
  Backups!BackupAssumptions /\ Backups!TypeOK /\ Backups!DumpsNamed /\ Backups!PartsNamed
    /\ [Backups!Next]_(Backups!vars) => Backups!DumpsNamed'
<1> SUFFICES ASSUME Backups!BackupAssumptions, Backups!TypeOK, Backups!DumpsNamed,
                    Backups!PartsNamed, [Backups!Next]_(Backups!vars)
             PROVE  Backups!DumpsNamed'
  OBVIOUS
<1>1. CASE Backups!Change
  <2>1. content \in Nat /\ content' = content + 1
    BY <1>1 DEF Backups!Change, Backups!TypeOK, Backups!BackupAssumptions
  <2>2. \A d \in dumps : d.content \in Nat  BY BackupDumpsFinite
  <2>3. \A d \in dumps : d.content <= content  BY DEF Backups!DumpsNamed
  <2>4. \A d \in dumps : d.content <= content'  BY <2>1, <2>2, <2>3
  <2>5. UNCHANGED <<dumps, made>>  BY <1>1 DEF Backups!Change
  <2> QED  BY <2>4, <2>5 DEF Backups!DumpsNamed
<1>3. ASSUME UNCHANGED <<dumps, made, content>> PROVE Backups!DumpsNamed'
  BY <1>3 DEF Backups!DumpsNamed
<1>4. ASSUME NEW r \in Users, Backups!Rename(r) PROVE Backups!DumpsNamed'
  <2> DEFINE dump == run[r].part
  <2>1. Backups!Dumped(r)  BY <1>4 DEF Backups!Rename, Backups!Dumped
  <2>2. dump.name = Local[dump.at] /\ dump.content <= content
    BY <2>1 DEF Backups!PartsNamed
  <2>3. /\ dumps' = {d \in dumps : d.name # dump.name} \cup {dump}
        /\ made' = made \cup {dump.at} /\ content' = content
    BY <1>4 DEF Backups!Rename
  <2> HIDE DEF dump
  <2>4. ASSUME NEW d \in dumps'
        PROVE  /\ d.at \in made' /\ d.name = Local[d.at] /\ d.content <= content'
               /\ \A e \in dumps' : e.name = d.name => e = d
    BY <2>2, <2>3 DEF Backups!DumpsNamed
  <2> QED  BY <2>4 DEF Backups!DumpsNamed
<1>5. ASSUME NEW r \in Users, Backups!Rotate(r) PROVE Backups!DumpsNamed'
  <2>1. dumps' \subseteq dumps /\ made' = made /\ content' = content
    BY <1>5, BackupRotationOnlyDeletes DEF Backups!Rotate
  <2> QED  BY <2>1 DEF Backups!DumpsNamed
<1> QED
  BY <1>1, <1>3, <1>4, <1>5
  DEF Backups!Next, Backups!Reset, Backups!Tick, Backups!Start, Backups!TakeDump,
      Backups!SaveState, Backups!Stop, Backups!vars

\* What a step does to the runs.
LEMMA BackupOtherRuns ==
  ASSUME Backups!TypeOK, NEW r \in Users, NEW x, run' = [run EXCEPT ![r] = x]
  PROVE  /\ run'[r] = x
         /\ \A q \in Users : q # r => run'[q] = run[q]
  BY DEF Backups!TypeOK

LEMMA BackupRunDumped ==
  ASSUME Backups!TypeOK, NEW r \in Users, Backups!TakeDump(r)
  PROVE  /\ run'[r].step = "dumped" /\ run'[r].counter = run[r].counter
         /\ run'[r].part = [name |-> Local[now], content |-> content, at |-> now]
         /\ run'[r].part.at = now /\ run'[r].part.content = content
         /\ \A q \in Users : q # r => run'[q] = run[q]
         /\ Backups!Working(r)
<1>1. Backups!Working(r) /\ run[r] \in WorkingRun
  BY BackupRunTypes DEF Backups!TakeDump
<1>2. run' = [run EXCEPT ![r] = [run[r] EXCEPT !.step = "dumped",
                 !.part = [name |-> Local[now], content |-> content, at |-> now]]]
  BY DEF Backups!TakeDump, Backups!TypeOK
<1>3. /\ run'[r] = [run[r] EXCEPT !.step = "dumped",
                 !.part = [name |-> Local[now], content |-> content, at |-> now]]
      /\ \A q \in Users : q # r => run'[q] = run[q]
  BY <1>2, BackupOtherRuns
<1> QED  BY <1>1, <1>3 DEF WorkingRun

LEMMA BackupRunAfter ==
  ASSUME Backups!TypeOK, NEW r \in Users
  PROVE  /\ Backups!TakeDump(r)
              => /\ run'[r].step = "dumped" /\ run'[r].counter = run[r].counter
                           /\ run'[r].part = [name |-> Local[now], content |-> content, at |-> now]
                           /\ \A q \in Users : q # r => run'[q] = run[q]
                           /\ Backups!Working(r)
         /\ \A k \in {"renamed", "saved"} : Backups!Working(r) /\ Backups!To(r, k) =>
              /\ run'[r].step = k /\ run'[r].counter = run[r].counter
              /\ run'[r].part = run[r].part
              /\ \A q \in Users : q # r => run'[q] = run[q]
<1>1. ASSUME Backups!TakeDump(r)
      PROVE  /\ run'[r].step = "dumped" /\ run'[r].counter = run[r].counter
             /\ run'[r].part = [name |-> Local[now], content |-> content, at |-> now]
             /\ \A q \in Users : q # r => run'[q] = run[q]
             /\ Backups!Working(r)
  BY <1>1, BackupRunDumped
<1>2. ASSUME NEW k \in {"renamed", "saved"}, Backups!Working(r), Backups!To(r, k)
      PROVE  /\ run'[r].step = k /\ run'[r].counter = run[r].counter
             /\ run'[r].part = run[r].part
             /\ \A q \in Users : q # r => run'[q] = run[q]
  <2>1. run[r] \in WorkingRun  BY <1>2, BackupRunTypes
  <2>2. run' = [run EXCEPT ![r] = [run[r] EXCEPT !.step = k]]
    BY <1>2 DEF Backups!To, Backups!TypeOK
  <2>3. run'[r] = [run[r] EXCEPT !.step = k] /\ \A q \in Users : q # r => run'[q] = run[q]
    BY <2>2, BackupOtherRuns
  <2> QED  BY <2>1, <2>3 DEF WorkingRun
<1> QED  BY <1>1, <1>2

\* What is asked of the dump of a run, and of it once it has its name.
NamedBy(dump, c, n) == /\ dump \in Backups!Dump /\ dump.name = Local[dump.at]
                       /\ dump.at <= n /\ dump.content <= c

LEMMA BackupPartsAre ==
  Backups!PartsNamed <=> /\ \A m \in made : m <= now
                         /\ \A r \in Users : Backups!Dumped(r) => NamedBy(run[r].part, content, now)
                         /\ \A r \in Users : Backups!Dumped(r) /\ Backups!Finished(r)
                                 => run[r].part.at \in made
  BY DEF Backups!PartsNamed, NamedBy

LEMMA BackupPartsAreAfter ==
  ASSUME \A m \in made' : m <= now',
         \A r \in Users : Backups!Dumped(r)' => NamedBy(run'[r].part, content', now'),
         \A r \in Users : Backups!Dumped(r)' /\ Backups!Finished(r)'
           => run'[r].part.at \in made'
  PROVE  Backups!PartsNamed'
  BY DEF Backups!PartsNamed, NamedBy

LEMMA BackupNamedIsNumbers ==
  ASSUME Backups!BackupAssumptions, Backups!TypeOK, NEW dump \in Backups!Dump
  PROVE  dump.at \in Nat /\ dump.content \in Nat /\ dump.name \in Nat
           /\ dump.at \in Backups!Moments
<1>1. dump.at \in Backups!Moments /\ dump.content \in 0..MaxChanges
        /\ dump.name \in Backups!Names
  BY DEF Backups!Dump
<1>2. dump.at \in Nat /\ dump.name \in Nat  BY <1>1, BackupMomentTypes DEF Backups!Names
<1> QED  BY <1>1, <1>2 DEF Backups!BackupAssumptions

LEMMA BackupNumbersNow ==
  ASSUME Backups!BackupAssumptions, Backups!TypeOK
  PROVE  /\ now \in Nat /\ content \in Nat /\ changed \in Nat /\ IsFiniteSet(made)
         /\ \A m \in made : m \in Nat
<1>1. now \in Nat /\ IsFiniteSet(made) /\ \A m \in made : m \in Nat
  BY BackupMomentTypes, FS_Subset DEF Backups!TypeOK
<1> QED  BY <1>1 DEF Backups!TypeOK, Backups!BackupAssumptions

\* A step that moves no run and makes no dump.
LEMMA BackupPartsLater ==
  ASSUME Backups!BackupAssumptions, Backups!TypeOK, Backups!PartsNamed,
         UNCHANGED <<run, made>>,
         now' \in Nat, now' >= now, content' \in Nat, content' >= content
  PROVE  Backups!PartsNamed'
<1>1. \A m \in made' : m <= now'
  <2>1. \A m \in made : m \in Nat /\ m <= now  BY BackupNumbersNow, BackupPartsAre
  <2> QED  BY <2>1, BackupNumbersNow
<1>2. \A r \in Users : (Backups!Dumped(r)' <=> Backups!Dumped(r))
        /\ (Backups!Finished(r)' <=> Backups!Finished(r))
  BY DEF Backups!Dumped, Backups!Finished
<1>3. ASSUME NEW r \in Users, Backups!Dumped(r)'
      PROVE  NamedBy(run'[r].part, content', now')
  <2> DEFINE dump == run[r].part
  <2>1. NamedBy(dump, content, now)  BY <1>2, <1>3, BackupPartsAre
  <2>2. dump \in Backups!Dump /\ dump.name = Local[dump.at] /\ dump.at <= now
          /\ dump.content <= content
    BY <2>1 DEF NamedBy
  <2>3. dump.at \in Nat /\ dump.content \in Nat /\ now \in Nat /\ content \in Nat
    BY <2>2, BackupNamedIsNumbers, BackupNumbersNow
  <2>4. run'[r].part = dump  OBVIOUS
  <2> HIDE DEF dump
  <2>5. dump.at <= now'  BY <2>2, <2>3
  <2>6. dump.content <= content'  BY <2>2, <2>3
  <2> QED  BY <2>2, <2>4, <2>5, <2>6 DEF NamedBy
<1>4. \A r \in Users : Backups!Dumped(r)' /\ Backups!Finished(r)'
        => run'[r].part.at \in made'
  BY <1>2, BackupPartsAre
<1> QED  BY <1>1, <1>3, <1>4, BackupPartsAreAfter

\* A step of one run.
LEMMA BackupPartsOfOne ==
  ASSUME Backups!PartsNamed, UNCHANGED <<now, content>>, NEW r \in Users,
         made \subseteq made',
         \A q \in Users : q # r => run'[q] = run[q],
         \A m \in made' : m <= now,
         Backups!Dumped(r)' => NamedBy(run'[r].part, content, now),
         Backups!Dumped(r)' /\ Backups!Finished(r)' => run'[r].part.at \in made'
  PROVE  Backups!PartsNamed'
<1>1. \A m \in made' : m <= now'  OBVIOUS
<1>2. \A q \in Users : q # r
        => (Backups!Dumped(q)' <=> Backups!Dumped(q))
          /\ (Backups!Finished(q)' <=> Backups!Finished(q))
  BY DEF Backups!Dumped, Backups!Finished
<1>3. \A q \in Users : Backups!Dumped(q)' => NamedBy(run'[q].part, content', now')
  BY <1>2, BackupPartsAre
<1>4. \A q \in Users : Backups!Dumped(q)' /\ Backups!Finished(q)'
        => run'[q].part.at \in made'
  BY <1>2, BackupPartsAre
<1> QED  BY <1>1, <1>3, <1>4, BackupPartsAreAfter

LEMMA BackupStepParts ==
  Backups!BackupAssumptions /\ Backups!TypeOK /\ Backups!PartsNamed
    /\ [Backups!Next]_(Backups!vars) => Backups!PartsNamed'
<1> SUFFICES ASSUME Backups!BackupAssumptions, Backups!TypeOK, Backups!PartsNamed,
                    [Backups!Next]_(Backups!vars)
             PROVE  Backups!PartsNamed'
  OBVIOUS
<1>0. now \in Nat /\ content \in Nat /\ \A m \in made : m <= now
  BY BackupNumbersNow, BackupPartsAre
<1>1. CASE Backups!Change
  <2>1. content' \in Nat /\ content' >= content  BY <1>0, <1>1 DEF Backups!Change
  <2> QED  BY <1>0, <1>1, <2>1, BackupPartsLater DEF Backups!Change
<1>2. CASE Backups!Reset
  BY <1>0, <1>2, BackupPartsLater DEF Backups!Reset
<1>3. CASE Backups!Tick
  <2>1. now' \in Nat /\ now' >= now  BY <1>0, <1>3 DEF Backups!Tick
  <2> QED  BY <1>0, <1>3, <2>1, BackupPartsLater DEF Backups!Tick
<1>4. ASSUME NEW r \in Users, NEW x, run' = [run EXCEPT ![r] = x],
             x.step \notin {"dumped", "renamed", "saved"}, UNCHANGED <<made, now, content>>
      PROVE  Backups!PartsNamed'
  <2>1. run'[r] = x /\ \A q \in Users : q # r => run'[q] = run[q]
    BY <1>4, BackupOtherRuns
  <2>2. ~ Backups!Dumped(r)'  BY <1>4, <2>1 DEF Backups!Dumped
  <2> QED  BY <1>0, <1>4, <2>1, <2>2, BackupPartsOfOne
<1>5. ASSUME NEW r \in Users, NEW force \in BOOLEAN, Backups!Start(r, force)
      PROVE  Backups!PartsNamed'
  BY <1>4, <1>5 DEF Backups!Start
<1>6. ASSUME NEW r \in Users, Backups!TakeDump(r) PROVE Backups!PartsNamed'
  <2> DEFINE dump == [name |-> Local[now], content |-> content, at |-> now]
  <2>1. /\ run'[r].step = "dumped" /\ run'[r].part = dump
        /\ \A q \in Users : q # r => run'[q] = run[q]
    BY <1>6, BackupRunAfter
  <2>2. dump \in Backups!Dump  BY DEF Backups!Dump, Backups!Names, Backups!TypeOK
  <2>3. ~ Backups!Finished(r)'  BY <2>1 DEF Backups!Finished
  <2>4. NamedBy(dump, content, now)  BY <1>0, <2>2 DEF NamedBy
  <2> HIDE DEF dump
  <2>5. UNCHANGED <<now, content, made>>  BY <1>6 DEF Backups!TakeDump
  <2> QED  BY <1>0, <2>1, <2>3, <2>4, <2>5, BackupPartsOfOne
<1>7. ASSUME NEW r \in Users, Backups!Rename(r) PROVE Backups!PartsNamed'
  <2>1. Backups!Working(r) /\ Backups!Dumped(r)
    BY <1>7, BackupRunTypes DEF Backups!Rename, Backups!Dumped
  <2>2. /\ run'[r].part = run[r].part /\ \A q \in Users : q # r => run'[q] = run[q]
    BY <1>7, <2>1, BackupRunAfter DEF Backups!Rename
  <2>3. made' = made \cup {run[r].part.at} /\ UNCHANGED <<now, content>>
    BY <1>7 DEF Backups!Rename
  <2>4. NamedBy(run[r].part, content, now)  BY <2>1, BackupPartsAre
  <2>5. \A m \in made' : m <= now  BY <1>0, <2>3, <2>4 DEF NamedBy
  <2>6. run'[r].part.at \in made' /\ made \subseteq made'  BY <2>2, <2>3
  <2>7. NamedBy(run'[r].part, content, now)  BY <2>2, <2>4
  <2> QED  BY <2>2, <2>3, <2>5, <2>6, <2>7, BackupPartsOfOne
<1>8. ASSUME NEW r \in Users, Backups!SaveState(r) PROVE Backups!PartsNamed'
  <2>1. Backups!Working(r) /\ Backups!Dumped(r) /\ Backups!Finished(r)
    BY <1>8, BackupRunTypes DEF Backups!SaveState, Backups!Dumped, Backups!Finished
  <2>2. /\ run'[r].part = run[r].part /\ \A q \in Users : q # r => run'[q] = run[q]
    BY <1>8, <2>1, BackupRunAfter DEF Backups!SaveState
  <2>3. NamedBy(run'[r].part, content, now) /\ run'[r].part.at \in made
    BY <2>1, <2>2, BackupPartsAre
  <2>4. UNCHANGED <<now, content, made>>  BY <1>8 DEF Backups!SaveState
  <2> QED  BY <1>0, <2>2, <2>3, <2>4, BackupPartsOfOne
<1>9. ASSUME NEW r \in Users, Backups!Rotate(r) PROVE Backups!PartsNamed'
  BY <1>4, <1>9 DEF Backups!Rotate, Backups!Idle
<1>10. ASSUME NEW r \in Users, Backups!Stop(r) PROVE Backups!PartsNamed'
  BY <1>4, <1>10 DEF Backups!Stop, Backups!Idle
<1>11. CASE UNCHANGED Backups!vars
  BY <1>0, <1>11, BackupPartsLater DEF Backups!vars
<1> QED
  BY <1>1, <1>2, <1>3, <1>5, <1>6, <1>7, <1>8, <1>9, <1>10, <1>11 DEF Backups!Next

\* A run that has just begun.
Counted == [step |-> "counted", counter |-> changed, part |-> Backups!NoDump]

LEMMA BackupAloneIs ==
  ASSUME Backups!Alone, ~ together, NEW r \in Users, Backups!Working(r)
  PROVE  /\ \A q \in Users : Backups!Working(q) => q = r
         /\ Backups!Dumped(r) => \A m \in made : m <= run[r].part.at
         /\ Backups!Finished(r) => run[r].part \in dumps
  BY DEF Backups!Alone

LEMMA BackupAloneAfter ==
  ASSUME ~ together' => \A r \in Users : Backups!Working(r)' =>
             /\ \A q \in Users : Backups!Working(q)' => q = r
             /\ Backups!Dumped(r)' => \A m \in made' : m <= run'[r].part.at
             /\ Backups!Finished(r)' => run'[r].part \in dumps'
  PROVE  Backups!Alone'
  BY DEF Backups!Alone

\* A step of a run that is under way.
LEMMA BackupAloneOfOne ==
  ASSUME Backups!Alone, NEW r \in Users, Backups!Working(r), together' = together,
         \A q \in Users : q # r => run'[q] = run[q],
         ~ together /\ Backups!Dumped(r)' => \A m \in made' : m <= run'[r].part.at,
         ~ together /\ Backups!Finished(r)' => run'[r].part \in dumps'
  PROVE  Backups!Alone'
<1>1. ASSUME ~ together, NEW p \in Users, Backups!Working(p)' PROVE p = r
  <2>1. CASE p # r
    <3>1. Backups!Working(p)  BY <1>1, <2>1 DEF Backups!Working
    <3> QED  BY <1>1, <3>1, BackupAloneIs
  <2> QED  BY <2>1
<1> QED  BY <1>1, BackupAloneAfter

LEMMA BackupStepAlone ==
  Backups!BackupAssumptions /\ Backups!TypeOK /\ Backups!Alone /\ Backups!PartsNamed
    /\ [Backups!Next]_(Backups!vars) => Backups!Alone'
<1> SUFFICES ASSUME Backups!BackupAssumptions, Backups!TypeOK, Backups!Alone,
                    Backups!PartsNamed, [Backups!Next]_(Backups!vars)
             PROVE  Backups!Alone'
  OBVIOUS
<1>1. ASSUME UNCHANGED <<run, made, dumps, together>> PROVE Backups!Alone'
  <2>1. \A r \in Users : /\ Backups!Working(r)' <=> Backups!Working(r)
                         /\ Backups!Dumped(r)' <=> Backups!Dumped(r)
                         /\ Backups!Finished(r)' <=> Backups!Finished(r)
    <3> SUFFICES ASSUME NEW r \in Users
                 PROVE  /\ Backups!Working(r)' <=> Backups!Working(r)
                        /\ Backups!Dumped(r)' <=> Backups!Dumped(r)
                        /\ Backups!Finished(r)' <=> Backups!Finished(r)
      OBVIOUS
    <3>1. run'[r] = run[r]  BY <1>1
    <3>2. Backups!Working(r)' <=> Backups!Working(r)  BY <3>1 DEF Backups!Working
    <3>3. Backups!Dumped(r)' <=> Backups!Dumped(r)  BY <3>1 DEF Backups!Dumped
    <3>4. Backups!Finished(r)' <=> Backups!Finished(r)  BY <3>1 DEF Backups!Finished
    <3> QED  BY <3>2, <3>3, <3>4
  <2>2. run' = run /\ made' = made /\ dumps' = dumps /\ together' = together  BY <1>1
  <2>3. ASSUME ~ together', NEW r \in Users, Backups!Working(r)'
        PROVE  /\ \A q \in Users : Backups!Working(q)' => q = r
               /\ Backups!Dumped(r)' => \A m \in made' : m <= run'[r].part.at
               /\ Backups!Finished(r)' => run'[r].part \in dumps'
    <3>1. ~ together /\ Backups!Working(r)  BY <2>1, <2>2, <2>3
    <3>2. /\ \A q \in Users : Backups!Working(q) => q = r
          /\ Backups!Dumped(r) => \A m \in made : m <= run[r].part.at
          /\ Backups!Finished(r) => run[r].part \in dumps
      BY <3>1, BackupAloneIs
    <3> QED  BY <2>1, <2>2, <3>2
  <2> QED  BY <2>3, BackupAloneAfter
<1>2. CASE Backups!Change \/ Backups!Reset \/ Backups!Tick
  BY <1>1, <1>2 DEF Backups!Change, Backups!Reset, Backups!Tick
<1>3. ASSUME NEW r \in Users, NEW force \in BOOLEAN, Backups!Start(r, force)
      PROVE  Backups!Alone'
  <2>0. run' = [run EXCEPT ![r] = Counted]  BY <1>3 DEF Backups!Start, Counted
  <2>1. /\ run'[r].step = "counted" /\ \A q \in Users : q # r => run'[q] = run[q]
    <3>1. run'[r] = Counted /\ \A q \in Users : q # r => run'[q] = run[q]
      BY <2>0, BackupOtherRuns
    <3> QED  BY <3>1 DEF Counted
  <2>2. ~ together' => \A q \in Users : ~ Backups!Working(q)  BY <1>3 DEF Backups!Start
  <2>3. ~ together' => \A q \in Users : Backups!Working(q)' => q = r
    BY <2>1, <2>2 DEF Backups!Working
  <2>4. ~ Backups!Dumped(r)' /\ ~ Backups!Finished(r)'
    BY <2>1 DEF Backups!Dumped, Backups!Finished
  <2> QED  BY <2>3, <2>4, BackupAloneAfter
<1>4. ASSUME NEW r \in Users, Backups!TakeDump(r) PROVE Backups!Alone'
  <2>1. /\ run'[r].step = "dumped" /\ run'[r].part.at = now /\ Backups!Working(r)
        /\ \A q \in Users : q # r => run'[q] = run[q]
    BY <1>4, BackupRunDumped
  <2>2. ~ Backups!Finished(r)'  BY <2>1 DEF Backups!Finished
  <2>3. UNCHANGED <<made, together>>  BY <1>4 DEF Backups!TakeDump
  <2>4. \A m \in made' : m <= run'[r].part.at  BY <2>1, <2>3, BackupPartsAre
  <2> QED  BY <2>1, <2>2, <2>3, <2>4, BackupAloneOfOne
<1>5. ASSUME NEW r \in Users, Backups!Rename(r) PROVE Backups!Alone'
  <2>1. Backups!Working(r) /\ Backups!Dumped(r)
    BY <1>5, BackupRunTypes DEF Backups!Rename, Backups!Dumped
  <2>2. /\ run'[r].part = run[r].part /\ \A q \in Users : q # r => run'[q] = run[q]
    BY <1>5, <2>1, BackupRunAfter DEF Backups!Rename
  <2>3. /\ made' = made \cup {run[r].part.at} /\ together' = together
        /\ run[r].part \in dumps'
    BY <1>5 DEF Backups!Rename
  <2>4. ~ together => \A m \in made : m <= run[r].part.at  BY <2>1, BackupAloneIs
  <2>5. run[r].part.at <= run[r].part.at
    <3>1. run[r].part.at \in Int
      <4>1. run[r].part \in Backups!Dump  BY <2>1, BackupPartsAre DEF NamedBy
      <4> QED  BY <4>1, BackupNamedIsNumbers
    <3> QED  BY <3>1
  <2> QED  BY <2>1, <2>2, <2>3, <2>4, <2>5, BackupAloneOfOne
<1>6. ASSUME NEW r \in Users, Backups!SaveState(r) PROVE Backups!Alone'
  <2>1. Backups!Working(r) /\ Backups!Dumped(r) /\ Backups!Finished(r)
    BY <1>6, BackupRunTypes DEF Backups!SaveState, Backups!Dumped, Backups!Finished
  <2>2. /\ run'[r].part = run[r].part /\ \A q \in Users : q # r => run'[q] = run[q]
    BY <1>6, <2>1, BackupRunAfter DEF Backups!SaveState
  <2>3. UNCHANGED <<made, together, dumps>>  BY <1>6 DEF Backups!SaveState
  <2> QED  BY <2>1, <2>2, <2>3, BackupAloneIs, BackupAloneOfOne
<1>7. ASSUME NEW r \in Users, Backups!Working(r), run' = [run EXCEPT ![r] = Backups!Idle],
             together' = together
      PROVE  Backups!Alone'
  <2>1. run'[r] = Backups!Idle /\ \A q \in Users : q # r => run'[q] = run[q]
    BY <1>7, BackupOtherRuns
  <2>2. ~ Backups!Dumped(r)' /\ ~ Backups!Finished(r)'
    BY <2>1 DEF Backups!Dumped, Backups!Finished, Backups!Idle
  <2> QED  BY <1>7, <2>1, <2>2, BackupAloneOfOne
<1>8. ASSUME NEW r \in Users, Backups!Rotate(r) PROVE Backups!Alone'
  <2>1. Backups!Working(r)  BY <1>8, BackupRunTypes DEF Backups!Rotate
  <2> QED  BY <1>7, <1>8, <2>1 DEF Backups!Rotate
<1>9. ASSUME NEW r \in Users, Backups!Stop(r) PROVE Backups!Alone'
  BY <1>7, <1>9 DEF Backups!Stop
<1>10. CASE UNCHANGED Backups!vars
  BY <1>1, <1>10 DEF Backups!vars
<1> QED  BY <1>2, <1>3, <1>4, <1>5, <1>6, <1>8, <1>9, <1>10 DEF Backups!Next

LEMMA BackupCountersAre ==
  ASSUME Backups!CountersPast, ~ reset
  PROVE  /\ changed = content
         /\ state # Nothing => state.counter <= changed
         /\ \A r \in Users : Backups!Working(r) => run[r].counter <= changed
         /\ \A r \in Users : Backups!Working(r) /\ Backups!Dumped(r)
              => run[r].counter <= run[r].part.content
  BY DEF Backups!CountersPast

LEMMA BackupCountersAfter ==
  ASSUME changed' <= content',
         ~ reset' => /\ changed' = content'
                     /\ state' # Nothing => state'.counter <= changed'
                     /\ \A r \in Users : Backups!Working(r)' => run'[r].counter <= changed'
                     /\ \A r \in Users : Backups!Working(r)' /\ Backups!Dumped(r)' =>
                            run'[r].counter <= run'[r].part.content
  PROVE  Backups!CountersPast'
  BY DEF Backups!CountersPast

\* A step of one run.
LEMMA BackupCountersOfOne ==
  ASSUME Backups!CountersPast, UNCHANGED <<content, changed, reset>>, NEW r \in Users,
         \A q \in Users : q # r => run'[q] = run[q],
         ~ reset /\ state' # Nothing => state'.counter <= changed,
         ~ reset /\ Backups!Working(r)' => run'[r].counter <= changed,
         ~ reset /\ Backups!Working(r)' /\ Backups!Dumped(r)'
           => run'[r].counter <= run'[r].part.content
  PROVE  Backups!CountersPast'
<1>1. \A q \in Users : q # r
        => (Backups!Working(q)' <=> Backups!Working(q))
          /\ (Backups!Dumped(q)' <=> Backups!Dumped(q))
  BY DEF Backups!Working, Backups!Dumped
<1>2. changed' <= content'  BY DEF Backups!CountersPast
<1> QED  BY <1>1, <1>2, BackupCountersAre, BackupCountersAfter

LEMMA BackupCounterNumbers ==
  ASSUME Backups!BackupAssumptions, Backups!TypeOK
  PROVE  /\ state # Nothing => state.counter \in Nat
         /\ \A r \in Users : Backups!Working(r) => run[r].counter \in Nat
<1>1. \A r \in Users : Backups!Working(r) => run[r].counter \in 0..MaxChanges
  BY BackupRunTypes DEF WorkingRun
<1>2. state # Nothing => state.counter \in 0..MaxChanges
  BY DEF Backups!TypeOK, Backups!State
<1> QED  BY <1>1, <1>2 DEF Backups!BackupAssumptions

LEMMA BackupStepCounters ==
  Backups!BackupAssumptions /\ Backups!TypeOK /\ Backups!CountersPast
    /\ [Backups!Next]_(Backups!vars) => Backups!CountersPast'
<1> SUFFICES ASSUME Backups!BackupAssumptions, Backups!TypeOK, Backups!CountersPast,
                    [Backups!Next]_(Backups!vars)
             PROVE  Backups!CountersPast'
  OBVIOUS
<1>0. changed \in Nat /\ content \in Nat /\ changed <= content
  BY BackupNumbersNow DEF Backups!CountersPast
<1>1. ASSUME UNCHANGED <<run, state, content, changed, reset>> PROVE Backups!CountersPast'
  <2>1. \A r \in Users : (Backups!Working(r)' <=> Backups!Working(r))
          /\ (Backups!Dumped(r)' <=> Backups!Dumped(r))
    BY <1>1 DEF Backups!Working, Backups!Dumped
  <2> QED  BY <1>0, <1>1, <2>1, BackupCountersAre, BackupCountersAfter
<1>2. CASE Backups!Change
  <2>1. UNCHANGED <<run, state, reset>> /\ content' = content + 1 /\ changed' = changed + 1
    BY <1>2 DEF Backups!Change
  <2>2. changed' <= content' /\ (changed = content => changed' = content')
    BY <1>0, <2>1
  <2>3. \A n \in Nat : n <= changed => n <= changed'  BY <1>0, <2>1
  <2>4. \A r \in Users : (Backups!Working(r)' <=> Backups!Working(r))
          /\ (Backups!Dumped(r)' <=> Backups!Dumped(r))
    BY <2>1 DEF Backups!Working, Backups!Dumped
  <2>5. ~ reset => /\ state # Nothing => state.counter <= changed'
                   /\ \A r \in Users : Backups!Working(r) => run[r].counter <= changed'
    BY <2>3, BackupCountersAre, BackupCounterNumbers
  <2> QED  BY <2>1, <2>2, <2>4, <2>5, BackupCountersAre, BackupCountersAfter
<1>3. CASE Backups!Reset
  <2>1. changed' <= content' /\ reset'  BY <1>0, <1>3 DEF Backups!Reset
  <2> QED  BY <2>1, BackupCountersAfter
<1>4. CASE Backups!Tick
  BY <1>1, <1>4 DEF Backups!Tick
<1>5. ASSUME NEW r \in Users, NEW force \in BOOLEAN, Backups!Start(r, force)
      PROVE  Backups!CountersPast'
  <2>0. run' = [run EXCEPT ![r] = Counted]  BY <1>5 DEF Backups!Start, Counted
  <2>1. /\ run'[r].step = "counted" /\ run'[r].counter = changed
        /\ \A q \in Users : q # r => run'[q] = run[q]
    <3>1. run'[r] = Counted /\ \A q \in Users : q # r => run'[q] = run[q]
      BY <2>0, BackupOtherRuns
    <3> QED  BY <3>1 DEF Counted
  <2>2. ~ Backups!Dumped(r)'  BY <2>1 DEF Backups!Dumped
  <2>3. run'[r].counter <= changed  BY <1>0, <2>1
  <2>4. UNCHANGED <<content, changed, reset, state>>  BY <1>5 DEF Backups!Start
  <2>5. ~ reset /\ state' # Nothing => state'.counter <= changed
    BY <2>4, BackupCountersAre
  <2> QED  BY <2>1, <2>2, <2>3, <2>4, <2>5, BackupCountersOfOne
<1>6. ASSUME NEW r \in Users, Backups!TakeDump(r) PROVE Backups!CountersPast'
  <2>1. /\ run'[r].counter = run[r].counter /\ run'[r].part.content = content
             /\ Backups!Working(r)
        /\ \A q \in Users : q # r => run'[q] = run[q]
    BY <1>6, BackupRunDumped
  <2>2. ~ reset => run'[r].counter <= changed /\ run'[r].counter <= run'[r].part.content
    BY <2>1, BackupCountersAre
  <2>3. UNCHANGED <<content, changed, reset, state>>  BY <1>6 DEF Backups!TakeDump
  <2>4. ~ reset /\ state' # Nothing => state'.counter <= changed
    BY <2>3, BackupCountersAre
  <2> QED  BY <2>1, <2>2, <2>3, <2>4, BackupCountersOfOne
<1>7. ASSUME NEW r \in Users, Backups!Rename(r) \/ Backups!SaveState(r)
      PROVE  Backups!CountersPast'
  <2>1. Backups!Working(r) /\ Backups!Dumped(r)
    BY <1>7, BackupRunTypes DEF Backups!Rename, Backups!SaveState, Backups!Dumped
  <2>2. /\ run'[r].part = run[r].part /\ run'[r].counter = run[r].counter
        /\ \A q \in Users : q # r => run'[q] = run[q]
    BY <1>7, <2>1, BackupRunAfter DEF Backups!Rename, Backups!SaveState
  <2>3. UNCHANGED <<content, changed, reset>>
    BY <1>7 DEF Backups!Rename, Backups!SaveState
  <2>4. state' = state \/ state'.counter = run[r].counter
    BY <1>7 DEF Backups!Rename, Backups!SaveState, Backups!CounterSeen
  <2>5. ~ reset => run[r].counter <= changed /\ run[r].counter <= run[r].part.content
    BY <2>1, BackupCountersAre
  <2>6. ~ reset /\ state' # Nothing => state'.counter <= changed
    BY <2>4, <2>5, BackupCountersAre
  <2> QED  BY <2>2, <2>3, <2>5, <2>6, BackupCountersOfOne
<1>8. ASSUME NEW r \in Users, Backups!Rotate(r) \/ Backups!Stop(r)
      PROVE  Backups!CountersPast'
  <2>1. run'[r] = Backups!Idle /\ \A q \in Users : q # r => run'[q] = run[q]
    BY <1>8, BackupOtherRuns DEF Backups!Rotate, Backups!Stop
  <2>2. ~ Backups!Working(r)'  BY <2>1 DEF Backups!Working
  <2>3. UNCHANGED <<content, changed, reset, state>>
    BY <1>8 DEF Backups!Rotate, Backups!Stop
  <2>4. ~ reset /\ state' # Nothing => state'.counter <= changed
    BY <2>3, BackupCountersAre
  <2> QED  BY <2>1, <2>2, <2>3, <2>4, BackupCountersOfOne
<1>9. CASE UNCHANGED Backups!vars
  BY <1>1, <1>9 DEF Backups!vars
<1> QED  BY <1>2, <1>3, <1>4, <1>5, <1>6, <1>7, <1>8, <1>9 DEF Backups!Next

LEMMA BackupStateAfter ==
  ASSUME ~ reset' /\ ~ together' /\ state' # Nothing
    => \A r \in Users : Backups!Working(r)' =>
             /\ state'.counter <= run'[r].counter
             /\ run'[r].step = "saved" => state'.file = run'[r].part.name
  PROVE  Backups!StateOlder'
  BY DEF Backups!StateOlder

LEMMA BackupStateIs ==
  ASSUME Backups!StateOlder, ~ reset, ~ together, state # Nothing, NEW r \in Users,
         Backups!Working(r)
  PROVE  /\ state.counter <= run[r].counter
         /\ run[r].step = "saved" => state.file = run[r].part.name
  BY DEF Backups!StateOlder

\* A step of one run that leaves the state file.
LEMMA BackupStateOfOne ==
  ASSUME Backups!StateOlder, UNCHANGED <<state, reset>>, NEW r \in Users,
         together => together',
         \A q \in Users : q # r => run'[q] = run[q],
         ~ reset /\ ~ together' /\ state # Nothing /\ Backups!Working(r)' =>
             /\ state.counter <= run'[r].counter /\ run'[r].step # "saved"
  PROVE  Backups!StateOlder'
<1>1. \A q \in Users : q # r => (Backups!Working(q)' <=> Backups!Working(q))
  BY DEF Backups!Working
<1> QED  BY <1>1, BackupStateIs, BackupStateAfter

LEMMA BackupStepState ==
  Backups!BackupAssumptions /\ Backups!TypeOK /\ Backups!Alone /\ Backups!CountersPast
    /\ Backups!StateOlder /\ [Backups!Next]_(Backups!vars) => Backups!StateOlder'
<1> SUFFICES ASSUME Backups!BackupAssumptions, Backups!TypeOK, Backups!Alone,
                    Backups!CountersPast, Backups!StateOlder, [Backups!Next]_(Backups!vars)
             PROVE  Backups!StateOlder'
  OBVIOUS
<1>1. ASSUME UNCHANGED <<run, state, reset, together>> PROVE Backups!StateOlder'
  <2>1. \A r \in Users : Backups!Working(r)' <=> Backups!Working(r)
    BY <1>1 DEF Backups!Working
  <2> QED  BY <1>1, <2>1, BackupStateIs, BackupStateAfter
<1>2. CASE Backups!Change \/ Backups!Tick
  BY <1>1, <1>2 DEF Backups!Change, Backups!Tick
<1>3. CASE Backups!Reset
  BY <1>3, BackupStateAfter DEF Backups!Reset
<1>4. ASSUME NEW r \in Users, NEW force \in BOOLEAN, Backups!Start(r, force)
      PROVE  Backups!StateOlder'
  <2>0. run' = [run EXCEPT ![r] = Counted]  BY <1>4 DEF Backups!Start, Counted
  <2>1. /\ run'[r].step = "counted" /\ run'[r].counter = changed
        /\ \A q \in Users : q # r => run'[q] = run[q]
    <3>1. run'[r] = Counted /\ \A q \in Users : q # r => run'[q] = run[q]
      BY <2>0, BackupOtherRuns
    <3> QED  BY <3>1 DEF Counted
  <2>2. UNCHANGED <<state, reset>> /\ (together => together')  BY <1>4 DEF Backups!Start
  <2>3. ~ reset /\ state # Nothing => state.counter <= changed  BY BackupCountersAre
  <2> QED  BY <2>1, <2>2, <2>3, BackupStateOfOne
<1>5. ASSUME NEW r \in Users, Backups!TakeDump(r) PROVE Backups!StateOlder'
  <2>1. /\ run'[r].step = "dumped" /\ run'[r].counter = run[r].counter /\ Backups!Working(r)
        /\ \A q \in Users : q # r => run'[q] = run[q]
    BY <1>5, BackupRunDumped
  <2>2. UNCHANGED <<state, reset, together>>  BY <1>5 DEF Backups!TakeDump
  <2>3. ~ reset /\ ~ together /\ state # Nothing => state.counter <= run'[r].counter
    BY <2>1, BackupStateIs
  <2> QED  BY <2>1, <2>2, <2>3, BackupStateOfOne
<1>6. ASSUME NEW r \in Users, Backups!Rename(r) PROVE Backups!StateOlder'
  <2>1. Backups!Working(r)  BY <1>6, BackupRunTypes DEF Backups!Rename
  <2>2. /\ run'[r].step = "renamed" /\ run'[r].counter = run[r].counter
        /\ \A q \in Users : q # r => run'[q] = run[q]
    BY <1>6, <2>1, BackupRunAfter DEF Backups!Rename
  <2>3. UNCHANGED <<state, reset, together>>  BY <1>6 DEF Backups!Rename
  <2>4. ~ reset /\ ~ together /\ state # Nothing => state.counter <= run'[r].counter
    BY <2>1, <2>2, BackupStateIs
  <2> QED  BY <2>2, <2>3, <2>4, BackupStateOfOne
<1>7. ASSUME NEW r \in Users, Backups!SaveState(r) PROVE Backups!StateOlder'
  <2>1. Backups!Working(r)  BY <1>7, BackupRunTypes DEF Backups!SaveState
  <2>2. /\ run'[r].counter = run[r].counter /\ run'[r].part = run[r].part
        /\ \A q \in Users : q # r => run'[q] = run[q]
    BY <1>7, <2>1, BackupRunAfter DEF Backups!SaveState
  <2>3. /\ state'.counter = run[r].counter /\ state'.file = run[r].part.name
        /\ UNCHANGED <<reset, together>>
    BY <1>7 DEF Backups!SaveState, Backups!CounterSeen
  <2>4. run[r].counter <= run[r].counter  BY <2>1, BackupCounterNumbers
  <2>5. ~ together => \A q \in Users : Backups!Working(q)' => q = r
    <3>1. \A q \in Users : q # r /\ Backups!Working(q)' => Backups!Working(q)
      BY <2>2 DEF Backups!Working
    <3> QED  BY <2>1, <3>1, BackupAloneIs
  <2> QED  BY <2>2, <2>3, <2>4, <2>5, BackupStateAfter
<1>8. ASSUME NEW r \in Users, Backups!Rotate(r) \/ Backups!Stop(r) PROVE Backups!StateOlder'
  <2>1. run'[r] = Backups!Idle /\ \A q \in Users : q # r => run'[q] = run[q]
    BY <1>8, BackupOtherRuns DEF Backups!Rotate, Backups!Stop
  <2>2. ~ Backups!Working(r)'  BY <2>1 DEF Backups!Working
  <2>3. UNCHANGED <<state, reset, together>>  BY <1>8 DEF Backups!Rotate, Backups!Stop
  <2> QED  BY <2>1, <2>2, <2>3, BackupStateOfOne
<1>9. CASE UNCHANGED Backups!vars
  BY <1>1, <1>9 DEF Backups!vars
<1> QED  BY <1>2, <1>3, <1>4, <1>5, <1>6, <1>7, <1>8, <1>9 DEF Backups!Next

\* The file the state names.
Kept(d) == d.name = state.file /\ state.counter <= d.content

LEMMA BackupStepFile ==
  Backups!BackupAssumptions /\ Backups!IInv /\ [Backups!Next]_(Backups!vars)
    => Backups!FileKept'
<1> SUFFICES ASSUME Backups!BackupAssumptions, Backups!IInv, [Backups!Next]_(Backups!vars),
                    ~ reset', ~ together', Backups!InOrder', KeepMin > 0, state' # Nothing
             PROVE  \E d \in dumps' : Kept(d)'
  BY DEF Backups!FileKept, Kept
<1>i. /\ Backups!TypeOK /\ Backups!DumpsNamed /\ Backups!PartsNamed /\ Backups!Alone
           /\ Backups!CountersPast /\ Backups!StateOlder /\ Backups!FileKept
  BY DEF Backups!IInv
<1>0. ASSUME made \subseteq made', UNCHANGED state, ~ reset, ~ together
      PROVE  \E d \in dumps : Kept(d)
  <2>1. Backups!InOrder  BY <1>0 DEF Backups!InOrder
  <2> QED  BY <1>0, <1>i, <2>1 DEF Backups!FileKept, Kept
<1>1. ASSUME UNCHANGED <<dumps, state, made>>, ~ reset, ~ together
      PROVE  \E d \in dumps' : Kept(d)'
  BY <1>0, <1>1 DEF Kept
<1>2. CASE Backups!Change \/ Backups!Reset \/ Backups!Tick
  BY <1>1, <1>2 DEF Backups!Change, Backups!Reset, Backups!Tick
<1>3. ASSUME NEW r \in Users, NEW force \in BOOLEAN, Backups!Start(r, force)
      PROVE  \E d \in dumps' : Kept(d)'
  BY <1>1, <1>3 DEF Backups!Start
<1>4. ASSUME NEW r \in Users, Backups!TakeDump(r) PROVE \E d \in dumps' : Kept(d)'
  BY <1>1, <1>4 DEF Backups!TakeDump
<1>5. ASSUME NEW r \in Users, Backups!Rename(r) PROVE \E d \in dumps' : Kept(d)'
  <2> DEFINE dump == run[r].part
  <2>1. Backups!Working(r) /\ Backups!Dumped(r)
    BY <1>5, <1>i, BackupRunTypes DEF Backups!Rename, Backups!Dumped
  <2>2. /\ dumps' = {d \in dumps : d.name # dump.name} \cup {dump}
        /\ made \subseteq made' /\ UNCHANGED <<state, reset, together>>
    BY <1>5 DEF Backups!Rename
  <2>3. PICK d \in dumps : Kept(d)  BY <1>0, <2>2
  <2>4. CASE d.name # dump.name
    <3>1. d \in dumps' /\ Kept(d)'  BY <2>2, <2>3, <2>4 DEF Kept
    <3> QED  BY <3>1
  <2>5. CASE d.name = dump.name
    <3>1. dump.name = state.file  BY <2>3, <2>5 DEF Kept
    <3>2. state.counter <= run[r].counter  BY <1>i, <2>1, <2>2, BackupStateIs
    <3>3. run[r].counter <= dump.content  BY <1>i, <2>1, <2>2, BackupCountersAre
    <3>4. state.counter \in Nat /\ run[r].counter \in Nat
      BY <1>i, <2>1, <2>2, BackupCounterNumbers
    <3>5. dump.content \in Nat
      <4>1. dump \in Backups!Dump  BY <1>i, <2>1, BackupPartsAre DEF NamedBy
      <4> QED  BY <1>i, <4>1, BackupNamedIsNumbers
    <3> HIDE DEF dump
    <3>6. state.counter <= dump.content  BY <3>2, <3>3, <3>4, <3>5
    <3>7. dump \in dumps'  BY <2>2
    <3>8. \E e \in dumps' : e.name = state'.file /\ state'.counter <= e.content
      BY <2>2, <3>1, <3>6, <3>7
    <3> QED  BY <3>8 DEF Kept
  <2> QED  BY <2>4, <2>5
<1>6. ASSUME NEW r \in Users, Backups!SaveState(r) PROVE \E d \in dumps' : Kept(d)'
  <2> DEFINE dump == run[r].part
  <2>1. Backups!Working(r) /\ Backups!Dumped(r) /\ Backups!Finished(r)
    BY <1>6, <1>i, BackupRunTypes
    DEF Backups!SaveState, Backups!Dumped, Backups!Finished
  <2>2. /\ state'.counter = run[r].counter /\ state'.file = dump.name
        /\ UNCHANGED <<dumps, reset, together>>
    BY <1>6 DEF Backups!SaveState, Backups!CounterSeen
  <2>3. dump \in dumps'  BY <1>i, <2>1, <2>2, BackupAloneIs
  <2>4. run[r].counter <= dump.content  BY <1>i, <2>1, <2>2, BackupCountersAre
  <2>5. \E d \in dumps' : d.name = state'.file /\ state'.counter <= d.content
    BY <2>2, <2>3, <2>4
  <2> QED  BY <2>5 DEF Kept
<1>7. ASSUME NEW r \in Users, Backups!Rotate(r) PROVE \E d \in dumps' : Kept(d)'
  <2> DEFINE dump == run[r].part
             newer == {n \in made : n > dump.at}
  <2>1. Backups!Working(r) /\ Backups!Dumped(r) /\ Backups!Finished(r)
          /\ run[r].step = "saved"
    BY <1>7, <1>i, BackupRunTypes DEF Backups!Rotate, Backups!Dumped, Backups!Finished
  <2>2. dumps' = Backups!Rotated(dumps) /\ UNCHANGED <<state, made, reset, together>>
    BY <1>7 DEF Backups!Rotate
  <2>3. dump \in dumps /\ \A m \in made : m <= dump.at
    BY <1>i, <2>1, <2>2, BackupAloneIs
  <2>4. dump.at \in Nat /\ \A m \in made : m \in Nat
    BY <1>i, <2>3, BackupDumpsFinite, BackupNumbersNow
  <2>5. newer = {}  BY <2>3, <2>4
  <2>6. Cardinality(newer) < KeepMin
    <3>1. Cardinality(newer) = 0  BY <2>5, FS_EmptySet
    <3> QED  BY <3>1
  <2>7. Backups!InOrder  BY <2>2 DEF Backups!InOrder
  <2>8. dump \in dumps'
    <3> HIDE DEF dump
    <3> QED  BY <1>i, <2>2, <2>3, <2>6, <2>7, BackupRotationKeepsNewest DEF newer
  <2>9. dump.name = state.file /\ state.counter <= run[r].counter
    BY <1>i, <2>1, <2>2, BackupStateIs
  <2>10. run[r].counter <= dump.content  BY <1>i, <2>1, <2>2, BackupCountersAre
  <2>11. state.counter \in Nat /\ run[r].counter \in Nat /\ dump.content \in Nat
    BY <1>i, <2>1, <2>2, <2>3, BackupCounterNumbers, BackupDumpsFinite
  <2> HIDE DEF dump, newer
  <2>12. state.counter <= dump.content  BY <2>9, <2>10, <2>11
  <2>13. \E d \in dumps' : d.name = state'.file /\ state'.counter <= d.content
    BY <2>2, <2>8, <2>9, <2>12
  <2> QED  BY <2>13 DEF Kept
<1>8. ASSUME NEW r \in Users, Backups!Stop(r) PROVE \E d \in dumps' : Kept(d)'
  BY <1>1, <1>8 DEF Backups!Stop
<1>9. CASE UNCHANGED Backups!vars
  BY <1>1, <1>9 DEF Backups!vars
<1> QED  BY <1>2, <1>3, <1>4, <1>5, <1>6, <1>7, <1>8, <1>9 DEF Backups!Next

LEMMA BackupStepNewest ==
  Backups!BackupAssumptions /\ Backups!TypeOK /\ Backups!DumpsNamed /\ Backups!PartsNamed
    /\ Backups!NewestKept /\ [Backups!Next]_(Backups!vars)
     => Backups!NewestKept'
<1> SUFFICES ASSUME Backups!BackupAssumptions, Backups!TypeOK, Backups!DumpsNamed,
                    Backups!PartsNamed, Backups!NewestKept, [Backups!Next]_(Backups!vars),
                    Backups!InOrder', NEW m \in made',
                    Cardinality({n \in made' : n > m}) < KeepMin
             PROVE  \E d \in dumps' : d.at = m
  BY BackupCount DEF Backups!NewestKept
<1>1. ASSUME made' = made PROVE \E d \in dumps : d.at = m
  <2>1. Backups!InOrder  BY <1>1 DEF Backups!InOrder
  <2> QED  BY <1>1, <2>1, BackupCount DEF Backups!NewestKept
<1>2. ASSUME UNCHANGED <<dumps, made>> PROVE \E d \in dumps' : d.at = m
  BY <1>1, <1>2
<1>3. ASSUME NEW r \in Users, Backups!Rename(r) PROVE \E d \in dumps' : d.at = m
  <2> DEFINE dump == run[r].part
             newer == {n \in made : n > m}
             after == {n \in made' : n > m}
  <2>1. Backups!Dumped(r)  BY <1>3 DEF Backups!Rename, Backups!Dumped
  <2>2. dump \in Backups!Dump /\ dump.name = Local[dump.at]
    BY <2>1, BackupPartsAre DEF NamedBy
  <2>3. dumps' = {d \in dumps : d.name # dump.name} \cup {dump}
          /\ made' = made \cup {dump.at}
    BY <1>3 DEF Backups!Rename
  <2>4. CASE m = dump.at  BY <2>3, <2>4
  <2>5. CASE m # dump.at
    <3>1. m \in made /\ newer \subseteq after  BY <2>3, <2>5
    <3>2. IsFiniteSet(made')
      <4>1. IsFiniteSet(made)  BY BackupNumbersNow
      <4> QED  BY <2>3, <4>1, FS_AddElement
    <3>3. IsFiniteSet(after) /\ IsFiniteSet(newer)  BY <3>1, <3>2, FS_Subset
    <3>4. Cardinality(after) < KeepMin  OBVIOUS
    <3> HIDE DEF newer, after
    <3>5. /\ Cardinality(newer) <= Cardinality(after) /\ Cardinality(newer) \in Nat
          /\ Cardinality(after) \in Nat /\ KeepMin \in Nat
      BY <3>1, <3>3, FS_Subset, FS_CardinalityType DEF Backups!BackupAssumptions
    <3>6. Cardinality(newer) < KeepMin  BY <3>4, <3>5
    <3>7. Backups!InOrder  BY <2>3 DEF Backups!InOrder
    <3>8. PICK d \in dumps : d.at = m
      BY <3>1, <3>6, <3>7, BackupCount DEF Backups!NewestKept, newer
    <3>9. d.name = Local[m]  BY <3>8, BackupDumpsFinite
    <3>10. m \in Nat /\ dump.at \in Nat /\ m \in made' /\ dump.at \in made'
      BY <2>2, <2>3, <3>1, BackupNumbersNow, BackupNamedIsNumbers
    <3>11. Local[m] \in Nat /\ Local[dump.at] \in Nat
      <4>1. m \in Backups!Moments /\ dump.at \in Backups!Moments
        BY <2>2, <3>1, BackupNamedIsNumbers DEF Backups!TypeOK
      <4> QED  BY <4>1, BackupMomentTypes
    <3> HIDE DEF dump
    <3>12. m < dump.at \/ dump.at < m  BY <2>5, <3>10
    <3>13. Local[m] < Local[dump.at] \/ Local[dump.at] < Local[m]
      BY <3>10, <3>12 DEF Backups!InOrder
    <3>14. d.name # dump.name  BY <2>2, <3>9, <3>11, <3>13
    <3> QED  BY <2>3, <3>8, <3>14
  <2> QED  BY <2>4, <2>5
<1>4. ASSUME NEW r \in Users, Backups!Rotate(r) PROVE \E d \in dumps' : d.at = m
  <2>1. made' = made /\ dumps' = Backups!Rotated(dumps)  BY <1>4 DEF Backups!Rotate
  <2>2. PICK d \in dumps : d.at = m  BY <1>1, <2>1
  <2>3. Backups!InOrder  BY <2>1 DEF Backups!InOrder
  <2>4. Cardinality({n \in made : n > d.at}) < KeepMin  BY <2>1, <2>2
  <2>5. d \in Backups!Rotated(dumps)  BY <2>3, <2>4, BackupRotationKeepsNewest
  <2> QED  BY <2>1, <2>2, <2>5
<1> QED
  BY <1>2, <1>3, <1>4 DEF Backups!Next, Backups!Change, Backups!Reset, Backups!Tick,
     Backups!Start, Backups!TakeDump, Backups!SaveState, Backups!Stop, Backups!vars

LEMMA BackupStepIInv ==
  Backups!BackupAssumptions /\ Backups!IInv /\ [Backups!Next]_(Backups!vars)
    => Backups!IInv'
  BY BackupStepTypes, BackupStepDumps, BackupStepParts, BackupStepAlone,
     BackupStepCounters, BackupStepState, BackupStepFile, BackupStepNewest
     DEF Backups!IInv

\* The dump of the last backup holds what its counter says: all there is, while
\* the counter has not moved.
LEMMA BackupSaved ==
  Backups!BackupAssumptions /\ Backups!IInv
    => Backups!UnchangedMeansSaved /\ Backups!NewestKept
<1> SUFFICES ASSUME Backups!BackupAssumptions, Backups!IInv
             PROVE  Backups!UnchangedMeansSaved
  BY DEF Backups!IInv
<1> SUFFICES ASSUME ~ reset, ~ together, Backups!InOrder, KeepMin > 0, state # Nothing,
                    state.counter = changed
             PROVE  \E d \in dumps : d.name = state.file /\ d.content = content
  BY DEF Backups!UnchangedMeansSaved
<1>1. Backups!TypeOK /\ Backups!DumpsNamed /\ Backups!CountersPast /\ Backups!FileKept
  BY DEF Backups!IInv
<1>2. PICK d \in dumps : d.name = state.file /\ state.counter <= d.content
  BY <1>1 DEF Backups!FileKept
<1>3. changed = content  BY <1>1, BackupCountersAre
<1>4. d.content <= content /\ d.content \in Nat /\ content \in Nat
  BY <1>1, BackupDumpsFinite, BackupNumbersNow DEF Backups!DumpsNamed
<1>5. d.content = content  BY <1>2, <1>3, <1>4
<1> QED  BY <1>2, <1>5

-----------------------------------------------------------------------------
(* The till: totals *)

LEMMA TillThreadsFinite == Till!TillAssumptions => IsFiniteSet(Users)
  BY DEF Till!TillAssumptions, Till!IsFiniteSet, IsFiniteSet

LEMMA TillAmountsAre ==
  ASSUME Till!TillAssumptions
  PROVE  /\ \A a \in Till!Signed : a \in Int
         /\ Nothing \notin Till!Jobs /\ MaxCommands \in Nat
         /\ \A j \in Till!Jobs : j.amount \in Int
<1>1. \A a \in Till!Signed : a \in Int  BY DEF Till!TillAssumptions, Till!Signed
<1> QED  BY <1>1 DEF Till!TillAssumptions, Till!Jobs

LEMMA TillTotalIs == ASSUME NEW f PROVE Till!Total(f) = SumFunctionOnSet(f, DOMAIN f)
  BY DEF Till!Total, Till!SumFunctionOnSet, Till!FoldFunctionOnSet, Till!MapThenFoldSet,
     SumFunctionOnSet, FoldFunctionOnSet, MapThenFoldSet

\* The total of a list after one more entry, and of one without an entry.
LEMMA TillTotalAppended ==
  ASSUME NEW s, NEW n \in Nat, DOMAIN s = 1..n, NEW u, DOMAIN u = 1..(n + 1),
         \A i \in 1..n : s[i] \in Int /\ u[i] = s[i], u[n + 1] \in Int
  PROVE  Till!Total(s) \in Int /\ Till!Total(u) = Till!Total(s) + u[n + 1]
<1>1. IsFiniteSet(1..n) /\ IsFiniteSet(1..(n + 1))  BY FS_Interval
<1>2. n + 1 \in 1..(n + 1) /\ (1..(n + 1)) \ {n + 1} = 1..n  OBVIOUS
<1>3. \A i \in 1..(n + 1) : u[i] \in Int  OBVIOUS
<1>4. SumFunctionOnSet(u, 1..(n + 1))
        = u[n + 1] + SumFunctionOnSet(u, (1..(n + 1)) \ {n + 1})
  BY <1>1, <1>2, <1>3, SumOnSplit
<1>5. SumFunctionOnSet(u, 1..n) = SumFunctionOnSet(s, 1..n)  BY <1>1, SumOnSame
<1>6. SumFunctionOnSet(s, 1..n) \in Int  BY <1>1, SumOnSplit
<1>7. Till!Total(u) = SumFunctionOnSet(u, 1..(n + 1))
        /\ Till!Total(s) = SumFunctionOnSet(s, 1..n)
  BY TillTotalIs
<1>8. Till!Total(u) = u[n + 1] + Till!Total(s)  BY <1>2, <1>4, <1>5, <1>7
<1>9. Till!Total(s) \in Int /\ u[n + 1] \in Int  BY <1>6, <1>7
<1> QED  BY <1>8, <1>9

LEMMA TillTotalOfNone == ASSUME NEW s, DOMAIN s = {} PROVE Till!Total(s) = 0
<1>1. IsFiniteSet({}) /\ \A t \in {} : s[t] = 0  BY FS_EmptySet
<1>2. SumFunctionOnSet(s, {}) = 0  BY <1>1, SumOnZeros
<1> QED  BY <1>2, TillTotalIs

-----------------------------------------------------------------------------
(* The till: what is pending and what is printed *)

DueOf(j) == IF j # Nothing /\ j.outcome = "done" THEN j.amount ELSE 0
AmountIn(m) == IF m.fiscal_status = "PRINTED" THEN m.amount ELSE 0
PendingIn(jobs) == Till!Total([t \in Users |-> DueOf(jobs[t])])
PrintedIn(rows) == Till!Total([i \in DOMAIN rows |-> AmountIn(rows[i])])

LEMMA TillPendingAre ==
  /\ Till!Pending = PendingIn(job) /\ Till!Pending' = PendingIn(job')
  /\ Till!Printed = PrintedIn(movements) /\ Till!Printed' = PrintedIn(movements')
  BY DEF Till!Pending, PendingIn, Till!Printed, PrintedIn, Till!Due, DueOf, AmountIn

LEMMA TillDueNumber ==
  ASSUME Till!TillAssumptions, NEW j \in Till!Jobs \cup {Nothing}
  PROVE  DueOf(j) \in Int
<1>1. CASE j = Nothing  BY <1>1 DEF DueOf
<1>2. CASE j # Nothing
  <2>1. j.amount \in Int  BY <1>2, TillAmountsAre
  <2> QED  BY <2>1 DEF DueOf
<1> QED  BY <1>1, <1>2

LEMMA TillPendingChanged ==
  ASSUME Till!TillAssumptions, NEW old \in [Users -> Till!Jobs \cup {Nothing}],
         NEW t \in Users,
         NEW j \in Till!Jobs \cup {Nothing}, NEW new, new = [old EXCEPT ![t] = j]
  PROVE  /\ PendingIn(old) \in Int
         /\ PendingIn(new) = PendingIn(old) - DueOf(old[t]) + DueOf(j)
<1> DEFINE f == [u \in Users |-> DueOf(old[u])]
           g == [u \in Users |-> DueOf(new[u])]
<1>1. \A u \in Users : old[u] \in Till!Jobs \cup {Nothing}
        /\ new[u] \in Till!Jobs \cup {Nothing}
  OBVIOUS
<1>2. \A u \in Users : f[u] \in Int /\ g[u] \in Int  BY <1>1, TillDueNumber
<1>3. f[t] = DueOf(old[t]) /\ g[t] = DueOf(j)  OBVIOUS
<1>4. \A u \in Users \ {t} : f[u] = g[u]  OBVIOUS
<1>5. PendingIn(old) = SumFunctionOnSet(f, Users)
        /\ PendingIn(new) = SumFunctionOnSet(g, Users)
  BY TillTotalIs DEF PendingIn
<1> HIDE DEF f, g
<1>6. SumFunctionOnSet(g, Users) = SumFunctionOnSet(f, Users) - f[t] + g[t]
  BY <1>2, <1>4, TillThreadsFinite, SumOnChanged
<1>7. SumFunctionOnSet(f, Users) \in Int  BY <1>2, TillThreadsFinite, SumOnSplit
<1> QED  BY <1>3, <1>5, <1>6, <1>7

LEMMA TillPrintedMore ==
  ASSUME Till!TillAssumptions, NEW rows \in Seq(Till!Movement), NEW m \in Till!Movement
  PROVE  /\ PrintedIn(rows) \in Int
         /\ PrintedIn(Append(rows, m)) = PrintedIn(rows) + AmountIn(m)
<1> DEFINE n == Len(rows)
           s == [i \in DOMAIN rows |-> AmountIn(rows[i])]
           u == [i \in DOMAIN Append(rows, m) |-> AmountIn(Append(rows, m)[i])]
<1>1. \A k \in Till!Movement : AmountIn(k) \in Int
  BY TillAmountsAre DEF Till!Movement, AmountIn
<1>2. n \in Nat /\ DOMAIN rows = 1..n /\ DOMAIN Append(rows, m) = 1..(n + 1)  OBVIOUS
<1>3. \A i \in 1..n : rows[i] \in Till!Movement /\ Append(rows, m)[i] = rows[i]  OBVIOUS
<1>4. Append(rows, m)[n + 1] = m  OBVIOUS
<1>5. PrintedIn(rows) = Till!Total(s) /\ PrintedIn(Append(rows, m)) = Till!Total(u)
  BY DEF PrintedIn
<1>6. \A i \in 1..n : s[i] \in Int /\ u[i] = s[i]  BY <1>1, <1>2, <1>3
<1>7. u[n + 1] = AmountIn(m) /\ u[n + 1] \in Int  BY <1>1, <1>2, <1>4
<1>8. DOMAIN s = 1..n /\ DOMAIN u = 1..(n + 1)  BY <1>2
<1> HIDE DEF s, u, n
<1>9. Till!Total(s) \in Int /\ Till!Total(u) = Till!Total(s) + u[n + 1]
  BY <1>2, <1>6, <1>7, <1>8, TillTotalAppended
<1> QED  BY <1>5, <1>7, <1>9

\* The sales of the fiscal memory.
LEMMA TillMemoryMore ==
  ASSUME NEW days \in Seq(Nat), NEW d \in Nat
  PROVE  Till!Total(days) \in Int /\ Till!Total(Append(days, d)) = Till!Total(days) + d
<1>1. Len(days) \in Nat /\ DOMAIN days = 1..Len(days)  OBVIOUS
<1>2. DOMAIN Append(days, d) = 1..(Len(days) + 1)  OBVIOUS
<1>3. \A i \in 1..Len(days) : days[i] \in Int /\ Append(days, d)[i] = days[i]  OBVIOUS
<1>4. Append(days, d)[Len(days) + 1] = d /\ d \in Int  OBVIOUS
<1> DEFINE more == Append(days, d)
           n == Len(days)
<1>5. /\ n \in Nat /\ DOMAIN days = 1..n /\ DOMAIN more = 1..(n + 1)
      /\ \A i \in 1..n : days[i] \in Int /\ more[i] = days[i]
      /\ more[n + 1] = d /\ more[n + 1] \in Int
  BY <1>1, <1>2, <1>3, <1>4
<1> HIDE DEF more, n
<1>6. Till!Total(days) \in Int /\ Till!Total(more) = Till!Total(days) + more[n + 1]
  BY <1>5, TillTotalAppended
<1> QED  BY <1>5, <1>6 DEF more

-----------------------------------------------------------------------------
LEMMA TillInitIInv == Till!TillAssumptions /\ Till!Init => Till!IInv
<1> SUFFICES ASSUME Till!TillAssumptions, Till!Init PROVE Till!IInv  OBVIOUS
<1>1. Till!TypeOK  BY TillAmountsAre DEF Till!Init, Till!TypeOK
<1>2. Till!ReportsMoveNothing  BY DEF Till!Init, Till!ReportsMoveNothing
<1>3. Till!TillExplained
  <2>1. Till!Total(memory) = 0
    <3>1. DOMAIN memory = {}  BY DEF Till!Init
    <3> QED  BY <3>1, TillTotalOfNone
  <2>2. Till!Printed = 0
    <3>1. DOMAIN [i \in DOMAIN movements |-> AmountIn(movements[i])] = {}
      BY DEF Till!Init
    <3> QED  BY <3>1, TillPendingAre, TillTotalOfNone DEF PrintedIn
  <2>3. Till!Pending = 0
    <3> DEFINE f == [t \in Users |-> DueOf(job[t])]
    <3>1. \A t \in Users : f[t] = 0  BY DEF Till!Init, DueOf
    <3>2. Till!Pending = SumFunctionOnSet(f, Users)
      <4>1. Till!Pending = PendingIn(job)  BY TillPendingAre
      <4>2. PendingIn(job) = Till!Total(f)  BY DEF PendingIn
      <4>3. DOMAIN f = Users  OBVIOUS
      <4> HIDE DEF f
      <4> QED  BY <4>1, <4>2, <4>3, TillTotalIs
    <3> HIDE DEF f
    <3> QED  BY <3>1, <3>2, TillThreadsFinite, SumOnZeros
  <2>4. Len(memory) = 0 /\ cash = 0 /\ sales = 0 /\ moved = 0 /\ zReports = 0
    BY DEF Till!Init
  <2> QED  BY <2>1, <2>2, <2>3, <2>4 DEF Till!TillExplained
<1> QED  BY <1>1, <1>2, <1>3 DEF Till!IInv

\* The money and its explanation, in one equation.
Explained(c, s, mem, rows, jobs, gone) ==
  c = s + Till!Total(mem) + PrintedIn(rows) + PendingIn(jobs) + gone

LEMMA TillExplainedIs ==
  /\ Till!TillExplained <=> /\ Explained(cash, sales, memory, movements, job, moved)
                            /\ Len(memory) = zReports
  /\ Till!TillExplained' <=> /\ Explained(cash', sales', memory', movements', job', moved')
                             /\ Len(memory') = zReports'
<1>1. Till!TillExplained <=> /\ Explained(cash, sales, memory, movements, job, moved)
                             /\ Len(memory) = zReports
  BY TillPendingAre DEF Till!TillExplained, Explained
<1>2. Till!TillExplained' <=> /\ Explained(cash', sales', memory', movements', job', moved')
                              /\ Len(memory') = zReports'
  BY TillPendingAre DEF Till!TillExplained, Explained
<1> QED  BY <1>1, <1>2

\* Every total is a number.
LEMMA TillNumbers ==
  ASSUME Till!TillAssumptions, Till!TypeOK
  PROVE  /\ cash \in Nat /\ sales \in Nat /\ moved \in Int /\ zReports \in Nat
         /\ Till!Total(memory) \in Int /\ PrintedIn(movements) \in Int
              /\ PendingIn(job) \in Int
         /\ Len(memory) \in Nat
<1>1. Till!Total(memory) \in Int
  <2>1. memory \in Seq(Nat) /\ 0 \in Nat  BY DEF Till!TypeOK
  <2> QED  BY <2>1, TillMemoryMore
<1>2. PendingIn(job) \in Int
  <2> DEFINE f == [t \in Users |-> DueOf(job[t])]
  <2>1. \A t \in Users : f[t] \in Int
    <3>1. \A t \in Users : job[t] \in Till!Jobs \cup {Nothing}  BY DEF Till!TypeOK
    <3> QED  BY <3>1, TillDueNumber
  <2>2. PendingIn(job) = SumFunctionOnSet(f, Users)  BY TillTotalIs DEF PendingIn
  <2> HIDE DEF f
  <2> QED  BY <2>1, <2>2, TillThreadsFinite, SumOnSplit
<1>3. PrintedIn(movements) \in Int
  <2> DEFINE s == [i \in DOMAIN movements |-> AmountIn(movements[i])]
  <2>1. movements \in Seq(Till!Movement)  BY DEF Till!TypeOK
  <2>2. \A i \in DOMAIN movements : movements[i] \in Till!Movement  BY <2>1
  <2>3. \A i \in DOMAIN movements : s[i] \in Int
    <3>1. \A k \in Till!Movement : AmountIn(k) \in Int
      BY TillAmountsAre DEF Till!Movement, AmountIn
    <3> QED  BY <2>2, <3>1
  <2>4. IsFiniteSet(DOMAIN movements)
    <3>1. DOMAIN movements = 1..Len(movements) /\ Len(movements) \in Nat  BY <2>1
    <3> QED  BY <3>1, FS_Interval
  <2>5. PrintedIn(movements) = SumFunctionOnSet(s, DOMAIN movements)
    BY TillTotalIs DEF PrintedIn
  <2> HIDE DEF s
  <2> QED  BY <2>3, <2>4, <2>5, SumOnSplit
<1> QED  BY <1>1, <1>2, <1>3 DEF Till!TypeOK

-----------------------------------------------------------------------------
(* The till: every step *)

\* A thread that is at work, and what an outcome makes of its command.
LEMMA TillJobOf ==
  ASSUME Till!TypeOK, NEW t \in Users, job[t] # Nothing
  PROVE  job[t] \in Till!Jobs
  BY DEF Till!TypeOK

LEMMA TillOutcomeOf ==
  ASSUME Till!TillAssumptions, Till!TypeOK, NEW t \in Users, job[t] # Nothing,
         NEW o \in {"starting", "done", "refused", "failed"}, Till!Outcome(t, o)
  PROVE  \E j \in Till!Jobs :
             /\ job' = [job EXCEPT ![t] = j] /\ j # Nothing
             /\ j.what = job[t].what /\ j.amount = job[t].amount /\ j.outcome = o
<1> DEFINE j == [job[t] EXCEPT !.outcome = o]
<1>1. job[t] \in Till!Jobs  BY TillJobOf
<1>2. j \in Till!Jobs /\ j.what = job[t].what /\ j.amount = job[t].amount /\ j.outcome = o
  BY <1>1 DEF Till!Jobs
<1>3. job' = [job EXCEPT ![t] = j]  BY DEF Till!Outcome, Till!TypeOK
<1>4. j # Nothing  BY <1>2, TillAmountsAre
<1> QED  BY <1>2, <1>3, <1>4

\* What carrying out a command does to the till.
LEMMA TillCarried ==
  ASSUME Till!TillAssumptions, Till!TypeOK, NEW t \in Users, job[t] # Nothing, Till!Carry(t)
  PROVE  /\ cash' \in Nat /\ cash' = cash + job[t].amount
         /\ sales' \in Nat /\ memory' \in Seq(Nat) /\ zReports' \in Nat
         /\ sales' + Till!Total(memory') = sales + Till!Total(memory)
              /\ Till!Total(memory') \in Int
         /\ Len(memory) = zReports => Len(memory') = zReports'
<1>0. /\ cash \in Nat /\ sales \in Nat /\ zReports \in Nat /\ memory \in Seq(Nat)
      /\ Till!Total(memory) \in Int /\ job[t].amount \in Int
  BY TillJobOf, TillAmountsAre, TillNumbers DEF Till!TypeOK
<1>1. cash' = cash + job[t].amount /\ cash' \in Nat  BY <1>0 DEF Till!Carry
<1>2. CASE job[t].what = "Z"
  <2>1. memory' = Append(memory, sales) /\ sales' = 0 /\ zReports' = zReports + 1
    BY <1>2 DEF Till!Carry, Till!CloseDay, Till!DAILY_RPT_ITEM
  <2>2. Till!Total(memory') = Till!Total(memory) + sales  BY <1>0, <2>1, TillMemoryMore
  <2>3. memory' \in Seq(Nat) /\ Len(memory') = Len(memory) + 1  BY <1>0, <2>1
  <2> QED  BY <1>0, <1>1, <2>1, <2>2, <2>3
<1>3. CASE job[t].what # "Z"
  <2>1. memory' = memory /\ sales' = sales /\ zReports' = zReports
    BY <1>3 DEF Till!Carry, Till!CloseDay, Till!DAILY_RPT_ITEM
  <2> QED  BY <1>0, <1>1, <2>1
<1> QED  BY <1>2, <1>3

\* What the till holds above what was sold, printed, due to be printed and lost.
LEMMA TillBalances ==
  ASSUME cash \in Nat, sales \in Nat, Till!Total(memory) \in Int,
         PrintedIn(movements) \in Int,
         PendingIn(job) \in Int, moved \in Int,
         cash' \in Nat, sales' \in Nat, Till!Total(memory') \in Int, PrintedIn(movements') \in Int,
         PendingIn(job') \in Int, moved' \in Int,
         NEW old, NEW new, DueOf(old) \in Int, DueOf(new) \in Int,
         cash' - (sales' + Till!Total(memory')) - PrintedIn(movements') - DueOf(new) - moved'
           = cash - (sales + Till!Total(memory)) - PrintedIn(movements) - DueOf(old) - moved,
         PendingIn(job') = PendingIn(job) - DueOf(old) + DueOf(new),
         cash = sales + Till!Total(memory) + PrintedIn(movements) + PendingIn(job) + moved
  PROVE  cash' = sales' + Till!Total(memory') + PrintedIn(movements') + PendingIn(job') + moved'
  OBVIOUS

\* A step of one thread.
LEMMA TillOneThread ==
  ASSUME Till!TillAssumptions, Till!IInv, NEW t \in Users,
         NEW j \in Till!Jobs \cup {Nothing},
         job' = [job EXCEPT ![t] = j],
         j # Nothing => (j.what \in Till!Reports <=> j.amount = 0),
         cash' \in Nat, sales' \in Nat, memory' \in Seq(Nat), Till!Total(memory') \in Int,
         movements' \in Seq(Till!Movement),
         PrintedIn(movements') \in Int, commands' \in 0..MaxCommands, moved' \in Int,
         zReports' \in Nat, Len(memory) = zReports => Len(memory') = zReports',
         cash' - (sales' + Till!Total(memory')) - PrintedIn(movements') - DueOf(j) - moved'
           = cash - (sales + Till!Total(memory)) - PrintedIn(movements) - DueOf(job[t]) - moved
  PROVE  Till!IInv'
<1>0. Till!TypeOK /\ Till!ReportsMoveNothing /\ Till!TillExplained  BY DEF Till!IInv
<1>1. job \in [Users -> Till!Jobs \cup {Nothing}]  BY <1>0 DEF Till!TypeOK
<1>2. Till!TypeOK'
  <2>1. job' \in [Users -> Till!Jobs \cup {Nothing}]  BY <1>1
  <2> QED  BY <2>1 DEF Till!TypeOK
<1>3. Till!ReportsMoveNothing'
  <2>1. \A u \in Users : u # t => job'[u] = job[u]  BY <1>1
  <2>2. job'[t] = j  BY <1>1
  <2> QED  BY <1>0, <2>1, <2>2 DEF Till!ReportsMoveNothing
<1>4. PendingIn(job) \in Int /\ PendingIn(job') = PendingIn(job) - DueOf(job[t]) + DueOf(j)
  BY <1>1, TillPendingChanged
<1>5. DueOf(j) \in Int /\ DueOf(job[t]) \in Int
  <2>1. job[t] \in Till!Jobs \cup {Nothing}  BY <1>1
  <2> QED  BY <2>1, TillDueNumber
<1>6. Explained(cash, sales, memory, movements, job, moved) /\ Len(memory) = zReports
  BY <1>0, TillExplainedIs
<1>7. Explained(cash', sales', memory', movements', job', moved')
  <2>1. /\ cash \in Int /\ sales \in Int /\ Till!Total(memory) \in Int
        /\ PrintedIn(movements) \in Int /\ moved \in Int
    BY <1>0, TillNumbers
  <2>2. cash = sales + Till!Total(memory) + PrintedIn(movements) + PendingIn(job) + moved
    BY <1>6 DEF Explained
  <2>3. PendingIn(job') \in Int  BY <1>4, <1>5
  <2>4. cash' = sales' + Till!Total(memory') + PrintedIn(movements') + PendingIn(job') + moved'
    BY <1>0, <1>4, <1>5, <2>1, <2>2, <2>3, TillNumbers, TillBalances
  <2> QED  BY <2>4 DEF Explained
<1>8. Till!TillExplained'  BY <1>6, <1>7, TillExplainedIs
<1> QED  BY <1>2, <1>3, <1>8 DEF Till!IInv

LEMMA TillStepIInv ==
  Till!TillAssumptions /\ Till!IInv /\ [Till!Next]_(Till!vars) => Till!IInv'
<1> SUFFICES ASSUME Till!TillAssumptions, Till!IInv, [Till!Next]_(Till!vars)
             PROVE  Till!IInv'
  OBVIOUS
<1>0. /\ Till!TypeOK /\ Till!ReportsMoveNothing /\ Till!TillExplained
      /\ Explained(cash, sales, memory, movements, job, moved) /\ Len(memory) = zReports
  BY TillExplainedIs DEF Till!IInv
<1>n. /\ cash \in Nat /\ sales \in Nat /\ moved \in Int /\ zReports \in Nat
      /\ Till!Total(memory) \in Int /\ PrintedIn(movements) \in Int
  BY <1>0, TillNumbers
<1>m. /\ memory \in Seq(Nat) /\ movements \in Seq(Till!Movement)
           /\ commands \in 0..MaxCommands
      /\ MaxCommands \in Nat
  BY <1>0, TillAmountsAre DEF Till!TypeOK
<1>s. ASSUME NEW t \in Users, NEW j \in Till!Jobs \cup {Nothing},
             job' = [job EXCEPT ![t] = j],
             j # Nothing => (j.what \in Till!Reports <=> j.amount = 0),
             UNCHANGED <<cash, sales, memory, movements, zReports>>,
             commands' \in 0..MaxCommands, moved' \in Int,
             DueOf(j) + moved' = DueOf(job[t]) + moved
      PROVE  Till!IInv'
  <2>1. DueOf(j) \in Int /\ DueOf(job[t]) \in Int
    <3>1. job[t] \in Till!Jobs \cup {Nothing}  BY <1>0 DEF Till!TypeOK
    <3> QED  BY <3>1, TillDueNumber
  <2>2. cash' - (sales' + Till!Total(memory')) - PrintedIn(movements') - DueOf(j) - moved'
           = cash - (sales + Till!Total(memory)) - PrintedIn(movements) - DueOf(job[t]) - moved
    BY <1>n, <1>s, <2>1
  <2> QED  BY <1>n, <1>m, <1>s, <2>2, <1>m, TillOneThread
<1>1. CASE Till!Sell
  <2>1. Till!TypeOK'
    <3>1. cash' \in Nat /\ sales' \in Nat /\ commands' \in 0..MaxCommands
      BY <1>n, <1>m, <1>1 DEF Till!Sell
    <3> QED  BY <1>0, <1>1, <3>1 DEF Till!Sell, Till!TypeOK
  <2>2. Till!ReportsMoveNothing'  BY <1>0, <1>1 DEF Till!Sell, Till!ReportsMoveNothing
  <2>3. Till!TillExplained'
    <3>1. /\ cash' = cash + 1 /\ sales' = sales + 1
          /\ UNCHANGED <<memory, job, movements, moved, zReports>>
      BY <1>1 DEF Till!Sell
    <3>2. PendingIn(job) \in Int  BY <1>0, TillNumbers
    <3>3. cash = sales + Till!Total(memory) + PrintedIn(movements) + PendingIn(job) + moved
      BY <1>0 DEF Explained
    <3>4. cash' = sales' + Till!Total(memory) + PrintedIn(movements) + PendingIn(job) + moved
      BY <1>n, <3>1, <3>2, <3>3
    <3>5. Explained(cash', sales', memory', movements', job', moved')
      BY <3>1, <3>4 DEF Explained
    <3> QED  BY <1>0, <3>1, <3>5, TillExplainedIs
  <2> QED  BY <2>1, <2>2, <2>3 DEF Till!IInv
<1>2. ASSUME NEW t \in Users, NEW what \in Till!Reports \cup {"cash"},
             NEW amount \in Till!Signed \cup {0},
             Till!Begin(t, what, amount)
      PROVE  Till!IInv'
  <2> DEFINE j == [what |-> what, amount |-> amount, outcome |-> "starting"]
  <2>1. j \in Till!Jobs  BY DEF Till!Jobs
  <2>2. DueOf(j) = 0 /\ (j.what \in Till!Reports <=> j.amount = 0)
    BY <1>2 DEF Till!Begin, DueOf
  <2>3. DueOf(job[t]) = 0  BY <1>2 DEF Till!Begin, DueOf
  <2>4. commands' \in 0..MaxCommands /\ moved' = moved  BY <1>m, <1>2 DEF Till!Begin
  <2>5. /\ job' = [job EXCEPT ![t] = j]
        /\ UNCHANGED <<cash, sales, memory, movements, zReports>>
    BY <1>2 DEF Till!Begin
  <2> HIDE DEF j
  <2> QED  BY <1>n, <1>m, <1>s, <2>1, <2>2, <2>3, <2>4, <2>5
<1>3. ASSUME NEW t \in Users, Till!Answer(t) PROVE Till!IInv'
  <2>1. job[t] # Nothing /\ DueOf(job[t]) = 0 /\ Till!Outcome(t, "done") /\ Till!Carry(t)
    BY <1>3 DEF Till!Answer, Till!Starting, DueOf
  <2>2. PICK j \in Till!Jobs :
             /\ job' = [job EXCEPT ![t] = j] /\ j # Nothing
             /\ j.what = job[t].what /\ j.amount = job[t].amount /\ j.outcome = "done"
    BY <1>0, <2>1, TillOutcomeOf
  <2>3. DueOf(j) = job[t].amount /\ job[t].amount \in Int
    BY <1>0, <2>1, <2>2, TillJobOf, TillAmountsAre DEF DueOf
  <2>4. j.what \in Till!Reports <=> j.amount = 0
    BY <1>0, <2>1, <2>2 DEF Till!ReportsMoveNothing
  <2>5. UNCHANGED <<movements, commands, moved>>  BY <1>3 DEF Till!Answer
  <2>6. /\ cash' \in Nat /\ cash' = cash + job[t].amount
        /\ sales' \in Nat /\ memory' \in Seq(Nat) /\ zReports' \in Nat
        /\ sales' + Till!Total(memory') = sales + Till!Total(memory)
             /\ Till!Total(memory') \in Int
        /\ Len(memory) = zReports => Len(memory') = zReports'
    BY <1>0, <2>1, TillCarried
  <2>d. DueOf(job[t]) = 0 /\ PrintedIn(movements') = PrintedIn(movements)  BY <2>1, <2>5
  <2>n. /\ cash' = cash + job[t].amount /\ cash' \in Nat /\ sales' \in Nat
        /\ sales' + Till!Total(memory') = sales + Till!Total(memory)
             /\ Till!Total(memory') \in Int
    BY <2>6
  <2>7. cash' - (sales' + Till!Total(memory')) - PrintedIn(movements') - DueOf(j) - moved'
           = cash - (sales + Till!Total(memory)) - PrintedIn(movements) - DueOf(job[t]) - moved
    BY <1>n, <2>d, <2>3, <2>5, <2>n
  <2> QED  BY <1>n, <1>m, <2>2, <2>4, <2>5, <2>6, <2>7, TillOneThread
<1>4. ASSUME NEW t \in Users, Till!LoseAnswer(t) PROVE Till!IInv'
  <2>1. job[t] # Nothing /\ DueOf(job[t]) = 0 /\ Till!Outcome(t, "failed") /\ Till!Carry(t)
    BY <1>4 DEF Till!LoseAnswer, Till!Starting, DueOf
  <2>2. PICK j \in Till!Jobs :
             /\ job' = [job EXCEPT ![t] = j] /\ j # Nothing
             /\ j.what = job[t].what /\ j.amount = job[t].amount /\ j.outcome = "failed"
    BY <1>0, <2>1, TillOutcomeOf
  <2>3. DueOf(j) = 0 /\ job[t].amount \in Int
    BY <1>0, <2>1, <2>2, TillJobOf, TillAmountsAre DEF DueOf
  <2>4. j.what \in Till!Reports <=> j.amount = 0
    BY <1>0, <2>1, <2>2 DEF Till!ReportsMoveNothing
  <2>5. UNCHANGED <<movements, commands>> /\ moved' = moved + job[t].amount
    BY <1>4 DEF Till!LoseAnswer
  <2>6. /\ cash' \in Nat /\ cash' = cash + job[t].amount
        /\ sales' \in Nat /\ memory' \in Seq(Nat) /\ zReports' \in Nat
        /\ sales' + Till!Total(memory') = sales + Till!Total(memory)
             /\ Till!Total(memory') \in Int
        /\ Len(memory) = zReports => Len(memory') = zReports'
    BY <1>0, <2>1, TillCarried
  <2>d. DueOf(job[t]) = 0 /\ PrintedIn(movements') = PrintedIn(movements)  BY <2>1, <2>5
  <2>n. /\ cash' = cash + job[t].amount /\ cash' \in Nat /\ sales' \in Nat
        /\ sales' + Till!Total(memory') = sales + Till!Total(memory)
             /\ Till!Total(memory') \in Int
    BY <2>6
  <2>7. cash' - (sales' + Till!Total(memory')) - PrintedIn(movements') - DueOf(j) - moved'
           = cash - (sales + Till!Total(memory)) - PrintedIn(movements) - DueOf(job[t]) - moved
    BY <1>n, <2>d, <2>3, <2>5, <2>n
  <2>8. moved' \in Int  BY <1>n, <2>3, <2>5
  <2> QED  BY <1>n, <1>m, <2>2, <2>4, <2>5, <2>6, <2>7, <2>8, TillOneThread
<1>5. ASSUME NEW t \in Users, Till!RefuseCash(t) \/ Till!FailCommand(t) PROVE Till!IInv'
  <2>1. PICK o \in {"refused", "failed"} :
          /\ job[t] # Nothing /\ DueOf(job[t]) = 0 /\ Till!Outcome(t, o)
          /\ UNCHANGED <<cash, sales, memory, movements, commands, moved, zReports>>
    BY <1>5 DEF Till!RefuseCash, Till!FailCommand, Till!Starting, DueOf
  <2>2. PICK j \in Till!Jobs :
             /\ job' = [job EXCEPT ![t] = j] /\ j # Nothing
             /\ j.what = job[t].what /\ j.amount = job[t].amount /\ j.outcome = o
    BY <1>0, <2>1, TillOutcomeOf
  <2>3. DueOf(j) = 0  BY <2>2 DEF DueOf
  <2>4. j.what \in Till!Reports <=> j.amount = 0
    BY <1>0, <2>1, <2>2 DEF Till!ReportsMoveNothing
  <2> QED  BY <1>n, <1>m, <1>s, <2>1, <2>2, <2>3, <2>4
<1>6. ASSUME NEW t \in Users, Till!Finish(t) PROVE Till!IInv'
  <2> DEFINE m == [amount |-> job[t].amount,
                   fiscal_status |-> IF Till!Success(job[t].outcome) THEN "PRINTED" ELSE "FAILED"]
  <2>1. job[t] # Nothing /\ job[t] \in Till!Jobs /\ job[t].amount \in Int
    BY <1>0, <1>6, TillJobOf, TillAmountsAre DEF Till!Finish
  <2>2. DueOf(Nothing) = 0  BY DEF DueOf
  <2>3. /\ job' = [job EXCEPT ![t] = Nothing]
        /\ UNCHANGED <<cash, sales, memory, commands, moved, zReports>>
        /\ movements' = IF job[t].what = "cash" THEN Append(movements, m) ELSE movements
    BY <1>6 DEF Till!Finish
  <2>4. CASE job[t].what = "cash"
    <3>0. job[t].amount # 0
      BY <1>0, <2>1, <2>4 DEF Till!ReportsMoveNothing, Till!Reports
    <3>1. m \in Till!Movement  BY <2>1, <2>4, <3>0 DEF Till!Movement, Till!Jobs
    <3>2. AmountIn(m) = DueOf(job[t])  BY <2>1 DEF AmountIn, DueOf, Till!Success
    <3>3. movements' = Append(movements, m)  BY <2>3, <2>4
    <3> HIDE DEF m
    <3>4. PrintedIn(movements') = PrintedIn(movements) + DueOf(job[t])
      BY <1>n, <1>m, <3>1, <3>2, <3>3, TillPrintedMore
    <3>5. movements' \in Seq(Till!Movement)  BY <1>m, <3>1, <3>3
    <3>6. DueOf(job[t]) \in Int  BY <2>1 DEF DueOf
    <3>7. PrintedIn(movements') \in Int  BY <1>n, <3>4, <3>6
    <3>8. cash' - (sales' + Till!Total(memory')) - PrintedIn(movements') - DueOf(Nothing) - moved'
           = cash - (sales + Till!Total(memory)) - PrintedIn(movements) - DueOf(job[t]) - moved
      BY <1>n, <2>2, <2>3, <3>4, <3>6
    <3> QED  BY <1>n, <2>3, <3>5, <3>7, <3>8, <1>m, TillOneThread
  <2>5. CASE job[t].what # "cash"
    <3>1. job[t].what \in Till!Reports  BY <2>1, <2>5 DEF Till!Jobs
    <3>2. job[t].amount = 0  BY <1>0, <2>1, <3>1 DEF Till!ReportsMoveNothing
    <3>3. DueOf(job[t]) = 0  BY <3>2 DEF DueOf
    <3> QED  BY <1>n, <1>m, <1>s, <2>2, <2>3, <2>5, <3>3
  <2> QED  BY <2>4, <2>5
<1>7. ASSUME NEW t \in Users, Till!Crash(t) PROVE Till!IInv'
  <2>1. job[t] # Nothing /\ job[t] \in Till!Jobs /\ job[t].amount \in Int
    BY <1>0, <1>7, TillJobOf, TillAmountsAre DEF Till!Crash
  <2>2. DueOf(Nothing) = 0 /\ DueOf(job[t]) \in Int  BY <2>1 DEF DueOf
  <2>3. /\ job' = [job EXCEPT ![t] = Nothing]
        /\ UNCHANGED <<cash, sales, memory, movements, commands, zReports>>
    BY <1>7 DEF Till!Crash
  <2>4. moved' = moved + DueOf(job[t])  BY <1>n, <1>7, <2>1 DEF Till!Crash, DueOf
  <2>5. DueOf(Nothing) + moved' = DueOf(job[t]) + moved /\ moved' \in Int
    BY <1>n, <2>2, <2>4
  <2>6. commands' \in 0..MaxCommands  BY <1>m, <2>3
  <2>7. Nothing # Nothing => (Nothing.what \in Till!Reports <=> Nothing.amount = 0)  OBVIOUS
  <2> QED  BY <1>s, <2>3, <2>5, <2>6, <2>7
<1>8. CASE UNCHANGED Till!vars
  <2>1. UNCHANGED <<cash, sales, memory, movements, job, commands, moved, zReports>>
    BY <1>8 DEF Till!vars
  <2>2. Till!TypeOK' /\ Till!ReportsMoveNothing'
    BY <1>0, <2>1 DEF Till!TypeOK, Till!ReportsMoveNothing
  <2>3. Till!TillExplained'
    <3>1. Explained(cash', sales', memory', movements', job', moved')
            /\ Len(memory') = zReports'
      BY <1>0, <2>1
    <3> QED  BY <3>1, TillExplainedIs
  <2> QED  BY <2>2, <2>3 DEF Till!IInv
<1> QED  BY <1>1, <1>2, <1>3, <1>4, <1>5, <1>6, <1>7, <1>8 DEF Till!Next

-----------------------------------------------------------------------------
(* The barcodes: the list in its order *)

Keyed(R) == R \subseteq BarcodeSlots!Barcode /\ \A b, c \in R : b.id = c.id => b = c

\* What the ordered list of some rows is: all of them, each once, in order.
InOrder(L, R) ==
  /\ L \in Seq(R) /\ Len(L) = Cardinality(R) /\ DOMAIN L = 1..Cardinality(R)
  /\ Cardinality(R) \in Nat
  /\ \A i, j \in 1..Cardinality(R) : i < j => BarcodeSlots!Before(L[i], L[j])
  /\ \A i, j \in 1..Cardinality(R) : L[i] = L[j] => i = j
  /\ \A b \in R : \E i \in 1..Cardinality(R) : L[i] = b

LEMMA SlotBarcodeFields ==
  ASSUME BarcodeSlots!BarcodeAssumptions
  PROVE  /\ MaxRows \in Nat
         /\ \A b \in BarcodeSlots!Barcode : /\ b.id \in 1..MaxRows /\ b.id \in Nat
                                            /\ b.position \in 1..(MaxRows + 1) /\ b.position \in Nat
                                            /\ b.code \in Codes
<1>1. MaxRows \in Nat  BY DEF BarcodeSlots!BarcodeAssumptions
<1>2. \A b \in BarcodeSlots!Barcode : b.id \in 1..MaxRows /\ b.position \in 1..(MaxRows + 1)
        /\ b.code \in Codes
  BY DEF BarcodeSlots!Barcode
<1> QED  BY <1>1, <1>2

LEMMA SlotKeyedFinite ==
  ASSUME BarcodeSlots!BarcodeAssumptions, NEW R, Keyed(R)
  PROVE  IsFiniteSet(R) /\ Cardinality(R) \in Nat
<1> DEFINE f == [b \in R |-> b.id]
<1>1. f \in [R -> 1..MaxRows]  BY SlotBarcodeFields DEF Keyed
<1>2. \A b, c \in R : f[b] = f[c] => b = c  BY DEF Keyed
<1> HIDE DEF f
<1>3. f \in Injection(R, 1..MaxRows)  BY <1>1, <1>2 DEF Injection, IsInjective
<1>4. IsFiniteSet(1..MaxRows)  BY SlotBarcodeFields, FS_Interval
<1>5. IsFiniteSet(R)  BY <1>3, <1>4, FS_Injection
<1> QED  BY <1>5, FS_CardinalityType

LEMMA SlotBeforeIsOrder ==
  ASSUME BarcodeSlots!BarcodeAssumptions, NEW R, Keyed(R)
  PROVE  /\ \A x \in R : ~ BarcodeSlots!Before(x, x)
         /\ \A x, y, z \in R : BarcodeSlots!Before(x, y) /\ BarcodeSlots!Before(y, z)
              => BarcodeSlots!Before(x, z)
         /\ \A x, y \in R : x # y => BarcodeSlots!Before(x, y) \/ BarcodeSlots!Before(y, x)
<1>1. \A x \in R : x.id \in Nat /\ x.position \in Nat  BY SlotBarcodeFields DEF Keyed
<1>2. \A x, y \in R : x.id = y.id => x = y  BY DEF Keyed
<1> QED  BY <1>1, <1>2 DEF BarcodeSlots!Before

LEMMA SlotOrderedIs ==
  ASSUME BarcodeSlots!BarcodeAssumptions, NEW R, Keyed(R)
  PROVE  InOrder(BarcodeSlots!Ordered(R), R)
<1> DEFINE n == Cardinality(R)
           Earlier == {q \in R \X R : BarcodeSlots!Before(q[1], q[2])}
           rank == Rank(R, Earlier)
           inv == [k \in 1..n |-> CHOOSE x \in R : rank[x] = k]
           Sorted(L) == \A i, j \in DOMAIN L : i < j => BarcodeSlots!Before(L[i], L[j])
<1>1. IsFiniteSet(R) /\ n \in Nat  BY SlotKeyedFinite
<1>2. \A x, y \in R : <<x, y>> \in Earlier <=> BarcodeSlots!Before(x, y)  OBVIOUS
<1>3. Earlier \in SUBSET (R \X R)  OBVIOUS
<1>4. rank = Rank(R, Earlier)  OBVIOUS
<1>5. LinearOrder(R, Earlier)
  <2>1. /\ \A x \in R : <<x, x>> \notin Earlier
        /\ \A x, y, z \in R :
             <<x, y>> \in Earlier /\ <<y, z>> \in Earlier => <<x, z>> \in Earlier
        /\ \A x, y \in R : x # y => <<x, y>> \in Earlier \/ <<y, x>> \in Earlier
    BY <1>2, SlotBeforeIsOrder
  <2> QED  BY <1>3, <2>1 DEF LinearOrder
<1> HIDE DEF Earlier, rank
<1>6. /\ rank \in [R -> 1..n]
      /\ \A x, y \in R : <<x, y>> \in Earlier => rank[x] < rank[y]
      /\ \A k \in 1..n : \E x \in R : rank[x] = k
  <2>1. IsFiniteSet(R)  BY <1>1
  <2> HIDE DEF n, inv, Sorted
  <2>2. n = Cardinality(R)  BY DEF n
  <2> QED  BY <2>1, <2>2, <1>4, <1>5, Ranks
<1>7. \A k \in 1..n : inv[k] \in R /\ rank[inv[k]] = k  BY <1>6
<1>8. inv \in [1..n -> R]
  <2>1. \A k \in 1..n : (CHOOSE x \in R : rank[x] = k) \in R  BY <1>6
  <2> QED  BY <2>1
<1> HIDE DEF inv
<1>9. ASSUME NEW i \in 1..n, NEW j \in 1..n, i < j PROVE BarcodeSlots!Before(inv[i], inv[j])
  <2>1. inv[i] \in R /\ inv[j] \in R /\ rank[inv[i]] = i /\ rank[inv[j]] = j  BY <1>7
  <2>2. inv[i] # inv[j]  BY <1>9, <2>1
  <2>3. ~ BarcodeSlots!Before(inv[j], inv[i])
    <3>1. BarcodeSlots!Before(inv[j], inv[i]) => rank[inv[j]] < rank[inv[i]]
      BY <1>2, <1>6, <2>1
    <3> QED  BY <1>9, <2>1, <3>1
  <2> QED  BY <2>1, <2>2, <2>3, SlotBeforeIsOrder
<1>10. Sorted(inv)  BY <1>8, <1>9
<1> DEFINE L == BarcodeSlots!Ordered(R)
<1>11. L \in [1..n -> R] /\ Sorted(L)
  <2>0. BarcodeSlots!Cardinality(R) = n  BY DEF BarcodeSlots!Cardinality, Cardinality
  <2>1. L = CHOOSE list \in [1..n -> R] : Sorted(list)
    BY <2>0 DEF BarcodeSlots!Ordered
  <2> HIDE DEF L, Sorted, n
  <2> QED  BY <1>8, <1>10, <2>1
<1> HIDE DEF L
<1>12. \A i, j \in 1..n : i < j => BarcodeSlots!Before(L[i], L[j])  BY <1>11
<1>13. \A i, j \in 1..n : L[i] = L[j] => i = j
  <2> SUFFICES ASSUME NEW i \in 1..n, NEW j \in 1..n, i # j PROVE L[i] # L[j]  OBVIOUS
  <2>1. i < j \/ j < i  BY <1>1
  <2>2. L[i] \in R /\ L[j] \in R  BY <1>11
  <2>3. BarcodeSlots!Before(L[i], L[j]) \/ BarcodeSlots!Before(L[j], L[i])
    BY <1>12, <2>1
  <2> QED  BY <2>2, <2>3, SlotBeforeIsOrder
<1>14. \A b \in R : \E i \in 1..n : L[i] = b
  <2>1. L \in Injection(1..n, R)
    <3> HIDE DEF n, Sorted
    <3> QED  BY <1>11, <1>13 DEF Injection, IsInjective
  <2>2. Cardinality(1..n) = n  BY <1>1, FS_Interval
  <2>3. L \in Surjection(1..n, R)
    <3> HIDE DEF Sorted
    <3> QED  BY <1>1, <2>1, <2>2, FS_Injection
  <2> QED  BY <2>3 DEF Surjection
<1>15. L \in Seq(R) /\ Len(L) = n /\ DOMAIN L = 1..n  BY <1>1, <1>11
<1> QED  BY <1>1, <1>12, <1>13, <1>14, <1>15 DEF InOrder, L

\* Rows in their places: row i of the list has position i.
LEMMA SlotCompactListed ==
  ASSUME BarcodeSlots!BarcodeAssumptions, NEW R, Keyed(R), BarcodeSlots!Compact(R)
  PROVE  \A i \in 1..Cardinality(R) : BarcodeSlots!Ordered(R)[i].position = i
<1> DEFINE n == Cardinality(R)
           L == BarcodeSlots!Ordered(R)
           p == [b \in R |-> b.position]
           f == [i \in 1..n |-> L[i].position]
<1>1. InOrder(L, R)  BY SlotOrderedIs
<1>2. IsFiniteSet(R) /\ n \in Nat  BY SlotKeyedFinite
<1>3. PICK m \in Nat :
        /\ \A b \in R : b.position \in 1..m
        /\ \A b, c \in R : b.position = c.position => b = c
        /\ \A i \in 1..m : \E b \in R : b.position = i
  BY DEF BarcodeSlots!Compact
<1>4. m = n
  <2>1. p \in [R -> 1..m]  BY <1>3
  <2>2. p \in Injection(R, 1..m)  BY <1>3, <2>1 DEF Injection, IsInjective
  <2>3. p \in Surjection(R, 1..m)  BY <1>3, <2>1 DEF Surjection
  <2> HIDE DEF p
  <2>4. IsFiniteSet(1..m) /\ Cardinality(1..m) = m  BY <1>3, FS_Interval
  <2> QED  BY <2>2, <2>3, <2>4, FS_Injection
<1> HIDE DEF L, n
<1>5. \A i \in 1..n : L[i] \in R  BY <1>1 DEF InOrder, n
<1>6. f \in [1..n -> 1..n]  BY <1>3, <1>4, <1>5
<1>7. \A i, j \in 1..n : i < j => f[i] < f[j]
  <2> SUFFICES ASSUME NEW i \in 1..n, NEW j \in 1..n, i < j PROVE f[i] < f[j]  OBVIOUS
  <2>1. BarcodeSlots!Before(L[i], L[j]) /\ i # j  BY <1>1, <1>2 DEF InOrder, n
  <2>2. L[i] \in R /\ L[j] \in R /\ L[i] # L[j]  BY <1>1, <1>5, <2>1 DEF InOrder, n
  <2>3. L[i].position # L[j].position  BY <1>3, <2>2
  <2> QED  BY <2>1, <2>3 DEF BarcodeSlots!Before
<1>8. \A i \in 1..n : f[i] = L[i].position  OBVIOUS
<1> HIDE DEF f
<1> QED  BY <1>2, <1>6, <1>7, <1>8, IncreasingIsIdentity DEF L, n

\* Of rows in their places the list is known.
LEMMA SlotCompactList ==
  ASSUME BarcodeSlots!BarcodeAssumptions, NEW R, Keyed(R), BarcodeSlots!Compact(R)
  PROVE  \E n \in Nat :
           /\ Len(BarcodeSlots!Ordered(R)) = n /\ DOMAIN BarcodeSlots!Ordered(R) = 1..n
           /\ \A i \in 1..n : BarcodeSlots!Ordered(R)[i] \in R
                /\ BarcodeSlots!Ordered(R)[i].position = i
           /\ \A b \in R : b.position \in 1..n /\ b = BarcodeSlots!Ordered(R)[b.position]
<1>1. InOrder(BarcodeSlots!Ordered(R), R)  BY SlotOrderedIs
<1>2. \A i \in 1..Cardinality(R) : BarcodeSlots!Ordered(R)[i].position = i
  BY SlotCompactListed
<1> QED  BY <1>1, <1>2 DEF InOrder

-----------------------------------------------------------------------------
(* The barcodes: what each change makes of rows in their places *)

LEMMA SlotClearCompact ==
  ASSUME BarcodeSlots!BarcodeAssumptions, NEW R, Keyed(R), BarcodeSlots!Compact(R),
         NEW slot \in DOMAIN BarcodeSlots!Ordered(R), slot = Len(BarcodeSlots!Ordered(R))
  PROVE  BarcodeSlots!Compact(BarcodeSlots!Without(R, {BarcodeSlots!Ordered(R)[slot].id}))
<1> DEFINE L == BarcodeSlots!Ordered(R)
<1>1. PICK n \in Nat :
        /\ Len(L) = n /\ DOMAIN L = 1..n
        /\ \A i \in 1..n : L[i] \in R /\ L[i].position = i
        /\ \A b \in R : b.position \in 1..n /\ b = L[b.position]
  BY SlotCompactList
<1> HIDE DEF L
<1>2. slot = n /\ n \in 1..n /\ n - 1 \in Nat  BY <1>1 DEF L
<1>3. \A b \in R : b.id = L[n].id => b = L[n]  BY <1>1, <1>2 DEF Keyed
<1> DEFINE S == BarcodeSlots!Without(R, {L[n].id})
<1>4. \A b \in S : b \in R /\ b # L[n]  BY DEF BarcodeSlots!Without
<1>5. \A b \in S : b.position \in 1..(n - 1)
  <2> SUFFICES ASSUME NEW b \in S PROVE b.position \in 1..(n - 1)  OBVIOUS
  <2>1. b.position \in 1..n /\ b.position # n  BY <1>1, <1>4
  <2> QED  BY <2>1
<1>6. \A b, c \in S : b.position = c.position => b = c  BY <1>1, <1>4
<1>7. \A i \in 1..(n - 1) : \E b \in S : b.position = i
  <2> SUFFICES ASSUME NEW i \in 1..(n - 1) PROVE \E b \in S : b.position = i  OBVIOUS
  <2>1. i \in 1..n /\ i # n  OBVIOUS
  <2>2. L[i] \in R /\ L[i].position = i /\ L[i] # L[n]  BY <1>1, <1>2, <2>1
  <2>3. L[i] \in S  BY <1>3, <2>2 DEF BarcodeSlots!Without
  <2> QED  BY <2>2, <2>3
<1> HIDE DEF S
<1>8. BarcodeSlots!Compact(S)  BY <1>2, <1>5, <1>6, <1>7 DEF BarcodeSlots!Compact
<1> QED  BY <1>2, <1>8 DEF S, L

LEMMA SlotRetypeCompact ==
  ASSUME BarcodeSlots!BarcodeAssumptions, NEW R, Keyed(R), BarcodeSlots!Compact(R),
         NEW slot \in DOMAIN BarcodeSlots!Ordered(R), NEW c \in Codes
  PROVE  BarcodeSlots!Compact(BarcodeSlots!Without(R, {BarcodeSlots!Ordered(R)[slot].id}) \cup {[BarcodeSlots!Ordered(R)[slot] EXCEPT !.code = c]})
<1> DEFINE L == BarcodeSlots!Ordered(R)
           b == L[slot]
           new == [b EXCEPT !.code = c]
<1>1. PICK n \in Nat :
        /\ Len(L) = n /\ DOMAIN L = 1..n
        /\ \A i \in 1..n : L[i] \in R /\ L[i].position = i
        /\ \A x \in R : x.position \in 1..n /\ x = L[x.position]
  BY SlotCompactList
<1> HIDE DEF L
<1>2. slot \in 1..n  BY <1>1 DEF L
<1>3. b \in R /\ b.position = slot /\ b \in BarcodeSlots!Barcode
  BY <1>1, <1>2 DEF Keyed
<1>4. new.position = slot  BY <1>3 DEF BarcodeSlots!Barcode
<1>5. \A x \in R : x.id = b.id => x = b  BY <1>3 DEF Keyed
<1> DEFINE S == BarcodeSlots!Without(R, {b.id}) \cup {new}
<1> HIDE DEF b, new
<1>6. \A x \in S : x = new \/ (x \in R /\ x # b)  BY DEF BarcodeSlots!Without
<1>7. \A x \in R : x # b => x.position # slot  BY <1>1, <1>2, <1>3
<1>8. \A x \in S : x.position \in 1..n  BY <1>1, <1>2, <1>4, <1>6
<1>9. \A x, y \in S : x.position = y.position => x = y  BY <1>1, <1>4, <1>6, <1>7
<1>10. \A i \in 1..n : \E x \in S : x.position = i
  <2> SUFFICES ASSUME NEW i \in 1..n PROVE \E x \in S : x.position = i  OBVIOUS
  <2>1. CASE i = slot  BY <1>4, <2>1
  <2>2. CASE i # slot
    <3>1. L[i] \in R /\ L[i].position = i /\ L[i] # b  BY <1>1, <1>3, <2>2
    <3>2. L[i] \in S  BY <1>5, <3>1 DEF BarcodeSlots!Without
    <3> QED  BY <3>1, <3>2
  <2> QED  BY <2>1, <2>2
<1> HIDE DEF S
<1>11. BarcodeSlots!Compact(S)  BY <1>8, <1>9, <1>10 DEF BarcodeSlots!Compact
<1> QED  BY <1>11 DEF S, L, b, new

LEMMA SlotAddCompact ==
  ASSUME BarcodeSlots!BarcodeAssumptions, NEW R, Keyed(R), BarcodeSlots!Compact(R),
         NEW new, new.position = Len(BarcodeSlots!Ordered(R)) + 1
  PROVE  BarcodeSlots!Compact(R \cup {new})
<1> DEFINE L == BarcodeSlots!Ordered(R)
<1>1. PICK n \in Nat :
        /\ Len(L) = n /\ DOMAIN L = 1..n
        /\ \A i \in 1..n : L[i] \in R /\ L[i].position = i
        /\ \A x \in R : x.position \in 1..n /\ x = L[x.position]
  BY SlotCompactList
<1> HIDE DEF L
<1>2. new.position = n + 1  BY <1>1 DEF L
<1>3. \A x \in R : x.position \in 1..(n + 1) /\ x.position # n + 1  BY <1>1
<1>4. \A x \in R \cup {new} : x.position \in 1..(n + 1)  BY <1>2, <1>3
<1>5. \A x, y \in R \cup {new} : x.position = y.position => x = y  BY <1>1, <1>2, <1>3
<1>6. \A i \in 1..(n + 1) : \E x \in R \cup {new} : x.position = i
  <2> SUFFICES ASSUME NEW i \in 1..(n + 1) PROVE \E x \in R \cup {new} : x.position = i  OBVIOUS
  <2>1. CASE i = n + 1  BY <1>2, <2>1
  <2>2. CASE i # n + 1
    <3>1. i \in 1..n  BY <2>2
    <3> QED  BY <1>1, <3>1
  <2> QED  BY <2>1, <2>2
<1> QED  BY <1>4, <1>5, <1>6 DEF BarcodeSlots!Compact

\* The numbers SavePage gives.
PlaceOf(kept, i) == Cardinality({j \in kept : j <= i})

LEMMA SlotPlaces ==
  ASSUME NEW n \in Nat, NEW kept, \A i \in kept : i \in 1..n
  PROVE  /\ IsFiniteSet(kept) /\ Cardinality(kept) \in 0..n
         /\ \A i \in kept : PlaceOf(kept, i) \in 1..Cardinality(kept)
         /\ \A i, j \in kept : PlaceOf(kept, i) = PlaceOf(kept, j) => i = j
         /\ \A k \in 1..Cardinality(kept) : \E i \in kept : PlaceOf(kept, i) = k
<1> DEFINE Earlier == {q \in kept \X kept : q[1] < q[2]}
           rank == Rank(kept, Earlier)
<1>1. IsFiniteSet(kept) /\ Cardinality(kept) \in 0..n
  <2>1. IsFiniteSet(1..n) /\ Cardinality(1..n) = n  BY FS_Interval
  <2>2. IsFiniteSet(kept) /\ Cardinality(kept) <= n
    <3>1. kept \in SUBSET (1..n)  OBVIOUS
    <3> QED  BY <2>1, <3>1, FS_Subset
  <2> QED  BY <2>2, FS_CardinalityType
<1>2. \A x \in kept : x \in Nat  OBVIOUS
<1>3. \A x, y \in kept : <<x, y>> \in Earlier <=> x < y  OBVIOUS
<1>4. Earlier \in SUBSET (kept \X kept)  OBVIOUS
<1> HIDE DEF Earlier
<1>5. LinearOrder(kept, Earlier)
  <2>1. \A x \in kept : <<x, x>> \notin Earlier  BY <1>2, <1>3
  <2>2. \A x, y, z \in kept :
           <<x, y>> \in Earlier /\ <<y, z>> \in Earlier => <<x, z>> \in Earlier
    BY <1>2, <1>3
  <2>3. \A x, y \in kept : x # y => <<x, y>> \in Earlier \/ <<y, x>> \in Earlier
    BY <1>2, <1>3
  <2> QED  BY <1>4, <2>1, <2>2, <2>3 DEF LinearOrder
<1>6. rank = Rank(kept, Earlier)  OBVIOUS
<1> HIDE DEF rank
<1>7. /\ rank \in [kept -> 1..Cardinality(kept)]
      /\ \A x, y \in kept : rank[x] = rank[y] => x = y
      /\ \A k \in 1..Cardinality(kept) : \E x \in kept : rank[x] = k
  <2>1. IsFiniteSet(kept)  BY <1>1
  <2>2. /\ rank \in [kept -> 1..Cardinality(kept)]
        /\ \A x, y \in kept : <<x, y>> \in Earlier => rank[x] < rank[y]
        /\ \A x, y \in kept : rank[x] = rank[y] => x = y
        /\ \A k \in 1..Cardinality(kept) : \E x \in kept : rank[x] = k
    BY <2>1, <1>5, <1>6, Ranks
  <2> QED  BY <2>2
<1>8. ASSUME NEW i \in kept PROVE PlaceOf(kept, i) = rank[i]
  <2> DEFINE Below == {y \in kept : <<y, i>> \in Earlier}
  <2>1. rank[i] = Cardinality(Below) + 1  BY <1>6 DEF Rank
  <2>2. {j \in kept : j <= i} = Below \cup {i} /\ i \notin Below
    <3>1. \A j \in kept : j <= i <=> j < i \/ j = i  BY <1>2
    <3>2. \A j \in kept : j \in Below <=> j < i  BY <1>3
    <3>3. ~ (i < i)  BY <1>2
    <3>4. Below \subseteq kept  OBVIOUS
    <3> HIDE DEF Below
    <3> QED  BY <3>1, <3>2, <3>3, <3>4
  <2>3. IsFiniteSet(Below)  BY <1>1, FS_Subset
  <2> HIDE DEF Below
  <2>4. Cardinality(Below \cup {i}) = Cardinality(Below) + 1
    BY <2>2, <2>3, FS_AddElement
  <2> QED  BY <2>1, <2>2, <2>4 DEF PlaceOf
<1> HIDE DEF Earlier
<1> QED  BY <1>1, <1>7, <1>8

\* What the edit page saves, and the keys and places of it.
KeptRows(L, kept) == {[L[i] EXCEPT !.position = PlaceOf(kept, i)] : i \in kept}
AddedRows(last, c, kept) ==
  IF c = Blank THEN {} ELSE {[id |-> last + 1, code |-> c, position |-> Cardinality(kept) + 1]}
SavedRows(L, kept, last, c) == KeptRows(L, kept) \cup AddedRows(last, c, kept)

KeyedList(L, last) ==
  /\ L \in Seq(BarcodeSlots!Barcode)
  /\ \A i \in DOMAIN L : L[i].id <= last
  /\ \A i, j \in DOMAIN L : L[i].id = L[j].id => i = j

LEMMA SlotListShort ==
  ASSUME BarcodeSlots!BarcodeAssumptions, NEW L, NEW last \in Nat, KeyedList(L, last)
  PROVE  Len(L) \in Nat /\ DOMAIN L = 1..Len(L) /\ Len(L) <= last
<1> DEFINE n == Len(L)
           f == [i \in 1..n |-> L[i].id]
<1>1. n \in Nat /\ DOMAIN L = 1..n /\ \A i \in 1..n : L[i] \in BarcodeSlots!Barcode
  BY DEF KeyedList
<1>2. \A i \in 1..n : L[i].id \in 1..last
  <2>1. \A i \in 1..n : L[i].id \in 1..MaxRows /\ L[i].id <= last
    BY <1>1, SlotBarcodeFields DEF KeyedList
  <2>2. MaxRows \in Nat  BY SlotBarcodeFields
  <2> QED  BY <2>1, <2>2
<1>3. \A i, j \in 1..n : L[i].id = L[j].id => i = j  BY <1>1 DEF KeyedList
<1> HIDE DEF n
<1>4. f \in Injection(1..n, 1..last)  BY <1>2, <1>3 DEF Injection, IsInjective
<1> HIDE DEF f
<1>5. IsFiniteSet(1..last) /\ Cardinality(1..last) = last /\ Cardinality(1..n) = n
  BY <1>1, FS_Interval
<1>6. n <= last  BY <1>4, <1>5, FS_Injection
<1> QED  BY <1>1, <1>6 DEF n

\* The fields of the rows that are saved.
LEMMA SlotSavedAre ==
  ASSUME BarcodeSlots!BarcodeAssumptions, NEW L, NEW last \in Nat, KeyedList(L, last),
         NEW kept, \A i \in kept : i \in DOMAIN L, NEW c \in Codes \cup {Blank},
         last + Cardinality(AddedRows(last, c, kept)) <= MaxRows
  PROVE  /\ IsFiniteSet(kept) /\ Cardinality(kept) \in 0..Len(L) /\ Len(L) <= last
         /\ \A b \in KeptRows(L, kept) : \E i \in kept :
              b = [id |-> L[i].id, code |-> L[i].code, position |-> PlaceOf(kept, i)]
         /\ \A i \in kept :
              [id |-> L[i].id, code |-> L[i].code, position |-> PlaceOf(kept, i)]
                \in KeptRows(L, kept)
         /\ last + Cardinality(AddedRows(last, c, kept)) \in Nat
         /\ Cardinality(AddedRows(last, c, kept)) = IF c = Blank THEN 0 ELSE 1
<1>1. Len(L) \in Nat /\ DOMAIN L = 1..Len(L) /\ Len(L) <= last  BY SlotListShort
<1>2. IsFiniteSet(kept) /\ Cardinality(kept) \in 0..Len(L)  BY <1>1, SlotPlaces
<1>3. ASSUME NEW i \in kept
      PROVE  [L[i] EXCEPT !.position = PlaceOf(kept, i)]
               = [id |-> L[i].id, code |-> L[i].code, position |-> PlaceOf(kept, i)]
  <2>1. L[i] \in BarcodeSlots!Barcode  BY <1>1, <1>3 DEF KeyedList
  <2> QED  BY <2>1 DEF BarcodeSlots!Barcode
<1>4. Cardinality(AddedRows(last, c, kept)) = IF c = Blank THEN 0 ELSE 1
  BY FS_EmptySet, FS_Singleton DEF AddedRows
<1>5. /\ \A b \in KeptRows(L, kept) : \E i \in kept :
           b = [id |-> L[i].id, code |-> L[i].code, position |-> PlaceOf(kept, i)]
      /\ \A i \in kept :
           [id |-> L[i].id, code |-> L[i].code, position |-> PlaceOf(kept, i)]
             \in KeptRows(L, kept)
  BY <1>3 DEF KeptRows
<1>6. last + Cardinality(AddedRows(last, c, kept)) \in Nat  BY <1>4
<1> QED  BY <1>1, <1>2, <1>4, <1>5, <1>6

LEMMA SlotSavedCompact ==
  ASSUME BarcodeSlots!BarcodeAssumptions, NEW L, NEW last \in Nat, KeyedList(L, last),
         NEW kept, \A i \in kept : i \in DOMAIN L, NEW c \in Codes \cup {Blank},
         last + Cardinality(AddedRows(last, c, kept)) <= MaxRows
  PROVE  BarcodeSlots!Compact(SavedRows(L, kept, last, c))
<1> DEFINE n == Cardinality(kept)
           K == KeptRows(L, kept)
<1>1. Len(L) \in Nat /\ DOMAIN L = 1..Len(L)  BY SlotListShort
<1>2. /\ n \in Nat
      /\ \A i \in kept : PlaceOf(kept, i) \in 1..n
      /\ \A i, j \in kept : PlaceOf(kept, i) = PlaceOf(kept, j) => i = j
      /\ \A k \in 1..n : \E i \in kept : PlaceOf(kept, i) = k
  <2>1. \A i \in kept : i \in 1..Len(L)  BY <1>1
  <2> QED  BY <1>1, <2>1, SlotPlaces
<1> HIDE DEF n, K
<1>3. /\ \A b \in K : \E i \in kept :
           b = [id |-> L[i].id, code |-> L[i].code, position |-> PlaceOf(kept, i)]
      /\ \A i \in kept :
           [id |-> L[i].id, code |-> L[i].code, position |-> PlaceOf(kept, i)] \in K
  BY SlotSavedAre DEF K
<1>4. \A b \in K : b.position \in 1..n  BY <1>2, <1>3
<1>5. \A b, d \in K : b.position = d.position => b = d
  <2> SUFFICES ASSUME NEW b \in K, NEW d \in K, b.position = d.position PROVE b = d  OBVIOUS
  <2>1. PICK i \in kept :
          b = [id |-> L[i].id, code |-> L[i].code, position |-> PlaceOf(kept, i)]
    BY <1>3
  <2>2. PICK j \in kept :
          d = [id |-> L[j].id, code |-> L[j].code, position |-> PlaceOf(kept, j)]
    BY <1>3
  <2>3. i = j  BY <1>2, <2>1, <2>2
  <2> QED  BY <2>1, <2>2, <2>3
<1>6. \A k \in 1..n : \E b \in K : b.position = k
  <2> SUFFICES ASSUME NEW k \in 1..n PROVE \E b \in K : b.position = k  OBVIOUS
  <2>1. PICK i \in kept : PlaceOf(kept, i) = k  BY <1>2, Zenon
  <2> DEFINE b == [id |-> L[i].id, code |-> L[i].code, position |-> PlaceOf(kept, i)]
  <2>2. b \in K /\ b.position = k  BY <1>3, <2>1
  <2> QED  BY <2>2
<1>7. CASE c = Blank
  <2>1. SavedRows(L, kept, last, c) = K  BY <1>7 DEF SavedRows, AddedRows, K
  <2> QED  BY <1>2, <1>4, <1>5, <1>6, <2>1 DEF BarcodeSlots!Compact
<1>8. CASE c # Blank
  <2> DEFINE new == [id |-> last + 1, code |-> c, position |-> n + 1]
  <2>1. SavedRows(L, kept, last, c) = K \cup {new}
    BY <1>8 DEF SavedRows, AddedRows, K, n
  <2>2. new.position = n + 1  OBVIOUS
  <2> HIDE DEF new
  <2>3. \A b \in K : b.position \in 1..(n + 1) /\ b.position # n + 1  BY <1>2, <1>4
  <2>4. \A b \in K \cup {new} : b.position \in 1..(n + 1)  BY <1>2, <2>2, <2>3
  <2>5. \A b, d \in K \cup {new} : b.position = d.position => b = d  BY <1>5, <2>2, <2>3
  <2>6. \A k \in 1..(n + 1) : \E b \in K \cup {new} : b.position = k
    <3> SUFFICES ASSUME NEW k \in 1..(n + 1) PROVE \E b \in K \cup {new} : b.position = k
      OBVIOUS
    <3>1. CASE k = n + 1  BY <2>2, <3>1
    <3>2. CASE k # n + 1
      <4>1. k \in 1..n  BY <1>2, <3>2
      <4> QED  BY <1>6, <4>1
    <3> QED  BY <3>1, <3>2
  <2>7. n + 1 \in Nat  BY <1>2
  <2> QED  BY <2>1, <2>4, <2>5, <2>6, <2>7 DEF BarcodeSlots!Compact
<1> QED  BY <1>7, <1>8

\* The keys of what is in the database after a save.
LEMMA SlotSavedKeyed ==
  ASSUME BarcodeSlots!BarcodeAssumptions, NEW L, NEW last \in Nat, KeyedList(L, last),
         NEW kept, \A i \in kept : i \in DOMAIN L, NEW c \in Codes \cup {Blank},
         last + Cardinality(AddedRows(last, c, kept)) <= MaxRows,
         NEW R, Keyed(R), \A b \in R : b.id <= last
  PROVE  LET S == SavedRows(L, kept, last, c) \cup BarcodeSlots!Without(R, BarcodeSlots!IdsOf(L))
         IN  Keyed(S) /\ \A b \in S : b.id <= last + Cardinality(AddedRows(last, c, kept))
<1> DEFINE n == Cardinality(kept)
           K == KeptRows(L, kept)
           A == AddedRows(last, c, kept)
           W == BarcodeSlots!Without(R, BarcodeSlots!IdsOf(L))
           top == last + Cardinality(A)
<1>1. /\ Len(L) \in Nat /\ DOMAIN L = 1..Len(L) /\ Len(L) <= last /\ MaxRows \in Nat
      /\ \A i \in 1..Len(L) : L[i] \in BarcodeSlots!Barcode
  BY SlotListShort, SlotBarcodeFields DEF KeyedList
<1>2. n \in 0..Len(L) /\ \A i \in kept : PlaceOf(kept, i) \in 1..n
  <2>1. \A i \in kept : i \in 1..Len(L)  BY <1>1
  <2> QED  BY <1>1, <2>1, SlotPlaces
<1>3. /\ \A b \in K : \E i \in kept :
           b = [id |-> L[i].id, code |-> L[i].code, position |-> PlaceOf(kept, i)]
      /\ top \in Nat /\ top = last + (IF c = Blank THEN 0 ELSE 1) /\ top <= MaxRows
  <2>1. Cardinality(A) = (IF c = Blank THEN 0 ELSE 1) /\ top \in Nat /\ top <= MaxRows
    BY SlotSavedAre
  <2>2. \A b \in K : \E i \in kept :
           b = [id |-> L[i].id, code |-> L[i].code, position |-> PlaceOf(kept, i)]
    BY SlotSavedAre
  <2> HIDE DEF A, K
  <2> QED  BY <2>1, <2>2
<1>4. \A b \in A : c # Blank /\ b = [id |-> last + 1, code |-> c, position |-> n + 1]
  BY DEF AddedRows
<1> HIDE DEF K, A, W, n
<1>5. ASSUME NEW b \in K
      PROVE  /\ b \in BarcodeSlots!Barcode /\ b.id <= last /\ b.id \in BarcodeSlots!IdsOf(L)
                  /\ b.id \in Nat
             /\ \A d \in K : b.id = d.id => b = d
  <2>1. PICK i \in kept :
          b = [id |-> L[i].id, code |-> L[i].code, position |-> PlaceOf(kept, i)]
    BY <1>3
  <2>2. i \in 1..Len(L) /\ L[i] \in BarcodeSlots!Barcode  BY <1>1
  <2>3. L[i].id \in 1..MaxRows /\ L[i].code \in Codes /\ L[i].id <= last /\ L[i].id \in Nat
    BY <1>1, <2>2, SlotBarcodeFields DEF KeyedList
  <2>4. PlaceOf(kept, i) \in 1..(MaxRows + 1)
    <3>1. last <= MaxRows  BY <1>1, <1>3
    <3>2. PlaceOf(kept, i) \in 1..n  BY <1>2
    <3> QED  BY <1>1, <1>2, <3>1, <3>2
  <2>5. b \in BarcodeSlots!Barcode  BY <2>1, <2>3, <2>4 DEF BarcodeSlots!Barcode
  <2>6. b.id \in BarcodeSlots!IdsOf(L)  BY <1>1, <2>1, <2>2 DEF BarcodeSlots!IdsOf
  <2>7. ASSUME NEW d \in K, b.id = d.id PROVE b = d
    <3>1. PICK j \in kept :
            d = [id |-> L[j].id, code |-> L[j].code, position |-> PlaceOf(kept, j)]
      BY <1>3
    <3>2. L[i].id = L[j].id /\ j \in DOMAIN L  BY <2>1, <2>7, <3>1
    <3>3. i = j  BY <1>1, <2>2, <3>2 DEF KeyedList
    <3> QED  BY <2>1, <3>1, <3>3
  <2> QED  BY <2>1, <2>3, <2>5, <2>6, <2>7
<1>6. ASSUME NEW b \in A
      PROVE  /\ b \in BarcodeSlots!Barcode /\ b.id = last + 1 /\ b.id <= top
             /\ \A d \in A : b = d
  <2>1. c # Blank /\ b = [id |-> last + 1, code |-> c, position |-> n + 1]  BY <1>4
  <2>2. top = last + 1  BY <1>3, <2>1
  <2>3. last + 1 \in 1..MaxRows /\ n + 1 \in 1..(MaxRows + 1)  BY <1>1, <1>2, <1>3, <2>2
  <2>4. c \in Codes  BY <2>1
  <2>5. b \in BarcodeSlots!Barcode  BY <2>1, <2>3, <2>4 DEF BarcodeSlots!Barcode
  <2> QED  BY <1>4, <2>1, <2>2, <2>3, <2>5
<1>7. \A b \in W : /\ b \in R /\ b \in BarcodeSlots!Barcode /\ b.id \notin BarcodeSlots!IdsOf(L)
                 /\ b.id <= last
                   /\ b.id \in Nat
  BY SlotBarcodeFields DEF W, BarcodeSlots!Without, Keyed
<1>8. \A b, d \in W : b.id = d.id => b = d  BY <1>7 DEF Keyed
<1> DEFINE S == (K \cup A) \cup W
<1> HIDE DEF top
<1>9. \A b \in S : b \in BarcodeSlots!Barcode /\ b.id <= top
  <2>1. \A x \in Nat : x <= last => x <= top  BY <1>3
  <2> QED  BY <1>5, <1>6, <1>7, <2>1
<1>10. \A b, d \in S : b.id = d.id => b = d
  <2>1. \A b \in A : \A x \in Nat : x <= last => b.id # x  BY <1>6
  <2>2. \A b \in A : \A d \in K \cup W : b.id # d.id  BY <1>5, <1>7, <2>1
  <2>3. \A b \in K : \A d \in W : b.id # d.id  BY <1>5, <1>7
  <2> QED  BY <1>5, <1>6, <1>8, <2>2, <2>3
<1>11. Keyed(S)  BY <1>9, <1>10 DEF Keyed
<1> QED  BY <1>9, <1>11 DEF SavedRows, K, A, W, top

-----------------------------------------------------------------------------
(* The barcodes: every step *)

LEMMA SlotLoaded ==
  ASSUME BarcodeSlots!BarcodeAssumptions, BarcodeSlots!IInv
  PROVE  /\ lastId \in Nat /\ lastId <= MaxRows /\ MaxRows \in Nat
         /\ Keyed(barcodes) /\ \A b \in barcodes : b.id <= lastId
         /\ \A u \in Users : view[u] # Nothing =>
              view[u] \in BarcodeSlots!Views /\ KeyedList(BarcodeSlots!List(u), lastId)
<1>1. MaxRows \in Nat /\ lastId \in Nat /\ lastId <= MaxRows
  BY SlotBarcodeFields DEF BarcodeSlots!IInv, BarcodeSlots!TypeOK
<1>2. Keyed(barcodes) /\ \A b \in barcodes : b.id <= lastId
  BY DEF BarcodeSlots!IInv, BarcodeSlots!TypeOK, BarcodeSlots!KeysUnique, Keyed
<1>3. ASSUME NEW u \in Users, view[u] # Nothing
      PROVE  view[u] \in BarcodeSlots!Views /\ KeyedList(BarcodeSlots!List(u), lastId)
  <2>1. view[u] \in BarcodeSlots!Views
    BY <1>3 DEF BarcodeSlots!IInv, BarcodeSlots!TypeOK
  <2>2. BarcodeSlots!List(u) \in Seq(BarcodeSlots!Barcode)
    BY <2>1 DEF BarcodeSlots!Views, BarcodeSlots!List
  <2> QED  BY <1>3, <2>1, <2>2 DEF BarcodeSlots!IInv, BarcodeSlots!KeysUnique, KeyedList
<1> QED  BY <1>1, <1>2, <1>3

\* A list is closed, the rows keep their keys.
LEMMA SlotClosed ==
  ASSUME BarcodeSlots!BarcodeAssumptions, BarcodeSlots!IInv, NEW u \in Users, BarcodeSlots!Close(u),
         lastId' \in 0..MaxRows, lastId <= lastId',
         Keyed(barcodes'), \A b \in barcodes' : b.id <= lastId',
         gap' \in BOOLEAN, outdated' \in BOOLEAN,
         ~ gap' /\ ~ outdated' => BarcodeSlots!Compact(barcodes')
  PROVE  BarcodeSlots!IInv'
<1>1. view \in [Users -> BarcodeSlots!Views \cup {Nothing}]
  BY DEF BarcodeSlots!IInv, BarcodeSlots!TypeOK
<1>2. view' \in [Users -> BarcodeSlots!Views \cup {Nothing}]
  BY <1>1 DEF BarcodeSlots!Close
<1>3. BarcodeSlots!TypeOK'  BY <1>2 DEF BarcodeSlots!TypeOK, Keyed
<1>4. ASSUME NEW w \in Users, view'[w] # Nothing
      PROVE  /\ \A i \in DOMAIN (BarcodeSlots!List(w)') : BarcodeSlots!List(w)'[i].id <= lastId'
             /\ \A i, j \in DOMAIN (BarcodeSlots!List(w)') : BarcodeSlots!List(w)'[i].id
                  = BarcodeSlots!List(w)'[j].id => i = j
  <2>1. w # u /\ view'[w] = view[w]  BY <1>1, <1>4 DEF BarcodeSlots!Close
  <2>2. BarcodeSlots!List(w)' = BarcodeSlots!List(w)  BY <2>1 DEF BarcodeSlots!List
  <2>3. KeyedList(BarcodeSlots!List(w), lastId)  BY <1>4, <2>1, SlotLoaded
  <2>4. \A i \in DOMAIN BarcodeSlots!List(w) : BarcodeSlots!List(w)[i].id \in Nat
          /\ BarcodeSlots!List(w)[i].id <= lastId
    BY <2>3, SlotBarcodeFields DEF KeyedList
  <2>5. lastId \in Nat /\ lastId' \in Nat  BY SlotLoaded
  <2>6. \A i \in DOMAIN BarcodeSlots!List(w) : BarcodeSlots!List(w)[i].id <= lastId'
    BY <2>4, <2>5
  <2> QED  BY <2>2, <2>3, <2>6 DEF KeyedList
<1>5. BarcodeSlots!KeysUnique'  BY <1>4 DEF BarcodeSlots!KeysUnique, Keyed
<1> QED  BY <1>3, <1>5 DEF BarcodeSlots!IInv

LEMMA SlotInitIInv ==
  ASSUME BarcodeSlots!BarcodeAssumptions, BarcodeSlots!Init
  PROVE  BarcodeSlots!IInv
<1>1. BarcodeSlots!TypeOK
  <2>1. 0 \in 0..MaxRows  BY SlotBarcodeFields
  <2> QED  BY <2>1 DEF BarcodeSlots!Init, BarcodeSlots!TypeOK
<1>2. BarcodeSlots!KeysUnique  BY DEF BarcodeSlots!Init, BarcodeSlots!KeysUnique
<1>3. BarcodeSlots!Compact(barcodes)
  <2>1. 0 \in Nat /\ \A i \in 1..0 : FALSE  OBVIOUS
  <2> QED  BY <2>1 DEF BarcodeSlots!Init, BarcodeSlots!Compact
<1> QED  BY <1>1, <1>2, <1>3 DEF BarcodeSlots!IInv

LEMMA SlotStepIInv ==
  ASSUME BarcodeSlots!BarcodeAssumptions, BarcodeSlots!IInv, [BarcodeSlots!Next]_(BarcodeSlots!vars)
  PROVE  BarcodeSlots!IInv'
<1>1. CASE UNCHANGED BarcodeSlots!vars
  <2>1. UNCHANGED <<barcodes, lastId, view, gap, outdated>>
    BY <1>1 DEF BarcodeSlots!vars
  <2>2. BarcodeSlots!TypeOK'  BY <2>1 DEF BarcodeSlots!IInv, BarcodeSlots!TypeOK
  <2>3. BarcodeSlots!KeysUnique'
    BY <2>1 DEF BarcodeSlots!IInv, BarcodeSlots!KeysUnique, BarcodeSlots!List
  <2>4. (~ gap /\ ~ outdated => BarcodeSlots!Compact(barcodes))'
    BY <2>1 DEF BarcodeSlots!IInv
  <2> QED  BY <2>2, <2>3, <2>4 DEF BarcodeSlots!IInv
<1>2. ASSUME NEW u \in Users, NEW open \in BOOLEAN, BarcodeSlots!Look(u, open)
      PROVE  BarcodeSlots!IInv'
  <2> DEFINE L == BarcodeSlots!Ordered(barcodes)
  <2>1. Keyed(barcodes) /\ \A b \in barcodes : b.id <= lastId  BY SlotLoaded
  <2>2. InOrder(L, barcodes)  BY <2>1, SlotOrderedIs
  <2>3. L \in Seq(BarcodeSlots!Barcode)
    <3>1. Seq(barcodes) \subseteq Seq(BarcodeSlots!Barcode)  BY <2>1 DEF Keyed
    <3> QED  BY <2>2, <3>1 DEF InOrder
  <2>4. \A i \in DOMAIN L : L[i] \in barcodes  BY <2>2 DEF InOrder
  <2>5. \A i, j \in DOMAIN L : L[i].id = L[j].id => i = j
    <3>1. \A i, j \in DOMAIN L : L[i].id = L[j].id => L[i] = L[j]
      BY <2>1, <2>4 DEF Keyed
    <3> QED  BY <2>2, <3>1 DEF InOrder
  <2> HIDE DEF L
  <2> DEFINE new == [page |-> open, list |-> L]
  <2>6. new \in BarcodeSlots!Views /\ new.list = L  BY <2>3 DEF BarcodeSlots!Views
  <2>7. view \in [Users -> BarcodeSlots!Views \cup {Nothing}]
    BY DEF BarcodeSlots!IInv, BarcodeSlots!TypeOK
  <2>8. view' = [view EXCEPT ![u] = new]  BY <1>2 DEF BarcodeSlots!Look, L
  <2>9. UNCHANGED <<barcodes, lastId, gap, outdated>>  BY <1>2 DEF BarcodeSlots!Look
  <2> HIDE DEF new
  <2>10. view' \in [Users -> BarcodeSlots!Views \cup {Nothing}]  BY <2>6, <2>7, <2>8
  <2>11. BarcodeSlots!TypeOK'  BY <2>9, <2>10 DEF BarcodeSlots!IInv, BarcodeSlots!TypeOK
  <2>12. ASSUME NEW w \in Users, view'[w] # Nothing
         PROVE  /\ \A i \in DOMAIN (BarcodeSlots!List(w)') : BarcodeSlots!List(w)'[i].id <= lastId'
                /\ \A i, j \in DOMAIN (BarcodeSlots!List(w)') : BarcodeSlots!List(w)'[i].id
                     = BarcodeSlots!List(w)'[j].id => i = j
    <3>1. CASE w = u
      <4>1. BarcodeSlots!List(w)' = L  BY <2>6, <2>7, <2>8, <3>1 DEF BarcodeSlots!List
      <4>2. \A i \in DOMAIN L : L[i].id <= lastId  BY <2>1, <2>4
      <4> QED  BY <2>5, <2>9, <4>1, <4>2
    <3>2. CASE w # u
      <4>1. view'[w] = view[w]  BY <2>7, <2>8, <3>2
      <4>2. BarcodeSlots!List(w)' = BarcodeSlots!List(w)  BY <4>1 DEF BarcodeSlots!List
      <4>3. KeyedList(BarcodeSlots!List(w), lastId)  BY <2>12, <4>1, SlotLoaded
      <4> QED  BY <2>9, <4>2, <4>3 DEF KeyedList
    <3> QED  BY <3>1, <3>2
  <2>13. BarcodeSlots!KeysUnique'
    BY <2>1, <2>9, <2>12 DEF BarcodeSlots!KeysUnique, Keyed
  <2>14. (~ gap /\ ~ outdated => BarcodeSlots!Compact(barcodes))'
    BY <2>9 DEF BarcodeSlots!IInv
  <2> QED  BY <2>11, <2>13, <2>14 DEF BarcodeSlots!IInv
<1>3. ASSUME NEW u \in Users, NEW slot \in 1..GRID_SLOT_COUNT, BarcodeSlots!ClearSlot(u, slot)
      PROVE  BarcodeSlots!IInv'
  <2>1. /\ view[u] # Nothing /\ slot \in DOMAIN BarcodeSlots!List(u)
        /\ barcodes' = BarcodeSlots!Without(barcodes, {BarcodeSlots!List(u)[slot].id})
        /\ gap' = (gap \/ slot < Len(BarcodeSlots!List(u)))
        /\ outdated' = (outdated \/ ~ BarcodeSlots!Fresh(u))
        /\ BarcodeSlots!Close(u) /\ lastId' = lastId
    BY <1>3 DEF BarcodeSlots!ClearSlot, BarcodeSlots!Editing
  <2>2. /\ lastId \in Nat /\ lastId <= MaxRows /\ MaxRows \in Nat /\ Keyed(barcodes)
        /\ \A b \in barcodes : b.id <= lastId
        /\ KeyedList(BarcodeSlots!List(u), lastId)
    BY <2>1, SlotLoaded
  <2>3. barcodes' \subseteq barcodes  BY <2>1 DEF BarcodeSlots!Without
  <2>4. Keyed(barcodes') /\ \A b \in barcodes' : b.id <= lastId  BY <2>2, <2>3 DEF Keyed
  <2>5. ASSUME ~ gap', ~ outdated' PROVE BarcodeSlots!Compact(barcodes')
    <3>1. BarcodeSlots!Compact(barcodes) /\ BarcodeSlots!List(u) = BarcodeSlots!Ordered(barcodes)
      BY <2>1, <2>5 DEF BarcodeSlots!IInv, BarcodeSlots!TypeOK, BarcodeSlots!Fresh
    <3>2. slot = Len(BarcodeSlots!List(u))
      <4>1. Len(BarcodeSlots!List(u)) \in Nat
              /\ DOMAIN BarcodeSlots!List(u) = 1..Len(BarcodeSlots!List(u))
        BY <2>2, SlotListShort
      <4>2. ~ (slot < Len(BarcodeSlots!List(u)))  BY <2>1, <2>5
      <4> DEFINE n == Len(BarcodeSlots!List(u))
      <4>3. n \in Nat /\ slot \in 1..n /\ ~ (slot < n)  BY <2>1, <4>1, <4>2
      <4> HIDE DEF n
      <4>4. slot = n  BY <4>3
      <4> QED  BY <4>4 DEF n
    <3> QED  BY <2>1, <2>2, <3>1, <3>2, SlotClearCompact
  <2>6. gap' \in BOOLEAN /\ outdated' \in BOOLEAN  BY <2>1
  <2>7. lastId' \in 0..MaxRows /\ lastId <= lastId'  BY <2>1, <2>2
  <2> QED  BY <2>1, <2>4, <2>5, <2>6, <2>7, SlotClosed
<1>4. ASSUME NEW u \in Users, NEW slot \in 1..GRID_SLOT_COUNT, NEW c \in Codes,
             BarcodeSlots!RetypeSlot(u, slot, c)
      PROVE  BarcodeSlots!IInv'
  <2> DEFINE b == BarcodeSlots!List(u)[slot]
             new == [b EXCEPT !.code = c]
  <2>1. /\ view[u] # Nothing /\ slot \in DOMAIN BarcodeSlots!List(u)
        /\ barcodes' = BarcodeSlots!Without(barcodes, {b.id}) \cup {new}
        /\ outdated' = (outdated \/ ~ BarcodeSlots!Fresh(u))
        /\ BarcodeSlots!Close(u) /\ lastId' = lastId /\ gap' = gap
    BY <1>4 DEF BarcodeSlots!RetypeSlot, BarcodeSlots!Editing
  <2>2. /\ lastId \in Nat /\ lastId <= MaxRows /\ MaxRows \in Nat /\ Keyed(barcodes)
        /\ \A d \in barcodes : d.id <= lastId
        /\ KeyedList(BarcodeSlots!List(u), lastId)
    BY <2>1, SlotLoaded
  <2>3. b \in BarcodeSlots!Barcode /\ b.id <= lastId  BY <2>1, <2>2 DEF KeyedList
  <2>4. new \in BarcodeSlots!Barcode /\ new.id = b.id  BY <2>3 DEF BarcodeSlots!Barcode
  <2>5. ASSUME ~ gap', ~ outdated' PROVE BarcodeSlots!Compact(barcodes')
    <3>1. BarcodeSlots!Compact(barcodes) /\ BarcodeSlots!List(u) = BarcodeSlots!Ordered(barcodes)
      BY <2>1, <2>5 DEF BarcodeSlots!IInv, BarcodeSlots!TypeOK, BarcodeSlots!Fresh
    <3> QED  BY <2>1, <2>2, <3>1, SlotRetypeCompact
  <2>6. gap' \in BOOLEAN /\ outdated' \in BOOLEAN
    BY <2>1 DEF BarcodeSlots!IInv, BarcodeSlots!TypeOK
  <2>7. lastId' \in 0..MaxRows /\ lastId <= lastId'  BY <2>1, <2>2
  <2> HIDE DEF b, new
  <2>8. \A d \in barcodes' : d = new \/ (d \in barcodes /\ d.id # b.id)
    BY <2>1 DEF BarcodeSlots!Without
  <2>9. Keyed(barcodes') /\ \A d \in barcodes' : d.id <= lastId
    BY <2>2, <2>3, <2>4, <2>8 DEF Keyed
  <2> QED  BY <2>1, <2>5, <2>6, <2>7, <2>9, SlotClosed
<1>5. ASSUME NEW u \in Users, NEW slot \in 1..GRID_SLOT_COUNT, NEW c \in Codes,
             BarcodeSlots!AddSlot(u, slot, c)
      PROVE  BarcodeSlots!IInv'
  <2> DEFINE new == [id |-> lastId + 1, code |-> c, position |-> slot]
  <2>1. /\ view[u] # Nothing /\ slot = Len(BarcodeSlots!List(u)) + 1 /\ lastId < MaxRows
        /\ barcodes' = barcodes \cup {new}
        /\ outdated' = (outdated \/ ~ BarcodeSlots!Fresh(u))
        /\ BarcodeSlots!Close(u) /\ lastId' = lastId + 1 /\ gap' = gap
    BY <1>5 DEF BarcodeSlots!AddSlot, BarcodeSlots!Editing, BarcodeSlots!NextSlot
  <2>2. /\ lastId \in Nat /\ lastId <= MaxRows /\ MaxRows \in Nat /\ Keyed(barcodes)
        /\ \A d \in barcodes : d.id <= lastId
        /\ KeyedList(BarcodeSlots!List(u), lastId)
    BY <2>1, SlotLoaded
  <2>3. Len(BarcodeSlots!List(u)) \in Nat /\ Len(BarcodeSlots!List(u)) <= lastId
    BY <2>2, SlotListShort
  <2>4. new \in BarcodeSlots!Barcode /\ new.id = lastId + 1
          /\ new.position = Len(BarcodeSlots!List(u)) + 1
    <3>1. slot \in 1..(MaxRows + 1) /\ lastId + 1 \in 1..MaxRows  BY <2>1, <2>2, <2>3
    <3> QED  BY <2>1, <3>1 DEF BarcodeSlots!Barcode
  <2> HIDE DEF new
  <2>5. ASSUME ~ gap', ~ outdated' PROVE BarcodeSlots!Compact(barcodes')
    <3>1. BarcodeSlots!Compact(barcodes) /\ BarcodeSlots!List(u) = BarcodeSlots!Ordered(barcodes)
      BY <2>1, <2>5 DEF BarcodeSlots!IInv, BarcodeSlots!TypeOK, BarcodeSlots!Fresh
    <3> QED  BY <2>1, <2>2, <2>4, <3>1, SlotAddCompact
  <2>6. gap' \in BOOLEAN /\ outdated' \in BOOLEAN
    BY <2>1 DEF BarcodeSlots!IInv, BarcodeSlots!TypeOK
  <2>7. lastId' \in 0..MaxRows /\ lastId <= lastId'  BY <2>1, <2>2
  <2>8. \A d \in barcodes : d.id \in Nat /\ d.id <= lastId /\ d.id # new.id /\ d.id <= lastId'
    <3>1. \A d \in barcodes : d.id \in Nat /\ d.id <= lastId
      BY <2>2, SlotBarcodeFields DEF Keyed
    <3> QED  BY <2>1, <2>2, <2>4, <3>1
  <2>9. new.id <= lastId'  BY <2>1, <2>2, <2>4
  <2>10. Keyed(barcodes') /\ \A d \in barcodes' : d.id <= lastId'
    BY <2>1, <2>2, <2>4, <2>8, <2>9 DEF Keyed
  <2> QED  BY <2>1, <2>5, <2>6, <2>7, <2>10, SlotClosed
<1>6. ASSUME NEW u \in Users, NEW keep \in SUBSET (1..MaxRows), NEW c \in Codes \cup {Blank},
             BarcodeSlots!SavePage(u, keep, c)
      PROVE  BarcodeSlots!IInv'
  <2> DEFINE L == BarcodeSlots!List(u)
             kept == {i \in DOMAIN L : L[i].id \in keep}
             A == AddedRows(lastId, c, kept)
             S == SavedRows(L, kept, lastId, c)
             W == BarcodeSlots!Without(barcodes, BarcodeSlots!IdsOf(L))
  <2>1. /\ view[u] # Nothing /\ BarcodeSlots!Close(u)
        /\ lastId' = lastId + Cardinality(A) /\ lastId' <= MaxRows
        /\ barcodes' = S \cup W
        /\ gap' = (gap /\ ~ BarcodeSlots!Fresh(u))
        /\ outdated' = ~ BarcodeSlots!Fresh(u)
    BY <1>6 DEF BarcodeSlots!SavePage, BarcodeSlots!Editing, SavedRows, KeptRows,
       AddedRows, PlaceOf, BarcodeSlots!Cardinality, Cardinality
  <2>2. /\ lastId \in Nat /\ lastId <= MaxRows /\ MaxRows \in Nat /\ Keyed(barcodes)
        /\ \A d \in barcodes : d.id <= lastId
        /\ KeyedList(L, lastId)
    BY <2>1, SlotLoaded
  <2>3. \A i \in kept : i \in DOMAIN L  OBVIOUS
  <2> HIDE DEF L, kept
  <2>4. lastId + Cardinality(A) <= MaxRows  BY <2>1
  <2>5. Keyed(S \cup W) /\ \A b \in S \cup W : b.id <= lastId + Cardinality(A)
    BY <2>2, <2>3, <2>4, SlotSavedKeyed
  <2>6. Cardinality(A) = IF c = Blank THEN 0 ELSE 1  BY <2>2, <2>3, <2>4, SlotSavedAre
  <2>7. BarcodeSlots!Compact(S)  BY <2>2, <2>3, <2>4, SlotSavedCompact
  <2> HIDE DEF A, S, W
  <2>8. Keyed(barcodes') /\ \A b \in barcodes' : b.id <= lastId'  BY <2>1, <2>5
  <2>9. ASSUME ~ gap', ~ outdated' PROVE BarcodeSlots!Compact(barcodes')
    <3>1. L = BarcodeSlots!Ordered(barcodes)  BY <2>1, <2>9 DEF BarcodeSlots!Fresh, L
    <3>2. InOrder(L, barcodes)  BY <2>2, <3>1, SlotOrderedIs
    <3>3. W = {}
      <4>1. \A b \in barcodes : b.id \in BarcodeSlots!IdsOf(L)
        BY <3>2 DEF InOrder, BarcodeSlots!IdsOf
      <4> QED  BY <4>1 DEF W, BarcodeSlots!Without
    <3> QED  BY <2>1, <2>7, <3>3
  <2>10. gap' \in BOOLEAN /\ outdated' \in BOOLEAN  BY <2>1
  <2>11. lastId' \in 0..MaxRows /\ lastId <= lastId'  BY <2>1, <2>2, <2>6
  <2> QED  BY <2>1, <2>8, <2>9, <2>10, <2>11, SlotClosed
<1>7. ASSUME NEW u \in Users, BarcodeSlots!GiveUp(u) PROVE BarcodeSlots!IInv'
  <2>1. BarcodeSlots!Close(u) /\ UNCHANGED <<barcodes, lastId, gap, outdated>>
    BY <1>7 DEF BarcodeSlots!GiveUp
  <2>2. /\ lastId \in Nat /\ lastId <= MaxRows /\ MaxRows \in Nat /\ Keyed(barcodes)
        /\ \A d \in barcodes : d.id <= lastId
    BY SlotLoaded
  <2>3. gap' \in BOOLEAN /\ outdated' \in BOOLEAN
        /\ (~ gap' /\ ~ outdated' => BarcodeSlots!Compact(barcodes'))
    BY <2>1 DEF BarcodeSlots!IInv, BarcodeSlots!TypeOK
  <2> QED  BY <2>1, <2>2, <2>3, SlotClosed
<1> QED  BY <1>1, <1>2, <1>3, <1>4, <1>5, <1>6, <1>7 DEF BarcodeSlots!Next

LEMMA SlotInPlaces ==
  ASSUME BarcodeSlots!BarcodeAssumptions, BarcodeSlots!IInv
  PROVE  BarcodeSlots!PositionsAreSlots
<1> SUFFICES ASSUME ~ gap /\ ~ outdated
             PROVE  \A i \in DOMAIN BarcodeSlots!Ordered(barcodes) : BarcodeSlots!Ordered(barcodes)[i].position = i
  BY DEF BarcodeSlots!PositionsAreSlots
<1>1. Keyed(barcodes) /\ BarcodeSlots!Compact(barcodes)
  BY SlotLoaded DEF BarcodeSlots!IInv
<1>2. InOrder(BarcodeSlots!Ordered(barcodes), barcodes)  BY <1>1, SlotOrderedIs
<1> QED  BY <1>1, <1>2, SlotCompactListed DEF InOrder

-----------------------------------------------------------------------------
(* Imports: reading a file *)

LEMMA ImportOperators ==
  /\ \A T : Imports!Cardinality(T) = Cardinality(T)
  /\ \A T : Imports!IsFiniteSet(T) = IsFiniteSet(T)
  /\ \A s : Imports!ToSet(s) = {s[i] : i \in DOMAIN s}
  /\ \A s, i : Imports!RemoveAt(s, i) = SubSeq(s, 1, i - 1) \o SubSeq(s, i + 1, Len(s))
<1>1. \A T : Imports!Cardinality(T) = Cardinality(T)
  BY DEF Imports!Cardinality, Cardinality
<1>2. \A T : Imports!IsFiniteSet(T) = IsFiniteSet(T)
  BY DEF Imports!IsFiniteSet, IsFiniteSet
<1>3. \A s : Imports!ToSet(s) = {s[i] : i \in DOMAIN s}  BY DEF Imports!ToSet
<1>4. \A s, i : Imports!RemoveAt(s, i) = SubSeq(s, 1, i - 1) \o SubSeq(s, i + 1, Len(s))
  BY DEF Imports!RemoveAt
<1> QED  BY <1>1, <1>2, <1>3, <1>4

\* RowsApart, of any rows of the first so many files.
Apart(rows, files) ==
    /\ \A i, j \in DOMAIN rows :
         i # j /\ rows[i].new /\ rows[j].new /\ rows[i].file = rows[j].file =>
             ~ Imports!Alike(rows[i], rows[j])
    /\ \A i \in DOMAIN rows : rows[i].file <= files

LEMMA ImportApart == Imports!RowsApart <=> Apart(grid, imports)
  BY DEF Imports!RowsApart, Apart

LEMMA ImportAlike ==
  ASSUME NEW r, NEW s, ~ Imports!Alike(r, s)
  PROVE  ~ Imports!Alike(s, r)
  BY DEF Imports!Alike

\* A catalogue is a finite set of products.
Stocked(products) == products \subseteq Imports!Product /\ IsFiniteSet(products)

LEMMA ImportNextFree ==
  ASSUME NEW products, Stocked(products)
  PROVE  Imports!NextFree(products) \in Nat
<1> DEFINE used == {p.code : p \in products}
           top == CHOOSE c \in used : \A p \in products : p.code <= c
           R == {d \in products \X products : d[1].code > d[2].code}
<1>1. CASE products = {}  BY <1>1 DEF Imports!NextFree
<1>2. CASE products # {}
  <2>1. \A p \in products : p.code \in Nat  BY DEF Stocked, Imports!Product
  <2>2. /\ R \in SUBSET (products \X products)
        /\ \A x, y \in products : <<x, y>> \in R <=> x.code > y.code
    OBVIOUS
  <2> HIDE DEF R
  <2>3. PICK m \in products : \A x \in products : <<x, m>> \notin R
    <3>1. \A x \in products : <<x, x>> \notin R  BY <2>1, <2>2
    <3>2. \A x, y, z \in products : <<x, y>> \in R /\ <<y, z>> \in R => <<x, z>> \in R
      BY <2>1, <2>2
    <3> QED  BY <1>2, <2>2, <3>1, <3>2, UnbeatenExists DEF Stocked
  <2>4. ASSUME NEW p \in products PROVE p.code <= m.code
    <3>1. ~ (p.code > m.code)  BY <2>2, <2>3
    <3> QED  BY <2>1, <3>1
  <2>5. top \in used  BY <2>4
  <2>6. Imports!NextFree(products) = 1 + top  BY <1>2 DEF Imports!NextFree
  <2>7. used \subseteq Nat  BY <2>1
  <2> HIDE DEF top, used
  <2> QED  BY <2>5, <2>6, <2>7
<1> QED  BY <1>1, <1>2

\* A row that takes the place of a new one, or of one of a known product, and is
\* of a known product itself.
LEMMA ImportReplaced ==
  ASSUME NEW files \in Nat, NEW rows \in Seq(Imports!GridRow), Apart(rows, files),
         NEW i \in DOMAIN rows,
         NEW item \in Imports!GridRow, ~ item.new, item.file <= files
  PROVE  [rows EXCEPT ![i] = item] \in Seq(Imports!GridRow)
         /\ Apart([rows EXCEPT ![i] = item], files)
<1> DEFINE some == [rows EXCEPT ![i] = item]
<1>1. some \in Seq(Imports!GridRow) /\ DOMAIN some = DOMAIN rows  OBVIOUS
<1>2. \A k \in DOMAIN some : IF k = i THEN some[k] = item ELSE some[k] = rows[k]
  OBVIOUS
<1> HIDE DEF some
<1>3. Apart(some, files)  BY <1>1, <1>2 DEF Apart
<1> QED  BY <1>1, <1>3 DEF some

\* A row more, which is none of the new ones of its file.
LEMMA ImportAppended ==
  ASSUME NEW files \in Nat, NEW rows \in Seq(Imports!GridRow), Apart(rows, files),
         NEW r \in Imports!GridRow, r.file <= files,
         r.new => \A i \in DOMAIN rows :
                    rows[i].new /\ rows[i].file = r.file => ~ Imports!Alike(rows[i], r)
  PROVE  Append(rows, r) \in Seq(Imports!GridRow) /\ Apart(Append(rows, r), files)
<1> DEFINE s == Append(rows, r)
           new == Len(rows) + 1
<1>1. s \in Seq(Imports!GridRow)  OBVIOUS
<1>2. /\ DOMAIN s = 1..new /\ DOMAIN rows = 1..Len(rows) /\ Len(rows) \in Nat
      /\ s[new] = r /\ \A i \in DOMAIN rows : s[i] = rows[i]
  OBVIOUS
<1>3. new \notin DOMAIN rows /\ \A i \in DOMAIN s : i \in DOMAIN rows \/ i = new
  BY <1>2
<1> HIDE DEF s, new
<1>4. ASSUME NEW i \in DOMAIN s, NEW j \in DOMAIN s, i # j, s[i].new, s[j].new,
             s[i].file = s[j].file
      PROVE  ~ Imports!Alike(s[i], s[j])
  <2>1. (i \in DOMAIN rows \/ i = new) /\ (j \in DOMAIN rows \/ j = new)
    BY <1>3, <1>4
  <2>2. CASE i \in DOMAIN rows /\ j \in DOMAIN rows  BY <1>2, <1>4, <2>2 DEF Apart
  <2>3. CASE i \in DOMAIN rows /\ j = new  BY <1>2, <1>4, <2>3
  <2>4. CASE i = new /\ j \in DOMAIN rows
    <3>1. ~ Imports!Alike(s[j], s[i])  BY <1>2, <1>4, <2>4
    <3> QED  BY <3>1, ImportAlike
  <2> QED  BY <1>4, <2>1, <2>2, <2>3, <2>4
<1>5. ASSUME NEW i \in DOMAIN s PROVE s[i].file <= files
  <2>1. CASE i \in DOMAIN rows  BY <1>2, <2>1 DEF Apart
  <2>2. CASE i = new  BY <1>2, <2>2
  <2> QED  BY <1>3, <2>1, <2>2
<1> QED  BY <1>1, <1>4, <1>5 DEF Apart, s

LEMMA ImportKnown ==
  ASSUME NEW p \in Imports!Product, NEW q \in Nat
  PROVE  Imports!Known(p, q) \in Imports!GridRow /\ ~ Imports!Known(p, q).new
         /\ Imports!Known(p, q).file = 0
  BY DEF Imports!Known, Imports!Product, Imports!GridRow

\* The quantity goes to a row of a known product.
LEMMA ImportRaised ==
  ASSUME NEW files \in Nat, NEW rows \in Seq(Imports!GridRow), Apart(rows, files),
         NEW p \in Imports!Product, NEW q \in Nat, Imports!RowOf(rows, p) # {}
  PROVE  /\ Imports!Raise(rows, p, q) \in Seq(Imports!GridRow)
         /\ Apart(Imports!Raise(rows, p, q), files)
         /\ DOMAIN Imports!Raise(rows, p, q) = DOMAIN rows
<1> DEFINE j == CHOOSE k \in Imports!RowOf(rows, p) : TRUE
           item == [rows[j] EXCEPT !.quantity = @ + q]
<1>1. j \in DOMAIN rows /\ ~ rows[j].new
  <2>1. j \in Imports!RowOf(rows, p)  OBVIOUS
  <2> HIDE DEF j
  <2> QED  BY <2>1 DEF Imports!RowOf
<1>2. Imports!Raise(rows, p, q) = [rows EXCEPT ![j] = item]  BY DEF Imports!Raise
<1> HIDE DEF j
<1>3. rows[j] \in Imports!GridRow /\ rows[j].file <= files  BY <1>1 DEF Apart
<1>4. item \in Imports!GridRow /\ ~ item.new /\ item.file <= files
  <2> DEFINE r == rows[j]
  <2>1. r \in Imports!GridRow /\ ~ r.new /\ r.file <= files  BY <1>1, <1>3
  <2>2. item = [r EXCEPT !.quantity = @ + q]  OBVIOUS
  <2> HIDE DEF r, item
  <2>3. r.quantity + q \in Nat  BY <2>1 DEF Imports!GridRow
  <2>4. item \in Imports!GridRow  BY <2>1, <2>2, <2>3 DEF Imports!GridRow
  <2>5. item.new = r.new /\ item.file = r.file  BY <2>1, <2>2 DEF Imports!GridRow
  <2> QED  BY <2>1, <2>4, <2>5
<1> HIDE DEF item
<1>5. [rows EXCEPT ![j] = item] \in Seq(Imports!GridRow)
      /\ Apart([rows EXCEPT ![j] = item], files)
  BY <1>1, <1>4, ImportReplaced
<1> QED  BY <1>2, <1>5

LEMMA ImportPlaced ==
  ASSUME NEW files \in Nat, NEW rows \in Seq(Imports!GridRow), Apart(rows, files),
         NEW p \in Imports!Product, NEW q \in Nat
  PROVE  Imports!Place(rows, p, q) \in Seq(Imports!GridRow)
         /\ Apart(Imports!Place(rows, p, q), files)
<1>1. CASE p \notin onPage  BY <1>1 DEF Imports!Place
<1>2. CASE p \in onPage /\ Imports!RowOf(rows, p) = {}
  <2>1. Imports!Place(rows, p, q) = Append(rows, Imports!Known(p, q))
    BY <1>2 DEF Imports!Place
  <2> DEFINE r == Imports!Known(p, q)
  <2>2. r \in Imports!GridRow /\ ~ r.new /\ r.file <= files  BY ImportKnown
  <2> HIDE DEF r
  <2>3. Append(rows, r) \in Seq(Imports!GridRow) /\ Apart(Append(rows, r), files)
    BY <2>2, ImportAppended
  <2> QED  BY <2>1, <2>3 DEF r
<1>3. CASE p \in onPage /\ Imports!RowOf(rows, p) # {}
  BY <1>3, ImportRaised DEF Imports!Place
<1> QED  BY <1>1, <1>2, <1>3

LEMMA ImportReadRow ==
  ASSUME Imports!ImportAssumptions, Stocked(catalogue), imports \in Nat,
         NEW item \in Imports!Row, NEW rows \in Seq(Imports!GridRow),
         Apart(rows, imports + 1),
         NEW n \in Nat, NEW after, after = Imports!ReadRow([rows |-> rows, next |-> n], item)
  PROVE  after.rows \in Seq(Imports!GridRow) /\ Apart(after.rows, imports + 1)
         /\ after.next \in Nat /\ after = [rows |-> after.rows, next |-> after.next]
<1> DEFINE news == {r \in Imports!ToSet(rows) : r.new /\ r.file = imports + 1}
           free == IF n = 0 THEN Imports!NextFree(catalogue) ELSE n
           p == CHOOSE q \in Imports!Matches(item) : TRUE
<1>1. free \in Nat  BY ImportNextFree
<1>0. imports + 1 \in Nat  OBVIOUS
<1>11. ASSUME NEW s \in Seq(Imports!GridRow), Apart(s, imports + 1), NEW m \in Nat,
             after = [rows |-> s, next |-> m]
      PROVE  after.rows \in Seq(Imports!GridRow) /\ Apart(after.rows, imports + 1)
             /\ after.next \in Nat /\ after = [rows |-> after.rows, next |-> after.next]
  BY <1>11
<1>2. ASSUME Imports!Matches(item) # {} PROVE p \in Imports!Product
  <2>1. p \in Imports!Matches(item)  BY <1>2
  <2>2. Imports!Matches(item) \subseteq catalogue  BY DEF Imports!Matches
  <2> QED  BY <2>1, <2>2 DEF Stocked
<1>3. after = IF Imports!Matches(item) # {}
              THEN IF item.quantity = 0 THEN [rows |-> rows, next |-> n]
                   ELSE [rows |-> Imports!Place(rows, p, item.quantity), next |-> n]
              ELSE IF Imports!Seen(item, news) THEN [rows |-> rows, next |-> n]
              ELSE IF item.code = BlankCode
                   THEN [rows |-> Append(rows, Imports!NewRow(item, free)), next |-> free + 1]
                   ELSE [rows |-> Append(rows, Imports!NewRow(item, item.code)), next |-> n]
  <2> DEFINE sofar == [rows |-> rows, next |-> n]
  <2>1. sofar.rows = rows /\ sofar.next = n
        /\ \A s : [sofar EXCEPT !.rows = s] = [rows |-> s, next |-> n]
    OBVIOUS
  <2>2. after = Imports!ReadRow(sofar, item)  OBVIOUS
  <2> HIDE DEF sofar
  <2> QED  BY <2>1, <2>2 DEF Imports!ReadRow
<1> HIDE DEF p, free
<1>5. \A c \in Nat : /\ Imports!NewRow(item, c) \in Imports!GridRow
                     /\ Imports!NewRow(item, c).name = item.name
                     /\ Imports!NewRow(item, c).barcodes = item.barcodes
                     /\ Imports!NewRow(item, c).file = imports + 1
  BY <1>0 DEF Imports!NewRow, Imports!Row, Imports!GridRow
<1>6. item.code # BlankCode => item.code \in Nat
  BY DEF Imports!Row, Imports!ImportAssumptions
<1>7. ASSUME ~ Imports!Seen(item, news), NEW i \in DOMAIN rows, rows[i].new,
             rows[i].file = imports + 1
      PROVE  ~ Imports!Alike(rows[i], item)
  <2>1. rows[i] \in news  BY <1>7, ImportOperators
  <2> QED  BY <1>7, <2>1 DEF Imports!Seen
<1> HIDE DEF news
<1>8. CASE Imports!Matches(item) # {}
  <2>1. CASE item.quantity = 0  BY <1>3, <1>8, <2>1
  <2>2. CASE item.quantity # 0
    <3>1. item.quantity \in Nat  BY DEF Imports!Row
    <3> DEFINE s == Imports!Place(rows, p, item.quantity)
    <3>2. s \in Seq(Imports!GridRow) /\ Apart(s, imports + 1)
      BY <1>0, <1>2, <1>8, <3>1, ImportPlaced
    <3>3. after = [rows |-> s, next |-> n]  BY <1>3, <1>8, <2>2
    <3> HIDE DEF s
    <3> QED  BY <1>11, <3>2, <3>3
  <2> QED  BY <2>1, <2>2
<1>9. CASE Imports!Matches(item) = {} /\ Imports!Seen(item, news)  BY <1>3, <1>9
<1>10. CASE Imports!Matches(item) = {} /\ ~ Imports!Seen(item, news)
  <2>1. PICK c \in Nat, m \in Nat :
           after = [rows |-> Append(rows, Imports!NewRow(item, c)), next |-> m]
    <3>1. CASE item.code = BlankCode
      <4>1. free + 1 \in Nat  BY <1>1
      <4> QED  BY <1>1, <1>3, <1>10, <3>1, <4>1
    <3>2. CASE item.code # BlankCode  BY <1>3, <1>6, <1>10, <3>2
    <3> QED  BY <3>1, <3>2
  <2> DEFINE r == Imports!NewRow(item, c)
  <2>2. r \in Imports!GridRow /\ r.name = item.name /\ r.barcodes = item.barcodes
        /\ r.file = imports + 1 /\ r.file <= imports + 1
    BY <1>0, <1>5
  <2> HIDE DEF r
  <2>3. ASSUME NEW i \in DOMAIN rows, rows[i].new, rows[i].file = r.file
        PROVE  ~ Imports!Alike(rows[i], r)
    <3>1. ~ Imports!Alike(rows[i], item)  BY <1>7, <1>10, <2>2, <2>3
    <3> QED  BY <2>2, <3>1 DEF Imports!Alike
  <2>4. Append(rows, r) \in Seq(Imports!GridRow) /\ Apart(Append(rows, r), imports + 1)
    BY <1>0, <2>2, <2>3, ImportAppended
  <2>5. after = [rows |-> Append(rows, r), next |-> m]  BY <2>1 DEF r
  <2> QED  BY <1>11, <2>4, <2>5
<1> QED  BY <1>8, <1>9, <1>10

\* Row by row (the recursive function of Parsed).
Reads(read, file) ==
    read = [n \in 0..Len(file) |->
              IF n = 0 THEN [rows |-> grid, next |-> 0]
              ELSE Imports!ReadRow(read[n - 1], file[n])]

LEMMA ImportParsedIs ==
  ASSUME NEW file
  PROVE  Imports!Parsed(file) = (CHOOSE read : Reads(read, file))[Len(file)].rows
  BY DEF Imports!Parsed, Reads

LEMMA ImportParsed ==
  ASSUME Imports!ImportAssumptions, Stocked(catalogue), imports \in Nat,
         grid \in Seq(Imports!GridRow), Apart(grid, imports), NEW file \in Files
  PROVE  Imports!Parsed(file) \in Seq(Imports!GridRow)
         /\ Apart(Imports!Parsed(file), imports + 1)
<1> DEFINE N == Len(file)
           V == {v \in [rows : Seq(Imports!GridRow), next : Nat] : Apart(v.rows, imports + 1)}
           first == [rows |-> grid, next |-> 0]
           stepAt == [n \in 1..N |-> [v \in V |-> Imports!ReadRow(v, file[n])]]
           read == CHOOSE g : Reads(g, file)
<1>1. file \in Seq(Imports!Row) /\ N \in Nat  BY DEF Imports!ImportAssumptions
<1>2. first \in V
  <2>1. Apart(grid, imports + 1)
    <3>1. ASSUME NEW i \in DOMAIN grid PROVE grid[i].file <= imports + 1
      <4>1. grid[i] \in Imports!GridRow /\ grid[i].file <= imports  BY DEF Apart
      <4> QED  BY <4>1 DEF Imports!GridRow
    <3> QED  BY <3>1 DEF Apart
  <2> QED  BY <2>1
<1>3. ASSUME NEW n \in 1..N, NEW v \in V PROVE Imports!ReadRow(v, file[n]) \in V
  <2>1. v = [rows |-> v.rows, next |-> v.next] /\ v.rows \in Seq(Imports!GridRow)
        /\ Apart(v.rows, imports + 1) /\ v.next \in Nat /\ file[n] \in Imports!Row
    BY <1>1
  <2> DEFINE got == Imports!ReadRow(v, file[n])
  <2>2. got = Imports!ReadRow([rows |-> v.rows, next |-> v.next], file[n])  BY <2>1
  <2> HIDE DEF got
  <2>3. /\ got.rows \in Seq(Imports!GridRow) /\ Apart(got.rows, imports + 1)
        /\ got.next \in Nat
        /\ got = [rows |-> got.rows, next |-> got.next]
    BY <2>1, <2>2, ImportReadRow
  <2>4. got \in V  BY <2>3
  <2> QED  BY <2>4 DEF got
<1>4. \A n \in 1..N : \A v \in V : stepAt[n][v] = Imports!ReadRow(v, file[n])  OBVIOUS
<1> HIDE DEF V, first, stepAt, N
<1>5. PICK g : Proceeds(g, first, stepAt, N, V)
  <2>1. Steps(stepAt, N, V)  BY <1>3, <1>4 DEF Steps
  <2> QED  BY <1>1, <1>2, <2>1, RecursionAlong
<1>6. Reads(g, file)
  <2>1. ASSUME NEW n \in 0..N
        PROVE  g[n] = IF n = 0 THEN [rows |-> grid, next |-> 0]
                      ELSE Imports!ReadRow(g[n - 1], file[n])
    <3>1. CASE n = 0  BY <1>5, <3>1 DEF first, Proceeds
    <3>2. CASE n # 0
      <4>1. n \in 1..N /\ n - 1 \in 0..N  BY <1>1, <3>2
      <4> QED  BY <1>4, <1>5, <3>2, <4>1 DEF Proceeds
    <3> QED  BY <3>1, <3>2
  <2>2. g = [n \in 0..N |-> g[n]]  BY <1>5 DEF Proceeds
  <2> QED  BY <2>1, <2>2 DEF Reads, N
<1>7. Reads(read, file)  BY <1>6
<1> HIDE DEF read
<1>8. \A n \in 0..N : read[n] \in V
  <2> DEFINE Fine == {n \in 0..N : read[n] \in V}
  <2>1. 0 \in Fine
    <3>1. read[0] = first  BY <1>1, <1>7 DEF Reads, N, first
    <3> QED  BY <1>1, <1>2, <3>1
  <2>2. ASSUME NEW n \in 1..N, n - 1 \in Fine PROVE n \in Fine
    <3>1. n \in 0..N /\ n # 0  BY <1>1
    <3>2. read[n] = Imports!ReadRow(read[n - 1], file[n])  BY <1>7, <3>1 DEF Reads, N
    <3> QED  BY <1>3, <2>2, <3>1, <3>2
  <2>3. \A n \in 0..N : n \in Fine
    <3> HIDE DEF Fine
    <3> QED  BY <1>1, <2>1, <2>2, UpTo
  <2> QED  BY <2>3
<1>9. Imports!Parsed(file) = read[N].rows  BY ImportParsedIs DEF read, N
<1>10. read[N] \in V  BY <1>1, <1>8
<1> QED  BY <1>9, <1>10 DEF V

\* The lines that rows ask for, row by row (LinesUpTo).
LEMMA ImportLines ==
  ASSUME NEW rows \in Seq(Imports!GridRow)
  PROVE  /\ Imports!LinesUpTo(rows)[0] = <<>>
         /\ \A n \in 1..Len(rows) :
              Imports!LinesUpTo(rows)[n]
                = IF rows[n].quantity = 0 THEN Imports!LinesUpTo(rows)[n - 1]
                  ELSE Append(Imports!LinesUpTo(rows)[n - 1], <<rows[n].name, rows[n].quantity>>)
<1> DEFINE N == Len(rows)
           V == Seq(FileNames \X Nat)
           more(n, v) == IF rows[n].quantity = 0 THEN v
                         ELSE Append(v, <<rows[n].name, rows[n].quantity>>)
           stepAt == [n \in 1..N |-> [v \in V |-> more(n, v)]]
           Lines(list) == list = [n \in 0..N |-> IF n = 0 THEN <<>>
                                      ELSE IF rows[n].quantity = 0 THEN list[n - 1]
                                      ELSE Append(list[n - 1], <<rows[n].name, rows[n].quantity>>)]
<1>1. N \in Nat /\ <<>> \in V  OBVIOUS
<1>2. ASSUME NEW n \in 1..N, NEW v \in V PROVE more(n, v) \in V
  <2>1. rows[n] \in Imports!GridRow  OBVIOUS
  <2>2. <<rows[n].name, rows[n].quantity>> \in FileNames \X Nat
    BY <2>1 DEF Imports!GridRow
  <2> QED  BY <2>2
<1>3. \A n \in 1..N : \A v \in V : stepAt[n][v] = more(n, v)  OBVIOUS
<1> HIDE DEF V, stepAt, N, more
<1>4. PICK g : Proceeds(g, <<>>, stepAt, N, V)
  <2>1. Steps(stepAt, N, V)  BY <1>2, <1>3 DEF Steps
  <2> QED  BY <1>1, <2>1, RecursionAlong
<1>5. Lines(g)
  <2>1. ASSUME NEW n \in 0..N
        PROVE  g[n] = IF n = 0 THEN <<>> ELSE more(n, g[n - 1])
    <3>1. CASE n = 0  BY <1>4, <3>1 DEF Proceeds
    <3>2. CASE n # 0
      <4>1. n \in 1..N /\ n - 1 \in 0..N  BY <1>1, <3>2
      <4> QED  BY <1>3, <1>4, <3>2, <4>1 DEF Proceeds
    <3> QED  BY <3>1, <3>2
  <2>2. g = [n \in 0..N |-> g[n]]  BY <1>4 DEF Proceeds
  <2> QED  BY <2>1, <2>2 DEF more
<1>6. Imports!LinesUpTo(rows) = CHOOSE list : Lines(list)
  BY Zenon DEF Imports!LinesUpTo, N
<1>7. Lines(Imports!LinesUpTo(rows))
  <2> HIDE DEF Lines
  <2> QED  BY <1>5, <1>6
<1>8. ASSUME NEW n \in 0..N
      PROVE  Imports!LinesUpTo(rows)[n]
               = IF n = 0 THEN <<>> ELSE more(n, Imports!LinesUpTo(rows)[n - 1])
  <2> DEFINE list == Imports!LinesUpTo(rows)
  <2> HIDE DEF list
  <2>1. list = [k \in 0..N |-> IF k = 0 THEN <<>> ELSE more(k, list[k - 1])]
    BY <1>7 DEF list, more
  <2>2. list[n] = IF n = 0 THEN <<>> ELSE more(n, list[n - 1])  BY <2>1
  <2> QED  BY <2>2 DEF list
<1> HIDE DEF Lines
<1>9. Imports!LinesUpTo(rows)[0] = <<>>  BY <1>1, <1>8
<1>10. ASSUME NEW n \in 1..N
       PROVE  Imports!LinesUpTo(rows)[n] = more(n, Imports!LinesUpTo(rows)[n - 1])
  <2>1. n \in 0..N /\ n # 0  BY <1>1
  <2> QED  BY <1>8, <2>1
<1> QED  BY <1>9, <1>10 DEF N, more

\* Each row of some stands for another of others.
Fewer(some, rows, of) ==
    /\ \A k \in DOMAIN some :
         /\ of[k] \in DOMAIN rows /\ rows[of[k]].new = some[k].new
         /\ rows[of[k]].name = some[k].name /\ rows[of[k]].file = some[k].file
         /\ rows[of[k]].barcodes = some[k].barcodes
    /\ \A k, l \in DOMAIN some : of[k] = of[l] => k = l

LEMMA ImportFewer ==
  ASSUME NEW files, NEW some, NEW rows, NEW of, Fewer(some, rows, of), Apart(rows, files)
  PROVE  Apart(some, files)
  BY DEF Fewer, Apart, Imports!Alike

LEMMA ImportRemoved ==
  ASSUME NEW files \in Nat, NEW rows \in Seq(Imports!GridRow), Apart(rows, files),
         NEW i \in DOMAIN rows
  PROVE  Imports!RemoveAt(rows, i) \in Seq(Imports!GridRow)
         /\ Apart(Imports!RemoveAt(rows, i), files)
<1> DEFINE left == Imports!RemoveAt(rows, i)
           of == [k \in 1..(Len(rows) - 1) |-> IF k < i THEN k ELSE k + 1]
<1>1. Len(rows) \in Nat /\ DOMAIN rows = 1..Len(rows) /\ i \in 1..Len(rows)  OBVIOUS
<1>2. left = SubSeq(rows, 1, i - 1) \o SubSeq(rows, i + 1, Len(rows))
  BY ImportOperators
<1>3. left \in Seq(Imports!GridRow)  BY <1>1, <1>2
<1>4. Len(left) = Len(rows) - 1  BY <1>1, <1>2
<1>5. ASSUME NEW k \in 1..(Len(rows) - 1)
      PROVE  left[k] = rows[IF k < i THEN k ELSE k + 1]
  <2> DEFINE a == SubSeq(rows, 1, i - 1)
             b == SubSeq(rows, i + 1, Len(rows))
  <2>1. a \in Seq(Imports!GridRow) /\ b \in Seq(Imports!GridRow) /\ Len(a) = i - 1
        /\ Len(b) = Len(rows) - i
    BY <1>1
  <2>2. CASE k < i
    <3>1. a[k] = rows[k] /\ k \in 1..Len(a)  BY <1>1, <2>1, <2>2
    <3> HIDE DEF a, b
    <3>2. (a \o b)[k] = a[k]  BY <2>1, <3>1
    <3> QED  BY <1>2, <2>2, <3>1, <3>2 DEF a, b
  <2>3. CASE ~ (k < i)
    <3>1. b[k - (i - 1)] = rows[k + 1] /\ k - Len(a) = k - (i - 1)
      <4> DEFINE c == k - (i - 1)
      <4>1. c \in 1..(Len(rows) - i) /\ (i + 1) + c - 1 = k + 1 /\ k - Len(a) = c
        <5> HIDE DEF a, b
        <5> QED  BY <1>1, <2>1, <2>3
      <4> HIDE DEF c
      <4>2. b[c] = rows[(i + 1) + c - 1]
        BY <1>1, <4>1
      <4>3. b[c] = rows[k + 1]
        <5> HIDE DEF a, b
        <5> QED  BY <4>1, <4>2
      <4> QED  BY <4>1, <4>3 DEF c
    <3>2. Len(a) \in Nat /\ Len(b) \in Nat /\ k \in 1..(Len(a) + Len(b)) /\ ~ (k <= Len(a))
      BY <1>1, <2>1, <2>3
    <3> HIDE DEF a, b
    <3>3. (a \o b)[k] = b[k - Len(a)]
      <4>1. \A c \in 1..(Len(a) + Len(b)) : (a \o b)[c] = IF c <= Len(a) THEN a[c] ELSE b[c - Len(a)]
        BY <2>1, ConcatProperties
      <4> QED  BY <3>2, <4>1
    <3> QED  BY <1>2, <2>3, <3>1, <3>3 DEF a, b
  <2> QED  BY <2>2, <2>3
<1> HIDE DEF left
<1>6. DOMAIN left = 1..(Len(rows) - 1)  BY <1>3, <1>4
<1>7. ASSUME NEW k \in DOMAIN left PROVE of[k] \in DOMAIN rows /\ left[k] = rows[of[k]]
  BY <1>1, <1>5, <1>6
<1>8. ASSUME NEW k \in DOMAIN left, NEW l \in DOMAIN left, of[k] = of[l] PROVE k = l
  BY <1>1, <1>6, <1>8
<1> HIDE DEF of
<1>9. Fewer(left, rows, of)  BY <1>7, <1>8 DEF Fewer
<1>10. Apart(left, files)  BY <1>9, ImportFewer
<1> QED  BY <1>3, <1>10 DEF left

\* Nor are the rows of a page made anew.
LEMMA ImportRestored ==
  ASSUME NEW files \in Nat, NEW rows \in Seq(Imports!GridRow), Apart(rows, files)
  PROVE  /\ Imports!Restored(rows) \in Seq(Imports!GridRow)
         /\ Apart(Imports!Restored(rows), files)
         /\ Len(Imports!Restored(rows)) = Len(rows)
         /\ \A i \in DOMAIN rows : /\ i \in DOMAIN Imports!Restored(rows)
                                 /\ Imports!Restored(rows)[i].new = rows[i].new
                                 /\ Imports!Restored(rows)[i].name = rows[i].name
                                 /\ Imports!Restored(rows)[i].file = rows[i].file
                                 /\ Imports!Restored(rows)[i].barcodes = rows[i].barcodes
<1> DEFINE some == Imports!Restored(rows)
           of == [k \in DOMAIN rows |-> k]
<1>1. some = [i \in 1..Len(rows) |-> [rows[i] EXCEPT !.linkable = FALSE]]
  BY DEF Imports!Restored
<1>2. ASSUME NEW i \in 1..Len(rows)
      PROVE  /\ [rows[i] EXCEPT !.linkable = FALSE] \in Imports!GridRow
             /\ some[i] = [rows[i] EXCEPT !.linkable = FALSE]
             /\ some[i].new = rows[i].new /\ some[i].name = rows[i].name
             /\ some[i].file = rows[i].file /\ some[i].barcodes = rows[i].barcodes
  <2>1. rows[i] \in Imports!GridRow  OBVIOUS
  <2>2. some[i] = [rows[i] EXCEPT !.linkable = FALSE]  BY <1>1
  <2> HIDE DEF some
  <2> QED  BY <2>1, <2>2 DEF Imports!GridRow
<1>3. some \in Seq(Imports!GridRow) /\ Len(some) = Len(rows) /\ DOMAIN some = DOMAIN rows
  <2>1. Len(rows) \in Nat /\ DOMAIN rows = 1..Len(rows)  OBVIOUS
  <2>2. some \in [1..Len(rows) -> Imports!GridRow]
    <3> HIDE DEF some
    <3> QED  BY <1>1, <1>2
  <2> HIDE DEF some
  <2> QED  BY <2>1, <2>2
<1>4. \A k \in DOMAIN rows : of[k] = k /\ k \in 1..Len(rows)  OBVIOUS
<1> HIDE DEF some, of
<1>7. ASSUME NEW k \in DOMAIN some
      PROVE  /\ of[k] \in DOMAIN rows /\ rows[of[k]].new = some[k].new
             /\ rows[of[k]].name = some[k].name /\ rows[of[k]].file = some[k].file
             /\ rows[of[k]].barcodes = some[k].barcodes
  <2>1. k \in DOMAIN rows /\ k \in 1..Len(rows) /\ of[k] = k  BY <1>3, <1>4
  <2> QED  BY <1>2, <2>1
<1>5. Fewer(some, rows, of)  BY <1>3, <1>4, <1>7 DEF Fewer
<1>6. Apart(some, files)  BY <1>5, ImportFewer
<1> QED  BY <1>2, <1>3, <1>4, <1>6 DEF some

\* The code that PickCode falls back to.
FreeCode(from, taken) ==
    CHOOSE c \in from..(from + Imports!Cardinality(taken)) :
        c \notin taken /\ \A d \in from..(c - 1) : d \in taken
CodesOf(products) == {p.code : p \in products}

\* A code that is not taken can be found among as many as are taken and one more.
LEMMA ImportFreeCode ==
  ASSUME NEW products, Stocked(products), NEW from \in Nat
  PROVE  /\ FreeCode(from, CodesOf(products)) \in Nat
         /\ FreeCode(from, CodesOf(products)) \notin CodesOf(products)
<1> DEFINE taken == CodesOf(products)
           free == FreeCode(from, taken)
           n == Cardinality(taken)
           range == from..(from + n)
           codeOf == [p \in products |-> p.code]
<1>1. IsFiniteSet(taken)
  <2>1. codeOf \in Surjection(products, taken)  BY DEF Surjection, CodesOf
  <2> HIDE DEF codeOf
  <2> QED  BY <2>1, FS_Surjection DEF Stocked
<1>2. n \in Nat  BY <1>1, FS_CardinalityType
<1> HIDE DEF n
<1>3. IsFiniteSet(range) /\ Cardinality(range) = n + 1
  <2>1. from \in Int /\ from + n \in Int /\ ~ (from > from + n) /\ (from + n) - from + 1 = n + 1
    BY <1>2
  <2> QED  BY <2>1, FS_Interval
<1>4. range \subseteq Nat /\ \A c \in range, d \in Nat : d < c /\ from <= d => d \in range
  BY <1>2
<1>5. ASSUME NEW c \in range PROVE \A d \in from..(c - 1) : d \in range /\ d < c
  BY <1>2
<1>6. range \ taken # {}
  <2> SUFFICES ASSUME range \subseteq taken PROVE FALSE  OBVIOUS
  <2>1. Cardinality(range) <= n
    <3> HIDE DEF range
    <3> QED  BY <1>1, FS_Subset DEF n
  <2> HIDE DEF range
  <2> QED  BY <1>2, <1>3, <2>1
<1> HIDE DEF range
<1>7. PICK c \in range \ taken : \A m \in range \ taken : c <= m
  <2> DEFINE S == range \ taken
  <2>1. S \in SUBSET Nat /\ S # {}  BY <1>4, <1>6
  <2> HIDE DEF S
  <2>2. \E c \in S : \A m \in S : c <= m  BY <2>1, LeastNatural
  <2> QED  BY <2>2 DEF S
<1>8. ASSUME NEW d \in from..(c - 1) PROVE d \in taken
  <2>1. d \in range /\ d < c /\ d \in Nat /\ c \in Nat  BY <1>4, <1>5, <1>7
  <2>2. ~ (c <= d)  BY <2>1
  <2> QED  BY <1>7, <2>1, <2>2
<1>9. free \in range /\ free \notin taken
  <2>1. free = CHOOSE x \in range : x \notin taken /\ \A d \in from..(x - 1) : d \in taken
    BY ImportOperators DEF range, n, FreeCode
  <2> QED  BY <1>7, <1>8, <2>1
<1> QED  BY <1>4, <1>9

-----------------------------------------------------------------------------
(* Imports: the inductive invariant *)

\* RefusedForCause, of any refusal, catalogue and rows.
Caused(why, products, rows) ==
    why # Nothing =>
        \/ Imports!TwiceInRow(why.row) \/ why.row.name \in TooLong
        \/ Imports!Clash([why.row EXCEPT !.barcodes = Imports!ToSet(@), !.code = why.code],
                         products)
        \/ \E i \in DOMAIN rows :
             rows[i].new /\ rows[i].file # why.row.file /\ Imports!Alike(rows[i], why.row)

LEMMA ImportCaused == Imports!RefusedForCause <=> Caused(refused, catalogue, grid)
  BY DEF Imports!RefusedForCause, Caused

LEMMA ImportClashMore ==
  ASSUME NEW p, NEW few, NEW products, few \subseteq products, Imports!Clash(p, few)
  PROVE  Imports!Clash(p, products)
  BY DEF Imports!Clash

LEMMA ImportCausedMore ==
  ASSUME NEW why, NEW few, NEW products, NEW rows, few \subseteq products,
         Caused(why, few, rows)
  PROVE  Caused(why, products, rows)
  BY ImportClashMore DEF Caused

\* Unique, of any products.
Apiece(products) == \A p, q \in products : p # q => ~ Imports!Clash(p, {q})

LEMMA ImportApieceMore ==
  ASSUME NEW products, Apiece(products), NEW p \in Imports!Product,
         ~ Imports!Clash(p, products)
  PROVE  Apiece(products \cup {p}) /\ p \notin products
<1>1. \A q \in products : ~ Imports!Clash(p, {q}) /\ ~ Imports!Clash(q, {p})
  BY DEF Imports!Clash
<1>2. p \notin products  BY DEF Imports!Clash
<1> QED  BY <1>1, <1>2 DEF Apiece

\* The invariant, part by part.
LEMMA ImportParts ==
  Imports!IInv <=>
    /\ Imports!TypeOK /\ Apart(grid, imports) /\ Imports!SavedSoFar /\ Imports!CodePicked
    /\ Apiece(catalogue \cup created) /\ Stocked(catalogue) /\ Stocked(created)
    /\ phase = "saved" =>
         /\ \A i \in DOMAIN grid : grid[i].new => \E p \in catalogue : Imports!IsOf(p, grid[i])
         /\ delivered = Imports!LinesUpTo(grid)[Len(grid)]
    /\ phase # "saved" => Cardinality(catalogue) = others
    /\ Caused(refused, catalogue, grid)
<1>1. Imports!TypeOK => catalogue \subseteq Imports!Product /\ created \subseteq Imports!Product
  BY DEF Imports!TypeOK
<1>2. Imports!Unique <=> Apiece(catalogue \cup created)  BY DEF Imports!Unique, Apiece
<1>3. Apiece(catalogue \cup created) => Apiece(catalogue)  BY DEF Apiece
<1> QED
  BY <1>1, <1>2, <1>3, ImportApart, ImportCaused, ImportOperators
  DEF Imports!IInv, Imports!AllOrNothing, Stocked, Apiece

\* The same of the state after a step.
LEMMA ImportPartsAfter ==
  ASSUME Imports!TypeOK', Apart(grid', imports'), Imports!SavedSoFar', Imports!CodePicked',
         Apiece(catalogue' \cup created'), Stocked(catalogue'), Stocked(created'),
         phase' = "saved" =>
           /\ \A i \in DOMAIN grid' : grid'[i].new => \E p \in catalogue' : Imports!IsOf(p, grid'[i])
           /\ delivered' = Imports!LinesUpTo(grid')[Len(grid')],
         phase' # "saved" => Cardinality(catalogue') = others',
         Caused(refused', catalogue', grid')
  PROVE  Imports!IInv'
<1>1. Imports!RowsApart'  BY DEF Imports!RowsApart, Apart
<1>2. Imports!Unique'  BY DEF Imports!Unique, Apiece
<1>3. Imports!RefusedForCause'  BY DEF Imports!RefusedForCause, Caused
<1>4. Imports!IsFiniteSet(catalogue') /\ Imports!IsFiniteSet(created')
  BY ImportOperators DEF Stocked
<1>5. Imports!AllOrNothing'
  <2>1. \A p, q \in catalogue' : p # q => ~ Imports!Clash(p, {q})  BY DEF Apiece
  <2> QED  BY <2>1, ImportOperators DEF Imports!AllOrNothing
<1> QED  BY <1>1, <1>2, <1>3, <1>4, <1>5 DEF Imports!IInv

LEMMA ImportInitIInv ==
  Imports!ImportAssumptions /\ Imports!Init => Imports!IInv
<1> SUFFICES ASSUME Imports!ImportAssumptions, Imports!Init PROVE Imports!IInv  OBVIOUS
<1>1. Imports!TypeOK  BY DEF Imports!Init, Imports!TypeOK, Imports!ImportAssumptions
<1>2. Apart(grid, imports)  BY DEF Imports!Init, Apart
<1>3. Imports!SavedSoFar /\ Imports!CodePicked
  BY DEF Imports!Init, Imports!SavedSoFar, Imports!CodePicked
<1>4. Apiece(catalogue \cup created)  BY DEF Imports!Init, Apiece
<1>5. Stocked(catalogue) /\ Stocked(created) /\ Cardinality(catalogue) = others
  BY FS_EmptySet DEF Imports!Init, Stocked
<1>6. Caused(refused, catalogue, grid)  BY DEF Imports!Init, Caused
<1>7. phase # "saved"  BY DEF Imports!Init
<1> QED  BY <1>1, <1>2, <1>3, <1>4, <1>5, <1>6, <1>7, ImportParts

\* Another user's product is as unique as those of the transaction.
LEMMA ImportStepOther ==
  ASSUME Imports!ImportAssumptions, Imports!IInv, NEW p \in Imports!Product, Imports!Other(p)
  PROVE  Imports!IInv'
<1>0. /\ others < MaxOthers /\ ~ Imports!Clash(p, catalogue \cup created)
      /\ catalogue' = catalogue \cup {p} /\ others' = others + 1
      /\ UNCHANGED <<onPage, phase, grid, imports, at, code, fileCounter, created,
                     delivered, refused>>
  BY DEF Imports!Other
<1>1. Imports!TypeOK'
  BY <1>0, ImportParts DEF Imports!TypeOK, Imports!ImportAssumptions
<1>2. Apart(grid', imports')  BY <1>0, ImportParts
<1>3. Imports!SavedSoFar'  BY <1>0, ImportParts DEF Imports!SavedSoFar
<1>4. Imports!CodePicked'  BY <1>0, ImportParts DEF Imports!CodePicked
<1>5. Apiece(catalogue' \cup created') /\ p \notin catalogue
  <2>1. Apiece((catalogue \cup created) \cup {p}) /\ p \notin catalogue \cup created
    BY <1>0, ImportParts, ImportApieceMore
  <2>2. catalogue' \cup created' = (catalogue \cup created) \cup {p}  BY <1>0
  <2> QED  BY <2>1, <2>2
<1>6. Stocked(catalogue') /\ Stocked(created') /\ Cardinality(catalogue') = Cardinality(catalogue) + 1
  <2>1. Stocked(catalogue) /\ Stocked(created)  BY ImportParts
  <2>2. IsFiniteSet(catalogue \cup {p})
        /\ Cardinality(catalogue \cup {p}) = Cardinality(catalogue) + 1
    BY <1>5, <2>1, FS_AddElement DEF Stocked
  <2> QED  BY <1>0, <2>1, <2>2 DEF Stocked
<1>7. phase' = "saved" =>
         /\ \A i \in DOMAIN grid' : grid'[i].new => \E q \in catalogue' : Imports!IsOf(q, grid'[i])
         /\ delivered' = Imports!LinesUpTo(grid')[Len(grid')]
  BY <1>0, ImportParts
<1>8. phase' # "saved" => Cardinality(catalogue') = others'
  BY <1>0, <1>6, ImportParts
<1>9. Caused(refused', catalogue', grid')
  <2>1. catalogue \subseteq catalogue' /\ refused' = refused /\ grid' = grid  BY <1>0
  <2>2. Caused(refused, catalogue', grid)  BY <2>1, ImportParts, ImportCausedMore
  <2> QED  BY <2>1, <2>2
<1> QED  BY <1>1, <1>2, <1>3, <1>4, <1>5, <1>6, <1>7, <1>8, <1>9, ImportPartsAfter

\* What happens to the grid before the save.
LEMMA ImportStepReview ==
  ASSUME Imports!ImportAssumptions, Imports!IInv, phase = "review",
         phase' = "review", grid' \in Seq(Imports!GridRow), imports' \in 0..MaxImports,
         Apart(grid', imports'), refused' = Nothing, onPage' \in {onPage, catalogue},
         UNCHANGED <<catalogue, others, at, code, fileCounter, created, delivered>>
  PROVE  Imports!IInv'
<1>1. at = 0 /\ created = {}  BY ImportParts DEF Imports!SavedSoFar
<1>2. Imports!TypeOK'
  <2>1. Len(grid') \in Nat  OBVIOUS
  <2>2. onPage' \subseteq catalogue  BY ImportParts DEF Imports!TypeOK
  <2> QED  BY <1>1, <2>1, <2>2, ImportParts DEF Imports!TypeOK
<1>3. Imports!SavedSoFar' /\ Imports!CodePicked'
  BY <1>1 DEF Imports!SavedSoFar, Imports!CodePicked
<1>4. Apiece(catalogue' \cup created') /\ Stocked(catalogue') /\ Stocked(created')
  BY ImportParts
<1>5. Cardinality(catalogue') = others'  BY ImportParts
<1>6. Caused(refused', catalogue', grid')  BY DEF Caused
<1> QED  BY <1>2, <1>3, <1>4, <1>5, <1>6, ImportPartsAfter

LEMMA ImportStepGrid ==
  ASSUME Imports!ImportAssumptions, Imports!IInv, NEW i \in DOMAIN grid,
         Imports!RemoveRow(i) \/ \E p \in onPage : Imports!LinkRow(i, p)
  PROVE  Imports!IInv'
<1>1. /\ phase = "review" /\ phase' = "review" /\ refused' = Nothing
      /\ UNCHANGED <<catalogue, others, onPage, imports, at, code, fileCounter, created,
                     delivered>>
  BY DEF Imports!RemoveRow, Imports!LinkRow
<1>2. /\ grid \in Seq(Imports!GridRow) /\ Apart(grid, imports)
      /\ onPage \subseteq Imports!Product /\ imports \in 0..MaxImports
  BY ImportParts DEF Imports!TypeOK
<1>3. imports \in Nat  BY <1>2 DEF Imports!ImportAssumptions
<1>4. grid' \in Seq(Imports!GridRow) /\ Apart(grid', imports)
  <2>1. CASE Imports!RemoveRow(i)  BY <1>2, <1>3, <2>1, ImportRemoved DEF Imports!RemoveRow
  <2>2. ASSUME NEW p \in onPage, Imports!LinkRow(i, p)
        PROVE  grid' \in Seq(Imports!GridRow) /\ Apart(grid', imports)
    <3> DEFINE linked == Imports!Known(p, grid[i].quantity)
               more == Imports!Raise(grid, p, grid[i].quantity)
    <3>1. grid' = IF Imports!RowOf(grid, p) = {} THEN [grid EXCEPT ![i] = linked]
                  ELSE Imports!RemoveAt(more, i)
      BY <2>2 DEF Imports!LinkRow
    <3>2. p \in Imports!Product /\ grid[i].quantity \in Nat
      <4>1. grid[i] \in Imports!GridRow  BY <1>2
      <4> QED  BY <1>2, <4>1 DEF Imports!GridRow
    <3>3. linked \in Imports!GridRow /\ ~ linked.new /\ linked.file <= imports
      BY <1>3, <3>2, ImportKnown
    <3>4. CASE Imports!RowOf(grid, p) = {}
      <4> HIDE DEF linked
      <4>1. grid' = [grid EXCEPT ![i] = linked]  BY <3>1, <3>4
      <4> QED  BY <1>2, <1>3, <3>3, <4>1, ImportReplaced
    <3>5. CASE Imports!RowOf(grid, p) # {}
      <4>1. more \in Seq(Imports!GridRow) /\ Apart(more, imports) /\ DOMAIN more = DOMAIN grid
        BY <1>2, <1>3, <3>2, <3>5, ImportRaised
      <4> HIDE DEF more
      <4> QED  BY <1>3, <3>1, <3>5, <4>1, ImportRemoved
    <3> QED  BY <3>4, <3>5
  <2> QED  BY <2>1, <2>2
<1> QED  BY <1>1, <1>2, <1>4, ImportStepReview

LEMMA ImportStepRead ==
  ASSUME Imports!ImportAssumptions, Imports!IInv, NEW file \in Files, Imports!Import(file)
  PROVE  Imports!IInv'
<1>1. /\ grid' = Imports!Parsed(file) /\ phase = "review" /\ imports < MaxImports
      /\ imports' = imports + 1 /\ refused' = Nothing
      /\ UNCHANGED <<catalogue, others, onPage, phase, at, code, fileCounter, created,
                     delivered>>
  BY DEF Imports!Import
<1>2. grid \in Seq(Imports!GridRow) /\ imports \in 0..MaxImports /\ MaxImports \in Nat
  BY ImportParts DEF Imports!TypeOK, Imports!ImportAssumptions
<1>3. imports \in Nat /\ imports' \in 0..MaxImports  BY <1>1, <1>2
<1>4. grid' \in Seq(Imports!GridRow) /\ Apart(grid', imports')
  BY <1>1, <1>2, <1>3, ImportParsed, ImportParts
<1> QED  BY <1>1, <1>3, <1>4, ImportStepReview

LEMMA ImportStepReload ==
  ASSUME Imports!ImportAssumptions, Imports!IInv, Imports!Reload
  PROVE  Imports!IInv'
<1>1. /\ phase = "review" /\ phase' = "review" /\ grid' = Imports!Restored(grid)
      /\ onPage' = catalogue /\ refused' = Nothing
      /\ UNCHANGED <<catalogue, others, imports, at, code, fileCounter, created, delivered>>
  BY DEF Imports!Reload
<1>2. grid \in Seq(Imports!GridRow) /\ imports \in 0..MaxImports /\ MaxImports \in Nat
  BY ImportParts DEF Imports!TypeOK, Imports!ImportAssumptions
<1>3. imports \in Nat  BY <1>2
<1>4. grid' \in Seq(Imports!GridRow) /\ Apart(grid', imports')
  BY <1>1, <1>2, <1>3, ImportRestored, ImportParts
<1> QED  BY <1>1, <1>2, <1>4, ImportStepReview

LEMMA ImportStepSave ==
  ASSUME Imports!ImportAssumptions, Imports!IInv, Imports!Save
  PROVE  Imports!IInv'
<1>1. /\ phase = "review" /\ grid # <<>> /\ phase' = "saving" /\ at' = 1 /\ fileCounter' = 0
      /\ created' = {} /\ delivered' = <<>> /\ refused' = Nothing
      /\ onPage' = catalogue /\ UNCHANGED <<catalogue, others, grid, imports, code>>
  BY DEF Imports!Save
<1>2. grid \in Seq(Imports!GridRow) /\ created = {}
  BY <1>1, ImportParts DEF Imports!TypeOK, Imports!SavedSoFar
<1>3. Imports!TypeOK'
  <2>1. Len(grid') \in Nat /\ 1 \in 0..Len(grid') + 1  BY <1>1, <1>2
  <2> QED  BY <1>1, <1>2, <2>1, ImportParts DEF Imports!TypeOK
<1>4. Imports!SavedSoFar'
  <2>1. at' \in 1..(Len(grid') + 1) /\ at' - 1 = 0 /\ 1..(at' - 1) = {}  BY <1>1, <1>2
  <2>2. delivered' = Imports!LinesUpTo(grid')[at' - 1]
    BY <1>1, <1>2, <2>1, ImportLines
  <2> QED  BY <1>1, <2>1, <2>2 DEF Imports!SavedSoFar
<1>5. Imports!CodePicked'  BY <1>1 DEF Imports!CodePicked
<1>6. Apiece(catalogue' \cup created') /\ Stocked(catalogue') /\ Stocked(created')
  BY <1>1, <1>2, ImportParts
<1>7. Cardinality(catalogue') = others'  BY <1>1, ImportParts
<1>8. Caused(refused', catalogue', grid')  BY <1>1 DEF Caused
<1>9. Apart(grid', imports')  BY <1>1, ImportParts
<1> QED  BY <1>1, <1>3, <1>4, <1>5, <1>6, <1>7, <1>8, <1>9, ImportPartsAfter

\* Nothing of a save that fails is left.
LEMMA ImportStepBack ==
  ASSUME Imports!ImportAssumptions, Imports!IInv, phase \in {"saving", "creating"},
         NEW why, Imports!RollBack(why), Caused(why, catalogue, grid')
  PROVE  Imports!IInv'
<1>1. /\ phase' = "review" /\ at' = 0 /\ code' = 0 /\ fileCounter' = 0
      /\ created' = {} /\ delivered' = <<>> /\ refused' = why
      /\ grid' = Imports!Restored(grid) /\ UNCHANGED <<catalogue, others, onPage, imports>>
  BY DEF Imports!RollBack
<1>0. grid \in Seq(Imports!GridRow) /\ Apart(grid, imports) /\ imports \in Nat
  BY ImportParts DEF Imports!TypeOK, Imports!ImportAssumptions
<1>7. grid' \in Seq(Imports!GridRow) /\ Apart(grid', imports')
  BY <1>0, <1>1, ImportRestored
<1>2. Imports!TypeOK'
  <2>1. Len(grid') \in Nat /\ 0 \in 0..Len(grid') + 1  BY <1>7
  <2> QED  BY <1>1, <1>7, <2>1, ImportParts DEF Imports!TypeOK
<1>3. Imports!SavedSoFar' /\ Imports!CodePicked'
  BY <1>1 DEF Imports!SavedSoFar, Imports!CodePicked
<1>4. Apiece(catalogue' \cup created')
  <2>1. catalogue' \cup created' \subseteq catalogue \cup created  BY <1>1
  <2> QED  BY <2>1, ImportParts DEF Apiece
<1>5. Stocked(catalogue') /\ Stocked(created')
  BY <1>1, ImportParts, FS_EmptySet DEF Stocked
<1>6. Cardinality(catalogue') = others' /\ Caused(refused', catalogue', grid')
      /\ Apart(grid', imports')
  BY <1>1, <1>7, ImportParts
<1> QED  BY <1>1, <1>2, <1>3, <1>4, <1>5, <1>6, ImportPartsAfter

\* Where a save has got to.
LEMMA ImportAt ==
  ASSUME Imports!IInv, phase \in {"saving", "creating"}
  PROVE  /\ grid \in Seq(Imports!GridRow) /\ Apart(grid, imports)
         /\ at \in 1..(Len(grid) + 1) /\ at \in Nat /\ Len(grid) \in Nat
         /\ \A i \in 1..(at - 1) : grid[i].new => \E p \in created : Imports!IsOf(p, grid[i])
         /\ \A p \in created : \E i \in 1..(at - 1) : grid[i].new /\ Imports!IsOf(p, grid[i])
         /\ delivered = Imports!LinesUpTo(grid)[at - 1]
         /\ delivered \in Seq(Imports!Line)
         /\ at <= Len(grid) => grid[at] \in Imports!GridRow /\ at \in DOMAIN grid
<1>1. grid \in Seq(Imports!GridRow) /\ Apart(grid, imports) /\ delivered \in Seq(Imports!Line)
  BY ImportParts DEF Imports!TypeOK
<1>2. Imports!SavedSoFar  BY ImportParts
<1>3. at \in 1..(Len(grid) + 1)  BY <1>2 DEF Imports!SavedSoFar
<1>4. at <= Len(grid) => grid[at] \in Imports!GridRow /\ at \in DOMAIN grid  BY <1>1, <1>3
<1> QED  BY <1>1, <1>2, <1>3, <1>4 DEF Imports!SavedSoFar

LEMMA ImportDelivered ==
  ASSUME Imports!IInv, phase \in {"saving", "creating"}, at <= Len(grid),
         Imports!Deliver(grid[at])
  PROVE  delivered' = Imports!LinesUpTo(grid)[at] /\ delivered' \in Seq(Imports!Line)
<1> DEFINE item == grid[at]
           line == <<item.name, item.quantity>>
<1>1. item \in Imports!GridRow /\ at \in 1..Len(grid) /\ grid \in Seq(Imports!GridRow)
      /\ delivered = Imports!LinesUpTo(grid)[at - 1] /\ delivered \in Seq(Imports!Line)
  BY ImportAt
<1>2. item.quantity \in Nat /\ item.name \in FileNames  BY <1>1 DEF Imports!GridRow
<1>3. delivered' = IF item.quantity > 0 THEN Append(delivered, line) ELSE delivered
  BY DEF Imports!Deliver
<1>4. Imports!LinesUpTo(grid)[at] = IF item.quantity = 0 THEN Imports!LinesUpTo(grid)[at - 1]
                                    ELSE Append(Imports!LinesUpTo(grid)[at - 1], line)
  BY <1>1, ImportLines
<1> HIDE DEF item
<1>5. item.quantity > 0 => line \in Imports!Line  BY <1>2 DEF Imports!Line
<1> HIDE DEF line
<1>6. CASE item.quantity > 0  BY <1>1, <1>2, <1>3, <1>4, <1>5, <1>6
<1>7. CASE ~ (item.quantity > 0)
  <2>1. item.quantity = 0  BY <1>2, <1>7
  <2> QED  BY <1>1, <1>3, <1>4, <1>7, <2>1
<1> QED  BY <1>6, <1>7

\* The next row has been dealt with: what products and lines there are now.
LEMMA ImportStepOn ==
  ASSUME Imports!ImportAssumptions, Imports!IInv, phase \in {"saving", "creating"},
         at <= Len(grid), Imports!Deliver(grid[at]), at' = at + 1, phase' = "saving",
         UNCHANGED <<catalogue, others, onPage, grid, imports, code, fileCounter, refused>>,
         created \subseteq created', Apiece(catalogue' \cup created'), Stocked(created'),
         grid[at].new => \E p \in created' : Imports!IsOf(p, grid[at]),
         \A p \in created' \ created : grid[at].new /\ Imports!IsOf(p, grid[at])
  PROVE  Imports!IInv'
<1>1. /\ grid \in Seq(Imports!GridRow) /\ Apart(grid, imports)
      /\ at \in 1..(Len(grid) + 1) /\ at \in Nat /\ Len(grid) \in Nat
      /\ \A i \in 1..(at - 1) : grid[i].new => \E p \in created : Imports!IsOf(p, grid[i])
      /\ \A p \in created : \E i \in 1..(at - 1) : grid[i].new /\ Imports!IsOf(p, grid[i])
  BY ImportAt
<1>2. delivered' = Imports!LinesUpTo(grid)[at] /\ delivered' \in Seq(Imports!Line)
  BY ImportDelivered
<1>3. Imports!TypeOK'
  <2>1. at' \in 0..Len(grid') + 1  BY <1>1
  <2>2. created' \subseteq Imports!Product  BY DEF Stocked
  <2> QED  BY <1>1, <1>2, <2>1, <2>2, ImportParts DEF Imports!TypeOK
<1>4. Imports!SavedSoFar'
  <2>1. at' \in 1..(Len(grid') + 1) /\ at' - 1 = at /\ grid' = grid  BY <1>1
  <2>2. \A i \in 1..at : i = at \/ i \in 1..(at - 1)  BY <1>1
  <2>3. ASSUME NEW i \in 1..at, grid[i].new
        PROVE  \E p \in created' : Imports!IsOf(p, grid[i])
    BY <1>1, <2>2, <2>3
  <2>4. ASSUME NEW p \in created'
        PROVE  \E i \in 1..at : grid[i].new /\ Imports!IsOf(p, grid[i])
    <3>1. at \in 1..at /\ \A i \in 1..(at - 1) : i \in 1..at  BY <1>1
    <3>2. CASE p \in created  BY <1>1, <3>1, <3>2
    <3>3. CASE p \notin created  BY <3>1, <3>3
    <3> QED  BY <3>2, <3>3
  <2> QED  BY <1>2, <2>1, <2>3, <2>4 DEF Imports!SavedSoFar
<1>5. Imports!CodePicked'  BY DEF Imports!CodePicked
<1>6. Stocked(catalogue') /\ Cardinality(catalogue') = others' /\ Caused(refused', catalogue', grid')
      /\ Apart(grid', imports')
  BY ImportParts
<1> QED  BY <1>3, <1>4, <1>5, <1>6, ImportPartsAfter

LEMMA ImportStepKeep ==
  ASSUME Imports!ImportAssumptions, Imports!IInv, Imports!KeepRow
  PROVE  Imports!IInv'
<1>1. /\ phase = "saving" /\ at <= Len(grid) /\ ~ grid[at].new /\ Imports!Deliver(grid[at])
      /\ at' = at + 1 /\ phase' = "saving"
      /\ UNCHANGED <<catalogue, others, onPage, grid, imports, code, fileCounter, refused>>
      /\ created' = created
  BY DEF Imports!KeepRow
<1>2. Apiece(catalogue' \cup created') /\ Stocked(created')  BY <1>1, ImportParts
<1> QED  BY <1>1, <1>2, ImportStepOn

LEMMA ImportStepPick ==
  ASSUME Imports!ImportAssumptions, Imports!IInv, Imports!PickCode
  PROVE  Imports!IInv'
<1> DEFINE products == catalogue \cup created
           taken == CodesOf(products)
           from == IF fileCounter = 0 THEN Imports!NextFree(products) ELSE fileCounter
           free == FreeCode(from, taken)
           kept == grid[at].code \notin taken
<1>1. /\ phase = "saving" /\ at <= Len(grid) /\ grid[at].new
      /\ code' = IF kept THEN grid[at].code ELSE free
      /\ fileCounter' = IF kept THEN fileCounter ELSE free + 1
      /\ phase' = "creating"
      /\ UNCHANGED <<catalogue, others, onPage, grid, imports, at, created, delivered, refused>>
  BY DEF Imports!PickCode, FreeCode, CodesOf
<1>2. Stocked(products)  BY ImportParts, FS_Union DEF Stocked
<1>3. from \in Nat
  <2>1. fileCounter \in Nat  BY ImportParts DEF Imports!TypeOK
  <2> HIDE DEF products
  <2> QED  BY <1>2, <2>1, ImportNextFree
<1>4. free \in Nat /\ free \notin taken
  <2> HIDE DEF products, from
  <2> QED  BY <1>2, <1>3, ImportFreeCode
<1>5. \A p \in created : p.code \in taken  BY DEF CodesOf
<1>6. grid[at] \in Imports!GridRow /\ at \in 1..(Len(grid) + 1)  BY <1>1, ImportAt
<1> HIDE DEF free, taken
<1>7. code' \in Nat /\ code' \notin taken /\ fileCounter' \in Nat
  <2>1. fileCounter \in Nat /\ grid[at].code \in Nat
    BY <1>6, ImportParts DEF Imports!TypeOK, Imports!GridRow
  <2> QED  BY <1>1, <1>4, <2>1
<1>8. Imports!TypeOK'  BY <1>1, <1>7, ImportParts DEF Imports!TypeOK
<1>9. Imports!SavedSoFar'  BY <1>1, ImportParts DEF Imports!SavedSoFar
<1>10. Imports!CodePicked'  BY <1>1, <1>5, <1>7 DEF Imports!CodePicked
<1>11. /\ Apiece(catalogue' \cup created') /\ Stocked(catalogue') /\ Stocked(created')
       /\ Cardinality(catalogue') = others' /\ Caused(refused', catalogue', grid') /\ Apart(grid', imports')
  BY <1>1, ImportParts
<1> QED  BY <1>1, <1>8, <1>9, <1>10, <1>11, ImportPartsAfter

LEMMA ImportPending ==
  ASSUME Imports!IInv, phase = "creating"
  PROVE  /\ Imports!Pending \in Imports!Product
         /\ at \in DOMAIN grid /\ grid[at] \in Imports!GridRow /\ grid[at].new
         /\ at <= Len(grid)
         /\ \A p \in created : p.code # code
         /\ Imports!Pending.code = code /\ Imports!IsOf(Imports!Pending, grid[at])
<1>1. at <= Len(grid) /\ grid[at].new /\ \A p \in created : p.code # code
  BY ImportParts DEF Imports!CodePicked
<1>2. grid[at] \in Imports!GridRow /\ at \in DOMAIN grid  BY <1>1, ImportAt
<1>3. code \in Nat  BY ImportParts DEF Imports!TypeOK
<1>4. Imports!ToSet(grid[at].barcodes) \subseteq FileBarcodes /\ grid[at].name \in FileNames
  <2>1. grid[at].barcodes \in Seq(FileBarcodes)  BY <1>2 DEF Imports!GridRow
  <2> QED  BY <1>2, <2>1, ImportOperators DEF Imports!GridRow
<1>5. Imports!Pending \in Imports!Product
  BY <1>3, <1>4 DEF Imports!Pending, Imports!Product
<1>6. Imports!Pending.code = code /\ Imports!IsOf(Imports!Pending, grid[at])
  BY DEF Imports!Pending, Imports!IsOf
<1> QED  BY <1>1, <1>2, <1>5, <1>6

LEMMA ImportStepCreate ==
  ASSUME Imports!ImportAssumptions, Imports!IInv, Imports!CreateRow
  PROVE  Imports!IInv'
<1>1. /\ phase = "creating" /\ ~ Imports!Clash(Imports!Pending, catalogue \cup created)
      /\ created' = created \cup {Imports!Pending} /\ Imports!Deliver(grid[at])
      /\ at' = at + 1 /\ phase' = "saving"
      /\ UNCHANGED <<catalogue, others, onPage, grid, imports, code, fileCounter, refused>>
  BY DEF Imports!CreateRow, Imports!Refusable
<1>2. /\ Imports!Pending \in Imports!Product /\ at <= Len(grid) /\ grid[at].new
      /\ Imports!IsOf(Imports!Pending, grid[at])
  BY <1>1, ImportPending
<1> DEFINE pending == Imports!Pending
<1> HIDE DEF pending
<1>3. Apiece(catalogue' \cup created')
  <2>1. Apiece((catalogue \cup created) \cup {pending})
    BY <1>1, <1>2, ImportParts, ImportApieceMore DEF pending
  <2>2. catalogue' \cup created' = (catalogue \cup created) \cup {pending}
    BY <1>1 DEF pending
  <2> QED  BY <2>1, <2>2
<1>4. Stocked(created')
  <2>1. Stocked(created)  BY ImportParts
  <2>2. IsFiniteSet(created \cup {pending})  BY <2>1, FS_AddElement DEF Stocked
  <2> QED  BY <1>1, <1>2, <2>1, <2>2 DEF Stocked, pending
<1>5. created \subseteq created' /\ pending \in created'
      /\ \A p \in created' \ created : p = pending
  BY <1>1 DEF pending
<1>6. \E p \in created' : Imports!IsOf(p, grid[at])  BY <1>2, <1>5 DEF pending
<1>7. \A p \in created' \ created : grid[at].new /\ Imports!IsOf(p, grid[at])
  BY <1>2, <1>5 DEF pending
<1> QED  BY <1>1, <1>2, <1>3, <1>4, <1>5, <1>6, <1>7, ImportStepOn

\* What clashes with a row is in the catalogue or of another file.
LEMMA ImportStepRefuse ==
  ASSUME Imports!ImportAssumptions, Imports!IInv, Imports!RefuseRow
  PROVE  Imports!IInv'
<1> DEFINE item == grid[at]
           why == [row |-> item, code |-> code]
           wish == [why.row EXCEPT !.barcodes = Imports!ToSet(@), !.code = why.code]
           Other == \E i \in DOMAIN grid :
                      grid[i].new /\ grid[i].file # item.file /\ Imports!Alike(grid[i], item)
<1>1. /\ phase = "creating"
      /\ \/ Imports!Clash(Imports!Pending, catalogue \cup created)
         \/ Imports!TwiceInRow(item) \/ item.name \in TooLong
      /\ Imports!RollBack(why)
  BY DEF Imports!RefuseRow, Imports!Refusable
<1>2. /\ at \in DOMAIN grid /\ item \in Imports!GridRow /\ item.new
      /\ \A p \in created : p.code # code
      /\ Imports!Pending.code = code /\ Imports!IsOf(Imports!Pending, item)
  BY <1>1, ImportPending
<1>3. /\ Apart(grid, imports) /\ grid \in Seq(Imports!GridRow) /\ at \in Nat
      /\ Len(grid) \in Nat /\ at \in 1..(Len(grid) + 1)
      /\ \A p \in created : \E i \in 1..(at - 1) : grid[i].new /\ Imports!IsOf(p, grid[i])
  BY <1>1, ImportAt
<1>4. ASSUME NEW q \in created, Imports!Clash(Imports!Pending, {q}) PROVE Other
  <2>1. PICK i \in 1..(at - 1) : grid[i].new /\ Imports!IsOf(q, grid[i])  BY <1>3
  <2>2. i \in DOMAIN grid /\ i # at  BY <1>2, <1>3
  <2>3. q.code # Imports!Pending.code  BY <1>2
  <2>4. Imports!Alike(grid[i], item)
    BY <1>2, <1>4, <2>1, <2>3 DEF Imports!Alike, Imports!IsOf, Imports!Clash
  <2>5. grid[i].file # item.file  BY <1>2, <1>3, <2>1, <2>2, <2>4 DEF Apart
  <2> QED  BY <2>1, <2>2, <2>4, <2>5
<1>5. wish.name = item.name /\ wish.code = code
      /\ wish.barcodes = Imports!ToSet(item.barcodes)
  BY <1>2 DEF Imports!GridRow
<1>6. grid' = Imports!Restored(grid)  BY <1>1 DEF Imports!RollBack
<1>7. \A i \in DOMAIN grid : /\ i \in DOMAIN grid' /\ grid'[i].new = grid[i].new
                            /\ grid'[i].file = grid[i].file /\ grid'[i].name = grid[i].name
                            /\ grid'[i].barcodes = grid[i].barcodes
  <2>1. imports \in Nat  BY ImportParts DEF Imports!TypeOK, Imports!ImportAssumptions
  <2> QED  BY <1>3, <1>6, <2>1, ImportRestored
<1>8. why.row = item /\ why.code = code  OBVIOUS
<1>9. Caused(why, catalogue, grid')
  <2>1. CASE Imports!TwiceInRow(item) \/ item.name \in TooLong  BY <1>8, <2>1 DEF Caused
  <2>2. ASSUME Other PROVE Caused(why, catalogue, grid')
    <3>1. PICK i \in DOMAIN grid :
             grid[i].new /\ grid[i].file # item.file /\ Imports!Alike(grid[i], item)
      BY <2>2
    <3> HIDE DEF item, why, wish, Other
    <3>2. i \in DOMAIN grid' /\ grid'[i].new /\ grid'[i].file # item.file
      BY <1>7, <3>1
    <3>3. Imports!Alike(grid'[i], item)  BY <1>7, <3>1 DEF Imports!Alike
    <3> QED  BY <1>8, <3>2, <3>3 DEF Caused
  <2>3. CASE Imports!Clash(Imports!Pending, catalogue \cup created)
    <3>1. CASE \E q \in created : Imports!Clash(Imports!Pending, {q})  BY <1>4, <2>2, <3>1
    <3>2. CASE ~ \E q \in created : Imports!Clash(Imports!Pending, {q})
      <4>1. Imports!Clash(Imports!Pending, catalogue)  BY <2>3, <3>2 DEF Imports!Clash
      <4>2. Imports!Clash(wish, catalogue)
        <5> HIDE DEF wish
        <5> QED  BY <1>2, <1>5, <4>1 DEF Imports!Clash, Imports!IsOf
      <4> QED  BY <4>2 DEF Caused
    <3> QED  BY <3>1, <3>2
  <2> QED  BY <1>1, <2>1, <2>3
<1> HIDE DEF why
<1> QED  BY <1>1, <1>9, ImportStepBack

LEMMA ImportStepCommit ==
  ASSUME Imports!ImportAssumptions, Imports!IInv, Imports!Commit
  PROVE  Imports!IInv'
<1>1. /\ phase = "saving" /\ at > Len(grid) /\ catalogue' = catalogue \cup created
      /\ created' = {} /\ phase' = "saved"
      /\ UNCHANGED <<others, onPage, grid, imports, at, code, fileCounter, delivered, refused>>
  BY DEF Imports!Commit
<1>2. /\ grid \in Seq(Imports!GridRow) /\ at \in 1..(Len(grid) + 1) /\ Len(grid) \in Nat
      /\ \A i \in 1..(at - 1) : grid[i].new => \E p \in created : Imports!IsOf(p, grid[i])
      /\ delivered = Imports!LinesUpTo(grid)[at - 1]
  BY <1>1, ImportAt
<1>3. at - 1 = Len(grid) /\ DOMAIN grid = 1..(at - 1)  BY <1>1, <1>2
<1>4. \A i \in DOMAIN grid' : grid'[i].new => \E p \in catalogue' : Imports!IsOf(p, grid'[i])
  BY <1>1, <1>2, <1>3
<1>5. delivered' = Imports!LinesUpTo(grid')[Len(grid')]  BY <1>1, <1>2, <1>3
<1>6. Imports!TypeOK'  BY <1>1, ImportParts DEF Imports!TypeOK
<1>7. Imports!SavedSoFar' /\ Imports!CodePicked'
  BY <1>1 DEF Imports!SavedSoFar, Imports!CodePicked
<1>8. Apiece(catalogue' \cup created')
  <2>1. catalogue' \cup created' = catalogue \cup created  BY <1>1
  <2> QED  BY <2>1, ImportParts
<1>9. Stocked(catalogue') /\ Stocked(created')
  BY <1>1, ImportParts, FS_Union, FS_EmptySet DEF Stocked
<1>10. Caused(refused', catalogue', grid')
  <2>1. catalogue \subseteq catalogue' /\ refused' = refused /\ grid' = grid  BY <1>1
  <2>2. Caused(refused, catalogue', grid)  BY <2>1, ImportParts, ImportCausedMore
  <2> QED  BY <2>1, <2>2
<1>11. Apart(grid', imports') /\ phase' = "saved"  BY <1>1, ImportParts
<1> QED
  BY <1>4, <1>5, <1>6, <1>7, <1>8, <1>9, <1>10, <1>11, ImportPartsAfter

LEMMA ImportStepIInv ==
  ASSUME Imports!ImportAssumptions, Imports!IInv, [Imports!Next]_(Imports!vars)
  PROVE  Imports!IInv'
<1>1. CASE UNCHANGED Imports!vars
  <2>1. UNCHANGED <<catalogue, others, onPage, phase, grid, imports, at, code,
                    fileCounter, created, delivered, refused>>
    BY <1>1 DEF Imports!vars
  <2>2. Imports!TypeOK'  BY <2>1, ImportParts DEF Imports!TypeOK
  <2>3. Imports!SavedSoFar'  BY <2>1, ImportParts DEF Imports!SavedSoFar
  <2>4. Imports!CodePicked'  BY <2>1, ImportParts DEF Imports!CodePicked
  <2>5. /\ Apiece(catalogue' \cup created') /\ Stocked(catalogue') /\ Stocked(created')
        /\ Caused(refused', catalogue', grid') /\ Apart(grid', imports')
        /\ phase' # "saved" => Cardinality(catalogue') = others'
        /\ phase' = "saved" =>
             /\ \A i \in DOMAIN grid' : grid'[i].new => \E p \in catalogue' : Imports!IsOf(p, grid'[i])
             /\ delivered' = Imports!LinesUpTo(grid')[Len(grid')]
    BY <2>1, ImportParts
  <2> QED  BY <2>2, <2>3, <2>4, <2>5, ImportPartsAfter
<1>2. ASSUME NEW c \in FileCodes, NEW n \in FileNames, NEW b \in SUBSET FileBarcodes,
             Imports!Other([code |-> c, name |-> n, barcodes |-> b])
      PROVE  Imports!IInv'
  <2>1. [code |-> c, name |-> n, barcodes |-> b] \in Imports!Product
    BY DEF Imports!Product, Imports!ImportAssumptions
  <2> QED  BY <1>2, <2>1, ImportStepOther
<1>3. ASSUME NEW file \in Files, Imports!Import(file) PROVE Imports!IInv'
  BY <1>3, ImportStepRead
<1>4. ASSUME NEW i \in DOMAIN grid,
             Imports!RemoveRow(i) \/ \E p \in onPage : Imports!LinkRow(i, p)
      PROVE  Imports!IInv'
  BY <1>4, ImportStepGrid
<1>5. CASE Imports!Save  BY <1>5, ImportStepSave
<1>6. CASE Imports!KeepRow  BY <1>6, ImportStepKeep
<1>7. CASE Imports!PickCode  BY <1>7, ImportStepPick
<1>8. CASE Imports!CreateRow  BY <1>8, ImportStepCreate
<1>9. CASE Imports!RefuseRow  BY <1>9, ImportStepRefuse
<1>10. CASE Imports!Commit  BY <1>10, ImportStepCommit
<1>11. CASE Imports!Fail
  <2>1. phase \in {"saving", "creating"} /\ Imports!RollBack(Nothing)
    BY <1>11 DEF Imports!Fail
  <2>2. Caused(Nothing, catalogue, grid')  BY DEF Caused
  <2> QED  BY <2>1, <2>2, ImportStepBack
<1>12. CASE Imports!Reload  BY <1>12, ImportStepReload
<1> QED
  BY <1>1, <1>2, <1>3, <1>4, <1>5, <1>6, <1>7, <1>8, <1>9, <1>10, <1>11, <1>12
  DEF Imports!Next

-----------------------------------------------------------------------------
(* The inductive invariants, where their parts are followed *)

OrdersInv == part = "orders" => Orders!IInv
DeliveriesInv == part = "delivery drafts" => OnDeliveries!IInv /\ OnDeliveries!DInv
SalesInv == part = "sale drafts" => OnSales!IInv /\ OnSales!DInv
PricesInv == part = "price lists" => PriceLists!TypeOK
ReportsInv == part = "reports" => Reports!IInv
TreeInv == part = "category tree" => CategoryTree!IInv
GridInv == part = "product grid" => ProductGrid!IInv
BackupsInv == part = "backups" => Backups!IInv
TillInv == part = "till" => Till!IInv
SlotsInv == part = "barcode slots" => BarcodeSlots!IInv
ImportsInv == part = "imports" => Imports!IInv
OfficeInv ==
    /\ OrdersInv /\ DeliveriesInv /\ SalesInv /\ PricesInv /\ ReportsInv
    /\ TreeInv /\ GridInv /\ BackupsInv /\ TillInv /\ SlotsInv /\ ImportsInv
    /\ part \in Parts

LEMMA Assumed ==
  /\ Orders!OrderAssumptions
  /\ OnDeliveries!DraftAssumptions /\ OnSales!DraftAssumptions
  /\ PriceLists!PriceListAssumptions
  /\ Reports!ReportAssumptions
  /\ CategoryTree!CategoryAssumptions
  /\ ProductGrid!ProductGridAssumptions
  /\ Backups!BackupAssumptions
  /\ Till!TillAssumptions
  /\ BarcodeSlots!BarcodeAssumptions
  /\ Imports!ImportAssumptions
  BY OfficeAssumptions, DraftsAlike, SalesAlike DEF OfficeAssumptions

LEMMA InitOffice == Init => OfficeInv
<1> SUFFICES ASSUME Init PROVE OfficeInv  OBVIOUS
<1>1. OrdersInv
  <2> SUFFICES ASSUME part = "orders" PROVE Orders!IInv  BY DEF OrdersInv
  <2>1. Orders!Init  BY DEF Init
  <2> QED  BY Assumed, <2>1, OrdersInitIInv
<1>2. DeliveriesInv
  <2> SUFFICES ASSUME part = "delivery drafts" PROVE OnDeliveries!IInv /\ OnDeliveries!DInv
    BY DEF DeliveriesInv
  <2>1. OnDeliveries!Init  BY DraftsAlike DEF Init
  <2> QED  BY Assumed, <2>1, OnDeliveries!InitIInv, OnDeliveries!InitDInv
<1>3. SalesInv
  <2> SUFFICES ASSUME part = "sale drafts" PROVE OnSales!IInv /\ OnSales!DInv
    BY DEF SalesInv
  <2>1. OnSales!Init  BY SalesAlike DEF Init
  <2> QED  BY Assumed, <2>1, OnSales!InitIInv, OnSales!InitDInv
<1>4. PricesInv
  <2> SUFFICES ASSUME part = "price lists" PROVE PriceLists!TypeOK  BY DEF PricesInv
  <2>1. PriceLists!Init  BY DEF Init
  <2> QED  BY Assumed, <2>1, PriceInitTypes
<1>5. ReportsInv
  <2> SUFFICES ASSUME part = "reports" PROVE Reports!IInv  BY DEF ReportsInv
  <2>1. Reports!Init  BY DEF Init
  <2> QED  BY Assumed, <2>1, ReportInitIInv
<1>6. GridInv
  <2> SUFFICES ASSUME part = "product grid" PROVE ProductGrid!IInv  BY DEF GridInv
  <2>1. ProductGrid!Init  BY DEF Init
  <2> QED  BY Assumed, <2>1, GridInitIInv
<1>7. TreeInv
  <2> SUFFICES ASSUME part = "category tree" PROVE CategoryTree!IInv  BY DEF TreeInv
  <2>1. CategoryTree!Init  BY DEF Init
  <2> QED  BY Assumed, <2>1, TreeInitIInv
<1>8. BackupsInv
  <2> SUFFICES ASSUME part = "backups" PROVE Backups!IInv  BY DEF BackupsInv
  <2>1. Backups!Init  BY DEF Init
  <2> QED  BY Assumed, <2>1, BackupInitIInv
<1>9. TillInv
  <2> SUFFICES ASSUME part = "till" PROVE Till!IInv  BY DEF TillInv
  <2>1. Till!Init  BY DEF Init
  <2> QED  BY Assumed, <2>1, TillInitIInv
<1>10. SlotsInv
  <2> SUFFICES ASSUME part = "barcode slots" PROVE BarcodeSlots!IInv  BY DEF SlotsInv
  <2>1. BarcodeSlots!Init  BY DEF Init
  <2> QED  BY Assumed, <2>1, SlotInitIInv
<1>11. ImportsInv
  <2> SUFFICES ASSUME part = "imports" PROVE Imports!IInv  BY DEF ImportsInv
  <2>1. Imports!Init  BY DEF Init
  <2> QED  BY Assumed, <2>1, ImportInitIInv
<1>12. part \in Parts  BY DEF Init
<1> QED
  BY <1>1, <1>2, <1>3, <1>4, <1>5, <1>6, <1>7, <1>8, <1>9, <1>10, <1>11, <1>12
  DEF OfficeInv

\* A step of the office is one of the part that is followed, or leaves it alone.
LEMMA Follows ==
  ASSUME [Next]_vars
  PROVE  /\ part' = part
         /\ part = "orders" => [Orders!Next]_(Orders!vars)
         /\ part = "delivery drafts" => [OnDeliveries!Next]_(OnDeliveries!vars)
         /\ part = "sale drafts" => [OnSales!Next]_(OnSales!vars)
         /\ part = "price lists" => [PriceLists!Next]_(PriceLists!vars)
         /\ part = "reports" => [Reports!Next]_(Reports!vars)
         /\ part = "product grid" => [ProductGrid!Next]_(ProductGrid!vars)
         /\ part = "category tree" => [CategoryTree!Next]_(CategoryTree!vars)
         /\ part = "backups" => [Backups!Next]_(Backups!vars)
         /\ part = "till" => [Till!Next]_(Till!vars)
         /\ part = "barcode slots" => [BarcodeSlots!Next]_(BarcodeSlots!vars)
         /\ part = "imports" => [Imports!Next]_(Imports!vars)
<1>1. CASE UNCHANGED vars
  <2>1. UNCHANGED <<part, Orders!vars, OnDeliveries!vars, OnSales!vars>>
    BY <1>1 DEF vars, orderVars, draftVars, Orders!vars, OnDeliveries!vars, OnSales!vars
  <2>2. UNCHANGED <<PriceLists!vars, Reports!vars, ProductGrid!vars>>
    BY <1>1 DEF vars, priceListVars, reportVars, productVars, PriceLists!vars,
       Reports!vars, ProductGrid!vars
  <2>3. UNCHANGED <<CategoryTree!vars, Backups!vars, Till!vars, BarcodeSlots!vars>>
    BY <1>1 DEF vars, categoryVars, backupVars, tillVars, barcodeVars, CategoryTree!vars,
       Backups!vars, Till!vars, BarcodeSlots!vars
  <2>4. UNCHANGED Imports!vars  BY <1>1 DEF vars, importVars, Imports!vars
  <2> QED  BY <2>1, <2>2, <2>3, <2>4
<1>2. CASE Next
  <2>1. part' = part  BY <1>2 DEF Next, Rest
  <2>2. part = "orders" => Orders!Next  BY <1>2 DEF Next
  <2>3. part = "delivery drafts" => DeliveryDrafts!Next  BY <1>2 DEF Next
  <2>4. part = "sale drafts" => SaleDrafts!Next  BY <1>2 DEF Next
  <2>5. part = "price lists" => PriceLists!Next  BY <1>2 DEF Next
  <2>6. part = "reports" => Reports!Next  BY <1>2 DEF Next
  <2>7. part = "product grid" => ProductGrid!Next  BY <1>2 DEF Next
  <2>8. part = "category tree" => CategoryTree!Next  BY <1>2 DEF Next
  <2>9. part = "backups" => Backups!Next  BY <1>2 DEF Next
  <2>10. part = "till" => Till!Next  BY <1>2 DEF Next
  <2>11. part = "barcode slots" => BarcodeSlots!Next  BY <1>2 DEF Next
  <2>12. part = "imports" => Imports!Next  BY <1>2 DEF Next
  <2> QED
    BY <2>1, <2>2, <2>3, <2>4, <2>5, <2>6, <2>7, <2>8, <2>9, <2>10, <2>11, <2>12,
       DraftsAlike, SalesAlike
<1> QED  BY <1>1, <1>2

LEMMA StepOffice == OfficeInv /\ [Next]_vars => OfficeInv'
<1> SUFFICES ASSUME OfficeInv, [Next]_vars PROVE OfficeInv'  OBVIOUS
<1>1. OrdersInv'
  <2> SUFFICES ASSUME part' = "orders" PROVE Orders!IInv'  BY DEF OrdersInv
  <2>1. Orders!IInv /\ [Orders!Next]_(Orders!vars)  BY Follows DEF OfficeInv, OrdersInv
  <2> QED  BY Assumed, <2>1, OrdersStepIInv
<1>2. DeliveriesInv'
  <2> SUFFICES ASSUME part' = "delivery drafts"
               PROVE  OnDeliveries!IInv' /\ OnDeliveries!DInv'
    BY DEF DeliveriesInv
  <2>1. OnDeliveries!IInv /\ OnDeliveries!DInv /\ [OnDeliveries!Next]_(OnDeliveries!vars)
    BY Follows DEF OfficeInv, DeliveriesInv
  <2> QED  BY Assumed, <2>1, OnDeliveries!StepIInv, OnDeliveries!StepDInv
<1>3. SalesInv'
  <2> SUFFICES ASSUME part' = "sale drafts" PROVE OnSales!IInv' /\ OnSales!DInv'
    BY DEF SalesInv
  <2>1. OnSales!IInv /\ OnSales!DInv /\ [OnSales!Next]_(OnSales!vars)
    BY Follows DEF OfficeInv, SalesInv
  <2> QED  BY Assumed, <2>1, OnSales!StepIInv, OnSales!StepDInv
<1>4. PricesInv'
  <2> SUFFICES ASSUME part' = "price lists" PROVE PriceLists!TypeOK'  BY DEF PricesInv
  <2>1. PriceLists!TypeOK /\ [PriceLists!Next]_(PriceLists!vars)
    BY Follows DEF OfficeInv, PricesInv
  <2> QED  BY Assumed, <2>1, PriceStepTypes
<1>5. ReportsInv'
  <2> SUFFICES ASSUME part' = "reports" PROVE Reports!IInv'  BY DEF ReportsInv
  <2>1. Reports!IInv /\ [Reports!Next]_(Reports!vars)
    BY Follows DEF OfficeInv, ReportsInv
  <2> QED  BY Assumed, <2>1, ReportStepIInv
<1>6. GridInv'
  <2> SUFFICES ASSUME part' = "product grid" PROVE ProductGrid!IInv'  BY DEF GridInv
  <2>1. ProductGrid!IInv /\ [ProductGrid!Next]_(ProductGrid!vars)
    BY Follows DEF OfficeInv, GridInv
  <2> QED  BY Assumed, <2>1, GridStepIInv
<1>7. TreeInv'
  <2> SUFFICES ASSUME part' = "category tree" PROVE CategoryTree!IInv'  BY DEF TreeInv
  <2>1. CategoryTree!IInv /\ [CategoryTree!Next]_(CategoryTree!vars)
    BY Follows DEF OfficeInv, TreeInv
  <2> QED  BY Assumed, <2>1, TreeStepIInv
<1>8. BackupsInv'
  <2> SUFFICES ASSUME part' = "backups" PROVE Backups!IInv'  BY DEF BackupsInv
  <2>1. Backups!IInv /\ [Backups!Next]_(Backups!vars)
    BY Follows DEF OfficeInv, BackupsInv
  <2> QED  BY Assumed, <2>1, BackupStepIInv
<1>9. TillInv'
  <2> SUFFICES ASSUME part' = "till" PROVE Till!IInv'  BY DEF TillInv
  <2>1. Till!IInv /\ [Till!Next]_(Till!vars)  BY Follows DEF OfficeInv, TillInv
  <2> QED  BY Assumed, <2>1, TillStepIInv
<1>10. SlotsInv'
  <2> SUFFICES ASSUME part' = "barcode slots" PROVE BarcodeSlots!IInv'  BY DEF SlotsInv
  <2>1. BarcodeSlots!IInv /\ [BarcodeSlots!Next]_(BarcodeSlots!vars)
    BY Follows DEF OfficeInv, SlotsInv
  <2> QED  BY Assumed, <2>1, SlotStepIInv
<1>11. ImportsInv'
  <2> SUFFICES ASSUME part' = "imports" PROVE Imports!IInv'  BY DEF ImportsInv
  <2>1. Imports!IInv /\ [Imports!Next]_(Imports!vars)
    BY Follows DEF OfficeInv, ImportsInv
  <2> QED  BY Assumed, <2>1, ImportStepIInv
<1>12. (part \in Parts)'  BY Follows DEF OfficeInv
<1> QED
  BY <1>1, <1>2, <1>3, <1>4, <1>5, <1>6, <1>7, <1>8, <1>9, <1>10, <1>11, <1>12
  DEF OfficeInv

-----------------------------------------------------------------------------
(* The theorems *)

LEMMA Inductive == Spec => []OfficeInv
  BY InitOffice, StepOffice, PTL DEF Spec

\* OrderCounter, in the office: whatever overlaps and whatever fails, the numbers
\* of the orders ever saved are 1, 2, 3 ... without a repetition or a gap.
THEOREM NumbersInOrder == Spec => []OrderNumbers
<1>1. OfficeInv => OrderNumbers
  BY OrdersIInvNumbers DEF OfficeInv, OrdersInv, OrderNumbers
<1> QED  BY <1>1, Inductive, PTL

\* order_edit, order_confirm and order_discard, in the office: no order without
\* lines, no line without its order, no product twice on one, and no order a
\* person made is deleted.
THEOREM OrdersStayIntact == Spec => []OrdersIntact
<1>1. OfficeInv => OrdersIntact
  BY OrdersIInvLines, OrdersIInvHandMade DEF OfficeInv, OrdersInv, OrdersIntact
<1> QED  BY <1>1, Inductive, PTL

\* deliveries/tab_state.py, in the office: a delivery's draft is on the tab it was
\* begun on, whichever windows and autosaves overlap.
THEOREM DraftsStay == Spec => []DraftsStayHome
<1>1. OfficeInv => DraftsStayHome
  BY OnDeliveries!IInvHome, DraftsAlike DEF OfficeInv, DeliveriesInv, DraftsStayHome
<1> QED  BY <1>1, Inductive, PTL

\* sales/tab_state.py, deliveries/tab_state.py, in the office: on either screen a
\* saved document is not a draft again unless something else held its cart when it
\* was saved, or its page, still shown, posted it once more.
THEOREM DoneStaysGone == Spec => []DoneIsGone
<1>1. OfficeInv => (part = "delivery drafts" => DeliveryDrafts!DoneIsGone)
  BY OnDeliveries!DInvGone, DraftsAlike DEF OfficeInv, DeliveriesInv
<1>2. OfficeInv => (part = "sale drafts" => SaleDrafts!DoneIsGone)
  BY OnSales!DInvGone, SalesAlike DEF OfficeInv, SalesInv
<1>3. OfficeInv => DoneIsGone  BY <1>1, <1>2 DEF DoneIsGone
<1> QED  BY <1>3, Inductive, PTL

\* resolve_prices: what a register charges for a product is what the product list
\* shows, whatever else is in the cart, and it is one price unless a list holds two
\* rules of a kind for the product: for any products, lists, rules and priorities.
THEOREM RegisterChargesAsShown == Spec => []ChargedAsShown
<1>1. OfficeInv => ChargedAsShown
  BY Assumed, PriceCharged DEF OfficeInv, PricesInv, ChargedAsShown
<1> QED  BY <1>1, Inductive, PTL

\* rules_for_price_list: while one list alone is active, its own page shows of every
\* product the price the register charges.
THEOREM PageShowsTheRegister == Spec => []PageAgreesWithRegister
<1>1. OfficeInv => PageAgreesWithRegister
  BY Assumed, PricePageAgrees DEF OfficeInv, PricesInv, PageAgreesWithRegister
<1> QED  BY <1>1, Inductive, PTL

\* stock_as_of and _sell_price_as_of: the reports replay the papers backwards from
\* today, and find of every day the stock and the price it had.
THEOREM ReportsRememberRight == Spec => []AsOfIsAsItWas
<1>1. OfficeInv => AsOfIsAsItWas
  BY Assumed, ReportAsOf DEF OfficeInv, ReportsInv, AsOfIsAsItWas
<1> QED  BY <1>1, Inductive, PTL

\* stock_movement_totals: opening balance and movements add up to the closing one,
\* for every product and period in which no recipe product was refunded.
THEOREM MovementsBalance == Spec => []BalanceAddsUp
<1>1. OfficeInv => BalanceAddsUp
  BY Assumed, ReportBalances DEF OfficeInv, ReportsInv, Reports!IInv, BalanceAddsUp
<1> QED  BY <1>1, Inductive, PTL

\* CategoryForm and get_descendant_ids, level by level while others edit: whatever
\* overlaps, every category is within reach of the top of the tree, unless a form was
\* saved whose descendants were collected from an older tree.
THEOREM TreesStayWhole == Spec => []TreeStaysWhole
<1>1. OfficeInv => TreeStaysWhole
  BY Assumed, TreeWhole DEF OfficeInv, TreeInv, TreeStaysWhole
<1> QED  BY <1>1, Inductive, PTL

\* backup_db: while the counter is what the state file says, the dump it names is on
\* disk and holds all there is, unless the counter was reset, runs overlapped or the
\* names do not sort by date: for any runs, local times and intervals.
THEOREM UnchangedIsSaved == Spec => []UnchangedMeansSaved
<1>1. OfficeInv => UnchangedMeansSaved
  BY Assumed, BackupSaved DEF OfficeInv, BackupsInv, UnchangedMeansSaved
<1> QED  BY <1>1, Inductive, PTL

\* _rotate: whatever runs overlap, stop or start, the newest BACKUP_KEEP_MIN dumps
\* ever completed are on disk while names sort by date.
THEOREM NewestAreKept == Spec => []NewestKept
<1>1. OfficeInv => NewestKept
  BY Assumed, BackupSaved DEF OfficeInv, BackupsInv, NewestKept
<1> QED  BY <1>1, Inductive, PTL

\* fiscal_service_cash and the three reports: whatever answers are lost, whatever the
\* device refuses and wherever the server stops, the money in the till is what was
\* sold plus the movements recorded as PRINTED, those about to be and those whose
\* answer never arrived; only a Z report closes the day, and no sale is counted twice
\* or forgotten: for any threads and amounts.
THEOREM TillAddsUp == Spec => []TillExplained
<1>1. OfficeInv => TillExplained  BY DEF OfficeInv, TillInv, Till!IInv, TillExplained
<1> QED  BY <1>1, Inductive, PTL

\* ProductInlineUpdateView and the barcode views: a cell of a product holds what
\* somebody last made it, and its barcodes are in the slots they were typed into,
\* unless a request saved what was outdated or a barcode was cleared in front of
\* another: for any users, fields, codes and number of barcodes.
THEOREM ProductStaysAsEdited == Spec => []ProductAsEdited
<1>1. OfficeInv => ProductAsEdited
  BY Assumed, SlotInPlaces DEF OfficeInv, GridInv, SlotsInv, ProductGrid!IInv,
     ProductAsEdited
<1> QED  BY <1>1, Inductive, PTL

\* deliveries_add with imported rows: a save that went through made a product of
\* each new row and a line of each row with a quantity; one that did not has left
\* nothing behind; and it was refused only over a product somebody else had added, or
\* a barcode twice in one row: for any catalogue, files and interleaving.
THEOREM ImportsAllOrNothing == Spec => []ImportOutcome
<1>1. OfficeInv => ImportOutcome
  BY DEF OfficeInv, ImportsInv, Imports!IInv, ImportOutcome
<1> QED  BY <1>1, Inductive, PTL

\* The variables of the part that is followed have their types in every reachable
\* state, for any constants.
THEOREM TypeCorrect == Spec => []TypeOK
<1>1. OfficeInv => TypeOK
  <2> SUFFICES ASSUME OfficeInv PROVE TypeOK  OBVIOUS
  <2>1. part = "orders" => Orders!TypeOK
    BY DEF OfficeInv, OrdersInv, Orders!IInv, Orders!Types
  <2>2. part = "sale drafts" => SaleDrafts!TypeOK
    BY SalesAlike DEF OfficeInv, SalesInv, OnSales!IInv, OnSales!Types
  <2>3. part = "delivery drafts" => DeliveryDrafts!TypeOK
    BY DraftsAlike DEF OfficeInv, DeliveriesInv, OnDeliveries!IInv, OnDeliveries!Types
  <2>4. part = "price lists" => PriceLists!TypeOK  BY DEF OfficeInv, PricesInv
  <2>5. part = "reports" => Reports!TypeOK  BY DEF OfficeInv, ReportsInv, Reports!IInv
  <2>6. part = "category tree" => CategoryTree!TypeOK
    BY DEF OfficeInv, TreeInv, CategoryTree!IInv
  <2>7. part = "product grid" => ProductGrid!TypeOK
    BY DEF OfficeInv, GridInv, ProductGrid!IInv
  <2>8. part = "barcode slots" => BarcodeSlots!TypeOK
    BY DEF OfficeInv, SlotsInv, BarcodeSlots!IInv
  <2>9. part = "backups" => Backups!TypeOK  BY DEF OfficeInv, BackupsInv, Backups!IInv
  <2>10. part = "imports" => Imports!TypeOK  BY DEF OfficeInv, ImportsInv, Imports!IInv
  <2>11. part = "till" => Till!TypeOK  BY DEF OfficeInv, TillInv, Till!IInv
  <2> QED
    BY <2>1, <2>2, <2>3, <2>4, <2>5, <2>6, <2>7, <2>8, <2>9, <2>10, <2>11
    DEF TypeOK, OfficeInv
<1> QED  BY <1>1, Inductive, PTL
=============================================================================
