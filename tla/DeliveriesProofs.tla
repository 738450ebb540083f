-------------------------- MODULE DeliveriesProofs --------------------------
(***************************************************************************)
(* Proofs, for any documents, lines and requests, that overlapping edits   *)
(* and deletions keep the types, leave no line without its document,       *)
(* retract no link that a line in the books still supports, and move stock *)
(* by exactly what they change in the lines.                               *)
(***************************************************************************)
EXTENDS Deliveries, SumTheorems, TLAPS

-----------------------------------------------------------------------------
(* The inductive invariant *)

\* What is in the database has been created, a line after its document.
KeysInv ==
  /\ headers \subseteq born
  /\ Held(rows) \subseteq born
  /\ \A l \in Lines \cap born : DeliveryOf[l] \in born

\* An edit holds lines of its own document, and does not save what it removes.
EditorInv(r) ==
  /\ Held(page[r]) \subseteq born \cap LinesOf(target[r])
  /\ Held(writes[r]) \subseteq LinesOf(target[r])
  /\ Held(writes[r]) \cap Held(removes[r]) = {}
  /\ pc[r] \in {"idle", "page", "answered"} => removes[r] = Empty
  /\ pc[r] \in {"valid", "saving"} => target[r] \in born

RemovesInv(r) == Held(removes[r]) \subseteq born \cap LinesOf(target[r])

\* A deletion that reverses with the wrong sign, because it found the document
\* gone, has no line left to remove, and never will.
ReversalInv(r) ==
  pc[r] = "restored" =>
    \/ reversal[r].sign = Sign(KindOf[target[r]])
    \/ \A l \in Held(removes[r]) : rows[l] = NoLine

IInv ==
  /\ TypeOK
  /\ NoLineAlone
  /\ KeysInv
  /\ \A r \in Editors : EditorInv(r)
  /\ \A r \in Requests : RemovesInv(r)
  /\ \A r \in Deleters : ReversalInv(r)

-----------------------------------------------------------------------------
(* Units of a product *)

LineMaps == [Lines -> Rows \cup {NoLine}]

\* What one line moves of p.
Amount(row, p) == IF row # NoLine /\ row.item = p THEN row.quantity ELSE 0

LEMMA AmountType == \A p : \A row \in Rows \cup {NoLine} : Amount(row, p) \in Nat
  BY DocumentsAssumption DEF Amount, Rows

\* Units, as a sum over all lines.
LEMMA UnitsOverLines ==
  ASSUME NEW f \in LineMaps, NEW p
  PROVE  /\ Units(f, p) \in Int
         /\ Units(f, p) = SumFunctionOnSet([l \in Lines |-> Amount(f[l], p)], Lines)
<1> DEFINE S == {k \in Held(f) : f[k].item = p}
           g == [l \in S |-> f[l].quantity]
           h == [l \in Lines |-> IF l \in S THEN g[l] ELSE 0]
           a == [l \in Lines |-> Amount(f[l], p)]
<1>1. IsFiniteSet(Lines)  BY DocumentsAssumption
<1>2. S \in SUBSET Lines  BY DEF Held
<1>3. \A l \in S : g[l] \in Int
  <2>1. \A l \in S : l \in Lines /\ f[l] \in Rows  BY DEF Held, LineMaps
  <2>2. \A row \in Rows : row.quantity \in Int
    <3>1. \A n \in Quantities : n \in Int  BY DocumentsAssumption
    <3>2. \A row \in Rows : row.quantity \in Quantities  BY DEF Rows
    <3> QED  BY <3>1, <3>2
  <2> QED  BY <2>1, <2>2
<1>4. Units(f, p) = SumFunctionOnSet(g, S)  BY DEF Units, SumFunction
<1>5. \A l \in Lines : h[l] = a[l]  BY DEF Held, Amount
<1>6. \A l \in Lines : a[l] \in Int  BY AmountType DEF LineMaps
<1>7. SumFunctionOnSet(g, S) = SumFunctionOnSet(h, Lines)
  <2> HIDE DEF S, g
  <2> QED  BY <1>1, <1>2, <1>3, SumOnFiltered
<1> HIDE DEF h, a
<1>8. SumFunctionOnSet(h, Lines) = SumFunctionOnSet(a, Lines)  BY <1>1, <1>5, SumOnSame
<1>9. SumFunctionOnSet(a, Lines) \in Int  BY <1>1, <1>6, SumOnSplit
<1> QED  BY <1>4, <1>7, <1>8, <1>9 DEF a

\* What the lines of rs say was moved of p.
BookedIn(rs, p) ==
  Units([l \in Lines |-> IF Sign(KindOf[DeliveryOf[l]]) = 1 THEN rs[l] ELSE NoLine], p)
    - Units([l \in Lines |-> IF Sign(KindOf[DeliveryOf[l]]) = 1 THEN NoLine ELSE rs[l]], p)

Effect(l, row, p) ==
  IF Sign(KindOf[DeliveryOf[l]]) = 1 THEN Amount(row, p) ELSE -Amount(row, p)

LEMMA BookedOverLines ==
  ASSUME NEW rs \in LineMaps, NEW p
  PROVE  /\ BookedIn(rs, p) \in Int
         /\ BookedIn(rs, p) = SumFunctionOnSet([l \in Lines |-> Effect(l, rs[l], p)], Lines)
<1> DEFINE in == [l \in Lines |-> IF Sign(KindOf[DeliveryOf[l]]) = 1 THEN rs[l] ELSE NoLine]
           out == [l \in Lines |-> IF Sign(KindOf[DeliveryOf[l]]) = 1 THEN NoLine ELSE rs[l]]
           a == [l \in Lines |-> Amount(in[l], p)]
           b == [l \in Lines |-> Amount(out[l], p)]
           e == [l \in Lines |-> Effect(l, rs[l], p)]
<1>1. IsFiniteSet(Lines)  BY DocumentsAssumption
<1>2. in \in LineMaps /\ out \in LineMaps  BY DEF LineMaps
<1>3. \A l \in Lines : Amount(rs[l], p) \in Nat  BY AmountType DEF LineMaps
<1>4. \A l \in Lines : e[l] \in Int /\ b[l] \in Int /\ a[l] = e[l] + b[l]
  BY <1>3 DEF Effect, Amount
<1>5. BookedIn(rs, p) = Units(in, p) - Units(out, p)  BY DEF BookedIn
<1> HIDE DEF in, out
<1>6. Units(in, p) = SumFunctionOnSet(a, Lines) /\ Units(out, p) = SumFunctionOnSet(b, Lines)
  BY <1>2, UnitsOverLines
<1> HIDE DEF a, b, e
<1>7. SumFunctionOnSet(a, Lines) = SumFunctionOnSet(e, Lines) + SumFunctionOnSet(b, Lines)
  BY <1>1, <1>4, SumOnAdded
<1>8. SumFunctionOnSet(e, Lines) \in Int /\ SumFunctionOnSet(b, Lines) \in Int
  BY <1>1, <1>4, SumOnSplit
<1>9. BookedIn(rs, p) = SumFunctionOnSet(e, Lines)  BY <1>5, <1>6, <1>7, <1>8
<1> QED  BY <1>8, <1>9 DEF e

\* Lines that change are lines of document d, line l by gain[l] units of p.
LEMMA BookedChange ==
  ASSUME NEW old \in LineMaps, NEW new \in LineMaps, NEW p, NEW d \in Deliveries,
         NEW gain, \A l \in Lines : gain[l] \in Int,
         \A l \in Lines : Amount(new[l], p) = Amount(old[l], p) + gain[l],
         \A l \in Lines \ LinesOf(d) : gain[l] = 0
  PROVE  BookedIn(new, p) - BookedIn(old, p) = Sign(KindOf[d]) * SumFunctionOnSet(gain, Lines)
<1> DEFINE a == [l \in Lines |-> Effect(l, old[l], p)]
           b == [l \in Lines |-> Effect(l, new[l], p)]
           m == [l \in Lines |-> IF Sign(KindOf[d]) = 1 THEN gain[l] ELSE -gain[l]]
<1>1. IsFiniteSet(Lines)  BY DocumentsAssumption
<1>2. \A l \in Lines : Amount(old[l], p) \in Int /\ Amount(new[l], p) \in Int
  BY AmountType DEF LineMaps
<1>3. \A l \in Lines : a[l] \in Int /\ m[l] \in Int  BY <1>2 DEF Effect
<1>4. ASSUME NEW l \in Lines PROVE b[l] = a[l] + m[l]
  <2>1. CASE l \in LinesOf(d)
    <3>1. DeliveryOf[l] = d  BY <2>1 DEF LinesOf
    <3> QED  BY <1>2, <3>1 DEF Effect
  <2>2. CASE l \notin LinesOf(d)
    <3>1. gain[l] = 0  BY <2>2
    <3> QED  BY <1>2, <3>1 DEF Effect
  <2> QED  BY <2>1, <2>2
<1>5. CASE Sign(KindOf[d]) = 1
  <2>1. \A l \in Lines : m[l] = gain[l]  BY <1>5
  <2> HIDE DEF m
  <2>2. SumFunctionOnSet(m, Lines) = SumFunctionOnSet(gain, Lines)
    BY <1>1, <2>1, SumOnSame
  <2> HIDE DEF a, b
  <2>3. SumFunctionOnSet(b, Lines) = SumFunctionOnSet(a, Lines) + SumFunctionOnSet(m, Lines)
    BY <1>1, <1>3, <1>4, SumOnAdded
  <2>4. SumFunctionOnSet(a, Lines) \in Int /\ SumFunctionOnSet(m, Lines) \in Int
    BY <1>1, <1>3, SumOnSplit
  <2>5. /\ BookedIn(old, p) = SumFunctionOnSet(a, Lines)
        /\ BookedIn(new, p) = SumFunctionOnSet(b, Lines)
    BY BookedOverLines DEF a, b
  <2> QED  BY <1>5, <2>2, <2>3, <2>4, <2>5
<1>6. CASE Sign(KindOf[d]) # 1
  <2>1. \A l \in Lines : gain[l] \in Int /\ m[l] = -gain[l]  BY <1>6
  <2> HIDE DEF m
  <2>2. SumFunctionOnSet(m, Lines) = -SumFunctionOnSet(gain, Lines)
    BY <1>1, <2>1, SumOnNegated
  <2> HIDE DEF a, b
  <2>3. SumFunctionOnSet(b, Lines) = SumFunctionOnSet(a, Lines) + SumFunctionOnSet(m, Lines)
    BY <1>1, <1>3, <1>4, SumOnAdded
  <2>4. /\ SumFunctionOnSet(a, Lines) \in Int
        /\ SumFunctionOnSet(gain, Lines) \in Int
    BY <1>1, <1>3, SumOnSplit
  <2>5. /\ BookedIn(old, p) = SumFunctionOnSet(a, Lines)
        /\ BookedIn(new, p) = SumFunctionOnSet(b, Lines)
    BY BookedOverLines DEF a, b
  <2>6. Sign(KindOf[d]) = -1  BY <1>6 DEF Sign
  <2> QED  BY <2>2, <2>3, <2>4, <2>5, <2>6
<1> QED  BY <1>5, <1>6

-----------------------------------------------------------------------------
(* Steps of a request *)

Reversals == [sign : {-1, 1}, correction : BOOLEAN, supplier : Suppliers \cup {NoSupplier}]

\* What TypeOK says of the requests.
RequestTypes ==
  /\ headerLock \in [Deliveries -> Requests \cup {Nobody}]
  /\ lineLock \in [Lines -> Requests \cup {Nobody}]
  /\ pc \in [Requests -> {"idle", "page", "valid", "saving", "collected", "restored", "answered"}]
  /\ target \in [Requests -> Deliveries]
  /\ page \in [Editors -> LineMaps]
  /\ writes \in [Editors -> LineMaps]
  /\ removes \in [Requests -> LineMaps]
  /\ adds \in [Editors -> Rows \cup {NoLine}]
  /\ given \in [Editors -> Suppliers \cup {NoSupplier}]
  /\ reversal \in [Deleters -> Reversals]

\* What it says of the database.
DataTypes ==
  /\ headers \subseteq Deliveries /\ born \subseteq Deliveries \cup Lines
  /\ supplier \in [Deliveries -> Suppliers \cup {NoSupplier}]
  /\ rows \in LineMaps
  /\ stock \in [Products -> Int]
  /\ removals \subseteq born /\ deleting \subseteq born

LEMMA TypeParts == TypeOK <=> RequestTypes /\ DataTypes
  BY DEF TypeOK, RequestTypes, DataTypes, LineMaps, Reversals

RequestInv(s) ==
  /\ s \in Editors => EditorInv(s)
  /\ RemovesInv(s)
  /\ s \in Deleters => ReversalInv(s)

DataInv == NoLineAlone /\ KeysInv

LEMMA InvariantParts ==
  IInv <=> RequestTypes /\ DataTypes /\ DataInv /\ \A s \in Requests : RequestInv(s)
  BY TypeParts DEF IInv, DataInv, RequestInv, Requests

LEMMA InvariantFromParts ==
  RequestTypes' /\ DataTypes' /\ DataInv' /\ (\A s \in Requests : RequestInv(s)') => IInv'
<1> SUFFICES ASSUME RequestTypes', DataTypes', DataInv', \A s \in Requests : RequestInv(s)'
             PROVE  IInv'
  OBVIOUS
<1>1. TypeOK'  BY DEF TypeOK, RequestTypes, DataTypes, LineMaps, Reversals
<1> QED  BY <1>1 DEF IInv, DataInv, RequestInv, Requests

LEMMA SignType == \A kind : Sign(kind) \in {-1, 1}
  BY DEF Sign

LEMMA EmptyType == Empty \in LineMaps /\ Held(Empty) = {} /\ NoReversal \in Reversals
  BY DEF Empty, LineMaps, Held, NoReversal, Reversals

\* What was given back is not in the database, and will not be there again.
GoneStays ==
  /\ born \subseteq born'
  /\ \A l \in Lines : l \in born /\ rows[l] = NoLine => rows'[l] = NoLine

\* A request that is not the one that takes a step.
LEMMA OtherRequest ==
  ASSUME GoneStays, NEW s \in Requests, RequestInv(s), RequestTypes, target' = target, pc'[s] = pc[s],
         removes'[s] = removes[s],
         s \in Editors => page'[s] = page[s] /\ writes'[s] = writes[s],
         s \in Deleters => reversal'[s] = reversal[s]
  PROVE  RequestInv(s)'
<1> USE DEF GoneStays, RequestInv
<1>1. RemovesInv(s)'  BY DEF RemovesInv, LinesOf, Held
<1>2. ASSUME s \in Editors PROVE EditorInv(s)'
  BY <1>2 DEF EditorInv, LinesOf, Held
<1>3. ASSUME s \in Deleters PROVE ReversalInv(s)'
  <2> SUFFICES ASSUME pc[s] = "restored"
               PROVE  \/ reversal[s].sign = Sign(KindOf[target[s]])
                      \/ \A l \in Held(removes[s]) : rows'[l] = NoLine
    BY <1>3 DEF ReversalInv, Held
  <2>1. \A l \in Held(removes[s]) : l \in Lines /\ l \in born
    BY DEF RemovesInv, Held
  <2> QED  BY <1>3, <2>1 DEF ReversalInv
<1> QED  BY <1>1, <1>2, <1>3

\* A request that is answered holds nothing any more.
LEMMA FinishStep ==
  ASSUME RequestTypes, NEW r \in Requests, Finish(r), GoneStays,
         \A s \in Requests : RequestInv(s)
  PROVE  RequestTypes' /\ \A s \in Requests : RequestInv(s)'
<1>1. RequestTypes'
  BY EmptyType DEF RequestTypes, Finish
<1>2. /\ target' = target /\ pc'[r] = "answered" /\ removes'[r] = Empty
      /\ r \in Editors => page'[r] = Empty /\ writes'[r] = Empty
  BY DEF RequestTypes, Finish
<1>3. RequestInv(r)'
  <2>1. RemovesInv(r)'  BY <1>2, EmptyType DEF RemovesInv, Held
  <2>2. r \in Editors => EditorInv(r)'
    BY <1>2, EmptyType DEF EditorInv, Held
  <2>3. ReversalInv(r)'  BY <1>2 DEF ReversalInv
  <2> QED  BY <2>1, <2>2, <2>3 DEF RequestInv
<1>4. ASSUME NEW s \in Requests, s # r PROVE RequestInv(s)'
  <2>1. /\ pc'[s] = pc[s] /\ removes'[s] = removes[s]
        /\ s \in Editors => page'[s] = page[s] /\ writes'[s] = writes[s]
        /\ s \in Deleters => reversal'[s] = reversal[s]
    BY <1>4 DEF RequestTypes, Finish
  <2> QED  BY <1>2, <2>1, OtherRequest
<1> QED  BY <1>1, <1>3, <1>4

\* A step that leaves the database alone.
LEMMA DataUnchanged ==
  ASSUME DataTypes, DataInv, UNCHANGED <<documents, stock, removals>>
  PROVE  /\ GoneStays
         /\ deleting' \subseteq born => DataTypes' /\ DataInv'
<1>1. GoneStays  BY DEF GoneStays, documents
<1>2. NoLineAlone'  BY DEF DataInv, NoLineAlone, Held, documents
<1>3. KeysInv'  BY DEF DataInv, KeysInv, Held, documents
<1> QED  BY <1>1, <1>2, <1>3 DEF DataTypes, DataInv, documents

-----------------------------------------------------------------------------
(* The inductive invariant is preserved *)

LEMMA InitIInv == Init => IInv
<1> SUFFICES ASSUME Init PROVE IInv  OBVIOUS
<1>1. RequestTypes  BY EmptyType DEF Init, RequestTypes
<1>2. DataTypes  BY EmptyType, DocumentsAssumption DEF Init, DataTypes
<1>3. DataInv
  <2>1. Held(rows) = {}  BY EmptyType DEF Init
  <2> QED  BY <2>1 DEF Init, DataInv, NoLineAlone, KeysInv, Held
<1>4. ASSUME NEW s \in Requests PROVE RequestInv(s)
  <2>1. removes[s] = Empty /\ pc[s] = "idle" /\ Held(removes[s]) = {}
    BY EmptyType DEF Init
  <2>2. s \in Editors => Held(page[s]) = {} /\ Held(writes[s]) = {}
    BY EmptyType DEF Init
  <2> QED  BY <2>1, <2>2 DEF RequestInv, EditorInv, RemovesInv, ReversalInv
<1> QED  BY <1>1, <1>2, <1>3, <1>4, InvariantParts

LEMMA OpenIInv ==
  ASSUME IInv, NEW r \in Editors, Open(r)
  PROVE  IInv'
<1>0. RequestTypes /\ DataTypes /\ DataInv /\ \A s \in Requests : RequestInv(s)
  BY InvariantParts
<1>1. GoneStays /\ DataTypes' /\ DataInv'
  BY <1>0, DataUnchanged DEF Open, DataTypes
<1>2. Of(rows, target[r]) \in LineMaps  BY <1>0 DEF Of, LineMaps, DataTypes
<1>3. RequestTypes'  BY <1>0, <1>2 DEF Open, locks, RequestTypes, Requests
<1>4. /\ pc[r] = "idle" /\ pc'[r] = "page" /\ page'[r] = Of(rows, target[r])
      /\ target' = target /\ writes' = writes /\ removes' = removes /\ born' = born
      /\ reversal' = reversal
      /\ \A s \in Requests \ {r} : pc'[s] = pc[s]
      /\ \A s \in Editors \ {r} : page'[s] = page[s]
  BY <1>0 DEF Open, RequestTypes, Requests, documents
<1>5. RequestInv(r)'
  <2>1. EditorInv(r) /\ RemovesInv(r) /\ r \notin Deleters
    BY <1>0, RequestsAssumption DEF RequestInv, Requests
  <2>2. Held(page'[r]) \subseteq born \cap LinesOf(target[r])
    BY <1>0, <1>4 DEF Held, Of, DataInv, KeysInv
  <2>3. EditorInv(r)'  BY <1>4, <2>1, <2>2 DEF EditorInv, Held, LinesOf
  <2>4. RemovesInv(r)'  BY <1>4, <2>1 DEF RemovesInv, Held, LinesOf
  <2> QED  BY <2>1, <2>3, <2>4 DEF RequestInv
<1>6. \A s \in Requests \ {r} : RequestInv(s)'
  BY <1>0, <1>1, <1>4, OtherRequest
<1> QED  BY <1>1, <1>3, <1>5, <1>6, InvariantFromParts

LEMMA PostIInv ==
  ASSUME IInv, NEW r \in Editors, Post(r)
  PROVE  IInv'
<1>0. RequestTypes /\ DataTypes /\ DataInv /\ \A s \in Requests : RequestInv(s)
  BY InvariantParts
<1>1. GoneStays /\ DataTypes' /\ DataInv'
  BY <1>0, DataUnchanged DEF Post, DataTypes
<1>2. EditorInv(r) /\ RemovesInv(r) /\ r \in Requests /\ r \notin Deleters
  BY <1>0, RequestsAssumption DEF RequestInv, Requests
<1>3. /\ pc[r] = "page" /\ target[r] \in headers /\ removes[r] = Empty
      /\ page[r] \in LineMaps /\ rows \in LineMaps
  BY <1>0, <1>2 DEF Post, Valid, EditorInv, RequestTypes, DataTypes
\* What the forms will save, and remove.
<1>4. PICK w \in LineMaps, m \in LineMaps :
        /\ writes' = [writes EXCEPT ![r] = w]
        /\ removes' = [removes EXCEPT ![r] = m]
        /\ Held(w) \subseteq Held(page[r]) /\ Held(m) \subseteq Held(page[r])
        /\ Held(w) \cap Held(m) = {}
        /\ adds' \in [Editors -> Rows \cup {NoLine}]
  <2> DEFINE
        Edits ==
          \E l \in Held(page[r]), row \in Rows, remove \in BOOLEAN :
            LET f == [page[r] EXCEPT ![l] = row]
                removed == IF remove THEN {l} ELSE {}
            IN
            /\ Valid(r, removed)
            /\ Held(f) \ removed # {}
            /\ removes' = [removes EXCEPT ![r] =
                 [k \in Lines |-> IF k \in removed \cap Held(rows) THEN f[k] ELSE NoLine]]
            /\ writes' = [writes EXCEPT ![r] = Changed(f, removed)]
            /\ UNCHANGED adds
        Adds ==
          \E row \in Rows :
            /\ Valid(r, {})
            /\ adds' = [adds EXCEPT ![r] = row]
            /\ writes' = [writes EXCEPT ![r] = Changed(page[r], {})]
            /\ UNCHANGED removes
  <2>0. Edits \/ Adds  BY DEF Post
  <2>1. CASE Edits
    <3>1. PICK l \in Held(page[r]), row \in Rows, remove \in BOOLEAN :
            LET f == [page[r] EXCEPT ![l] = row]
                removed == IF remove THEN {l} ELSE {}
            IN
            /\ Valid(r, removed)
            /\ Held(f) \ removed # {}
            /\ removes' = [removes EXCEPT ![r] =
                 [k \in Lines |-> IF k \in removed \cap Held(rows) THEN f[k] ELSE NoLine]]
            /\ writes' = [writes EXCEPT ![r] = Changed(f, removed)]
            /\ UNCHANGED adds
      BY <2>1
    <3> DEFINE f == [page[r] EXCEPT ![l] = row]
               removed == IF remove THEN {l} ELSE {}
               w == Changed(f, removed)
               m == [k \in Lines |-> IF k \in removed \cap Held(rows) THEN f[k] ELSE NoLine]
    <3>2. f \in LineMaps /\ Held(f) \subseteq Held(page[r]) /\ removed \subseteq Lines
      BY <1>3 DEF LineMaps, Held
    <3>3. removes' = [removes EXCEPT ![r] = m] /\ writes' = [writes EXCEPT ![r] = w] /\ adds' = adds
      BY <3>1
    <3> HIDE DEF f, removed
    <3>4. w \in LineMaps /\ m \in LineMaps  BY <3>2 DEF Changed, LineMaps
    <3>5. /\ Held(w) \subseteq Held(page[r]) /\ Held(m) \subseteq Held(page[r])
          /\ Held(w) \cap Held(m) = {}
      BY <3>2 DEF Changed, Held
    <3> QED  BY <1>0, <3>3, <3>4, <3>5 DEF RequestTypes
  <2>2. CASE Adds
    <3> DEFINE w == Changed(page[r], {})
    <3>1. w \in LineMaps /\ Held(w) \subseteq Held(page[r])
      BY <1>3 DEF Changed, LineMaps, Held
    <3>2. removes' = [removes EXCEPT ![r] = Empty]  BY <1>0, <1>2, <1>3, <2>2 DEF RequestTypes
    <3>3. adds' \in [Editors -> Rows \cup {NoLine}]  BY <1>0, <2>2 DEF RequestTypes
    <3>4. writes' = [writes EXCEPT ![r] = w]  BY <2>2
    <3> HIDE DEF w
    <3> QED  BY <3>1, <3>2, <3>3, <3>4, EmptyType
  <2> HIDE DEF Edits, Adds
  <2> QED  BY <2>0, <2>1, <2>2
<1>5. /\ page' = [page EXCEPT ![r] = Empty] /\ pc' = [pc EXCEPT ![r] = "valid"]
      /\ target' = target /\ headerLock' = headerLock /\ lineLock' = lineLock
      /\ reversal' = reversal /\ born' = born
      /\ given' \in [Editors -> Suppliers \cup {NoSupplier}]
  BY <1>0 DEF Post, locks, documents, RequestTypes, Choices
<1>6. RequestTypes'
  BY <1>0, <1>2, <1>4, <1>5, EmptyType DEF RequestTypes
<1>7. RequestInv(r)'
  <2>1. /\ page'[r] = Empty /\ pc'[r] = "valid" /\ writes'[r] = w /\ removes'[r] = m
        /\ target'[r] = target[r]
    BY <1>0, <1>2, <1>4, <1>5 DEF RequestTypes
  <2>2. target[r] \in born  BY <1>0, <1>3 DEF DataInv, KeysInv
  <2>3. Held(w) \subseteq LinesOf(target[r]) /\ Held(m) \subseteq born \cap LinesOf(target[r])
    BY <1>2, <1>4 DEF EditorInv
  <2>4. EditorInv(r)'
    BY <1>4, <1>5, <2>1, <2>2, <2>3, EmptyType DEF EditorInv, LinesOf, Held
  <2>5. RemovesInv(r)'  BY <1>5, <2>1, <2>3 DEF RemovesInv, LinesOf, Held
  <2> QED  BY <1>2, <2>4, <2>5 DEF RequestInv
<1>8. ASSUME NEW s \in Requests \ {r} PROVE RequestInv(s)'
  <2>1. /\ pc'[s] = pc[s] /\ removes'[s] = removes[s]
        /\ s \in Editors => page'[s] = page[s] /\ writes'[s] = writes[s]
    BY <1>0, <1>4, <1>5 DEF RequestTypes
  <2> QED  BY <1>0, <1>1, <1>5, <2>1, OtherRequest
<1> QED  BY <1>1, <1>6, <1>7, <1>8, InvariantFromParts

LEMMA FinishIInv ==
  ASSUME IInv, NEW r \in Requests, Refuse(r) \/ Fail(r)
  PROVE  IInv'
<1>0. RequestTypes /\ DataTypes /\ DataInv /\ \A s \in Requests : RequestInv(s)
  BY InvariantParts
<1>1. GoneStays /\ DataTypes' /\ DataInv'
  BY <1>0, DataUnchanged DEF Refuse, Fail, DataTypes
<1>2. RequestTypes' /\ \A s \in Requests : RequestInv(s)'
  BY <1>0, <1>1, FinishStep DEF Refuse, Fail
<1> QED  BY <1>1, <1>2, InvariantFromParts

LEMMA LockHeaderIInv ==
  ASSUME IInv, NEW r \in Editors, LockHeader(r)
  PROVE  IInv'
<1>0. RequestTypes /\ DataTypes /\ DataInv /\ \A s \in Requests : RequestInv(s)
  BY InvariantParts
<1>1. GoneStays /\ DataTypes' /\ DataInv'
  BY <1>0, DataUnchanged DEF LockHeader, DataTypes
<1>2. r \in Requests /\ r \notin Deleters /\ EditorInv(r) /\ RemovesInv(r)
  BY <1>0, RequestsAssumption DEF RequestInv, Requests
<1>3. RequestTypes'  BY <1>0, <1>2 DEF LockHeader, RequestTypes, inputs
<1>4. /\ pc[r] = "valid" /\ pc'[r] = "saving" /\ target' = target /\ page' = page
      /\ writes' = writes /\ removes' = removes /\ reversal' = reversal /\ born' = born
      /\ \A s \in Requests \ {r} : pc'[s] = pc[s]
  BY <1>0, <1>2 DEF LockHeader, RequestTypes, inputs, documents
<1>5. RequestInv(r)'
  <2>1. EditorInv(r)'  BY <1>2, <1>4 DEF EditorInv, LinesOf, Held
  <2>2. RemovesInv(r)'  BY <1>2, <1>4 DEF RemovesInv, LinesOf, Held
  <2> QED  BY <1>2, <2>1, <2>2 DEF RequestInv
<1>6. \A s \in Requests \ {r} : RequestInv(s)'
  BY <1>0, <1>1, <1>4, OtherRequest
<1> QED  BY <1>1, <1>3, <1>5, <1>6, InvariantFromParts

LEMMA CollectIInv ==
  ASSUME IInv, NEW r \in Deleters, Collect(r)
  PROVE  IInv'
<1>0. RequestTypes /\ DataTypes /\ DataInv /\ \A s \in Requests : RequestInv(s)
  BY InvariantParts
<1>1. GoneStays /\ DataTypes' /\ DataInv'
  <2>1. deleting' \subseteq born  BY <1>0 DEF Collect, DataTypes, DataInv, KeysInv
  <2> QED  BY <1>0, <2>1, DataUnchanged DEF Collect
<1>2. r \in Requests /\ r \notin Editors
  BY RequestsAssumption DEF Requests
<1>3. Of(rows, target[r]) \in LineMaps  BY <1>0 DEF Of, LineMaps, DataTypes
<1>4. RequestTypes'  BY <1>0, <1>2, <1>3 DEF Collect, RequestTypes, locks
<1>5. /\ pc'[r] = "collected" /\ removes'[r] = Of(rows, target[r])
      /\ target' = target /\ page' = page /\ writes' = writes /\ reversal' = reversal
      /\ born' = born
      /\ \A s \in Requests \ {r} : pc'[s] = pc[s] /\ removes'[s] = removes[s]
  BY <1>0, <1>2 DEF Collect, RequestTypes, documents
<1>6. RequestInv(r)'
  <2>1. Held(removes'[r]) \subseteq born \cap LinesOf(target[r])
    BY <1>0, <1>5 DEF Held, Of, DataInv, KeysInv
  <2>2. RemovesInv(r)'  BY <1>5, <2>1 DEF RemovesInv, LinesOf, Held
  <2>3. ReversalInv(r)'  BY <1>5 DEF ReversalInv
  <2> QED  BY <1>2, <2>2, <2>3 DEF RequestInv
<1>7. \A s \in Requests \ {r} : RequestInv(s)'
  BY <1>0, <1>1, <1>5, OtherRequest
<1> QED  BY <1>1, <1>4, <1>6, <1>7, InvariantFromParts

\* A document that is gone has left no line in the database.
LEMMA DeleteLinesIInv ==
  ASSUME IInv, NEW r \in Deleters, DeleteLines(r)
  PROVE  IInv'
<1>0. RequestTypes /\ DataTypes /\ DataInv /\ \A s \in Requests : RequestInv(s)
  BY InvariantParts
<1>1. GoneStays /\ DataTypes' /\ DataInv'
  BY <1>0, DataUnchanged DEF DeleteLines, DataTypes
<1>2. r \in Requests /\ r \notin Editors /\ RemovesInv(r)
  BY <1>0, RequestsAssumption DEF Requests, RequestInv
<1>3. RequestTypes'
  <2>1. reversal' \in [Deleters -> Reversals]
    BY <1>0, <1>2, SignType DEF DeleteLines, RequestTypes, DataTypes, Reversals
  <2>2. lineLock' \in [Lines -> Requests \cup {Nobody}]
    BY <1>0, <1>2 DEF DeleteLines, RequestTypes
  <2>3. /\ pc' \in [Requests -> {"idle", "page", "valid", "saving", "collected", "restored", "answered"}]
        /\ headerLock' = headerLock /\ target' = target /\ page' = page /\ writes' = writes
        /\ removes' = removes /\ adds' = adds /\ given' = given
    BY <1>0, <1>2 DEF DeleteLines, RequestTypes, inputs
  <2> QED  BY <1>0, <2>1, <2>2, <2>3 DEF RequestTypes
<1>4. /\ pc'[r] = "restored"
      /\ reversal'[r].sign = IF target[r] \in headers THEN Sign(KindOf[target[r]]) ELSE 1
      /\ target' = target /\ page' = page /\ writes' = writes /\ removes' = removes
      /\ born' = born /\ rows' = rows
      /\ \A s \in Requests \ {r} : pc'[s] = pc[s]
      /\ \A s \in Deleters \ {r} : reversal'[s] = reversal[s]
  BY <1>0, <1>2 DEF DeleteLines, RequestTypes, inputs, documents
<1>5. RequestInv(r)'
  <2>1. RemovesInv(r)'  BY <1>2, <1>4 DEF RemovesInv, LinesOf, Held
  <2>2. ReversalInv(r)'
    <3>1. CASE target[r] \in headers  BY <1>4, <3>1 DEF ReversalInv
    <3>2. CASE target[r] \notin headers
      <4>1. \A l \in Held(removes[r]) : l \in Lines /\ DeliveryOf[l] = target[r]
        BY <1>2 DEF RemovesInv, LinesOf
      <4>2. \A l \in Held(removes[r]) : rows[l] = NoLine
        BY <1>0, <3>2, <4>1 DEF DataInv, NoLineAlone, Held
      <4> QED  BY <1>4, <4>2 DEF ReversalInv, Held
    <3> QED  BY <3>1, <3>2
  <2> QED  BY <1>2, <2>1, <2>2 DEF RequestInv
<1>6. \A s \in Requests \ {r} : RequestInv(s)'
  BY <1>0, <1>1, <1>4, OtherRequest
<1> QED  BY <1>1, <1>3, <1>5, <1>6, InvariantFromParts

LEMMA AddIInv ==
  ASSUME IInv, NEW d \in Deliveries, Add(d)
  PROVE  IInv'
<1>0. RequestTypes /\ DataTypes /\ DataInv /\ \A s \in Requests : RequestInv(s)
  BY InvariantParts
<1>1. PICK f \in [LinesOf(d) -> Rows \cup {NoLine}] :
        rows' = [l \in Lines |-> IF l \in LinesOf(d) THEN f[l] ELSE rows[l]]
  BY DEF Add
<1>2. rows' \in LineMaps  BY <1>0, <1>1 DEF LineMaps, DataTypes
<1>3. /\ headers' = headers \cup {d} /\ d \notin born
      /\ born' = born \cup {d} \cup (Held(rows') \cap LinesOf(d))
      /\ removals' = removals /\ deleting' = deleting
  BY DEF Add
<1>4. \A l \in Lines : l \notin LinesOf(d) => rows'[l] = rows[l]  BY <1>1
<1>5. \A l \in Lines \cap born : l \notin LinesOf(d)
  BY <1>0, <1>3 DEF DataInv, KeysInv, LinesOf
<1>6. GoneStays  BY <1>3, <1>4, <1>5 DEF GoneStays
<1>7. Of(rows', d) \in LineMaps  BY <1>2 DEF Of, LineMaps
<1>8. DataTypes'
  <2>1. \A p : Units(Of(rows', d), p) \in Int  BY <1>7, UnitsOverLines
  <2>2. stock' \in [Products -> Int]
    <3>1. \A p \in Products : stock[p] \in Int /\ Sign(KindOf[d]) \in Int
      BY <1>0, SignType DEF DataTypes
    <3> QED  BY <2>1, <3>1 DEF Add
  <2>3. supplier' \in [Deliveries -> Suppliers \cup {NoSupplier}]
    BY <1>0 DEF Add, DataTypes, Choices
  <2> QED  BY <1>0, <1>2, <1>3, <2>2, <2>3 DEF DataTypes, LinesOf
<1>9. DataInv'
  <2>1. NoLineAlone'
    BY <1>0, <1>3, <1>4 DEF DataInv, NoLineAlone, Held, LinesOf
  <2>2. KeysInv'
    <3>1. headers' \subseteq born' /\ Held(rows') \subseteq born'
      BY <1>0, <1>3, <1>4 DEF DataInv, KeysInv, Held
    <3>2. \A l \in Lines \cap born' : DeliveryOf[l] \in born'
      BY <1>0, <1>3, DocumentsAssumption DEF DataInv, KeysInv, LinesOf
    <3> QED  BY <3>1, <3>2 DEF KeysInv
  <2> QED  BY <2>1, <2>2 DEF DataInv
<1>10. RequestTypes'  BY <1>0 DEF Add, RequestTypes, locks, inputs
<1>11. ASSUME NEW s \in Requests PROVE RequestInv(s)'
  BY <1>0, <1>6, OtherRequest DEF Add, inputs
<1> QED  BY <1>8, <1>9, <1>10, <1>11, InvariantFromParts

\* What an edit has in its forms when it saves them: new is the key, if any, of
\* the line it adds.
EditedRows(r, new) == [l \in Lines |-> IF l \in new THEN adds[r] ELSE LinesKept(r)[l]]

LEMMA NewLine ==
  ASSUME RequestTypes, NEW r \in Editors, NEW new \in SUBSET Lines,
         Cardinality(new) = IF adds[r] = NoLine THEN 0 ELSE 1
  PROVE  \/ new = {}
         \/ adds[r] \in Rows /\ \E x \in Lines : new = {x}
<1>1. IsFiniteSet(new)  BY DocumentsAssumption, FS_Subset
<1>2. CASE adds[r] = NoLine  BY <1>1, <1>2, FS_EmptySet
<1>3. CASE adds[r] # NoLine
  <2>1. adds[r] \in Rows  BY <1>3 DEF RequestTypes
  <2>2. \E x : new = {x}  BY <1>1, <1>3, FS_Singleton
  <2> QED  BY <2>1, <2>2
<1> QED  BY <1>2, <1>3

\* What the line an edit adds says of a product, as a number and line by line.
AddedUnits(r, new, p) == IF new # {} /\ adds[r].item = p THEN adds[r].quantity ELSE 0
AddedAmounts(r, new, p) == [l \in Lines |-> IF l \in new THEN Amount(adds[r], p) ELSE 0]

\* What the new line brings, as a sum over all lines.
LEMMA NewLineUnits ==
  ASSUME RequestTypes, NEW r \in Editors, NEW new \in SUBSET Lines,
         Cardinality(new) = IF adds[r] = NoLine THEN 0 ELSE 1, NEW p
  PROVE  /\ AddedUnits(r, new, p) \in Int
         /\ AddedUnits(r, new, p) = SumFunctionOnSet(AddedAmounts(r, new, p), Lines)
<1> DEFINE units == IF new # {} /\ adds[r].item = p THEN adds[r].quantity ELSE 0
           n == [l \in Lines |-> IF l \in new THEN Amount(adds[r], p) ELSE 0]
<1>1. IsFiniteSet(Lines)  BY DocumentsAssumption
<1>2. CASE new = {}
  <2>1. \A l \in Lines : n[l] = 0  BY <1>2
  <2>2. units = 0  BY <1>2
  <2> HIDE DEF n, units
  <2>3. SumFunctionOnSet(n, Lines) = 0  BY <1>1, <2>1, SumOnZeros
  <2> QED  BY <2>2, <2>3 DEF n, units, AddedUnits, AddedAmounts
<1>3. CASE adds[r] \in Rows /\ \E x \in Lines : new = {x}
  <2>1. PICK x \in Lines : new = {x}  BY <1>3
  <2> DEFINE zero == [l \in Lines |-> 0]
  <2>2. Amount(adds[r], p) \in Int  BY <1>3, AmountType
  <2>3. \A l \in Lines : n[l] \in Int /\ zero[l] \in Int  BY <2>2
  <2>4. \A l \in Lines \ {x} : zero[l] = n[l]  BY <2>1
  <2>5. n[x] = Amount(adds[r], p) /\ zero[x] = 0  BY <2>1
  <2>6. adds[r] # NoLine  BY <1>3, DocumentsAssumption
  <2>7. units = Amount(adds[r], p)  BY <2>1, <2>6 DEF Amount
  <2>8. \A l \in Lines : zero[l] = 0  OBVIOUS
  <2> HIDE DEF n, zero, units
  <2>9. SumFunctionOnSet(n, Lines) = SumFunctionOnSet(zero, Lines) - zero[x] + n[x]
    BY <1>1, <2>3, <2>4, SumOnChanged
  <2>10. SumFunctionOnSet(zero, Lines) = 0  BY <1>1, <2>8, SumOnZeros
  <2> QED  BY <2>2, <2>5, <2>7, <2>9, <2>10 DEF n, units, AddedUnits, AddedAmounts
<1> QED  BY <1>2, <1>3, NewLine

\* What of a line an edit saves, replaces and removes.
Overwritten(r) == [l \in Lines |-> IF writes[r][l] = NoLine THEN NoLine ELSE rows[l]]

LEMMA EditMaps ==
  ASSUME IInv, NEW r \in Editors
  PROVE  /\ writes[r] \in LineMaps /\ removes[r] \in LineMaps /\ Overwritten(r) \in LineMaps
         /\ LinesKept(r) \in LineMaps /\ adds[r] \in Rows \cup {NoLine}
         /\ target[r] \in Deliveries /\ rows \in LineMaps
BY InvariantParts DEF RequestTypes, DataTypes, Overwritten, LinesKept, LineMaps, Requests

LEMMA GainIsInt ==
  ASSUME IInv, NEW r \in Editors, NEW p
  PROVE  /\ Gain(r, p) = Units(writes[r], p) - Units(Overwritten(r), p) - Units(removes[r], p)
         /\ Units(writes[r], p) \in Int /\ Units(Overwritten(r), p) \in Int
         /\ Units(removes[r], p) \in Int
         /\ Gain(r, p) \in Int
<1>1. Gain(r, p) = Units(writes[r], p) - Units(Overwritten(r), p) - Units(removes[r], p)
  BY DEF Gain, Overwritten
<1>2. /\ Units(writes[r], p) \in Int /\ Units(Overwritten(r), p) \in Int
      /\ Units(removes[r], p) \in Int
  BY EditMaps, UnitsOverLines
<1> QED  BY <1>1, <1>2

LEMMA CommitEditIInv ==
  ASSUME IInv, NEW r \in Editors, CommitEdit(r)
  PROVE  IInv'
<1>0. RequestTypes /\ DataTypes /\ DataInv /\ \A s \in Requests : RequestInv(s)
  BY InvariantParts
<1>1. /\ r \in Requests /\ EditorInv(r) /\ RemovesInv(r)
      /\ pc[r] = "saving" /\ target[r] \in born /\ target[r] \in Deliveries
  BY <1>0 DEF RequestInv, Requests, CommitEdit, EditorInv, RequestTypes
<1>2. PICK new \in SUBSET (LinesOf(target[r]) \ born) :
        /\ Cardinality(new) = IF adds[r] = NoLine THEN 0 ELSE 1
        /\ rows' = [l \in Lines |-> IF l \in new THEN adds[r] ELSE LinesKept(r)[l]]
        /\ born' = born \cup new
        /\ stock' = [p \in Products |->
             stock[p] + Sign(KindOf[target[r]]) *
               (Gain(r, p) + IF new # {} /\ adds[r].item = p THEN adds[r].quantity ELSE 0)]
  BY DEF CommitEdit
<1> DEFINE added == [l \in Lines |-> IF l \in new THEN adds[r] ELSE NoLine]
           kept == LinesKept(r)
<1>3. /\ headers' = headers \cup {target[r]} /\ deleting' = deleting
      /\ removals' \subseteq removals \cup Held(removes[r])
      /\ Held(writes[r]) \subseteq Held(rows)
      /\ Finish(r)
  BY DEF CommitEdit
<1>4. /\ writes[r] \in LineMaps /\ removes[r] \in LineMaps /\ kept \in LineMaps
      /\ adds[r] \in Rows \cup {NoLine} /\ rows \in LineMaps
  BY EditMaps
<1>5. new \in SUBSET Lines /\ added \in LineMaps /\ \A l \in new : DeliveryOf[l] = target[r]
  BY <1>4 DEF LinesOf, LineMaps
<1>6. \A l \in Lines :
        /\ l \in new => rows'[l] = added[l]
        /\ l \notin new => rows'[l] = kept[l]
        /\ kept[l] = IF removes[r][l] # NoLine THEN NoLine
                     ELSE IF writes[r][l] # NoLine THEN writes[r][l] ELSE rows[l]
  BY <1>2 DEF LinesKept
<1>7. \A l \in Lines : kept[l] # NoLine => rows[l] # NoLine
  BY <1>3, <1>6 DEF Held
<1> HIDE DEF kept, added
<1>8. rows' \in LineMaps
  <2>1. rows' = [l \in Lines |-> IF l \in new THEN adds[r] ELSE kept[l]]
    BY <1>2 DEF kept
  <2> QED  BY <1>4, <2>1 DEF LineMaps
<1>9. GoneStays  BY <1>2, <1>6, <1>7 DEF GoneStays
<1>10. DataTypes'
  <2>0. supplier' \in [Deliveries -> Suppliers \cup {NoSupplier}]
    BY <1>0, <1>1 DEF CommitEdit, DataTypes, RequestTypes
  <2>1. ASSUME NEW p \in Products
        PROVE  /\ Gain(r, p) \in Int /\ Sign(KindOf[target[r]]) \in Int /\ stock[p] \in Int
               /\ (IF new # {} /\ adds[r].item = p THEN adds[r].quantity ELSE 0) \in Int
    <3>1. Gain(r, p) \in Int  BY GainIsInt
    <3>2. Sign(KindOf[target[r]]) \in Int /\ stock[p] \in Int  BY <1>0, SignType DEF DataTypes
    <3>3. (IF new # {} /\ adds[r].item = p THEN adds[r].quantity ELSE 0) \in Int
      BY <1>0, <1>2, <1>5, NewLineUnits DEF AddedUnits
    <3> QED  BY <3>1, <3>2, <3>3
  <2>2. stock' \in [Products -> Int]  BY <1>2, <2>1
  <2>3. Held(removes[r]) \subseteq born  BY <1>1 DEF RemovesInv
  <2> QED  BY <1>0, <1>1, <1>2, <1>3, <1>5, <1>8, <2>0, <2>2, <2>3 DEF DataTypes
<1>11. NoLineAlone'
  <2> SUFFICES ASSUME NEW l \in Lines, rows'[l] # NoLine PROVE DeliveryOf[l] \in headers'
    BY DEF NoLineAlone, Held
  <2>1. CASE l \in new  BY <1>3, <1>5, <2>1
  <2>2. CASE l \notin new
    BY <1>0, <1>3, <1>6, <1>7, <2>2 DEF DataInv, NoLineAlone, Held
  <2> QED  BY <2>1, <2>2
<1>12. KeysInv'
  <2>1. headers' \subseteq born'  BY <1>0, <1>1, <1>2, <1>3 DEF DataInv, KeysInv
  <2>2. Held(rows') \subseteq born'
    <3> SUFFICES ASSUME NEW l \in Lines, rows'[l] # NoLine PROVE l \in born'
      BY DEF Held
    <3>1. CASE l \in new  BY <1>2, <3>1
    <3>2. CASE l \notin new
      BY <1>0, <1>2, <1>6, <1>7, <3>2 DEF DataInv, KeysInv, Held
    <3> QED  BY <3>1, <3>2
  <2>3. \A l \in Lines \cap born' : DeliveryOf[l] \in born'
    BY <1>0, <1>1, <1>2, <1>5 DEF DataInv, KeysInv
  <2> QED  BY <2>1, <2>2, <2>3 DEF KeysInv
<1>13. RequestTypes' /\ \A s \in Requests : RequestInv(s)'
  BY <1>0, <1>1, <1>3, <1>9, FinishStep
<1> QED  BY <1>10, <1>11, <1>12, <1>13, InvariantFromParts DEF DataInv

LEMMA CommitDeletionIInv ==
  ASSUME IInv, NEW r \in Deleters, CommitDeletion(r)
  PROVE  IInv'
<1>0. RequestTypes /\ DataTypes /\ DataInv /\ \A s \in Requests : RequestInv(s)
  BY InvariantParts
<1>1. r \in Requests /\ RemovesInv(r) /\ removes[r] \in LineMaps /\ rows \in LineMaps
  BY <1>0 DEF RequestInv, Requests, RequestTypes, DataTypes
<1>2. /\ rows' = [l \in Lines |-> IF removes[r][l] # NoLine THEN NoLine ELSE rows[l]]
      /\ headers' = headers \ {target[r]} /\ deleting' \subseteq deleting
      /\ removals' \subseteq removals \cup Held(removes[r])
      /\ born' = born /\ Finish(r)
  BY DEF CommitDeletion
<1>3. rows' \in LineMaps  BY <1>1, <1>2 DEF LineMaps
<1>4. \A l \in Lines : rows'[l] # NoLine => rows'[l] = rows[l] /\ removes[r][l] = NoLine
  BY <1>2
<1>5. GoneStays  BY <1>2, <1>4 DEF GoneStays
<1>6. DataTypes'
  <2>1. \A p : Units(removes[r], p) \in Int  BY <1>1, UnitsOverLines
  <2>2. \A p \in Products : stock[p] \in Int  BY <1>0 DEF DataTypes
  <2>3. stock' \in [Products -> Int]
    <3>1. stock' = [p \in Products |-> stock[p] - reversal[r].sign * Units(removes[r], p)]
      BY DEF CommitDeletion
    <3>2. ASSUME NEW p \in Products PROVE stock[p] - reversal[r].sign * Units(removes[r], p) \in Int
      <4>1. stock[p] \in Int /\ Units(removes[r], p) \in Int  BY <2>1, <2>2
      <4>2. reversal[r].sign \in {-1, 1}  BY <1>0 DEF RequestTypes, Reversals
      <4> QED  BY <4>1, <4>2
    <3> QED  BY <3>1, <3>2
  <2>4. supplier' \in [Deliveries -> Suppliers \cup {NoSupplier}]
    BY <1>0 DEF CommitDeletion, DataTypes
  <2> QED  BY <1>0, <1>1, <1>2, <1>3, <2>3, <2>4 DEF DataTypes, RemovesInv
<1>7. NoLineAlone'
  <2> SUFFICES ASSUME NEW l \in Lines, rows'[l] # NoLine PROVE DeliveryOf[l] \in headers'
    BY DEF NoLineAlone, Held
  <2>1. rows[l] # NoLine /\ removes[r][l] = NoLine  BY <1>4
  <2>2. DeliveryOf[l] # target[r]
    BY <2>1 DEF CommitDeletion, NothingLeft, Held, Of, LinesOf
  <2> QED  BY <1>0, <1>2, <2>1, <2>2 DEF DataInv, NoLineAlone, Held
<1>8. KeysInv'  BY <1>0, <1>2, <1>4 DEF DataInv, KeysInv, Held
<1>9. RequestTypes' /\ \A s \in Requests : RequestInv(s)'
  BY <1>0, <1>1, <1>2, <1>5, FinishStep
<1> QED  BY <1>6, <1>7, <1>8, <1>9, InvariantFromParts DEF DataInv

LEMMA NextIInv == IInv /\ [Next]_vars => IInv'
<1> SUFFICES ASSUME IInv, [Next]_vars PROVE IInv'  OBVIOUS
<1>1. CASE UNCHANGED vars
  <2>1. RequestTypes /\ DataTypes /\ DataInv /\ \A s \in Requests : RequestInv(s)
    BY InvariantParts
  <2>2. GoneStays /\ DataTypes' /\ DataInv'
    BY <1>1, <2>1, DataUnchanged DEF vars, DataTypes
  <2>3. RequestTypes'  BY <1>1, <2>1 DEF vars, locks, inputs, RequestTypes
  <2>4. \A s \in Requests : RequestInv(s)'
    BY <1>1, <2>1, <2>2, OtherRequest DEF vars, inputs
  <2> QED  BY <2>2, <2>3, <2>4, InvariantFromParts
<1>2. CASE Next
  BY <1>2, AddIInv, OpenIInv, PostIInv, FinishIInv, LockHeaderIInv, CommitEditIInv, CollectIInv,
     DeleteLinesIInv, CommitDeletionIInv
  DEF Next, Requests
<1> QED  BY <1>1, <1>2

LEMMA Invariance == Spec => []IInv
  BY InitIInv, NextIInv, PTL DEF Spec

-----------------------------------------------------------------------------
(* Stock follows the lines *)

LEMMA BookedNowAndNext ==
  ASSUME NEW p
  PROVE  Booked(p) = BookedIn(rows, p) /\ Booked(p)' = BookedIn(rows', p)
  BY DEF Booked, BookedIn, Units, Held

LEMMA AddStock ==
  ASSUME IInv, IInv', NEW d \in Deliveries, Add(d), NEW p \in Products
  PROVE  stock'[p] - stock[p] = Booked(p)' - Booked(p)
<1> DEFINE gain == [l \in Lines |-> Amount(Of(rows', d)[l], p)]
<1>1. rows \in LineMaps /\ rows' \in LineMaps
  BY DEF IInv, TypeOK, LineMaps
<1>2. Of(rows', d) \in LineMaps  BY <1>1 DEF Of, LineMaps
<1>3. \A l \in Lines : l \notin LinesOf(d) => rows'[l] = rows[l]  BY DEF Add
<1>4. \A l \in LinesOf(d) : rows[l] = NoLine
  BY DEF Add, IInv, NoLineAlone, KeysInv, Held, LinesOf
<1>5. \A l \in Lines : gain[l] \in Int  BY <1>2, AmountType DEF LineMaps
<1>6. ASSUME NEW l \in Lines PROVE Amount(rows'[l], p) = Amount(rows[l], p) + gain[l]
  <2>1. Amount(rows[l], p) \in Int /\ Amount(NoLine, p) = 0
    BY <1>1, AmountType DEF LineMaps, Amount
  <2>2. CASE l \in LinesOf(d)
    <3>1. gain[l] = Amount(rows'[l], p)  BY <2>2 DEF Of
    <3> QED  BY <1>4, <1>5, <2>1, <2>2, <3>1
  <2>3. CASE l \notin LinesOf(d)
    <3>1. gain[l] = Amount(NoLine, p)  BY <2>3 DEF Of
    <3> QED  BY <1>3, <2>1, <2>3, <3>1
  <2> QED  BY <2>2, <2>3
<1>7. \A l \in Lines \ LinesOf(d) : gain[l] = 0  BY DEF Of, Amount
<1>8. Units(Of(rows', d), p) = SumFunctionOnSet(gain, Lines) /\ Units(Of(rows', d), p) \in Int
  BY <1>2, UnitsOverLines
<1>9. stock'[p] = stock[p] + Sign(KindOf[d]) * Units(Of(rows', d), p)  BY DEF Add
<1> HIDE DEF gain
<1>10. BookedIn(rows', p) - BookedIn(rows, p) = Sign(KindOf[d]) * SumFunctionOnSet(gain, Lines)
  BY <1>1, <1>5, <1>6, <1>7, BookedChange
<1>11. stock[p] \in Int  BY DEF IInv, TypeOK
<1>12. Sign(KindOf[d]) \in {-1, 1}  BY SignType
<1> QED  BY <1>8, <1>9, <1>10, <1>11, <1>12, BookedNowAndNext

\* An edit moves what it saves, less what that replaces, less what it removes.
LEMMA EditStock ==
  ASSUME IInv, IInv', NEW r \in Editors, CommitEdit(r), ~Stale(r), NEW p \in Products
  PROVE  stock'[p] - stock[p] = Booked(p)' - Booked(p)
<1>1. PICK new \in SUBSET (LinesOf(target[r]) \ born) :
        /\ Cardinality(new) = IF adds[r] = NoLine THEN 0 ELSE 1
        /\ rows' = [l \in Lines |-> IF l \in new THEN adds[r] ELSE LinesKept(r)[l]]
        /\ stock' = [q \in Products |->
             stock[q] + Sign(KindOf[target[r]]) *
               (Gain(r, q) + IF new # {} /\ adds[r].item = q THEN adds[r].quantity ELSE 0)]
  BY DEF CommitEdit
<1> DEFINE units == AddedUnits(r, new, p)
           w == [l \in Lines |-> Amount(writes[r][l], p)]
           o == [l \in Lines |-> Amount(Overwritten(r)[l], p)]
           m == [l \in Lines |-> Amount(removes[r][l], p)]
           n == AddedAmounts(r, new, p)
           a == [l \in Lines |-> w[l] - o[l]]
           b == [l \in Lines |-> a[l] - m[l]]
           gain == [l \in Lines |-> b[l] + n[l]]
<1>2. /\ writes[r] \in LineMaps /\ removes[r] \in LineMaps /\ Overwritten(r) \in LineMaps
      /\ adds[r] \in Rows \cup {NoLine} /\ target[r] \in Deliveries /\ rows \in LineMaps
      /\ rows' \in LineMaps /\ r \in Requests /\ RequestTypes
      /\ EditorInv(r) /\ RemovesInv(r) /\ KeysInv
  BY EditMaps, InvariantParts DEF IInv, TypeOK, LineMaps, Requests
<1>3. \A l \in Lines : w[l] \in Int /\ o[l] \in Int /\ m[l] \in Int /\ n[l] \in Int
  <2> TAKE l \in Lines
  <2>1. /\ writes[r][l] \in Rows \cup {NoLine} /\ Overwritten(r)[l] \in Rows \cup {NoLine}
        /\ removes[r][l] \in Rows \cup {NoLine} /\ adds[r] \in Rows \cup {NoLine}
    BY <1>2 DEF LineMaps
  <2>2. /\ Amount(writes[r][l], p) \in Int /\ Amount(Overwritten(r)[l], p) \in Int
        /\ Amount(removes[r][l], p) \in Int /\ Amount(adds[r], p) \in Int
    BY <2>1, AmountType
  <2> QED  BY <2>2 DEF AddedAmounts
<1>4. \A l \in Lines : a[l] \in Int /\ b[l] \in Int /\ gain[l] \in Int
  BY <1>3
<1>5. new \in SUBSET Lines /\ \A l \in new : l \notin born /\ l \in LinesOf(target[r])
  BY DEF LinesOf
\* Line by line.
<1>6. ASSUME NEW l \in Lines PROVE Amount(rows'[l], p) = Amount(rows[l], p) + gain[l]
  <2>1. Amount(NoLine, p) = 0 /\ Amount(rows[l], p) \in Int
    BY <1>2, AmountType DEF Amount, LineMaps
  <2>2. /\ gain[l] = w[l] - o[l] - m[l] + n[l]
        /\ w[l] = Amount(writes[r][l], p) /\ o[l] = Amount(Overwritten(r)[l], p)
        /\ m[l] = Amount(removes[r][l], p)
        /\ n[l] = IF l \in new THEN Amount(adds[r], p) ELSE 0
    BY DEF AddedAmounts
  <2>3. /\ Overwritten(r)[l] = IF writes[r][l] = NoLine THEN NoLine ELSE rows[l]
        /\ rows'[l] = IF l \in new THEN adds[r]
                      ELSE IF removes[r][l] # NoLine THEN NoLine
                      ELSE IF writes[r][l] # NoLine THEN writes[r][l] ELSE rows[l]
    BY <1>1 DEF Overwritten, LinesKept
  <2>4. /\ writes[r][l] # NoLine => rows[l] # NoLine /\ removes[r][l] = NoLine
        /\ removes[r][l] # NoLine => removes[r][l] = rows[l]
        /\ l \in new => rows[l] = NoLine
    BY <1>2, <1>5 DEF CommitEdit, EditorInv, Stale, Held, KeysInv
  <2> HIDE DEF gain, w, o, m, n
  <2>5. CASE l \in new
    <3>1. writes[r][l] = NoLine /\ removes[r][l] = NoLine /\ rows[l] = NoLine
      BY <2>4, <2>5
    <3> QED  BY <1>3, <2>1, <2>2, <2>3, <2>5, <3>1
  <2>6. CASE l \notin new /\ removes[r][l] # NoLine
    BY <1>3, <2>1, <2>2, <2>3, <2>4, <2>6
  <2>7. CASE l \notin new /\ removes[r][l] = NoLine /\ writes[r][l] # NoLine
    BY <1>3, <2>1, <2>2, <2>3, <2>7
  <2>8. CASE l \notin new /\ removes[r][l] = NoLine /\ writes[r][l] = NoLine
    BY <1>3, <2>1, <2>2, <2>3, <2>8
  <2> QED  BY <2>5, <2>6, <2>7, <2>8
<1>7. ASSUME NEW l \in Lines \ LinesOf(target[r]) PROVE gain[l] = 0
  <2>1. l \notin new /\ writes[r][l] = NoLine /\ removes[r][l] = NoLine
    BY <1>2, <1>5 DEF EditorInv, RemovesInv, Held
  <2> QED  BY <2>1 DEF Overwritten, Amount, AddedAmounts
\* All lines together.
<1>8. IsFiniteSet(Lines)  BY DocumentsAssumption
<1>9. /\ Units(writes[r], p) = SumFunctionOnSet(w, Lines)
      /\ Units(Overwritten(r), p) = SumFunctionOnSet(o, Lines)
      /\ Units(removes[r], p) = SumFunctionOnSet(m, Lines)
  BY <1>2, UnitsOverLines
<1>10. units = SumFunctionOnSet(n, Lines) /\ units \in Int
  <2>1. RequestTypes /\ new \in SUBSET Lines  BY <1>2, <1>5
  <2>2. Cardinality(new) = IF adds[r] = NoLine THEN 0 ELSE 1  BY <1>1
  <2> QED  BY <2>1, <2>2, NewLineUnits
<1>11. stock'[p] = stock[p] + Sign(KindOf[target[r]]) * (Gain(r, p) + units)
  BY <1>1 DEF AddedUnits
<1>12. \A l \in Lines : w[l] = a[l] + o[l] /\ a[l] = b[l] + m[l] /\ gain[l] = b[l] + n[l]
  BY <1>3
<1> HIDE DEF units, w, o, m, n, a, b, gain
<1>13. SumFunctionOnSet(w, Lines) = SumFunctionOnSet(a, Lines) + SumFunctionOnSet(o, Lines)
  BY <1>3, <1>4, <1>8, <1>12, SumOnAdded
<1>14. SumFunctionOnSet(a, Lines) = SumFunctionOnSet(b, Lines) + SumFunctionOnSet(m, Lines)
  BY <1>3, <1>4, <1>8, <1>12, SumOnAdded
<1>15. SumFunctionOnSet(gain, Lines) = SumFunctionOnSet(b, Lines) + SumFunctionOnSet(n, Lines)
  BY <1>3, <1>4, <1>8, <1>12, SumOnAdded
<1>16. /\ SumFunctionOnSet(a, Lines) \in Int /\ SumFunctionOnSet(b, Lines) \in Int
       /\ SumFunctionOnSet(m, Lines) \in Int /\ SumFunctionOnSet(o, Lines) \in Int
  BY <1>3, <1>4, <1>8, SumOnSplit
<1>17. SumFunctionOnSet(gain, Lines) = Gain(r, p) + units
  BY <1>9, <1>10, <1>13, <1>14, <1>15, <1>16, GainIsInt
<1>18. BookedIn(rows', p) - BookedIn(rows, p)
         = Sign(KindOf[target[r]]) * SumFunctionOnSet(gain, Lines)
  <2>1. rows \in LineMaps /\ rows' \in LineMaps /\ target[r] \in Deliveries  BY <1>2
  <2>2. \A l \in Lines : gain[l] \in Int  BY <1>4
  <2> QED  BY <1>6, <1>7, <2>1, <2>2, BookedChange
<1>19. stock[p] \in Int /\ Gain(r, p) \in Int  BY GainIsInt DEF IInv, TypeOK
<1>20. Sign(KindOf[target[r]]) \in {-1, 1}  BY SignType
<1> QED  BY <1>10, <1>11, <1>17, <1>18, <1>19, <1>20, BookedNowAndNext

\* A deletion gives back the lines it deletes, with the sign they came with.
LEMMA DeletionStock ==
  ASSUME IInv, IInv', NEW r \in Deleters, CommitDeletion(r), ~Stale(r), NEW p \in Products
  PROVE  stock'[p] - stock[p] = Booked(p)' - Booked(p)
<1> DEFINE d == target[r]
           m == [l \in Lines |-> Amount(removes[r][l], p)]
           gain == [l \in Lines |-> -m[l]]
<1>1. /\ r \in Requests /\ RemovesInv(r) /\ removes[r] \in LineMaps /\ rows \in LineMaps
      /\ rows' \in LineMaps /\ d \in Deliveries /\ stock[p] \in Int
      /\ ReversalInv(r) /\ reversal[r].sign \in {-1, 1} /\ pc[r] = "restored"
  BY DEF IInv, TypeOK, Requests, LineMaps, CommitDeletion
<1>2. stock'[p] = stock[p] - reversal[r].sign * Units(removes[r], p)
  BY DEF CommitDeletion
<1>3. \A l \in Lines : m[l] \in Int /\ gain[l] = -m[l] /\ gain[l] \in Int
  BY <1>1, AmountType DEF LineMaps
<1>4. \A l \in Lines : removes[r][l] # NoLine => removes[r][l] = rows[l]
  BY DEF Stale, Held
<1>5. ASSUME NEW l \in Lines PROVE Amount(rows'[l], p) = Amount(rows[l], p) + gain[l]
  <2>1. Amount(NoLine, p) = 0 /\ Amount(rows[l], p) \in Int
    BY <1>1, AmountType DEF Amount, LineMaps
  <2>2. rows'[l] = IF removes[r][l] # NoLine THEN NoLine ELSE rows[l]
    BY DEF CommitDeletion
  <2>3. m[l] = Amount(removes[r][l], p)  OBVIOUS
  <2> HIDE DEF m, gain
  <2> QED  BY <1>3, <1>4, <2>1, <2>2, <2>3
<1>6. ASSUME NEW l \in Lines \ LinesOf(d) PROVE gain[l] = 0
  <2>1. removes[r][l] = NoLine  BY <1>1 DEF RemovesInv, Held
  <2>2. m[l] = 0  BY <2>1 DEF Amount
  <2> QED  BY <1>3, <2>2
<1>7. IsFiniteSet(Lines)  BY DocumentsAssumption
<1>8. Units(removes[r], p) = SumFunctionOnSet(m, Lines) /\ Units(removes[r], p) \in Int
  BY <1>1, UnitsOverLines
<1>9. CASE reversal[r].sign # Sign(KindOf[d])
  <2>1. \A l \in Held(removes[r]) : rows[l] = NoLine
    BY <1>1, <1>9 DEF ReversalInv
  <2>2. \A l \in Lines : removes[r][l] = NoLine  BY <1>4, <2>1 DEF Held
  <2>3. \A l \in Lines : m[l] = 0  BY <2>2 DEF Amount
  <2>4. rows' = rows  BY <1>1, <2>2 DEF CommitDeletion, LineMaps
  <2> HIDE DEF m
  <2>5. Units(removes[r], p) = 0  BY <1>7, <1>8, <2>3, SumOnZeros
  <2>6. BookedIn(rows, p) \in Int  BY <1>1, BookedOverLines
  <2> QED  BY <1>1, <1>2, <2>4, <2>5, <2>6, BookedNowAndNext
<1>10. CASE reversal[r].sign = Sign(KindOf[d])
  <2> HIDE DEF m, gain, d
  <2>1. BookedIn(rows', p) - BookedIn(rows, p) = Sign(KindOf[d]) * SumFunctionOnSet(gain, Lines)
    BY <1>1, <1>3, <1>5, <1>6, BookedChange
  <2>2. SumFunctionOnSet(gain, Lines) = -Units(removes[r], p)
    BY <1>3, <1>7, <1>8, SumOnNegated
  <2> QED  BY <1>1, <1>2, <1>8, <1>10, <2>1, <2>2, BookedNowAndNext
<1> QED  BY <1>9, <1>10

-----------------------------------------------------------------------------
(* Links follow the lines *)

\* What a line says was delivered stays said when its row and its document's
\* supplier are the same in another table.
LEMMA SameDelivered ==
  ASSUME NEW f, NEW g, NEW s, NEW pair \in Delivered(f, s),
         \A l \in Held(f) : g[l] = f[l]
  PROVE  pair \in Delivered(g, s)
<1>1. PICK l \in Supplied(f, s) : pair = <<f[l].item, s[DeliveryOf[l]]>>  BY DEF Delivered
<1>2. l \in Supplied(g, s) /\ g[l] = f[l]  BY <1>1 DEF Supplied, Held
<1> QED  BY <1>1, <1>2 DEF Delivered

\* Lines in two tables deliver what the one or the other does.
LEMMA EitherDelivered ==
  ASSUME NEW f, NEW g, NEW h, NEW s, NEW pair \in Delivered(f, s),
         \A l \in Held(f) : g[l] = f[l] \/ h[l] = f[l]
  PROVE  pair \in Delivered(g, s) \cup Delivered(h, s)
<1>1. PICK l \in Supplied(f, s) : pair = <<f[l].item, s[DeliveryOf[l]]>>  BY DEF Delivered
<1>2. l \in Held(f) /\ f[l] # NoLine  BY <1>1 DEF Supplied, Held
<1>3. CASE g[l] = f[l]
  <2>1. l \in Supplied(g, s)  BY <1>1, <1>2, <1>3 DEF Supplied, Held
  <2> QED  BY <1>1, <1>3, <2>1 DEF Delivered
<1>4. CASE h[l] = f[l]
  <2>1. l \in Supplied(h, s)  BY <1>1, <1>2, <1>4 DEF Supplied, Held
  <2> QED  BY <1>1, <1>4, <2>1 DEF Delivered
<1> QED  BY <1>2, <1>3, <1>4

LEMMA AddLinks ==
  ASSUME NEW d \in Deliveries, Add(d)
  PROVE  links \subseteq links' /\ Delivered(Saved, supplier') \subseteq links'
<1>1. links' = links \cup Delivered(Of(rows', d), supplier')  BY DEF Add
<1>2. \A l \in Lines : l \notin LinesOf(d) => rows'[l] = rows[l]  BY DEF Add
<1>3. \A l \in Held(Saved) : Of(rows', d)[l] = Saved[l]
  BY <1>2 DEF Held, Saved, Of
<1> QED  BY <1>1, <1>3, SameDelivered

LEMMA EditLinks ==
  ASSUME NEW r \in Editors, CommitEdit(r)
  PROVE  /\ links \cap Delivered(rows', supplier') \subseteq links'
         /\ Delivered(Saved, supplier') \subseteq links'
<1>1. PICK new \in SUBSET (LinesOf(target[r]) \ born) :
        /\ rows' = [l \in Lines |-> IF l \in new THEN adds[r] ELSE LinesKept(r)[l]]
        /\ links' =
             (IF target[r] \in deleting THEN links
              ELSE links \ Retract(Delivered(removes[r], supplier'), Delivered(LinesKept(r), supplier')))
             \cup Delivered(writes[r], supplier')
             \cup Delivered([l \in Lines |-> IF l \in new THEN adds[r] ELSE NoLine], supplier')
  BY DEF CommitEdit
<1> DEFINE added == [l \in Lines |-> IF l \in new THEN adds[r] ELSE NoLine]
           gone == Delivered(removes[r], supplier')
           kept == Delivered(LinesKept(r), supplier')
<1>2. \A l \in Held(rows') : added[l] = rows'[l] \/ LinesKept(r)[l] = rows'[l]
  BY <1>1 DEF Held
<1>3. \A l \in Held(Saved) : added[l] = Saved[l] \/ writes[r][l] = Saved[l]
  BY <1>1 DEF Held, Saved, LinesKept
<1>4. links \cap (Delivered(added, supplier') \cup kept) \subseteq links'
  BY <1>1 DEF Retract
<1>5. Delivered(added, supplier') \cup Delivered(writes[r], supplier') \subseteq links'
  BY <1>1
<1> HIDE DEF added
<1>6. Delivered(rows', supplier') \subseteq Delivered(added, supplier') \cup kept
  BY <1>2, EitherDelivered
<1>7. Delivered(Saved, supplier') \subseteq Delivered(added, supplier') \cup Delivered(writes[r], supplier')
  BY <1>3, EitherDelivered
<1> QED  BY <1>4, <1>5, <1>6, <1>7

LEMMA DeletionLinks ==
  ASSUME NEW r \in Deleters, CommitDeletion(r)
  PROVE  /\ links \cap Delivered(rows', supplier') \subseteq links'
         /\ Delivered(Saved, supplier') \subseteq links'
<1>1. links \cap Delivered(rows', supplier') \subseteq links'
  BY DEF CommitDeletion, Retract
<1>2. rows' = [l \in Lines |-> IF removes[r][l] # NoLine THEN NoLine ELSE rows[l]]
  BY DEF CommitDeletion
<1>3. Held(Saved) = {}  BY <1>2 DEF Held, Saved
<1> QED  BY <1>1, <1>3 DEF Delivered, Supplied

-----------------------------------------------------------------------------
(* The theorems *)

\* The variables keep their types, however requests overlap, fail and are
\* repeated, and nothing is removed or marked that never existed.
THEOREM TypeCorrect == Spec => []TypeOK
<1>1. IInv => TypeOK  BY DEF IInv
<1> QED  BY <1>1, Invariance, PTL

\* A line in the database always has its document: the foreign key stops the
\* deletion that would leave an edit's new line behind.
THEOREM LinesHaveTheirDocuments == Spec => []NoLineAlone
<1>1. IInv => NoLineAlone  BY DEF IInv
<1> QED  BY <1>1, Invariance, PTL

\* No step retracts a link that a line in the books supports, whatever lines are
\* removed with whatever picture of them, and each line a step writes is linked.
THEOREM DeliveredAreLinked == Spec => LinkedWhenDelivered
<1>1. IInv /\ [Next]_vars =>
        [/\ links \cap Delivered(rows', supplier') \subseteq links'
         /\ Delivered(Saved, supplier') \subseteq links']_vars
  <2> SUFFICES ASSUME IInv, [Next]_vars
               PROVE  /\ links \cap Delivered(rows', supplier') \subseteq links'
                      /\ Delivered(Saved, supplier') \subseteq links'
    OBVIOUS
  <2>1. CASE \E d \in Deliveries : Add(d)
    BY <2>1, AddLinks
  <2>2. CASE \E r \in Editors : CommitEdit(r)
    BY <2>2, EditLinks
  <2>3. CASE \E r \in Deleters : CommitDeletion(r)
    BY <2>3, DeletionLinks
  <2>4. CASE links' = links /\ rows' = rows
    BY <2>4 DEF Saved, Delivered, Supplied, Held
  <2> QED
    BY <2>1, <2>2, <2>3, <2>4
    DEF Next, Open, Post, Refuse, LockHeader, Collect, DeleteLines, Fail, vars, documents
<1> QED  BY <1>1, Invariance, PTL DEF Spec, LinkedWhenDelivered

\* Every step moves the stock of every product by what it changes in the lines,
\* except one that removes a line it has a stale picture of.
THEOREM StockFollows == Spec => StockFollowsLines
<1>1. IInv /\ IInv' /\ [Next]_vars =>
        [(\A r \in Requests : pc'[r] # pc[r] => ~Stale(r)) =>
           \A p \in Products : stock'[p] - stock[p] = Booked(p)' - Booked(p)]_vars
  <2> SUFFICES ASSUME IInv, IInv', [Next]_vars,
                      \A r \in Requests : pc'[r] # pc[r] => ~Stale(r), NEW p \in Products
               PROVE  stock'[p] - stock[p] = Booked(p)' - Booked(p)
    OBVIOUS
  <2>1. ASSUME NEW d \in Deliveries, Add(d) PROVE stock'[p] - stock[p] = Booked(p)' - Booked(p)
    BY <2>1, AddStock
  <2>2. ASSUME NEW r \in Editors, CommitEdit(r)
        PROVE  stock'[p] - stock[p] = Booked(p)' - Booked(p)
    <3>1. pc[r] = "saving" /\ pc'[r] = "answered" /\ r \in Requests
      BY <2>2 DEF CommitEdit, Finish, IInv, TypeOK, Requests
    <3>2. ~Stale(r)  BY <3>1
    <3> QED  BY <2>2, <3>2, EditStock
  <2>3. ASSUME NEW r \in Deleters, CommitDeletion(r)
        PROVE  stock'[p] - stock[p] = Booked(p)' - Booked(p)
    <3>1. pc[r] = "restored" /\ pc'[r] = "answered" /\ r \in Requests
      BY <2>3 DEF CommitDeletion, Finish, IInv, TypeOK, Requests
    <3>2. ~Stale(r)  BY <3>1
    <3> QED  BY <2>3, <3>2, DeletionStock
  <2>4. CASE stock' = stock /\ rows' = rows
    <3>1. BookedIn(rows, p) \in Int /\ stock[p] \in Int
      BY BookedOverLines DEF IInv, TypeOK, LineMaps
    <3> QED  BY <2>4, <3>1, BookedNowAndNext
  <2> QED
    BY <2>1, <2>2, <2>3, <2>4
    DEF Next, Open, Post, Refuse, LockHeader, Collect, DeleteLines, Fail, vars, documents
<1> QED  BY <1>1, Invariance, PTL DEF Spec, StockFollowsLines
=============================================================================
