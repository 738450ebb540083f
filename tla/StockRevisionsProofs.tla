------------------------ MODULE StockRevisionsProofs ------------------------
(***************************************************************************)
(* Proofs, for any products, revisions and clerks, that the counts of      *)
(* StockRevisions keep their types, that one revision is open, that what a *)
(* clerk counted reaches stock, that closed revisions stay closed, that    *)
(* every change of stock is recorded, and that stock is what its history   *)
(* adds up to.                                                             *)
(***************************************************************************)
EXTENDS StockRevisions, SumTheorems, TLAPS

-----------------------------------------------------------------------------
(* The inductive invariant *)

Completing(r) == req[r].op = "complete"

\* A request names what it needs: a count or a load names a row, a completion
\* its revision.
Named(r) ==
  /\ req[r].op \in {"preload", "add", "set", "complete"} => req[r].rev \in Revisions
  /\ req[r].op \in {"preload", "add", "set"} => req[r].product \in Products

\* A completion holds its revision, which therefore is open and has the rows
\* the completion has read ...
HoldsRevision(r) ==
  Completing(r) =>
    /\ revLock[req[r].rev] = r
    /\ status[req[r].rev] = "OPEN"
    /\ \A p \in Products : counted[r][p] = found[req[r].rev][p]

\* ... and the rows of the products it has noted, which have the quantity noted.
HoldsProducts(r) ==
  \A p \in Products : replaced[r][p] # NoRow =>
    /\ Completing(r)
    /\ counted[r][p] # NoRow
    /\ rowLock[p] = r
    /\ replaced[r][p] = quantity[p]

IInv ==
  /\ TypeOK
  /\ OneOpenRevision
  /\ \A r \in Clerks : Named(r) /\ HoldsRevision(r) /\ HoldsProducts(r)

-----------------------------------------------------------------------------
LEMMA InitTypeOK == Init => TypeOK
  BY RevisionsAssumption
  DEF Init, TypeOK, NoRows, Idle, Request, Requests, Counts

\* Asking and answering leave every clerk with a request of a known form.
LEMMA RequestType ==
  ASSUME TypeOK, NEW r \in Clerks,
         \/ Answer(r)
         \/ \E q \in Requests : Ask(r, q)
  PROVE  req' \in [Clerks -> Requests]
<1>1. Idle \in Requests  BY DEF Idle, Request, Requests
<1> QED  BY <1>1 DEF TypeOK, Answer, Ask

LEMMA EndCompletionTypeOK ==
  ASSUME TypeOK, NEW r \in Clerks, EndCompletion(r)
  PROVE  /\ revLock' \in [Revisions -> Clerks \cup {NoOne}]
         /\ rowLock' \in [Products -> Clerks \cup {NoOne}]
         /\ req' \in [Clerks -> Requests]
         /\ counted' \in [Clerks -> [Products -> Counts]]
         /\ replaced' \in [Clerks -> [Products -> Int \cup {NoRow}]]
<1>1. req' \in [Clerks -> Requests]  BY RequestType DEF EndCompletion
<1>2. NoRows \in [Products -> Counts] /\ NoRows \in [Products -> Int \cup {NoRow}]
  BY DEF NoRows, Counts
<1>3. /\ counted' \in [Clerks -> [Products -> Counts]]
      /\ replaced' \in [Clerks -> [Products -> Int \cup {NoRow}]]
  BY <1>2 DEF TypeOK, EndCompletion
<1> QED  BY <1>1, <1>3 DEF TypeOK, EndCompletion

LEMMA NextTypeOK == IInv /\ [Next]_vars => TypeOK'
<1> SUFFICES ASSUME IInv, [Next]_vars PROVE TypeOK'  OBVIOUS
<1> USE DEF IInv
<1>1. ASSUME NEW p \in Products, NEW n \in {-1, 1}, Move(p, n) PROVE TypeOK'
  BY <1>1 DEF TypeOK, Move, completion
<1>2. ASSUME NEW v \in Revisions, CancelRevision(v) PROVE TypeOK'
  BY <1>2 DEF TypeOK, CancelRevision, completion
<1>3. ASSUME NEW v \in Revisions, NEW p \in Products, Remove(v, p) PROVE TypeOK'
  BY <1>3 DEF TypeOK, Remove, completion, Counts
<1>4. ASSUME NEW r \in Clerks, AskStart(r) \/ Create(r) \/ Join(r) PROVE TypeOK'
  <2>1. Request("start", NoOne, NoOne, 0) \in Requests  BY DEF Request, Requests
  <2>2. req' \in [Clerks -> Requests]
    BY <1>4, <2>1, RequestType DEF AskStart, Create, Join
  <2>3. status' \in [Revisions -> {"none", "OPEN", "COMPLETED", "CANCELLED"}]
    BY <1>4 DEF TypeOK, AskStart, Create, Join
  <2> QED  BY <1>4, <2>2, <2>3 DEF TypeOK, AskStart, Create, Join, completion
<1>5. ASSUME NEW r \in Clerks, Preload(r) PROVE TypeOK'
  <2>1. req[r].rev \in Revisions /\ req[r].product \in Products  BY <1>5 DEF Named, Preload
  <2>2. found' \in [Revisions -> [Products -> Counts]]
    BY <1>5, <2>1 DEF TypeOK, Preload, Counts
  <2>3. req' \in [Clerks -> Requests]  BY <1>5, RequestType DEF Preload
  <2> QED  BY <1>5, <2>2, <2>3 DEF TypeOK, Preload, completion
<1>6. ASSUME NEW r \in Clerks, Count(r) PROVE TypeOK'
  <2>1. req[r].rev \in Revisions /\ req[r].product \in Products
    BY <1>6 DEF Named, Count
  <2>2. NewCount(r) \in Counts
    BY <1>6, RevisionsAssumption DEF Count, Counts
  <2>3. found' \in [Revisions -> [Products -> Counts]]
    BY <1>6, <2>1, <2>2 DEF TypeOK, Count
  <2>4. req' \in [Clerks -> Requests]  BY <1>6, RequestType DEF Count
  <2> QED  BY <1>6, <2>3, <2>4 DEF TypeOK, Count, completion
<1>7. ASSUME NEW r \in Clerks, RefuseCount(r) PROVE TypeOK'
  <2>1. req' \in [Clerks -> Requests]  BY <1>7, RequestType DEF RefuseCount
  <2> QED  BY <1>7, <2>1 DEF TypeOK, RefuseCount, completion
<1>8. ASSUME NEW r \in Clerks, CommitCompletion(r) PROVE TypeOK'
  <2>1. EndCompletion(r) /\ req[r].rev \in Revisions  BY <1>8 DEF CommitCompletion, Named
  <2>2. quantity' \in [Products -> Int]
    BY <1>8, RevisionsAssumption DEF TypeOK, CommitCompletion, Counts
  <2>3. /\ before' \in [Revisions -> [Products -> Int \cup {NoRow}]]
        /\ status' \in [Revisions -> {"none", "OPEN", "COMPLETED", "CANCELLED"}]
        /\ found' = found /\ moved' = moved
    BY <1>8, <2>1 DEF TypeOK, CommitCompletion
  <2> QED  BY <2>1, <2>2, <2>3, EndCompletionTypeOK DEF TypeOK
<1>9. ASSUME NEW r \in Clerks, FailCompletion(r) PROVE TypeOK'
  BY <1>9, EndCompletionTypeOK DEF TypeOK, FailCompletion
<1>10. ASSUME NEW r \in Clerks, NEW p \in Products, Replace(r, p) PROVE TypeOK'
  BY <1>10 DEF TypeOK, Replace
<1>11. ASSUME NEW r \in Clerks, NEW v \in Revisions, StartCompletion(r, v) PROVE TypeOK'
  <2>1. Request("complete", v, NoOne, 0) \in Requests  BY DEF Request, Requests
  <2>2. req' \in [Clerks -> Requests]  BY <1>11, <2>1, RequestType DEF StartCompletion
  <2> QED  BY <1>11, <2>2 DEF TypeOK, StartCompletion
<1>12. ASSUME NEW r \in Clerks, NEW v \in Revisions, NEW p \in Products, AskPreload(r, v, p)
       PROVE TypeOK'
  <2>1. Request("preload", v, p, 0) \in Requests  BY DEF Request, Requests
  <2>2. req' \in [Clerks -> Requests]  BY <1>12, <2>1, RequestType DEF AskPreload
  <2> QED  BY <1>12, <2>2 DEF TypeOK, AskPreload, completion
<1>13. ASSUME NEW r \in Clerks, NEW v \in Revisions, NEW p \in Products, NEW n \in Amounts,
              AskCount(r, v, p, n)
       PROVE TypeOK'
  <2>1. Request("add", v, p, n) \in Requests /\ Request("set", v, p, n) \in Requests
    BY RevisionsAssumption DEF Request, Requests
  <2>2. req' \in [Clerks -> Requests]  BY <1>13, <2>1, RequestType DEF AskCount
  <2> QED  BY <1>13, <2>2 DEF TypeOK, AskCount, completion
<1>14. CASE UNCHANGED vars
  BY <1>14 DEF TypeOK, vars, completion
<1> QED
  BY <1>1, <1>2, <1>3, <1>4, <1>5, <1>6, <1>7, <1>8, <1>9, <1>10, <1>11, <1>12, <1>13, <1>14
  DEF Next

-----------------------------------------------------------------------------
(* The inductive invariant is preserved *)

ClerkInv(s) == Named(s) /\ HoldsRevision(s) /\ HoldsProducts(s)

LEMMA InitIInv == Init => IInv
<1> SUFFICES ASSUME Init PROVE IInv  OBVIOUS
<1>1. TypeOK  BY InitTypeOK
<1>2. OneOpenRevision  BY DEF Init, OneOpenRevision
<1>3. ASSUME NEW r \in Clerks PROVE Named(r) /\ HoldsRevision(r) /\ HoldsProducts(r)
  BY DEF Init, Named, HoldsRevision, HoldsProducts, Completing, Idle, Request, NoRows
<1> QED  BY <1>1, <1>2, <1>3 DEF IInv

\* A step of others, that leaves alone what a clerk has asked for and locked.
LEMMA ClerkFrame ==
  ASSUME NEW s \in Clerks, ClerkInv(s),
         req'[s] = req[s], counted'[s] = counted[s], replaced'[s] = replaced[s],
         \A v \in Revisions : revLock[v] = s =>
           revLock'[v] = s /\ status'[v] = status[v] /\ found'[v] = found[v],
         \A p \in Products : rowLock[p] = s => rowLock'[p] = s /\ quantity'[p] = quantity[p]
  PROVE  ClerkInv(s)'
<1> USE DEF ClerkInv
<1>1. Named(s)'  BY DEF Named
<1>2. HoldsRevision(s)'  BY DEF HoldsRevision, Completing, Named
<1>3. HoldsProducts(s)'  BY DEF HoldsProducts, Completing
<1> QED  BY <1>1, <1>2, <1>3

\* A clerk who neither completed a revision nor begins to.
LEMMA NoCompletion ==
  ASSUME NEW r \in Clerks, ClerkInv(r), ~Completing(r),
         ~Completing(r)', Named(r)', replaced'[r] = replaced[r]
  PROVE  ClerkInv(r)'
  BY DEF ClerkInv, HoldsRevision, HoldsProducts, Completing

\* A clerk whose request is answered.
LEMMA Answered ==
  ASSUME TypeOK, NEW r \in Clerks, ClerkInv(r), ~Completing(r), Answer(r), replaced' = replaced
  PROVE  ClerkInv(r)' /\ \A s \in Clerks \ {r} : req'[s] = req[s]
<1>1. req'[r] = Idle /\ \A s \in Clerks \ {r} : req'[s] = req[s]  BY DEF TypeOK, Answer
<1>2. Named(r)' /\ ~Completing(r)'  BY <1>1 DEF Idle, Request, Named, Completing
<1> QED  BY <1>1, <1>2, NoCompletion

\* The end of a completion frees what it has locked and nothing else.
LEMMA CompletionEnds ==
  ASSUME IInv, NEW r \in Clerks, Completing(r), EndCompletion(r), found' = found,
         \A v \in Revisions \ {req[r].rev} : status'[v] = status[v],
         \A p \in Products : rowLock[p] \in Clerks \ {r} => quantity'[p] = quantity[p]
  PROVE  \A s \in Clerks : ClerkInv(s)'
<1> USE DEF IInv
<1> SUFFICES ASSUME NEW s \in Clerks PROVE ClerkInv(s)'  OBVIOUS
<1>1. req[r].rev \in Revisions /\ revLock[req[r].rev] = r
  BY DEF Named, HoldsRevision, Completing
<1>2. CASE s = r
  <2>1. req'[r] = Idle /\ replaced'[r] = NoRows
    BY DEF TypeOK, EndCompletion, Answer
  <2> QED
    BY <1>2, <2>1 DEF ClerkInv, Named, HoldsRevision, HoldsProducts, Completing, Idle, Request, NoRows
<1>3. CASE s # r
  <2>1. req'[s] = req[s] /\ counted'[s] = counted[s] /\ replaced'[s] = replaced[s]
    BY <1>3 DEF TypeOK, EndCompletion, Answer
  <2>2. \A v \in Revisions : revLock[v] = s =>
          revLock'[v] = s /\ status'[v] = status[v] /\ found'[v] = found[v]
    BY <1>1, <1>3 DEF TypeOK, EndCompletion
  <2>3. \A p \in Products : rowLock[p] = s => rowLock'[p] = s /\ quantity'[p] = quantity[p]
    BY <1>3 DEF TypeOK, EndCompletion
  <2> QED  BY <2>1, <2>2, <2>3, ClerkFrame DEF ClerkInv
<1> QED  BY <1>2, <1>3

LEMMA NextClerkInv == IInv /\ [Next]_vars => \A s \in Clerks : ClerkInv(s)'
<1> SUFFICES ASSUME IInv, [Next]_vars PROVE \A s \in Clerks : ClerkInv(s)'  OBVIOUS
<1> USE DEF IInv
<1>0. \A s \in Clerks : ClerkInv(s) /\ s # NoOne
  BY RevisionsAssumption DEF ClerkInv
<1>1. ASSUME NEW p \in Products, NEW n \in {-1, 1}, Move(p, n)
      PROVE \A s \in Clerks : ClerkInv(s)'
  BY <1>0, <1>1, ClerkFrame DEF Move, completion, TypeOK
<1>2. ASSUME NEW v \in Revisions, CancelRevision(v) PROVE \A s \in Clerks : ClerkInv(s)'
  BY <1>0, <1>2, ClerkFrame DEF CancelRevision, completion, TypeOK
<1>3. ASSUME NEW v \in Revisions, NEW p \in Products, Remove(v, p)
      PROVE \A s \in Clerks : ClerkInv(s)'
  BY <1>0, <1>3, ClerkFrame DEF Remove, completion, TypeOK
<1>4. ASSUME NEW r \in Clerks, NEW q \in Requests, Ask(r, q), q.op # "complete",
             q.op \in {"preload", "add", "set"} => q.rev \in Revisions /\ q.product \in Products,
             UNCHANGED <<status, found, before, revLock, quantity, rowLock, moved, completion>>
      PROVE \A s \in Clerks : ClerkInv(s)'
  <2>1. req[r] = Idle /\ req'[r] = q /\ \A s \in Clerks \ {r} : req'[s] = req[s]
    BY <1>4 DEF TypeOK, Ask
  <2>2. ~Completing(r) /\ ~Completing(r)' /\ Named(r)'
    BY <1>4, <2>1 DEF Completing, Named, Idle, Request
  <2>3. ClerkInv(r)'  BY <1>0, <1>4, <2>2, NoCompletion DEF completion
  <2>4. \A s \in Clerks \ {r} : ClerkInv(s)'
    BY <1>0, <1>4, <2>1, ClerkFrame DEF completion
  <2> QED  BY <2>3, <2>4
<1>5. ASSUME NEW r \in Clerks, Answer(r), ~Completing(r), completion' = completion,
             revLock' = revLock, rowLock' = rowLock, quantity' = quantity,
             \A v \in Revisions : revLock[v] \in Clerks => status'[v] = status[v] /\ found'[v] = found[v]
      PROVE \A s \in Clerks : ClerkInv(s)'
  <2>1. ClerkInv(r)' /\ \A s \in Clerks \ {r} : req'[s] = req[s]
    BY <1>0, <1>5, Answered DEF completion
  <2>2. \A s \in Clerks \ {r} : ClerkInv(s)'
    BY <1>0, <1>5, <2>1, ClerkFrame DEF completion
  <2> QED  BY <2>1, <2>2
<1>6. ASSUME NEW r \in Clerks, AskStart(r) PROVE \A s \in Clerks : ClerkInv(s)'
  BY <1>4, <1>6 DEF AskStart, Request, Requests
<1>7. ASSUME NEW r \in Clerks, NEW v \in Revisions, NEW p \in Products, AskPreload(r, v, p)
      PROVE \A s \in Clerks : ClerkInv(s)'
  BY <1>4, <1>7 DEF AskPreload, Request, Requests
<1>8. ASSUME NEW r \in Clerks, NEW v \in Revisions, NEW p \in Products, NEW n \in Amounts,
             AskCount(r, v, p, n)
      PROVE \A s \in Clerks : ClerkInv(s)'
  <2>1. n \in Int  BY RevisionsAssumption
  <2>2. CASE Ask(r, Request("add", v, p, n))
    BY <1>4, <1>8, <2>1, <2>2 DEF AskCount, Request, Requests
  <2>3. CASE Ask(r, Request("set", v, p, n))
    BY <1>4, <1>8, <2>1, <2>3 DEF AskCount, Request, Requests
  <2> QED  BY <1>8, <2>2, <2>3 DEF AskCount
\* A revision somebody completes is open, so its row is there already.
<1>9. ASSUME NEW r \in Clerks, Create(r) PROVE \A s \in Clerks : ClerkInv(s)'
  <2>1. ~Completing(r) /\ Answer(r)  BY <1>9 DEF Create, Completing
  <2>2. ClerkInv(r)' /\ \A s \in Clerks \ {r} : req'[s] = req[s]
    BY <1>0, <1>9, <2>1, Answered DEF Create, completion
  <2>3. ASSUME NEW s \in Clerks \ {r} PROVE ClerkInv(s)'
    <3>1. ~Completing(s)
      BY <1>9 DEF Create, HoldsRevision, Named, Completing
    <3>2. ~Completing(s)' /\ Named(s)' /\ replaced'[s] = replaced[s]
      BY <1>0, <1>9, <2>2, <3>1 DEF Create, completion, Completing, Named, ClerkInv
    <3> QED  BY <1>0, <3>1, <3>2, NoCompletion
  <2> QED  BY <2>2, <2>3
<1>10. ASSUME NEW r \in Clerks, Join(r) \/ RefuseCount(r) PROVE \A s \in Clerks : ClerkInv(s)'
  BY <1>5, <1>10 DEF Join, RefuseCount, Completing, completion
\* A load does not wait for a revision's lock unless it inserts a row.
<1>11. ASSUME NEW r \in Clerks, Preload(r) PROVE \A s \in Clerks : ClerkInv(s)'
  <2>1. req[r].rev \in Revisions /\ req[r].product \in Products  BY <1>11 DEF Preload, Named
  <2>2. ASSUME NEW v \in Revisions, revLock[v] \in Clerks PROVE found'[v] = found[v]
    <3>1. CASE v # req[r].rev  BY <1>11, <2>1, <3>1 DEF Preload, TypeOK
    <3>2. CASE v = req[r].rev
      <4>1. found[v][req[r].product] # NoRow
        BY <1>0, <1>11, <2>2, <3>2 DEF Preload
      <4>2. found'[v] = [found[v] EXCEPT ![req[r].product] = found[v][req[r].product]]
        BY <1>11, <2>1, <3>2, <4>1 DEF Preload, TypeOK
      <4> QED  BY <4>2, <2>1 DEF TypeOK
    <3> QED  BY <3>1, <3>2
  <2> QED  BY <1>5, <1>11, <2>2 DEF Preload, Completing, completion
<1>12. ASSUME NEW r \in Clerks, Count(r) PROVE \A s \in Clerks : ClerkInv(s)'
  <2>1. \A v \in Revisions : revLock[v] \in Clerks => found'[v] = found[v]
    BY <1>0, <1>12 DEF Count, Named, TypeOK
  <2> QED  BY <1>5, <1>12, <2>1 DEF Count, Completing, completion
<1>13. ASSUME NEW r \in Clerks, NEW v \in Revisions, StartCompletion(r, v)
       PROVE \A s \in Clerks : ClerkInv(s)'
  <2>1. /\ req[r] = Idle /\ req'[r] = Request("complete", v, NoOne, 0)
        /\ \A s \in Clerks \ {r} : req'[s] = req[s]
    BY <1>13 DEF StartCompletion, Ask, TypeOK
  <2>2. /\ revLock[v] = NoOne /\ revLock'[v] = r /\ counted'[r] = found[v]
        /\ \A w \in Revisions \ {v} : revLock'[w] = revLock[w]
        /\ \A s \in Clerks \ {r} : counted'[s] = counted[s]
    BY <1>13 DEF StartCompletion, TypeOK
  <2>3. /\ status' = status /\ found' = found /\ quantity' = quantity
        /\ rowLock' = rowLock /\ replaced' = replaced
    BY <1>13 DEF StartCompletion
  <2>4. ClerkInv(r)'
    <3>1. \A p \in Products : replaced[r][p] = NoRow
      BY <2>1 DEF HoldsProducts, Completing, Idle, Request
    <3>2. Named(r)' /\ HoldsProducts(r)'
      BY <2>1, <2>3, <3>1 DEF Named, HoldsProducts, Request
    <3>3. HoldsRevision(r)'
      BY <1>13, <2>1, <2>2, <2>3 DEF HoldsRevision, Request, StartCompletion
    <3> QED  BY <3>2, <3>3 DEF ClerkInv
  <2>5. \A s \in Clerks \ {r} : ClerkInv(s)'
    BY <1>0, <2>1, <2>2, <2>3, ClerkFrame
  <2> QED  BY <2>4, <2>5
<1>14. ASSUME NEW r \in Clerks, NEW p \in Products, Replace(r, p)
       PROVE \A s \in Clerks : ClerkInv(s)'
  <2>1. /\ rowLock[p] = NoOne /\ rowLock'[p] = r
        /\ \A o \in Products \ {p} : rowLock'[o] = rowLock[o]
        /\ replaced'[r][p] = quantity[p]
        /\ \A o \in Products \ {p} : replaced'[r][o] = replaced[r][o]
        /\ \A s \in Clerks \ {r} : replaced'[s] = replaced[s]
    BY <1>14 DEF Replace, TypeOK
  <2>2. /\ status' = status /\ found' = found /\ revLock' = revLock /\ quantity' = quantity
        /\ req' = req /\ counted' = counted
    BY <1>14 DEF Replace
  <2>3. ClerkInv(r)'
    <3>1. Named(r)' /\ HoldsRevision(r)'
      BY <2>2 DEF Named, HoldsRevision, Completing
    <3>2. HoldsProducts(r)'
      BY <1>14, <2>1, <2>2 DEF HoldsProducts, Completing, Replace, Pending
    <3> QED  BY <3>1, <3>2 DEF ClerkInv
  <2>4. \A s \in Clerks \ {r} : ClerkInv(s)'
    BY <1>0, <2>1, <2>2, ClerkFrame
  <2> QED  BY <2>3, <2>4
<1>15. ASSUME NEW r \in Clerks, CommitCompletion(r) PROVE \A s \in Clerks : ClerkInv(s)'
  <2>1. Completing(r) /\ EndCompletion(r) /\ found' = found
    BY <1>15 DEF CommitCompletion, Completing
  <2>2. \A v \in Revisions \ {req[r].rev} : status'[v] = status[v]
    BY <1>15 DEF CommitCompletion, TypeOK
  <2>3. ASSUME NEW p \in Products, rowLock[p] \in Clerks \ {r} PROVE quantity'[p] = quantity[p]
    <3>1. counted[r][p] = NoRow
      BY <1>15, <2>3 DEF CommitCompletion, Pending, HoldsProducts
    <3> QED  BY <1>15, <3>1 DEF CommitCompletion
  <2> QED  BY <2>1, <2>2, <2>3, CompletionEnds
<1>16. ASSUME NEW r \in Clerks, FailCompletion(r) PROVE \A s \in Clerks : ClerkInv(s)'
  BY <1>16, CompletionEnds DEF FailCompletion, Completing
<1>17. CASE UNCHANGED vars
  BY <1>0, <1>17, ClerkFrame DEF vars, completion
<1> QED
  BY <1>1, <1>2, <1>3, <1>6, <1>7, <1>8, <1>9, <1>10, <1>11, <1>12, <1>13, <1>14, <1>15,
     <1>16, <1>17
  DEF Next

-----------------------------------------------------------------------------
(* The theorems *)

\* What a step may do to the status of a revision.
Opens(v) ==
  /\ status[v] = "none" /\ status'[v] = "OPEN"
  /\ \A w \in Revisions : status[w] # "OPEN"
  /\ \A w \in Revisions \ {v} : status'[w] = status[w]

Closes(v) == status[v] = "OPEN" /\ status'[v] \in {"COMPLETED", "CANCELLED"}

LEMMA StatusStep ==
  ASSUME IInv, [Next]_vars, NEW v \in Revisions
  PROVE  status'[v] = status[v] \/ Opens(v) \/ Closes(v)
<1> USE DEF IInv
<1>1. CASE status' = status  BY <1>1
<1>2. ASSUME NEW w \in Revisions, CancelRevision(w)
      PROVE status'[v] = status[v] \/ Opens(v) \/ Closes(v)
  BY <1>2 DEF CancelRevision, Closes, TypeOK
<1>3. ASSUME NEW r \in Clerks, Create(r) PROVE status'[v] = status[v] \/ Opens(v) \/ Closes(v)
  BY <1>3 DEF Create, Opens, TypeOK
<1>4. ASSUME NEW r \in Clerks, CommitCompletion(r)
      PROVE status'[v] = status[v] \/ Opens(v) \/ Closes(v)
  BY <1>4 DEF CommitCompletion, Closes, TypeOK, HoldsRevision, Named, Completing
<1> QED
  BY <1>1, <1>2, <1>3, <1>4
  DEF Next, Move, Remove, AskStart, Join, Preload, Count, RefuseCount, FailCompletion,
      Replace, StartCompletion, AskPreload, AskCount, vars

LEMMA NextIInv == IInv /\ [Next]_vars => IInv'
<1> SUFFICES ASSUME IInv, [Next]_vars PROVE IInv'  OBVIOUS
<1>1. TypeOK'  BY NextTypeOK
<1>2. \A s \in Clerks : ClerkInv(s)'  BY NextClerkInv
<1>3. OneOpenRevision'
  <2> SUFFICES ASSUME NEW v \in Revisions, NEW w \in Revisions,
                      status'[v] = "OPEN", status'[w] = "OPEN"
               PROVE  v = w
    BY DEF OneOpenRevision
  <2>1. status'[v] = status[v] \/ Opens(v)  BY StatusStep DEF Closes
  <2>2. status'[w] = status[w] \/ Opens(w)  BY StatusStep DEF Closes
  <2> QED  BY <2>1, <2>2 DEF IInv, OneOpenRevision, Opens
<1> QED  BY <1>1, <1>2, <1>3 DEF IInv, ClerkInv

LEMMA Invariance == Spec => []IInv
  BY InitIInv, NextIInv, PTL DEF Spec

\* The variables keep their types, whatever clerks type and in whatever order
\* their requests are carried out: no count is ever negative.
THEOREM TypeCorrect == Spec => []TypeOK
<1>1. IInv => TypeOK  BY DEF IInv
<1> QED  BY <1>1, Invariance, PTL

\* Two revisions are never open at once.
THEOREM OneIsOpen == Spec => []OneOpenRevision
<1>1. IInv => OneOpenRevision  BY DEF IInv
<1> QED  BY <1>1, Invariance, PTL

\* What a step does to the rows of a revision that is not open before it.
LEMMA ClosedStep ==
  ASSUME IInv, [Next]_vars, NEW v \in Revisions, status[v] # "OPEN"
  PROVE  /\ before'[v] = before[v]
         /\ \A p \in Products :
              \/ found'[v][p] = found[v][p]
              \/ found[v][p] = NoRow /\ found'[v][p] = 0
<1> USE DEF IInv
<1>1. CASE found' = found /\ before' = before  BY <1>1
<1>2. ASSUME NEW w \in Revisions, NEW p \in Products, Remove(w, p)
      PROVE  found'[v] = found[v] /\ before'[v] = before[v]
  BY <1>2 DEF Remove, TypeOK
<1>3. ASSUME NEW r \in Clerks, Preload(r)
      PROVE  /\ before'[v] = before[v]
             /\ \A p \in Products :
                  \/ found'[v][p] = found[v][p]
                  \/ found[v][p] = NoRow /\ found'[v][p] = 0
  BY <1>3 DEF Preload, Named, TypeOK
<1>4. ASSUME NEW r \in Clerks, Count(r) PROVE found'[v] = found[v] /\ before'[v] = before[v]
  BY <1>4 DEF Count, Named, TypeOK
<1>5. ASSUME NEW r \in Clerks, CommitCompletion(r)
      PROVE  found'[v] = found[v] /\ before'[v] = before[v]
  BY <1>5 DEF CommitCompletion, HoldsRevision, Completing, TypeOK
<1> QED
  BY <1>1, <1>2, <1>3, <1>4, <1>5
  DEF Next, Move, CancelRevision, AskStart, Create, Join, RefuseCount, FailCompletion,
      Replace, StartCompletion, AskPreload, AskCount, vars

\* A count a clerk was told has been taken is either applied with the revision
\* it was made in or belongs to a revision that is not completed.
THEOREM AcceptedCountsReachStock == Spec => []CountsReachStock
<1>1. Init => CountsReachStock  BY DEF Init, CountsReachStock
<1>2. IInv /\ CountsReachStock /\ [Next]_vars => CountsReachStock'
  <2> SUFFICES ASSUME IInv, CountsReachStock, [Next]_vars,
                      NEW v \in Revisions, NEW p \in Products,
                      status'[v] = "COMPLETED", found'[v][p] \notin {NoRow, 0}
               PROVE  before'[v][p] # NoRow
    BY DEF CountsReachStock
  <2>1. CASE status[v] # "OPEN"
    <3>1. status[v] = "COMPLETED"  BY <2>1, StatusStep DEF Opens, Closes
    <3>2. before'[v] = before[v] /\ found'[v][p] = found[v][p]  BY <2>1, ClosedStep
    <3> QED  BY <3>1, <3>2 DEF CountsReachStock
  <2>2. CASE status[v] = "OPEN"
    <3>1. PICK r \in Clerks : CommitCompletion(r)
      BY <2>2 DEF Next, Move, CancelRevision, Remove, AskStart, Create, Join, Preload, Count,
         RefuseCount, FailCompletion, Replace, StartCompletion, AskPreload, AskCount, vars,
         IInv, TypeOK
    <3>2. v = req[r].rev
      BY <2>2, <3>1 DEF CommitCompletion, IInv, TypeOK, Named
    <3>3. counted[r][p] = found[v][p] /\ found' = found
      BY <3>1, <3>2 DEF CommitCompletion, IInv, HoldsRevision, Completing
    <3>4. replaced[r][p] # NoRow
      BY <3>1, <3>3 DEF CommitCompletion, Pending
    <3>5. before'[v] = replaced[r]
      BY <3>1, <3>2 DEF CommitCompletion, IInv, TypeOK
    <3> QED  BY <3>4, <3>5
  <2> QED  BY <2>1, <2>2
<1> QED  BY <1>1, <1>2, Invariance, PTL DEF Spec

\* A closed revision keeps its status, its counts and what completing it
\* replaced, whatever requests were under way when it was closed.
THEOREM ClosedRevisionsStay == Spec => ClosedStaysClosed
<1>1. IInv /\ [Next]_vars =>
        [\A v \in Revisions : status[v] \in {"COMPLETED", "CANCELLED"} =>
           /\ status'[v] = status[v]
           /\ \A p \in Rows(v) : found'[v][p] = found[v][p]
           /\ before'[v] = before[v]]_vars
  <2> SUFFICES ASSUME IInv, [Next]_vars, NEW v \in Revisions,
                      status[v] \in {"COMPLETED", "CANCELLED"}
               PROVE  /\ status'[v] = status[v]
                      /\ \A p \in Rows(v) : found'[v][p] = found[v][p]
                      /\ before'[v] = before[v]
    OBVIOUS
  <2>1. status'[v] = status[v]  BY StatusStep DEF Opens, Closes
  <2> QED  BY <2>1, ClosedStep DEF Rows
<1> QED  BY <1>1, Invariance, PTL DEF Spec, ClosedStaysClosed

\* Stock changes by documents, or by a completion that has recorded the quantity
\* it replaced: no sale that commits while a revision is being completed is lost.
THEOREM StockChangesRecorded == Spec => ChangesAreRecorded
<1>1. IInv /\ [Next]_vars =>
        [\A p \in Products : quantity'[p] # quantity[p] =>
           \/ quantity'[p] - quantity[p] = moved'[p] - moved[p]
           \/ \E v \in Revisions :
                /\ status[v] = "OPEN" /\ status'[v] = "COMPLETED"
                /\ before'[v][p] = quantity[p]
                /\ quantity'[p] = found'[v][p]]_vars
  <2> SUFFICES ASSUME IInv, [Next]_vars, NEW p \in Products, quantity'[p] # quantity[p]
               PROVE  \/ quantity'[p] - quantity[p] = moved'[p] - moved[p]
                      \/ \E v \in Revisions :
                           /\ status[v] = "OPEN" /\ status'[v] = "COMPLETED"
                           /\ before'[v][p] = quantity[p]
                           /\ quantity'[p] = found'[v][p]
    OBVIOUS
  <2>1. ASSUME NEW o \in Products, NEW n \in {-1, 1}, Move(o, n)
        PROVE  quantity'[p] - quantity[p] = moved'[p] - moved[p]
    BY <2>1 DEF Move, IInv, TypeOK
  <2>2. ASSUME NEW r \in Clerks, CommitCompletion(r)
        PROVE  \E v \in Revisions :
                 /\ status[v] = "OPEN" /\ status'[v] = "COMPLETED"
                 /\ before'[v][p] = quantity[p]
                 /\ quantity'[p] = found'[v][p]
    <3> DEFINE v == req[r].rev
    <3>1. v \in Revisions /\ status[v] = "OPEN" /\ counted[r][p] = found[v][p]
      BY <2>2 DEF CommitCompletion, IInv, Named, HoldsRevision, Completing
    <3>2. counted[r][p] # NoRow /\ quantity'[p] = counted[r][p]
      BY <2>2 DEF CommitCompletion
    <3>3. replaced[r][p] = quantity[p]
      BY <2>2, <3>2 DEF CommitCompletion, Pending, IInv, HoldsProducts
    <3>4. status'[v] = "COMPLETED" /\ before'[v] = replaced[r] /\ found' = found
      BY <2>2, <3>1 DEF CommitCompletion, IInv, TypeOK
    <3> QED  BY <3>1, <3>2, <3>3, <3>4
  <2>3. CASE quantity' = quantity  BY <2>3
  <2> QED
    BY <2>1, <2>2, <2>3
    DEF Next, CancelRevision, Remove, AskStart, Create, Join, Preload, Count,
        RefuseCount, FailCompletion, Replace, StartCompletion, AskPreload, AskCount, vars
<1> QED  BY <1>1, Invariance, PTL DEF Spec, ChangesAreRecorded

-----------------------------------------------------------------------------
(* What the completions add up to *)

Completed(p) == {v \in Revisions : before[v][p] # NoRow}

\* What the completed revisions changed the stock of p by, as they recorded it.
Corrections(p) == SumFunction([v \in Completed(p) |-> found[v][p] - before[v][p]])

\* A row that was applied is a row of a completed revision, and still there.
AppliedInv ==
  \A v \in Revisions, p \in Products :
    before[v][p] # NoRow => status[v] = "COMPLETED" /\ found[v][p] \in Nat

HistoryInv == AppliedInv /\ StockMatchesHistory

LEMMA CompletedFinite == \A p : Completed(p) \subseteq Revisions /\ IsFiniteSet(Completed(p))
<1>1. \A p : Completed(p) \subseteq Revisions  BY DEF Completed
<1> QED  BY <1>1, RevisionsAssumption, FS_Subset

LEMMA CorrectionsIsInt ==
  ASSUME TypeOK, AppliedInv, NEW p \in Products
  PROVE  Corrections(p) \in Int
<1> DEFINE f == [v \in Completed(p) |-> found[v][p] - before[v][p]]
<1>1. \A v \in Completed(p) : f[v] \in Int  BY DEF Completed, TypeOK, AppliedInv
<1>2. Corrections(p) = SumFunctionOnSet(f, Completed(p))  BY DEF Corrections, SumFunction
<1> HIDE DEF f
<1> QED  BY <1>1, <1>2, CompletedFinite, SumOnSplit

\* A step in which p is not among the products of a revision being completed.
LEMMA CorrectionsStay ==
  ASSUME NEW p, Completed(p)' = Completed(p),
         \A v \in Completed(p) : found'[v][p] = found[v][p] /\ before'[v][p] = before[v][p]
  PROVE  Corrections(p)' = Corrections(p)
<1>1. [v \in Completed(p) |-> found'[v][p] - before'[v][p]]
        = [v \in Completed(p) |-> found[v][p] - before[v][p]]
  OBVIOUS
<1> QED  BY <1>1 DEF Corrections

\* Completing v applies its row of p.
LEMMA CorrectionsGrow ==
  ASSUME TypeOK, AppliedInv, NEW p \in Products, NEW v \in Revisions,
         v \notin Completed(p), Completed(p)' = Completed(p) \cup {v},
         found' = found, \A w \in Revisions \ {v} : before'[w] = before[w],
         found[v][p] \in Int, before'[v][p] \in Int
  PROVE  Corrections(p)' = Corrections(p) + found[v][p] - before'[v][p]
<1> DEFINE C == Completed(p)
           D == C \cup {v}
           f == [w \in C |-> found[w][p] - before[w][p]]
           g == [w \in D |-> found[w][p] - before'[w][p]]
<1>1. \A w \in C : f[w] \in Int  BY DEF Completed, TypeOK, AppliedInv
<1>2. \A w \in C : f[w] = g[w]  BY CompletedFinite
<1>3. g[v] = found[v][p] - before'[v][p]  OBVIOUS
<1>4. IsFiniteSet(C) /\ IsFiniteSet(D) /\ D \ {v} = C /\ v \in D
  BY CompletedFinite, FS_AddElement
<1>5. \A w \in D : g[w] \in Int  BY <1>1, <1>2, <1>3
<1>6. Corrections(p) = SumFunctionOnSet(f, C)  BY DEF Corrections, SumFunction
<1>7. Corrections(p)' = SumFunctionOnSet(g, D)  BY DEF Corrections, SumFunction
<1> HIDE DEF f, g, C, D
<1>8. SumFunctionOnSet(g, D) = g[v] + SumFunctionOnSet(g, C)  BY <1>4, <1>5, SumOnSplit
<1>9. SumFunctionOnSet(f, C) = SumFunctionOnSet(g, C)  BY <1>2, <1>4, SumOnSame
<1>10. SumFunctionOnSet(f, C) \in Int  BY <1>1, <1>4, SumOnSplit
<1> QED  BY <1>3, <1>6, <1>7, <1>8, <1>9, <1>10

LEMMA InitHistory == Init => HistoryInv
<1> SUFFICES ASSUME Init PROVE HistoryInv  OBVIOUS
<1>1. AppliedInv  BY DEF Init, AppliedInv, NoRows
<1>2. ASSUME NEW p \in Products PROVE quantity[p] = Opening[p] + moved[p] + Corrections(p)
  <2> DEFINE f == [v \in Completed(p) |-> found[v][p] - before[v][p]]
  <2>1. Completed(p) = {}  BY DEF Init, Completed, NoRows
  <2>2. Corrections(p) = SumFunctionOnSet(f, Completed(p))  BY DEF Corrections, SumFunction
  <2> HIDE DEF f
  <2>3. Corrections(p) = 0  BY <2>1, <2>2, CompletedFinite, SumOnZeros
  <2> QED  BY <2>3, RevisionsAssumption DEF Init
<1> QED  BY <1>1, <1>2 DEF HistoryInv, StockMatchesHistory, Corrections, Completed

\* Every step but a completion's last one.
LEMMA OtherHistory ==
  ASSUME IInv, HistoryInv, [Next]_vars, before' = before,
         \A p \in Products : quantity'[p] - quantity[p] = moved'[p] - moved[p], TypeOK'
  PROVE  HistoryInv'
<1> USE DEF HistoryInv
<1>1. \A v \in Revisions, p \in Products : v \in Completed(p) =>
        status'[v] = "COMPLETED" /\ found'[v][p] = found[v][p]
  <2> TAKE v \in Revisions, p \in Products
  <2> HAVE v \in Completed(p)
  <2>1. status[v] = "COMPLETED" /\ found[v][p] \in Nat  BY DEF Completed, AppliedInv
  <2>2. status'[v] = "COMPLETED"  BY <2>1, StatusStep DEF Opens, Closes
  <2>3. found'[v][p] = found[v][p]  BY <2>1, ClosedStep, RevisionsAssumption
  <2> QED  BY <2>2, <2>3
<1>2. \A p : Completed(p)' = Completed(p)  BY DEF Completed
<1>3. AppliedInv'  BY <1>1 DEF AppliedInv, Completed
<1>4. ASSUME NEW p \in Products
      PROVE  quantity'[p] = Opening[p] + moved'[p] + Corrections(p)'
  <2>1. Corrections(p)' = Corrections(p)
    BY <1>1, <1>2, CompletedFinite, CorrectionsStay
  <2>2. quantity[p] = Opening[p] + moved[p] + Corrections(p)
    BY DEF StockMatchesHistory, Corrections, Completed
  <2>3. Corrections(p) \in Int  BY CorrectionsIsInt DEF IInv
  <2>4. /\ quantity[p] \in Int /\ moved[p] \in Int /\ Opening[p] \in Int
        /\ quantity'[p] \in Int /\ moved'[p] \in Int
    BY RevisionsAssumption DEF IInv, TypeOK
  <2>5. quantity'[p] = quantity[p] + moved'[p] - moved[p]
    BY <2>4
  <2> QED  BY <2>1, <2>2, <2>3, <2>4, <2>5
<1>5. StockMatchesHistory'  BY <1>4, Zenon DEF StockMatchesHistory, Corrections, Completed
<1> QED  BY <1>3, <1>5

\* The completion's last step sets what was found and records what it replaced.
LEMMA CommitHistory ==
  ASSUME IInv, HistoryInv, [Next]_vars, NEW r \in Clerks, CommitCompletion(r), TypeOK'
  PROVE  HistoryInv'
<1> USE DEF HistoryInv
<1> DEFINE v == req[r].rev
<1>1. /\ v \in Revisions /\ status[v] = "OPEN"
      /\ \A p \in Products : counted[r][p] = found[v][p]
  BY DEF CommitCompletion, IInv, Named, HoldsRevision, Completing
<1>2. /\ found' = found /\ moved' = moved
      /\ before'[v] = replaced[r] /\ status'[v] = "COMPLETED"
      /\ \A w \in Revisions \ {v} : before'[w] = before[w] /\ status'[w] = status[w]
  BY <1>1 DEF CommitCompletion, IInv, TypeOK
<1> HIDE DEF v
<1>3. \A p \in Products : before[v][p] = NoRow  BY <1>1 DEF AppliedInv
<1>4. \A p \in Products : replaced[r][p] # NoRow <=> found[v][p] # NoRow
  BY <1>1 DEF CommitCompletion, Pending, IInv, HoldsProducts
<1>5. \A p \in Products : found[v][p] # NoRow =>
        found[v][p] \in Nat /\ quantity'[p] = found[v][p] /\ replaced[r][p] = quantity[p]
  BY <1>1, <1>4 DEF CommitCompletion, IInv, HoldsProducts, TypeOK, Counts
<1>6. AppliedInv'  BY <1>1, <1>2, <1>4, <1>5 DEF AppliedInv
<1>7. ASSUME NEW p \in Products
      PROVE  quantity'[p] = Opening[p] + moved'[p] + Corrections(p)'
  <2>1. quantity[p] = Opening[p] + moved[p] + Corrections(p)
    BY DEF StockMatchesHistory, Corrections, Completed
  <2>2. Corrections(p) \in Int  BY CorrectionsIsInt DEF IInv
  <2>3. quantity[p] \in Int /\ moved[p] \in Int /\ Opening[p] \in Int
    BY RevisionsAssumption DEF IInv, TypeOK
  <2>4. CASE found[v][p] = NoRow
    <3>1. quantity'[p] = quantity[p]  BY <1>1, <2>4 DEF CommitCompletion
    <3>2. \A w \in Revisions : before'[w][p] = before[w][p]
      BY <1>2, <1>3, <1>4, <2>4
    <3>3. Completed(p)' = Completed(p)  BY <3>2 DEF Completed
    <3>4. Corrections(p)' = Corrections(p)
      BY <1>2, <3>2, <3>3, CompletedFinite, CorrectionsStay
    <3> QED  BY <1>2, <2>1, <3>1, <3>4
  <2>5. CASE found[v][p] # NoRow
    <3>1. v \notin Completed(p)  BY <1>3 DEF Completed
    <3>2. Completed(p)' = Completed(p) \cup {v}
      BY <1>1, <1>2, <1>4, <2>5 DEF Completed
    <3>3. before'[v][p] = quantity[p] /\ found[v][p] \in Int /\ quantity'[p] = found[v][p]
      BY <1>2, <1>5, <2>5
    <3>4. Corrections(p)' = Corrections(p) + found[v][p] - before'[v][p]
      BY <1>1, <1>2, <2>3, <3>1, <3>2, <3>3, CorrectionsGrow DEF IInv
    <3> QED  BY <1>2, <2>1, <2>2, <2>3, <3>3, <3>4
  <2> QED  BY <2>4, <2>5
<1>8. StockMatchesHistory'  BY <1>7, Zenon DEF StockMatchesHistory, Corrections, Completed
<1> QED  BY <1>6, <1>8

LEMMA NextHistory == IInv /\ IInv' /\ HistoryInv /\ [Next]_vars => HistoryInv'
<1> SUFFICES ASSUME IInv, IInv', HistoryInv, [Next]_vars PROVE HistoryInv'  OBVIOUS
<1>1. TypeOK'  BY DEF IInv
<1>2. ASSUME NEW r \in Clerks, CommitCompletion(r) PROVE HistoryInv'
  BY <1>1, <1>2, CommitHistory
<1>3. ASSUME NEW o \in Products, NEW n \in {-1, 1}, Move(o, n) PROVE HistoryInv'
  <2>1. \A p \in Products : quantity'[p] - quantity[p] = moved'[p] - moved[p]
    BY <1>3 DEF Move, IInv, TypeOK
  <2> QED  BY <1>1, <1>3, <2>1, OtherHistory DEF Move
<1>4. ASSUME quantity' = quantity, moved' = moved, before' = before PROVE HistoryInv'
  <2>1. \A p \in Products : quantity'[p] - quantity[p] = moved'[p] - moved[p]
    BY <1>4 DEF IInv, TypeOK
  <2> QED  BY <1>1, <1>4, <2>1, OtherHistory
<1> QED
  BY <1>2, <1>3, <1>4
  DEF Next, CancelRevision, Remove, AskStart, Create, Join, Preload, Count, RefuseCount,
      FailCompletion, Replace, StartCompletion, AskPreload, AskCount, vars

\* Whatever is counted, sold and completed at once, stock is the opening stock,
\* what documents moved and the corrections the completed revisions recorded:
\* undoing these from today's stock gives the stock of an earlier day.
THEOREM StockIsItsHistory == Spec => []StockMatchesHistory
<1>1. Spec => []HistoryInv  BY InitHistory, NextHistory, Invariance, PTL DEF Spec
<1>2. HistoryInv => StockMatchesHistory  BY DEF HistoryInv
<1> QED  BY <1>1, <1>2, PTL
=============================================================================
