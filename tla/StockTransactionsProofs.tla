---------------------- MODULE StockTransactionsProofs ----------------------
(***************************************************************************)
(* Proofs, for every set of products, recipes, documents and requests,     *)
(* that the transactions of StockTransactions keep their types, lose no    *)
(* update, leave no row locked, implement StockLedger, and leave stock     *)
(* at what the lines of the committed documents add up to.                 *)
(***************************************************************************)
EXTENDS StockTransactions, SumTheorems, TLAPS

-----------------------------------------------------------------------------
(* The inductive invariant *)

\* r holds the row of p and its instance of p has the row's newest value.
Fresh(r, p) == holder[p] = r /\ inMemory[r][p] = newest[p]

\* What each phase knows of the rows its line will change.
LineInv(r) ==
  /\ pc[r] = "product" => want[r] = CurrentLine(r).item
  /\ pc[r] = "ingredients" =>
       \A p \in CurrentTargets(r) \ (todo[r] \cup {want[r]}) : Fresh(r, p)
  /\ pc[r] = "adjust" => \A p \in CurrentTargets(r) : Fresh(r, p)
  /\ pc[r] = "insert" => \A p \in CurrentTargets(r) : holder[p] = r

\* A request that has not committed has recorded movements only of rows it holds.
RecordedInv ==
  \A r \in Requests, p \in Products :
    pc[r] # "committed" /\ holder[p] # r => rows[r][p] = 0

IInv ==
  /\ TypeOK
  /\ NoOrphanLock
  /\ NoLostUpdate
  /\ RecordedInv
  /\ \A r \in Requests : LineInv(r)

-----------------------------------------------------------------------------
(* Documents and lines *)

\* The line a request is at is a line, of a known kind of document.
LEMMA CurrentLineType ==
  ASSUME TypeOK, NEW r \in Requests
  PROVE  /\ CurrentLine(r) \in Lines
         /\ CurrentLine(r).item \in Products
         /\ doc[r].kind \in Kinds
         /\ doc[r].lines[1].item \in Products
         /\ Len(doc[r].lines) \in Nat
<1>1. doc[r] \in Documents  BY DEF TypeOK
<1>2. doc[r].lines \in Seq(Lines) /\ Len(doc[r].lines) > 0 /\ doc[r].kind \in Kinds
  BY <1>1, DocumentAssumption
<1>3. lineNo[r] \in 1..Len(doc[r].lines)
  BY <1>2 DEF TypeOK
<1>4. doc[r].lines[lineNo[r]] \in Lines /\ doc[r].lines[1] \in Lines
  BY <1>2, <1>3
<1> QED  BY <1>2, <1>4 DEF CurrentLine, Lines

\* A line moves a whole number of units of every product, and none of a product
\* that is not among the rows it changes.
LEMMA ChangeType ==
  ASSUME NEW kind \in Kinds, NEW line \in Lines, NEW p \in Products
  PROVE  /\ Change(kind, line, p) \in Int
         /\ p \notin Targets(kind, line.item) => Change(kind, line, p) = 0
<1>1. line.item \in Products /\ line.amount \in Int  BY DEF Lines
<1>2. Sign(kind) \in Int  BY DEF Sign
<1>3. UnitsOf(kind, line.item, p) \in Int
  BY <1>1, RecipeAssumption DEF UnitsOf, UsesRecipe
<1>4. p \notin Targets(kind, line.item) => UnitsOf(kind, line.item, p) = 0
  BY <1>1, RecipeAssumption DEF UnitsOf, UsesRecipe, Targets
<1>5. Sign(kind) * line.amount \in Int  BY <1>1, <1>2
<1> QED  BY <1>3, <1>4, <1>5 DEF Change

\* The same for the line a request is at.
LEMMA CurrentChange ==
  ASSUME TypeOK, NEW r \in Requests
  PROVE  /\ CurrentTargets(r) \subseteq Products
         /\ \A p \in Products :
              /\ Change(doc[r].kind, CurrentLine(r), p) \in Int
              /\ p \notin CurrentTargets(r) => Change(doc[r].kind, CurrentLine(r), p) = 0
              /\ Unrecorded(r, p) \in Int
  BY CurrentLineType, ChangeType DEF CurrentTargets, Targets, Unrecorded

-----------------------------------------------------------------------------
(* Type correctness *)

LEMMA InitTypeOK == Init => TypeOK
<1> SUFFICES ASSUME Init PROVE TypeOK  OBVIOUS
<1>1. \A r \in Requests : doc[r] \in Documents  BY DEF Init
<1>2. \A r \in Requests : doc[r].lines \in Seq(Lines) /\ Len(doc[r].lines) > 0
  BY <1>1, DocumentAssumption
<1>3. \A r \in Requests : doc[r].lines[1] \in Lines  BY <1>2
<1>4. want \in [Requests -> Products]  BY <1>3 DEF Init, Lines
<1>5. lineNo \in [Requests -> Nat \ {0}] /\ \A r \in Requests : lineNo[r] <= Len(doc[r].lines)
  BY <1>2 DEF Init
<1> QED  BY <1>4, <1>5, OpeningAssumption DEF Init, TypeOK, Phases, Nothing

\* A rollback keeps the types, whatever made it happen.
LEMMA RollbackTypeOK ==
  ASSUME TypeOK, NEW r \in Requests, Rollback(r)
  PROVE  TypeOK'
  BY DEF TypeOK, Rollback, Unlock, Nothing, Phases

LEMMA NextTypeOK == TypeOK /\ [Next]_vars => TypeOK'
<1> SUFFICES ASSUME TypeOK, [Next]_vars PROVE TypeOK'  OBVIOUS
<1>1. ASSUME NEW r \in Requests, Submit(r) PROVE TypeOK'
  <2>1. doc[r].lines[1].item \in Products /\ 1 <= Len(doc[r].lines)
    BY CurrentLineType, DocumentAssumption DEF TypeOK
  <2>2. lineNo' \in [Requests -> Nat \ {0}] /\ want' \in [Requests -> Products] /\ doc' = doc
    BY <1>1, <2>1 DEF TypeOK, Submit
  <2>3. \A s \in Requests : lineNo'[s] <= Len(doc[s].lines)
    BY <1>1, <2>1 DEF TypeOK, Submit
  <2> QED  BY <1>1, <2>2, <2>3 DEF TypeOK, Submit, Phases
<1>2. ASSUME NEW r \in Requests, LockProduct(r) PROVE TypeOK'
  BY <1>2 DEF TypeOK, LockProduct, TakeLock, Phases
<1>3. ASSUME NEW r \in Requests, LockRecipe(r) PROVE TypeOK'
  BY <1>3, CurrentChange DEF TypeOK, LockRecipe, TakeLock, Phases
<1>4. ASSUME NEW r \in Requests, LockNextIngredient(r) PROVE TypeOK'
  BY <1>4 DEF TypeOK, LockNextIngredient, TakeLock, Phases
<1>5. ASSUME NEW r \in Requests, LockLastIngredient(r) PROVE TypeOK'
  BY <1>5 DEF TypeOK, LockLastIngredient, TakeLock, Phases
<1>6. ASSUME NEW r \in Requests, AdjustStock(r) PROVE TypeOK'
  <2>1. newest' \in [Products -> Int]
    BY <1>6, CurrentChange DEF TypeOK, AdjustStock
  <2> QED  BY <1>6, <2>1 DEF TypeOK, AdjustStock, Phases
<1>7. ASSUME NEW r \in Requests, InsertLine(r) PROVE TypeOK'
  <2>1. rows' \in [Requests -> [Products -> Int]]
    BY <1>7, CurrentChange DEF TypeOK, InsertLine
  <2>2. CASE lineNo[r] < Len(doc[r].lines)
    <3>1. doc[r].lines[lineNo[r] + 1].item \in Products
      <4>1. doc[r].lines \in Seq(Lines)  BY DocumentAssumption DEF TypeOK
      <4>2. lineNo[r] + 1 \in 1..Len(doc[r].lines)  BY <2>2, <4>1 DEF TypeOK
      <4>3. doc[r].lines[lineNo[r] + 1] \in Lines  BY <4>1, <4>2
      <4> QED  BY <4>3 DEF Lines
    <3>2. lineNo[r] + 1 \in Nat \ {0} /\ lineNo[r] + 1 <= Len(doc[r].lines)
      BY <2>2, CurrentLineType DEF TypeOK
    <3>3. lineNo' \in [Requests -> Nat \ {0}] /\ want' \in [Requests -> Products] /\ doc' = doc
      BY <1>7, <2>2, <3>1, <3>2 DEF TypeOK, InsertLine
    <3>4. \A s \in Requests : lineNo'[s] <= Len(doc[s].lines)
      BY <1>7, <2>2, <3>2 DEF TypeOK, InsertLine
    <3> QED  BY <1>7, <2>1, <2>2, <3>3, <3>4 DEF TypeOK, InsertLine, Phases
  <2>3. CASE ~(lineNo[r] < Len(doc[r].lines))
    BY <1>7, <2>1, <2>3 DEF TypeOK, InsertLine, Phases
  <2> QED  BY <2>2, <2>3
<1>8. ASSUME NEW r \in Requests, Commit(r) PROVE TypeOK'
  BY <1>8 DEF TypeOK, Commit, Unlock, Phases
<1>9. ASSUME NEW r \in Requests, Rollback(r) PROVE TypeOK'
  BY <1>9, RollbackTypeOK
<1>10. CASE UNCHANGED vars
  BY <1>10 DEF TypeOK, vars
<1> QED
  BY <1>1, <1>2, <1>3, <1>4, <1>5, <1>6, <1>7, <1>8, <1>9, <1>10
  DEF Next, Step, Fail, AbortVictim, AllCommitted

\* TypeOK holds in every reachable state, for every choice of the constants.
THEOREM TypeCorrect == Spec => []TypeOK
  BY InitTypeOK, NextTypeOK, PTL DEF Spec

-----------------------------------------------------------------------------
(* The inductive invariant is preserved *)

LEMMA InitIInv == Init => IInv
<1> SUFFICES ASSUME Init PROVE IInv  OBVIOUS
<1>1. TypeOK  BY InitTypeOK
<1>2. NoOrphanLock /\ RecordedInv
  BY RequestAssumption DEF Init, NoOrphanLock, RecordedInv, Nothing
<1>3. NoLostUpdate  BY RequestAssumption DEF Init, NoLostUpdate
<1>4. ASSUME NEW r \in Requests PROVE LineInv(r)
  BY DEF Init, LineInv
<1> QED  BY <1>1, <1>2, <1>3, <1>4 DEF IInv

\* A step of r cannot disturb what another request knows of the rows it holds.
LEMMA LineInvFrame ==
  ASSUME NEW s \in Requests, LineInv(s), TypeOK,
         doc' = doc, pc'[s] = pc[s], lineNo'[s] = lineNo[s], want'[s] = want[s],
         todo'[s] = todo[s], inMemory'[s] = inMemory[s],
         \A p \in Products : holder[p] = s => holder'[p] = s /\ newest'[p] = newest[p]
  PROVE  LineInv(s)'
<1>1. CurrentTargets(s)' = CurrentTargets(s) /\ CurrentLine(s)' = CurrentLine(s)
  BY DEF CurrentTargets, CurrentLine
<1>2. CurrentTargets(s) \subseteq Products  BY CurrentChange
<1> QED  BY <1>1, <1>2 DEF LineInv, Fresh

LEMMA SubmitIInv ==
  ASSUME IInv, NEW r \in Requests, Submit(r), TypeOK'
  PROVE  IInv'
<1> USE DEF IInv
<1>1. NoOrphanLock'
  BY DEF NoOrphanLock, Submit, Running, TypeOK
<1>2. \A p \in Products : holder[p] # r
  BY RequestAssumption DEF NoOrphanLock, Submit, Running
<1>3. NoLostUpdate'
  <2>1. \A p \in Products, s \in Requests : s # r => Unrecorded(s, p)' = Unrecorded(s, p)
    BY DEF Submit, TypeOK, Unrecorded, CurrentLine
  <2> QED  BY <1>2, <2>1 DEF NoLostUpdate, Submit
<1>4. RecordedInv'
  BY <1>2 DEF RecordedInv, Submit, TypeOK
<1>5. ASSUME NEW s \in Requests PROVE LineInv(s)'
  <2>1. CASE s = r
    BY <2>1 DEF Submit, TypeOK, LineInv, CurrentLine
  <2>2. CASE s # r
    BY <2>2, LineInvFrame DEF Submit, TypeOK
  <2> QED  BY <2>1, <2>2
<1> QED  BY <1>1, <1>3, <1>4, <1>5

\* Taking a lock hands over a row nobody has an uncommitted version of, or one
\* the request had already; r knows its newest value afterwards.
LEMMA TakeLockIInv ==
  ASSUME IInv, NEW r \in Requests, TakeLock(r), Locking(r), pc' \in [Requests -> Phases],
         pc'[r] \in {"ingredients", "adjust"},
         \A s \in Requests \ {r} : pc'[s] = pc[s] /\ want'[s] = want[s] /\ todo'[s] = todo[s]
  PROVE  /\ NoOrphanLock'
         /\ NoLostUpdate'
         /\ RecordedInv'
         /\ \A s \in Requests \ {r} : LineInv(s)'
         /\ \A p \in Products : p = want[r] \/ Fresh(r, p) => Fresh(r, p)'
         /\ CurrentTargets(r)' = CurrentTargets(r)
<1> USE DEF IInv
<1>0. /\ \A p \in Products : holder'[p] = IF p = want[r] THEN r ELSE holder[p]
      /\ \A p \in Products : inMemory'[r][p] = IF p = want[r] THEN newest[p] ELSE inMemory[r][p]
      /\ newest' = newest /\ quantity' = quantity /\ rows' = rows /\ doc' = doc
      /\ holder[want[r]] \in {NoRequest, r} /\ want[r] \in Products /\ r # NoRequest
  BY RequestAssumption DEF TakeLock, Lockable, TypeOK
<1>1. NoOrphanLock'
  <2> SUFFICES ASSUME NEW p \in Products, NEW s \in Requests, holder'[p] = s
               PROVE  Running(s)'
    BY DEF NoOrphanLock
  <2>1. CASE s = r  BY <2>1 DEF Running
  <2>2. CASE s # r
    <3>1. Running(s)  BY <2>2, <1>0 DEF NoOrphanLock
    <3> QED  BY <2>2, <3>1 DEF Running
  <2> QED  BY <2>1, <2>2
<1>2. \A p \in Products, s \in Requests : s # r => Unrecorded(s, p)' = Unrecorded(s, p)
  BY DEF TakeLock, Unrecorded, CurrentLine
<1>3. \A p \in Products : Unrecorded(r, p)' = 0 /\ Unrecorded(r, p) = 0
  BY DEF Unrecorded, Locking
<1>4. NoLostUpdate'
  <2>1. \A p \in Products : holder'[p] = NoRequest => newest'[p] = quantity'[p]
    BY <1>0 DEF NoLostUpdate
  <2>2. ASSUME NEW p \in Products, NEW s \in Requests, holder'[p] = s
        PROVE  newest[p] = quantity[p] + rows[s][p] + Unrecorded(s, p)'
    <3>1. CASE holder[p] = s
      BY <3>1, <1>2, <1>3 DEF NoLostUpdate
    <3>2. CASE holder[p] # s
      <4>1. holder[p] = NoRequest /\ s = r  BY <2>2, <3>2, <1>0
      <4>2. rows[s][p] = 0 /\ newest[p] = quantity[p] /\ quantity[p] \in Int
        BY <4>1, <1>0 DEF RecordedInv, Locking, NoLostUpdate, TypeOK
      <4> QED  BY <4>1, <4>2, <1>3
    <3> QED  BY <3>1, <3>2
  <2> QED  BY <2>1, <2>2, <1>0 DEF NoLostUpdate
<1>5. RecordedInv'
  <2> SUFFICES ASSUME NEW s \in Requests, NEW p \in Products, pc'[s] # "committed", holder'[p] # s
               PROVE  rows[s][p] = 0
    BY <1>0 DEF RecordedInv
  <2>1. pc[s] # "committed" /\ holder[p] # s
    BY <1>0, RequestAssumption DEF Locking
  <2> QED  BY <2>1 DEF RecordedInv
<1>6. ASSUME NEW s \in Requests \ {r} PROVE LineInv(s)'
  <2>1. \A p \in Products : holder[p] = s => holder'[p] = s /\ newest'[p] = newest[p]
    BY <1>0, RequestAssumption
  <2> QED  BY <2>1, LineInvFrame DEF TakeLock, TypeOK
<1>7. \A p \in Products : p = want[r] \/ Fresh(r, p) => Fresh(r, p)'
  BY <1>0 DEF Fresh
<1>8. CurrentTargets(r)' = CurrentTargets(r)
  BY DEF TakeLock, CurrentTargets, CurrentLine
<1> QED  BY <1>1, <1>4, <1>5, <1>6, <1>7, <1>8

LEMMA LockIInv ==
  ASSUME IInv, NEW r \in Requests, TypeOK',
         LockProduct(r) \/ LockRecipe(r) \/ LockNextIngredient(r) \/ LockLastIngredient(r)
  PROVE  IInv'
<1> USE DEF IInv
<1>1. TakeLock(r) /\ Locking(r)
  BY DEF LockProduct, LockRecipe, LockNextIngredient, LockLastIngredient, Locking
<1>2. /\ pc'[r] \in {"ingredients", "adjust"}
      /\ \A s \in Requests \ {r} : pc'[s] = pc[s] /\ want'[s] = want[s] /\ todo'[s] = todo[s]
  BY DEF LockProduct, LockRecipe, LockNextIngredient, LockLastIngredient, TypeOK
<1>3. pc' \in [Requests -> Phases]  BY DEF TypeOK
<1>4. /\ NoOrphanLock' /\ NoLostUpdate' /\ RecordedInv'
      /\ \A s \in Requests \ {r} : LineInv(s)'
      /\ \A p \in Products : p = want[r] \/ Fresh(r, p) => Fresh(r, p)'
      /\ CurrentTargets(r)' = CurrentTargets(r)
  BY <1>1, <1>2, <1>3, TakeLockIInv
<1>5. CurrentTargets(r) \subseteq Products  BY CurrentChange
<1>6. LineInv(r)'
  <2>1. CASE LockProduct(r)
    <3>1. CurrentTargets(r) \subseteq {want[r]}
      BY <2>1 DEF LockProduct, LineInv, CurrentTargets, Targets
    <3> QED  BY <2>1, <3>1, <1>4 DEF LockProduct, LineInv, TypeOK
  <2>2. CASE LockRecipe(r)
    <3>1. CurrentTargets(r) \subseteq todo'[r] \cup {want'[r]} /\ pc'[r] = "ingredients"
      BY <2>2 DEF LockRecipe, TypeOK
    <3> QED  BY <3>1, <1>4 DEF LineInv
  <2>3. CASE LockNextIngredient(r)
    <3>1. pc[r] = "ingredients" /\ pc'[r] = "ingredients" /\ todo[r] = todo'[r] \cup {want'[r]}
      BY <2>3 DEF LockNextIngredient, TypeOK
    <3>2. \A p \in CurrentTargets(r) \ (todo'[r] \cup {want'[r]}) : Fresh(r, p)'
      BY <3>1, <1>4, <1>5 DEF LineInv
    <3> QED  BY <3>1, <3>2, <1>4 DEF LineInv
  <2>4. CASE LockLastIngredient(r)
    <3>1. pc[r] = "ingredients" /\ pc'[r] = "adjust" /\ todo[r] = {}
      BY <2>4 DEF LockLastIngredient, TypeOK
    <3>2. \A p \in CurrentTargets(r) : Fresh(r, p)'
      BY <3>1, <1>4, <1>5 DEF LineInv
    <3> QED  BY <3>1, <3>2, <1>4 DEF LineInv
  <2> QED  BY <2>1, <2>2, <2>3, <2>4
<1> QED  BY <1>4, <1>6

LEMMA AdjustStockIInv ==
  ASSUME IInv, NEW r \in Requests, AdjustStock(r), TypeOK'
  PROVE  IInv'
<1> USE DEF IInv
<1>1. /\ pc[r] = "adjust" /\ pc'[r] = "insert"
      /\ \A s \in Requests \ {r} : pc'[s] = pc[s]
      /\ quantity' = quantity /\ holder' = holder /\ doc' = doc /\ lineNo' = lineNo
      /\ want' = want /\ todo' = todo /\ inMemory' = inMemory /\ rows' = rows
  BY DEF AdjustStock, TypeOK
<1>2. CurrentTargets(r) \subseteq Products /\ \A p \in CurrentTargets(r) : Fresh(r, p)
  BY <1>1, CurrentChange DEF LineInv
<1>3. \A p \in Products : newest'[p] =
        IF p \in CurrentTargets(r)
        THEN newest[p] + Change(doc[r].kind, CurrentLine(r), p) ELSE newest[p]
  BY <1>2 DEF AdjustStock, Fresh
<1>4. /\ \A s \in Requests : CurrentLine(s)' = CurrentLine(s) /\ CurrentTargets(s)' = CurrentTargets(s)
      /\ \A p \in Products, s \in Requests \ {r} : Unrecorded(s, p)' = Unrecorded(s, p)
      /\ \A p \in Products : Unrecorded(r, p)' = Change(doc[r].kind, CurrentLine(r), p)
      /\ \A p \in Products : Unrecorded(r, p) = 0
  BY <1>1 DEF CurrentLine, CurrentTargets, Unrecorded
<1>5. NoOrphanLock'
  BY <1>1 DEF NoOrphanLock, Running
<1>6. NoLostUpdate'
  <2>1. \A p \in Products : holder[p] = NoRequest => newest'[p] = quantity[p]
    BY <1>2, <1>3, RequestAssumption DEF Fresh, NoLostUpdate
  <2>2. ASSUME NEW p \in Products, NEW s \in Requests, holder[p] = s
        PROVE  newest'[p] = quantity[p] + rows[s][p] + Unrecorded(s, p)'
    <3>1. newest[p] = quantity[p] + rows[s][p] + Unrecorded(s, p)
      BY <2>2 DEF NoLostUpdate
    <3>2. CASE s = r
      <4>1. /\ Change(doc[r].kind, CurrentLine(r), p) \in Int
            /\ p \notin CurrentTargets(r) => Change(doc[r].kind, CurrentLine(r), p) = 0
        BY CurrentChange
      <4>2. quantity[p] \in Int /\ rows[r][p] \in Int  BY DEF TypeOK
      <4> QED  BY <3>1, <3>2, <4>1, <4>2, <1>3, <1>4
    <3>3. CASE s # r
      <4>1. p \notin CurrentTargets(r)  BY <3>3, <2>2, <1>2 DEF Fresh
      <4> QED  BY <3>1, <3>3, <4>1, <1>3, <1>4
    <3> QED  BY <3>2, <3>3
  <2> QED  BY <2>1, <2>2, <1>1 DEF NoLostUpdate
<1>7. RecordedInv'
  BY <1>1 DEF RecordedInv
<1>8. ASSUME NEW s \in Requests PROVE LineInv(s)'
  <2>1. CASE s = r
    BY <2>1, <1>1, <1>2, <1>4 DEF LineInv, Fresh
  <2>2. CASE s # r
    <3>1. \A p \in Products : holder[p] = s => newest'[p] = newest[p]
      BY <2>2, <1>2, <1>3 DEF Fresh
    <3> QED  BY <2>2, <3>1, <1>1, LineInvFrame
  <2> QED  BY <2>1, <2>2
<1> QED  BY <1>5, <1>6, <1>7, <1>8

LEMMA InsertLineIInv ==
  ASSUME IInv, NEW r \in Requests, InsertLine(r), TypeOK'
  PROVE  IInv'
<1> USE DEF IInv
<1>1. /\ pc[r] = "insert" /\ pc'[r] \in {"product", "commit"}
      /\ \A s \in Requests \ {r} :
           /\ pc'[s] = pc[s] /\ lineNo'[s] = lineNo[s] /\ want'[s] = want[s] /\ rows'[s] = rows[s]
      /\ quantity' = quantity /\ newest' = newest /\ holder' = holder /\ doc' = doc
      /\ todo' = todo /\ inMemory' = inMemory
  BY DEF InsertLine, TypeOK
<1>2. \A p \in Products : rows'[r][p] = rows[r][p] + Change(doc[r].kind, CurrentLine(r), p)
  BY DEF InsertLine, TypeOK
<1>3. /\ \A p \in Products, s \in Requests \ {r} : Unrecorded(s, p)' = Unrecorded(s, p)
      /\ \A p \in Products : Unrecorded(r, p)' = 0
      /\ \A p \in Products : Unrecorded(r, p) = Change(doc[r].kind, CurrentLine(r), p)
  BY <1>1 DEF CurrentLine, Unrecorded
<1>4. \A p \in CurrentTargets(r) : holder[p] = r
  BY <1>1 DEF LineInv
<1>5. \A p \in Products : /\ Change(doc[r].kind, CurrentLine(r), p) \in Int
                          /\ p \notin CurrentTargets(r) => Change(doc[r].kind, CurrentLine(r), p) = 0
  BY CurrentChange
<1>6. \A p \in Products, s \in Requests : quantity[p] \in Int /\ rows[s][p] \in Int
  BY DEF TypeOK
<1>7. NoOrphanLock'
  BY <1>1 DEF NoOrphanLock, Running
<1>8. NoLostUpdate'
  <2>1. ASSUME NEW p \in Products, NEW s \in Requests, holder[p] = s
        PROVE  newest[p] = quantity[p] + rows'[s][p] + Unrecorded(s, p)'
    <3>1. newest[p] = quantity[p] + rows[s][p] + Unrecorded(s, p)
      BY <2>1 DEF NoLostUpdate
    <3>2. CASE s = r  BY <3>1, <3>2, <1>2, <1>3, <1>5, <1>6
    <3>3. CASE s # r  BY <3>1, <3>3, <1>1, <1>3
    <3> QED  BY <3>2, <3>3
  <2> QED  BY <2>1, <1>1 DEF NoLostUpdate
<1>9. RecordedInv'
  <2> SUFFICES ASSUME NEW s \in Requests, NEW p \in Products, pc'[s] # "committed", holder[p] # s
               PROVE  rows'[s][p] = 0
    BY <1>1 DEF RecordedInv
  <2>1. pc[s] # "committed" /\ rows[s][p] = 0
    BY <1>1 DEF RecordedInv
  <2>2. CASE s = r  BY <2>1, <2>2, <1>2, <1>4, <1>5
  <2>3. CASE s # r  BY <2>1, <2>3, <1>1
  <2> QED  BY <2>2, <2>3
<1>10. ASSUME NEW s \in Requests PROVE LineInv(s)'
  <2>1. CASE s = r
    <3>1. pc'[r] = "product" => want'[r] = CurrentLine(r)'.item
      <4> SUFFICES ASSUME pc'[r] = "product" PROVE want'[r] = CurrentLine(r)'.item  OBVIOUS
      <4>1. lineNo'[r] = lineNo[r] + 1 /\ want'[r] = doc[r].lines[lineNo[r] + 1].item
        BY DEF InsertLine, TypeOK
      <4> QED  BY <4>1, <1>1 DEF CurrentLine
    <3> QED  BY <2>1, <3>1, <1>1 DEF LineInv
  <2>2. CASE s # r
    BY <2>2, <1>1, LineInvFrame
  <2> QED  BY <2>1, <2>2
<1> QED  BY <1>7, <1>8, <1>9, <1>10

\* The end of a transaction, either way: its rows are free and have their
\* committed value, and nobody else's rows or lines have changed.
LEMMA EndIInv ==
  ASSUME IInv, TypeOK', NEW r \in Requests, Unlock(r),
         pc'[r] \in {"committed", "failed"},
         pc'[r] = "committed" \/ rows'[r] = Nothing,
         \A p \in Products : holder[p] = r => newest'[p] = quantity'[p],
         \A p \in Products : holder[p] # r => newest'[p] = newest[p] /\ quantity'[p] = quantity[p],
         \A s \in Requests \ {r} : pc'[s] = pc[s] /\ rows'[s] = rows[s],
         UNCHANGED <<doc, lineNo, want, todo, inMemory>>
  PROVE  IInv'
<1> USE DEF IInv
<1>1. \A p \in Products : holder'[p] = IF holder[p] = r THEN NoRequest ELSE holder[p]
  BY DEF Unlock
<1>2. \A p \in Products, s \in Requests \ {r} : Unrecorded(s, p)' = Unrecorded(s, p)
  BY DEF Unrecorded, CurrentLine
<1>3. NoOrphanLock'
  BY <1>1, RequestAssumption DEF NoOrphanLock, Running
<1>4. NoLostUpdate'
  BY <1>1, <1>2, RequestAssumption DEF NoLostUpdate
<1>5. RecordedInv'
  <2> SUFFICES ASSUME NEW s \in Requests, NEW p \in Products, pc'[s] # "committed", holder'[p] # s
               PROVE  rows'[s][p] = 0
    BY DEF RecordedInv
  <2>1. CASE s = r  BY <2>1 DEF Nothing
  <2>2. CASE s # r  BY <2>2, <1>1 DEF RecordedInv
  <2> QED  BY <2>1, <2>2
<1>6. ASSUME NEW s \in Requests PROVE LineInv(s)'
  <2>1. CASE s = r  BY <2>1 DEF LineInv
  <2>2. CASE s # r
    <3>1. \A p \in Products : holder[p] = s => holder'[p] = s /\ newest'[p] = newest[p]
      BY <2>2, <1>1
    <3> QED  BY <2>2, <3>1, LineInvFrame
  <2> QED  BY <2>1, <2>2
<1> QED  BY <1>3, <1>4, <1>5, <1>6

LEMMA CommitIInv ==
  ASSUME IInv, NEW r \in Requests, Commit(r), TypeOK'
  PROVE  IInv'
<1>1. /\ pc'[r] = "committed" /\ \A s \in Requests \ {r} : pc'[s] = pc[s]
      /\ \A p \in Products : quantity'[p] = IF holder[p] = r THEN newest[p] ELSE quantity[p]
      /\ newest' = newest /\ rows' = rows
  BY DEF Commit, IInv, TypeOK
<1> QED  BY <1>1, EndIInv DEF Commit

LEMMA RollbackIInv ==
  ASSUME IInv, NEW r \in Requests, Rollback(r), TypeOK'
  PROVE  IInv'
<1>1. /\ pc'[r] = "failed" /\ \A s \in Requests \ {r} : pc'[s] = pc[s] /\ rows'[s] = rows[s]
      /\ rows'[r] = Nothing
      /\ \A p \in Products : newest'[p] = IF holder[p] = r THEN quantity[p] ELSE newest[p]
      /\ quantity' = quantity
  BY DEF Rollback, IInv, TypeOK
<1> QED  BY <1>1, EndIInv DEF Rollback

LEMMA NextIInv == IInv /\ [Next]_vars => IInv'
<1> SUFFICES ASSUME IInv, [Next]_vars PROVE IInv'  OBVIOUS
<1>1. TypeOK'  BY NextTypeOK DEF IInv
<1>2. ASSUME NEW r \in Requests, Submit(r) PROVE IInv'
  BY <1>1, <1>2, SubmitIInv
<1>3. ASSUME NEW r \in Requests,
             LockProduct(r) \/ LockRecipe(r) \/ LockNextIngredient(r) \/ LockLastIngredient(r)
      PROVE IInv'
  BY <1>1, <1>3, LockIInv
<1>4. ASSUME NEW r \in Requests, AdjustStock(r) PROVE IInv'
  BY <1>1, <1>4, AdjustStockIInv
<1>5. ASSUME NEW r \in Requests, InsertLine(r) PROVE IInv'
  BY <1>1, <1>5, InsertLineIInv
<1>6. ASSUME NEW r \in Requests, Commit(r) PROVE IInv'
  BY <1>1, <1>6, CommitIInv
<1>7. ASSUME NEW r \in Requests, Rollback(r) PROVE IInv'
  BY <1>1, <1>7, RollbackIInv
<1>8. CASE UNCHANGED vars
  BY <1>8 DEF vars, IInv, TypeOK, NoOrphanLock, Running, NoLostUpdate, Unrecorded, RecordedInv,
              LineInv, Fresh, CurrentTargets, CurrentLine
<1> QED
  BY <1>2, <1>3, <1>4, <1>5, <1>6, <1>7, <1>8 DEF Next, Step, Fail, AbortVictim, AllCommitted

LEMMA Invariant == Spec => []IInv
  BY InitIInv, NextIInv, PTL DEF Spec

\* Concurrent sales, refunds and deliveries never overwrite each other: the row
\* version a transaction holds is the last committed one plus its own lines.
THEOREM LosesNoUpdate == Spec => []NoLostUpdate
<1>1. IInv => NoLostUpdate  BY DEF IInv
<1> QED  BY <1>1, Invariant, PTL

\* Only a running request holds row locks.
THEOREM LeavesNoLock == Spec => []NoOrphanLock
<1>1. IInv => NoOrphanLock  BY DEF IInv
<1> QED  BY <1>1, Invariant, PTL

-----------------------------------------------------------------------------
(* Refinement *)

\* The commit of r is the posting of its document.
LEMMA CommitPosts ==
  ASSUME IInv, NEW r \in Requests, Commit(r), TypeOK'
  PROVE  Ledger!Post(r)
<1> USE DEF IInv
<1>1. /\ pc[r] = "commit" /\ pc'[r] = "committed" /\ \A s \in Requests \ {r} : pc'[s] = pc[s]
      /\ rows' = rows
  BY DEF Commit, TypeOK
<1>2. {s \in Requests : pc'[s] = "committed"} = {s \in Requests : pc[s] = "committed"} \cup {r}
  BY <1>1
<1>3. [s \in Requests |-> IF pc'[s] = "committed" THEN rows'[s] ELSE Nothing] \in
        [Requests -> [Products -> Int]]
  BY DEF TypeOK, Nothing
<1>4. quantity' = [p \in Products |-> quantity[p] + rows'[r][p]]
  <2>1. ASSUME NEW p \in Products PROVE quantity'[p] = quantity[p] + rows[r][p]
    <3>1. quantity[p] \in Int /\ rows[r][p] \in Int /\ Unrecorded(r, p) = 0
      BY <1>1 DEF TypeOK, Unrecorded
    <3>2. CASE holder[p] = r
      <4>1. newest[p] = quantity[p] + rows[r][p] + Unrecorded(r, p)
        BY <3>2 DEF NoLostUpdate
      <4> QED  BY <3>1, <3>2, <4>1 DEF Commit
    <3>3. CASE holder[p] # r
      BY <3>1, <3>3, <1>1 DEF Commit, RecordedInv
    <3> QED  BY <3>2, <3>3
  <2> QED  BY <2>1, <1>1 DEF Commit
<1> QED
  BY <1>1, <1>2, <1>3, <1>4 DEF Ledger!Post

\* The transactions implement the ledger: each commit posts one whole document,
\* every other step is invisible to readers of committed data.
THEOREM RefinesLedger == Spec => ImplementsLedger
<1>1. Init => Ledger!Init
  <2> SUFFICES ASSUME Init PROVE Ledger!Init  OBVIOUS
  <2>1. \A r \in Requests : pc[r] # "committed"  BY DEF Init
  <2> QED  BY <2>1 DEF Init, Ledger!Init, Ledger!NoMovement, Nothing
<1>2. IInv /\ IInv' /\ [Next]_vars => [Ledger!Next]_(Ledger!ledgerVars)
  <2> SUFFICES ASSUME IInv, IInv', [Next]_vars
               PROVE  [Ledger!Next]_(Ledger!ledgerVars)
    OBVIOUS
  <2> USE DEF IInv
  <2>1. ASSUME NEW r \in Requests, Commit(r) PROVE Ledger!Next
    BY <2>1, CommitPosts DEF Ledger!Next
  <2>2. ASSUME NEW r \in Requests, quantity' = quantity,
               pc[r] # "committed" /\ pc'[r] # "committed",
               \A s \in Requests \ {r} : pc'[s] = pc[s] /\ rows'[s] = rows[s]
        PROVE  UNCHANGED Ledger!ledgerVars
    BY <2>2 DEF Ledger!ledgerVars
  <2>3. ASSUME NEW r \in Requests, Submit(r) PROVE UNCHANGED Ledger!ledgerVars
    BY <2>2, <2>3 DEF Submit, TypeOK
  <2>4. ASSUME NEW r \in Requests,
               LockProduct(r) \/ LockRecipe(r) \/ LockNextIngredient(r) \/ LockLastIngredient(r)
        PROVE  UNCHANGED Ledger!ledgerVars
    BY <2>2, <2>4 DEF LockProduct, LockRecipe, LockNextIngredient, LockLastIngredient, TakeLock, TypeOK
  <2>5. ASSUME NEW r \in Requests, AdjustStock(r) \/ InsertLine(r) PROVE UNCHANGED Ledger!ledgerVars
    BY <2>2, <2>5 DEF AdjustStock, InsertLine, TypeOK
  <2>6. ASSUME NEW r \in Requests, Fail(r) \/ AbortVictim(r) PROVE UNCHANGED Ledger!ledgerVars
    <3>1. pc[r] # "committed"
      BY <2>6 DEF Fail, AbortVictim, Deadlocked, Blocked, Locking, Running
    <3> QED  BY <2>2, <2>6, <3>1 DEF Fail, AbortVictim, Rollback, TypeOK
  <2>7. CASE UNCHANGED vars
    BY <2>7 DEF vars, Ledger!ledgerVars
  <2> QED
    BY <2>1, <2>3, <2>4, <2>5, <2>6, <2>7 DEF Next, Step, AllCommitted
<1> QED
  BY <1>1, <1>2, Invariant, PTL DEF Spec, ImplementsLedger, Ledger!Spec

-----------------------------------------------------------------------------
(* What the lines of a document add up to *)

\* The movement of p by the first n lines of a document.
EffectUpTo(d, n, p) == SumFunction([i \in 1..n |-> Change(d.kind, d.lines[i], p)])

LEMMA EffectUpToNone ==
  ASSUME NEW d, NEW p
  PROVE  EffectUpTo(d, 0, p) = 0
<1> DEFINE f == [i \in 1..0 |-> Change(d.kind, d.lines[i], p)]
<1>1. 1..0 = {}  OBVIOUS
<1>2. EffectUpTo(d, 0, p) = SumFunctionOnSet(f, 1..0)  BY DEF EffectUpTo, SumFunction
<1> HIDE DEF f
<1> QED  BY <1>1, <1>2, FS_EmptySet, SumOnZeros

LEMMA EffectUpToLine ==
  ASSUME NEW d \in Documents, NEW n \in 1..Len(d.lines), NEW p \in Products
  PROVE  /\ EffectUpTo(d, n - 1, p) \in Int
         /\ EffectUpTo(d, n, p) = EffectUpTo(d, n - 1, p) + Change(d.kind, d.lines[n], p)
<1> DEFINE f == [i \in 1..n |-> Change(d.kind, d.lines[i], p)]
           g == [i \in 1..(n - 1) |-> Change(d.kind, d.lines[i], p)]
<1>1. d.lines \in Seq(Lines) /\ d.kind \in Kinds  BY DocumentAssumption
<1>2. n \in Nat /\ n \in 1..n /\ (1..n) \ {n} = 1..(n - 1)  BY <1>1
<1>3. \A i \in 1..n : Change(d.kind, d.lines[i], p) \in Int
  <2> TAKE i \in 1..n
  <2>1. d.lines[i] \in Lines  BY <1>1
  <2> QED  BY <1>1, <2>1, ChangeType
<1>4. IsFiniteSet(1..n) /\ IsFiniteSet(1..(n - 1))  BY <1>2, FS_Interval
<1>5. (\A i \in 1..n : f[i] \in Int) /\ f[n] = Change(d.kind, d.lines[n], p)
  BY <1>2, <1>3
<1>6. \A i \in 1..(n - 1) : f[i] = g[i]  BY <1>2
<1>7. EffectUpTo(d, n, p) = SumFunctionOnSet(f, 1..n)  BY DEF EffectUpTo, SumFunction
<1>8. EffectUpTo(d, n - 1, p) = SumFunctionOnSet(g, 1..(n - 1))
  BY DEF EffectUpTo, SumFunction
<1> HIDE DEF f, g
<1>9. SumFunctionOnSet(f, 1..n) = f[n] + SumFunctionOnSet(f, (1..n) \ {n})
  BY <1>2, <1>4, <1>5, SumOnSplit
<1>10. SumFunctionOnSet(f, 1..(n - 1)) = SumFunctionOnSet(g, 1..(n - 1))
  BY <1>4, <1>6, SumOnSame
<1>11. \A i \in 1..(n - 1) : g[i] \in Int  BY <1>2, <1>5, <1>6
<1>12. SumFunctionOnSet(g, 1..(n - 1)) \in Int  BY <1>4, <1>11, SumOnSplit
<1>13. Change(d.kind, d.lines[n], p) \in Int  BY <1>2, <1>3
<1>14. SumFunctionOnSet(f, 1..n) = f[n] + SumFunctionOnSet(f, 1..(n - 1))
  BY <1>2, <1>9, Zenon
<1> QED  BY <1>5, <1>7, <1>8, <1>10, <1>12, <1>13, <1>14

\* The lines that r has inserted and not rolled back.
Inserted(r) ==
  IF pc[r] \in {"ready", "failed"} THEN 0
  ELSE IF pc[r] \in {"commit", "committed"} THEN Len(doc[r].lines)
  ELSE lineNo[r] - 1

\* The movements a request has recorded are those of its inserted lines.
RowsMatchLines ==
  \A r \in Requests, p \in Products : rows[r][p] = EffectUpTo(doc[r], Inserted(r), p)

LEMMA InitRows == Init => RowsMatchLines
<1> SUFFICES ASSUME Init, NEW r \in Requests, NEW p \in Products
             PROVE  rows[r][p] = EffectUpTo(doc[r], Inserted(r), p)
  BY DEF RowsMatchLines
<1>1. Inserted(r) = 0 /\ rows[r][p] = 0  BY DEF Init, Inserted, Nothing
<1> QED  BY <1>1, EffectUpToNone

\* A step of r that changes no rows, or only its own.
LEMMA RowsFrame ==
  ASSUME RowsMatchLines, doc' = doc, NEW r \in Requests,
         \A s \in Requests \ {r} :
           rows'[s] = rows[s] /\ pc'[s] = pc[s] /\ lineNo'[s] = lineNo[s],
         \A p \in Products : rows'[r][p] = EffectUpTo(doc[r], Inserted(r)', p)
  PROVE  RowsMatchLines'
<1> SUFFICES ASSUME NEW s \in Requests, NEW p \in Products
             PROVE  rows'[s][p] = EffectUpTo(doc[s], Inserted(s)', p)
  BY DEF RowsMatchLines, EffectUpTo, Change, UnitsOf, UsesRecipe, Sign
<1>1. CASE s = r  BY <1>1
<1>2. CASE s # r
  <2>1. Inserted(s)' = Inserted(s)  BY <1>2 DEF Inserted
  <2> QED  BY <1>2, <2>1 DEF RowsMatchLines
<1> QED  BY <1>1, <1>2

LEMMA NextRows == IInv /\ RowsMatchLines /\ [Next]_vars => RowsMatchLines'
<1> SUFFICES ASSUME IInv, RowsMatchLines, [Next]_vars PROVE RowsMatchLines'  OBVIOUS
<1>1. TypeOK  BY DEF IInv
<1>2. ASSUME NEW r \in Requests, Submit(r) PROVE RowsMatchLines'
  <2>1. Inserted(r) = 0 /\ Inserted(r)' = 0  BY <1>1, <1>2 DEF Submit, Inserted, TypeOK
  <2>2. \A p \in Products : rows'[r][p] = EffectUpTo(doc[r], Inserted(r)', p)
    BY <1>2, <2>1 DEF Submit, RowsMatchLines
  <2> QED  BY <1>1, <1>2, <2>2, RowsFrame DEF Submit, TypeOK
<1>3. ASSUME NEW r \in Requests,
             \/ LockProduct(r) \/ LockRecipe(r) \/ LockNextIngredient(r) \/ LockLastIngredient(r)
             \/ AdjustStock(r) \/ Commit(r)
      PROVE  RowsMatchLines'
  <2>1. /\ rows' = rows /\ doc' = doc /\ lineNo' = lineNo
        /\ \A s \in Requests \ {r} : pc'[s] = pc[s]
        /\ \/ pc[r] \in {"product", "ingredients", "adjust"}
              /\ pc'[r] \in {"ingredients", "adjust", "insert"}
           \/ pc[r] = "commit" /\ pc'[r] = "committed"
    BY <1>1, <1>3
    DEF LockProduct, LockRecipe, LockNextIngredient, LockLastIngredient, TakeLock, AdjustStock,
        Commit, TypeOK
  <2>2. Inserted(r)' = Inserted(r)  BY <2>1 DEF Inserted
  <2>3. \A p \in Products : rows'[r][p] = EffectUpTo(doc[r], Inserted(r)', p)
    BY <2>1, <2>2 DEF RowsMatchLines
  <2> QED  BY <2>1, <2>3, RowsFrame
<1>4. ASSUME NEW r \in Requests, InsertLine(r) PROVE RowsMatchLines'
  <2> DEFINE n == lineNo[r]
  <2>1. /\ doc[r] \in Documents /\ n \in 1..Len(doc[r].lines) /\ Len(doc[r].lines) \in Nat
    BY <1>1, CurrentLineType DEF TypeOK
  <2>2. Inserted(r) = n - 1  BY <1>4 DEF InsertLine, Inserted
  <2>3. Inserted(r)' = n
    <3>1. CASE n < Len(doc[r].lines)
      <4>1. lineNo'[r] = n + 1 /\ pc'[r] = "product"
        BY <1>1, <1>4, <3>1 DEF InsertLine, TypeOK
      <4> QED  BY <2>1, <4>1 DEF Inserted
    <3>2. CASE ~(n < Len(doc[r].lines))
      <4>1. pc'[r] = "commit" /\ doc' = doc
        BY <1>1, <1>4, <3>2 DEF InsertLine, TypeOK
      <4> QED  BY <2>1, <3>2, <4>1 DEF Inserted
    <3> QED  BY <3>1, <3>2
  <2>4. ASSUME NEW p \in Products PROVE rows'[r][p] = EffectUpTo(doc[r], Inserted(r)', p)
    <3>1. rows'[r][p] = rows[r][p] + Change(doc[r].kind, doc[r].lines[n], p)
      BY <1>1, <1>4 DEF InsertLine, CurrentLine, TypeOK
    <3>2. rows[r][p] = EffectUpTo(doc[r], n - 1, p)  BY <2>2 DEF RowsMatchLines
    <3> HIDE DEF n
    <3> QED  BY <2>1, <2>3, <3>1, <3>2, EffectUpToLine
  <2>5. /\ doc' = doc
        /\ \A s \in Requests \ {r} :
             rows'[s] = rows[s] /\ pc'[s] = pc[s] /\ lineNo'[s] = lineNo[s]
    BY <1>1, <1>4 DEF InsertLine, TypeOK
  <2> QED  BY <2>4, <2>5, RowsFrame
<1>5. ASSUME NEW r \in Requests, Rollback(r) PROVE RowsMatchLines'
  <2>1. /\ Inserted(r)' = 0 /\ rows'[r] = Nothing /\ doc' = doc
        /\ \A s \in Requests \ {r} :
             rows'[s] = rows[s] /\ pc'[s] = pc[s] /\ lineNo'[s] = lineNo[s]
    BY <1>1, <1>5 DEF Rollback, Inserted, TypeOK
  <2>2. \A p \in Products : rows'[r][p] = EffectUpTo(doc[r], Inserted(r)', p)
    BY <2>1, EffectUpToNone DEF Nothing
  <2> QED  BY <2>1, <2>2, RowsFrame
<1>6. CASE UNCHANGED vars
  <2>1. \A r \in Requests : Inserted(r)' = Inserted(r)  BY <1>6 DEF vars, Inserted
  <2>2. ASSUME NEW r \in Requests, NEW p \in Products
        PROVE  rows'[r][p] = EffectUpTo(doc[r], Inserted(r)', p)
    BY <1>6, <2>1 DEF vars, RowsMatchLines
  <2> QED  BY <1>6, <2>2, RowsFrame DEF vars, RowsMatchLines
<1> QED
  BY <1>2, <1>3, <1>4, <1>5, <1>6 DEF Next, Step, Fail, AbortVictim, AllCommitted

LEMMA RowsInvariant == Spec => []RowsMatchLines
  BY InitRows, NextRows, Invariant, PTL DEF Spec

-----------------------------------------------------------------------------
(* Stock reconciles *)

Committed == {r \in Requests : pc[r] = "committed"}

\* The journal of a committed request is its document.
LEMMA RowsOfCommitted ==
  ASSUME TypeOK, RowsMatchLines, NEW r \in Requests, pc[r] \in {"commit", "committed"},
         NEW p \in Products
  PROVE  DocumentEffect(doc[r], p) = rows[r][p]
<1>1. doc[r].lines \in Seq(Lines)  BY DocumentAssumption DEF TypeOK
<1>2. DOMAIN doc[r].lines = 1..Len(doc[r].lines)  BY <1>1
<1>3. Inserted(r) = Len(doc[r].lines)  BY DEF Inserted
<1> QED  BY <1>2, <1>3 DEF DocumentEffect, EffectUpTo, RowsMatchLines

\* What all committed documents move of p.
Booked(p) == SumFunction([r \in Committed |-> DocumentEffect(doc[r], p)])

LEMMA CommitBooks ==
  ASSUME IInv, RowsMatchLines, TypeOK', StockMatchesDocuments, NEW r \in Requests, Commit(r)
  PROVE  StockMatchesDocuments'
<1> SUFFICES ASSUME NEW p \in Products
             PROVE  quantity'[p] = Opening[p] + Booked(p)'
  BY Zenon DEF StockMatchesDocuments, Booked, Committed, DocumentEffect
<1> DEFINE f == [s \in Committed |-> DocumentEffect(doc[s], p)]
           g == [s \in Committed' |-> DocumentEffect(doc[s], p)]
<1>1. TypeOK /\ doc' = doc  BY DEF IInv, Commit
<1>2. /\ r \in Committed' /\ Committed' \ {r} = Committed
      /\ Committed \subseteq Requests /\ Committed' \subseteq Requests
  BY <1>1 DEF Commit, Committed, TypeOK
<1>3. IsFiniteSet(Committed) /\ IsFiniteSet(Committed')
  BY <1>2, RequestAssumption, FS_Subset
<1>4. \A s \in Committed' : DocumentEffect(doc[s], p) = rows[s][p] /\ rows[s][p] \in Int
  <2> TAKE s \in Committed'
  <2>1. s \in Requests /\ pc[s] \in {"commit", "committed"}
    BY <1>1 DEF Committed, Commit, TypeOK
  <2>2. DocumentEffect(doc[s], p) = rows[s][p]  BY <1>1, <2>1, RowsOfCommitted
  <2>3. rows[s][p] \in Int  BY <1>1, <2>1 DEF TypeOK
  <2> QED  BY <2>2, <2>3
<1>5. (\A s \in Committed' : g[s] \in Int) /\ g[r] = rows[r][p] /\ rows[r][p] \in Int
  <2>1. \A s \in Committed' : g[s] = rows[s][p]  BY <1>4
  <2> QED  BY <1>2, <1>4, <2>1, Zenon
<1>6. \A s \in Committed : f[s] = g[s]  BY <1>2
<1>7. Booked(p) = SumFunctionOnSet(f, Committed)  BY DEF Booked, SumFunction
<1>8. Booked(p)' = SumFunctionOnSet(g, Committed')
  BY <1>1 DEF Booked, SumFunction, DocumentEffect
<1> HIDE DEF f, g
<1>9. SumFunctionOnSet(g, Committed') = g[r] + SumFunctionOnSet(g, Committed)
  BY <1>2, <1>3, <1>5, SumOnSplit
<1>10. SumFunctionOnSet(g, Committed) = SumFunctionOnSet(f, Committed)
  BY <1>3, <1>6, SumOnSame
<1>11. \A s \in Committed : f[s] \in Int  BY <1>2, <1>5, <1>6
<1>12. Booked(p) \in Int  BY <1>3, <1>7, <1>11, SumOnSplit
<1>13. quantity'[p] = quantity[p] + rows[r][p]
  <2>1. Ledger!Post(r)  BY CommitPosts
  <2>2. pc'[r] = "committed" /\ rows'[r] = rows[r]  BY <1>1 DEF Commit, TypeOK
  <2> QED  BY <2>1, <2>2 DEF Ledger!Post
<1>14. quantity[p] = Opening[p] + Booked(p)
  BY DEF StockMatchesDocuments, Booked, Committed
<1> QED
  BY <1>5, <1>7, <1>8, <1>9, <1>10, <1>12, <1>13, <1>14, OpeningAssumption

LEMMA InitStock == Init => StockMatchesDocuments
<1> SUFFICES ASSUME Init, NEW p \in Products
             PROVE  quantity[p] = Opening[p] + Booked(p)
  BY DEF StockMatchesDocuments, Booked, Committed
<1> DEFINE f == [r \in Committed |-> DocumentEffect(doc[r], p)]
<1>1. Committed = {}  BY DEF Init, Committed
<1>2. Booked(p) = SumFunctionOnSet(f, Committed)  BY DEF Booked, SumFunction
<1> HIDE DEF f
<1>3. Booked(p) = 0  BY <1>1, <1>2, FS_EmptySet, SumOnZeros
<1> QED  BY <1>3, OpeningAssumption DEF Init

LEMMA NextStock ==
  IInv /\ RowsMatchLines /\ IInv' /\ StockMatchesDocuments /\ [Next]_vars => StockMatchesDocuments'
<1> SUFFICES ASSUME IInv, RowsMatchLines, IInv', StockMatchesDocuments, [Next]_vars
             PROVE  StockMatchesDocuments'
  OBVIOUS
<1>1. TypeOK /\ TypeOK'  BY DEF IInv
<1>2. ASSUME NEW r \in Requests, Commit(r) PROVE StockMatchesDocuments'
  BY <1>1, <1>2, CommitBooks
<1>3. ASSUME quantity' = quantity, doc' = doc, Committed' = Committed
      PROVE  StockMatchesDocuments'
  BY <1>3, Zenon DEF StockMatchesDocuments, DocumentEffect, Committed
<1>4. ASSUME NEW r \in Requests, pc[r] # "committed", pc'[r] # "committed",
             quantity' = quantity, doc' = doc, \A s \in Requests \ {r} : pc'[s] = pc[s]
      PROVE  StockMatchesDocuments'
  <2>1. Committed' = Committed  BY <1>4 DEF Committed
  <2> QED  BY <1>3, <1>4, <2>1
<1>5. ASSUME NEW r \in Requests,
             \/ LockProduct(r) \/ LockRecipe(r) \/ LockNextIngredient(r) \/ LockLastIngredient(r)
             \/ Submit(r) \/ AdjustStock(r) \/ InsertLine(r)
      PROVE  StockMatchesDocuments'
  BY <1>1, <1>4, <1>5
  DEF LockProduct, LockRecipe, LockNextIngredient, LockLastIngredient, TakeLock, Submit,
      AdjustStock, InsertLine, TypeOK
<1>6. ASSUME NEW r \in Requests, Fail(r) \/ AbortVictim(r) PROVE StockMatchesDocuments'
  <2>1. pc[r] # "committed"
    BY <1>6 DEF Fail, AbortVictim, Deadlocked, Blocked, Locking, Running
  <2> QED  BY <1>1, <1>4, <1>6, <2>1 DEF Fail, AbortVictim, Rollback, TypeOK
<1>7. CASE UNCHANGED vars  BY <1>3, <1>7 DEF vars, Committed
<1> QED  BY <1>2, <1>5, <1>6, <1>7 DEF Next, Step, AllCommitted

\* For any documents, recipes and interleaving of requests, a product's stock is
\* its opening stock plus what the lines of the committed documents say.
THEOREM StockReconciles == Spec => []StockMatchesDocuments
  BY InitStock, NextStock, Invariant, RowsInvariant, PTL DEF Spec
=============================================================================
