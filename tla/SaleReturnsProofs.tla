------------------------- MODULE SaleReturnsProofs -------------------------
(***************************************************************************)
(* Proofs, for any sales, lines and requests, that refunds and deletions   *)
(* of sales leave every refund its sale, that a deletion gives back the    *)
(* stock of lines it really deletes, and that stock is always what the     *)
(* sale and refund lines in the database add up to.                        *)
(***************************************************************************)
EXTENDS SaleReturns, SumTheorems, TLAPS

-----------------------------------------------------------------------------
(* The inductive invariant *)

\* TypeOK, stock excepted.
RowTypes ==
  /\ saleRows \subseteq rung /\ rung \subseteq Sales
  /\ lineRows \subseteq Lines
  /\ refunded \in [Refunders -> [Lines -> Nat]]
  /\ pc \in [Requests -> {"idle", "checked", "collected", "restored", "refused", "failed", "done"}]
  /\ sale \in [Requests -> Sales]
  /\ typed \in [Refunders -> [Lines -> Nat]]
  /\ collected \in [Deleters -> SUBSET Lines]
  /\ lockedBy \in [Lines -> Deleters \cup {Nobody}]

\* While a deletion is under way its sale cannot get more lines than it has
\* collected, and keeps those as long as it is there itself.
CollectedAll(r) ==
  pc[r] \in {"collected", "restored"} =>
    /\ sale[r] \in rung
    /\ collected[r] \subseteq LinesOf(sale[r])
    /\ LinesOf(sale[r]) \cap lineRows \subseteq collected[r]
    /\ pc[r] = "collected" /\ sale[r] \in saleRows => collected[r] \subseteq lineRows

IInv ==
  /\ RowTypes
  /\ RefundKeepsSale
  /\ GivesBackItsOwn
  /\ \A r \in Deleters : CollectedAll(r)

-----------------------------------------------------------------------------
LEMMA InitIInv == Init => IInv
  BY DEF Init, IInv, RowTypes, RefundKeepsSale, GivesBackItsOwn, CollectedAll, NoLines, Requests

\* Steps that only move a request on, or fail it.
LEMMA QuietStep ==
  ASSUME IInv, RowTypes', saleRows' = saleRows, lineRows' = lineRows, rung' = rung,
         refunded' = refunded, sale' = sale,
         \A r \in Deleters :
           pc'[r] \in {"collected", "restored"} => pc'[r] = pc[r] /\ collected'[r] = collected[r],
         \A l \in Lines, r \in Deleters :
           lockedBy[l] = r /\ pc'[r] = "restored" => lockedBy'[l] = r
  PROVE  IInv'
<1> USE DEF IInv
<1>1. RefundKeepsSale'  BY DEF RefundKeepsSale
<1>2. GivesBackItsOwn'  BY DEF GivesBackItsOwn, RowTypes
<1>3. \A r \in Deleters : CollectedAll(r)'  BY DEF CollectedAll, LinesOf
<1> QED  BY <1>1, <1>2, <1>3

LEMMA RingUpIInv ==
  ASSUME IInv, NEW s \in Sales, RingUp(s)
  PROVE  IInv'
<1> USE DEF IInv
<1>1. RowTypes'  BY DEF RowTypes, RingUp, LinesOf
<1>2. RefundKeepsSale'  BY DEF RefundKeepsSale, RingUp, LinesOf
<1>3. GivesBackItsOwn'  BY DEF GivesBackItsOwn, RingUp
<1>4. ASSUME NEW r \in Deleters PROVE CollectedAll(r)'
  <2>1. pc[r] \in {"collected", "restored"} => sale[r] # s
    BY DEF CollectedAll, RingUp
  <2> QED  BY <2>1 DEF CollectedAll, RingUp, LinesOf
<1> QED  BY <1>1, <1>2, <1>3, <1>4

LEMMA RefundIInv ==
  ASSUME IInv, NEW r \in Refunders, CheckRemaining(r) \/ RefuseRefund(r) \/ CommitRefund(r)
  PROVE  IInv'
<1> USE DEF IInv
<1>0. \A d \in Deleters : d # r  BY RequestsAssumption
<1>1. CASE CheckRemaining(r)
  <2>1. RowTypes'
    <3>1. PICK q \in [Lines -> Quantities] : typed' = [typed EXCEPT ![r] = q]
      BY <1>1 DEF CheckRemaining
    <3>2. q \in [Lines -> Nat]  BY RequestsAssumption
    <3> QED  BY <1>1, <3>1, <3>2 DEF CheckRemaining, RowTypes, Requests
  <2> QED  BY <1>0, <1>1, <2>1, QuietStep DEF CheckRemaining, RowTypes, Requests
<1>2. CASE RefuseRefund(r)
  <2>1. RowTypes'  BY <1>2 DEF RefuseRefund, RowTypes, Requests
  <2> QED  BY <1>0, <1>2, <2>1, QuietStep DEF RefuseRefund, RowTypes, Requests
<1>3. CASE CommitRefund(r)
  <2>1. RowTypes'  BY <1>3 DEF CommitRefund, SaveRefund, RowTypes, Requests
  <2>2. RefundKeepsSale'  BY <1>3 DEF CommitRefund, SaveRefund, RefundKeepsSale, RowTypes
  <2>3. \A d \in Deleters : pc'[d] = pc[d]
    BY <1>0, <1>3 DEF CommitRefund, SaveRefund, RowTypes, Requests
  <2>4. GivesBackItsOwn'
    BY <1>3, <2>3 DEF CommitRefund, SaveRefund, GivesBackItsOwn
  <2>5. \A d \in Deleters : CollectedAll(d)'
    BY <1>3, <2>3 DEF CommitRefund, SaveRefund, CollectedAll, LinesOf
  <2> QED  BY <2>1, <2>2, <2>4, <2>5
<1> QED  BY <1>1, <1>2, <1>3

LEMMA CollectIInv ==
  ASSUME IInv, NEW r \in Deleters, Collect(r)
  PROVE  IInv'
<1> USE DEF IInv
<1>1. RowTypes'  BY DEF Collect, RowTypes, Requests, LinesOf
<1>2. RefundKeepsSale'  BY DEF Collect, RefundKeepsSale
<1>3. \A d \in Deleters \ {r} : pc'[d] = pc[d] /\ collected'[d] = collected[d]
  BY DEF Collect, RowTypes, Requests
<1>4. pc'[r] = "collected" /\ collected'[r] = LinesOf(sale[r]) \cap lineRows
  BY DEF Collect, RowTypes, Requests
<1>5. GivesBackItsOwn'  BY <1>3, <1>4 DEF Collect, GivesBackItsOwn
<1>6. \A d \in Deleters : CollectedAll(d)'
  BY <1>3, <1>4 DEF Collect, CollectedAll, RowTypes, LinesOf
<1> QED  BY <1>1, <1>2, <1>5, <1>6

LEMMA DeleteLinesIInv ==
  ASSUME IInv, NEW r \in Deleters, DeleteLines(r)
  PROVE  IInv'
<1> USE DEF IInv
<1>1. RowTypes'  BY DEF DeleteLines, RowTypes, Requests
<1>2. RefundKeepsSale'  BY DEF DeleteLines, RefundKeepsSale
<1>3. pc'[r] = "restored" /\ \A d \in Deleters \ {r} : pc'[d] = pc[d]
  BY DEF DeleteLines, RowTypes, Requests
<1>4. GivesBackItsOwn'
  <2> SUFFICES ASSUME NEW d \in Deleters, pc'[d] = "restored", NEW l \in collected[d]
               PROVE  l \in lineRows /\ lockedBy'[l] = d
    BY DEF GivesBackItsOwn, DeleteLines
  <2>1. l \in Lines  BY DEF RowTypes
  <2>2. CASE d = r
    BY <2>1, <2>2 DEF DeleteLines, CollectedAll, RowTypes
  <2>3. CASE d # r
    <3>1. l \in lineRows /\ lockedBy[l] = d  BY <1>3, <2>3 DEF GivesBackItsOwn
    <3>2. l \notin collected[r]  BY <3>1, RequestsAssumption DEF DeleteLines, Requests
    <3> QED  BY <2>1, <3>1, <3>2 DEF DeleteLines
  <2> QED  BY <2>2, <2>3
<1>5. \A d \in Deleters : CollectedAll(d)'
  BY <1>3 DEF DeleteLines, CollectedAll, LinesOf
<1> QED  BY <1>1, <1>2, <1>4, <1>5

\* The DELETE of a sale takes exactly its lines along, and none of them is one
\* that another deletion has restored.
LEMMA CommitDeletionIInv ==
  ASSUME IInv, NEW r \in Deleters, CommitDeletion(r)
  PROVE  IInv'
<1> USE DEF IInv
<1>1. RowTypes'  BY DEF CommitDeletion, Unlock, RowTypes, Requests
<1>2. /\ collected[r] \subseteq LinesOf(sale[r])
      /\ LinesOf(sale[r]) \cap lineRows \subseteq collected[r]
  BY DEF CommitDeletion, CollectedAll
<1>3. RefundKeepsSale'
  <2>1. ASSUME NEW q \in Refunders, NEW l \in Lines, refunded[q][l] > 0
        PROVE  l \in lineRows'
    <3>1. l \in lineRows  BY <2>1 DEF RefundKeepsSale
    <3>2. l \notin LinesOf(sale[r])  BY <2>1 DEF CommitDeletion, HasRefund
    <3> QED  BY <1>2, <3>1, <3>2 DEF CommitDeletion
  <2>2. ASSUME NEW l \in lineRows' PROVE SaleOf[l] \in saleRows'
    <3>1. l \in lineRows /\ l \in Lines /\ l \notin collected[r]
      BY <2>2 DEF CommitDeletion, RowTypes
    <3>2. SaleOf[l] # sale[r]  BY <1>2, <3>1 DEF LinesOf
    <3> QED  BY <3>1, <3>2 DEF CommitDeletion, RefundKeepsSale
  <2> QED  BY <2>1, <2>2 DEF RefundKeepsSale, CommitDeletion
<1>4. pc'[r] = "done" /\ \A d \in Deleters \ {r} : pc'[d] = pc[d]
  BY DEF CommitDeletion, RowTypes, Requests
<1>5. GivesBackItsOwn'
  <2> SUFFICES ASSUME NEW d \in Deleters, pc'[d] = "restored", NEW l \in collected[d]
               PROVE  l \in lineRows' /\ lockedBy'[l] = d
    BY DEF GivesBackItsOwn, CommitDeletion
  <2>1. d # r /\ l \in Lines  BY <1>4 DEF RowTypes
  <2>2. l \in lineRows /\ lockedBy[l] = d  BY <1>4, <2>1 DEF GivesBackItsOwn
  <2>3. l \notin collected[r]
    BY <2>1, <2>2 DEF GivesBackItsOwn, CommitDeletion
  <2> QED  BY <2>1, <2>2, <2>3 DEF CommitDeletion, Unlock
<1>6. ASSUME NEW d \in Deleters PROVE CollectedAll(d)'
  <2>1. CASE sale[d] = sale[r]
    BY <1>4, <2>1 DEF CommitDeletion, CollectedAll, LinesOf
  <2>2. CASE sale[d] # sale[r]
    <3>1. LinesOf(sale[d]) \cap collected[r] = {}  BY <1>2, <2>2 DEF LinesOf
    <3> QED  BY <1>4, <3>1 DEF CommitDeletion, CollectedAll, LinesOf
  <2> QED  BY <2>1, <2>2
<1> QED  BY <1>1, <1>3, <1>5, <1>6

LEMMA NextIInv == IInv /\ [Next]_vars => IInv'
<1> SUFFICES ASSUME IInv, [Next]_vars PROVE IInv'  OBVIOUS
<1> USE DEF IInv
<1>1. ASSUME NEW r \in Deleters, RefuseDeletion(r) PROVE IInv'
  <2>1. RowTypes'  BY <1>1 DEF RefuseDeletion, RowTypes, Requests
  <2> QED  BY <1>1, <2>1, QuietStep DEF RefuseDeletion, RowTypes, Requests
<1>2. ASSUME NEW r \in Requests, Fail(r) PROVE IInv'
  <2>1. RowTypes'  BY <1>2 DEF Fail, Unlock, RowTypes, Requests
  <2> QED  BY <1>2, <2>1, QuietStep DEF Fail, Unlock, RowTypes, Requests
<1>3. ASSUME NEW r \in Requests, Retry(r) PROVE IInv'
  <2>1. RowTypes'  BY <1>3 DEF Retry, RowTypes, Requests
  <2> QED  BY <1>3, <2>1, QuietStep DEF Retry, RowTypes, Requests
<1>4. CASE UNCHANGED vars
  BY <1>4 DEF vars, RowTypes, RefundKeepsSale, GivesBackItsOwn, CollectedAll, LinesOf
<1> QED
  BY <1>1, <1>2, <1>3, <1>4, RingUpIInv, RefundIInv, CollectIInv, DeleteLinesIInv,
     CommitDeletionIInv
  DEF Next, AllAnswered

LEMMA Invariance == Spec => []IInv
  BY InitIInv, NextIInv, PTL DEF Spec

-----------------------------------------------------------------------------
(* Units of a product *)

\* The same sum, over all lines.
LEMMA UnitsOverLines ==
  ASSUME NEW L \in SUBSET Lines, NEW amount, \A l \in L : amount[l] \in Int, NEW p
  PROVE  /\ Units(L, amount, p) \in Int
         /\ Units(L, amount, p)
              = SumFunctionOnSet(
                  [l \in Lines |-> IF l \in L /\ ProductOf[l] = p THEN amount[l] ELSE 0], Lines)
<1> DEFINE S == {k \in L : ProductOf[k] = p}
           f == [l \in S |-> amount[l]]
           g == [l \in Lines |-> IF l \in S THEN f[l] ELSE 0]
           h == [l \in Lines |-> IF l \in L /\ ProductOf[l] = p THEN amount[l] ELSE 0]
<1>1. IsFiniteSet(Lines)  BY SalesAssumption
<1>2. S \in SUBSET Lines /\ \A l \in S : f[l] \in Int  OBVIOUS
<1>3. Units(L, amount, p) = SumFunctionOnSet(f, S)  BY DEF Units, SumFunction
<1>4. SumFunctionOnSet(f, S) = SumFunctionOnSet(g, Lines)
  <2> HIDE DEF S, f
  <2> QED  BY <1>1, <1>2, SumOnFiltered
<1>5. g = h  OBVIOUS
<1>6. \A l \in Lines : h[l] \in Int  OBVIOUS
<1> HIDE DEF g, h
<1>7. SumFunctionOnSet(h, Lines) \in Int  BY <1>1, <1>6, SumOnSplit
<1> QED  BY <1>3, <1>4, <1>5, <1>7 DEF h

LEMMA UnitsIsInt ==
  ASSUME NEW L \in SUBSET Lines, NEW amount \in [Lines -> Nat], NEW p
  PROVE  Units(L, amount, p) \in Int
<1>1. \A l \in L : amount[l] \in Int  OBVIOUS
<1> QED  BY <1>1, UnitsOverLines

\* Units of two sets of lines that share none.
LEMMA UnitsTogether ==
  ASSUME NEW A \in SUBSET Lines, NEW B \in SUBSET Lines, A \cap B = {},
         NEW amount \in [Lines -> Nat], NEW p
  PROVE  Units(A \cup B, amount, p) = Units(A, amount, p) + Units(B, amount, p)
<1> DEFINE C == A \cup B
           a == [l \in Lines |-> IF l \in A /\ ProductOf[l] = p THEN amount[l] ELSE 0]
           b == [l \in Lines |-> IF l \in B /\ ProductOf[l] = p THEN amount[l] ELSE 0]
           c == [l \in Lines |-> IF l \in C /\ ProductOf[l] = p THEN amount[l] ELSE 0]
<1>1. IsFiniteSet(Lines)  BY SalesAssumption
<1>2. \A l \in Lines : a[l] \in Int /\ b[l] \in Int /\ c[l] = a[l] + b[l]
  OBVIOUS
<1>3. C \in SUBSET Lines  OBVIOUS
<1>4. \A l \in Lines : amount[l] \in Int  OBVIOUS
<1> HIDE DEF C
<1>5. Units(A, amount, p) = SumFunctionOnSet(a, Lines)  BY <1>4, UnitsOverLines
<1>6. Units(B, amount, p) = SumFunctionOnSet(b, Lines)  BY <1>4, UnitsOverLines
<1>7. Units(C, amount, p) = SumFunctionOnSet(c, Lines)  BY <1>3, <1>4, UnitsOverLines
<1> HIDE DEF a, b, c
<1>8. SumFunctionOnSet(c, Lines) = SumFunctionOnSet(a, Lines) + SumFunctionOnSet(b, Lines)
  BY <1>1, <1>2, SumOnAdded
<1> QED  BY <1>5, <1>6, <1>7, <1>8 DEF C

LEMMA UnitsOfNothing ==
  ASSUME NEW L \in SUBSET Lines, NEW amount, \A l \in L : amount[l] = 0, NEW p
  PROVE  Units(L, amount, p) = 0
<1> DEFINE h == [l \in Lines |-> IF l \in L /\ ProductOf[l] = p THEN amount[l] ELSE 0]
<1>1. IsFiniteSet(Lines)  BY SalesAssumption
<1>2. \A l \in Lines : h[l] = 0  OBVIOUS
<1>3. Units(L, amount, p) = SumFunctionOnSet(h, Lines)  BY UnitsOverLines
<1> HIDE DEF h
<1> QED  BY <1>1, <1>2, <1>3, SumOnZeros

-----------------------------------------------------------------------------
(* Stock *)

\* What the refund lines of all requests give back of a product.
GivenBack(p) == SumFunction([r \in Refunders |-> Units(Lines, refunded[r], p)])

LEMMA GivenBackIsInt ==
  ASSUME RowTypes, NEW p
  PROVE  GivenBack(p) \in Int /\ \A r \in Refunders : Units(Lines, refunded[r], p) \in Int
<1> DEFINE f == [r \in Refunders |-> Units(Lines, refunded[r], p)]
<1>1. \A r \in Refunders : Units(Lines, refunded[r], p) \in Int
  BY UnitsIsInt DEF RowTypes
<1>2. \A r \in Refunders : f[r] \in Int  BY <1>1
<1>3. GivenBack(p) = SumFunctionOnSet(f, Refunders)  BY DEF GivenBack, SumFunction
<1> HIDE DEF f
<1> QED  BY <1>1, <1>2, <1>3, RequestsAssumption, SumOnSplit

\* A request that has not refunded anything yet saves its refund.
LEMMA GivenBackMore ==
  ASSUME RowTypes, NEW r \in Refunders, refunded[r] = NoLines,
         refunded' = [refunded EXCEPT ![r] = typed[r]], NEW p
  PROVE  GivenBack(p)' = GivenBack(p) + Units(Lines, typed[r], p)
<1> DEFINE f == [q \in Refunders |-> Units(Lines, refunded[q], p)]
           g == [q \in Refunders |-> Units(Lines, refunded'[q], p)]
<1>1. /\ refunded' \in [Refunders -> [Lines -> Nat]]
      /\ refunded'[r] = typed[r]
      /\ \A q \in Refunders \ {r} : refunded'[q] = refunded[q]
  BY DEF RowTypes
<1>2. \A q \in Refunders :
        Units(Lines, refunded[q], p) \in Int /\ Units(Lines, refunded'[q], p) \in Int
  BY <1>1, UnitsIsInt DEF RowTypes
<1>3. \A q \in Refunders : f[q] \in Int /\ g[q] \in Int  BY <1>2
<1>4. \A q \in Refunders \ {r} : f[q] = g[q]  BY <1>1
<1>5. GivenBack(p) = SumFunctionOnSet(f, Refunders)  BY DEF GivenBack, SumFunction
<1>6. GivenBack(p)' = SumFunctionOnSet(g, Refunders)
  BY DEF GivenBack, SumFunction, Units
<1>7. f[r] = 0  BY UnitsOfNothing DEF NoLines
<1>8. g[r] = Units(Lines, typed[r], p)  BY <1>1
<1>9. SumFunctionOnSet(f, Refunders) \in Int  BY <1>3, RequestsAssumption, SumOnSplit, Zenon
<1> HIDE DEF f, g
<1>10. SumFunctionOnSet(g, Refunders) = SumFunctionOnSet(f, Refunders) - f[r] + g[r]
  BY <1>3, <1>4, RequestsAssumption, SumOnChanged
<1> QED  BY <1>3, <1>5, <1>6, <1>7, <1>8, <1>9, <1>10

\* Only a request that is done has refunded something.
RefundedOnce == \A r \in Refunders : pc[r] # "done" => refunded[r] = NoLines

StockInv ==
  /\ stock \in [Products -> Int]
  /\ RefundedOnce
  /\ StockMatchesRows

LEMMA InitStockInv == Init => StockInv
<1> SUFFICES ASSUME Init PROVE StockInv  OBVIOUS
<1>1. stock \in [Products -> Int]  BY SalesAssumption DEF Init
<1>2. RefundedOnce  BY DEF Init, RefundedOnce
<1>3. ASSUME NEW p \in Products
      PROVE  stock[p] = Opening[p] - Units(lineRows, Sold, p) + GivenBack(p)
  <2> DEFINE f == [r \in Refunders |-> Units(Lines, refunded[r], p)]
  <2>1. Units(lineRows, Sold, p) = 0  BY UnitsOfNothing DEF Init
  <2>2. \A r \in Refunders : f[r] = 0  BY UnitsOfNothing DEF Init, NoLines
  <2>3. GivenBack(p) = SumFunctionOnSet(f, Refunders)  BY DEF GivenBack, SumFunction
  <2> HIDE DEF f
  <2>4. GivenBack(p) = 0  BY <2>2, <2>3, RequestsAssumption, SumOnZeros
  <2> QED  BY <2>1, <2>4, SalesAssumption DEF Init
<1> QED  BY <1>1, <1>2, <1>3 DEF StockInv, StockMatchesRows, GivenBack

\* Steps that move no stock and save no refund.
LEMMA QuietStock ==
  ASSUME StockInv, lineRows' = lineRows, stock' = stock, refunded' = refunded,
         \A r \in Refunders : pc'[r] # "done" => pc[r] # "done"
  PROVE  StockInv'
<1>1. RefundedOnce'  BY DEF StockInv, RefundedOnce
<1>2. StockMatchesRows'
  BY Zenon DEF StockInv, StockMatchesRows, Units
<1> QED  BY <1>1, <1>2 DEF StockInv

LEMMA RingUpStock ==
  ASSUME IInv, StockInv, NEW s \in Sales, RingUp(s)
  PROVE  StockInv'
<1>1. /\ lineRows \in SUBSET Lines /\ LinesOf(s) \in SUBSET Lines
      /\ lineRows \cap LinesOf(s) = {}
  BY DEF IInv, RowTypes, RefundKeepsSale, LinesOf, RingUp
<1>2. Sold \in [Lines -> Nat]  BY SalesAssumption
<1>3. RefundedOnce'  BY DEF StockInv, RefundedOnce, RingUp
<1>4. \A p : Units(LinesOf(s), Sold, p) \in Int  BY <1>1, <1>2, UnitsIsInt
<1>5. stock' \in [Products -> Int]  BY <1>4 DEF StockInv, RingUp
<1>6. ASSUME NEW p \in Products
      PROVE  stock'[p] = Opening[p] - Units(lineRows', Sold, p) + GivenBack(p)'
  <2>1. stock[p] = Opening[p] - Units(lineRows, Sold, p) + GivenBack(p)
    BY DEF StockInv, StockMatchesRows, GivenBack
  <2>2. Units(lineRows', Sold, p) = Units(lineRows, Sold, p) + Units(LinesOf(s), Sold, p)
    BY <1>1, <1>2, UnitsTogether DEF RingUp
  <2>3. GivenBack(p)' = GivenBack(p)  BY DEF RingUp, GivenBack, Units
  <2>4. stock'[p] = stock[p] - Units(LinesOf(s), Sold, p)  BY DEF RingUp
  <2>5. GivenBack(p) \in Int /\ Units(lineRows, Sold, p) \in Int /\ Opening[p] \in Int
    BY <1>1, <1>2, GivenBackIsInt, UnitsIsInt, SalesAssumption DEF IInv
  <2> QED  BY <1>4, <2>1, <2>2, <2>3, <2>4, <2>5
<1>7. StockMatchesRows'
  BY <1>6, Zenon DEF StockMatchesRows, GivenBack, Units
<1> QED  BY <1>3, <1>5, <1>7 DEF StockInv

LEMMA RefundStock ==
  ASSUME IInv, StockInv, NEW r \in Refunders, CommitRefund(r)
  PROVE  StockInv'
<1>1. typed[r] \in [Lines -> Nat]  BY DEF IInv, RowTypes
<1>2. \A p : Units(Lines, typed[r], p) \in Int  BY <1>1, UnitsIsInt
<1>3. stock' \in [Products -> Int]  BY <1>2 DEF StockInv, CommitRefund, SaveRefund
<1>4. RefundedOnce'
  BY DEF StockInv, RefundedOnce, CommitRefund, SaveRefund, IInv, RowTypes, Requests
<1>5. refunded[r] = NoLines  BY DEF StockInv, RefundedOnce, CommitRefund
<1>6. ASSUME NEW p \in Products
      PROVE  stock'[p] = Opening[p] - Units(lineRows', Sold, p) + GivenBack(p)'
  <2>1. stock[p] = Opening[p] - Units(lineRows, Sold, p) + GivenBack(p)
    BY DEF StockInv, StockMatchesRows, GivenBack
  <2>2. GivenBack(p)' = GivenBack(p) + Units(Lines, typed[r], p)
    BY <1>5, GivenBackMore DEF CommitRefund, SaveRefund, IInv
  <2>3. stock'[p] = stock[p] + Units(Lines, typed[r], p)  BY DEF CommitRefund, SaveRefund
  <2>4. Units(lineRows', Sold, p) = Units(lineRows, Sold, p)
    BY DEF CommitRefund, SaveRefund, Units
  <2>5. lineRows \in SUBSET Lines /\ Sold \in [Lines -> Nat]
    BY SalesAssumption DEF IInv, RowTypes
  <2>6. GivenBack(p) \in Int /\ Units(lineRows, Sold, p) \in Int /\ Opening[p] \in Int
    BY <2>5, GivenBackIsInt, UnitsIsInt, SalesAssumption DEF IInv
  <2> QED  BY <1>2, <2>1, <2>2, <2>3, <2>4, <2>6
<1>7. StockMatchesRows'
  BY <1>6, Zenon DEF StockMatchesRows, GivenBack, Units
<1> QED  BY <1>3, <1>4, <1>7 DEF StockInv

\* The rows it deletes are the rows it has given back.
LEMMA DeletionStock ==
  ASSUME IInv, StockInv, NEW r \in Deleters, CommitDeletion(r)
  PROVE  StockInv'
<1> DEFINE kept == lineRows \ collected[r]
<1>1. /\ kept \in SUBSET Lines /\ collected[r] \in SUBSET Lines
      /\ kept \cap collected[r] = {}
      /\ kept \cup collected[r] = lineRows
  BY DEF IInv, RowTypes, GivesBackItsOwn, CommitDeletion
<1>2. Sold \in [Lines -> Nat]  BY SalesAssumption
<1>3. \A p : Units(collected[r], Sold, p) \in Int  BY <1>1, <1>2, UnitsIsInt
<1>4. RefundedOnce'
  BY RequestsAssumption DEF StockInv, RefundedOnce, CommitDeletion, IInv, RowTypes, Requests
<1>5. stock' \in [Products -> Int]  BY <1>3 DEF StockInv, CommitDeletion
<1>6. ASSUME NEW p \in Products
      PROVE  stock'[p] = Opening[p] - Units(lineRows', Sold, p) + GivenBack(p)'
  <2>1. stock[p] = Opening[p] - Units(lineRows, Sold, p) + GivenBack(p)
    BY DEF StockInv, StockMatchesRows, GivenBack
  <2>2. Units(lineRows, Sold, p) = Units(lineRows', Sold, p) + Units(collected[r], Sold, p)
    <3> HIDE DEF kept
    <3>1. Units(kept \cup collected[r], Sold, p)
            = Units(kept, Sold, p) + Units(collected[r], Sold, p)
      BY <1>1, <1>2, UnitsTogether
    <3>2. lineRows' = kept  BY DEF CommitDeletion, kept
    <3> QED  BY <1>1, <3>1, <3>2
  <2>3. GivenBack(p)' = GivenBack(p)  BY DEF CommitDeletion, GivenBack, Units
  <2>4. stock'[p] = stock[p] + Units(collected[r], Sold, p)  BY DEF CommitDeletion
  <2>5. lineRows' \in SUBSET Lines  BY <1>1 DEF CommitDeletion
  <2>6. GivenBack(p) \in Int /\ Units(lineRows', Sold, p) \in Int /\ Opening[p] \in Int
    BY <1>2, <2>5, GivenBackIsInt, UnitsIsInt, SalesAssumption DEF IInv
  <2> QED  BY <1>3, <2>1, <2>2, <2>3, <2>4, <2>6
<1>7. StockMatchesRows'
  BY <1>6, Zenon DEF StockMatchesRows, GivenBack, Units
<1> QED  BY <1>4, <1>5, <1>7 DEF StockInv

LEMMA NextStockInv == IInv /\ StockInv /\ [Next]_vars => StockInv'
<1> SUFFICES ASSUME IInv, StockInv, [Next]_vars PROVE StockInv'  OBVIOUS
<1>1. ASSUME NEW r \in Refunders, CheckRemaining(r) \/ RefuseRefund(r) PROVE StockInv'
  BY <1>1, QuietStock DEF CheckRemaining, RefuseRefund, IInv, RowTypes, Requests
<1>2. ASSUME NEW r \in Deleters, RefuseDeletion(r) \/ Collect(r) \/ DeleteLines(r)
      PROVE  StockInv'
  BY <1>2, QuietStock, RequestsAssumption
     DEF RefuseDeletion, Collect, DeleteLines, IInv, RowTypes, Requests
<1>3. ASSUME NEW r \in Requests, Fail(r) \/ Retry(r) PROVE StockInv'
  BY <1>3, QuietStock DEF Fail, Retry, IInv, RowTypes, Requests
<1>4. CASE UNCHANGED vars  BY <1>4, QuietStock DEF vars
<1> QED
  BY <1>1, <1>2, <1>3, <1>4, RingUpStock, RefundStock, DeletionStock DEF Next, AllAnswered

LEMMA StockInvariance == Spec => []StockInv
  BY InitStockInv, NextStockInv, Invariance, PTL DEF Spec

-----------------------------------------------------------------------------
(* The theorems *)

\* Whatever the requests are doing, the rows, the quantities and the stock are
\* well formed, and locks belong to deletions.
THEOREM TypeCorrect == Spec => []TypeOK
<1>1. IInv /\ StockInv => TypeOK  BY DEF IInv, StockInv, RowTypes, TypeOK
<1> QED  BY <1>1, Invariance, StockInvariance, PTL

\* However refunds and deletions interleave, fail and are sent again, a saved
\* refund keeps the sale and the lines it points at.
THEOREM RefundsKeepTheirSales == Spec => []RefundKeepsSale
<1>1. IInv => RefundKeepsSale  BY DEF IInv
<1> QED  BY <1>1, Invariance, PTL

\* Of deletions that collected the same lines only one gives their stock back.
THEOREM DeletionsGiveBackTheirOwn == Spec => []GivesBackItsOwn
<1>1. IInv => GivesBackItsOwn  BY DEF IInv
<1> QED  BY <1>1, Invariance, PTL

\* Stock is the opening stock, less what the surviving sale lines sold, plus
\* what the refund lines gave back, after any interleaving of sales, refunds,
\* deletions, failures and retries: nothing is given back twice or lost.
THEOREM StockIsWhatTheRowsSay == Spec => []StockMatchesRows
<1>1. StockInv => StockMatchesRows  BY DEF StockInv
<1> QED  BY <1>1, StockInvariance, PTL
=============================================================================
