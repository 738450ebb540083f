------------------------ MODULE FiscalPrintingProofs ------------------------
(***************************************************************************)
(* Proofs, for any documents and threads and however many attempts, lost   *)
(* answers, dead processes and restarts there are, that the variables of   *)
(* FiscalPrinting keep their types and that no two receipts carry the same *)
(* number; and, while no answer is lost, that a document that says PRINTED *)
(* was printed and a storno names the receipt of the sale it refunds.      *)
(***************************************************************************)
EXTENDS FiscalPrinting, TLAPS

-----------------------------------------------------------------------------
(* The inductive invariant *)

\* A thread that has drawn a number and has not opened a receipt with it.
Drawn(t) == pc[t] \in {"spawn", "starting", "open"}

\* A number nobody has drawn is not below the counter ...
BelowCounter ==
  /\ \A t \in Threads : Drawn(t) => unic[t] < counter
  /\ \A i \in DOMAIN receipts : receipts[i].unic < counter
  /\ slip # NoSlip => slip.unic < counter

\* ... a thread between the two statements of FiscalCounter.next holds the lock ...
Drawing == \A t \in Threads : pc[t] = "save" => counterLock = t /\ unic[t] = counter

\* ... and one that was drawn and not used belongs to one thread and no receipt.
DrawnOnce ==
  \A t \in Threads : Drawn(t) =>
    /\ \A u \in Threads : Drawn(u) /\ unic[u] = unic[t] => u = t
    /\ \A i \in DOMAIN receipts : receipts[i].unic # unic[t]
    /\ slip # NoSlip => slip.unic # unic[t]

IInv == TypeOK /\ BelowCounter /\ Drawing /\ DrawnOnce /\ NumbersUnique

-----------------------------------------------------------------------------
LEMMA InitTypeOK == Init => TypeOK
<1> SUFFICES ASSUME Init PROVE TypeOK  OBVIOUS
<1>1. AnyDocument \in Documents
  BY RefundsAssumption DEF AnyDocument, Documents
<1>2. slip \in Receipts  BY DEF Init, NoSlip, Receipts
<1>3. receipts \in Seq(Receipts)  BY DEF Init
<1>4. job \in [Threads -> Documents]  BY <1>1 DEF Init
<1> QED  BY <1>2, <1>3, <1>4 DEF Init, TypeOK

LEMMA InitIInv == Init => IInv
<1> SUFFICES ASSUME Init PROVE IInv  OBVIOUS
<1>1. BelowCounter /\ Drawing /\ DrawnOnce /\ NumbersUnique
  BY DEF Init, BelowCounter, Drawing, DrawnOnce, Drawn, NumbersUnique
<1> QED  BY <1>1, InitTypeOK DEF IInv

\* What Sell leaves on the device is the receipt that was open, with more lines.
LEMMA MoreLines ==
  ASSUME NEW s \in Receipts, NEW d \in Documents
  PROVE  /\ [s EXCEPT !.lines = @ \cup {d}] \in Receipts
         /\ [s EXCEPT !.lines = @ \cup {d}].unic = s.unic
<1>1. /\ s = [unic |-> s.unic, link |-> s.link, lines |-> s.lines]
      /\ s.unic \in Nat /\ s.link \in Nat /\ s.lines \in SUBSET Documents
  BY DEF Receipts
<1>2. [s EXCEPT !.lines = @ \cup {d}] =
        [unic |-> s.unic, link |-> s.link, lines |-> s.lines \cup {d}]
  BY <1>1
<1>3. s.lines \cup {d} \in SUBSET Documents  BY <1>1
<1> QED  BY <1>1, <1>2, <1>3 DEF Receipts

LEMMA BeginTypeOK ==
  ASSUME TypeOK, NEW t \in Threads, NEW d \in Documents, Begin(t, d)
  PROVE  TypeOK'
<1>1. d \in Refunds => OriginalOf[d] \in Documents
  BY RefundsAssumption DEF Documents
<1>2. link' \in [Threads -> Nat]  BY <1>1 DEF TypeOK, Begin
<1>3. pc' \in [Threads -> {"idle", "draw", "save", "spawn", "record"} \cup Printing]
  BY DEF TypeOK, Begin, Go
<1>4. /\ job' \in [Threads -> Documents] /\ answer' \in [Threads -> Nat]
      /\ attempts' \in Nat
  BY DEF TypeOK, Begin
<1> QED  BY <1>2, <1>3, <1>4 DEF TypeOK, Begin, books, number, device

LEMMA NextTypeOK == TypeOK /\ [Next]_vars => TypeOK'
<1> SUFFICES ASSUME TypeOK, [Next]_vars PROVE TypeOK'  OBVIOUS
<1> USE DEF TypeOK, Go, books, number, thread, device, Printing
<1>1. ASSUME NEW t \in Threads, LockCounter(t) PROVE TypeOK'
  BY <1>1 DEF LockCounter
<1>2. ASSUME NEW t \in Threads, SaveCounter(t) PROVE TypeOK'
  BY <1>2 DEF SaveCounter
<1>3. ASSUME NEW t \in Threads, Spawn(t) PROVE TypeOK'
  BY <1>3 DEF Spawn
<1>4. ASSUME NEW t \in Threads, Ready(t) \/ NotReady(t) PROVE TypeOK'
  BY <1>4 DEF Ready, NotReady
<1>5. ASSUME NEW t \in Threads, AppDies(t) PROVE TypeOK'
  BY <1>5 DEF AppDies
<1>6. ASSUME NEW t \in Threads, Stop(t) \/ OpenRefused(t) \/ Refused(t) PROVE TypeOK'
  BY <1>6 DEF Stop, OpenRefused, Refused
<1>7. ASSUME NEW t \in Threads, Open(t) PROVE TypeOK'
  <2>1. slip' \in Receipts  BY <1>7 DEF Open, Receipts
  <2>2. lost' \in Nat  BY <1>7 DEF Open, LoseAnswer
  <2>3. pc' \in [Threads -> {"idle", "draw", "save", "spawn", "record"} \cup Printing]
    BY <1>7 DEF Open
  <2> QED  BY <1>7, <2>1, <2>2, <2>3 DEF Open
<1>8. ASSUME NEW t \in Threads, Sell(t) PROVE TypeOK'
  <2>1. slip' \in Receipts  BY <1>8, MoreLines DEF Sell
  <2>2. lost' \in Nat  BY <1>8 DEF Sell, LoseAnswer
  <2>3. pc' \in [Threads -> {"idle", "draw", "save", "spawn", "record"} \cup Printing]
    BY <1>8 DEF Sell
  <2> QED  BY <1>8, <2>1, <2>2, <2>3 DEF Sell
<1>9. ASSUME NEW t \in Threads, Close(t) PROVE TypeOK'
  <2>1. receipts' \in Seq(Receipts) /\ Len(receipts') \in Nat
    BY <1>9 DEF Close
  <2>2. slip' \in Receipts
    BY <1>9 DEF Close, NoSlip, Receipts
  <2>3. answer' \in [Threads -> Nat]
    <3>1. CASE answer' = [answer EXCEPT ![t] = Len(receipts')]  BY <2>1, <3>1
    <3>2. CASE answer' = answer  BY <3>2
    <3> QED  BY <1>9, <3>1, <3>2 DEF Close
  <2>4. lost' \in Nat  BY <1>9 DEF Close, LoseAnswer
  <2>5. pc' \in [Threads -> {"idle", "draw", "save", "spawn", "record"} \cup Printing]
    BY <1>9 DEF Close
  <2> QED  BY <1>9, <2>1, <2>2, <2>3, <2>4, <2>5 DEF Close
<1>10. ASSUME NEW t \in Threads, Cancel(t) PROVE TypeOK'
  BY <1>10 DEF Cancel, NoSlip, Receipts
<1>11. ASSUME NEW t \in Threads, Record(t) PROVE TypeOK'
  BY <1>11 DEF Record
<1>12. CASE Restart  BY <1>12 DEF Restart
<1>13. CASE UNCHANGED vars  BY <1>13 DEF vars
<1> QED
  BY <1>1, <1>2, <1>3, <1>4, <1>5, <1>6, <1>7, <1>8, <1>9, <1>10, <1>11, <1>12, <1>13, BeginTypeOK
  DEF Next, Step

\* The variables keep their types.
THEOREM TypeCorrect == Spec => []TypeOK
  BY InitTypeOK, NextTypeOK, PTL DEF Spec

-----------------------------------------------------------------------------
(* Numbers *)

\* Steps in which nobody draws a number and no receipt is opened or closed.
LEMMA QuietStep ==
  ASSUME IInv, TypeOK', counter' = counter, unic' = unic, receipts' = receipts,
         slip' \in {slip, NoSlip} \/ (slip # NoSlip /\ slip'.unic = slip.unic),
         \A t \in Threads : Drawn(t)' => Drawn(t),
         \A t \in Threads : pc'[t] = "save" => pc[t] = "save" /\ counterLock' = counterLock
  PROVE  IInv'
<1> USE DEF IInv
<1>1. BelowCounter'  BY DEF BelowCounter
<1>2. Drawing'  BY DEF Drawing
<1>3. DrawnOnce'  BY DEF DrawnOnce
<1>4. NumbersUnique'  BY DEF NumbersUnique
<1> QED  BY <1>1, <1>2, <1>3, <1>4

LEMMA LockCounterIInv ==
  ASSUME IInv, TypeOK', NEW t \in Threads, LockCounter(t)
  PROVE  IInv'
<1> USE DEF IInv
<1>1. /\ pc'[t] = "save" /\ unic'[t] = counter /\ counterLock = NoOne /\ counterLock' = t
      /\ \A u \in Threads \ {t} : pc'[u] = pc[u] /\ unic'[u] = unic[u]
      /\ counter' = counter /\ receipts' = receipts /\ slip' = slip
  BY DEF LockCounter, Go, TypeOK, device
<1>2. \A u \in Threads : Drawn(u)' => u # t /\ Drawn(u) /\ unic'[u] = unic[u]
  BY <1>1 DEF Drawn
<1>3. BelowCounter'  BY <1>1, <1>2 DEF BelowCounter
<1>4. Drawing'  BY <1>1, ThreadsAssumption DEF Drawing
<1>5. DrawnOnce'  BY <1>1, <1>2 DEF DrawnOnce
<1>6. NumbersUnique'  BY <1>1 DEF NumbersUnique
<1> QED  BY <1>3, <1>4, <1>5, <1>6

\* The number leaves the counter: everything drawn before is below it.
LEMMA SaveCounterIInv ==
  ASSUME IInv, TypeOK', NEW t \in Threads, SaveCounter(t)
  PROVE  IInv'
<1> USE DEF IInv
<1>1. /\ pc[t] = "save" /\ pc'[t] = "spawn" /\ unic[t] = counter /\ counterLock = t
      /\ counter' = counter + 1 /\ counter \in Nat
      /\ \A u \in Threads \ {t} : pc'[u] = pc[u]
      /\ unic' = unic /\ receipts' = receipts /\ slip' = slip
  BY DEF SaveCounter, Go, TypeOK, Drawing, thread, device
<1>2. Drawn(t)' /\ \A u \in Threads \ {t} : Drawn(u)' <=> Drawn(u)
  BY <1>1 DEF Drawn
<1>3. /\ \A u \in Threads : unic[u] \in Nat
      /\ \A i \in DOMAIN receipts : receipts[i].unic \in Nat
      /\ slip.unic \in Nat
  <2>1. receipts \in Seq(Receipts) /\ slip \in Receipts /\ unic \in [Threads -> Nat]
    BY DEF TypeOK
  <2>2. \A x \in Receipts : x.unic \in Nat  BY DEF Receipts
  <2>3. \A i \in DOMAIN receipts : receipts[i] \in Receipts  BY <2>1
  <2> QED  BY <2>1, <2>2, <2>3
<1>4. BelowCounter'  BY <1>1, <1>2, <1>3 DEF BelowCounter
<1>5. Drawing'  BY <1>1 DEF Drawing
<1>6. DrawnOnce'  BY <1>1, <1>2, <1>3 DEF DrawnOnce, BelowCounter
<1>7. NumbersUnique'  BY <1>1 DEF NumbersUnique
<1> QED  BY <1>4, <1>5, <1>6, <1>7

\* A receipt is opened with a number no other receipt or thread has.
LEMMA OpenIInv ==
  ASSUME IInv, TypeOK', NEW t \in Threads, Open(t)
  PROVE  IInv'
<1> USE DEF IInv
<1>1. /\ pc[t] = "open" /\ pc'[t] \in {"sell", "stop"}
      /\ slip = NoSlip /\ slip'.unic = unic[t]
      /\ \A u \in Threads \ {t} : pc'[u] = pc[u]
      /\ unic' = unic /\ receipts' = receipts /\ counter' = counter /\ counterLock' = counterLock
  BY DEF Open, Go, TypeOK, thread, number
<1>2. Drawn(t) /\ ~Drawn(t)' /\ \A u \in Threads : Drawn(u)' => Drawn(u) /\ u # t
  BY <1>1 DEF Drawn
<1>3. BelowCounter'  BY <1>1, <1>2 DEF BelowCounter
<1>4. Drawing'  BY <1>1 DEF Drawing
<1>5. DrawnOnce'  BY <1>1, <1>2 DEF DrawnOnce
<1>6. NumbersUnique'  BY <1>1, <1>2 DEF NumbersUnique, DrawnOnce
<1> QED  BY <1>3, <1>4, <1>5, <1>6

\* The open receipt becomes the last one in the fiscal memory.
LEMMA CloseIInv ==
  ASSUME IInv, TypeOK', NEW t \in Threads, Close(t)
  PROVE  IInv'
<1> USE DEF IInv
<1>1. /\ pc[t] = "close" /\ pc'[t] \in {"stop", "cancel"}
      /\ slip # NoSlip /\ slip' = NoSlip /\ receipts' = Append(receipts, slip)
      /\ \A u \in Threads \ {t} : pc'[u] = pc[u]
      /\ unic' = unic /\ counter' = counter /\ counterLock' = counterLock
  BY DEF Close, Go, TypeOK, number
<1>2. \A i \in DOMAIN receipts' :
        \/ i \in DOMAIN receipts /\ receipts'[i] = receipts[i]
        \/ i = Len(receipts) + 1 /\ receipts'[i] = slip
  <2>1. receipts \in Seq(Receipts) /\ slip \in Receipts  BY DEF TypeOK
  <2> QED  BY <1>1, <2>1
<1>3. \A u \in Threads : Drawn(u)' => Drawn(u)  BY <1>1 DEF Drawn
<1>4. BelowCounter'  BY <1>1, <1>2, <1>3 DEF BelowCounter
<1>5. Drawing'  BY <1>1 DEF Drawing
<1>6. DrawnOnce'  BY <1>1, <1>2, <1>3 DEF DrawnOnce
<1>7. NumbersUnique'  BY <1>1, <1>2 DEF NumbersUnique
<1> QED  BY <1>4, <1>5, <1>6, <1>7

LEMMA NextIInv == IInv /\ [Next]_vars => IInv'
<1> SUFFICES ASSUME IInv, [Next]_vars PROVE IInv'  OBVIOUS
<1>0. TypeOK /\ TypeOK'  BY NextTypeOK DEF IInv
<1>1. ASSUME NEW t \in Threads,
             \/ Spawn(t) \/ Ready(t) \/ NotReady(t) \/ OpenRefused(t)
             \/ Refused(t) \/ Stop(t) \/ Record(t) \/ AppDies(t)
      PROVE  IInv'
  <2>1. /\ counter' = counter /\ counterLock' = counterLock /\ unic' = unic
        /\ receipts' = receipts /\ slip' = slip
    BY <1>1 DEF Spawn, Ready, NotReady, OpenRefused, Refused, Stop, Record, AppDies,
       number, thread, device
  <2>2. \A u \in Threads : Drawn(u)' => Drawn(u)
    BY <1>0, <1>1 DEF Spawn, Ready, NotReady, OpenRefused, Refused, Stop, Record, AppDies,
       Drawn, Go, TypeOK
  <2>3. \A u \in Threads : pc'[u] = "save" => pc[u] = "save"
    BY <1>0, <1>1 DEF Spawn, Ready, NotReady, OpenRefused, Refused, Stop, Record, AppDies,
       Go, TypeOK
  <2> QED  BY <1>0, <2>1, <2>2, <2>3, QuietStep
<1>2. ASSUME NEW t \in Threads, Sell(t) \/ Cancel(t) PROVE IInv'
  <2>1. /\ counter' = counter /\ counterLock' = counterLock /\ unic' = unic
        /\ receipts' = receipts
    BY <1>2 DEF Sell, Cancel, number, thread
  <2>2. slip' \in {slip, NoSlip} \/ (slip # NoSlip /\ slip'.unic = slip.unic)
    <3>1. slip \in Receipts  BY <1>0 DEF TypeOK
    <3>2. CASE Sell(t)  BY <1>0, <3>1, <3>2, MoreLines DEF Sell, TypeOK
    <3>3. CASE Cancel(t)  BY <3>3 DEF Cancel
    <3> QED  BY <1>2, <3>2, <3>3
  <2>3. \A u \in Threads : /\ Drawn(u)' => Drawn(u)
                           /\ pc'[u] = "save" => pc[u] = "save"
    BY <1>0, <1>2 DEF Sell, Cancel, Drawn, Go, TypeOK
  <2> QED  BY <1>0, <2>1, <2>2, <2>3, QuietStep
<1>3. ASSUME NEW t \in Threads, NEW d \in Documents, Begin(t, d) PROVE IInv'
  <2>1. /\ counter' = counter /\ counterLock' = counterLock /\ unic' = unic
        /\ receipts' = receipts /\ slip' = slip
    BY <1>3 DEF Begin, number, device
  <2>2. \A u \in Threads : /\ Drawn(u)' => Drawn(u)
                           /\ pc'[u] = "save" => pc[u] = "save"
    BY <1>0, <1>3 DEF Begin, Drawn, Go, TypeOK
  <2> QED  BY <1>0, <2>1, <2>2, QuietStep
<1>4. CASE Restart
  BY <1>0, <1>4, QuietStep DEF Restart, Drawn, thread, device
<1>5. CASE UNCHANGED vars
  BY <1>0, <1>5, QuietStep DEF vars, Drawn, number, thread, device
<1> QED
  BY <1>0, <1>1, <1>2, <1>3, <1>4, <1>5, LockCounterIInv, SaveCounterIInv, OpenIInv, CloseIInv
  DEF Next, Step

\* Two receipts never carry the same UnicSaleNum.
THEOREM NumbersAreUnique == Spec => []NumbersUnique
<1>1. IInv => NumbersUnique  BY DEF IInv
<1>2. Spec => []IInv  BY InitIInv, NextIInv, PTL DEF Spec
<1> QED  BY <1>1, <1>2, PTL
-----------------------------------------------------------------------------
(* Outcomes.  As long as no answer of the device is lost, one receipt is
   open at a time and only the thread that opened it sells on it, so what a
   thread believes it printed is what the device closed. *)

\* A thread that has a receipt open, as far as it knows.
OnDevice(t) == pc[t] \in {"sell", "close", "cancel"}

Alone == \A t, u \in Threads : OnDevice(t) /\ OnDevice(u) => t = u

\* It is the one that is open, with this thread's number, link and lines on it.
OwnSlip(t) ==
  /\ OnDevice(t) => slip # NoSlip
  /\ pc[t] \in {"sell", "close"} => slip.unic = unic[t] /\ slip.link = link[t]
  /\ pc[t] = "sell" => slip.lines = {}
  /\ pc[t] = "close" => slip.lines = {job[t]}

\* What a receipt says belongs to the document.
IsReceiptOf(n, d, u) ==
  n \in DOMAIN receipts /\ receipts[n].unic = u /\ receipts[n].lines = {d}

\* An answer is the number of the receipt this thread has closed.
Answered(t) ==
  /\ pc[t] \notin {"idle", "stop", "record"} => answer[t] = 0
  /\ pc[t] \in {"stop", "record"} /\ answer[t] # 0 => IsReceiptOf(answer[t], job[t], unic[t])

\* A thread that prints a refund knows the receipt of the original.
Linked(t) ==
  pc[t] \notin {"idle", "stop", "record"} /\ job[t] \in Refunds =>
    link[t] \in DOMAIN receipts /\ receipts[link[t]].lines = {OriginalOf[job[t]]}

\* Numbers start at 1, so an open receipt differs from none.
Positive ==
  /\ counter > 0
  /\ \A t \in Threads : pc[t] = "save" \/ Drawn(t) => unic[t] > 0

Printed == \A d \in Documents : status[d] = "PRINTED" => IsReceiptOf(receiptNo[d], d, unicOf[d])

Stornos ==
  \A i \in DOMAIN receipts, d \in Refunds : d \in receipts[i].lines =>
    receipts[i].link \in 1..(i - 1) /\ receipts[receipts[i].link].lines = {OriginalOf[d]}

Sound(t) == OwnSlip(t) /\ Answered(t) /\ Linked(t)

Outcome == Alone /\ Positive /\ Printed /\ Stornos /\ \A t \in Threads : Sound(t)

OInv == lost = 0 => Outcome

-----------------------------------------------------------------------------
LEMMA InitOutcome == Init => OInv
  BY DEF Init, OInv, Outcome, Alone, Positive, Printed, Stornos, Sound, OnDevice, OwnSlip,
     Answered, Linked, Drawn

\* A thread that a step leaves alone stays sound when no receipt is lost and its
\* slip is not touched.
LEMMA OthersSound ==
  ASSUME NEW u \in Threads, Sound(u),
         pc'[u] = pc[u], job'[u] = job[u], link'[u] = link[u], unic'[u] = unic[u],
         answer'[u] = answer[u],
         OnDevice(u) => slip' = slip,
         \A i \in DOMAIN receipts : i \in DOMAIN receipts' /\ receipts'[i] = receipts[i]
  PROVE  Sound(u)'
<1>1. OwnSlip(u)'  BY DEF Sound, OwnSlip, OnDevice
<1>2. Answered(u)'  BY DEF Sound, Answered, IsReceiptOf
<1>3. Linked(u)'  BY DEF Sound, Linked
<1> QED  BY <1>1, <1>2, <1>3 DEF Sound

\* Steps of one thread that leave the records and the fiscal memory as they are.
LEMMA OwnStep ==
  ASSUME TypeOK, Outcome, NEW t \in Threads,
         books' = books, receipts' = receipts, job' = job, link' = link, answer' = answer,
         \A u \in Threads \ {t} : pc'[u] = pc[u] /\ unic'[u] = unic[u],
         slip' = slip \/ OnDevice(t) \/ slip = NoSlip,
         OnDevice(t)' => OnDevice(t) \/ slip = NoSlip,
         Positive', Sound(t)'
  PROVE  Outcome'
<1>1. \A u \in Threads : OnDevice(u) => slip # NoSlip
  BY DEF Outcome, Sound, OwnSlip
<1>2. ASSUME NEW u \in Threads, u # t PROVE Sound(u)'
  <2>1. OnDevice(u) => slip' = slip
    BY <1>1, <1>2 DEF Outcome, Alone
  <2> QED  BY <1>2, <2>1, OthersSound DEF Outcome
<1>3. Alone'
  BY <1>1 DEF Outcome, Alone, OnDevice
<1>4. Printed' /\ Stornos'
  BY DEF Outcome, Printed, Stornos, IsReceiptOf, books
<1> QED  BY <1>2, <1>3, <1>4 DEF Outcome

-----------------------------------------------------------------------------
LEMMA BeginOutcome ==
  ASSUME TypeOK, Outcome, NEW t \in Threads, NEW d \in Documents, Begin(t, d)
  PROVE  Outcome'
<1>1. /\ pc[t] = "idle" /\ pc'[t] \in {"record", "draw"} /\ job'[t] = d /\ answer'[t] = 0
      /\ link'[t] = IF d \in Refunds THEN receiptNo[OriginalOf[d]] ELSE 0
      /\ pc'[t] = "draw" /\ d \in Refunds => status[OriginalOf[d]] = "PRINTED"
      /\ \A u \in Threads \ {t} : /\ pc'[u] = pc[u] /\ job'[u] = job[u]
                                  /\ link'[u] = link[u] /\ answer'[u] = answer[u]
      /\ unic' = unic /\ receipts' = receipts /\ slip' = slip /\ counter' = counter
      /\ status' = status /\ receiptNo' = receiptNo /\ unicOf' = unicOf
  BY DEF Begin, Go, TypeOK, books, number, device
<1>2. Sound(t)'
  <2>1. OwnSlip(t)' /\ Answered(t)'
    BY <1>1 DEF OwnSlip, OnDevice, Answered
  <2>2. Linked(t)'
    <3>1. d \in Refunds => OriginalOf[d] \in Documents
      BY RefundsAssumption DEF Documents
    <3> QED  BY <1>1, <3>1 DEF Linked, Outcome, Printed, IsReceiptOf
  <2> QED  BY <2>1, <2>2 DEF Sound
<1>3. ASSUME NEW u \in Threads, u # t PROVE Sound(u)'
  BY <1>1, <1>3, OthersSound DEF Outcome
<1>4. Alone' /\ Positive'
  BY <1>1 DEF Outcome, Alone, OnDevice, Positive, Drawn
<1>5. Printed' /\ Stornos'
  BY <1>1 DEF Outcome, Printed, Stornos, IsReceiptOf
<1> QED  BY <1>2, <1>3, <1>4, <1>5 DEF Outcome

\* Drawing a number and the life of ECRCommApp.
LEMMA DrawOutcome ==
  ASSUME IInv, Outcome, NEW t \in Threads,
         LockCounter(t) \/ SaveCounter(t) \/ Spawn(t) \/ Ready(t) \/ NotReady(t) \/ AppDies(t)
  PROVE  Outcome'
<1>0. TypeOK /\ Drawing  BY DEF IInv
<1>1. /\ \A u \in Threads \ {t} : pc'[u] = pc[u] /\ unic'[u] = unic[u]
      /\ job' = job /\ link' = link /\ answer' = answer
      /\ books' = books /\ receipts' = receipts /\ slip' = slip
  BY <1>0 DEF LockCounter, SaveCounter, Spawn, Ready, NotReady, AppDies, Go, TypeOK, device, thread
<1>2. \/ pc[t] \in {"draw", "save", "spawn", "starting"} /\
         pc'[t] \in {"save", "spawn", "starting", "open", "record"}
      \/ pc'[t] = pc[t] /\ unic' = unic
  BY <1>0 DEF LockCounter, SaveCounter, Spawn, Ready, NotReady, AppDies, Go, TypeOK, thread
<1>3. Positive'
  <2>1. CASE LockCounter(t)
    BY <1>0, <2>1 DEF LockCounter, Go, TypeOK, Outcome, Positive, Drawn
  <2>2. CASE SaveCounter(t)
    BY <1>0, <2>2 DEF SaveCounter, Go, TypeOK, Outcome, Positive, Drawn, Drawing, thread
  <2>3. CASE Spawn(t) \/ Ready(t) \/ NotReady(t) \/ AppDies(t)
    <3>1. counter' = counter /\ unic' = unic
      BY <2>3 DEF Spawn, Ready, NotReady, AppDies, number, thread
    <3>2. Drawn(t)' => Drawn(t)
      BY <1>0, <2>3 DEF Spawn, Ready, NotReady, AppDies, Go, Drawn, TypeOK
    <3>3. pc'[t] = "save" => pc[t] = "save"
      BY <1>0, <2>3 DEF Spawn, Ready, NotReady, AppDies, Go, TypeOK
    <3>4. \A u \in Threads \ {t} : Drawn(u)' <=> Drawn(u)  BY <1>1 DEF Drawn
    <3> QED  BY <1>1, <3>1, <3>2, <3>3, <3>4 DEF Outcome, Positive
  <2> QED  BY <2>1, <2>2, <2>3
<1>4. Sound(t)'
  <2>1. CASE pc'[t] = pc[t] /\ unic' = unic
    BY <1>1, <2>1, OthersSound DEF Outcome
  <2>2. CASE pc[t] \in {"draw", "save", "spawn", "starting"} /\
             pc'[t] \in {"save", "spawn", "starting", "open", "record"}
    BY <1>1, <2>2 DEF Outcome, Sound, OwnSlip, OnDevice, Answered, Linked
  <2> QED  BY <1>2, <2>1, <2>2
<1>5. OnDevice(t)' => OnDevice(t)  BY <1>2 DEF OnDevice
<1> QED  BY <1>0, <1>1, <1>3, <1>4, <1>5, OwnStep

\* A receipt is opened, or not.
LEMMA OpenOutcome ==
  ASSUME TypeOK, Outcome, NEW t \in Threads, lost' = lost,
         Open(t) \/ OpenRefused(t)
  PROVE  Outcome'
<1>1. /\ pc[t] = "open"
      /\ \A u \in Threads \ {t} : pc'[u] = pc[u] /\ unic'[u] = unic[u]
      /\ job' = job /\ link' = link /\ answer' = answer /\ unic' = unic /\ counter' = counter
      /\ books' = books /\ receipts' = receipts
  BY DEF Open, OpenRefused, Go, TypeOK, device, thread, number
<1>2. \/ /\ slip = NoSlip /\ pc'[t] = "sell"
         /\ slip' = [unic |-> unic[t], link |-> link[t], lines |-> {}]
      \/ slip' = slip /\ pc'[t] = "stop"
  BY DEF Open, OpenRefused, Go, TypeOK, LoseAnswer, device
<1>3. Positive'
  BY <1>1, <1>2 DEF Outcome, Positive, Drawn
<1>4. Sound(t)'
  <2>1. OwnSlip(t)'
    <3>1. unic[t] # 0 /\ NoSlip.unic = 0
      BY <1>1 DEF Outcome, Positive, Drawn, TypeOK, NoSlip
    <3> QED  BY <1>1, <1>2, <3>1 DEF OwnSlip, OnDevice
  <2>2. Answered(t)' /\ Linked(t)'
    BY <1>1, <1>2 DEF Outcome, Sound, Answered, Linked
  <2> QED  BY <2>1, <2>2 DEF Sound
<1>5. OnDevice(t)' => slip = NoSlip  BY <1>2 DEF OnDevice
<1>6. slip' = slip \/ slip = NoSlip  BY <1>2
<1> QED  BY <1>1, <1>3, <1>4, <1>5, <1>6, OwnStep

\* Lines are sold, a command fails, the receipt is cancelled, the service stopped.
LEMMA SellOutcome ==
  ASSUME TypeOK, Outcome, NEW t \in Threads, lost' = lost,
         Sell(t) \/ Refused(t) \/ Cancel(t) \/ Stop(t)
  PROVE  Outcome'
<1>1. /\ \A u \in Threads \ {t} : pc'[u] = pc[u] /\ unic'[u] = unic[u]
      /\ job' = job /\ link' = link /\ answer' = answer /\ unic' = unic /\ counter' = counter
      /\ books' = books /\ receipts' = receipts
  BY DEF Sell, Refused, Cancel, Stop, Go, TypeOK, device, thread, number
<1>2. \/ Sell(t) /\ pc[t] = "sell" /\ pc'[t] = "close"
      \/ pc[t] \in {"sell", "close"} /\ pc'[t] \in {"cancel", "stop"} /\ slip' = slip
      \/ pc[t] = "cancel" /\ pc'[t] = "stop"
      \/ pc[t] = "stop" /\ pc'[t] = "record" /\ slip' = slip
  BY DEF Sell, Refused, Cancel, Stop, Go, TypeOK, LoseAnswer, device
<1>3. Positive'
  BY <1>1, <1>2 DEF Outcome, Positive, Drawn
<1>4. Sound(t)'
  <2>1. CASE Sell(t) /\ pc[t] = "sell" /\ pc'[t] = "close"
    <3>1. slip.unic = unic[t] /\ slip.link = link[t] /\ slip.lines = {} /\ slip \in Receipts
      BY <2>1 DEF Outcome, Sound, OwnSlip, TypeOK
    <3>2. slip' = [slip EXCEPT !.lines = @ \cup {job[t]}]  BY <2>1 DEF Sell
    <3>3. slip'.unic = unic[t] /\ slip'.link = link[t] /\ slip'.lines = {job[t]}
      BY <3>1, <3>2 DEF Receipts
    <3>4. slip' # NoSlip  BY <3>3 DEF NoSlip
    <3> QED  BY <1>1, <2>1, <3>3, <3>4 DEF Outcome, Sound, OwnSlip, OnDevice, Answered, Linked
  <2>2. CASE pc[t] \in {"sell", "close"} /\ pc'[t] \in {"cancel", "stop"} /\ slip' = slip
    BY <1>1, <2>2 DEF Outcome, Sound, OwnSlip, OnDevice, Answered, Linked
  <2>3. CASE pc[t] = "cancel" /\ pc'[t] = "stop"
    BY <1>1, <2>3 DEF Outcome, Sound, OwnSlip, OnDevice, Answered, Linked
  <2>4. CASE pc[t] = "stop" /\ pc'[t] = "record" /\ slip' = slip
    BY <1>1, <2>4 DEF Outcome, Sound, OwnSlip, OnDevice, Answered, Linked, IsReceiptOf
  <2> QED  BY <1>2, <2>1, <2>2, <2>3, <2>4
<1>5. (OnDevice(t)' => OnDevice(t)) /\ (slip' = slip \/ OnDevice(t))
  BY <1>2 DEF OnDevice
<1> QED  BY <1>1, <1>3, <1>4, <1>5, OwnStep

\* The receipt of the thread becomes the last one of the fiscal memory.
LEMMA CloseOutcome ==
  ASSUME TypeOK, Outcome, NEW t \in Threads, lost' = lost, Close(t)
  PROVE  Outcome'
<1>1. /\ pc[t] = "close" /\ pc'[t] = "stop" /\ answer'[t] = Len(receipts')
      /\ \A u \in Threads \ {t} : pc'[u] = pc[u] /\ answer'[u] = answer[u]
      /\ job' = job /\ link' = link /\ unic' = unic /\ counter' = counter
      /\ status' = status /\ receiptNo' = receiptNo /\ unicOf' = unicOf
      /\ slip # NoSlip /\ receipts' = Append(receipts, slip)
  BY DEF Close, Go, TypeOK, LoseAnswer, books, number
<1>2. slip.unic = unic[t] /\ slip.link = link[t] /\ slip.lines = {job[t]}
  BY <1>1 DEF Outcome, Sound, OwnSlip
<1>3. receipts \in Seq(Receipts) /\ slip \in Receipts /\ Len(receipts) \in Nat
  BY DEF TypeOK
<1>4. /\ DOMAIN receipts = 1..Len(receipts) /\ DOMAIN receipts' = 1..(Len(receipts) + 1)
      /\ Len(receipts') = Len(receipts) + 1
      /\ receipts'[Len(receipts) + 1] = slip
      /\ \A i \in DOMAIN receipts : receipts'[i] = receipts[i]
  BY <1>1, <1>3
<1>5. Sound(t)'
  <2>1. IsReceiptOf(answer[t], job[t], unic[t])'
    BY <1>1, <1>2, <1>3, <1>4 DEF IsReceiptOf
  <2> QED  BY <1>1, <2>1 DEF Sound, OwnSlip, OnDevice, Answered, Linked
<1>6. ASSUME NEW u \in Threads, u # t PROVE Sound(u)'
  <2>1. ~ OnDevice(u)  BY <1>1, <1>6 DEF Outcome, Alone, OnDevice
  <2> QED  BY <1>1, <1>3, <1>4, <1>6, <2>1, OthersSound DEF Outcome
<1>7. Alone' /\ Positive'
  BY <1>1 DEF Outcome, Alone, OnDevice, Positive, Drawn
<1>8. Printed'
  BY <1>1, <1>3, <1>4 DEF Outcome, Printed, IsReceiptOf
<1>9. Stornos'
  <2> SUFFICES ASSUME NEW i \in DOMAIN receipts', NEW d \in Refunds, d \in receipts'[i].lines
               PROVE  /\ receipts'[i].link \in 1..(i - 1)
                      /\ receipts'[receipts'[i].link].lines = {OriginalOf[d]}
    BY DEF Stornos
  <2>1. CASE i \in DOMAIN receipts
    <3>1. /\ receipts[i].link \in 1..(i - 1)
          /\ receipts[receipts[i].link].lines = {OriginalOf[d]}
      BY <1>4, <2>1 DEF Outcome, Stornos
    <3>2. receipts[i].link \in DOMAIN receipts  BY <1>3, <1>4, <2>1, <3>1
    <3> QED  BY <1>4, <2>1, <3>1, <3>2
  <2>2. CASE i = Len(receipts) + 1
    <3>1. d = job[t]  BY <1>2, <1>4, <2>2
    <3>2. link[t] \in DOMAIN receipts /\ receipts[link[t]].lines = {OriginalOf[d]}
      BY <1>1, <3>1 DEF Outcome, Sound, Linked
    <3> QED  BY <1>2, <1>3, <1>4, <2>2, <3>2
  <2> QED  BY <1>3, <1>4, <2>1, <2>2
<1> QED  BY <1>5, <1>6, <1>7, <1>8, <1>9 DEF Outcome

\* The outcome is written on the document.
LEMMA RecordOutcome ==
  ASSUME TypeOK, Outcome, NEW t \in Threads, Record(t)
  PROVE  Outcome'
<1>1. /\ pc[t] = "record" /\ pc'[t] = "idle"
      /\ \A u \in Threads \ {t} : pc'[u] = pc[u]
      /\ job' = job /\ link' = link /\ unic' = unic /\ answer' = answer /\ counter' = counter
      /\ slip' = slip /\ receipts' = receipts /\ job[t] \in Documents
  BY DEF Record, Go, TypeOK, thread, number, device
<1>2. ASSUME NEW u \in Threads PROVE Sound(u)'
  <2>1. CASE u = t
    BY <1>1, <2>1 DEF Sound, OwnSlip, OnDevice, Answered, Linked
  <2>2. CASE u # t
    BY <1>1, <2>2, OthersSound DEF Outcome
  <2> QED  BY <2>1, <2>2
<1>3. Alone' /\ Positive' /\ Stornos'
  BY <1>1 DEF Outcome, Alone, OnDevice, Positive, Drawn, Stornos
<1>4. Printed'
  <2>1. CASE answer[t] # 0
    <3>1. IsReceiptOf(answer[t], job[t], unic[t])
      BY <1>1, <2>1 DEF Outcome, Sound, Answered
    <3>2. /\ receiptNo'[job[t]] = answer[t] /\ unicOf'[job[t]] = unic[t]
          /\ \A d \in Documents \ {job[t]} :
               status'[d] = status[d] /\ receiptNo'[d] = receiptNo[d] /\ unicOf'[d] = unicOf[d]
      BY <1>1, <2>1 DEF Record, TypeOK
    <3> QED  BY <1>1, <3>1, <3>2 DEF Outcome, Printed, IsReceiptOf
  <2>2. CASE answer[t] = 0
    BY <1>1, <2>2 DEF Record, TypeOK, Outcome, Printed, IsReceiptOf
  <2> QED  BY <2>1, <2>2
<1> QED  BY <1>2, <1>3, <1>4 DEF Outcome

\* A restart, or nothing.
LEMMA RestartOutcome ==
  ASSUME TypeOK, Outcome, Restart \/ UNCHANGED vars
  PROVE  Outcome'
<1>1. CASE Restart
  <2>1. /\ \A u \in Threads : pc'[u] = "idle"
        /\ counter' = counter /\ receipts' = receipts /\ slip' = slip
        /\ status' = status /\ receiptNo' = receiptNo /\ unicOf' = unicOf
    BY <1>1 DEF Restart, books, device
  <2> QED
    BY <2>1 DEF Outcome, Alone, OnDevice, Positive, Drawn, Printed, Stornos, IsReceiptOf,
       Sound, OwnSlip, Answered, Linked
<1>2. CASE UNCHANGED vars
  BY <1>2 DEF vars, books, number, thread, device, Outcome, Alone, OnDevice, Positive, Drawn,
     Printed, Stornos, IsReceiptOf, Sound, OwnSlip, Answered, Linked
<1> QED  BY <1>1, <1>2

LEMMA NextOutcome == IInv /\ OInv /\ [Next]_vars => OInv'
<1> SUFFICES ASSUME IInv, OInv, [Next]_vars, lost' = 0 PROVE Outcome'
  BY DEF OInv
<1>0. TypeOK  BY DEF IInv
<1>1. lost \in Nat /\ (lost' = lost \/ lost' = lost + 1)
  BY <1>0 DEF TypeOK, Next, Step, Begin, LockCounter, SaveCounter, Spawn, Ready, NotReady, Open,
     OpenRefused, Sell, Close, Refused, Cancel, Stop, Record, AppDies, Restart, LoseAnswer, vars
<1>2. lost' = lost /\ Outcome  BY <1>1 DEF OInv
<1> QED
  BY <1>0, <1>2, BeginOutcome, DrawOutcome, OpenOutcome, SellOutcome, CloseOutcome,
     RecordOutcome, RestartOutcome
  DEF Next, Step

LEMMA Outcomes == Spec => [](IInv /\ OInv)
<1>1. Init => IInv /\ OInv  BY InitIInv, InitOutcome
<1>2. IInv /\ OInv /\ [Next]_vars => (IInv /\ OInv)'  BY NextIInv, NextOutcome
<1> QED  BY <1>1, <1>2, PTL DEF Spec

-----------------------------------------------------------------------------
(* The theorems *)

\* attempt_print, attempt_print_refund: while no answer of the device is lost, a
\* document marked PRINTED carries the number of a receipt with its own lines.
THEOREM PrintedWasPrinted == Spec => []PrintedIsPrinted
<1>1. OInv => PrintedIsPrinted
  BY DEF OInv, Outcome, Printed, IsReceiptOf, PrintedIsPrinted
<1> QED  BY <1>1, Outcomes, PTL

\* print_fiscal_refund: while no answer is lost, a storno's DocLink is an earlier
\* receipt, that of the sale it refunds.
THEOREM StornosFollow == Spec => []StornoFollowsOriginal
<1>1. OInv => StornoFollowsOriginal
  BY DEF OInv, Outcome, Stornos, StornoFollowsOriginal
<1> QED  BY <1>1, Outcomes, PTL
=============================================================================
