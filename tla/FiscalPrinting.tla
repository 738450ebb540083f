--------------------------- MODULE FiscalPrinting ---------------------------
(***************************************************************************)
(* How STORA prints fiscal receipts (sales/fiscal.py): after a sale or a   *)
(* refund is committed, and again whenever somebody clicks "Retry", the    *)
(* server's thread draws a number from FiscalCounter, starts ECRCommApp,   *)
(* opens a receipt on the device, sells, closes it, stops ECRCommApp, and  *)
(* records on the document what it believes has happened.  Threads run     *)
(* concurrently; a command may be executed though its answer is lost; the  *)
(* server may stop between any two steps.                                  *)
(*                                                                         *)
(* ECRCommApp and the device are external: a service that answers while a  *)
(* process of it lives, and one open receipt at a time.                    *)
(***************************************************************************)
EXTENDS Integers, Sequences, FiniteSets

CONSTANTS
  Sales,        \* cash sales
  Refunds,      \* refunds of them
  OriginalOf,   \* the sale a refund is of
  Threads,      \* request threads of the server
  NoOne,        \* no thread
  MaxAttempts,  \* bound: attempts to print, over all documents
  MaxLost       \* bound: answers of the device that get lost

Documents == Sales \cup Refunds

ASSUME RefundsAssumption ==
  /\ Sales # {}
  /\ Sales \cap Refunds = {}
  /\ OriginalOf \in [Refunds -> Sales]

ASSUME ThreadsAssumption == NoOne \notin Threads

ASSUME BoundsAssumption == MaxAttempts \in Nat /\ MaxLost \in Nat

\* What a thread's job is before it has one.
AnyDocument == CHOOSE d \in Documents : TRUE

VARIABLES
  status,     \* fiscal_status of a document
  receiptNo,  \* fiscal_receipt_number, 0 when there is none
  unicOf,     \* fiscal_unic_sale_num: the number its recorded receipt was opened with
  counter,    \* FiscalCounter.next_number
  counterLock,\* the thread that has the counter's row locked
  pc,
  job,        \* the document a thread prints
  link,       \* for a refund, DocLink: the number of the original's receipt
  unic,       \* the UnicSaleNum the thread has drawn
  answer,     \* receipt number FDEndFiscRcp answered with, 0 for a failure
  app,        \* the ECRCommApp process a thread has started is alive
  abandoned,  \* an ECRCommApp process is alive that no thread will stop
  slip,       \* the receipt that is open on the device
  receipts,   \* the device's fiscal memory: the receipts it has closed
  attempts, lost   \* how much of the bounds is used up

books == <<status, receiptNo, unicOf>>
number == <<counter, counterLock>>
thread == <<job, link, unic, answer>>
device == <<slip, receipts>>
vars == <<books, number, pc, thread, app, abandoned, device, attempts, lost>>

NoSlip == [unic |-> 0, link |-> 0, lines |-> {}]

Printing == {"starting", "open", "sell", "close", "cancel", "stop"}

\* Any ECRCommApp that listens answers everybody: they share one port.
ServiceUp == abandoned \/ \E t \in Threads : app[t]

Go(t, phase) == pc' = [pc EXCEPT ![t] = phase]

LoseAnswer == lost < MaxLost /\ lost' = lost + 1

-----------------------------------------------------------------------------
Init ==
  /\ status = [d \in Documents |-> "NONE"]
  /\ receiptNo = [d \in Documents |-> 0]
  /\ unicOf = [d \in Documents |-> 0]
  /\ counter = 1 /\ counterLock = NoOne
  /\ pc = [t \in Threads |-> "idle"]
  /\ job = [t \in Threads |-> AnyDocument]
  /\ link = [t \in Threads |-> 0]
  /\ unic = [t \in Threads |-> 0]
  /\ answer = [t \in Threads |-> 0]
  /\ app = [t \in Threads |-> FALSE]
  /\ abandoned = FALSE
  /\ slip = NoSlip /\ receipts = <<>>
  /\ attempts = 0 /\ lost = 0

\* Fault: DocLink is the sale's primary key.
BeginLinkingSale(t, d) ==
  /\ pc[t] = "idle"
  /\ status[d] # "PRINTED"
  /\ attempts < MaxAttempts
  /\ attempts' = attempts + 1
  /\ job' = [job EXCEPT ![t] = d]
  /\ link' = [link EXCEPT ![t] = IF d \in Refunds THEN OriginalOf[d] ELSE 0]
  /\ answer' = [answer EXCEPT ![t] = 0]
  /\ Go(t, "draw")
  /\ UNCHANGED <<books, number, unic, app, abandoned, device, lost>>

\* Fault: a refund is printed whatever became of its original sale.
BeginUnprinted(t, d) ==
  /\ pc[t] = "idle"
  /\ status[d] # "PRINTED"
  /\ attempts < MaxAttempts
  /\ attempts' = attempts + 1
  /\ job' = [job EXCEPT ![t] = d]
  /\ link' = [link EXCEPT ![t] = IF d \in Refunds THEN receiptNo[OriginalOf[d]] ELSE 0]
  /\ answer' = [answer EXCEPT ![t] = 0]
  /\ Go(t, "draw")
  /\ UNCHANGED <<books, number, unic, app, abandoned, device, lost>>

\* A document is printed after its checkout or by "Retry", unless it has been
\* printed already; a refund only when its original sale was.  Other failed
\* checks (no lines, no tax letter) end the attempt here too.
Begin(t, d) ==
  /\ pc[t] = "idle"
  /\ status[d] # "PRINTED"
  /\ attempts < MaxAttempts
  /\ attempts' = attempts + 1
  /\ job' = [job EXCEPT ![t] = d]
  /\ link' = [link EXCEPT ![t] = IF d \in Refunds THEN receiptNo[OriginalOf[d]] ELSE 0]
  /\ answer' = [answer EXCEPT ![t] = 0]
  /\ \/ Go(t, "record")
     \/ /\ d \in Refunds => status[OriginalOf[d]] = "PRINTED"
        /\ Go(t, "draw")
  /\ UNCHANGED <<books, number, unic, app, abandoned, device, lost>>

\* Fault: the counter is read without select_for_update.
ReadCounter(t) ==
  /\ pc[t] = "draw"
  /\ unic' = [unic EXCEPT ![t] = counter]
  /\ Go(t, "save")
  /\ UNCHANGED <<books, number, job, link, answer, app, abandoned, device, attempts, lost>>

\* FiscalCounter.next locks the counter's row and reads it ...
LockCounter(t) ==
  /\ pc[t] = "draw"
  /\ counterLock = NoOne
  /\ counterLock' = t
  /\ unic' = [unic EXCEPT ![t] = counter]
  /\ Go(t, "save")
  /\ UNCHANGED <<books, counter, job, link, answer, app, abandoned, device, attempts, lost>>

\* ... writes the next number and commits.
SaveCounter(t) ==
  /\ pc[t] = "save"
  /\ counter' = unic[t] + 1
  /\ counterLock' = NoOne
  /\ Go(t, "spawn")
  /\ UNCHANGED <<books, thread, app, abandoned, device, attempts, lost>>

-----------------------------------------------------------------------------
(* ECRCommApp *)

\* Popen, which may fail.
Spawn(t) ==
  /\ pc[t] = "spawn"
  /\ \/ Go(t, "starting") /\ app' = [app EXCEPT ![t] = TRUE]
     \/ Go(t, "record") /\ UNCHANGED app
  /\ UNCHANGED <<books, number, thread, abandoned, device, attempts, lost>>

\* _wait_for_server: FDStatus is answered by whichever process listens.
Ready(t) ==
  /\ pc[t] = "starting"
  /\ app[t] /\ ServiceUp
  /\ Go(t, "open")
  /\ UNCHANGED <<books, number, thread, app, abandoned, device, attempts, lost>>

\* It gives up.  The exception leaves _run_receipt before its try block, so a
\* process that is still alive is nobody's any more.
NotReady(t) ==
  /\ pc[t] = "starting"
  /\ abandoned' = (abandoned \/ app[t])
  /\ app' = [app EXCEPT ![t] = FALSE]
  /\ Go(t, "record")
  /\ UNCHANGED <<books, number, thread, device, attempts, lost>>

\* A process ends by itself: the port is taken, or it crashes.
AppDies(t) ==
  /\ app[t]
  /\ app' = [app EXCEPT ![t] = FALSE]
  /\ UNCHANGED <<books, number, pc, thread, abandoned, device, attempts, lost>>

\* Fault: wait() without terminating the process and without a timeout.
AwaitExit(t) ==
  /\ pc[t] = "stop"
  /\ ~app[t]
  /\ Go(t, "record")
  /\ UNCHANGED <<books, number, thread, app, abandoned, device, attempts, lost>>

\* _stop_ecrcommapp: terminate, or kill.
Stop(t) ==
  /\ pc[t] = "stop"
  /\ app' = [app EXCEPT ![t] = FALSE]
  /\ Go(t, "record")
  /\ UNCHANGED <<books, number, thread, abandoned, device, attempts, lost>>

-----------------------------------------------------------------------------
(* The receipt *)

\* FDStartFiscRcp opens a receipt unless one is open; when only its answer is
\* lost the thread takes it that nothing is open.
Open(t) ==
  /\ pc[t] = "open"
  /\ ServiceUp /\ slip = NoSlip
  /\ slip' = [unic |-> unic[t], link |-> link[t], lines |-> {}]
  /\ \/ Go(t, "sell") /\ UNCHANGED lost
     \/ Go(t, "stop") /\ LoseAnswer
  /\ UNCHANGED <<books, number, thread, app, abandoned, receipts, attempts>>

OpenRefused(t) ==
  /\ pc[t] = "open"
  /\ Go(t, "stop")
  /\ UNCHANGED <<books, number, thread, app, abandoned, device, attempts, lost>>

\* FDSaleItem for every line, FDTotalSum and FDPrintBarcode: the device puts
\* them on the receipt that is open, whoever opened it.
Sell(t) ==
  /\ pc[t] = "sell"
  /\ ServiceUp /\ slip # NoSlip
  /\ slip' = [slip EXCEPT !.lines = @ \cup {job[t]}]
  /\ \/ Go(t, "close") /\ UNCHANGED lost
     \/ (Go(t, "cancel") \/ Go(t, "stop")) /\ LoseAnswer
  /\ UNCHANGED <<books, number, thread, app, abandoned, receipts, attempts>>

\* FDEndFiscRcp closes the open receipt, gives it the next number and prints it.
Close(t) ==
  /\ pc[t] = "close"
  /\ ServiceUp /\ slip # NoSlip
  /\ receipts' = Append(receipts, slip)
  /\ slip' = NoSlip
  /\ \/ /\ answer' = [answer EXCEPT ![t] = Len(receipts')]
        /\ Go(t, "stop")
        /\ UNCHANGED lost
     \/ (Go(t, "cancel") \/ Go(t, "stop")) /\ LoseAnswer /\ UNCHANGED answer
  /\ UNCHANGED <<books, number, job, link, unic, app, abandoned, attempts>>

\* A command is not executed.  A FiscalPrintError is followed by a cancel; any
\* other exception, such as an answer torn in the middle, is not.
Refused(t) ==
  /\ pc[t] \in {"sell", "close"}
  /\ Go(t, "cancel") \/ Go(t, "stop")
  /\ UNCHANGED <<books, number, thread, app, abandoned, device, attempts, lost>>

\* FDCancelRcp voids whichever receipt is open; its own failure is only logged.
Cancel(t) ==
  /\ pc[t] = "cancel"
  /\ slip' \in IF ServiceUp THEN {slip, NoSlip} ELSE {slip}
  /\ Go(t, "stop")
  /\ UNCHANGED <<books, number, thread, app, abandoned, receipts, attempts, lost>>

-----------------------------------------------------------------------------
\* Fault: the outcome of the attempt is not looked at.
RecordAnything(t) ==
  /\ pc[t] = "record"
  /\ status' = [status EXCEPT ![job[t]] = "PRINTED"]
  /\ receiptNo' = [receiptNo EXCEPT ![job[t]] = answer[t]]
  /\ unicOf' = [unicOf EXCEPT ![job[t]] = unic[t]]
  /\ Go(t, "idle")
  /\ UNCHANGED <<number, thread, app, abandoned, device, attempts, lost>>

\* attempt_print and attempt_print_refund write the outcome on the document.
Record(t) ==
  /\ pc[t] = "record"
  /\ IF answer[t] # 0
     THEN /\ status' = [status EXCEPT ![job[t]] = "PRINTED"]
          /\ receiptNo' = [receiptNo EXCEPT ![job[t]] = answer[t]]
          /\ unicOf' = [unicOf EXCEPT ![job[t]] = unic[t]]
     ELSE /\ status' = [status EXCEPT ![job[t]] = "FAILED"]
          /\ UNCHANGED <<receiptNo, unicOf>>
  /\ Go(t, "idle")
  /\ UNCHANGED <<number, thread, app, abandoned, device, attempts, lost>>

\* The server stops and starts again: its threads are gone, an open transaction
\* is rolled back, the processes they started live on.
Restart ==
  /\ pc' = [t \in Threads |-> "idle"]
  /\ counterLock' = NoOne
  /\ abandoned' = (abandoned \/ \E t \in Threads : app[t])
  /\ app' = [t \in Threads |-> FALSE]
  /\ UNCHANGED <<books, counter, thread, device, attempts, lost>>

Step(t) ==
  \/ LockCounter(t) \/ SaveCounter(t) \/ Spawn(t) \/ Ready(t) \/ NotReady(t)
  \/ Open(t) \/ OpenRefused(t) \/ Sell(t) \/ Close(t) \/ Refused(t) \/ Cancel(t)
  \/ Stop(t) \/ Record(t)

Next ==
  \/ \E t \in Threads : Step(t) \/ AppDies(t)
  \/ \E t \in Threads, d \in Documents : Begin(t, d)
  \/ Restart

Spec == Init /\ [][Next]_vars

\* A thread goes on: every command to the device has a timeout, and the
\* database serves the counter's row in turn.
FairSpec == Spec /\ \A t \in Threads : WF_vars(Step(t))

-----------------------------------------------------------------------------
(* Properties *)

\* What the device knows of a receipt: its number, the one it refers to, and the
\* documents whose lines are on it.
Receipts == [unic : Nat, link : Nat, lines : SUBSET Documents]

\* The variables have their types.
TypeOK ==
  /\ status \in [Documents -> {"NONE", "PRINTED", "FAILED"}]
  /\ receiptNo \in [Documents -> Nat] /\ unicOf \in [Documents -> Nat]
  /\ counter \in Nat /\ counterLock \in Threads \cup {NoOne}
  /\ pc \in [Threads -> {"idle", "draw", "save", "spawn", "record"} \cup Printing]
  /\ job \in [Threads -> Documents]
  /\ link \in [Threads -> Nat] /\ unic \in [Threads -> Nat] /\ answer \in [Threads -> Nat]
  /\ app \in [Threads -> BOOLEAN] /\ abandoned \in BOOLEAN
  /\ slip \in Receipts
  /\ receipts \in Seq(Receipts)
  /\ attempts \in Nat /\ lost \in Nat

\* "Two simultaneous checkouts can never draw the same number": no two
\* receipts the device ever opened carry the same UnicSaleNum, retries, lost
\* answers and restarts included (FiscalCounter.next).
NumbersUnique ==
  /\ \A i, j \in DOMAIN receipts : receipts[i].unic = receipts[j].unic => i = j
  /\ slip # NoSlip => \A i \in DOMAIN receipts : receipts[i].unic # slip.unic

\* A document that says PRINTED was printed: as long as no answer of the device
\* got lost, the receipt whose number it carries was opened with the number it
\* carries, and holds its lines and nobody else's, however the attempts of
\* several threads interleave on the one device and service.
PrintedIsPrinted ==
  lost = 0 =>
    \A d \in Documents : status[d] = "PRINTED" =>
      /\ receiptNo[d] \in DOMAIN receipts
      /\ receipts[receiptNo[d]].unic = unicOf[d]
      /\ receipts[receiptNo[d]].lines = {d}

\* A storno receipt names, as DocLink, a receipt the device had printed before
\* for the sale that was refunded (print_fiscal_refund).
StornoFollowsOriginal ==
  lost = 0 =>
    \A i \in DOMAIN receipts, d \in Refunds : d \in receipts[i].lines =>
      /\ receipts[i].link \in 1..(i - 1)
      /\ receipts[receipts[i].link].lines = {OriginalOf[d]}

\* No attempt hangs: whatever the device, the service or another thread does,
\* every attempt ends with its outcome on record.
AttemptEnds == \A t \in Threads : pc[t] # "idle" ~> pc[t] = "idle"

\* "Never a second receipt for the same storno -- a double click, or a stale
\* page opened before the first attempt actually succeeded"
\* (refund_fiscal_retry).
OneReceiptPerStorno ==
  \A d \in Refunds : Cardinality({i \in DOMAIN receipts : d \in receipts[i].lines}) <= 1
=============================================================================
