-------------------------------- MODULE Till --------------------------------
(***************************************************************************)
(* The till's own fiscal actions (src/STORA/sales/fiscal.py): X, Z and      *)
(* period reports, and service cash put into the till or taken out of it,   *)
(* which leaves a row of ServiceCashMovement whether it succeeds or not.    *)
(* Each starts ECRCommApp, sends one command and stops it.  The device is   *)
(* external: it may refuse, its answer may be lost after it has done what   *)
(* it was told, and the server may stop in between.                         *)
(***************************************************************************)
EXTENDS Integers, Sequences, FiniteSets, Functions

CONSTANTS
    Threads,      \* request threads of the server
    Amounts,      \* amounts typed in
    MaxCommands,  \* bound on the commands and sales
    NoJob         \* a thread with nothing to do

VARIABLES
    cash,       \* device: the money it counts in the till
    sales,      \* device: sales since the day was last closed
    memory,     \* device: the days closed, each with its sales
    job,        \* the command each thread sends, and what came of it
    movements,  \* the rows of ServiceCashMovement, in the order they were saved
    commands,   \* how many commands and sales there have been (bounded)
    moved,      \* history: service cash moved whose answer never arrived
    zReports    \* history: Z reports the device has carried out

vars == <<cash, sales, memory, job, movements, commands, moved, zReports>>

Reports == {"X", "Z", "period"}
Signed == Amounts \cup {- a : a \in Amounts}
Jobs == [what : Reports \cup {"cash"}, amount : Signed \cup {0},
         outcome : {"starting", "done", "refused", "failed"}]
Movement == [amount : Signed, fiscal_status : {"PRINTED", "FAILED"}]

Total(f) == SumFunctionOnSet(f, DOMAIN f)

TillAssumptions ==
    /\ IsFiniteSet(Threads)
    /\ Amounts \subseteq Nat \ {0} /\ MaxCommands \in Nat
    /\ NoJob \notin Jobs

TypeOK ==
    /\ cash \in Nat /\ sales \in Nat /\ memory \in Seq(Nat)
    /\ job \in [Threads -> Jobs \cup {NoJob}]
    /\ movements \in Seq(Movement)
    /\ commands \in 0..MaxCommands
    /\ moved \in Int /\ zReports \in Nat

Init ==
    /\ cash = 0 /\ sales = 0 /\ memory = <<>>
    /\ job = [t \in Threads |-> NoJob]
    /\ movements = <<>>
    /\ commands = 0
    /\ moved = 0 /\ zReports = 0

-----------------------------------------------------------------------------
(* The device *)

\* FDDailyRpt: Item 0 closes the day, and so does 1 "on the real device".
CloseDay(item) ==
    IF item \in {0, 1}
    THEN memory' = Append(memory, sales) /\ sales' = 0
    ELSE UNCHANGED <<memory, sales>>

\* Fault: the Item that was first guessed.
DAILY_RPT_ITEM_GUESSED(what) == IF what = "Z" THEN 0 ELSE 1
\* _DAILY_RPT_ITEM_Z, _DAILY_RPT_ITEM_X.
DAILY_RPT_ITEM(what) == IF what = "Z" THEN 0 ELSE 2

\* A receipt is printed (see FiscalPrinting).
Sell ==
    /\ commands < MaxCommands
    /\ commands' = commands + 1
    /\ cash' = cash + 1 /\ sales' = sales + 1
    /\ UNCHANGED <<memory, job, movements, moved, zReports>>

\* The device carries out a thread's command; a cash-out bigger than what is in
\* the till it refuses.
Carry(t) ==
    LET j == job[t] IN
    /\ cash + j.amount >= 0
    /\ cash' = cash + j.amount
    /\ IF j.what \in {"X", "Z"} THEN CloseDay(DAILY_RPT_ITEM(j.what))
       ELSE UNCHANGED <<memory, sales>>
    /\ zReports' = IF j.what = "Z" THEN zReports + 1 ELSE zReports

-----------------------------------------------------------------------------
(* The server *)

\* fiscal_report_x, fiscal_report_z, fiscal_report_period with valid dates, and
\* fiscal_service_cash with a positive amount; `direction` picks the sign.
\* ECRCommApp is started.
Begin(t, what, amount) ==
    /\ job[t] = NoJob
    /\ commands < MaxCommands
    /\ what \in Reports => amount = 0
    /\ what = "cash" => amount # 0
    /\ commands' = commands + 1
    /\ job' = [job EXCEPT ![t] = [what |-> what, amount |-> amount, outcome |-> "starting"]]
    /\ UNCHANGED <<cash, sales, memory, movements, moved, zReports>>

Outcome(t, o) == job' = [job EXCEPT ![t].outcome = o]
Starting(t) == job[t] # NoJob /\ job[t].outcome = "starting"

\* The command is answered.
Answer(t) ==
    /\ Starting(t)
    /\ Carry(t)
    /\ Outcome(t, "done")
    /\ UNCHANGED <<movements, commands, moved>>

\* It is carried out but the answer is lost: a timeout, or the ECRCommApp that
\* listens on the port was another thread's and is killed.
LoseAnswer(t) ==
    /\ Starting(t)
    /\ Carry(t)
    /\ Outcome(t, "failed")
    /\ moved' = moved + job[t].amount
    /\ UNCHANGED <<movements, commands>>

\* The device refuses a cash movement with Code F in an answer that is
\* otherwise valid ...
RefuseCash(t) ==
    /\ Starting(t)
    /\ job[t].what = "cash"
    /\ Outcome(t, "refused")
    /\ UNCHANGED <<cash, sales, memory, movements, commands, moved, zReports>>

\* ... or anything with an error; or no process, port or device answers at all.
FailCommand(t) ==
    /\ Starting(t)
    /\ Outcome(t, "failed")
    /\ UNCHANGED <<cash, sales, memory, movements, commands, moved, zReports>>

\* Fault: the answer's Code is not looked at.
SuccessWhateverCode(outcome) == outcome \in {"done", "refused"}
\* service_cash_move returns, or raises FiscalPrintError.
Success(outcome) == outcome = "done"

\* record_service_cash_move saves its row, PRINTED or FAILED; a report has
\* nothing to save.  The page shows the error.
Finish(t) ==
    LET j == job[t] IN
    /\ j # NoJob /\ j.outcome # "starting"
    /\ movements' =
         IF j.what = "cash"
         THEN Append(movements, [amount |-> j.amount,
                                 fiscal_status |-> IF Success(j.outcome) THEN "PRINTED" ELSE "FAILED"])
         ELSE movements
    /\ job' = [job EXCEPT ![t] = NoJob]
    /\ UNCHANGED <<cash, sales, memory, commands, moved, zReports>>

\* The server stops before the row is saved (or saving it fails).
Crash(t) ==
    /\ job[t] # NoJob
    /\ moved' = IF job[t].outcome = "done" THEN moved + job[t].amount ELSE moved
    /\ job' = [job EXCEPT ![t] = NoJob]
    /\ UNCHANGED <<cash, sales, memory, movements, commands, zReports>>

Next ==
    \/ Sell
    \/ \E t \in Threads :
         \/ \E what \in Reports \cup {"cash"}, amount \in Signed \cup {0} : Begin(t, what, amount)
         \/ Answer(t) \/ LoseAnswer(t) \/ RefuseCash(t) \/ FailCommand(t)
         \/ Finish(t) \/ Crash(t)

Spec == Init /\ [][Next]_vars

-----------------------------------------------------------------------------
(* Correctness *)

\* Cash the device has moved for a thread that is about to record it.
Due(t) == IF job[t] # NoJob /\ job[t].outcome = "done" THEN job[t].amount ELSE 0
Pending == Total([t \in Threads |-> Due(t)])
Printed == Total([i \in DOMAIN movements |->
                    IF movements[i].fiscal_status = "PRINTED" THEN movements[i].amount ELSE 0])

\* "An honest audit trail": the money in the till is what was sold plus the
\* movements recorded as PRINTED, and but for answers that never arrived a
\* FAILED one "moved no real money"; only a Z report closes the day, and the
\* fiscal memory and the day's total hold every sale.
TillExplained ==
    LET sold == sales + Total(memory)
    IN  /\ cash = sold + Printed + Pending + moved
        /\ Len(memory) = zReports

-----------------------------------------------------------------------------
(* The invariant that makes it so: inductive, for any threads and amounts *)

\* A command has an amount just when it is about cash.
ReportsMoveNothing == \A t \in Threads :
    job[t] # NoJob => (job[t].what \in Reports <=> job[t].amount = 0)

IInv == TypeOK /\ ReportsMoveNothing /\ TillExplained
=============================================================================
