------------------------------ MODULE Backups ------------------------------
(***************************************************************************)
(* manage.py backup_db (src/STORA/core/management/commands/backup_db.py):   *)
(* runs started by the task scheduler, or by hand with --force, decide from *)
(* the state file and PostgreSQL's change counter whether a backup is due,  *)
(* dump under a partial name, rename, save the state and delete old dumps.  *)
(* Runs may overlap, fail and stop between any two steps; the counter may   *)
(* start from zero again; names carry the shop's local time, which falls    *)
(* back once a year.                                                        *)
(***************************************************************************)
EXTENDS Integers, FiniteSets, Sequences

CONSTANTS
    Runs,          \* processes of the command
    Local,         \* local time, as it stands in a name, of each moment
    Interval,      \* BACKUP_INTERVAL_MINUTES, in moments
    ForceAfter,    \* BACKUP_FORCE_AFTER_HOURS, in moments
    KeepMin,       \* BACKUP_KEEP_MIN
    MaxSize,       \* BACKUP_MAX_SIZE_GB, in dumps of one size
    MaxChanges,    \* bound on the changes of the database
    NoState        \* no state file yet

Moments == DOMAIN Local

BackupAssumptions ==
    /\ Local \in Seq(Nat) /\ Local # <<>>
    /\ Interval \in Nat /\ ForceAfter \in Nat
    /\ KeepMin \in Nat /\ MaxSize \in Nat /\ MaxChanges \in Nat

VARIABLES
    now,        \* the moment
    content,    \* changes ever made to the database: what it holds
    changed,    \* database_change_counter()
    state,      \* .backup_state.json
    dumps,      \* the complete dumps on disk: [name, content, at]
    run,        \* where each run stands: its step, counter and dump
    made,       \* history: the moments of all dumps completed
    reset,      \* history: the counter started from zero again
    together    \* history: a run was under way when another one began

vars == <<now, content, changed, state, dumps, run, made, reset, together>>

-----------------------------------------------------------------------------
Names == {Local[m] : m \in Moments}
Dump == [name : Names, content : 0..MaxChanges, at : Moments]
State == [at : Moments, counter : 0..MaxChanges, file : Names]
Idle == [step |-> "idle"]
NoDump == [name |-> 0, content |-> 0, at |-> 0]   \* the run has not dumped yet
Working(r) == run[r] # Idle
To(r, step) == run' = [run EXCEPT ![r].step = step]

\* _reason_to_back_up: None, or the reason.
Due(force) ==
    ~ force /\ state # NoState =>
        /\ now - state.at >= Interval
        /\ now - state.at >= ForceAfter \/ changed # state.counter

\* Fault: the counter is read once the dump is made.
CounterNow(r) == changed
\* handle: the counter saved is the one "read BEFORE the dump on purpose".
CounterSeen(r) == run[r].counter

\* _rotate: sorted by name, the first are taken for the oldest.
Oldest(S) == CHOOSE d \in S : \A e \in S : d.name <= e.name
\* Fault: it goes on until the dumps fit, however few are left.
MustGoToFit(S) == Cardinality(S) > MaxSize /\ S # {}
MustGo(S) == Cardinality(S) > MaxSize /\ Cardinality(S) > KeepMin
Rotated(S) ==
    LET left[n \in Nat] == IF n = 0 THEN S
                           ELSE IF MustGo(left[n - 1]) THEN left[n - 1] \ {Oldest(left[n - 1])}
                           ELSE left[n - 1]
    IN  left[Cardinality(S)]

-----------------------------------------------------------------------------
TypeOK ==
    /\ now \in Moments
    /\ content \in 0..MaxChanges /\ changed \in 0..MaxChanges
    /\ state \in State \cup {NoState}
    /\ dumps \subseteq Dump
    /\ run \in [Runs -> {Idle} \cup [step : {"counted", "dumped", "renamed", "saved"},
                                      counter : 0..MaxChanges, part : Dump \cup {NoDump}]]
    /\ made \subseteq Moments
    /\ reset \in BOOLEAN /\ together \in BOOLEAN

Init ==
    /\ now = 1
    /\ content = 0 /\ changed = 0
    /\ state = NoState
    /\ dumps = {}
    /\ run = [r \in Runs |-> Idle]
    /\ made = {}
    /\ reset = FALSE /\ together = FALSE

\* Sales, deliveries, anything but sessions.
Change ==
    /\ content < MaxChanges
    /\ content' = content + 1
    /\ changed' = changed + 1
    /\ UNCHANGED <<now, state, dumps, run, made, reset, together>>

\* PostgreSQL restarts: its statistics may start from zero.
Reset ==
    /\ changed > 0
    /\ changed' = 0
    /\ reset' = TRUE
    /\ UNCHANGED <<now, content, state, dumps, run, made, together>>

Tick ==
    /\ now + 1 \in Moments
    /\ now' = now + 1
    /\ UNCHANGED <<content, changed, state, dumps, run, made, reset, together>>

\* handle: the state is loaded, the counter read; "No backup needed right now."
\* is no step.
Start(r, force) ==
    /\ ~ Working(r)
    /\ Due(force)
    /\ together' = (together \/ \E q \in Runs : Working(q))
    /\ run' = [run EXCEPT ![r] = [step |-> "counted", counter |-> changed, part |-> NoDump]]
    /\ UNCHANGED <<now, content, changed, state, dumps, made, reset>>

\* _dump: the name is stamped, pg_dump takes its snapshot into the partial file.
TakeDump(r) ==
    /\ run[r].step = "counted"
    /\ run' = [run EXCEPT ![r].step = "dumped",
                          ![r].part = [name |-> Local[now], content |-> content, at |-> now]]
    /\ UNCHANGED <<now, content, changed, state, dumps, made, reset, together>>

\* os.replace: the dump is complete, an older one of its name is gone.
Rename(r) ==
    /\ run[r].step = "dumped"
    /\ dumps' = {d \in dumps : d.name # run[r].part.name} \cup {run[r].part}
    /\ made' = made \cup {run[r].part.at}
    /\ To(r, "renamed")
    /\ UNCHANGED <<now, content, changed, state, reset, together>>

\* _save_state.
SaveState(r) ==
    /\ run[r].step = "renamed"
    /\ state' = [at |-> now, counter |-> CounterSeen(r), file |-> run[r].part.name]
    /\ To(r, "saved")
    /\ UNCHANGED <<now, content, changed, dumps, made, reset, together>>

\* _backup_config only logs its failures; then _rotate.
Rotate(r) ==
    /\ run[r].step = "saved"
    /\ dumps' = Rotated(dumps)
    /\ run' = [run EXCEPT ![r] = Idle]
    /\ UNCHANGED <<now, content, changed, state, made, reset, together>>

\* pg_dump fails (the partial file is unlinked), or the process stops anywhere
\* (it stays, and no glob of the rotation counts it).
Stop(r) ==
    /\ Working(r)
    /\ run' = [run EXCEPT ![r] = Idle]
    /\ UNCHANGED <<now, content, changed, state, dumps, made, reset, together>>

Next ==
    \/ Change \/ Reset \/ Tick
    \/ \E r \in Runs :
         \/ \E force \in BOOLEAN : Start(r, force)
         \/ TakeDump(r) \/ Rename(r) \/ SaveState(r) \/ Rotate(r) \/ Stop(r)

Spec == Init /\ [][Next]_vars

-----------------------------------------------------------------------------
(* Correctness *)

\* "File names sort by date": not when the local time has fallen back, or when
\* two dumps are made within its minute.
InOrder == \A d, e \in made : d < e => Local[d] < Local[e]

\* What "nothing changed" rests on: when the counter is what it was at the last
\* backup, the file of that backup is there and holds all there is, even if
\* changes landed during the dump; unless the counter has been reset, runs
\* overlapped, or names do not sort by date.
UnchangedMeansSaved ==
    ~ reset /\ ~ together /\ InOrder /\ KeepMin > 0 =>
        (state # NoState /\ state.counter = changed =>
            \E d \in dumps : d.name = state.file /\ d.content = content)

\* The rotation "never" deletes "the newest BACKUP_KEEP_MIN" dumps: whatever
\* crashes or overlaps, they are on disk while names sort by date.
NewestKept ==
    InOrder => \A m \in made :
        Cardinality({n \in made : n > m}) < KeepMin => \E d \in dumps : d.at = m

-----------------------------------------------------------------------------
(* The invariant that makes them so: inductive, for any runs, local times,  *)
(* intervals and sizes                                                      *)

\* The dumps on disk, no two of a name, are of what the database held.
DumpsNamed ==
    \A d \in dumps :
        /\ d.at \in made /\ d.name = Local[d.at] /\ d.content <= content
        /\ \A e \in dumps : e.name = d.name => e = d

\* So is what a run has dumped; none is of a moment to come.
Dumped(r) == run[r].step \in {"dumped", "renamed", "saved"}
Finished(r) == run[r].step \in {"renamed", "saved"}
PartsNamed ==
    /\ \A m \in made : m <= now
    /\ \A r \in Runs : Dumped(r) =>
           LET part == run[r].part
           IN  /\ part \in Dump /\ part.name = Local[part.at]
               /\ part.at <= now /\ part.content <= content
               /\ Finished(r) => part.at \in made

\* While runs do not overlap, the dump of one is the newest and stays.
Alone ==
    ~ together => \A r \in Runs : Working(r) =>
        /\ \A q \in Runs : Working(q) => q = r
        /\ Dumped(r) => \A m \in made : m <= run[r].part.at
        /\ Finished(r) => run[r].part \in dumps

\* The counter a run reads is one of the past: what is dumped later is no older.
CountersPast ==
    /\ changed <= content
    /\ ~ reset =>
           /\ changed = content
           /\ state # NoState => state.counter <= changed
           /\ \A r \in Runs : Working(r) =>
                  /\ run[r].counter <= changed
                  /\ Dumped(r) => run[r].counter <= run[r].part.content
StateOlder ==
    ~ reset /\ ~ together /\ state # NoState => \A r \in Runs : Working(r) =>
        /\ state.counter <= run[r].counter
        /\ run[r].step = "saved" => state.file = run[r].part.name

\* The dump the state names is there, and is no older than the counter it names.
FileKept ==
    ~ reset /\ ~ together /\ InOrder /\ KeepMin > 0 /\ state # NoState =>
        \E d \in dumps : d.name = state.file /\ state.counter <= d.content

IInv ==
    /\ TypeOK /\ DumpsNamed /\ PartsNamed /\ Alone /\ CountersPast /\ StateOlder
    /\ FileKept /\ NewestKept
=============================================================================
