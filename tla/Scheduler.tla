----------------------------- MODULE Scheduler -----------------------------
(***************************************************************************)
(* The scheduler loop of the sentinel server (scheduler.rs) over the run   *)
(* table (is_due and enforce_retention of db.rs), among manual starts,     *)
(* restarts and the passing of time.                                       *)
(*                                                                         *)
(* One evaluation is five steps, with an await between any two of them:    *)
(* heartbeat, retention, two readings of the table, the start.  What it    *)
(* read may be stale when it acts on it.  The coordinator is taken at the  *)
(* level SingleFlight proves for it: a start is one step.                  *)
(*                                                                         *)
(* Rows carry their age instead of a start time, and no age is told apart  *)
(* beyond Horizon, so time is unbounded and the state space is not.  A     *)
(* unit of time is a period of the ticker, 30 seconds.                     *)
(***************************************************************************)
EXTENDS Integers, FiniteSets

CONSTANTS
    FullInterval,       \* SENTINEL_FULL_INTERVAL_SECONDS, in units
    QualityInterval,    \* SENTINEL_QUALITY_INTERVAL_SECONDS, in units
    Retention,          \* SENTINEL_RETENTION_DAYS, in units
    Horizon,            \* bound: greater ages are not distinguished
    RunTime,            \* units a diagnostic may last in a timely system
    MaxManual,          \* bound: manual starts
    MaxLost,            \* bound: rows that stay "running", at a time
    MaxKept,            \* bound: rows a failed deletion leaves, at a time
    Faults              \* the faults of the environment that may happen

Kinds == {"full", "quality"}
FaultKinds == {"reboot", "read_error", "delete_error", "insert_error", "persist_error"}

ASSUME IntervalAssumption ==
    FullInterval \in Nat \ {0} /\ QualityInterval \in Nat \ {0}
ASSUME HorizonAssumption ==
    /\ Horizon \in Nat /\ Retention \in Nat
    /\ Horizon > Retention /\ Horizon >= FullInterval /\ Horizon >= QualityInterval
ASSUME EnvironmentAssumption ==
    RunTime \in Nat /\ MaxManual \in Nat /\ MaxLost \in Nat /\ MaxKept \in Nat
    /\ Faults \subseteq FaultKinds

Interval(k) == IF k = "full" THEN FullInterval ELSE QualityInterval

VARIABLES
    rows,               \* test_runs without the row of the run in progress
    current,            \* the run in progress and its row, "running"; or NoRun
    pc,                 \* the scheduler loop
    ready,              \* a tick of the ticker waits to be taken
    due,                \* the loop's full_due and quality_due
    manual,             \* manual starts so far
    since               \* history: per kind, time since its last scheduled start

vars == <<rows, current, pc, ready, due, manual, since>>

Ages == 0..Horizon
NoRun == [kind |-> "none", age |-> 0]
Rows == [kind : Kinds, status : {"running", "completed", "failed"}, age : Ages]

TypeOK ==
    /\ rows \subseteq Rows
    /\ current \in [kind : Kinds, age : Ages] \union {NoRun}
    /\ pc \in {"wait", "retention", "full", "quality", "start"}
    /\ ready \in BOOLEAN
    /\ due \in [Kinds -> BOOLEAN]
    /\ manual \in 0..MaxManual
    /\ since \in [Kinds -> Ages]

NothingDue == [k \in Kinds |-> FALSE]

\* An empty database; the first tick of a tokio interval is immediate.
Init ==
    /\ rows = {}
    /\ current = NoRun
    /\ pc = "wait"
    /\ ready = TRUE
    /\ due = NothingDue
    /\ manual = 0
    /\ since = [k \in Kinds |-> Horizon]

(***************************************************************************)
(* db.rs                                                                   *)
(***************************************************************************)

\* Mutant of IsDue: failed rows do not count.
IsDueDespiteFailure(k) ==
    /\ \A row \in rows :
         row.kind = k /\ row.status \in {"running", "completed"} => row.age >= Interval(k)
    /\ current.kind = k => current.age >= Interval(k)

\* is_due: no row of the kind, whatever became of it, began within the interval.
IsDue(k) ==
    /\ \A row \in rows :
         row.kind = k /\ row.status \in {"running", "completed", "failed"} =>
           row.age >= Interval(k)
    /\ current.kind = k => current.age >= Interval(k)

\* enforce_retention: what is not running and began before the cutoff goes.
Kept(row) == row.status = "running" \/ row.age <= Retention

\* Mutant of MarkInterrupted: the rows get a status of their own.
MarkWithNewStatus ==
    {[row EXCEPT !.status = IF @ = "running" THEN "interrupted" ELSE @] : row \in rows}
    \union IF current = NoRun THEN {}
           ELSE {[kind |-> current.kind, status |-> "interrupted", age |-> current.age]}

\* mark_interrupted.
MarkInterrupted ==
    {[row EXCEPT !.status = IF @ = "running" THEN "failed" ELSE @] : row \in rows}
    \union IF current = NoRun THEN {}
           ELSE {[kind |-> current.kind, status |-> "failed", age |-> current.age]}

(***************************************************************************)
(* scheduler.rs                                                            *)
(***************************************************************************)

Tick ==
    /\ pc = "wait"
    /\ ready
    /\ ready' = FALSE
    /\ pc' = "retention"
    /\ UNCHANGED <<rows, current, due, manual, since>>

Expired == {row \in rows : ~Kept(row)}

EnforceRetention ==
    /\ pc = "retention"
    /\ pc' = "full"
    /\ \/ rows' = {row \in rows : Kept(row)}
       \/ "delete_error" \in Faults /\ Cardinality(Expired) <= MaxKept /\ rows' = rows
    /\ UNCHANGED <<current, ready, due, manual, since>>

\* A reading that fails counts as "not due".
Read(k, next) ==
    /\ pc = k
    /\ pc' = next
    /\ \/ due' = [due EXCEPT ![k] = IsDue(k)]
       \/ "read_error" \in Faults /\ due' = [due EXCEPT ![k] = FALSE]
    /\ UNCHANGED <<rows, current, ready, manual, since>>

ReadFull == Read("full", "quality")
ReadQuality == Read("quality", "start")

\* Mutant of DueKind: a quality diagnostic only goes along with a full one.
DueKindTogether ==
    IF due["full"] /\ ~due["quality"] THEN "full"
    ELSE IF due["full"] THEN "quality" ELSE "none"

\* due_kind: a full diagnostic goes first.
DueKind ==
    IF due["full"] THEN "full" ELSE IF due["quality"] THEN "quality" ELSE "none"

Begin(k) == current' = [kind |-> k, age |-> 0]

\* The evaluation ends with a start, a conflict, or a failed insertion.
Start ==
    /\ pc = "start"
    /\ pc' = "wait"
    /\ due' = NothingDue
    /\ \/ /\ DueKind \in Kinds
          /\ current = NoRun
          /\ Begin(DueKind)
          /\ since' = [since EXCEPT ![DueKind] = 0]
       \/ /\ DueKind = "none" \/ current # NoRun \/ "insert_error" \in Faults
          /\ UNCHANGED <<current, since>>
    /\ UNCHANGED <<rows, ready, manual>>

(***************************************************************************)
(* The rest of the server, and time.                                       *)
(***************************************************************************)

\* POST /api/run and the MCP tool run_test.
ManualStart(k) ==
    /\ current = NoRun
    /\ manual < MaxManual
    /\ manual' = manual + 1
    /\ Begin(k)
    /\ UNCHANGED <<rows, pc, ready, due, since>>

Lost == {row \in rows : row.status = "running"}

\* The end of execute: the verdict, or, if it cannot be stored, a row that
\* stays "running" although no run is in progress.
Finish(status) ==
    /\ current # NoRun
    /\ status = "running" => "persist_error" \in Faults /\ Cardinality(Lost) < MaxLost
    /\ rows' = rows \union {[kind |-> current.kind, status |-> status, age |-> current.age]}
    /\ current' = NoRun
    /\ UNCHANGED <<pc, ready, due, manual, since>>

\* The process dies, wherever it is, and starts again.
Reboot ==
    /\ "reboot" \in Faults
    /\ rows' = MarkInterrupted
    /\ current' = NoRun
    /\ pc' = "wait"
    /\ ready' = TRUE
    /\ due' = NothingDue
    /\ UNCHANGED <<manual, since>>

Older(age) == IF age < Horizon THEN age + 1 ELSE Horizon

\* One unit passes.  A tick that was not taken in time is skipped
\* (MissedTickBehavior::Skip): at most one waits.
TimePasses ==
    /\ rows' = {[row EXCEPT !.age = Older(@)] : row \in rows}
    /\ current' = IF current = NoRun THEN NoRun ELSE [current EXCEPT !.age = Older(@)]
    /\ since' = [k \in Kinds |-> Older(since[k])]
    /\ ready' = TRUE
    /\ UNCHANGED <<pc, due, manual>>

Evaluate == Tick \/ EnforceRetention \/ ReadFull \/ ReadQuality \/ Start

Next ==
    \/ Evaluate
    \/ \E k \in Kinds : ManualStart(k)
    \/ \E status \in {"running", "completed", "failed"} : Finish(status)
    \/ Reboot
    \/ TimePasses

Spec == Init /\ [][Next]_vars

\* Time passes, the loop is polled, and the deadline ends every run.
Fairness ==
    /\ WF_vars(TimePasses)
    /\ WF_vars(Evaluate)
    /\ WF_vars(\E status \in {"completed", "failed"} : Finish(status))

FairSpec == Spec /\ Fairness

(***************************************************************************)
(* Properties.                                                             *)
(***************************************************************************)

\* Scheduled diagnostics of one kind are at least their interval apart, across
\* restarts, failed and lost runs, and although the row that tells the last start
\* may have been deleted by retention in the meantime (is_due, enforce_retention).
StartsScheduled ==
    pc = "start" /\ pc' = "wait" /\ current = NoRun /\ current' # NoRun

Spaced ==
    [][StartsScheduled => since[current'.kind] >= Interval(current'.kind)]_vars

\* The loop and the runs keep up with the ticker.
Timely == TimePasses => pc = "wait" /\ ~ready /\ current.age <= RunTime

\* A restart, a reading that failed, an insertion that failed.
Fault ==
    \/ Reboot
    \/ pc \in Kinds /\ IsDue(pc) /\ ~due'[pc] /\ pc' # pc
    \/ pc = "start" /\ pc' = "wait" /\ DueKind # "none" /\ current = NoRun /\ current' = NoRun

\* Once the faults have ceased and the system is timely, a kind that is due is
\* started: neither the priority of full diagnostics, nor a conflict with a manual
\* run, nor what the faults left in the table puts it off for ever (due_kind, and
\* "scheduled work waits for the next scheduler evaluation").
NotStarved ==
    <>[][Timely /\ ~Fault]_vars => \A k \in Kinds : []<>~IsDue(k)

(***************************************************************************)
(* Why Spaced holds: as long as a kind may not be scheduled again, a row   *)
(* that says so is in the table, and what the loop has read stays true.    *)
(***************************************************************************)
Recent(k) ==
    \/ \E row \in rows : row.kind = k /\ row.age <= since[k]
    \/ current.kind = k /\ current.age <= since[k]

EvidenceInv == \A k \in Kinds : since[k] < Interval(k) => Recent(k)

ReadingInv == \A k \in Kinds : due[k] => since[k] >= Interval(k)

IInv == TypeOK /\ EvidenceInv /\ ReadingInv
=============================================================================
