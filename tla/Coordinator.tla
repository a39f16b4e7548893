---------------------------- MODULE Coordinator ----------------------------
(***************************************************************************)
(* The run coordinator of the sentinel server (coordinator.rs) with its    *)
(* callers, the blocking jobs that write the run table (db.rs), and the    *)
(* death and restart of the process (main.rs, Database::open).             *)
(*                                                                         *)
(* A caller is one user of start_selected: an HTTP request handler, an MCP *)
(* tool call or the scheduler.  start_selected suspends once, on the       *)
(* insertion of the row; an HTTP handler whose client goes away is dropped *)
(* at that point, while the blocking job it waited for runs on.  execute   *)
(* is a task of its own for every run.  A step is what runs between two    *)
(* suspension points; the two stores that end execute are separate steps,  *)
(* because status() and the callers run on other threads.                  *)
(*                                                                         *)
(* Only the control is modelled: what a measurement contains is not, and   *)
(* an event of the progress channel is its position in the run's stream.   *)
(***************************************************************************)
EXTENDS Integers

CONSTANTS
    Callers,            \* the users of start_selected
    Droppable,          \* the callers whose future may be dropped (HTTP)
    Runs,               \* the ids that Uuid::new_v4 may return (a bound)
    NoRun,              \* no id
    Faults,             \* the faults of the environment that may happen
    ChannelCapacity,    \* capacity of the progress channel, 128 in the code
    MaxEvents,          \* bound: progress events emitted by one run
    MaxBoots            \* bound: restarts of the process

FaultKinds == {"disconnect", "insert_error", "persist_error", "panic"}

ASSUME RunsAssumption == NoRun \notin Runs
ASSUME CallersAssumption == Droppable \subseteq Callers
ASSUME FaultsAssumption == Faults \subseteq FaultKinds
ASSUME BoundsAssumption ==
    /\ ChannelCapacity \in Nat \ {0}
    /\ MaxEvents \in Nat
    /\ MaxBoots \in Nat

VARIABLES
    proc,               \* the process: "up", "stopping" (token cancelled), "down"
    boots,              \* restarts so far
    busy,               \* Coordinator.busy
    active,             \* Coordinator.active: run and last event applied to it
    caller,             \* per caller: where it is, and the id it drew
    inserting,          \* ids whose INSERT is queued on the blocking pool
    task,               \* per run: where its execute task is
    channel,            \* per run: events waiting in the progress channel, the
                        \* last channel[r] of those emitted
    emitted,            \* per run: number of events the engine has sent
    rows,               \* the table test_runs: status of every id
    lost                \* history: runs whose verdict could not be stored

vars == <<proc, boots, busy, active, caller, inserting, task, channel,
          emitted, rows, lost>>

procVars == <<proc, boots>>
engineVars == <<channel, emitted>>

Starting == {"inserting", "inserted", "refused"}
Resting == {"idle", "accepted", "conflict", "failed"}
TaskStates == {"none", "select", "complete", "fail", "clear", "release"}
Statuses == {"absent", "running", "completed", "failed", "interrupted"}
Terminal == {"completed", "failed", "interrupted"}

NoActive == [run |-> NoRun, progress |-> 0]

TypeOK ==
    /\ proc \in {"up", "stopping", "down"}
    /\ boots \in 0..MaxBoots
    /\ proc = "down" => boots < MaxBoots
    /\ busy \in BOOLEAN
    /\ active \in [run : Runs \union {NoRun}, progress : 0..MaxEvents]
    /\ caller \in [Callers -> [pc : Starting \union Resting,
                               run : Runs \union {NoRun}]]
    /\ inserting \subseteq Runs
    /\ task \in [Runs -> TaskStates]
    /\ channel \in [Runs -> 0..ChannelCapacity]
    /\ emitted \in [Runs -> 0..MaxEvents]
    /\ \A r \in Runs : channel[r] <= emitted[r]
    /\ rows \in [Runs -> Statuses]
    /\ lost \subseteq Runs

Init ==
    /\ proc = "up"
    /\ boots = 0
    /\ busy = FALSE
    /\ active = NoActive
    /\ caller = [c \in Callers |-> [pc |-> "idle", run |-> NoRun]]
    /\ inserting = {}
    /\ task = [r \in Runs |-> "none"]
    /\ channel = [r \in Runs |-> 0]
    /\ emitted = [r \in Runs |-> 0]
    /\ rows = [r \in Runs |-> "absent"]
    /\ lost = {}

(***************************************************************************)
(* start_selected.                                                         *)
(***************************************************************************)

Starts(c, r) == caller[c].pc \in Starting /\ caller[c].run = r

\* An id nobody has drawn: UUIDs do not repeat.
Fresh(r) ==
    /\ rows[r] = "absent"
    /\ r \notin inserting
    /\ \A c \in Callers : ~Starts(c, r)

\* Mutant of Acquire: busy is stored without looking at what it was.
AcquireUnguarded(c) ==
    /\ proc # "down"
    /\ caller[c].pc \in Resting
    /\ \E r \in Runs :
        /\ Fresh(r)
        /\ caller' = [caller EXCEPT ![c] = [pc |-> "inserting", run |-> r]]
        /\ inserting' = inserting \union {r}
    /\ busy' = TRUE
    /\ UNCHANGED <<procVars, active, task, engineVars, rows, lost>>

\* The compare_exchange succeeds, and insert_running queues its blocking job.
Acquire(c) ==
    /\ proc # "down"
    /\ caller[c].pc \in Resting
    /\ ~busy
    /\ \E r \in Runs :
        /\ Fresh(r)
        /\ caller' = [caller EXCEPT ![c] = [pc |-> "inserting", run |-> r]]
        /\ inserting' = inserting \union {r}
    /\ busy' = TRUE
    /\ UNCHANGED <<procVars, active, task, engineVars, rows, lost>>

\* The compare_exchange fails: StartError::Conflict.
Conflict(c) ==
    /\ proc # "down"
    /\ caller[c].pc \in Resting
    /\ busy
    /\ caller' = [caller EXCEPT ![c] = [pc |-> "conflict", run |-> NoRun]]
    /\ UNCHANGED <<procVars, busy, active, inserting, task, engineVars, rows, lost>>

\* The caller that waits for the job of run r, if it is still there, moves on.
Wake(r, pc) ==
    caller' = [c \in Callers |->
                 IF caller[c].pc = "inserting" /\ caller[c].run = r
                 THEN [caller[c] EXCEPT !.pc = pc] ELSE caller[c]]

InsertRow(r) ==
    /\ r \in inserting
    /\ inserting' = inserting \ {r}
    /\ rows' = [rows EXCEPT ![r] = "running"]
    /\ Wake(r, "inserted")
    /\ UNCHANGED <<procVars, busy, active, task, engineVars, lost>>

\* Mutant of InsertFails: the error of insert_running is ignored.
InsertFailsUnseen(r) ==
    /\ "insert_error" \in Faults
    /\ r \in inserting
    /\ inserting' = inserting \ {r}
    /\ Wake(r, "inserted")
    /\ UNCHANGED <<procVars, busy, active, task, engineVars, rows, lost>>

InsertFails(r) ==
    /\ "insert_error" \in Faults
    /\ r \in inserting
    /\ inserting' = inserting \ {r}
    /\ Wake(r, "refused")
    /\ UNCHANGED <<procVars, busy, active, task, engineVars, rows, lost>>

\* Mutant of Refuse: the early return forgets the guard.
RefuseHolding(c) ==
    /\ caller[c].pc = "refused"
    /\ caller' = [caller EXCEPT ![c] = [pc |-> "failed", run |-> NoRun]]
    /\ UNCHANGED <<procVars, busy, active, inserting, task, engineVars, rows, lost>>

\* The insertion failed: the guard is released, StartError::Internal.
Refuse(c) ==
    /\ caller[c].pc = "refused"
    /\ busy' = FALSE
    /\ caller' = [caller EXCEPT ![c] = [pc |-> "failed", run |-> NoRun]]
    /\ UNCHANGED <<procVars, active, inserting, task, engineVars, rows, lost>>

\* The run is published in active, its task spawned, the caller answered.
Activate(c) ==
    /\ caller[c].pc = "inserted"
    /\ active' = [run |-> caller[c].run, progress |-> 0]
    /\ task' = [task EXCEPT ![caller[c].run] = "select"]
    /\ caller' = [caller EXCEPT ![c].pc = "accepted"]
    /\ UNCHANGED <<procVars, busy, inserting, engineVars, rows, lost>>

\* The client closes its connection and the handler's future is dropped where
\* it is suspended.  Nothing undoes what it has done so far.
Disconnect(c) ==
    /\ "disconnect" \in Faults
    /\ c \in Droppable
    /\ caller[c].pc \in Starting
    /\ caller' = [caller EXCEPT ![c] = [pc |-> "idle", run |-> NoRun]]
    /\ UNCHANGED <<procVars, busy, active, inserting, task, engineVars, rows, lost>>

(***************************************************************************)
(* execute, and the engine it polls.                                       *)
(***************************************************************************)

\* Mutant of Emit: the channel is unbounded.
EmitUnbounded(r) ==
    /\ task[r] = "select"
    /\ emitted[r] < MaxEvents
    /\ emitted' = [emitted EXCEPT ![r] = @ + 1]
    /\ channel' = [channel EXCEPT ![r] = @ + 1]
    /\ UNCHANGED <<procVars, busy, active, caller, inserting, task, rows, lost>>

\* The engine, or a task it spawned, sends an event; a full channel makes it
\* wait.
Emit(r) ==
    /\ task[r] = "select"
    /\ emitted[r] < MaxEvents
    /\ channel[r] < ChannelCapacity
    /\ emitted' = [emitted EXCEPT ![r] = @ + 1]
    /\ channel' = [channel EXCEPT ![r] = @ + 1]
    /\ UNCHANGED <<procVars, busy, active, caller, inserting, task, rows, lost>>

\* The last branch of the select, and update_progress.
Progress(r) ==
    /\ task[r] = "select"
    /\ proc # "stopping"
    /\ channel[r] > 0
    /\ channel' = [channel EXCEPT ![r] = @ - 1]
    /\ active' = IF active = NoActive THEN active
                 ELSE [active EXCEPT !.progress = emitted[r] - channel[r] + 1]
    /\ UNCHANGED <<procVars, busy, caller, inserting, task, emitted, rows, lost>>

\* Mutant of LeaveLoop: busy is released before the verdict is stored.
LeaveLoopReleasing(r, verdict) ==
    /\ task[r] = "select"
    /\ task' = [task EXCEPT ![r] = verdict]
    /\ channel' = [channel EXCEPT ![r] = 0]
    /\ busy' = FALSE
    /\ UNCHANGED <<procVars, active, caller, inserting, emitted, rows, lost>>

\* The select loop is left for the write of a verdict; what is still in the
\* channel is never read.
LeaveLoop(r, verdict) ==
    /\ task[r] = "select"
    /\ task' = [task EXCEPT ![r] = verdict]
    /\ channel' = [channel EXCEPT ![r] = 0]
    /\ UNCHANGED <<procVars, busy, active, caller, inserting, emitted, rows, lost>>

ShutdownBranch(r) == proc = "stopping" /\ LeaveLoop(r, "fail")

EngineBranch(r) ==
    /\ proc # "stopping"
    /\ \E verdict \in {"complete", "fail"} : LeaveLoop(r, verdict)

DeadlineBranch(r) == proc # "stopping" /\ LeaveLoop(r, "fail")

\* A panic while the engine is polled unwinds the task; the runtime catches it
\* and nothing below the loop is executed.
EnginePanics(r) ==
    /\ "panic" \in Faults
    /\ LeaveLoop(r, "none")

\* Database::complete or Database::fail: an UPDATE by id.
Persist(r) ==
    /\ task[r] \in {"complete", "fail"}
    /\ rows' = [rows EXCEPT ![r] =
                  IF rows[r] = "absent" THEN "absent"
                  ELSE IF task[r] = "complete" THEN "completed" ELSE "failed"]
    /\ task' = [task EXCEPT ![r] = "clear"]
    /\ UNCHANGED <<procVars, busy, active, caller, inserting, engineVars, lost>>

\* The error is logged and otherwise ignored.
PersistFails(r) ==
    /\ "persist_error" \in Faults
    /\ task[r] \in {"complete", "fail"}
    /\ task' = [task EXCEPT ![r] = "clear"]
    /\ lost' = lost \union {r}
    /\ UNCHANGED <<procVars, busy, active, caller, inserting, engineVars, rows>>

\* Mutant of ClearActive: busy is released first.
ReleaseFirst(r) ==
    /\ task[r] = "clear"
    /\ busy' = FALSE
    /\ task' = [task EXCEPT ![r] = "release"]
    /\ UNCHANGED <<procVars, active, caller, inserting, engineVars, rows, lost>>

ClearActive(r) ==
    /\ task[r] = "clear"
    /\ active' = NoActive
    /\ task' = [task EXCEPT ![r] = "release"]
    /\ UNCHANGED <<procVars, busy, caller, inserting, engineVars, rows, lost>>

ReleaseBusy(r) ==
    /\ task[r] = "release"
    /\ busy' = FALSE
    /\ task' = [task EXCEPT ![r] = "none"]
    /\ UNCHANGED <<procVars, active, caller, inserting, engineVars, rows, lost>>

(***************************************************************************)
(* The process.  Nobody waits for execute: main returns when the server    *)
(* has drained its connections, so a graceful exit cuts a task short just  *)
(* as a crash does.                                                        *)
(***************************************************************************)

StopSignal ==
    /\ proc = "up"
    /\ boots < MaxBoots     \* the exit that follows is within the bound
    /\ proc' = "stopping"
    /\ UNCHANGED <<boots, busy, active, caller, inserting, task, engineVars, rows, lost>>

Die ==
    /\ proc # "down"
    /\ boots < MaxBoots
    /\ proc' = "down"
    /\ busy' = FALSE
    /\ active' = NoActive
    /\ caller' = [c \in Callers |->
                    IF caller[c].pc \in Starting
                    THEN [pc |-> "idle", run |-> NoRun] ELSE caller[c]]
    /\ inserting' = {}
    /\ task' = [r \in Runs |-> "none"]
    /\ channel' = [r \in Runs |-> 0]
    /\ UNCHANGED <<boots, emitted, rows, lost>>

\* Mutants of Restart: mark_interrupted without its WHERE, and not called at all.
RestartMarkingAll ==
    /\ proc = "down"
    /\ proc' = "up"
    /\ boots' = boots + 1
    /\ rows' = [r \in Runs |-> IF rows[r] # "absent" THEN "interrupted" ELSE "absent"]
    /\ lost' = {}
    /\ UNCHANGED <<busy, active, caller, inserting, task, engineVars>>

RestartUnmarked ==
    /\ proc = "down"
    /\ proc' = "up"
    /\ boots' = boots + 1
    /\ UNCHANGED <<busy, active, caller, inserting, task, engineVars, rows, lost>>

\* Database::open with mark_interrupted, then a new coordinator.
Restart ==
    /\ proc = "down"
    /\ proc' = "up"
    /\ boots' = boots + 1
    /\ rows' = [r \in Runs |-> IF rows[r] = "running" THEN "interrupted"
                                                      ELSE rows[r]]
    /\ lost' = {}
    /\ UNCHANGED <<busy, active, caller, inserting, task, engineVars>>

CallerNext(c) == Acquire(c) \/ Conflict(c) \/ Refuse(c) \/ Activate(c) \/ Disconnect(c)

TaskNext(r) ==
    \/ Progress(r) \/ ShutdownBranch(r) \/ EngineBranch(r) \/ DeadlineBranch(r)
    \/ EnginePanics(r) \/ Persist(r) \/ PersistFails(r)
    \/ ClearActive(r) \/ ReleaseBusy(r)

Next ==
    \/ \E c \in Callers : CallerNext(c)
    \/ \E r \in Runs : InsertRow(r) \/ InsertFails(r) \/ Emit(r) \/ TaskNext(r)
    \/ StopSignal
    \/ Die
    \/ Restart

Spec == Init /\ [][Next]_vars

\* execute goes on, once it is polled.
GoesOn(r) ==
    \/ ShutdownBranch(r) \/ EngineBranch(r) \/ DeadlineBranch(r)
    \/ Persist(r) \/ PersistFails(r) \/ ClearActive(r) \/ ReleaseBusy(r)

(***************************************************************************)
(* The runtime polls every woken future, the blocking pool runs every job  *)
(* it was given, the deadline timer of execute fires, and the container is *)
(* restarted ("restart: unless-stopped").  Nothing makes the engine send,  *)
(* return or panic, a client disconnect, or the process stop.              *)
(***************************************************************************)
Fairness ==
    /\ \A c \in Callers : WF_vars(Refuse(c) \/ Activate(c))
    /\ \A r \in Runs : WF_vars(InsertRow(r) \/ InsertFails(r)) /\ WF_vars(GoesOn(r))
    /\ WF_vars(Restart)

FairSpec == Spec /\ Fairness

(***************************************************************************)
(* Properties.                                                             *)
(***************************************************************************)

\* Two execute tasks never live at the same time: the concurrent callers of
\* start_selected are told apart by the busy flag alone (coordinator.rs,
\* compare_exchange), which every way out of a run has to reset once, and not
\* early.
OneDiagnostic ==
    \A r, s \in Runs : task[r] # "none" /\ task[s] # "none" => r = s

\* A client that reads "not running" from status() finds the verdict of every
\* run in the table, unless storing it failed: execute stores the verdict before
\* it clears active, and clears active before it releases busy.
IdleIsSettled ==
    proc # "down" /\ ~busy => \A r \in Runs : rows[r] = "running" => r \in lost

\* What status() shows as the active test is a recorded run, the guard is held
\* for it, and the progress shown was sent by that run's own engine: neither a
\* late event of an earlier run nor a second task writes to it.
ActiveIsHonest ==
    active # NoActive =>
        /\ busy
        /\ rows[active.run] # "absent"
        /\ active.progress <= emitted[active.run]

\* A start that was answered "accepted" is in the table, whatever the process does
\* afterwards: start_selected answers after the INSERT, and neither the end of the run
\* nor a restart deletes a row.  (Retention, which does after some days, is in Scheduler.)
AcceptedIsRecorded ==
    \A c \in Callers : caller[c].pc = "accepted" => rows[caller[c].run] # "absent"

\* A verdict is never overwritten.  Neither UPDATE of db.rs tests the status it
\* replaces: that a run is not decided twice rests on the order of execute and
\* on the interrupted runs having lost their task.
VerdictIsFinal ==
    [][\A r \in Runs : rows[r] \in Terminal => rows'[r] = rows[r]]_vars

\* Whoever holds the guard, it is released again: a start is not refused for ever.
\* The README says of a test that remains active that "the 90-second deadline
\* cancels it".
BusyIsReleased == []<>~busy

\* Every recorded run is decided, if need be by the next start of the process: no row
\* stays at "running", which it only leaves for a verdict.
RunIsDecided == \A r \in Runs : []<>(rows[r] # "running")

\* Recorded, undecided, and the live process has not given it up.
Unsettled(r) == proc # "down" /\ rows[r] = "running" /\ r \notin lost

\* The coordinator implements SingleFlight: a run is in flight from the moment
\* its row exists to the moment its verdict is stored, or known to be lost.
SF == INSTANCE SingleFlight WITH
        record <- rows,
        inflight <- {r \in Runs : Unsettled(r)},
        up <- (proc # "down")

RefinesSingleFlight == SF!Spec

(***************************************************************************)
(* The invariant behind the properties: busy is a lock, and what makes     *)
(* that hard to see is that its owner changes hands, from the caller to    *)
(* the blocking job to the task, and may vanish.                           *)
(***************************************************************************)

Occupies(r) ==
    \/ task[r] # "none"
    \/ r \in inserting
    \/ Unsettled(r)
    \/ \E c \in Callers : Starts(c, r)

GuardInv ==
    /\ \A r, s \in Runs : Occupies(r) /\ Occupies(s) => r = s
    /\ \A r \in Runs : Occupies(r) => busy /\ proc # "down"

CallerInv ==
    /\ \A c, d \in Callers :
         caller[c].pc \in Starting /\ caller[d].pc \in Starting => c = d
    /\ \A c \in Callers :
        LET r == caller[c].run IN
        /\ caller[c].pc \in Starting \union {"accepted"} => r \in Runs
        /\ caller[c].pc \in Starting => active = NoActive
        /\ caller[c].pc \in Starting => \A s \in Runs : task[s] = "none"
        /\ caller[c].pc = "inserting" => r \in inserting
        /\ caller[c].pc = "inserted" => r \notin inserting /\ rows[r] = "running"
                                          /\ r \notin lost
        /\ caller[c].pc = "refused" => r \notin inserting /\ rows[r] = "absent"
        /\ caller[c].pc = "accepted" => rows[r] # "absent"

RowInv ==
    /\ \A r \in inserting : rows[r] = "absent" /\ task[r] = "none"
    /\ \A r \in lost : rows[r] = "running"
    /\ \A r \in Runs :
        /\ task[r] \in {"select", "complete", "fail"} =>
             rows[r] = "running" /\ r \notin lost
        /\ task[r] \in {"clear", "release"} =>
             rows[r] \in {"completed", "failed"} \/ r \in lost

ActiveInv ==
    /\ active # NoActive =>
         busy /\ active.run \in Runs /\ rows[active.run] # "absent"
         /\ active.progress <= emitted[active.run]
    /\ \A r \in Runs :
        /\ task[r] \in {"select", "complete", "fail", "clear"} => active.run = r
        /\ task[r] = "release" => active = NoActive

IInv == TypeOK /\ GuardInv /\ CallerInv /\ RowInv /\ ActiveInv
=============================================================================
