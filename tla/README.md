# Hypernet Sentinel in TLA+

Hypernet Sentinel measures an internet connection on a schedule and on demand,
keeps the results in SQLite and shows them in a dashboard and over MCP. These
modules specify the parts of it whose correctness depends on the order of
events: who may start a diagnostic, how it ends, what survives a death of the
process, when the next one is scheduled, what a measurement counts while
workers, timers and the network interleave, and what the dashboard shows of it.

Contents: [the system](#the-system), [modules](#modules-and-their-code),
[runs](#runs), [fairness](#fairness), [proofs](#proofs),
[findings](#what-does-not-hold), [not modelled](#not-modelled),
[plan](#plan).

## The system

Paths are relative to `src/crates/`.

| Component | State | Operations | Talks to |
|---|---|---|---|
| Run coordinator, `sentinel-server/src/coordinator.rs` | `busy` (atomic flag), `active` (under a lock), one `execute` task per run with a progress channel of 128 events | `start_selected`, `execute`, `update_progress`, `status` | run store; measurement adapter (a future it polls); callers |
| Run store, `db.rs` | table `test_runs` | `insert_running`, `complete`, `fail`, `is_due`, `enforce_retention`, reports | SQLite, on blocking threads that outlive the future that waits |
| Migrations, `db.rs` `open`, `migrations/*.sql` | schema, `schema_migrations`, rows | four scripts, `mark_interrupted` | run at every start, before anything else |
| Scheduler, `scheduler.rs` | loop with a 30 s ticker, heartbeat | retention, two readings, a start | run store, coordinator |
| HTTP API and MCP, `api.rs`, `mcp.rs` | none | start, status, reports, health | coordinator, run store |
| Process, `main.rs` | shutdown token | start, graceful stop | all of them; the container restarts it |
| Adapter, `measurement-core/src/adapter.rs` | flags, partial results, event forwarder | `run_custom`: phases in order; `run_full`: a host of the engine | throughput, latency, UDP phases; coordinator's channel |
| Engine, `upstream/engine/mod.rs` | flag, control channel (`EngineControl`), event channel | `TestEngine::run`, a control listener | its host; all phases; nobody calls it |
| Traceroute, `upstream/engine/traceroute.rs` | the hop at hand, sequence numbers | a round of probes per hop, or the system's tool | raw socket |
| Throughput, `throughput.rs` | stop flag, byte counter, samples, worker tasks | download and upload phase | HTTP servers |
| Latency probes, `latency.rs` | counters, samples, running mean and deviation | a probe loop | HTTP servers |
| UDP loss probe, `turn_udp.rs` | sequence map, `ArrivalTracker` | send and receive in slots | a STUN server |
| Statistics, `stats.rs`, `metrics.rs` | none | percentiles, jitter, loss | |
| Dashboard, `src/web/scripts/app.js` | last run seen, history, cards | polling, loading | HTTP API |

What is hard in it, and what each component must guarantee:

* **Starts race.** Request handlers, tool calls and the scheduler call
  `start_selected` on several threads. One diagnostic at a time, and every way
  out of a run gives the guard back once.
* **Futures are dropped.** A closed connection drops a request handler where it
  is suspended; `execute` drops the engine's future at the deadline. What the
  dropped code had started (a blocking job, worker tasks) goes on.
* **The end of a run is three writes** (verdict, `active`, `busy`), read
  elsewhere without a common lock.
* **The process dies anywhere**, also in a migration, and a graceful stop does
  not wait for the run in progress. The next start has to settle it.
* **The scheduler acts on readings that may be stale**, right after retention
  has deleted rows. No kind may run early, and none be put off for ever.
* **Counters are shared and taken back.** Uploads that fail subtract what they
  added, while a loop samples the counter.
* **Datagrams are late, duplicated and reordered**, and are read in the slot of
  another request, or in the round of another hop or another probe.
* **Tasks outlive what started them.** The engine and its control listener go on
  when their host has stopped reading, through a bounded channel.
* **The dashboard only polls.** It learns that a run ended by comparing two
  readings, of which any may fail, and no poll waits for the one before.

`PROJECT.json` lists these hazards one by one, with the lines where they bite
and the properties that cover them.

## Modules and their code

### SingleFlight and Coordinator

`SingleFlight.tla` is what a user of the server may rely on: runs are recorded
one at a time, a recorded run is decided at most once, and one that a stop of
the process cut short is settled by the next start. Its state is the table, the
set of runs the live process answers for, and whether the process is up.

`Coordinator.tla` is the code. A step is what runs between two suspension
points.

| Model | Code |
|---|---|
| `busy`, `active` | the fields of `Coordinator`; `active` keeps the id and the last event applied |
| `caller[c]` | a future of `start_selected`; `Droppable` callers are request handlers |
| `inserting` | INSERT jobs on the blocking pool: they complete although nobody waits |
| `task[r]` | where `execute` is: in the select loop, storing a verdict, before each of the two last stores |
| `channel[r]`, `emitted[r]` | the progress channel: events are sent in order, so it is determined by the number sent and the number waiting |
| `rows[r]` | the row; `interrupted` is the `failed` of `mark_interrupted`, kept apart to tell who wrote it |
| `Acquire`, `Conflict` | the `compare_exchange` |
| `InsertRow`, `InsertFails` | the job of `insert_running`; the caller, if there, is woken |
| `Refuse`, `Activate` | the two continuations of `start_selected` |
| `Disconnect` | the handler's future is dropped |
| `Emit`, `Progress` | the engine sends; `update_progress` |
| `ShutdownBranch`, `EngineBranch`, `DeadlineBranch`, `EnginePanics` | the select loop is left. `biased`: once the token is cancelled only the first branch is taken |
| `Persist`, `PersistFails`, `ClearActive`, `ReleaseBusy` | the rest of `execute` |
| `StopSignal`, `Die`, `Restart` | ctrl-c, any death or exit, and `open` with `mark_interrupted` |

The history variable `lost` names the runs whose verdict could not be stored.
What a measurement contains is not modelled: the engine sends events and ends.

### Scheduler

`Scheduler.tla` is one evaluation of the loop in five steps (`Tick`,
`EnforceRetention`, `ReadFull`, `ReadQuality`, `Start`), since each of them
awaits and anything may happen in between: a manual start, the end of a run, the
passing of time, a reboot. The coordinator is taken at the level `SingleFlight`
guarantees: a start is one step and happens only if no run is in progress. A row
carries its age in place of a start time, capped at `Horizon`: an age at or
above every interval and above the retention is never told apart again, so the
state space is finite although time never ends. A run whose verdict cannot be
stored leaves a `running` row. `since` is a history variable.

### Dashboard

`Dashboard.tla` extends Coordinator: its steps are those of the server and those
of one page, so its run also checks that the server, whatever a page asks of it,
releases the guard and decides every run. Only a start that is refused
(`Conflict`) is left to Coordinator's own run: it changes nothing but its caller.

| Model | Code (`app.js` unless said otherwise) |
|---|---|
| `started` | `state.started`, the run the page saw last |
| `Poll`, `ReadActive` | `loadCurrent`, by its timer or at the end of `runNow`, asks, whether or not the last poll was answered; `status()` (`coordinator.rs`) reads `busy`, then `active`, and anything happens in between |
| `reading`, `answers` | the polls under way: how many between the two reads, and how many answers that tell of each run, or of none. Any of them may arrive next |
| `SeeRun`, `SeeEnd`, `SeeNothing` | the answer has a running test, has none although one was seen, has none |
| `PollFails`, `Broken` | a request fails, `/healthz` says not ready, the server dies |
| `AskHistory`, `LoadHistory`, `HistoryArrives`, `HistoryFails`, `HistoryIsRefused` | `loadHistory`, which returns at once while it is loading |
| `LoadSummary`, `Tick`, `Summary`, `History` | `loadSummary` and its timer; `Database::summary` and `results` (`db.rs`) |
| `past`, `old`, `Age` | runs beyond the picked range or the rows that are asked for and shown (1000 and 100); runs beyond the 30 days or 10,000 rows of `summary`, or deleted by retention. Time makes the oldest runs leave either |
| `OpenPage`, `PickRange` | the user |

An id stands for its `started_at`, so runs are drawn in order. A card is the run
whose figure it shows. Of the history the model keeps what a request brings
(`loading.runs`) and, as a history variable, which of the runs that the page saw
it still owes to its user (`owed`). `HistoryCatchesUp` says that in the end each
of them is brought with its verdict, or that the page shows an error instead.
Four things that the code does end the debt without that, and TLC has a
counterexample for each of them if it does not:

* the run left the range (`PickRange`, `Age`);
* the page took it to have ended while a history that does not have it was being
  loaded, and `loadHistory` did nothing (`Unbrought`);
* its verdict could not be stored (`Unbrought`);
* an answer without a running test came after the answer of a later poll that
  told of the run (`Unbrought`). The page takes the run to have ended and forgets
  it (`app.js:488` to `497`); if it then ends before the next poll, nobody
  notices.

A later answer that tells of the run makes it owed again. A load that fails is
shown as an error and not repeated. What the model leaves out: the figures of a
run in progress on the cards, that two answers with cards overtake one another
(the timer repairs it), and drawing.

### Migrations

`Migrations.tla` executes the statements of the four scripts one at a time over
a file left by any earlier version, since `execute_batch` commits each
statement. `Fails` says which statements cannot be repeated (`ALTER TABLE ...
ADD COLUMN`, a plain `INSERT` of a version). A row keeps what the statements
distinguish: the sign of the bufferbloat, the class of an error text.
`Interruption` is `mark_interrupted`, after the scripts. `found` remembers the
file that was opened.

### Throughput

`Throughput.tla` is one phase, in either direction: workers (`Loop`, `Transfer`,
`Complete`, `Fail`), the latency task (`ProbeEnds`), the task that turns the
cancellation token into a flag (`WatchToken`), and the phase itself (`Enter`,
`Tick`, `LeaveLoop`, `Drained`, `Collect`). `Drop` is what `execute` does at its
deadline and at shutdown: the phase's future is never polled again, while the
tasks are. Bytes are chunks, time is the number of samples. `Summary` is
`steady_state_view` on these units; a rate sample is a difference of two
samples, which are one interval apart. Duration and rates differ from the code
by constant factors only. The halving of the request size after a 429 and the
events are left out, and so is the pause flag, which the server never sets.

### Runner

`Runner.tla` is one diagnostic from the inside, between Coordinator, for which
it is a future that sends events and ends, and Throughput and LossProbe, which
look into a phase. Four parts of code share two bounded channels:

| Model | Code |
|---|---|
| `stage`, `test`, `done`, `values` | where `run_custom` is, `partial.completed`, and which tests yielded a value |
| `events`, `open`, `held` | the event channel, `event_tx`, and the event `forward_progress` is sending |
| `progress`, `execute`, `shown` | the progress channel, the loop of `execute`, and `active` as `update_progress` leaves it |
| `token`, `cancelled` | the cancellation token and the flag `cancel_watch` sets from it |
| `Announce`, `EmitPartial` | what `run_custom` sends itself |
| `SendOther`, `AnnounceNext`, `LateAnswer`, `EndSlot` | what the phases send through the forwarder; the upload announces `packetloss` before its workers are joined |
| `EndAtOnce`, `EndBody` | a phase ends with a value, without one, or with an error |
| `Close`, `Join`, `Verdict`, `ConnectivityProbe` | the end of `run_custom` |
| `Take`, `Forward` | the forwarder; `Convert` drops the events nobody shows |
| `Read`, `TakeResult`, `Drop`, `Settle` | `execute` |

A sender waits while its channel is full, and its message is dropped once
`execute` is over. A test's data is left out; a phase is named with the number
of requests it shows. `cut` is a history variable: a phase ended with the flag
set.

### LossProbe

`LossProbe.tla` is the loop of `run_udp_like_loss_probe`. The network answers a
request with any number of copies up to `MaxCopies`; they are read in any order,
in any later slot, or never. `Record` is `ArrivalTracker::record`. `answers` and
`late` are history variables.

### CancelFlag, Traceroute, LatencyProbe and Engine

`Engine.tla` is the crate's second way to run a diagnostic: `TestEngine::run` as
a task, the task that listens for a Cancel, and `run_full`, the host, which
reads the events until the channel closes or sends a Cancel and waits five
seconds for the engine. The server's way is `run_custom`; `run_full` and
`run_quality` are private functions that nothing calls, and so is the engine,
which is `pub(crate)`: the crate keeps them under `#![allow(dead_code)]`
(`lib.rs:1`). `run_full` asks for none of the optional stages; the run also
takes the configuration that asks for all.

| Model | Code |
|---|---|
| `stage`, `inside`, `asked`, `ran` | where `run` is, the switches of `RunConfig`, and, as history, the stages entered |
| `Skip`, `Enter`, `Leave...` | a stage looks at its switch and the flag; its events; its end with a value, none or an error |
| `StartFails`, `Fail` | the `?` of the code: the engine ends, the listener is not aborted |
| `Listen`, `ControlCloses` | the listener sets the flag, or ends as its sender is gone |
| `queue`, `SendEvent` | the event channel: who sends waits for room, until the receiver is dropped |
| `SendCancel`, `StopWaiting`, `TakeResult`, `DropHost` | the ways out of `run_full`, the last by its caller |
| `Tell` | events of the phases modelled elsewhere; how many is their matter |

Two stages are modules of their own over the flag of `CancelFlag.tla`.

`Traceroute.tla` sends a round of probes per hop (`Send`, `Receive`, `Expire`,
`EndHop`) on a raw socket, or reads the output of the system's tool line by line
(`ParseLine`, `SkipLine`). `sent` is the set of probes that went out. The network
answers any of them, at any later time, in any order, any number of times or
never, and from any node a probe of that many hops can meet (`Replies`): a router
on the way, also one nearer than its hop, which `icmp_reply_matches` accepts, or
the destination, whose distance may change between two answers. `SeqNo` is the
code's arithmetic with its overflow at 16 bits. A line of the tool has a number
and columns. `ParseHopLine` takes the number that is printed, as the code does;
`SkipLine` is a line that `parse_hop_line` does not understand, such as
`2 * * * Request timed out.` of tracert, so that the hops may have gaps. A name
that is an address of the destination but not the one resolved is `Alias`.

`LatencyProbe.tla` is the loop of `run_latency_probes`. Samples are whole
milliseconds; means and sums of squares are scaled so that every division is
exact. `Push` is `OnlineStats::push`, `Percentile` is `percentile_sorted`.

## Runs

| Run | Question | Bounds |
|---|---|---|
| `coordinator_safety` | Is there one diagnostic at a time, is a verdict stored before the guard is released and never overwritten, is the status honest, does the coordinator implement `SingleFlight`? | two callers, one of them droppable; three ids; all faults; a channel of one event; two events per run; one restart |
| `dashboard` | Is the guard released and every run decided? Does a page end up showing each run it saw, and on each card the newest run that measured it? | one caller, two ids of which the first, which may leave the range and the window of the cards, measures one metric more, no event; two polls under way; failing insertions, a stop, a death, one restart |
| `coordinator_disconnect` | Is the guard released when a client goes away? | one id |
| `scheduler` | Do scheduled runs keep their distance, and does every kind get its turn once faults have ceased? | intervals 3 and 1, retention 2, one manual start, one lost and one kept row, all faults, no assumption on speed for `Spaced` |
| `migrations_open` | Does the server only serve rows that became what they had to, and does it come to that? | every version; two rows of any content; two deaths |
| `migrations_crash` | Is an interrupted run always settled? | one row, one death |
| `throughput_phase` | Is the counter exact, is the link quiet on return, do the figures agree, does the phase end? | two workers, three samples, two chunks per request, four chunks at a time |
| `throughput_deadline` | Is the link released at the deadline? | one worker |
| `throughput_rollback` | Are failed uploads kept out of the result? | one worker |
| `runner_phases` | Does the phase shown only advance, and with the results before it; is a report made of whole phases only; does a diagnostic end of itself? | every selection; a channel of two events and one of one message; two packets; one event of the kinds that may be sent at any time |
| `lossprobe_network` | Are loss and reordering exact? | four requests, two copies |
| `engine` | Are hops made of answers to their own probes and the trace complete just if the destination answered; do jitter and percentiles agree with their definitions; is no report made of a diagnostic cut short; does the host return and nothing stay behind? | two hops of two probes, a destination at distance 1 or beyond the last hop; three latency probes of 1, 2 or 4 ms; a channel of one event; no optional stage, or all four |

Why the bounds are enough to be of interest. Two callers are the smallest number
that race, and one of them being droppable lets the other start after it. Three
ids let a run end, a second be lost with the process, and a third start after
the restart; the runs are symmetric. A channel of one event makes the engine
wait. In the scheduler a Horizon of 3 above a retention of 2 distinguishes "may
be deleted", "must be kept" and "due" for both kinds, and any time may pass
between two awaits. The quality interval of 1 under a full interval of 3 gives
the priority of full diagnostics something to put off. In the dashboard two runs
are what the page can confuse: one it saw and one that follows, of which one
lacks a metric; a run that is shorter than a poll is one the page never sees.
Two polls are enough for one to overtake the other. Verdicts that cannot be
stored are not in this run, since `RunIsDecided` then waits for a restart that
nothing causes; with `persist_error` alone, `HistoryCatchesUp` and
`CardsConverge` hold as well (163,403 states with `Leaving = {}`).
Two rows are independent of one another in every statement, so two show what any
number does; two deaths allow one in a script that is being repeated after a
death. Three samples with a ramp of one leave a steady window of two rates; a
run in which the phase is cancelled earlier has none. A progress channel of one
message makes every sender of Runner wait, and two events are the fewest that a
forwarder could exchange. Four requests let an answer be overtaken twice. Two
hops of two probes let an answer come late, or again, in its own round and in the
next hop's, from a nearer router or the destination; a line may be dropped before
one that is kept; and a destination beyond the last hop leaves a trace
incomplete. Three
samples of three values give every position of a percentile between two indices.
The proofs below remove the bounds for the properties they cover.

The type invariants differ from "has its type" in what the bounds add: a channel
within its capacity, a counter that never goes below zero.

Deadlock is not checked where the model ends and the system does not (ids and
restarts are bounded in Coordinator and Dashboard) or where the component does
end (a phase, a probe, an engine and its host). It is checked in Scheduler and
Migrations, which never stop.

## Fairness

* Coordinator: the runtime polls woken futures (`Refuse`, `Activate`, and
  `GoesOn`, which is `execute`); the blocking pool runs its jobs, which succeed
  or fail; the deadline of `execute` fires, so the select loop is left; the
  container restarts the process (`restart: unless-stopped` in
  `compose.example.yaml`). Nothing makes the engine send, return or panic, or a
  client disconnect, or the process stop.
* Scheduler: time passes, the loop is polled, a run ends at its deadline.
  `NotStarved` assumes that at some moment faults cease and the system becomes
  timely (`<>[][Timely /\ ~Fault]_vars`): an evaluation is over before the next
  tick, and a run in progress is no older than `RunTime` whenever time passes.
  What happened before, and the rows it left, is arbitrary. It needs room
  between the intervals: if runs last into the next tick and a full diagnostic
  is due at every other, the quality diagnostic, which always comes second,
  never gets its turn. The defaults, four hours and one hour against runs of at
  most 90 seconds, are far from that; `RunTime = 0` with intervals 3 and 1 is
  their image.
* Dashboard: the timers of an open page fire, and a request is answered or
  fails. Strong fairness of `Tick` and `PollArrives` says that not every request
  fails although each may: the page reaches the server now and then. It does not
  say which of several answers arrives first. Nothing makes a user open it or
  pick a range, or a run get old, and the history may fail whenever it is asked.
* Migrations: the container is restarted; a process that does not die goes on.
* Throughput: the tasks are polled, the clock of the phase advances, and a
  request ends after the 30 seconds of the client's timeout. No fairness is
  assumed of the network.
* Runner: every task is polled and every phase ends, which `PhaseEnds` of
  Throughput shows of the longest ones. The deadline and the stop signal are not
  assumed: `RunEnds` holds without their help.
* Engine: every task is polled, and every request, probe and command ends, by
  its timeout if need be. That the phases send finitely many events (`Tell` is
  not part of `Run`) is what their own modules show. Nothing makes a token be
  cancelled or a host be dropped.

## Proofs

The modules that hold theorems are named after what they are about:
`CoordinatorProofs` (with the page of Dashboard over it), `SchedulerProofs`,
`MigrationsProofs`, `RunnerProofs`, `LossProbeProofs`, `ThroughputProofs`,
`EngineProofs` (with Traceroute and LatencyProbe, of which Engine is composed),
and `SumTheorems`, the lemmas on finite sums that two of them need. Every
invariant and every action property that a run checks is a theorem, for all
values of the constants that satisfy the assumptions of the modules; where a
theorem needs more, it says so.

**Coordinator.** The properties are not inductive. `busy` is a lock whose owner
changes: the caller while it waits, the blocking job if the caller was dropped,
the task, or a row nobody answers for. `Occupies(r)` says that run `r` is
somewhere on that path, and `GuardInv` that at most one run is, and only with
`busy` set. `CallerInv` ties the place of a caller to the state of its run's row
and job, `RowInv` the place of a task to its row, `ActiveInv` the published run
to both. `IInv` is their conjunction with `TypeOK`; it is proved inductive
action by action in four lemmas (callers, jobs, tasks, process). From it follow
`OneDiagnostic`, `IdleIsSettled`, `ActiveIsHonest`, `AcceptedIsRecorded`,
`VerdictIsFinal`, and the refinement of `SingleFlight`: `InsertRow` is its
Begin, `Persist` its Finish, `PersistFails` its Abandon; all others stutter.
Assumptions: the ones in the module, which say that `NoRun` is no run and that
the bounds are numbers.

**Scheduler.** `TypeCorrect` is inductive by itself. `Spaced` needs two things:
as long as a kind may not be scheduled again, a row that says so is in the table
or is the run in progress (`EvidenceInv`), and what the loop has read stays true
until it acts (`ReadingInv`). The first fails if rows are deleted early; the
theorem assumes that rows are kept at least as long as every interval
(`LongRetention`). It is needed: `from_env` accepts a retention of one day under
an interval of a week, and then `is_due` finds no row left after a day
(`db.rs:209`). The documentation promises nothing for such a setting, and the
model needs only `Retention = 0` under an interval of 2 to show it.

**Runner.** Four invariants, from no assumption but that capacities and bounds
are numbers. `TestInv` says where `run_custom` is: the test at hand is selected
and not completed, all selected tests before it are, and requests are only
counted in the packet loss phase. With it `TypeOK` is inductive: no channel
exceeds its capacity. `ReportInv` follows the order at the end of `run_custom`:
the phases are over before the channel is closed, the forwarder is joined before
the flag is read, and the flag, which is never taken back, is set if any phase
saw it. Hence `ReportIsComplete`. `HonestInv`, for `ShownIsHonest`: as long as
`execute` reads, each name in the progress channel has behind it, nearer to the
reader, the partial results of all phases before it (`HonestQueue`), an event
that still waits in front of the forwarder has them in the progress channel
already, and so has what `run_custom` is about to send. `OrderInv`, for
`PhaseNeverGoesBack`: ranks only rise from the phase shown over the progress
channel, the event held and the event channel to where `run_custom` is
(`Reach`). Two senders do not spoil it, since whatever takes the forwarder ranks
from the packet loss phase on, and that phase is the last that `run_custom`
names itself.

**LossProbe.** `NetworkInv` says that a request has been answered exactly if one
of its copies has been read; `TrackerInv` that the maximum is the largest number
that arrived. The theorems need the cardinality of finite sets. Types follow
from the same invariant.

**Traceroute and Engine.** The network may answer any probe that was sent, as
often as it likes and from any node. The number that is waited for is that of
the probe at hand (`Waiting`), and numbers tell up to 255 hops of 255 probes
apart (`SeqNoInjective`, the reason of the assumptions on `MaxHops` and
`Probes`); so whatever is credited answers that probe, and as a probe is passed
once it is credited, a round holds answers to its own probes in their order
(`RoundIsOwn`). The hops of the socket are numbered without a gap and none is
beyond the one at hand; those of the tool only ascend. That gives `HopsAreOwn`;
`ReachedInv` adds that only the last hop has answers of the destination, hence
`CompletedIsReached`. In the engine every step is a step of Traceroute, a
stutter, or the reset after a finished trace, so both hold there too
(`OwnRoute`). `ReportIsUncut` rests on `FlagInv` (a host that still reads has
sent no Cancel, and only a host that stopped reading has) and `ProgressInv`
(without the flag, no required stage behind the current one was skipped).

**Percentiles.** `PercentilesAgree` speaks of samples in any order, `Summary` of
sorted ones. Samples are ranked by value, equal ones by position; the ranks are
a permutation (`RanksAreOrder`, by the cardinalities of nested sets), and its
inverse is an order in which the samples ascend, so that there is one for
`Sorted` to choose (`RankedOrder`). Which one it chooses makes no difference: if
one order came to a greater sample at place k than another, k samples would fit
into k - 1 places (`AscendingBelow`). The rest is arithmetic: a percentile lies
between its neighbours, and a later position has a greater one
(`PercentilesRise`).

**Jitter.** `Figures` says of a number of samples, their sum and the sum of
their squares what mean and deviation have to be; Welford's update keeps it
(`PushKeepsFigures`), since `Scale` is a multiple of the numbers before and
after it. What `compute_jitter` finds is expressed in the same two sums
(`DeviationsBySums`); hence `JitterAgrees`.

**Throughput.** `QuietInv`: before the phase collects, its workers are gone, and
only the phase creates workers. `CountInv` keeps an upload's counter equal to
what succeeded plus what the workers have counted (`TotalIsExact`); it needs
`WorkerInv`, that only a request under way has counted anything, or else a
rollback could take back what another request sent. `SampleInv` says that a
download's samples never decrease; so the rates over any window telescope
(`RatesAddUp`), which is what `ResultInv`, hence `DownloadFiguresAgree`, rests
on. The set of workers is assumed finite.

**Sums.** `SumFunctionOnSet` is a fold, that is, a recursive function the prover
cannot do induction over. `SumTheorems` avoids induction: it takes a smallest
set that refutes a claim (`SmallestSubset`, from the well-founded order of
finite subsets). So the function exists (`SumExists`), and a sum may take out
any member first (`SumTakesOut`), although the definition fixes one.

**Migrations.** `IInv` follows the scripts. The file is at the level of the last
version it records, and each row is the one found, taken through the updates up
to that level (`At2` to `At4`). A death makes a script start again on rows that
it has treated: script 3 and the interruption mark change nothing the second
time, and scripts 2 and 4 never get past their first column again, which is why
`ServesSettledRows` holds and `RestartSettles` does not. For any finite or
infinite set of rows, and any number of deaths.

**Dashboard.** A step of the page changes nothing of the server
(`PageKeepsCoordinator`), so the coordinator's theorems hold with the page
(`CoordinatorUnderPage`). The types of the page are not inductive: what is
brought to its history, and what the answers under way tell of runs, was read
earlier (`PageInv`); that it still holds rests on rows staying and verdicts being
final, whichever answer overtook another. For any number of polls and any runs that get old.
The set of runs is assumed finite here, since a card shows the newest of some.

Only model-checked: the liveness properties (those of Dashboard and
`RestartSettlesUnlessHalfAltered` among them), since liveness under fairness is
beyond the prover; and the four properties that do not hold.

## What does not hold

Each of these runs is expected to end in a counterexample.

* `coordinator_disconnect`: a connection that is closed during the INSERT leaves
  `busy` set until the process is restarted (`coordinator.rs:115`).
* `migrations_crash`: a death between an `ALTER TABLE` and the record of the
  version makes every later start fail (`db.rs:33`, `db.rs:41`).
  `RestartSettlesUnlessHalfAltered` shows that this is the only such place.
* `throughput_deadline`: workers survive a phase that is dropped before it
  stores the stop flag (`throughput.rs:116` and `296`).
* `throughput_rollback`: the summary of an upload is computed from samples taken
  before a failed request was taken back (`throughput.rs:303`).

## Not modelled

* The rounding of floating point numbers, the MOS score, and the JSON and the
  wording of a result (`model.rs`): data without control.
* `run_quality`, which repeats two phases of `run_full` with the same host code
  and, like it, is not called.
* The DNS, TLS, certificate, address and network interface checks of the engine
  (`dns.rs`, `tls.rs`, `cert.rs`, `ip_comparison.rs`, `network_bind.rs`,
  `cloudflare.rs`): one request each, of which the engine sees a value or an
  error; in Engine they are stages that end. They keep no state between calls.
* The Pause of the engine: nothing in the repository sends it.
* Configuration: `from_env` parses numbers and checks no range. Assumptions on
  constants are those of the modules and the theorems, not of the configuration.
* The MCP tools that only read, which answer from the same `status()` and
  queries as the requests of Dashboard; static assets, markup and styling.
* Development scripts, images and workflows.

What the HTTP library does with a body after its request was dropped
is external and taken to be nothing. A panic of the engine is in the safety run
only.

## Plan

Order: the coordinator first, since every other component relies on it; then the
schedule and the table it reads; then what a measurement counts; then what is
shown of it, and the engine. All of that is done. What is left, the most useful
first:

1. **Clock**: Scheduler with absolute times and a clock that may be set back
   (`db.rs:204`).
2. **Dashboard**: cards that overtake one another.
3. One observation to settle: an upload that is selected without packet loss
   shows the phase `packetloss` while its workers are joined
   (`throughput.rs:430`), although `get_active_test` promises "the active
   diagnostic and its current phase" (`mcp.rs:94`). Runner has both; the promise
   does not say which phase is meant.
4. **Readers of MCP**: `latest()` with a run in progress, which the dashboard
   does not use.
5. Proofs: the safety half of what is live, such as which states leave `busy`
   set without an owner, or that a page that has missed an end knows it; and
   `SpacedSchedule` without `LongRetention`, with the spacing that a short
   retention still leaves.
