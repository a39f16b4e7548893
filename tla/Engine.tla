-------------------------------- MODULE Engine --------------------------------
(***************************************************************************)
(* The engine of measurement-core (TestEngine::run in engine/mod.rs) and   *)
(* its host (run_full in adapter.rs): a task that runs the stages of a     *)
(* diagnostic one after the other, a listener for the control channel, and *)
(* the host, which reads the events and ends with the engine's result,     *)
(* with the token of its caller, or when the caller drops it.              *)
(*                                                                         *)
(* Two stages are looked into: Traceroute.tla and LatencyProbe.tla.  The   *)
(* others are what the engine sees of them: events, and in the end a       *)
(* value, no value or an error.  The server runs its diagnostics with      *)
(* run_custom (Runner.tla); this is the crate's other way to run one.      *)
(***************************************************************************)
EXTENDS Traceroute, LatencyProbe

CONSTANTS
    Capacity,           \* of the event channel, 2048 in the code
    Configs             \* the optional stages a RunConfig may ask for

Optional == {"dns", "tls", "compare", "traceroute"}

ASSUME CapacityAssumption == Capacity \in Nat \ {0}
ASSUME ConfigsAssumption == Configs \subseteq SUBSET Optional

VARIABLES
    asked,              \* the optional stages of this RunConfig
    stage,              \* where TestEngine::run is
    inside,             \* it is within that stage
    values,             \* the measurements that yielded a value
    ran,                \* history: the stages that were entered
    listener,           \* "none", "on" or "ended"
    mail,               \* a Cancel is in the control channel
    queue,              \* events in the event channel
    token,              \* the cancellation token of the caller
    host,               \* run_full: "on", "stopping" or "over"
    answer              \* what it returned

engine == <<asked, stage, inside, values, ran>>
control == <<listener, mail>>
caller == <<token, host, answer>>
vars == <<traceVars, probes, engine, control, queue, caller>>

Stages == <<"meta", "dns", "tls", "external", "compare", "traceroute", "latency",
            "download", "upload", "udp", "summary", "done">>

Measurements == {"latency", "download", "upload"}
Ended == {"done", "failed"}

TypeOK ==
    /\ TraceTypeOK /\ ProbesTypeOK /\ cancelled \in BOOLEAN
    /\ asked \in Configs
    /\ \E i \in 1..Len(Stages) : stage \in {Stages[i], "failed"}
    /\ inside \in BOOLEAN
    /\ values \subseteq Measurements
    /\ \A s \in ran : \E i \in 1..Len(Stages) : s = Stages[i]
    /\ listener \in {"none", "on", "ended"}
    /\ queue \in 0..Capacity
    /\ mail \in BOOLEAN /\ token \in BOOLEAN
    /\ host \in {"on", "stopping", "over"}
    /\ answer \in {"none", "ok", "error", "cancelled", "dropped"}

Init ==
    /\ TraceInit /\ ProbesInit /\ cancelled = FALSE
    /\ asked \in Configs
    /\ stage = "meta" /\ inside = FALSE
    /\ values = {} /\ ran = {}
    /\ listener = "none" /\ mail = FALSE
    /\ queue = 0
    /\ token = FALSE
    /\ host = "on"
    /\ answer = "none"

(***************************************************************************)
(* The engine.                                                             *)
(***************************************************************************)

\* Mutant of SendEvent: nobody waits for room in the channel.
SendEventUnbounded ==
    IF host = "over" THEN UNCHANGED queue ELSE queue' = queue + 1

\* A full channel makes its sender wait; without a receiver the event is dropped.
SendEvent ==
    IF host = "over" THEN UNCHANGED queue
    ELSE queue < Capacity /\ queue' = queue + 1

NextStage ==
    /\ inside' = FALSE
    /\ \E i \in 1..(Len(Stages) - 1) : stage = Stages[i] /\ stage' = Stages[i + 1]

Fail == stage' = "failed" /\ inside' = FALSE

\* The family of addresses cannot be had, or the HTTP client not be built.
StartFails ==
    /\ stage = "meta"
    /\ Fail
    /\ UNCHANGED <<traceVars, probes, asked, values, ran, control, queue, caller>>

\* What is known of the edge is collected, and sent if there is any; then the
\* listener is spawned.
FetchMeta ==
    /\ stage = "meta"
    /\ SendEvent \/ UNCHANGED queue
    /\ listener' = "on"
    /\ NextStage
    /\ UNCHANGED <<traceVars, probes, asked, values, ran, mail, caller>>

\* Each diagnostic looks at its switch and at the flag, the packet loss probe at the
\* flag.  The external addresses come with the measurement of the DNS.  The code also
\* asks whether base_url has a host: one that the client was built from does.
Wanted ==
    CASE stage \in Optional -> stage \in asked /\ ~cancelled
      [] stage = "external" -> "dns" \in asked /\ ~cancelled
      [] stage = "udp" -> ~cancelled
      [] stage \in Measurements -> TRUE
      [] OTHER -> FALSE

Skip ==
    /\ stage \in Optional \union {"external", "udp"}
    /\ ~inside /\ ~Wanted
    /\ NextStage
    /\ UNCHANGED <<traceVars, probes, asked, values, ran, control, queue, caller>>

\* "Measuring ...", or the start of the phase.
Enter ==
    /\ ~inside /\ Wanted
    /\ IF stage \in {"external", "udp"} THEN UNCHANGED queue ELSE SendEvent
    /\ inside' = TRUE
    /\ ran' = ran \union {stage}
    /\ UNCHANGED <<traceVars, probes, asked, stage, values, control, caller>>

\* The result of a diagnostic, or that it failed.
LeaveDiagnostic ==
    /\ inside
    /\ stage \in {"dns", "tls", "external", "compare"}
    /\ SendEvent
    /\ NextStage
    /\ UNCHANGED <<traceVars, probes, asked, values, ran, control, caller>>

Trace ==
    /\ inside /\ stage = "traceroute"
    /\ \/ Quiet /\ UNCHANGED queue
       \/ Telling /\ SendEvent
    /\ UNCHANGED <<probes, engine, control, caller>>

\* Bound: of the finished trace only its result lives on, here not looked at.
LeaveTrace ==
    /\ inside /\ stage = "traceroute"
    /\ place \in Over
    /\ SendEvent
    /\ place' = "off" /\ ttl' = 0 /\ hops' = <<>> /\ completed' = FALSE /\ sent' = {}
    /\ probe' = 0 /\ waited' = NoProbe /\ round' = NoRound
    /\ NextStage
    /\ UNCHANGED <<cancelled, probes, asked, values, ran, control, caller>>

Probe ==
    /\ inside /\ stage = "latency"
    /\ \/ (BeginProbes \/ Request \/ EndProbes) /\ UNCHANGED queue
       \/ (Answered \/ Unanswered) /\ SendEvent
    /\ UNCHANGED <<trace, engine, control, caller>>

\* Of the probes, whether there is a latency.
LeaveProbes ==
    /\ inside /\ stage = "latency"
    /\ probing = "over"
    /\ values' = IF HasLatency THEN values \union {stage} ELSE values
    /\ probing' = "off" /\ requests' = 0 /\ received' = 0 /\ samples' = <<>>
    /\ mean' = 0 /\ m2' = 0
    /\ NextStage
    /\ UNCHANGED <<traceVars, asked, ran, control, queue, caller>>

\* What a phase of the throughput or the packet loss tells while it runs.
Tell ==
    /\ inside /\ stage \in {"download", "upload", "udp"}
    /\ SendEvent
    /\ UNCHANGED <<traceVars, probes, engine, control, caller>>

\* The task of the latency under load does not answer in time: no result at all.
LeaveThroughput ==
    /\ inside /\ stage \in {"download", "upload"}
    /\ \/ Fail /\ UNCHANGED values
       \/ NextStage /\ values' \in {values, values \union {stage}}
    /\ UNCHANGED <<traceVars, probes, asked, ran, control, queue, caller>>

\* An error of the packet loss probe is sent as an event and kept as a text.
LeaveUdp ==
    /\ inside /\ stage = "udp"
    /\ SendEvent \/ UNCHANGED queue
    /\ NextStage
    /\ UNCHANGED <<traceVars, probes, asked, values, ran, control, caller>>

\* The listener is aborted and the result returned.
Summarise ==
    /\ stage = "summary"
    /\ SendEvent
    /\ listener' = "ended"
    /\ NextStage
    /\ UNCHANGED <<traceVars, probes, asked, values, ran, mail, caller>>

\* What the engine does of itself; Tell may happen or not.
Run ==
    \/ StartFails \/ FetchMeta \/ Skip \/ Enter \/ LeaveDiagnostic \/ Trace \/ LeaveTrace
    \/ Probe \/ LeaveProbes \/ LeaveThroughput \/ LeaveUdp \/ Summarise

(***************************************************************************)
(* The control listener.                                                   *)
(***************************************************************************)

Listen ==
    /\ listener = "on"
    /\ mail
    /\ Cancel
    /\ listener' = "ended"
    /\ mail' = FALSE
    /\ UNCHANGED <<trace, probes, engine, queue, caller>>

\* Mutant of ControlCloses: only a Cancel ends the listener.
ControlStaysOpen ==
    /\ listener = "on" /\ mail /\ host = "over"
    /\ listener' = "ended"
    /\ UNCHANGED <<traceVars, probes, engine, mail, queue, caller>>

\* The sender is gone with the host, and nothing is left to be received.
ControlCloses ==
    /\ listener = "on" /\ ~mail /\ host = "over"
    /\ listener' = "ended"
    /\ UNCHANGED <<traceVars, probes, engine, mail, queue, caller>>

(***************************************************************************)
(* The host.                                                               *)
(***************************************************************************)

CancelToken ==
    /\ ~token
    /\ token' = TRUE
    /\ UNCHANGED <<traceVars, probes, engine, control, queue, host, answer>>

ReadEvent ==
    /\ host = "on"
    /\ queue > 0
    /\ queue' = queue - 1
    /\ UNCHANGED <<traceVars, probes, engine, control, caller>>

\* The host is over; its ends of the two channels are dropped.
Return(result) ==
    /\ host' = "over"
    /\ answer' = result
    /\ queue' = 0

\* Whichever of the token and the next event select! sees first.
SendCancel ==
    /\ host = "on"
    /\ token
    /\ host' = "stopping"
    /\ mail' = TRUE
    /\ UNCHANGED <<traceVars, probes, engine, listener, queue, token, answer>>

\* Mutants of StopWaiting: no time limit; and a result that comes in time is used.
StopWaitingAtEnd ==
    /\ host = "stopping" /\ stage \in Ended
    /\ Return("cancelled")
    /\ UNCHANGED <<traceVars, probes, engine, control, token>>

StopWaitingWithResult ==
    /\ host = "stopping"
    /\ Return(IF stage = "done" /\ values # {} THEN "ok" ELSE "cancelled")
    /\ UNCHANGED <<traceVars, probes, engine, control, token>>

\* The engine has ended, or 5 seconds are over: its result is not looked at.
StopWaiting ==
    /\ host = "stopping"
    /\ Return("cancelled")
    /\ UNCHANGED <<traceVars, probes, engine, control, token>>

\* The channel is closed and empty.  Without a value there is one more probe of the
\* connection, and an error.
TakeResult ==
    /\ host = "on"
    /\ queue = 0 /\ stage \in Ended
    /\ Return(IF stage = "done" /\ values # {} THEN "ok" ELSE "error")
    /\ UNCHANGED <<traceVars, probes, engine, control, token>>

\* The caller drops the future of run_full, at its deadline say.  The engine's task
\* is not aborted.
DropHost ==
    /\ host # "over"
    /\ Return("dropped")
    /\ UNCHANGED <<traceVars, probes, engine, control, token>>

Next ==
    \/ Run \/ Tell \/ Listen \/ ControlCloses
    \/ CancelToken \/ ReadEvent \/ SendCancel \/ StopWaiting \/ TakeResult \/ DropHost

Spec == Init /\ [][Next]_vars

\* Every task is polled and every request has a timeout.
Fairness ==
    /\ WF_vars(Run)
    /\ WF_vars(Listen) /\ WF_vars(ControlCloses)
    /\ WF_vars(ReadEvent) /\ WF_vars(SendCancel)
    /\ WF_vars(StopWaiting) /\ WF_vars(TakeResult)

FairSpec == Spec /\ Fairness

(***************************************************************************)
(* Properties.                                                             *)
(***************************************************************************)

\* The host returns: the engine comes to its end although it waits for the host to
\* read its events, and a host that has stopped reading does not wait for an engine
\* that waits for it ("Cancelled" within 5 seconds, adapter.rs run_full).
HostReturns == host = "on" ~> host = "over"

\* Nothing runs on for ever behind a host that is over, whether it returned or was
\* dropped and whatever stage the engine was in: the engine and the listener end,
\* also where an error leaves the engine before it aborts the listener ("This was
\* causing high CPU usage when idle", mod.rs).
NothingLeftBehind == host = "over" ~> (stage \in Ended /\ listener # "on")

\* A report is made of an engine that no Cancel has reached and that ran every stage
\* it was asked for; a diagnostic that was cancelled never yields one, however late.
ReportIsUncut ==
    answer = "ok" =>
        /\ ~cancelled
        /\ Measurements \union {"udp"} \union asked \subseteq ran
=============================================================================
