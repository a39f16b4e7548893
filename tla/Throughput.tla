----------------------------- MODULE Throughput -----------------------------
(***************************************************************************)
(* One throughput phase of a diagnostic (run_download_with_loaded_latency  *)
(* and run_upload_with_loaded_latency in throughput.rs): workers that      *)
(* transfer until they see the stop flag, a probe of the loaded latency,   *)
(* and the loop that samples the byte counter.                             *)
(*                                                                         *)
(* Workers and probe are tasks of their own: they outlive the phase when   *)
(* its future is dropped, which is how execute in coordinator.rs ends a    *)
(* diagnostic at its deadline and at shutdown.  The flag cancelled is set  *)
(* by a further task (cancel_watch in adapter.rs), some time after the     *)
(* token.  Nothing in the server sets the flag paused: it is left out, and *)
(* so are the events, which nothing waits for as long as execute reads     *)
(* them, the halving of a download that is answered 429, and the 30        *)
(* seconds after which the phase gives up the latency summary: no probe    *)
(* takes more than two.                                                    *)
(*                                                                         *)
(* Bytes are counted in chunks, time in periods of the sampling loop.      *)
(***************************************************************************)
EXTENDS Integers, Sequences, FiniteSets, Functions

CONSTANTS
    Workers,            \* cfg.concurrency of them
    Chunks,             \* chunks in the body of a request
    Ticks,              \* duration of the phase
    MinRamp,            \* STEADY_STATE_MIN_RAMP
    MaxTotal,           \* bound: chunks counted at one time
    Interruptions       \* what may end the diagnostic: "deadline", "shutdown"

ASSUME SizeAssumption ==
    /\ Chunks \in Nat \ {0} /\ Ticks \in Nat \ {0} /\ MinRamp \in Nat \ {0}
    /\ MaxTotal \in Nat
ASSUME WorkersAssumption == IsFiniteSet(Workers)
ASSUME InterruptionAssumption == Interruptions \subseteq {"deadline", "shutdown"}

VARIABLES
    direction,          \* "download" or "upload"
    pc,                 \* the phase's future
    stop,               \* the flag of the workers
    worker,             \* per worker: where it is, chunks of its request counted
    total,              \* the byte counter
    samples,            \* the counter at each tick
    probe,              \* the loaded latency task
    token,              \* the cancellation token of the diagnostic
    cancelled,          \* the flag of the diagnostic
    result,             \* the summary of the phase
    good                \* history: chunks of upload requests that succeeded

vars == <<direction, pc, stop, worker, total, samples, probe, token, cancelled,
          result, good>>

tokens == <<token, cancelled>>

Gone == [pc |-> "gone", counted |-> 0]
Idle == [pc |-> "idle", counted |-> 0]

Live == {w \in Workers : worker[w].pc # "gone"}

NoResult == [bytes |-> 0, rate |-> 0, steady |-> FALSE]

TypeOK ==
    /\ direction \in {"download", "upload"}
    /\ pc \in {"entry", "ticking", "draining", "collect", "returned", "dropped"}
    /\ stop \in BOOLEAN
    /\ worker \in [Workers -> [pc : {"gone", "idle", "request"}, counted : 0..Chunks]]
    /\ total \in 0..MaxTotal
    /\ samples \in Seq(0..MaxTotal) /\ Len(samples) <= Ticks
    /\ probe \in {"none", "running", "sent"}
    /\ token \in BOOLEAN
    /\ cancelled \in BOOLEAN /\ (cancelled => token)
    /\ result \in [bytes : Nat, rate : Nat, steady : BOOLEAN]
    /\ good \in 0..MaxTotal

Init ==
    /\ direction \in {"download", "upload"}
    /\ pc = "entry"
    /\ stop = FALSE
    /\ worker = [w \in Workers |-> Gone]
    /\ total = 0
    /\ samples = <<>>
    /\ probe = "none"
    /\ token = FALSE
    /\ cancelled = FALSE
    /\ result = NoResult
    /\ good = 0

(***************************************************************************)
(* The workers.                                                            *)
(***************************************************************************)

\* The loop condition, and a new request.
Loop(w) ==
    /\ worker[w].pc = "idle"
    /\ worker' = [worker EXCEPT ![w] = IF stop THEN Gone
                                       ELSE [pc |-> "request", counted |-> 0]]
    /\ UNCHANGED <<direction, pc, stop, total, samples, probe, tokens, result, good>>

\* A chunk arrives, or is pulled from the body that is being sent.  A download
\* looks at the stop flag after every chunk, an upload does not.
Transfer(w) ==
    /\ worker[w].pc = "request"
    /\ worker[w].counted < Chunks
    /\ total < MaxTotal
    /\ total' = total + 1
    /\ worker' = [worker EXCEPT ![w] =
                    IF direction = "download" /\ stop THEN Idle
                    ELSE [pc |-> "request", counted |-> worker[w].counted + 1]]
    /\ UNCHANGED <<direction, pc, stop, samples, probe, tokens, result, good>>

\* The request is over: answered with success, or, for a download, in any way.
Complete(w) ==
    /\ worker[w].pc = "request"
    /\ worker' = [worker EXCEPT ![w] = Idle]
    /\ good' = IF direction = "upload" THEN good + worker[w].counted ELSE good
    /\ UNCHANGED <<direction, pc, stop, total, samples, probe, tokens, result>>

\* Mutants of Fail: what was counted stays counted; a whole body is taken back.
FailKeepingCount(w) ==
    /\ direction = "upload"
    /\ worker[w].pc = "request"
    /\ worker' = [worker EXCEPT ![w] = Idle]
    /\ UNCHANGED <<direction, pc, stop, total, samples, probe, tokens, result, good>>

FailWholeBody(w) ==
    /\ direction = "upload"
    /\ worker[w].pc = "request"
    /\ total' = total - Chunks
    /\ worker' = [worker EXCEPT ![w] = Idle]
    /\ UNCHANGED <<direction, pc, stop, samples, probe, tokens, result, good>>

\* An upload request fails, is refused or times out: what was counted is taken back.
Fail(w) ==
    /\ direction = "upload"
    /\ worker[w].pc = "request"
    /\ total' = total - worker[w].counted
    /\ worker' = [worker EXCEPT ![w] = Idle]
    /\ UNCHANGED <<direction, pc, stop, samples, probe, tokens, result, good>>

(***************************************************************************)
(* The loaded latency task, and the task that watches the token.           *)
(***************************************************************************)

\* The probes last as long as the phase, or until they see the flag.
ProbeEnds ==
    /\ probe = "running"
    /\ probe' = "sent"
    /\ UNCHANGED <<direction, pc, stop, worker, total, samples, tokens, result, good>>

WatchToken ==
    /\ token
    /\ ~cancelled
    /\ cancelled' = TRUE
    /\ UNCHANGED <<direction, pc, stop, worker, total, samples, probe, token, result, good>>

(***************************************************************************)
(* The phase.                                                              *)
(***************************************************************************)

\* A cancel that came before the phase: no worker is spawned.
Enter ==
    /\ pc = "entry"
    /\ IF cancelled
       THEN /\ pc' = "returned"
            /\ UNCHANGED <<worker, probe>>
       ELSE /\ pc' = "ticking"
            /\ worker' = [w \in Workers |-> Idle]
            /\ probe' = "running"
    /\ UNCHANGED <<direction, stop, total, samples, tokens, result, good>>

Tick ==
    /\ pc = "ticking"
    /\ Len(samples) < Ticks
    /\ ~cancelled
    /\ samples' = Append(samples, total)
    /\ UNCHANGED <<direction, pc, stop, worker, total, probe, tokens, result, good>>

\* Mutants of LeaveLoop: the stop flag is forgotten; the workers are not joined.
LeaveLoopUnstopped ==
    /\ pc = "ticking"
    /\ Len(samples) = Ticks \/ cancelled
    /\ pc' = "draining"
    /\ UNCHANGED <<direction, stop, worker, total, samples, probe, tokens, result, good>>

LeaveLoopUnjoined ==
    /\ pc = "ticking"
    /\ Len(samples) = Ticks \/ cancelled
    /\ stop' = TRUE
    /\ pc' = "collect"
    /\ UNCHANGED <<direction, worker, total, samples, probe, tokens, result, good>>

\* The duration is over, or the flag was seen.
LeaveLoop ==
    /\ pc = "ticking"
    /\ Len(samples) = Ticks \/ cancelled
    /\ stop' = TRUE
    /\ pc' = "draining"
    /\ UNCHANGED <<direction, worker, total, samples, probe, tokens, result, good>>

Minus(a, b) == IF a > b THEN a - b ELSE 0       \* saturating_sub

\* The i-th rate sample: what the counter gained since the tick before.
Rate(i) == Minus(samples[i], IF i = 1 THEN 0 ELSE samples[i - 1])

RateOver(from, to) == SumFunctionOnSet([i \in from..to |-> Rate(i)], from..to)

\* A fifth of the phase, at least MinRamp: the first sample not before it.
RampEnd ==
    LET fifth == (Len(samples) + 4) \div 5
    IN IF fifth > MinRamp THEN fifth ELSE MinRamp

\* Mutant of Summary: the rate of the last interval of the ramp is included.
SummaryWithRamp ==
    IF Len(samples) >= 2 /\ Len(samples) - RampEnd >= 1
    THEN [bytes |-> Minus(samples[Len(samples)], samples[RampEnd]),
          rate |-> RateOver(RampEnd, Len(samples)), steady |-> TRUE]
    ELSE [bytes |-> total, rate |-> RateOver(1, Len(samples)), steady |-> FALSE]

\* steady_state_view, or else the whole phase; the throughput is the rate divided
\* by the number of its samples.
Summary ==
    IF Len(samples) >= 2 /\ Len(samples) - RampEnd >= 1
    THEN [bytes |-> Minus(samples[Len(samples)], samples[RampEnd]),
          rate |-> RateOver(RampEnd + 1, Len(samples)), steady |-> TRUE]
    ELSE [bytes |-> total, rate |-> RateOver(1, Len(samples)), steady |-> FALSE]

Drained ==
    /\ pc = "draining"
    /\ Live = {}
    /\ result' = Summary
    /\ pc' = "collect"
    /\ UNCHANGED <<direction, stop, worker, total, samples, probe, tokens, good>>

\* The latency summary is received, and its task joined.
Collect ==
    /\ pc = "collect"
    /\ probe = "sent"
    /\ pc' = "returned"
    /\ UNCHANGED <<direction, stop, worker, total, samples, probe, tokens, result, good>>

(***************************************************************************)
(* execute, in coordinator.rs.                                             *)
(***************************************************************************)

Unfinished == pc \in {"entry", "ticking", "draining", "collect"}

\* The process is told to stop; the token of the diagnostic is its child.
Shutdown ==
    /\ "shutdown" \in Interruptions
    /\ ~token
    /\ token' = TRUE
    /\ UNCHANGED <<direction, pc, stop, worker, total, samples, probe, cancelled, result, good>>

\* The loop of execute ends, and the future of the engine is never polled again.
Drop ==
    /\ Unfinished
    /\ token \/ "deadline" \in Interruptions
    /\ token' = TRUE
    /\ pc' = "dropped"
    /\ UNCHANGED <<direction, stop, worker, total, samples, probe, cancelled, result, good>>

Phase == Enter \/ Tick \/ LeaveLoop \/ Drained \/ Collect

Next ==
    \/ \E w \in Workers : Loop(w) \/ Transfer(w) \/ Complete(w) \/ Fail(w)
    \/ ProbeEnds
    \/ WatchToken
    \/ Phase
    \/ Shutdown
    \/ Drop

Spec == Init /\ [][Next]_vars

\* The runtime polls every task, the clock of the phase advances, and a request
\* is over after the 30 seconds of the client's timeout, whatever the server does.
Fairness ==
    /\ WF_vars(Phase)
    /\ WF_vars(ProbeEnds)
    /\ WF_vars(WatchToken)
    /\ \A w \in Workers :
        /\ WF_vars(Loop(w))
        /\ WF_vars(Complete(w) \/ Fail(w))

FairSpec == Spec /\ Fairness

(***************************************************************************)
(* Properties.                                                             *)
(***************************************************************************)

\* The counter is the sum of what successful requests and those in progress have
\* sent, so that taking back a request never wraps it (AtomicU64::fetch_sub), and
\* no worker's failure takes away what another one counted.
TotalIsExact ==
    direction = "upload" =>
        total = good + SumFunctionOnSet([w \in Workers |-> worker[w].counted], Workers)

\* When the phase hands over its summary, the link is idle: neither a worker nor a
\* latency probe is left to disturb the next phase.
QuietOnReturn == pc = "returned" => Live = {} /\ probe # "running"

\* The two figures of a download agree: the rate samples of the steady window add
\* up to its bytes (start_idx in steady_state_view), and those of a phase without a
\* steady window do not exceed the bytes received.
DownloadFiguresAgree ==
    direction = "download" /\ pc = "returned" =>
        IF result.steady THEN result.rate = result.bytes ELSE result.rate <= result.bytes

\* A phase that is not dropped returns: no worker, and no order of stop, join and
\* latency summary keeps it.
PhaseEnds == pc = "ticking" ~> pc \in {"returned", "dropped"}

\* The link is given back, whatever ends the diagnostic.  README: "A test remains
\* active: the 90-second deadline cancels it", and "One diagnostic at a time."
LinkIsReleased == ~Unfinished ~> Live = {}

\* Uploaded bytes are reported only if a request succeeded: "On failure, subtract
\* what we counted so the live chart stays smooth without permanently
\* over-reporting."
FailuresAreNotReported ==
    direction = "upload" /\ pc = "returned" /\ good = 0 => result.bytes = 0
=============================================================================
