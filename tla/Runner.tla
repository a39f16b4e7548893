------------------------------- MODULE Runner -------------------------------
(***************************************************************************)
(* One diagnostic from the inside: run_custom of adapter.rs, the task that *)
(* forwards the events of the phases, the task that watches the token, and *)
(* the loop of execute in coordinator.rs that shows what they report.      *)
(*                                                                         *)
(* Two senders share the progress channel.  run_custom sends the name of a *)
(* phase and the partial results directly; what happens within a phase     *)
(* goes through the event channel and the forwarder.  A full channel makes *)
(* its sender wait.                                                        *)
(*                                                                         *)
(* A phase is what its callers see of it: it sends events, may be cut      *)
(* short by the flag cancelled, and yields a value, no value or an error.  *)
(* Throughput.tla and LossProbe.tla look inside.                           *)
(***************************************************************************)
EXTENDS Integers, Sequences

CONSTANTS
    EventCapacity,      \* capacity of the event channel, 2048 in the code
    ProgressCapacity,   \* capacity of the progress channel, 128 in the code
    Packets,            \* cfg.udp_packets
    MaxOther            \* bound: events of SendOther and LateAnswer, of one diagnostic

ASSUME CapacityAssumption ==
    EventCapacity \in Nat \ {0} /\ ProgressCapacity \in Nat \ {0}
ASSUME BoundsAssumption == Packets \in Nat /\ MaxOther \in Nat

Tests == {"latency", "download", "upload", "packet_loss"}

VARIABLES
    selection,          \* the tests selected, not none
    stage,              \* run_custom: where it is in the phase of test
    test,               \* the test whose phase it is in
    done,               \* partial.completed
    values,             \* the tests that yielded a value
    sent,               \* requests of the packet loss phase
    others,             \* events of SendOther and LateAnswer so far
    events,             \* the event channel
    open,               \* event_tx has not been dropped
    held,               \* the event the forwarder is sending, or Nothing
    progress,           \* the progress channel
    execute,            \* execute: "loop", "settling" or "over"
    shown,              \* active: the phase and the tests completed
    token,              \* the cancellation token of the diagnostic
    cancelled,          \* the flag of the diagnostic
    cut,                \* history: a phase ended with the flag set
    result              \* what run_custom returned

vars == <<selection, stage, test, done, values, sent, others, events, open, held,
          progress, execute, shown, token, cancelled, cut, result>>

results == <<done, values, cut, result>>
counters == <<sent, others>>
channels == <<events, open, held, progress>>
coordinator == <<execute, shown>>
tokens == <<token, cancelled>>

\* The name of a phase, and how many of its requests were sent.
Phase(name) == <<name, 0>>
PhaseName(t) == IF t = "latency" THEN "idle_latency" ELSE t
PhaseNames == {"starting", "packetloss"} \union {PhaseName(t) : t \in Tests}
Phases == PhaseNames \X (0..Packets)

Named(phase) == [type |-> "phase", phase |-> phase]
Partial(tests) == [type |-> "partial", completed |-> tests]
Messages == {Named(p) : p \in Phases} \union {Partial(s) : s \in SUBSET Tests}

Nothing == <<"nothing", 0>>
Other == <<"other", 0>>         \* samples, ticks, information
Forwarded == {Phase("packetloss")} \union {<<"packet_loss", n>> : n \in 1..Packets}

TypeOK ==
    /\ selection \in (SUBSET Tests) \ {{}}
    /\ stage \in {"start", "announce", "enter", "body", "slot", "drain", "partial", "close",
                  "join", "verdict", "probe", "returned", "dropped"}
    /\ test \in Tests
    /\ done \subseteq selection /\ values \subseteq done
    /\ sent \in 0..Packets
    /\ others \in 0..MaxOther
    /\ events \in Seq(Forwarded \union {Other}) /\ Len(events) <= EventCapacity
    /\ open \in BOOLEAN
    /\ held \in Forwarded \union {Nothing}
    /\ progress \in Seq(Messages) /\ Len(progress) <= ProgressCapacity
    /\ execute \in {"loop", "settling", "over"}
    /\ shown \in [phase : Phases, completed : SUBSET Tests]
    /\ token \in BOOLEAN /\ cancelled \in BOOLEAN
    /\ cut \in BOOLEAN
    /\ result \in {"none", "measured", "unavailable", "error"}

Init ==
    /\ selection \in (SUBSET Tests) \ {{}}
    /\ stage = "start"
    /\ test = "latency"
    /\ done = {}
    /\ values = {}
    /\ sent = 0
    /\ others = 0
    /\ events = <<>>
    /\ open = FALSE
    /\ held = Nothing
    /\ progress = <<>>
    /\ execute = "loop"
    /\ shown = [phase |-> Phase("starting"), completed |-> {}]
    /\ token = FALSE
    /\ cancelled = FALSE
    /\ cut = FALSE
    /\ result = "none"

(***************************************************************************)
(* The channels.                                                           *)
(***************************************************************************)

\* When the receiver is gone, a message is dropped instead of waiting.
SendProgress(m) ==
    IF execute = "over" THEN UNCHANGED progress
    ELSE /\ Len(progress) < ProgressCapacity
         /\ progress' = Append(progress, m)

SendEvent(e) ==
    /\ Len(events) < EventCapacity
    /\ events' = Append(events, e)
    /\ UNCHANGED <<open, held, progress>>

(***************************************************************************)
(* run_custom.                                                             *)
(***************************************************************************)

Position(t) ==
    CASE t = "latency" -> 1 [] t = "download" -> 2 [] t = "upload" -> 3
      [] t = "packet_loss" -> 4

\* The phase that follows those of the tests in finished, if there is one.
Proceed(finished) ==
    IF selection = finished
    THEN stage' = "close" /\ UNCHANGED test
    ELSE /\ stage' = "announce"
         /\ test' \in selection \ finished
         /\ \A t \in selection \ finished : Position(test') <= Position(t)

\* The HTTP client is built, the channel opened, the two tasks spawned.
Start ==
    /\ stage = "start"
    /\ open' = TRUE
    /\ Proceed({})
    /\ UNCHANGED <<selection, results, counters, events, held, progress, coordinator, tokens>>

\* The HTTP client cannot be built.
StartFails ==
    /\ stage = "start"
    /\ stage' = "returned"
    /\ result' = "error"
    /\ UNCHANGED <<selection, test, done, values, cut, counters, channels, coordinator, tokens>>

Announce ==
    /\ stage = "announce"
    /\ SendProgress(Named(Phase(PhaseName(test))))
    /\ stage' = "enter"
    /\ UNCHANGED <<selection, test, results, counters, events, open, held, coordinator, tokens>>

Finished(value) ==
    /\ stage' = "partial"
    /\ done' = done \union {test}
    /\ values' = IF value THEN values \union {test} ELSE values
    /\ cut' = (cut \/ cancelled)
    /\ UNCHANGED <<selection, test, result, counters, channels, coordinator, tokens>>

\* A throughput phase looks at the flag before anything else, and the packet loss
\* phase may find no address or no socket.
Enter ==
    /\ stage = "enter"
    /\ ~(test \in {"download", "upload"} /\ cancelled)
    /\ stage' = "body"
    /\ UNCHANGED <<selection, test, results, counters, channels, coordinator, tokens>>

EndAtOnce ==
    /\ stage = "enter"
    /\ \/ test \in {"download", "upload"} /\ cancelled
       \/ test = "packet_loss"
    /\ Finished(FALSE)

SendOther ==
    /\ stage \in {"body", "drain"}
    /\ test # "packet_loss"
    /\ others < MaxOther
    /\ others' = others + 1
    /\ SendEvent(Other)
    /\ UNCHANGED <<selection, stage, test, results, sent, coordinator, tokens>>

\* The upload's sampling loop is over: it announces the packet loss phase before it
\* waits for its workers.
AnnounceNext ==
    /\ stage = "body"
    /\ test = "upload"
    /\ SendEvent(Phase("packetloss"))
    /\ stage' = "drain"
    /\ UNCHANGED <<selection, test, results, counters, coordinator, tokens>>

\* A slot of the packet loss phase: the flag is read, the request sent; answers to
\* earlier requests, and then the end of the slot, report the same number of requests.
Slot ==
    /\ stage = "body"
    /\ test = "packet_loss"
    /\ sent < Packets
    /\ ~cancelled
    /\ sent' = sent + 1
    /\ stage' = "slot"
    /\ UNCHANGED <<selection, test, results, others, channels, coordinator, tokens>>

LateAnswer ==
    /\ stage = "slot"
    /\ others < MaxOther
    /\ others' = others + 1
    /\ SendEvent(<<"packet_loss", sent>>)
    /\ UNCHANGED <<selection, stage, test, results, sent, coordinator, tokens>>

EndSlot ==
    /\ stage = "slot"
    /\ SendEvent(<<"packet_loss", sent>>)
    /\ stage' = "body"
    /\ UNCHANGED <<selection, test, results, counters, coordinator, tokens>>

\* The packet loss phase yields a value even if nothing was received, or sent.
EndBody ==
    \/ /\ stage = "body"
       /\ test \in {"latency", "download"}
       /\ \E value \in BOOLEAN : Finished(value)
    \/ /\ stage = "drain"
       /\ \E value \in BOOLEAN : Finished(value)
    \/ /\ stage = "body"
       /\ test = "packet_loss"
       /\ sent = Packets \/ cancelled
       /\ Finished(TRUE)

\* Mutant of EmitPartial: it does not wait for room in the channel.
EmitPartialOrNot ==
    /\ stage = "partial"
    /\ \/ SendProgress(Partial(done))
       \/ Len(progress) = ProgressCapacity /\ UNCHANGED progress
    /\ Proceed(done)
    /\ UNCHANGED <<selection, results, counters, events, open, held, coordinator, tokens>>

\* emit_partial, and the next phase that is selected.
EmitPartial ==
    /\ stage = "partial"
    /\ SendProgress(Partial(done))
    /\ Proceed(done)
    /\ UNCHANGED <<selection, results, counters, events, open, held, coordinator, tokens>>

\* Mutant of Close: event_tx lives on.
CloseHolding ==
    /\ stage = "close"
    /\ stage' = "join"
    /\ UNCHANGED <<selection, test, results, counters, channels, coordinator, tokens>>

Close ==
    /\ stage = "close"
    /\ open' = FALSE
    /\ stage' = "join"
    /\ UNCHANGED <<selection, test, results, counters, events, held, progress,
                   coordinator, tokens>>

\* The forwarder ends when the channel is closed and empty.
Join ==
    /\ stage = "join"
    /\ ~open /\ events = <<>> /\ held = Nothing
    /\ stage' = "verdict"
    /\ UNCHANGED <<selection, test, results, counters, channels, coordinator, tokens>>

Outcome == IF values = {} THEN "unavailable" ELSE "measured"

\* Mutant of Verdict: the flag is not looked at.
VerdictUnchecked ==
    /\ stage = "verdict"
    /\ result' = Outcome
    /\ stage' = IF result' = "unavailable" THEN "probe" ELSE "returned"
    /\ UNCHANGED <<selection, test, done, values, cut, counters, channels, coordinator, tokens>>

\* The watch is aborted and the flag read; without a value there is one more probe.
Verdict ==
    /\ stage = "verdict"
    /\ result' = IF cancelled THEN "error" ELSE Outcome
    /\ stage' = IF result' = "unavailable" THEN "probe" ELSE "returned"
    /\ UNCHANGED <<selection, test, done, values, cut, counters, channels, coordinator, tokens>>

ConnectivityProbe ==
    /\ stage = "probe"
    /\ stage' = "returned"
    /\ UNCHANGED <<selection, test, results, counters, channels, coordinator, tokens>>

\* What run_custom does of itself; SendOther and LateAnswer may happen or not.
RunCustom ==
    \/ Start \/ StartFails \/ Announce \/ Enter \/ EndAtOnce \/ AnnounceNext \/ Slot
    \/ EndSlot \/ EndBody \/ EmitPartial \/ Close \/ Join \/ Verdict \/ ConnectivityProbe

(***************************************************************************)
(* The two tasks.                                                          *)
(***************************************************************************)

\* forward_progress.
Convert(e) == IF e = Other THEN Nothing ELSE e

\* Mutant of Take: every event is forwarded by a task of its own, in any order.
TakeAny ==
    /\ held = Nothing
    /\ \E i \in 1..Len(events) :
        /\ held' = Convert(events[i])
        /\ events' = SubSeq(events, 1, i - 1) \o SubSeq(events, i + 1, Len(events))
    /\ UNCHANGED <<selection, stage, test, results, counters, open, progress,
                   coordinator, tokens>>

Take ==
    /\ held = Nothing
    /\ events # <<>>
    /\ held' = Convert(Head(events))
    /\ events' = Tail(events)
    /\ UNCHANGED <<selection, stage, test, results, counters, open, progress,
                   coordinator, tokens>>

\* Mutant of Forward: it does not wait for room in the channel.
ForwardUnbounded ==
    /\ held # Nothing
    /\ progress' = Append(progress, Named(held))
    /\ held' = Nothing
    /\ UNCHANGED <<selection, stage, test, results, counters, events, open,
                   coordinator, tokens>>

Forward ==
    /\ held # Nothing
    /\ SendProgress(Named(held))
    /\ held' = Nothing
    /\ UNCHANGED <<selection, stage, test, results, counters, events, open,
                   coordinator, tokens>>

\* cancel_watch, until run_custom aborts it.
WatchToken ==
    /\ token
    /\ ~cancelled
    /\ stage \notin {"start", "probe", "returned"}
    /\ cancelled' = TRUE
    /\ UNCHANGED <<selection, stage, test, results, counters, channels, coordinator, token>>

(***************************************************************************)
(* execute.                                                                *)
(***************************************************************************)

\* update_progress.
Apply(m) ==
    IF m.type = "phase" THEN [shown EXCEPT !.phase = m.phase]
    ELSE [shown EXCEPT !.completed = m.completed]

Read ==
    /\ execute = "loop"
    /\ progress # <<>>
    /\ shown' = Apply(Head(progress))
    /\ progress' = Tail(progress)
    /\ UNCHANGED <<selection, stage, test, results, counters, events, open, held,
                   execute, tokens>>

Shutdown ==
    /\ ~token
    /\ token' = TRUE
    /\ UNCHANGED <<selection, stage, test, results, counters, channels, coordinator, cancelled>>

\* The loop is left with what run_custom returned.
TakeResult ==
    /\ execute = "loop"
    /\ stage = "returned"
    /\ execute' = "settling"
    /\ UNCHANGED <<selection, stage, test, results, counters, channels, shown, tokens>>

\* The loop is left at shutdown or at the deadline; run_custom is not polled again.
Drop ==
    /\ execute = "loop"
    /\ token \/ stage # "returned"
    /\ token' = TRUE
    /\ execute' = "settling"
    /\ stage' = "dropped"
    /\ open' = FALSE
    /\ UNCHANGED <<selection, test, results, counters, events, held, progress, shown, cancelled>>

\* The verdict is stored and execute returns; its end of the channel is dropped.
Settle ==
    /\ execute = "settling"
    /\ execute' = "over"
    /\ progress' = <<>>
    /\ UNCHANGED <<selection, stage, test, results, counters, events, open, held, shown, tokens>>

Next ==
    \/ RunCustom \/ SendOther \/ LateAnswer
    \/ Take \/ Forward \/ WatchToken
    \/ Read \/ Shutdown \/ TakeResult \/ Drop \/ Settle

Spec == Init /\ [][Next]_vars

\* Every task is polled, and every phase comes to its end.  The deadline is not
\* assumed to fire: the diagnostic must end of itself.
Fairness ==
    /\ WF_vars(RunCustom)
    /\ WF_vars(Take)
    /\ WF_vars(Forward)
    /\ WF_vars(Read)
    /\ WF_vars(TakeResult)
    /\ WF_vars(Settle)

FairSpec == Spec /\ Fairness

(***************************************************************************)
(* Properties.                                                             *)
(***************************************************************************)

\* How far the phase shown is.
Rank(phase) ==
    CASE phase[1] = "starting" -> 0
      [] phase[1] = "idle_latency" -> 1
      [] phase[1] = "download" -> 2
      [] phase[1] = "upload" -> 3
      [] phase[1] \in {"packetloss", "packet_loss"} -> 4 + phase[2]

\* The phase shown never goes back, although its name comes from two senders and the
\* event of the upload overtakes, or is overtaken by, the name run_custom sends
\* (forward_progress, update_progress).
PhaseNeverGoesBack == [][Rank(shown.phase) <= Rank(shown'.phase)]_vars

\* The tests a phase comes after.
Before(phase) ==
    {t \in selection :
        Position(t) < IF phase[1] = "packetloss" THEN 3
                      ELSE IF phase[1] = "packet_loss" THEN 4 ELSE Rank(phase)}

\* What is shown is consistent: a phase is only shown with the results of all phases
\* before it, which were sent directly while the phase's own events took the
\* forwarder, and a test is only shown as completed when it is (emit_partial).
ShownIsHonest == Before(shown.phase) \subseteq shown.completed /\ shown.completed \subseteq done

\* A report is made only of phases that all ran to their end: one that the flag cut
\* short, at whatever moment it was set, never contributes to a stored result, and
\* nothing is left in the event channel (the check of cancelled in run_custom).
ReportIsComplete ==
    result \in {"measured", "unavailable"} =>
        /\ done = selection
        /\ ~cut
        /\ events = <<>> /\ held = Nothing

\* A diagnostic ends of itself, without the deadline: run_custom waits for the
\* forwarder, which waits for execute, which waits for run_custom.
RunEnds == stage = "start" ~> stage \in {"returned", "dropped"}
=============================================================================
