----------------------------- MODULE Traceroute -----------------------------
(***************************************************************************)
(* The route to the measurement edge (traceroute.rs): a round of probes    *)
(* per hop on a raw ICMP socket, and the system's tool when that socket    *)
(* cannot be had.                                                          *)
(*                                                                         *)
(* A raw socket reads every ICMP packet that reaches the host: answers to  *)
(* earlier probes that come late, among them answers of other hops, are    *)
(* read in the round of a later one.  Only the sequence number tells them  *)
(* apart.  The network answers a probe that went out at any later time, in *)
(* any order, once, more often or never, and from any node on the way; the *)
(* route may change between two answers.  An address is the distance of    *)
(* its router.                                                             *)
(***************************************************************************)
EXTENDS Integers, Sequences, CancelFlag

CONSTANTS
    MaxHops,            \* max_hops, 30 by default
    Probes,             \* PROBES_PER_HOP, 3
    Distances           \* distances at which the destination may be found

ASSUME HopsAssumption == MaxHops \in 1..255
ASSUME ProbesAssumption == Probes \in 1..255
ASSUME DistancesAssumption == Distances \subseteq Nat \ {0}

VARIABLES
    place,              \* where run_traceroute is
    ttl,                \* the hop being probed; the number of the tool's last line
    probe,              \* probe_num
    waited,             \* icmp_seq of the probe that is waited for, or NoProbe
    round,              \* HopRound
    hops,               \* the hops so far
    completed,
    sent                \* the probes that went out: what the network may answer

trace == <<place, ttl, probe, waited, round, hops, completed, sent>>
traceVars == <<trace, cancelled>>
roundVars == <<probe, waited, round, sent>>
socketVars == <<ttl, roundVars>>

NoProbe == -1
Dest == 0               \* the address that was resolved
Alias == -1             \* another address of the same name
NoAddress == -2

Nodes == 1..MaxHops \union {Dest, Alias}

\* An answer: the probe it answers, who sent it, whether it is an echo.
Probed == (1..MaxHops) \X (0..(Probes - 1))
Answers == [ttl : 1..MaxHops, probe : 0..(Probes - 1), from : Nodes, echo : BOOLEAN]

Over == {"done", "failed"}
Places == {"off", "resolve", "icmp", "tool", "output"} \union Over

NoRound == [ip |-> NoAddress, rtts |-> <<>>, reached |-> FALSE, timeout |-> FALSE]

Rounds == [ip : Nodes \union {NoAddress}, rtts : Seq(Answers),
           reached : BOOLEAN, timeout : BOOLEAN]
Hops == [number : 1..MaxHops, ip : Nodes \union {NoAddress}, rtts : Seq(Answers),
         timeout : BOOLEAN]

TraceTypeOK ==
    /\ place \in Places
    /\ ttl \in 0..MaxHops
    /\ probe \in 0..Probes
    /\ waited \in Nat \union {NoProbe}
    /\ round \in Rounds
    /\ hops \in Seq(Hops) /\ Len(hops) <= MaxHops
    /\ completed \in BOOLEAN
    /\ sent \subseteq Probed

TraceInit ==
    /\ place = "off"
    /\ ttl = 0 /\ probe = 0 /\ waited = NoProbe
    /\ round = NoRound
    /\ hops = <<>>
    /\ completed = FALSE
    /\ sent = {}

(***************************************************************************)
(* run_traceroute.                                                         *)
(***************************************************************************)

BeginTrace ==
    /\ place = "off"
    /\ place' = "resolve"
    /\ UNCHANGED <<socketVars, hops, completed, cancelled>>

\* An address of the family the run is restricted to, or none.
Resolve ==
    /\ place = "resolve"
    /\ place' \in {"icmp", "failed"}
    /\ UNCHANGED <<socketVars, hops, completed, cancelled>>

\* No raw socket, an IPv6 destination, or a hop limit that cannot be set: what
\* was collected is dropped, and the tool is not started for a run that is over.
IcmpFails ==
    /\ place = "icmp"
    /\ ttl = Len(hops) /\ ttl < MaxHops /\ ~completed
    /\ place' = IF cancelled THEN "failed" ELSE "tool"
    /\ ttl' = 0
    /\ hops' = <<>>
    /\ UNCHANGED <<roundVars, completed, cancelled>>

(***************************************************************************)
(* run_icmp_traceroute and probe_hop.                                      *)
(***************************************************************************)

\* Mutant of SeqNo: the number of the probe alone.
SeqNoOfProbe(t, p) == p

\* icmp_seq: the hop in the upper byte.
SeqNo(t, p) == (t * 256 + p) % 65536

\* What the network may answer to a probe that expires after t hops: a router on the
\* way, "time exceeded" or "unreachable", the destination, an echo or "unreachable".
Replies(t, p) ==
    {a \in Answers :
        /\ a.ttl = t /\ a.probe = p
        /\ \E d \in Distances :
             IF a.from = Dest THEN d <= t
             ELSE a.from \in 1..t /\ a.from < d /\ ~a.echo}

NextHop ==
    /\ place = "icmp"
    /\ ttl = Len(hops) /\ ttl < MaxHops
    /\ ~completed /\ ~cancelled
    /\ ttl' = ttl + 1
    /\ UNCHANGED <<place, probe, waited, round, hops, completed, sent, cancelled>>

Probing == place = "icmp" /\ ttl = Len(hops) + 1 /\ waited = NoProbe /\ probe < Probes

Send ==
    /\ Probing /\ ~cancelled
    /\ waited' = SeqNo(ttl, probe)
    /\ sent' = sent \union {<<ttl, probe>>}
    /\ UNCHANGED <<place, ttl, probe, round, hops, completed, cancelled>>

SendFails ==
    /\ Probing /\ ~cancelled
    /\ probe' = probe + 1
    /\ UNCHANGED <<place, ttl, waited, round, hops, completed, sent, cancelled>>

\* icmp_reply_matches: the identifier is the process's own, the sequence
\* number has to be that of this probe.
Matches(answer) == SeqNo(answer.ttl, answer.probe) = waited

Credited(answer) ==
    [round EXCEPT
        !.ip = IF @ = NoAddress THEN answer.from ELSE @,
        !.rtts = Append(@, answer),
        !.reached = @ \/ answer.echo \/ answer.from = Dest]

\* Any probe may be answered again, and an answer that does not match is passed over.
Receive ==
    /\ waited # NoProbe
    /\ \E s \in sent : \E answer \in Replies(s[1], s[2]) :
         IF Matches(answer)
         THEN round' = Credited(answer) /\ waited' = NoProbe /\ probe' = probe + 1
         ELSE UNCHANGED <<round, waited, probe>>
    /\ UNCHANGED <<place, ttl, hops, completed, sent, cancelled>>

\* Mutant of Expire: a deadline ends the round without the next probe's turn.
ExpireForEver ==
    /\ waited # NoProbe
    /\ round' = [round EXCEPT !.timeout = TRUE]
    /\ UNCHANGED <<place, ttl, probe, waited, hops, completed, sent, cancelled>>

\* The deadline of the probe, or an error of the socket.
Expire ==
    /\ waited # NoProbe
    /\ round' = [round EXCEPT !.timeout = TRUE]
    /\ waited' = NoProbe
    /\ probe' = probe + 1
    /\ UNCHANGED <<place, ttl, hops, completed, sent, cancelled>>

HopOf(r) ==
    [number |-> ttl, ip |-> r.ip, rtts |-> r.rtts, timeout |-> r.timeout /\ r.ip = NoAddress]

EndsRound ==
    /\ place = "icmp"
    /\ ttl = Len(hops) + 1
    /\ waited = NoProbe
    /\ probe = Probes \/ cancelled

\* Mutant of EndHop: the destination is only known by the first address.
EndHopByAddress ==
    /\ EndsRound
    /\ hops' = Append(hops, HopOf(round))
    /\ completed' = (round.ip = Dest)
    /\ round' = NoRound
    /\ probe' = 0
    /\ UNCHANGED <<place, ttl, waited, sent, cancelled>>

\* All probes are done, or the flag was seen between two of them.
EndHop ==
    /\ EndsRound
    /\ hops' = Append(hops, HopOf(round))
    /\ completed' = round.reached
    /\ round' = NoRound
    /\ probe' = 0
    /\ UNCHANGED <<place, ttl, waited, sent, cancelled>>

\* The destination was reached, the flag was seen, or there are no hops left.
Finish ==
    /\ place = "icmp"
    /\ ttl = Len(hops)
    /\ completed \/ cancelled \/ ttl = MaxHops
    /\ place' = "done"
    /\ UNCHANGED <<socketVars, hops, completed, cancelled>>

(***************************************************************************)
(* run_system_traceroute.  The tool resolves the name again, so it may     *)
(* trace another address; nothing looks at the flag before it has ended.   *)
(* It numbers its lines from 1 on.  A line is the nodes of the columns     *)
(* that hold an answer; asterisks count for nothing.                       *)
(***************************************************************************)

ToolFails ==
    /\ place = "tool"
    /\ place' = "failed"
    /\ UNCHANGED <<socketVars, hops, completed, cancelled>>

ToolEnds ==
    /\ place = "tool"
    /\ place' = "output"
    /\ UNCHANGED <<socketVars, hops, completed, cancelled>>

\* parse_hop_line: the number is the one printed, the first address wins, asterisks
\* alone are a timeout.
ParseHopLine(n, line) ==
    [number |-> n,
     rtts |-> [i \in 1..Len(line) |->
                 [ttl |-> n, probe |-> i - 1, from |-> line[i], echo |-> FALSE]],
     timeout |-> line = <<>>,
     ip |-> IF line = <<>> THEN NoAddress ELSE line[1]]

Arrived(hop) == \E i \in 1..Len(hop.rtts) : hop.rtts[i].from \in {Dest, Alias}

\* The tool stops where the address it traces has answered.
NextLine ==
    /\ place = "output"
    /\ ttl < MaxHops
    /\ \A i \in 1..Len(hops) : ~Arrived(hops[i])
    /\ ttl' = ttl + 1
    /\ UNCHANGED <<place, roundVars, completed, cancelled>>

ParseLine ==
    /\ NextLine
    /\ \E name \in {Dest, Alias}, k \in 0..Probes :
         \E line \in [1..k -> 1..(ttl + 1) \union {name}] :
            hops' = Append(hops, ParseHopLine(ttl + 1, line))

\* A line that is not understood, as tracert's "Request timed out.", is dropped
\* together with its number.
SkipLine == NextLine /\ UNCHANGED hops

\* completed: the last line has the address that was resolved.
FinishOutput ==
    /\ place = "output"
    /\ place' = "done"
    /\ completed' = (hops # <<>> /\ hops[Len(hops)].ip = Dest)
    /\ UNCHANGED <<socketVars, hops, cancelled>>

\* The actions after which an event is sent, and the others.
Telling == (IcmpFails /\ ~cancelled) \/ EndHop \/ ParseLine

Quiet ==
    \/ BeginTrace \/ Resolve \/ (IcmpFails /\ cancelled) \/ NextHop \/ Send \/ SendFails
    \/ Receive \/ Expire \/ Finish \/ ToolFails \/ ToolEnds
    \/ SkipLine \/ FinishOutput

TraceNext == Telling \/ Quiet \/ (Cancel /\ UNCHANGED trace)

TraceSpec == TraceInit /\ cancelled = FALSE /\ [][TraceNext]_traceVars

(***************************************************************************)
(* Properties.                                                             *)
(***************************************************************************)

\* What a hop of the raw socket counts are answers to that hop's own probes, each
\* probe once: neither a late answer to an earlier hop's probe nor a second answer to
\* the same one is credited to it; its address is that of its first answer
\* (icmp_reply_matches, "this run's own late reply from a previous TTL must not be
\* credited to this hop").  The hops of a trace ascend, those of the raw socket
\* without a gap; what was collected before the fallback to the tool never mixes with
\* the tool's hops.  (Of a tool's line the parser only sees a number and columns: that
\* the columns answer the hop's probes is the tool's matter.)
OwnAnswers(hop) ==
    /\ Len(hop.rtts) <= Probes
    /\ \A i \in 1..Len(hop.rtts) : hop.rtts[i].ttl = hop.number
    /\ \A i, j \in 1..Len(hop.rtts) : i < j => hop.rtts[i].probe < hop.rtts[j].probe
    /\ hop.ip = IF hop.rtts = <<>> THEN NoAddress ELSE hop.rtts[1].from

HopsAreOwn ==
    /\ \A i \in 1..Len(hops) : OwnAnswers(hops[i])
    /\ \A i, j \in 1..Len(hops) : i < j => hops[i].number < hops[j].number
    /\ place = "icmp" => \A i \in 1..Len(hops) : hops[i].number = i

AnsweredBy(hop, node) == \E i \in 1..Len(hop.rtts) : hop.rtts[i].from = node

\* A trace on the raw socket is complete exactly if its last hop has an answer of
\* the destination, and it does not probe beyond such a hop; one of the tool is
\* only complete if its last line has such an answer (run_icmp_traceroute,
\* run_system_traceroute).
CompletedIsReached ==
    /\ completed => hops # <<>> /\ AnsweredBy(hops[Len(hops)], Dest)
    /\ place = "icmp" =>
         \A i \in 1..Len(hops) : AnsweredBy(hops[i], Dest) => completed /\ i = Len(hops)
=============================================================================
