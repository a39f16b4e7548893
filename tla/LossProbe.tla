------------------------------ MODULE LossProbe ------------------------------
(***************************************************************************)
(* The UDP loss probe (run_udp_like_loss_probe in turn_udp.rs) over a      *)
(* network that loses, delays, reorders and duplicates.                    *)
(*                                                                         *)
(* One STUN request is sent per slot.  A slot ends with the answer to its  *)
(* own request or at its deadline; answers to earlier requests are         *)
(* credited to those.  A datagram waits in the network or in the socket    *)
(* until it is read, which happens only within a slot.  Transaction ids    *)
(* are random and taken not to repeat: an answer names its request.        *)
(* Datagrams that answer no request change nothing and are left out.       *)
(***************************************************************************)
EXTENDS Integers, FiniteSets

CONSTANTS
    Attempts,           \* cfg.udp_packets
    MaxCopies           \* bound: datagrams that answer one request

ASSUME AttemptsAssumption == Attempts \in Nat
ASSUME CopiesAssumption == MaxCopies \in Nat

VARIABLES
    pc,                 \* "send", "wait", "pause" or "done"
    sent,               \* requests sent, the number of the last one
    received,           \* answers counted
    arrived,            \* ArrivalTracker.arrived
    maxArrived,         \* ArrivalTracker.max_arrived_seq
    outOfOrder,         \* ArrivalTracker.out_of_order
    flying,             \* per request: answers not yet read
    cancelled,          \* the flag of the diagnostic
    answers,            \* history, per request: answers the network delivers in all
    late                \* history: requests answered after a later one was

vars == <<pc, sent, received, arrived, maxArrived, outOfOrder, flying, cancelled,
          answers, late>>

tracker == <<received, arrived, maxArrived, outOfOrder, late>>

Probes == 1..Attempts

TypeOK ==
    /\ pc \in {"send", "wait", "pause", "done"}
    /\ sent \in 0..Attempts
    /\ received \in 0..Attempts
    /\ arrived \subseteq Probes
    /\ maxArrived \in 0..Attempts
    /\ outOfOrder \in 0..Attempts
    /\ flying \in [Probes -> 0..MaxCopies]
    /\ cancelled \in BOOLEAN
    /\ answers \in [Probes -> 0..MaxCopies]
    /\ late \subseteq Probes

Init ==
    /\ pc = "send"
    /\ sent = 0
    /\ received = 0
    /\ arrived = {}
    /\ maxArrived = 0
    /\ outOfOrder = 0
    /\ flying = [s \in Probes |-> 0]
    /\ cancelled = FALSE
    /\ answers = [s \in Probes |-> 0]
    /\ late = {}

\* The for loop and the send.  Its error is ignored: the request is lost.
Send ==
    /\ pc = "send"
    /\ sent < Attempts
    /\ ~cancelled
    /\ sent' = sent + 1
    /\ pc' = "wait"
    /\ \E n \in 0..MaxCopies :
        /\ flying' = [flying EXCEPT ![sent'] = n]
        /\ answers' = [answers EXCEPT ![sent'] = n]
    /\ UNCHANGED <<tracker, cancelled>>

\* Mutants of Record: duplicates are counted; the largest number is not kept; and an
\* answer out of order does not count as received.
RecordDuplicates(s) ==
    /\ arrived' = arrived \union {s}
    /\ received' = received + 1
    /\ outOfOrder' = outOfOrder + (IF s < maxArrived THEN 1 ELSE 0)
    /\ maxArrived' = IF s < maxArrived THEN maxArrived ELSE s
    /\ late' = late \union (IF \E t \in arrived : t > s THEN {s} ELSE {})

RecordLatest(s) ==
    IF s \in arrived THEN UNCHANGED tracker
    ELSE /\ arrived' = arrived \union {s}
         /\ received' = received + 1
         /\ outOfOrder' = outOfOrder + (IF s < maxArrived THEN 1 ELSE 0)
         /\ maxArrived' = s
         /\ late' = late \union (IF \E t \in arrived : t > s THEN {s} ELSE {})

RecordCurrent(s) ==
    IF s \in arrived \/ s # sent THEN UNCHANGED tracker
    ELSE /\ arrived' = arrived \union {s}
         /\ received' = received + 1
         /\ outOfOrder' = outOfOrder + (IF s < maxArrived THEN 1 ELSE 0)
         /\ maxArrived' = IF s < maxArrived THEN maxArrived ELSE s
         /\ late' = late \union (IF \E t \in arrived : t > s THEN {s} ELSE {})

\* ArrivalTracker::record, and the count of what it accepts.
Record(s) ==
    IF s \in arrived THEN UNCHANGED tracker
    ELSE /\ arrived' = arrived \union {s}
         /\ received' = received + 1
         /\ outOfOrder' = outOfOrder + (IF s < maxArrived THEN 1 ELSE 0)
         /\ maxArrived' = IF s < maxArrived THEN maxArrived ELSE s
         /\ late' = late \union (IF \E t \in arrived : t > s THEN {s} ELSE {})

\* Mutant of AfterAnswer: any answer that counts ends the slot.
AfterAnyAnswer(s) == IF s \in arrived THEN "wait" ELSE "pause"

\* The slot goes on unless this is its own answer, read for the first time.
AfterAnswer(s) == IF s \notin arrived /\ s = sent THEN "pause" ELSE "wait"

Receive(s) ==
    /\ pc = "wait"
    /\ flying[s] > 0
    /\ flying' = [flying EXCEPT ![s] = @ - 1]
    /\ Record(s)
    /\ pc' = AfterAnswer(s)
    /\ UNCHANGED <<sent, cancelled, answers>>

\* The deadline of the slot, or an error of the socket.
Expire ==
    /\ pc = "wait"
    /\ pc' = "pause"
    /\ UNCHANGED <<sent, tracker, flying, cancelled, answers>>

\* The interval between two slots.
Pause ==
    /\ pc = "pause"
    /\ pc' = "send"
    /\ UNCHANGED <<sent, tracker, flying, cancelled, answers>>

Cancel ==
    /\ ~cancelled
    /\ cancelled' = TRUE
    /\ UNCHANGED <<pc, sent, tracker, flying, answers>>

Finish ==
    /\ pc = "send"
    /\ sent = Attempts \/ cancelled
    /\ pc' = "done"
    /\ UNCHANGED <<sent, tracker, flying, cancelled, answers>>

Next ==
    \/ Send
    \/ \E s \in Probes : Receive(s)
    \/ Expire
    \/ Pause
    \/ Cancel
    \/ Finish

Spec == Init /\ [][Next]_vars

(***************************************************************************)
(* Properties.                                                             *)
(***************************************************************************)

\* The loss is that of the network: an answer that is read is credited to its own
\* request, once, whichever slot it is read in, and what is counted lost was not
\* answered in time.  The subtraction sent - received, unguarded in
\* latency_summary_from_samples, cannot wrap.
LossIsExact ==
    /\ received = Cardinality(arrived)
    /\ received <= sent
    /\ \A s \in Probes : s \in arrived <=> flying[s] < answers[s]

\* The single maximum of ArrivalTracker tells what it is meant to tell: "an
\* earlier-sequenced probe lands after a later-sequenced one already has."
ReorderIsExact == outOfOrder = Cardinality(late)

\* "A delayed response to an EARLIER probe must not consume this slot": an answer
\* that ends the wait is the one the slot waits for.
SlotIsItsOwn ==
    [][pc = "wait" /\ pc' = "pause" /\ flying' # flying => sent \in arrived' \ arrived]_vars

(***************************************************************************)
(* The invariant behind them.                                              *)
(***************************************************************************)

NetworkInv ==
    \A s \in Probes :
        /\ flying[s] <= answers[s]
        /\ s > sent => answers[s] = 0
        /\ s \in arrived <=> flying[s] < answers[s]

TrackerInv ==
    /\ received = Cardinality(arrived)
    /\ outOfOrder = Cardinality(late)
    /\ late \subseteq arrived
    /\ arrived = {} => maxArrived = 0
    /\ arrived # {} => maxArrived \in arrived
    /\ \A t \in arrived : t <= maxArrived

IInv == TypeOK /\ NetworkInv /\ TrackerInv
=============================================================================
