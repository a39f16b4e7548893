---------------------------- MODULE RunnerProofs ----------------------------
(***************************************************************************)
(* For every selection, any capacities of the channels and any number of   *)
(* packets: types and bounds; a report is made of whole phases only; what  *)
(* is shown while the diagnostic runs is honest.                           *)
(***************************************************************************)
EXTENDS Runner, TLAPS

\* The stages after the last phase, and those after the flag was read.
AfterPhases == {"close", "join", "verdict", "probe", "returned"}
Judged == {"probe", "returned", "dropped"}

HasReport == result \in {"measured", "unavailable"}

\* The flag stays set once a phase has seen it; when the channel is closed the phases
\* are over, and when the flag is read their events are forwarded; what comes after a
\* report touches neither.
ReportInv ==
    /\ stage = "start" => done = {}
    /\ cut => cancelled
    /\ (stage \in {"close", "join", "verdict"}) => (done = selection)
    /\ (stage = "verdict") => (events = <<>> /\ held = Nothing)
    /\ result # "none" => stage \in Judged
    /\ (stage = "probe") => HasReport
    /\ ReportIsComplete

LEMMA ReportInit == Init => ReportInv
  BY DEF Init, ReportInv, HasReport, ReportIsComplete, Judged

LEMMA ReportStep == ReportInv /\ [Next]_vars => ReportInv'
<1> SUFFICES ASSUME ReportInv, [Next]_vars PROVE ReportInv'
  OBVIOUS
<1> USE DEF ReportInv, HasReport, ReportIsComplete, Judged
<1>1. CASE Start
  BY <1>1 DEF Start, Proceed, results, coordinator, tokens
<1>2. CASE StartFails
  BY <1>2 DEF StartFails, channels, tokens
<1>3. CASE Announce
  BY <1>3 DEF Announce, results, tokens
<1>4. CASE Enter \/ Slot
  BY <1>4 DEF Enter, Slot, results, channels, tokens
<1>5. CASE EndAtOnce \/ EndBody
  BY <1>5 DEF EndAtOnce, EndBody, Finished, channels, tokens
<1>6. CASE AnnounceNext \/ EndSlot \/ SendOther \/ LateAnswer
  BY <1>6 DEF AnnounceNext, EndSlot, SendOther, LateAnswer, SendEvent, results, tokens
<1>7. CASE EmitPartial
  BY <1>7 DEF EmitPartial, Proceed, results, tokens
<1>8. CASE Close
  BY <1>8 DEF Close, results, tokens
<1>9. CASE Join
  BY <1>9 DEF Join, results, channels, tokens
<1>10. CASE Verdict
  BY <1>10 DEF Verdict, Outcome, channels, tokens
<1>11. CASE ConnectivityProbe
  BY <1>11 DEF ConnectivityProbe, results, channels, tokens
<1>12. CASE Take
  BY <1>12 DEF Take, results, tokens
<1>13. CASE Forward
  BY <1>13 DEF Forward, results, tokens
<1>14. CASE WatchToken
  BY <1>14 DEF WatchToken, results, channels
<1>15. CASE Read
  BY <1>15 DEF Read, results, tokens
<1>16. CASE Shutdown \/ TakeResult \/ Drop \/ Settle
  BY <1>16 DEF Shutdown, TakeResult, Drop, Settle, results, channels, tokens
<1>17. CASE UNCHANGED vars
  BY <1>17 DEF vars
<1> QED
  BY <1>1, <1>2, <1>3, <1>4, <1>5, <1>6, <1>7, <1>8, <1>9, <1>10, <1>11, <1>12, <1>13,
     <1>14, <1>15, <1>16, <1>17 DEF Next, RunCustom

\* No report is made of a diagnostic of which the flag cut a phase short, at whatever
\* moment it was set, nor before all events were forwarded (the end of run_custom).
THEOREM WholePhases == Spec => []ReportIsComplete
<1>1. ReportInv => ReportIsComplete
  BY DEF ReportInv
<1> QED
  BY <1>1, ReportInit, ReportStep, PTL DEF Spec

(***************************************************************************)
(* Types, and where run_custom is.  The test at hand is selected and not   *)
(* yet completed, and all selected tests before it are.                    *)
(***************************************************************************)
USE CapacityAssumption, BoundsAssumption

InPhase == stage \in {"announce", "enter", "body", "slot", "drain"}

TestInv ==
    /\ stage = "start" => done = {} /\ sent = 0
    /\ InPhase => test \in selection \ done
    /\ stage = "partial" => test \in done
    /\ InPhase \/ stage = "partial" =>
        \A t \in selection : Position(t) < Position(test) => t \in done
    /\ test # "packet_loss" \/ stage \in {"announce", "enter"} => sent = 0
    /\ stage = "slot" => test = "packet_loss" /\ sent > 0
    /\ stage = "drain" => test = "upload"

LEMMA Positions ==
    /\ \A t \in Tests : Position(t) \in 1..4
    /\ \A t, u \in Tests : Position(t) = Position(u) => t = u
    /\ Position("latency") = 1 /\ Position("download") = 2
    /\ Position("upload") = 3 /\ Position("packet_loss") = 4
<1>1. Position("latency") = 1
  BY DEF Position
<1>2. Position("download") = 2
  BY DEF Position
<1>3. Position("upload") = 3
  BY DEF Position
<1>4. Position("packet_loss") = 4
  BY DEF Position
<1> QED
  BY <1>1, <1>2, <1>3, <1>4 DEF Tests

LEMMA PhaseTypes ==
    /\ \A t \in Tests : Phase(PhaseName(t)) \in Phases
    /\ Forwarded \subseteq Phases
    /\ Nothing \notin Forwarded /\ Other \notin Forwarded
    /\ \A p \in Phases : Named(p) \in Messages
    /\ \A tests \in SUBSET Tests : Partial(tests) \in Messages
  BY DEF Phase, PhaseName, Phases, PhaseNames, Forwarded, Nothing, Other, Messages, Tests

LEMMA MessageTypes ==
    ASSUME NEW m \in Messages
    PROVE  \/ m.type = "phase" /\ m.phase \in Phases
           \/ m.type = "partial" /\ m.completed \in SUBSET Tests
  BY DEF Messages, Named, Partial

LEMMA TypeInit == Init => TypeOK /\ TestInv
<1> SUFFICES ASSUME Init PROVE TypeOK /\ TestInv
  OBVIOUS
<1>1. shown \in [phase : Phases, completed : SUBSET Tests]
  BY DEF Init, Phase, Phases, PhaseNames
<1>2. events \in Seq(Forwarded \union {Other}) /\ Len(events) <= EventCapacity
  BY DEF Init
<1>3. progress \in Seq(Messages) /\ Len(progress) <= ProgressCapacity
  BY DEF Init
<1>4. /\ sent \in 0..Packets /\ others \in 0..MaxOther /\ test \in Tests
      /\ selection \in (SUBSET Tests) \ {{}}
  BY DEF Init, Tests
<1> HIDE CapacityAssumption, BoundsAssumption
<1>5. TypeOK
  BY <1>1, <1>2, <1>3, <1>4 DEF Init, TypeOK
<1>6. TestInv
  BY DEF Init, TestInv, InPhase
<1> QED
  BY <1>5, <1>6

\* The test that follows is the first that is left.
LEMMA ProceedInv ==
    ASSUME TypeOK, NEW finished \in SUBSET selection, Proceed(finished)
    PROVE  /\ stage' \in {"close", "announce"} /\ test' \in Tests
           /\ stage' = "close" => selection = finished /\ test' = test
           /\ stage' = "announce" =>
                /\ test' \in selection \ finished
                /\ \A t \in selection : Position(t) < Position(test') => t \in finished
<1>1. selection \subseteq Tests /\ test \in Tests
  BY DEF TypeOK
<1>2. CASE selection = finished
  BY <1>1, <1>2 DEF Proceed
<1>3. CASE selection # finished
  <2>1. /\ stage' = "announce" /\ test' \in selection \ finished
        /\ \A t \in selection \ finished : Position(test') <= Position(t)
    BY <1>3 DEF Proceed
  <2>2. ASSUME NEW t \in selection, Position(t) < Position(test') PROVE t \in finished
    BY <1>1, <2>1, <2>2, Positions
  <2> QED
    BY <1>1, <2>1, <2>2
<1> QED
  BY <1>2, <1>3

\* What is sent fits into the channel.
LEMMA ProgressFits ==
    ASSUME progress \in Seq(Messages), Len(progress) <= ProgressCapacity,
           NEW m \in Messages, SendProgress(m)
    PROVE  progress' \in Seq(Messages) /\ Len(progress') <= ProgressCapacity
  BY DEF SendProgress

LEMMA TypeStep == TypeOK /\ TestInv /\ [Next]_vars => TypeOK' /\ TestInv'
<1> SUFFICES ASSUME TypeOK, TestInv, [Next]_vars PROVE TypeOK' /\ TestInv'
  OBVIOUS
<1> USE DEF TypeOK, TestInv, InPhase, results, counters, channels, coordinator, tokens
<1>1. CASE Start
  <2>1. Proceed({}) /\ {} \in SUBSET selection
    BY <1>1 DEF Start
  <2> QED
    BY <1>1, <2>1, ProceedInv DEF Start
<1>2. CASE StartFails
  BY <1>2 DEF StartFails
<1>3. CASE Announce
  <2>1. SendProgress(Named(Phase(PhaseName(test))))
    BY <1>3 DEF Announce
  <2>2. Named(Phase(PhaseName(test))) \in Messages
    BY PhaseTypes
  <2>3. progress' \in Seq(Messages) /\ Len(progress') <= ProgressCapacity
    BY <2>1, <2>2, ProgressFits
  <2> QED
    BY <1>3, <2>3 DEF Announce
<1>4. CASE Enter \/ Slot
  <2>1. CASE Enter
    BY <2>1 DEF Enter
  <2>2. CASE Slot
    BY <2>2 DEF Slot
  <2> QED
    BY <1>4, <2>1, <2>2
<1>5. CASE EndAtOnce \/ EndBody
  <2>1. /\ \E value \in BOOLEAN : Finished(value)
        /\ InPhase
    BY <1>5 DEF EndAtOnce, EndBody
  <2> QED
    BY <2>1 DEF Finished
<1>6. CASE AnnounceNext \/ EndSlot \/ SendOther \/ LateAnswer
  <2>1. \E e \in Forwarded \union {Other} : SendEvent(e)
    BY <1>6 DEF AnnounceNext, EndSlot, SendOther, LateAnswer, Forwarded
  <2>2. events' \in Seq(Forwarded \union {Other}) /\ Len(events') <= EventCapacity
    BY <2>1 DEF SendEvent
  <2> USE DEF SendEvent
  <2>3. CASE AnnounceNext
    BY <2>2, <2>3 DEF AnnounceNext
  <2>4. CASE EndSlot
    BY <2>2, <2>4 DEF EndSlot
  <2>5. CASE SendOther
    BY <2>2, <2>5 DEF SendOther
  <2>6. CASE LateAnswer
    BY <2>2, <2>6 DEF LateAnswer
  <2> QED
    BY <1>6, <2>3, <2>4, <2>5, <2>6
<1>7. CASE EmitPartial
  <2>1. SendProgress(Partial(done)) /\ Proceed(done) /\ stage = "partial"
    BY <1>7 DEF EmitPartial
  <2>2. done \in SUBSET selection /\ selection \subseteq Tests
    OBVIOUS
  <2>3. progress' \in Seq(Messages) /\ Len(progress') <= ProgressCapacity
    <3>1. Partial(done) \in Messages
      BY <2>2, PhaseTypes
    <3> QED
      BY <2>1, <3>1, ProgressFits
  <2>4. /\ stage' \in {"close", "announce"} /\ test' \in Tests
        /\ stage' = "close" => selection = done /\ test' = test
        /\ stage' = "announce" =>
             /\ test' \in selection \ done
             /\ \A t \in selection : Position(t) < Position(test') => t \in done
    BY <2>1, <2>2, ProceedInv
  <2>5. /\ test \in Tests /\ test \in done
        /\ \A t \in selection : Position(t) < Position(test) => t \in done
        /\ test # "packet_loss" => sent = 0
    BY <2>1
  <2>6. stage' = "announce" => sent = 0
    <3>1. SUFFICES ASSUME stage' = "announce", test = "packet_loss" PROVE FALSE
      BY <2>5
    <3>2. Position(test') \in 1..4 /\ Position(test') # Position(test) /\ Position(test) = 4
      BY <2>2, <2>4, <2>5, <3>1, Positions
    <3> QED
      BY <2>4, <2>5, <3>1, <3>2
  <2>7. test' # "packet_loss" => sent = 0
    BY <2>4, <2>5, <2>6
  <2>8. UNCHANGED <<selection, results, counters, events, open, held, coordinator, tokens>>
    BY <1>7 DEF EmitPartial
  <2> QED
    BY <2>3, <2>4, <2>6, <2>7, <2>8
<1>8. CASE Close \/ Join \/ Verdict \/ ConnectivityProbe
  <2>1. CASE Close
    <3>1. /\ open' = FALSE /\ stage' = "join"
          /\ UNCHANGED <<selection, test, results, counters, events, held, progress,
                         coordinator, tokens>>
      BY <2>1 DEF Close
    <3>2. TestInv'
      BY <3>1
    <3> QED
      BY <3>1, <3>2
  <2>2. CASE Join \/ ConnectivityProbe
    BY <2>2 DEF Join, ConnectivityProbe
  <2>3. CASE Verdict
    BY <2>3 DEF Verdict, Outcome
  <2> QED
    BY <1>8, <2>1, <2>2, <2>3
<1>9. CASE Take
  <2>1. /\ events' \in Seq(Forwarded \union {Other}) /\ Len(events') <= EventCapacity
        /\ Head(events) \in Forwarded \union {Other}
    BY <1>9 DEF Take
  <2> QED
    BY <1>9, <2>1, PhaseTypes DEF Take, Convert
<1>10. CASE Forward
  <2>1. SendProgress(Named(held)) /\ Named(held) \in Messages
    BY <1>10, PhaseTypes DEF Forward
  <2>2. progress' \in Seq(Messages) /\ Len(progress') <= ProgressCapacity
    BY <2>1, ProgressFits
  <2> QED
    BY <1>10, <2>2 DEF Forward
<1>11. CASE Read
  <2>1. /\ progress' \in Seq(Messages) /\ Len(progress') <= ProgressCapacity
        /\ Head(progress) \in Messages
    BY <1>11 DEF Read
  <2>2. shown' \in [phase : Phases, completed : SUBSET Tests]
    BY <1>11, <2>1, MessageTypes DEF Read, Apply
  <2> QED
    BY <1>11, <2>1, <2>2 DEF Read
<1>12. CASE WatchToken \/ Shutdown \/ TakeResult \/ Drop \/ Settle
  <2>1. CASE WatchToken
    BY <2>1 DEF WatchToken
  <2>2. CASE Shutdown
    BY <2>2 DEF Shutdown
  <2>3. CASE TakeResult
    BY <2>3 DEF TakeResult
  <2>4. CASE Drop
    BY <2>4 DEF Drop
  <2>5. CASE Settle
    <3>1. progress' \in Seq(Messages) /\ Len(progress') <= ProgressCapacity
      BY <2>5 DEF Settle
    <3> QED
      BY <2>5, <3>1 DEF Settle
  <2> QED
    BY <1>12, <2>1, <2>2, <2>3, <2>4, <2>5
<1>13. CASE UNCHANGED vars
  BY <1>13 DEF vars
<1> QED
  BY <1>1, <1>2, <1>3, <1>4, <1>5, <1>6, <1>7, <1>8, <1>9, <1>10, <1>11, <1>12, <1>13
  DEF Next, RunCustom

\* Channels within their capacities, results only of selected tests: the types and
\* bounds of a diagnostic, for every selection and any capacities.
THEOREM TypeCorrect == Spec => []TypeOK
  BY TypeInit, TypeStep, PTL DEF Spec

(***************************************************************************)
(* What a queue of messages shows when it is read: with the tests in       *)
(* completed shown as such, every partial result adds to them, up to those *)
(* in finished, and every name comes after the results of the phases       *)
(* before it.  Has(q, n, c, S): after n messages the tests S are shown.    *)
(***************************************************************************)
BeforeIn(chosen, phase) ==
    {t \in chosen :
        Position(t) < IF phase[1] = "packetloss" THEN 3
                      ELSE IF phase[1] = "packet_loss" THEN 4 ELSE Rank(phase)}

Has(q, n, completed, tests) ==
    \/ tests \subseteq completed
    \/ \E j \in 1..n : q[j].type = "partial" /\ tests \subseteq q[j].completed

HonestQueue(q, completed, finished, chosen) ==
    /\ completed \subseteq finished
    /\ \A i \in 1..Len(q) : q[i].type = "partial" =>
        completed \subseteq q[i].completed /\ q[i].completed \subseteq finished
    /\ \A i, j \in 1..Len(q) : i < j /\ q[i].type = "partial" /\ q[j].type = "partial" =>
        q[i].completed \subseteq q[j].completed
    /\ \A i \in 1..Len(q) : q[i].type = "phase" =>
        Has(q, i - 1, completed, BeforeIn(chosen, q[i].phase))

LEMMA Appended ==
    ASSUME NEW q \in Seq(Messages), NEW m \in Messages
    PROVE  /\ Append(q, m) \in Seq(Messages)
           /\ Len(Append(q, m)) = Len(q) + 1 /\ Len(q) \in Nat
           /\ \A i \in 1..Len(q) : Append(q, m)[i] = q[i]
           /\ Append(q, m)[Len(q) + 1] = m
  OBVIOUS

LEMMA Removed ==
    ASSUME NEW q \in Seq(Messages), q # <<>>
    PROVE  /\ Tail(q) \in Seq(Messages)
           /\ Len(Tail(q)) = Len(q) - 1 /\ Len(q) \in Nat \ {0}
           /\ \A i \in 1..(Len(q) - 1) : Tail(q)[i] = q[i + 1]
           /\ Head(q) = q[1] /\ Head(q) \in Messages
  OBVIOUS

LEMMA HasAppended ==
    ASSUME NEW q \in Seq(Messages), NEW m \in Messages, NEW n \in 0..Len(q),
           NEW c, NEW tests, Has(q, n, c, tests)
    PROVE  Has(Append(q, m), n, c, tests) /\ Has(Append(q, m), Len(q) + 1, c, tests)
<1>1. CASE tests \subseteq c
  BY <1>1 DEF Has
<1>2. ASSUME NEW j \in 1..n, q[j].type = "partial", tests \subseteq q[j].completed
      PROVE  Has(Append(q, m), n, c, tests) /\ Has(Append(q, m), Len(q) + 1, c, tests)
  <2>1. j \in 1..Len(q) /\ j \in 1..(Len(q) + 1) /\ Append(q, m)[j] = q[j]
    BY Appended
  <2> QED
    BY <1>2, <2>1 DEF Has
<1> QED
  BY <1>1, <1>2 DEF Has

LEMMA HonestAppend ==
    ASSUME NEW q \in Seq(Messages), NEW m \in Messages, NEW c, NEW d, NEW chosen,
           HonestQueue(q, c, d, chosen),
           m.type = "partial" => m.completed = d,
           m.type = "phase" => Has(q, Len(q), c, BeforeIn(chosen, m.phase))
    PROVE  HonestQueue(Append(q, m), c, d, chosen)
<1> DEFINE r == Append(q, m)
<1>1. /\ Len(r) = Len(q) + 1 /\ Len(q) \in Nat
      /\ \A i \in 1..Len(q) : r[i] = q[i]
      /\ r[Len(q) + 1] = m
  BY Appended
<1>2. \A i \in 1..Len(r) : i \in 1..Len(q) \/ i = Len(q) + 1
  BY <1>1
<1> HIDE DEF r
<1>3. ASSUME NEW i \in 1..Len(r), r[i].type = "partial"
      PROVE  c \subseteq r[i].completed /\ r[i].completed \subseteq d
  BY <1>1, <1>2, <1>3 DEF HonestQueue
<1>4. ASSUME NEW i \in 1..Len(r), NEW j \in 1..Len(r), i < j,
             r[i].type = "partial", r[j].type = "partial"
      PROVE  r[i].completed \subseteq r[j].completed
  <2>1. i \in 1..Len(q)
    BY <1>1, <1>4
  <2>2. CASE j \in 1..Len(q)
    BY <1>1, <1>4, <2>1, <2>2 DEF HonestQueue
  <2>3. CASE j = Len(q) + 1
    BY <1>1, <1>4, <2>1, <2>3 DEF HonestQueue
  <2> QED
    BY <1>2, <2>2, <2>3
<1>5. ASSUME NEW i \in 1..Len(r), r[i].type = "phase"
      PROVE  Has(r, i - 1, c, BeforeIn(chosen, r[i].phase))
  <2>1. CASE i \in 1..Len(q)
    <3>1. r[i] = q[i] /\ i - 1 \in 0..Len(q)
      BY <1>1, <2>1
    <3>2. Has(q, i - 1, c, BeforeIn(chosen, q[i].phase))
      BY <1>5, <2>1, <3>1 DEF HonestQueue
    <3> QED
      BY <3>1, <3>2, HasAppended DEF r
  <2>2. CASE i = Len(q) + 1
    <3>1. r[i] = m /\ i - 1 = Len(q) /\ Len(q) \in 0..Len(q)
      BY <1>1, <2>2
    <3> QED
      BY <1>5, <3>1, HasAppended DEF r
  <2> QED
    BY <1>2, <2>1, <2>2
<1> QED
  BY <1>3, <1>4, <1>5 DEF HonestQueue, r

\* What the first message makes of the tests shown as completed.
After(m, c) == IF m.type = "partial" THEN m.completed ELSE c

LEMMA HasRemoved ==
    ASSUME NEW q \in Seq(Messages), q # <<>>, NEW c, NEW d, NEW chosen, NEW tests,
           HonestQueue(q, c, d, chosen), NEW n \in 1..Len(q), Has(q, n, c, tests)
    PROVE  Has(Tail(q), n - 1, After(Head(q), c), tests)
<1>1. /\ Len(q) \in Nat \ {0} /\ Head(q) = q[1] /\ Head(q) \in Messages
      /\ \A i \in 1..(Len(q) - 1) : Tail(q)[i] = q[i + 1]
  BY Removed
<1>2. c \subseteq After(Head(q), c)
  BY <1>1 DEF After, HonestQueue
<1>3. CASE tests \subseteq c
  BY <1>2, <1>3 DEF Has
<1>4. ASSUME NEW j \in 1..n, q[j].type = "partial", tests \subseteq q[j].completed
      PROVE  Has(Tail(q), n - 1, After(Head(q), c), tests)
  <2>1. CASE j = 1
    BY <1>1, <1>4, <2>1 DEF Has, After
  <2>2. CASE j # 1
    <3>1. j - 1 \in 1..(n - 1) /\ j - 1 \in 1..(Len(q) - 1) /\ (j - 1) + 1 = j
      BY <1>1, <2>2
    <3>2. Tail(q)[j - 1] = q[j]
      BY <1>1, <3>1
    <3> QED
      BY <1>4, <3>1, <3>2 DEF Has
  <2> QED
    BY <2>1, <2>2
<1> QED
  BY <1>3, <1>4 DEF Has

LEMMA HonestRemove ==
    ASSUME NEW q \in Seq(Messages), q # <<>>, NEW c, NEW d, NEW chosen,
           HonestQueue(q, c, d, chosen)
    PROVE  /\ HonestQueue(Tail(q), After(Head(q), c), d, chosen)
           /\ c \subseteq After(Head(q), c)
           /\ Head(q).type = "phase" => BeforeIn(chosen, Head(q).phase) \subseteq c
<1> DEFINE r == Tail(q)
           a == After(Head(q), c)
<1>1. /\ Len(q) \in Nat \ {0} /\ Len(r) = Len(q) - 1
      /\ Head(q) = q[1] /\ Head(q) \in Messages
      /\ \A i \in 1..(Len(q) - 1) : r[i] = q[i + 1]
  BY Removed
<1>2. 1 \in 1..Len(q) /\ \A i \in 1..Len(r) : i + 1 \in 1..Len(q) /\ r[i] = q[i + 1]
  BY <1>1
<1>3. c \subseteq a /\ a \subseteq d
  BY <1>1, <1>2 DEF After, HonestQueue
<1>4. ASSUME NEW i \in 1..Len(r), r[i].type = "partial"
      PROVE  a \subseteq r[i].completed /\ r[i].completed \subseteq d
  <2>1. c \subseteq q[i + 1].completed /\ q[i + 1].completed \subseteq d
    BY <1>2, <1>4 DEF HonestQueue
  <2>2. q[1].type = "partial" => q[1].completed \subseteq q[i + 1].completed
    <3>1. 1 < i + 1
      BY <1>4
    <3> QED
      BY <1>2, <1>4, <3>1 DEF HonestQueue
  <2> QED
    BY <1>1, <1>2, <2>1, <2>2 DEF After
<1>5. ASSUME NEW i \in 1..Len(r), NEW j \in 1..Len(r), i < j,
             r[i].type = "partial", r[j].type = "partial"
      PROVE  r[i].completed \subseteq r[j].completed
  <2>1. i + 1 < j + 1
    BY <1>5
  <2> QED
    BY <1>2, <1>5, <2>1 DEF HonestQueue
<1>6. ASSUME NEW i \in 1..Len(r), r[i].type = "phase"
      PROVE  Has(r, i - 1, a, BeforeIn(chosen, r[i].phase))
  <2>1. Has(q, (i + 1) - 1, c, BeforeIn(chosen, r[i].phase))
    BY <1>2, <1>6 DEF HonestQueue
  <2>2. (i + 1) - 1 = i /\ i \in 1..Len(q)
    BY <1>1, <1>6
  <2> QED
    BY <2>1, <2>2, HasRemoved
<1>7. Head(q).type = "phase" => BeforeIn(chosen, Head(q).phase) \subseteq c
  <2> SUFFICES ASSUME Head(q).type = "phase" PROVE BeforeIn(chosen, Head(q).phase) \subseteq c
    OBVIOUS
  <2>1. Has(q, 1 - 1, c, BeforeIn(chosen, q[1].phase))
    BY <1>1, <1>2 DEF HonestQueue
  <2>2. 1..(1 - 1) = {}
    OBVIOUS
  <2> QED
    BY <1>1, <2>1, <2>2 DEF Has
<1> QED
  BY <1>3, <1>4, <1>5, <1>6, <1>7 DEF HonestQueue

(***************************************************************************)
(* What is shown is honest.  As long as execute reads them, the messages   *)
(* on their way are honest, what waits in the event channel comes after    *)
(* results that are on their way, and so is what run_custom will send.     *)
(***************************************************************************)
Waiting(e) == held = e \/ \E i \in 1..Len(events) : events[i] = e

Emitted(tests) == Has(progress, Len(progress), shown.completed, tests)

Reported == IF stage = "partial" THEN done \ {test} ELSE done

OnItsWay ==
    /\ HonestQueue(progress, shown.completed, done, selection)
    /\ \A e \in Forwarded : Waiting(e) => Emitted(BeforeIn(selection, e))
    /\ Emitted(Reported)

HonestInv ==
    /\ shown.completed \subseteq done
    /\ BeforeIn(selection, shown.phase) \subseteq shown.completed
    /\ stage = "dropped" => execute # "loop"
    /\ execute = "loop" => OnItsWay

LEMMA BeforeNames ==
    ASSUME NEW chosen \in SUBSET Tests
    PROVE  /\ BeforeIn(chosen, Phase("starting")) = {}
           /\ \A t \in Tests :
                BeforeIn(chosen, Phase(PhaseName(t))) = {u \in chosen : Position(u) < Position(t)}
           /\ BeforeIn(chosen, Phase("packetloss")) = {u \in chosen : Position(u) < 3}
           /\ \A n \in Nat : BeforeIn(chosen, <<"packet_loss", n>>)
                               = {u \in chosen : Position(u) < 4}
<1>1. BeforeIn(chosen, Phase("starting")) = {}
  <2>1. Rank(Phase("starting")) = 0
    BY DEF Rank, Phase
  <2> QED
    BY <2>1, Positions DEF BeforeIn, Phase
<1>2. ASSUME NEW t \in Tests
      PROVE  BeforeIn(chosen, Phase(PhaseName(t))) = {u \in chosen : Position(u) < Position(t)}
  <2>1. CASE t = "latency"
    BY <2>1, Positions DEF BeforeIn, Phase, PhaseName, Rank
  <2>2. CASE t = "download"
    BY <2>2, Positions DEF BeforeIn, Phase, PhaseName, Rank
  <2>3. CASE t = "upload"
    BY <2>3, Positions DEF BeforeIn, Phase, PhaseName, Rank
  <2>4. CASE t = "packet_loss"
    BY <2>4, Positions DEF BeforeIn, Phase, PhaseName
  <2> QED
    BY <2>1, <2>2, <2>3, <2>4 DEF Tests
<1>3. BeforeIn(chosen, Phase("packetloss")) = {u \in chosen : Position(u) < 3}
  BY DEF BeforeIn, Phase
<1>4. ASSUME NEW n \in Nat
      PROVE  BeforeIn(chosen, <<"packet_loss", n>>) = {u \in chosen : Position(u) < 4}
  BY DEF BeforeIn
<1> QED
  BY <1>1, <1>2, <1>3, <1>4

LEMMA HasLess ==
    ASSUME NEW q, NEW n, NEW c, NEW tests, NEW fewer, Has(q, n, c, tests), fewer \subseteq tests
    PROVE  Has(q, n, c, fewer)
  BY DEF Has

LEMMA HonestInit == Init => HonestInv
<1> SUFFICES ASSUME Init PROVE HonestInv
  OBVIOUS
<1>1. progress = <<>> /\ events = <<>> /\ done = {} /\ Len(progress) = 0 /\ Len(events) = 0
  BY DEF Init
<1>2. selection \in SUBSET Tests
  BY DEF Init
<1>3. HonestQueue(progress, shown.completed, done, selection)
  BY <1>1 DEF Init, HonestQueue
<1>4. \A e \in Forwarded : ~Waiting(e)
  BY <1>1, PhaseTypes DEF Init, Waiting
<1> QED
  BY <1>1, <1>2, <1>3, <1>4, BeforeNames DEF Init, HonestInv, OnItsWay, Emitted, Has, Reported

\* A step that sends nothing, reads nothing and reports nothing.
LEMMA HonestSame ==
    ASSUME HonestInv, UNCHANGED <<selection, done, events, held, progress, execute, shown>>,
           Reported' \subseteq Reported, stage' # "dropped" \/ stage = "dropped"
    PROVE  HonestInv'
<1>1. ASSUME execute = "loop" PROVE OnItsWay'
  BY <1>1, HasLess DEF HonestInv, OnItsWay, Emitted, Waiting
<1> QED
  BY <1>1 DEF HonestInv

\* A message that is honest where it is sent.
LEMMA HonestSend ==
    ASSUME TypeOK, HonestInv, NEW m \in Messages, SendProgress(m),
           m.type = "partial" => m.completed = done,
           m.type = "phase" /\ execute = "loop" => Emitted(BeforeIn(selection, m.phase)),
           UNCHANGED <<selection, done, events, execute, shown>>,
           held' \in {held, Nothing},
           Reported' \subseteq Reported \/ (m.type = "partial" /\ Reported' \subseteq done),
           stage' # "dropped"
    PROVE  HonestInv'
<1>1. ASSUME execute = "loop" PROVE OnItsWay'
  <2>1. progress \in Seq(Messages) /\ progress' = Append(progress, m)
    BY <1>1 DEF SendProgress, TypeOK
  <2>2. HonestQueue(progress', shown.completed, done, selection)
    BY <1>1, <2>1, HonestAppend DEF HonestInv, OnItsWay, Emitted
  <2>3. /\ Len(progress') = Len(progress) + 1 /\ Len(progress) \in 0..Len(progress)
        /\ progress'[Len(progress) + 1] = m
    BY <2>1, Appended
  <2>4. ASSUME NEW tests, Emitted(tests)
        PROVE  Has(progress', Len(progress'), shown.completed, tests)
    BY <2>1, <2>3, <2>4, HasAppended DEF Emitted
  <2>5. ASSUME NEW e \in Forwarded, Waiting(e)'
        PROVE  Has(progress', Len(progress'), shown.completed, BeforeIn(selection, e))
    <3>1. Waiting(e)
      BY <2>5, PhaseTypes DEF Waiting
    <3> QED
      BY <1>1, <2>4, <3>1 DEF HonestInv, OnItsWay
  <2>6. Has(progress', Len(progress'), shown.completed, Reported')
    <3>1. CASE Reported' \subseteq Reported
      BY <1>1, <2>4, <3>1, HasLess DEF HonestInv, OnItsWay
    <3>2. CASE m.type = "partial" /\ Reported' \subseteq done
      <4>1. Len(progress) + 1 \in 1..Len(progress')
        BY <2>3
      <4> QED
        BY <2>3, <3>2, <4>1 DEF Has
    <3> QED
      BY <3>1, <3>2
  <2> QED
    BY <2>2, <2>5, <2>6 DEF OnItsWay, Emitted
<1> QED
  BY <1>1 DEF HonestInv

\* An event of a phase comes after all that was reported.
LEMMA HonestEvent ==
    ASSUME TypeOK, HonestInv, NEW e \in Forwarded \union {Other}, SendEvent(e),
           e \in Forwarded => BeforeIn(selection, e) \subseteq done,
           stage # "partial", stage' \notin {"partial", "dropped"},
           UNCHANGED <<selection, done, execute, shown>>
    PROVE  HonestInv'
<1>1. /\ events \in Seq(Forwarded \union {Other}) /\ events' = Append(events, e)
      /\ UNCHANGED <<held, progress>>
  BY DEF SendEvent, TypeOK
<1>2. ASSUME NEW f \in Forwarded, Waiting(f)' PROVE Waiting(f) \/ f = e
  BY <1>1, <1>2 DEF Waiting
<1>3. ASSUME execute = "loop" PROVE OnItsWay'
  <2>1. Emitted(done)
    BY <1>3 DEF HonestInv, OnItsWay, Reported
  <2>2. ASSUME NEW f \in Forwarded, Waiting(f)' PROVE Emitted(BeforeIn(selection, f))
    BY <1>2, <1>3, <2>1, <2>2, HasLess DEF HonestInv, OnItsWay, Emitted
  <2> QED
    BY <1>1, <1>3, <2>1, <2>2 DEF HonestInv, OnItsWay, Emitted, Reported
<1> QED
  BY <1>3 DEF HonestInv

LEMMA HonestRead ==
    ASSUME TypeOK, HonestInv, Read
    PROVE  HonestInv'
<1>1. /\ execute = "loop" /\ progress \in Seq(Messages) /\ progress # <<>>
      /\ progress' = Tail(progress) /\ shown' = Apply(Head(progress))
      /\ UNCHANGED <<selection, stage, test, done, events, held, execute>>
  BY DEF Read, TypeOK, results
<1>2. Head(progress) \in Messages /\ Len(progress) \in 1..Len(progress)
      /\ Len(progress') = Len(progress) - 1
  BY <1>1, Removed
<1>3. /\ shown'.completed = After(Head(progress), shown.completed)
      /\ shown'.phase = IF Head(progress).type = "phase" THEN Head(progress).phase
                        ELSE shown.phase
  BY <1>1, <1>2, MessageTypes DEF Apply, After, TypeOK
<1>4. /\ HonestQueue(progress', shown'.completed, done, selection)
      /\ shown.completed \subseteq shown'.completed
      /\ Head(progress).type = "phase" =>
            BeforeIn(selection, Head(progress).phase) \subseteq shown.completed
  BY <1>1, <1>3, HonestRemove DEF HonestInv, OnItsWay
<1>5. ASSUME NEW tests, Emitted(tests)
      PROVE  Has(progress', Len(progress'), shown'.completed, tests)
  BY <1>1, <1>2, <1>3, <1>5, HasRemoved DEF HonestInv, OnItsWay, Emitted
<1>6. OnItsWay'
  BY <1>1, <1>4, <1>5 DEF HonestInv, OnItsWay, Emitted, Waiting, Reported
<1>7. shown'.completed \subseteq done
  BY <1>4 DEF HonestQueue
<1> QED
  BY <1>1, <1>3, <1>4, <1>6, <1>7 DEF HonestInv

LEMMA HonestStep == TypeOK /\ TestInv /\ HonestInv /\ [Next]_vars => HonestInv'
<1> SUFFICES ASSUME TypeOK, TestInv, HonestInv, [Next]_vars PROVE HonestInv'
  OBVIOUS
<1> USE DEF results, counters, channels, coordinator, tokens
<1>1. CASE Start
  <2>1. stage' \in {"close", "announce"}
    BY <1>1 DEF Start, Proceed
  <2> QED
    BY <1>1, <2>1, HonestSame DEF Start, Reported
<1>2. CASE StartFails \/ Enter \/ Slot \/ Close \/ Join \/ Verdict \/ ConnectivityProbe
  BY <1>2, HonestSame
  DEF StartFails, Enter, Slot, Close, Join, Verdict, ConnectivityProbe, Reported
<1>3. CASE Announce
  <2>1. /\ stage = "announce" /\ stage' = "enter"
        /\ SendProgress(Named(Phase(PhaseName(test))))
        /\ UNCHANGED <<selection, done, events, held, execute, shown>>
    BY <1>3 DEF Announce
  <2>2. test \in Tests /\ selection \in SUBSET Tests
    BY DEF TypeOK
  <2>3. PICK m \in Messages : m = Named(Phase(PhaseName(test)))
    BY <2>2, PhaseTypes
  <2>4. m.type = "phase" /\ m.phase = Phase(PhaseName(test))
    BY <2>3 DEF Named
  <2>5. BeforeIn(selection, m.phase) \subseteq done
    <3>1. \A t \in Tests :
            BeforeIn(selection, Phase(PhaseName(t))) = {u \in selection : Position(u) < Position(t)}
      BY <2>2, BeforeNames
    <3>2. BeforeIn(selection, m.phase) = {u \in selection : Position(u) < Position(test)}
      BY <2>2, <2>4, <3>1
    <3> QED
      BY <2>1, <3>2 DEF TestInv, InPhase
  <2>6. ASSUME execute = "loop" PROVE Emitted(BeforeIn(selection, m.phase))
    BY <2>1, <2>5, <2>6, HasLess DEF HonestInv, OnItsWay, Emitted, Reported
  <2>7. m.type # "partial"
    BY <2>4
  <2>8. SendProgress(m)
    BY <2>1, <2>3
  <2>9. held' \in {held, Nothing} /\ stage' # "dropped"
    BY <2>1
  <2>10. Reported' \subseteq Reported
    BY <2>1 DEF Reported
  <2> QED
    <3>1. m.type = "phase" /\ execute = "loop" => Emitted(BeforeIn(selection, m.phase))
      BY <2>6
    <3> QED
      BY <2>1, <2>7, <2>8, <2>9, <2>10, <3>1, HonestSend
<1>4. CASE EndAtOnce \/ EndBody
  <2>1. /\ \E value \in BOOLEAN : Finished(value)
        /\ InPhase
    BY <1>4 DEF EndAtOnce, EndBody, InPhase
  <2>2. /\ stage' = "partial" /\ done' = done \union {test} /\ test' = test
        /\ UNCHANGED <<selection, events, held, progress, execute, shown>>
        /\ test \notin done /\ stage # "partial"
    BY <2>1 DEF Finished, TestInv, InPhase
  <2>3. Reported' = Reported
    BY <2>2 DEF Reported
  <2>4. ASSUME execute = "loop" PROVE OnItsWay'
    <3>1. HonestQueue(progress, shown.completed, done', selection)
      BY <2>2, <2>4 DEF HonestInv, OnItsWay, HonestQueue
    <3> QED
      BY <2>2, <2>3, <2>4, <3>1 DEF HonestInv, OnItsWay, Emitted, Waiting
  <2> QED
    BY <2>2, <2>4 DEF HonestInv
<1>5. CASE SendOther
  <2>1. Other \notin Forwarded
    BY PhaseTypes
  <2> QED
    BY <1>5, <2>1, HonestEvent DEF SendOther
<1>6. CASE AnnounceNext
  <2>1. selection \in SUBSET Tests /\ Phase("packetloss") \in Forwarded
    BY DEF TypeOK, Forwarded
  <2>2. BeforeIn(selection, Phase("packetloss")) \subseteq done
    BY <1>6, <2>1, BeforeNames, Positions DEF AnnounceNext, TestInv, InPhase
  <2> QED
    BY <1>6, <2>1, <2>2, HonestEvent DEF AnnounceNext
<1>7. CASE EndSlot \/ LateAnswer
  <2>1. /\ stage = "slot" /\ sent \in 1..Packets /\ test = "packet_loss"
        /\ selection \in SUBSET Tests
    BY <1>7 DEF EndSlot, LateAnswer, TestInv, TypeOK
  <2>2. <<"packet_loss", sent>> \in Forwarded /\ sent \in Nat
    BY <2>1 DEF Forwarded
  <2>3. BeforeIn(selection, <<"packet_loss", sent>>) = {u \in selection : Position(u) < 4}
    BY <2>1, <2>2, BeforeNames
  <2>4. BeforeIn(selection, <<"packet_loss", sent>>) \subseteq done
    BY <2>1, <2>3, Positions DEF TestInv, InPhase
  <2> QED
    BY <1>7, <2>2, <2>4, HonestEvent DEF EndSlot, LateAnswer
<1>8. CASE EmitPartial
  <2>1. Partial(done) \in Messages
    BY PhaseTypes DEF TypeOK
  <2>2. Partial(done).type = "partial" /\ Partial(done).completed = done
    BY DEF Partial
  <2>3. stage' \in {"close", "announce"} /\ Reported' \subseteq done
    BY <1>8 DEF EmitPartial, Proceed, Reported
  <2> QED
    BY <1>8, <2>1, <2>2, <2>3, HonestSend DEF EmitPartial
<1>9. CASE Take
  <2>1. /\ held' = Convert(Head(events)) /\ events' = Tail(events) /\ events # <<>>
        /\ events \in Seq(Forwarded \union {Other})
        /\ UNCHANGED <<selection, stage, test, done, progress, execute, shown>>
    BY <1>9 DEF Take, TypeOK
  <2>2. ASSUME NEW e \in Forwarded, Waiting(e)' PROVE Waiting(e)
    <3>1. CASE held' = e
      <4>1. events[1] = e /\ 1 \in 1..Len(events)
        BY <2>1, <3>1, PhaseTypes DEF Convert
      <4> QED
        BY <4>1 DEF Waiting
    <3>2. ASSUME NEW i \in 1..Len(events'), events'[i] = e PROVE Waiting(e)
      <4>1. i + 1 \in 1..Len(events) /\ events[i + 1] = e
        BY <2>1, <3>2
      <4> QED
        BY <4>1 DEF Waiting
    <3> QED
      BY <2>2, <3>1, <3>2 DEF Waiting
  <2> QED
    BY <2>1, <2>2 DEF HonestInv, OnItsWay, Emitted, Reported
<1>10. CASE Forward
  <2>1. held \in Forwarded /\ Waiting(held) /\ Named(held) \in Messages
    BY <1>10, PhaseTypes DEF Forward, TypeOK, Waiting
  <2>2. Named(held).type = "phase" /\ Named(held).phase = held
    BY DEF Named
  <2>3. execute = "loop" => Emitted(BeforeIn(selection, held)) /\ stage # "dropped"
    BY <2>1 DEF HonestInv, OnItsWay
  <2>4. CASE execute = "loop"
    BY <1>10, <2>1, <2>2, <2>3, <2>4, HonestSend DEF Forward, Reported
  <2>5. CASE execute # "loop"
    BY <1>10, <2>5 DEF Forward, HonestInv
  <2> QED
    BY <2>4, <2>5
<1>11. CASE Read
  BY <1>11, HonestRead
<1>12. CASE WatchToken \/ Shutdown
  BY <1>12, HonestSame DEF WatchToken, Shutdown, Reported
<1>13. CASE TakeResult \/ Drop \/ Settle
  BY <1>13 DEF TakeResult, Drop, Settle, HonestInv
<1>14. CASE UNCHANGED vars
  BY <1>14, HonestSame DEF vars, Reported
<1> QED
  BY <1>1, <1>2, <1>3, <1>4, <1>5, <1>6, <1>7, <1>8, <1>9, <1>10, <1>11, <1>12, <1>13,
     <1>14 DEF Next, RunCustom

\* A phase is only shown with the results of all phases before it, and no test is shown
\* as completed before it is, although two tasks send to the one channel
\* (forward_progress, emit_partial).
THEOREM HonestProgress == Spec => []ShownIsHonest
<1>1. HonestInv => ShownIsHonest
  BY DEF HonestInv, ShownIsHonest, Before, BeforeIn
<1>2. TypeOK /\ TestInv /\ HonestInv /\ [Next]_vars => (TypeOK /\ TestInv /\ HonestInv)'
  BY TypeStep, HonestStep
<1> QED
  BY <1>1, <1>2, TypeInit, HonestInit, PTL DEF Spec

(***************************************************************************)
(* The phase shown never goes back.  From the phase shown over the         *)
(* progress channel, the event the forwarder holds and the event channel   *)
(* to the phase run_custom is in, ranks only rise.  Two senders do not     *)
(* spoil that, as all that goes through the forwarder ranks from the       *)
(* packet loss phase on, the last that run_custom announces itself.        *)
(***************************************************************************)

LEMMA Ranks ==
    /\ \A p \in Phases : Rank(p) \in Nat
    /\ \A t \in Tests : Rank(Phase(PhaseName(t))) = Position(t)
    /\ Rank(Phase("starting")) = 0
    /\ Rank(Phase("packetloss")) = 4
    /\ \A n \in 1..Packets : Rank(<<"packet_loss", n>>) = 4 + n
    /\ \A e \in Forwarded : Rank(e) >= 4
<1>1. ASSUME NEW p \in Phases PROVE Rank(p) \in Nat
  <2>1. /\ p[1] \in {"starting", "packetloss", "idle_latency", "download", "upload",
                      "packet_loss"}
        /\ p[2] \in Nat
    BY DEF Phases, PhaseNames, PhaseName, Tests
  <2> QED
    BY <2>1 DEF Rank
<1>2. ASSUME NEW t \in Tests PROVE Rank(Phase(PhaseName(t))) = Position(t)
  <2>1. CASE t = "latency"
    BY <2>1, Positions DEF Phase, PhaseName, Rank
  <2>2. CASE t = "download"
    BY <2>2, Positions DEF Phase, PhaseName, Rank
  <2>3. CASE t = "upload"
    BY <2>3, Positions DEF Phase, PhaseName, Rank
  <2>4. CASE t = "packet_loss"
    BY <2>4, Positions DEF Phase, PhaseName, Rank
  <2> QED
    BY <2>1, <2>2, <2>3, <2>4 DEF Tests
<1>3. Rank(Phase("starting")) = 0
  BY DEF Rank, Phase
<1>4. Rank(Phase("packetloss")) = 4
  BY DEF Rank, Phase
<1>5. ASSUME NEW n \in 1..Packets PROVE Rank(<<"packet_loss", n>>) = 4 + n
  BY DEF Rank
<1>6. ASSUME NEW e \in Forwarded PROVE Rank(e) >= 4
  BY <1>4, <1>5 DEF Forwarded
<1> QED
  BY <1>1, <1>2, <1>3, <1>4, <1>5, <1>6

(***************************************************************************)
(* How far run_custom is.                                                  *)
(***************************************************************************)
Reach ==
    IF stage = "start" THEN 0
    ELSE IF test = "packet_loss" THEN 4 + sent
    ELSE IF test = "upload" /\ stage \notin {"announce", "enter", "body"} THEN 4
    ELSE Position(test)

LEMMA ReachType == TypeOK => Reach \in Nat
  BY Positions DEF TypeOK, Reach

LEMMA ReachTypeNext == (TypeOK => Reach \in Nat)'
  BY ReachType, PTL

LEMMA ReachGrows ==
    ASSUME TypeOK, TestInv, Next, stage' # "dropped"
    PROVE  Reach <= Reach'
<1> USE DEF results, counters, channels, coordinator, tokens
<1> Reach \in Nat /\ sent \in Nat /\ test \in Tests /\ Position(test) \in 1..4
    /\ (test # "packet_loss" => Position(test) <= 3)
  BY ReachType, Positions DEF TypeOK, Tests
<1>1. CASE Start
  <2>1. test' \in Tests /\ sent' \in Nat /\ Position(test') \in Nat
    BY <1>1, ProceedInv, Positions DEF Start
  <2> QED
    BY <1>1, <2>1 DEF Start, Reach
<1>2. CASE StartFails
  BY <1>2 DEF StartFails, Reach
<1>3. CASE EmitPartial
  <2>1. /\ stage = "partial" /\ Proceed(done) /\ done \in SUBSET selection /\ sent' = sent
        /\ test \in done /\ selection \in SUBSET Tests
    BY <1>3 DEF EmitPartial, TypeOK, TestInv
  <2>2. CASE stage' = "close"
    BY <2>1, <2>2, ProceedInv, Positions DEF Reach
  <2>3. CASE stage' = "announce"
    <3>1. test' \in Tests \ done /\ Position(test') > Position(test)
      BY <2>1, <2>3, ProceedInv, Positions DEF TestInv
    <3>2. Position(test') = 4 => test' = "packet_loss"
      <4>1. \A t \in Tests : Position(t) = 4 => t = "packet_loss"
        BY Positions DEF Tests
      <4> QED
        BY <3>1, <4>1
    <3>3. Position(test') \in 1..4 /\ test # "packet_loss"
      BY <3>1, Positions
    <3>4. Reach = IF test = "upload" THEN 4 ELSE Position(test)
      BY <2>1, <3>3 DEF Reach
    <3>5. Reach' = IF test' = "packet_loss" THEN 4 + sent' ELSE Position(test')
      BY <2>3 DEF Reach
    <3> QED
      BY <2>1, <3>1, <3>2, <3>3, <3>4, <3>5, Positions
  <2> QED
    BY <2>1, <2>2, <2>3, ProceedInv
<1>4. CASE EndAtOnce \/ EndBody
  <2>1. stage # "start" /\ \E value \in BOOLEAN : Finished(value)
    BY <1>4 DEF EndAtOnce, EndBody
  <2> QED
    BY <2>1, Positions DEF Finished, Reach
<1>5. CASE Slot
  BY <1>5 DEF Slot, Reach
<1>6. CASE Announce \/ Enter \/ AnnounceNext \/ EndSlot
  <2>1. CASE Announce \/ Enter
    BY <2>1 DEF Announce, Enter, Reach
  <2>2. CASE AnnounceNext
    BY <2>2, Positions DEF AnnounceNext, Reach
  <2>3. CASE EndSlot
    <3>1. /\ stage = "slot" /\ stage' = "body" /\ test = "packet_loss"
          /\ test' = test /\ sent' = sent
      BY <2>3 DEF EndSlot, TestInv
    <3> QED
      BY <3>1 DEF Reach
  <2> QED
    BY <1>6, <2>1, <2>2, <2>3
<1>7. CASE Close \/ Join \/ Verdict \/ ConnectivityProbe
  BY <1>7 DEF Close, Join, Verdict, ConnectivityProbe, Reach
<1>8. CASE SendOther \/ LateAnswer \/ Take \/ Forward \/ WatchToken
  BY <1>8 DEF SendOther, LateAnswer, Take, Forward, WatchToken, Reach
<1>9. CASE Read \/ Shutdown \/ TakeResult \/ Settle
  BY <1>9 DEF Read, Shutdown, TakeResult, Settle, Reach
<1>10. CASE Drop
  BY <1>10 DEF Drop
<1> QED
  BY <1>1, <1>2, <1>3, <1>4, <1>5, <1>6, <1>7, <1>8, <1>9, <1>10 DEF Next, RunCustom

(***************************************************************************)
(* What is shown and what is on its way.                                   *)
(***************************************************************************)
Ahead(p) ==
    \/ shown.phase = p
    \/ \E i \in 1..Len(progress) : progress[i].type = "phase" /\ progress[i].phase = p

InOrder ==
    /\ \A p \in Phases : Ahead(p) => Rank(shown.phase) <= Rank(p) /\ Rank(p) <= Reach
    /\ \A i, j \in 1..Len(progress) :
        i < j /\ progress[i].type = "phase" /\ progress[j].type = "phase" =>
            Rank(progress[i].phase) <= Rank(progress[j].phase)
    /\ \A e \in Forwarded : Waiting(e) =>
        Rank(e) <= Reach /\ \A p \in Phases : Ahead(p) => Rank(p) <= Rank(e)
    /\ \A i \in 1..Len(events) :
        held \in Forwarded /\ events[i] \in Forwarded => Rank(held) <= Rank(events[i])
    /\ \A i, j \in 1..Len(events) :
        i < j /\ events[i] \in Forwarded /\ events[j] \in Forwarded =>
            Rank(events[i]) <= Rank(events[j])

OrderInv == execute = "loop" => InOrder /\ stage # "dropped"

LEMMA OrderInit == Init => OrderInv
<1> SUFFICES ASSUME Init PROVE InOrder /\ stage # "dropped"
  BY DEF OrderInv
<1>1. Len(progress) = 0 /\ Len(events) = 0 /\ held \notin Forwarded
  BY PhaseTypes DEF Init
<1>2. shown.phase = Phase("starting") /\ Rank(shown.phase) = 0 /\ Reach = 0
  BY Ranks DEF Init, Reach
<1>3. \A e \in Forwarded : ~Waiting(e)
  BY <1>1, PhaseTypes DEF Init, Waiting
<1> QED
  BY <1>1, <1>2, <1>3 DEF Init, InOrder, Ahead

LEMMA OrderSame ==
    ASSUME TypeOK, OrderInv, UNCHANGED <<events, held, progress, shown, execute>>,
           Reach \in Nat, Reach' \in Nat, Reach <= Reach', stage' # "dropped"
    PROVE  OrderInv'
<1>1. ASSUME NEW p \in Phases PROVE Rank(p) \in Nat
  BY Ranks
<1>2. Forwarded \subseteq Phases
  BY PhaseTypes
<1> QED
  BY <1>1, <1>2 DEF OrderInv, InOrder, Ahead, Waiting

\* A name that comes after all that is ahead, and before all that waits.
LEMMA OrderSend ==
    ASSUME TypeOK, InOrder, NEW p \in Phases, execute = "loop", SendProgress(Named(p)),
           \A q \in Phases : Ahead(q) => Rank(q) <= Rank(p),
           Rank(p) <= Reach', \A e \in Forwarded : Waiting(e)' => Rank(p) <= Rank(e),
           held' \in {held, Nothing}, UNCHANGED <<events, shown, execute>>,
           Reach <= Reach', Reach \in Nat, Reach' \in Nat, stage' # "dropped"
    PROVE  OrderInv'
<1>1. /\ progress \in Seq(Messages) /\ progress' = Append(progress, Named(p))
      /\ Named(p) \in Messages /\ Named(p).type = "phase" /\ Named(p).phase = p
      /\ shown.phase \in Phases
  BY PhaseTypes DEF SendProgress, TypeOK, Named
<1>2. /\ Len(progress') = Len(progress) + 1 /\ Len(progress) \in Nat
      /\ \A i \in 1..Len(progress) : progress'[i] = progress[i]
      /\ progress'[Len(progress) + 1] = Named(p)
  BY <1>1, Appended
<1>3. \A i \in 1..Len(progress') : i \in 1..Len(progress) \/ i = Len(progress) + 1
  BY <1>2
<1>4. ASSUME NEW q \in Phases, Ahead(q)' PROVE Ahead(q) \/ q = p
  BY <1>1, <1>2, <1>3, <1>4 DEF Ahead
<1>5. \A q \in Phases : Rank(q) \in Nat
  BY Ranks
<1>6. Ahead(shown.phase)
  BY DEF Ahead
<1>7. ASSUME NEW q \in Phases, Ahead(q)'
      PROVE  Rank(shown.phase) <= Rank(q) /\ Rank(q) <= Reach'
  BY <1>1, <1>4, <1>5, <1>6, <1>7 DEF InOrder
<1>8. ASSUME NEW i \in 1..Len(progress'), NEW j \in 1..Len(progress'), i < j,
             progress'[i].type = "phase", progress'[j].type = "phase"
      PROVE  Rank(progress'[i].phase) <= Rank(progress'[j].phase)
  <2>1. i \in 1..Len(progress) /\ progress'[i] = progress[i]
    BY <1>2, <1>3, <1>8
  <2>2. CASE j \in 1..Len(progress)
    BY <1>2, <1>8, <2>1, <2>2 DEF InOrder
  <2>3. CASE j = Len(progress) + 1
    <3>1. /\ progress[i] \in Messages /\ progress[i].phase \in Phases
          /\ Ahead(progress[i].phase)
      BY <1>1, <1>8, <2>1, MessageTypes DEF Ahead
    <3> QED
      BY <1>1, <1>2, <2>1, <2>3, <3>1
  <2> QED
    BY <1>3, <2>2, <2>3
<1>9. ASSUME NEW e \in Forwarded, Waiting(e)'
      PROVE  Rank(e) <= Reach' /\ \A q \in Phases : Ahead(q)' => Rank(q) <= Rank(e)
  <2>1. Waiting(e) /\ e \in Phases
    BY <1>9, PhaseTypes DEF Waiting
  <2>2. Rank(e) <= Reach'
    BY <1>5, <2>1 DEF InOrder
  <2> QED
    BY <1>4, <1>9, <2>1, <2>2 DEF InOrder
<1>10. held' \in Forwarded => held' = held
  BY PhaseTypes
<1> QED
  BY <1>1, <1>7, <1>8, <1>9, <1>10 DEF InOrder, OrderInv

\* A partial result has no rank.
LEMMA OrderPartial ==
    ASSUME TypeOK, InOrder, NEW tests \in SUBSET Tests, execute = "loop",
           SendProgress(Partial(tests)), UNCHANGED <<events, held, shown, execute>>,
           Reach <= Reach', Reach \in Nat, Reach' \in Nat, stage' # "dropped"
    PROVE  OrderInv'
<1>1. /\ progress \in Seq(Messages) /\ progress' = Append(progress, Partial(tests))
      /\ Partial(tests) \in Messages /\ Partial(tests).type = "partial"
  BY PhaseTypes DEF SendProgress, TypeOK, Partial
<1>2. /\ Len(progress') = Len(progress) + 1 /\ Len(progress) \in Nat
      /\ \A i \in 1..Len(progress) : progress'[i] = progress[i]
      /\ progress'[Len(progress) + 1] = Partial(tests)
  BY <1>1, Appended
<1>3. \A i \in 1..Len(progress') : progress'[i].type = "phase" =>
          i \in 1..Len(progress) /\ progress'[i] = progress[i]
  <2>1. \A i \in 1..Len(progress') : i \in 1..Len(progress) \/ i = Len(progress) + 1
    BY <1>2
  <2> QED
    BY <1>1, <1>2, <2>1
<1>4. ASSUME NEW q \in Phases, Ahead(q)' PROVE Ahead(q)
  BY <1>3, <1>4 DEF Ahead
<1>5. \A q \in Phases : Rank(q) \in Nat
  BY Ranks
<1>6. ASSUME NEW e \in Forwarded, Waiting(e)' PROVE Waiting(e) /\ e \in Phases
  BY <1>6, PhaseTypes DEF Waiting
<1>7. \A q \in Phases : Ahead(q)' => Rank(shown.phase) <= Rank(q) /\ Rank(q) <= Reach'
  BY <1>4, <1>5 DEF InOrder
<1>8. \A e \in Forwarded : Waiting(e)' =>
          Rank(e) <= Reach' /\ \A q \in Phases : Ahead(q)' => Rank(q) <= Rank(e)
  <2> TAKE e \in Forwarded
  <2> HAVE Waiting(e)'
  <2>1. Waiting(e) /\ e \in Phases
    BY <1>6
  <2>2. Rank(e) <= Reach'
    BY <1>5, <2>1 DEF InOrder
  <2> QED
    BY <1>4, <2>1, <2>2 DEF InOrder
<1> QED
  BY <1>3, <1>7, <1>8 DEF InOrder, OrderInv

\* An event that ranks as far as the diagnostic has come.
LEMMA OrderEvent ==
    ASSUME TypeOK, InOrder, NEW e \in Forwarded \union {Other}, SendEvent(e),
           e \in Forwarded => Rank(e) = Reach', execute = "loop",
           UNCHANGED <<shown, execute>>,
           Reach <= Reach', Reach \in Nat, Reach' \in Nat, stage' # "dropped"
    PROVE  OrderInv'
<1>1. /\ events \in Seq(Forwarded \union {Other}) /\ events' = Append(events, e)
      /\ UNCHANGED <<held, progress>>
  BY DEF SendEvent, TypeOK
<1>2. /\ Len(events') = Len(events) + 1 /\ Len(events) \in Nat
      /\ \A i \in 1..Len(events) : events'[i] = events[i]
      /\ events'[Len(events) + 1] = e
  BY <1>1
<1>3. \A i \in 1..Len(events') : i \in 1..Len(events) \/ i = Len(events) + 1
  BY <1>2
<1>4. (\A q \in Phases : Rank(q) \in Nat) /\ Forwarded \subseteq Phases
  BY Ranks, PhaseTypes
<1>5. \A q \in Phases : Ahead(q)' => Ahead(q)
  BY <1>1 DEF Ahead
<1>6. ASSUME NEW f \in Forwarded, Waiting(f)' PROVE Waiting(f) \/ f = e
  BY <1>1, <1>2, <1>3, <1>6 DEF Waiting
<1>7. \A q \in Phases : Ahead(q) => Rank(shown.phase) <= Rank(q) /\ Rank(q) <= Reach'
  BY <1>4 DEF InOrder
<1>8. ASSUME NEW f \in Forwarded, Waiting(f)'
      PROVE  Rank(f) <= Reach' /\ \A q \in Phases : Ahead(q) => Rank(q) <= Rank(f)
  <2>1. CASE Waiting(f)
    BY <1>4, <2>1 DEF InOrder
  <2>2. CASE f = e
    BY <1>4, <1>7, <2>2
  <2> QED
    BY <1>6, <1>8, <2>1, <2>2
<1>9. ASSUME NEW i \in 1..Len(events'), held \in Forwarded, events'[i] \in Forwarded
      PROVE  Rank(held) <= Rank(events'[i])
  <2>1. Waiting(held) /\ Rank(held) <= Reach /\ Rank(held) \in Nat
    BY <1>4, <1>9 DEF Waiting, InOrder
  <2>2. CASE i \in 1..Len(events)
    BY <1>2, <1>9, <2>2 DEF InOrder
  <2>3. CASE i = Len(events) + 1
    BY <1>2, <1>9, <2>1, <2>3
  <2> QED
    BY <1>3, <2>2, <2>3
<1>10. ASSUME NEW i \in 1..Len(events'), NEW j \in 1..Len(events'), i < j,
              events'[i] \in Forwarded, events'[j] \in Forwarded
       PROVE  Rank(events'[i]) <= Rank(events'[j])
  <2>1. i \in 1..Len(events) /\ events'[i] = events[i]
    BY <1>2, <1>3, <1>10
  <2>2. CASE j \in 1..Len(events)
    BY <1>2, <1>10, <2>1, <2>2 DEF InOrder
  <2>3. CASE j = Len(events) + 1
    <3>1. Waiting(events[i]) /\ Rank(events[i]) <= Reach /\ Rank(events[i]) \in Nat
      BY <1>4, <1>10, <2>1 DEF Waiting, InOrder
    <3> QED
      BY <1>2, <1>10, <2>1, <2>3, <3>1
  <2> QED
    BY <1>3, <2>2, <2>3
<1>11. \A i, j \in 1..Len(progress) :
        i < j /\ progress[i].type = "phase" /\ progress[j].type = "phase" =>
            Rank(progress[i].phase) <= Rank(progress[j].phase)
  BY DEF InOrder
<1> QED
  BY <1>1, <1>5, <1>7, <1>8, <1>9, <1>10, <1>11 DEF InOrder, OrderInv

LEMMA OrderTake ==
    ASSUME TypeOK, InOrder, stage # "dropped", Take
    PROVE  OrderInv'
<1>1. /\ held' = Convert(Head(events)) /\ events' = Tail(events) /\ events # <<>>
      /\ events \in Seq(Forwarded \union {Other})
      /\ UNCHANGED <<stage, test, sent, progress, execute, shown>>
  BY DEF Take, TypeOK, counters, coordinator
<1>2. /\ Head(events) = events[1] /\ 1 \in 1..Len(events)
      /\ \A i \in 1..Len(events') : i + 1 \in 1..Len(events) /\ events'[i] = events[i + 1]
  BY <1>1
<1>3. held' \in Forwarded => held' = events[1]
  BY <1>1, <1>2, PhaseTypes DEF Convert
<1>4. ASSUME NEW e \in Forwarded, Waiting(e)' PROVE Waiting(e)
  BY <1>2, <1>3, <1>4 DEF Waiting
<1>5. ASSUME NEW i \in 1..Len(events'), held' \in Forwarded, events'[i] \in Forwarded
      PROVE  Rank(held') <= Rank(events'[i])
  <2>1. 1 < i + 1
    BY <1>5
  <2> QED
    BY <1>2, <1>3, <1>5, <2>1 DEF InOrder
<1>6. ASSUME NEW i \in 1..Len(events'), NEW j \in 1..Len(events'), i < j,
             events'[i] \in Forwarded, events'[j] \in Forwarded
      PROVE  Rank(events'[i]) <= Rank(events'[j])
  <2>1. i + 1 < j + 1
    BY <1>6
  <2> QED
    BY <1>2, <1>6, <2>1 DEF InOrder
<1>7. Reach' = Reach /\ \A q \in Phases : Ahead(q)' => Ahead(q)
  BY <1>1 DEF Reach, Ahead
<1>8. InOrder'
  BY <1>1, <1>4, <1>5, <1>6, <1>7 DEF InOrder
<1> QED
  BY <1>1, <1>8 DEF OrderInv

\* What is read next ranks no lower than what is shown, nor higher than what follows.
LEMMA OrderRead ==
    ASSUME TypeOK, InOrder, stage # "dropped", Read
    PROVE  Rank(shown.phase) <= Rank(shown'.phase) /\ OrderInv'
<1>1. /\ progress \in Seq(Messages) /\ progress # <<>> /\ progress' = Tail(progress)
      /\ shown' = Apply(Head(progress))
      /\ shown \in [phase : Phases, completed : SUBSET Tests]
      /\ UNCHANGED <<stage, test, sent, events, held, execute>>
  BY DEF Read, TypeOK, counters
<1>2. /\ Head(progress) = progress[1] /\ Head(progress) \in Messages
      /\ 1 \in 1..Len(progress)
      /\ \A i \in 1..Len(progress') :
            i + 1 \in 1..Len(progress) /\ progress'[i] = progress[i + 1]
  BY <1>1, Removed
<1>3. /\ \A q \in Phases : Rank(q) \in Nat
      /\ Forwarded \subseteq Phases /\ shown.phase \in Phases
  BY <1>1, Ranks, PhaseTypes
<1>4. /\ shown'.phase = IF progress[1].type = "phase" THEN progress[1].phase
                        ELSE shown.phase
      /\ shown'.phase \in Phases /\ Ahead(shown'.phase)
  BY <1>1, <1>2, MessageTypes DEF Apply, Ahead
<1>5. /\ Reach' = Reach
      /\ \A i, j \in 1..Len(progress) :
            i < j /\ progress[i].type = "phase" /\ progress[j].type = "phase" =>
                Rank(progress[i].phase) <= Rank(progress[j].phase)
  BY <1>1 DEF Reach, InOrder
<1>6. ASSUME NEW q \in Phases, Ahead(q)' PROVE Ahead(q) /\ Rank(shown'.phase) <= Rank(q)
  <2>1. CASE q = shown'.phase
    BY <1>3, <1>4, <2>1
  <2>2. ASSUME NEW i \in 1..Len(progress'),
               progress'[i].type = "phase", progress'[i].phase = q
        PROVE  Ahead(q) /\ Rank(shown'.phase) <= Rank(q)
    <3>1. /\ i + 1 \in 1..Len(progress) /\ progress[i + 1].type = "phase"
          /\ progress[i + 1].phase = q /\ 1 < i + 1
      BY <1>2, <2>2
    <3>2. Ahead(q)
      BY <3>1 DEF Ahead
    <3>3. CASE progress[1].type = "phase"
      BY <1>2, <1>4, <1>5, <3>1, <3>2, <3>3
    <3>4. CASE progress[1].type # "phase"
      BY <1>4, <3>2, <3>4 DEF InOrder
    <3> QED
      BY <3>2, <3>3, <3>4
  <2> QED
    BY <1>6, <2>1, <2>2 DEF Ahead
<1>7. ASSUME NEW i \in 1..Len(progress'), NEW j \in 1..Len(progress'), i < j,
             progress'[i].type = "phase", progress'[j].type = "phase"
      PROVE  Rank(progress'[i].phase) <= Rank(progress'[j].phase)
  <2>1. i + 1 < j + 1
    BY <1>7
  <2>2. i + 1 \in 1..Len(progress) /\ j + 1 \in 1..Len(progress)
    BY <1>2
  <2> QED
    BY <1>2, <1>5, <1>7, <2>1, <2>2
<1>8. \A e \in Forwarded : Waiting(e)' => Waiting(e)
  BY <1>1 DEF Waiting
<1>9. InOrder'
  BY <1>1, <1>5, <1>6, <1>7, <1>8 DEF InOrder
<1>10. Rank(shown.phase) <= Rank(shown'.phase)
  BY <1>4 DEF InOrder
<1> QED
  BY <1>1, <1>9, <1>10 DEF OrderInv

LEMMA OrderStep == TypeOK /\ TestInv /\ OrderInv /\ Next => OrderInv'
<1> SUFFICES ASSUME TypeOK, TestInv, OrderInv, Next PROVE OrderInv'
  OBVIOUS
<1> USE DEF results, counters, channels, coordinator, tokens
<1>1. CASE TakeResult \/ Drop \/ Settle
  BY <1>1 DEF TakeResult, Drop, Settle, OrderInv
<1>2. CASE execute # "loop"
  <2>1. execute' = execute \/ TakeResult \/ Drop \/ Settle
    BY DEF Next, RunCustom, Start, StartFails, Announce, Enter, EndAtOnce, AnnounceNext, Slot,
           EndSlot, EndBody, EmitPartial, Close, Join, Verdict, ConnectivityProbe, SendOther,
           LateAnswer, Take, Forward, WatchToken, Read, Shutdown, Finished
  <2> QED
    BY <1>1, <1>2, <2>1 DEF OrderInv
<1>3. ASSUME execute = "loop", ~(TakeResult \/ Drop \/ Settle) PROVE OrderInv'
  <2>1. InOrder /\ stage # "dropped"
    BY <1>3 DEF OrderInv
  <2>2. stage' # "dropped"
    BY <1>3, <2>1
    DEF Next, RunCustom, Start, StartFails, Announce, Enter, EndAtOnce, AnnounceNext, Slot,
        EndSlot, EndBody, EmitPartial, Close, Join, Verdict, ConnectivityProbe, SendOther,
        LateAnswer, Take, Forward, WatchToken, Read, Shutdown, Finished, Proceed
  <2>3. Reach <= Reach' /\ Reach \in Nat
    BY <2>2, ReachGrows, ReachType
  <2>4. Reach' \in Nat
    BY TypeStep, ReachTypeNext
  <2>5. (\A q \in Phases : Rank(q) \in Nat) /\ Forwarded \subseteq Phases
    BY Ranks, PhaseTypes
  <2>6. CASE Announce
    <3> DEFINE p == Phase(PhaseName(test))
    <3>1. test \in Tests /\ test' = test /\ sent' = sent /\ sent \in Nat
      BY <2>6 DEF Announce, TypeOK
    <3>2. p \in Phases /\ Rank(p) = Position(test) /\ Position(test) \in 1..4
      BY <3>1, Ranks, PhaseTypes, Positions
    <3>3. Reach = Rank(p)
      BY <2>6, <3>1, <3>2, Positions DEF Reach, Announce, TestInv
    <3>4. SendProgress(Named(p))
      BY <2>6 DEF Announce
    <3> HIDE DEF p
    <3>5. \A q \in Phases : Ahead(q) => Rank(q) <= Rank(p)
      BY <2>1, <3>3 DEF InOrder
    <3>6. \A e \in Forwarded : Waiting(e)' => Rank(p) <= Rank(e)
      BY <2>5, <3>2, Ranks
    <3>7. UNCHANGED <<events, held, shown, execute>>
      BY <2>6 DEF Announce
    <3> QED
      BY <1>3, <2>1, <2>2, <2>3, <2>4, <3>2, <3>3, <3>4, <3>5, <3>6, <3>7, OrderSend
  <2>7. CASE EmitPartial
    <3>1. done \in SUBSET Tests
      BY DEF TypeOK
    <3> QED
      BY <1>3, <2>1, <2>2, <2>3, <2>4, <2>7, <3>1, OrderPartial DEF EmitPartial
  <2>8. CASE Forward
    <3>1. held \in Forwarded /\ held \in Phases /\ Waiting(held)
      BY <2>5, <2>8 DEF Forward, TypeOK, Waiting
    <3>2. /\ SendProgress(Named(held)) /\ held' = Nothing
          /\ UNCHANGED <<events, shown, execute>>
      BY <2>8 DEF Forward
    <3>3. \A q \in Phases : Ahead(q) => Rank(q) <= Rank(held)
      BY <2>1, <3>1 DEF InOrder
    <3>4. Rank(held) <= Reach'
      BY <2>1, <2>3, <2>4, <2>5, <3>1 DEF InOrder
    <3>5. \A e \in Forwarded : Waiting(e)' => Rank(held) <= Rank(e)
      BY <2>1, <3>1, <3>2, PhaseTypes DEF Waiting, InOrder
    <3> QED
      BY <1>3, <2>1, <2>2, <2>3, <2>4, <3>1, <3>2, <3>3, <3>4, <3>5, OrderSend
  <2>9. CASE SendOther
    BY <1>3, <2>1, <2>2, <2>3, <2>4, <2>9, OrderEvent, PhaseTypes DEF SendOther
  <2>10. CASE AnnounceNext
    <3>1. Phase("packetloss") \in Forwarded /\ Rank(Phase("packetloss")) = 4
      BY Ranks DEF Forwarded
    <3>2. Reach' = 4
      BY <2>10 DEF AnnounceNext, Reach
    <3> QED
      BY <1>3, <2>1, <2>2, <2>3, <2>4, <2>10, <3>1, <3>2, OrderEvent DEF AnnounceNext
  <2>11. CASE EndSlot \/ LateAnswer
    <3>1. /\ stage = "slot" /\ test = "packet_loss" /\ sent \in 1..Packets
          /\ stage' # "start" /\ test' = test /\ sent' = sent
      BY <2>11 DEF EndSlot, LateAnswer, TestInv, TypeOK
    <3>2. /\ <<"packet_loss", sent>> \in Forwarded
          /\ Rank(<<"packet_loss", sent>>) = 4 + sent
      BY <3>1, Ranks DEF Forwarded
    <3>3. Reach' = 4 + sent
      BY <3>1 DEF Reach
    <3>4. SendEvent(<<"packet_loss", sent>>) /\ UNCHANGED <<shown, execute>>
      BY <2>11 DEF EndSlot, LateAnswer
    <3> QED
      BY <1>3, <2>1, <2>2, <2>3, <2>4, <3>2, <3>3, <3>4, OrderEvent
  <2>12. CASE Take
    BY <2>1, <2>12, OrderTake
  <2>13. CASE Read
    BY <2>1, <2>13, OrderRead
  <2>14. CASE Start \/ StartFails \/ Enter \/ EndAtOnce \/ Slot \/ EndBody \/ Close \/ Join
               \/ Verdict \/ ConnectivityProbe \/ WatchToken \/ Shutdown
    <3>1. UNCHANGED <<events, held, progress, shown, execute>>
      BY <2>14
      DEF Start, StartFails, Enter, EndAtOnce, Slot, EndBody, Finished, Close, Join, Verdict,
          ConnectivityProbe, WatchToken, Shutdown
    <3> QED
      BY <2>2, <2>3, <2>4, <3>1, OrderSame
  <2> QED
    BY <1>3, <2>6, <2>7, <2>8, <2>9, <2>10, <2>11, <2>12, <2>13, <2>14 DEF Next, RunCustom
<1> QED
  BY <1>1, <1>2, <1>3

\* The phase shown never goes back, although its names come from two senders through two
\* channels (run_custom, forward_progress, update_progress).
THEOREM RisingPhase == Spec => PhaseNeverGoesBack
<1>1. OrderInv /\ UNCHANGED vars => OrderInv'
  BY DEF OrderInv, InOrder, Ahead, Waiting, Reach, vars
<1>2. TypeOK /\ TestInv /\ OrderInv /\ [Next]_vars => (TypeOK /\ TestInv /\ OrderInv)'
  BY <1>1, TypeStep, OrderStep
<1>3. TypeOK /\ OrderInv /\ [Next]_vars => [Rank(shown.phase) <= Rank(shown'.phase)]_vars
  <2> SUFFICES ASSUME TypeOK, OrderInv, Next PROVE Rank(shown.phase) <= Rank(shown'.phase)
    OBVIOUS
  <2>1. CASE Read
    BY <2>1, OrderRead DEF OrderInv, Read
  <2>2. CASE ~Read
    <3>1. shown' = shown
      BY <2>2
      DEF Next, RunCustom, Start, StartFails, Announce, Enter, EndAtOnce, AnnounceNext, Slot,
          EndSlot, EndBody, EmitPartial, Close, Join, Verdict, ConnectivityProbe, SendOther,
          LateAnswer, Take, Forward, WatchToken, Shutdown, Finished, TakeResult, Drop, Settle,
          results, counters, channels, coordinator, tokens
    <3>2. Rank(shown.phase) \in Nat
      BY Ranks DEF TypeOK
    <3> QED
      BY <3>1, <3>2
  <2> QED
    BY <2>1, <2>2
<1> QED
  BY <1>2, <1>3, TypeInit, OrderInit, PTL DEF Spec, PhaseNeverGoesBack
=============================================================================
