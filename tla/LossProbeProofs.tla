-------------------------- MODULE LossProbeProofs --------------------------
(***************************************************************************)
(* For any number of probes and of answers to each, the loss and the       *)
(* reordering that the UDP loss probe reports are those of the network.    *)
(***************************************************************************)
EXTENDS LossProbe, FiniteSetTheorems, TLAPS

\* A set of probes is finite and has at most Attempts members.
LEMMA ProbesFinite ==
    ASSUME NEW S \in SUBSET Probes
    PROVE  IsFiniteSet(S) /\ Cardinality(S) \in 0..Attempts
<1>1. IsFiniteSet(Probes) /\ Cardinality(Probes) = Attempts
  <2>1. 1 \in Int /\ Attempts \in Int
    BY AttemptsAssumption
  <2>2. CASE Attempts = 0
    <3>1. Probes = {}
      BY <2>2 DEF Probes
    <3> QED
      BY <3>1, <2>2, FS_EmptySet
  <2>3. CASE Attempts # 0
    <3>1. 1 <= Attempts
      BY <2>3, AttemptsAssumption
    <3> QED
      BY <2>1, <3>1, FS_Interval, AttemptsAssumption DEF Probes
  <2> QED
    BY <2>2, <2>3
<1>2. IsFiniteSet(S) /\ Cardinality(S) <= Cardinality(Probes)
  BY <1>1, FS_Subset
<1>3. Cardinality(S) \in Nat
  BY <1>2, FS_CardinalityType
<1> QED
  BY <1>1, <1>2, <1>3, AttemptsAssumption

\* Adding a probe to a set that lacks it adds one to its cardinality.
LEMMA OneMore ==
    ASSUME NEW S \in SUBSET Probes, NEW s \in Probes, s \notin S
    PROVE  Cardinality(S \union {s}) = Cardinality(S) + 1
  BY ProbesFinite, FS_AddElement

LEMMA InitInv == Init => IInv
<1> SUFFICES ASSUME Init PROVE IInv
  OBVIOUS
<1> USE AttemptsAssumption, CopiesAssumption
<1>1. TypeOK
  <2>1. 0 \in 0..MaxCopies /\ 0 \in 0..Attempts
    OBVIOUS
  <2>2. flying \in [Probes -> 0..MaxCopies] /\ answers \in [Probes -> 0..MaxCopies]
    BY <2>1 DEF Init
  <2> QED
    BY <2>1, <2>2 DEF Init, TypeOK
<1>2. NetworkInv
  BY DEF Init, NetworkInv, Probes
<1>3. TrackerInv
  BY FS_EmptySet DEF Init, TrackerInv
<1> QED
  BY <1>1, <1>2, <1>3 DEF IInv

\* What recording an answer leaves behind: duplicates change nothing, and the
\* maximum decides whether a later request was answered before.
LEMMA RecordKeeps ==
    ASSUME IInv, NEW s \in Probes, Record(s)
    PROVE  /\ received' \in 0..Attempts
           /\ arrived' = arrived \union {s}
           /\ maxArrived' \in 0..Attempts
           /\ outOfOrder' \in 0..Attempts
           /\ late' \subseteq Probes
           /\ TrackerInv'
<1> USE DEF IInv
<1>1. CASE s \in arrived
  <2>1. UNCHANGED tracker
    BY <1>1 DEF Record
  <2> QED
    BY <1>1, <2>1 DEF tracker, TypeOK, TrackerInv
<1>2. CASE s \notin arrived
  <2>1. /\ arrived' = arrived \union {s}
        /\ received' = received + 1
        /\ outOfOrder' = outOfOrder + (IF s < maxArrived THEN 1 ELSE 0)
        /\ maxArrived' = IF s < maxArrived THEN maxArrived ELSE s
        /\ late' = late \union (IF \E t \in arrived : t > s THEN {s} ELSE {})
    BY <1>2 DEF Record
  <2>2. /\ arrived \in SUBSET Probes /\ late \in SUBSET Probes /\ s \in Nat \ {0}
        /\ maxArrived \in Nat /\ arrived \subseteq Nat /\ s <= Attempts
        /\ maxArrived <= Attempts
    BY AttemptsAssumption DEF TypeOK, Probes
  <2>3. (\E t \in arrived : t > s) <=> s < maxArrived
    <3>1. ASSUME NEW t \in arrived, t > s PROVE s < maxArrived
      BY <3>1, <2>2 DEF TrackerInv
    <3>2. ASSUME s < maxArrived PROVE maxArrived \in arrived /\ maxArrived > s
      BY <3>2, <2>2 DEF TrackerInv
    <3> QED
      BY <3>1, <3>2
  <2>4. arrived' \in SUBSET Probes /\ late' \in SUBSET Probes
    BY <2>1, <2>2
  <2>5. received' = Cardinality(arrived')
    BY <2>1, <2>2, <1>2, OneMore DEF TrackerInv
  <2>6. outOfOrder' = Cardinality(late')
    <3>1. s \notin late
      BY <1>2 DEF TrackerInv
    <3>2. CASE s < maxArrived
      <4>1. late' = late \union {s} /\ outOfOrder' = outOfOrder + 1
        BY <3>2, <2>1, <2>3
      <4> QED
        BY <4>1, <3>1, <2>2, OneMore DEF TrackerInv
    <3>3. CASE ~(s < maxArrived)
      <4>1. late' = late /\ outOfOrder' = outOfOrder
        BY <3>3, <2>1, <2>3 DEF TypeOK
      <4> QED
        BY <4>1 DEF TrackerInv
    <3> QED
      BY <3>2, <3>3
  <2>7. received' \in 0..Attempts /\ outOfOrder' \in 0..Attempts
    BY <2>4, <2>5, <2>6, ProbesFinite
  <2>8. maxArrived' \in 0..Attempts
    BY <2>1, <2>2, AttemptsAssumption
  <2>9. late' \subseteq arrived'
    BY <2>1 DEF TrackerInv
  <2>10. maxArrived' \in arrived' /\ \A t \in arrived' : t <= maxArrived'
    BY <2>1, <2>2 DEF TrackerInv
  <2> QED
    BY <2>1, <2>4, <2>5, <2>6, <2>7, <2>8, <2>9, <2>10 DEF TrackerInv
<1> QED
  BY <1>1, <1>2

LEMMA StepInv == IInv /\ [Next]_vars => IInv'
<1> SUFFICES ASSUME IInv, [Next]_vars PROVE IInv'
  OBVIOUS
<1> USE AttemptsAssumption, CopiesAssumption DEF IInv
<1>1. CASE Send
  <2> USE <1>1 DEF Send, tracker
  <2>1. PICK n \in 0..MaxCopies :
          /\ flying' = [flying EXCEPT ![sent'] = n]
          /\ answers' = [answers EXCEPT ![sent'] = n]
    OBVIOUS
  <2>2. sent' = sent + 1 /\ sent' \in Probes /\ sent \in Nat
    BY DEF TypeOK, Probes
  <2>3. TypeOK'
    BY <2>1, <2>2 DEF TypeOK, Probes
  <2>4. NetworkInv'
    <3> SUFFICES ASSUME NEW s \in Probes
                 PROVE  /\ flying'[s] <= answers'[s]
                        /\ s > sent' => answers'[s] = 0
                        /\ s \in arrived <=> flying'[s] < answers'[s]
      BY DEF NetworkInv
    <3>1. answers[sent'] = 0 /\ flying[sent'] \in Nat /\ flying[sent'] <= 0
      BY <2>2 DEF NetworkInv, TypeOK
    <3>2. sent' \notin arrived
      BY <3>1, <2>2 DEF NetworkInv
    <3>3. CASE s = sent'
      BY <3>2, <3>3, <2>1, <2>2 DEF TypeOK
    <3>4. CASE s # sent'
      <4>1. flying'[s] = flying[s] /\ answers'[s] = answers[s]
        BY <3>4, <2>1 DEF TypeOK
      <4>2. s > sent' => s > sent
        BY <2>2 DEF Probes
      <4> QED
        BY <4>1, <4>2 DEF NetworkInv
    <3> QED
      BY <3>3, <3>4
  <2>5. TrackerInv'
    BY DEF TrackerInv
  <2> QED
    BY <2>3, <2>4, <2>5
<1>2. ASSUME NEW s \in Probes, Receive(s) PROVE IInv'
  <2> USE <1>2 DEF Receive
  <2>1. /\ received' \in 0..Attempts
        /\ arrived' = arrived \union {s}
        /\ maxArrived' \in 0..Attempts
        /\ outOfOrder' \in 0..Attempts
        /\ late' \subseteq Probes
        /\ TrackerInv'
    BY RecordKeeps
  <2>2. flying' = [flying EXCEPT ![s] = flying[s] - 1] /\ flying[s] \in Nat \ {0}
    BY DEF TypeOK
  <2>3. TypeOK'
    <3>1. flying' \in [Probes -> 0..MaxCopies]
      BY <2>2 DEF TypeOK
    <3>2. pc' \in {"send", "wait", "pause", "done"}
      BY DEF AfterAnswer
    <3> QED
      BY <2>1, <3>1, <3>2 DEF TypeOK
  <2>4. NetworkInv'
    <3> SUFFICES ASSUME NEW t \in Probes
                 PROVE  /\ flying'[t] <= answers[t]
                        /\ t > sent => answers[t] = 0
                        /\ t \in arrived' <=> flying'[t] < answers[t]
      BY DEF NetworkInv
    <3>1. CASE t = s
      BY <3>1, <2>1, <2>2 DEF NetworkInv, TypeOK
    <3>2. CASE t # s
      <4>1. flying'[t] = flying[t]
        BY <3>2, <2>2 DEF TypeOK
      <4> QED
        BY <4>1, <3>2, <2>1 DEF NetworkInv
    <3> QED
      BY <3>1, <3>2
  <2> QED
    BY <2>1, <2>3, <2>4
<1>3. CASE Expire \/ Pause \/ Cancel \/ Finish
  BY <1>3 DEF Expire, Pause, Cancel, Finish, tracker, TypeOK, NetworkInv, TrackerInv
<1>4. CASE UNCHANGED vars
  BY <1>4 DEF vars, TypeOK, NetworkInv, TrackerInv
<1> QED
  BY <1>1, <1>2, <1>3, <1>4 DEF Next

\* The invariant of the probe.
THEOREM Invariance == Spec => []IInv
  BY InitInv, StepInv, PTL DEF Spec

\* The counters of the probe keep their types and bounds.
THEOREM TypeCorrect == Spec => []TypeOK
<1>1. IInv => TypeOK
  BY DEF IInv
<1> QED
  BY <1>1, Invariance, PTL

\* What is read is within the requests that were sent.
LEMMA ReceivedWithinSent == IInv => received <= sent
<1> SUFFICES ASSUME IInv PROVE received <= sent
  OBVIOUS
<1> USE AttemptsAssumption, CopiesAssumption DEF IInv
<1>1. arrived \subseteq 1..sent
  <2> SUFFICES ASSUME NEW s \in arrived PROVE s \in 1..sent
    OBVIOUS
  <2>1. s \in Probes /\ flying[s] < answers[s] /\ flying[s] \in Nat
    BY DEF NetworkInv, TypeOK
  <2>2. answers[s] # 0
    BY <2>1 DEF TypeOK
  <2> QED
    BY <2>1, <2>2 DEF NetworkInv, TypeOK, Probes
<1>2. CASE sent = 0
  <2>1. arrived = {}
    BY <1>1, <1>2
  <2> QED
    BY <2>1, <1>2, FS_EmptySet DEF TrackerInv
<1>3. CASE sent # 0
  <2>1. sent \in Int /\ 1 \in Int /\ 1 <= sent
    BY <1>3 DEF TypeOK
  <2>2. IsFiniteSet(1..sent) /\ Cardinality(1..sent) = sent
    BY <2>1, FS_Interval
  <2>3. Cardinality(arrived) <= Cardinality(1..sent)
    BY <1>1, <2>2, FS_Subset
  <2> QED
    BY <2>2, <2>3 DEF TrackerInv
<1> QED
  BY <1>2, <1>3

\* The reported loss is exactly that of the network (turn_udp.rs), and its
\* subtraction never wraps (stats.rs).
THEOREM ExactLoss == Spec => []LossIsExact
<1>1. IInv => LossIsExact
  BY ReceivedWithinSent DEF IInv, LossIsExact, NetworkInv, TrackerInv
<1> QED
  BY <1>1, Invariance, PTL

\* The tracker counts exactly the requests answered after a later one.
THEOREM ExactReorder == Spec => []ReorderIsExact
<1>1. IInv => ReorderIsExact
  BY DEF IInv, ReorderIsExact, TrackerInv
<1> QED
  BY <1>1, Invariance, PTL

\* An answer to an earlier request never ends a slot.
THEOREM OwnSlot == Spec => SlotIsItsOwn
<1>1. ASSUME [Next]_vars
      PROVE  [pc = "wait" /\ pc' = "pause" /\ flying' # flying
                => sent \in arrived' \ arrived]_vars
  <2> SUFFICES ASSUME pc = "wait", pc' = "pause", flying' # flying
               PROVE  sent \in arrived' \ arrived
    OBVIOUS
  <2>1. PICK s \in Probes : Receive(s)
    BY <1>1 DEF Next, Send, Expire, Pause, Cancel, Finish, vars
  <2>2. s \notin arrived /\ s = sent
    BY <2>1 DEF Receive, AfterAnswer
  <2> QED
    BY <2>1, <2>2 DEF Receive, Record
<1> QED
  BY <1>1, PTL DEF Spec, SlotIsItsOwn
=============================================================================
