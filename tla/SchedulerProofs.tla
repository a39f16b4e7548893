-------------------------- MODULE SchedulerProofs --------------------------
(* Proofs about Scheduler, for every value of its constants. *)
EXTENDS Scheduler, TLAPS

USE IntervalAssumption, HorizonAssumption, EnvironmentAssumption

\* Retention keeps a row at least as long as either interval (90 days against
\* hours, by default).
LongRetention == Retention >= FullInterval /\ Retention >= QualityInterval

LEMMA IntervalBounds ==
  ASSUME NEW k \in Kinds
  PROVE  /\ Interval(k) \in Nat \ {0}
         /\ Interval(k) <= Horizon
         /\ LongRetention => Interval(k) <= Retention
  BY DEF Interval, Kinds, LongRetention

LEMMA OlderAge ==
  ASSUME NEW age \in Ages
  PROVE  /\ Older(age) \in Ages
         /\ Older(age) >= age
         /\ \A n \in 0..Horizon : Older(age) < n => Older(age) = age + 1
  BY DEF Older, Ages

LEMMA OlderMonotone ==
  ASSUME NEW a \in Ages, NEW b \in Ages, a <= b
  PROVE  Older(a) <= Older(b)
  BY DEF Older, Ages

LEMMA NoRunIsNoKind == NoRun.kind \notin Kinds /\ \A k \in Kinds : k # "none"
  BY DEF NoRun, Kinds

LEMMA TypePreserved == TypeOK /\ [Next]_vars => TypeOK'
<1> SUFFICES ASSUME TypeOK, [Next]_vars PROVE TypeOK'
  OBVIOUS
<1> USE DEF TypeOK, Kinds
<1>1. CASE Tick
  BY <1>1 DEF Tick
<1>2. CASE EnforceRetention
  BY <1>2 DEF EnforceRetention
<1>3. ASSUME ReadFull \/ ReadQuality PROVE TypeOK'
  BY <1>3 DEF ReadFull, ReadQuality, Read, IsDue
<1>4. CASE Start
  BY <1>4 DEF Start, Begin, NothingDue, Ages
<1>5. ASSUME NEW k \in Kinds, ManualStart(k) PROVE TypeOK'
  BY <1>5 DEF ManualStart, Begin, Ages
<1>6. ASSUME NEW s \in {"running", "completed", "failed"}, Finish(s) PROVE TypeOK'
  BY <1>6 DEF Finish, Rows
<1>7. CASE Reboot
  BY <1>7 DEF Reboot, MarkInterrupted, NothingDue, Rows
<1>8. CASE TimePasses
  <2>1. rows' \subseteq Rows
    BY <1>8, OlderAge DEF TimePasses, Rows
  <2>2. current' \in [kind : Kinds, age : Ages] \union {NoRun}
    BY <1>8, OlderAge DEF TimePasses
  <2>3. since' \in [Kinds -> Ages]
    BY <1>8, OlderAge DEF TimePasses
  <2>4. QED
    BY <1>8, <2>1, <2>2, <2>3 DEF TimePasses
<1>9. CASE UNCHANGED vars
  BY <1>9 DEF vars
<1>10. QED
  BY <1>1, <1>2, <1>3, <1>4, <1>5, <1>6, <1>7, <1>8, <1>9 DEF Next, Evaluate

LEMMA InitIInv == Init => IInv
  BY IntervalBounds
  DEF Init, IInv, TypeOK, EvidenceInv, ReadingInv, NothingDue, Ages, Rows

LEMMA InductiveStep ==
  ASSUME LongRetention, IInv, [Next]_vars
  PROVE  IInv'
<1>1. TypeOK'
  BY TypePreserved DEF IInv
<1> USE DEF IInv
<1>2. CASE Tick
  BY <1>1, <1>2 DEF Tick, EvidenceInv, Recent, ReadingInv
<1>3. CASE EnforceRetention
  <2>1. ASSUME NEW k \in Kinds, since[k] < Interval(k) PROVE Recent(k)'
    <3>1. CASE current.kind = k /\ current.age <= since[k]
      BY <1>3, <3>1 DEF EnforceRetention, Recent
    <3>2. ASSUME NEW row \in rows, row.kind = k, row.age <= since[k]
          PROVE  row \in rows'
      <4>1. row.age <= Retention
        BY <2>1, <3>2, IntervalBounds DEF TypeOK, Rows, Ages
      <4>2. QED
        BY <1>3, <3>2, <4>1 DEF EnforceRetention, Kept
    <3>3. QED
      BY <1>3, <2>1, <3>1, <3>2 DEF EnforceRetention, Recent, EvidenceInv
  <2>2. QED
    BY <1>1, <1>3, <2>1 DEF EnforceRetention, EvidenceInv, ReadingInv
<1>4. ASSUME NEW k \in Kinds, NEW next \in {"quality", "start"}, Read(k, next) PROVE IInv'
  <2>1. IsDue(k) => since[k] >= Interval(k)
    BY IntervalBounds DEF IsDue, EvidenceInv, Recent, TypeOK, Rows, Ages, NoRun, Kinds
  <2>2. QED
    BY <1>1, <1>4, <2>1 DEF Read, EvidenceInv, Recent, ReadingInv, TypeOK
<1>5. CASE Start
  <2>1. ReadingInv'
    BY <1>5 DEF Start, ReadingInv, NothingDue
  <2>2. EvidenceInv'
    BY <1>5, NoRunIsNoKind
    DEF Start, Begin, EvidenceInv, Recent, TypeOK, NoRun
  <2>3. QED
    BY <1>1, <2>1, <2>2
<1>6. ASSUME NEW k \in Kinds, ManualStart(k) PROVE IInv'
  BY <1>1, <1>6, NoRunIsNoKind DEF ManualStart, Begin, EvidenceInv, Recent, ReadingInv, TypeOK
<1>7. ASSUME NEW s \in {"running", "completed", "failed"}, Finish(s) PROVE IInv'
  <2>1. ASSUME NEW k \in Kinds, Recent(k) PROVE Recent(k)'
    <3>1. CASE current.kind = k /\ current.age <= since[k]
      <4> DEFINE new == [kind |-> current.kind, status |-> s, age |-> current.age]
      <4>1. new \in rows' /\ new.kind = k /\ new.age <= since'[k]
        BY <1>7, <3>1 DEF Finish
      <4>2. QED
        BY <4>1 DEF Recent
    <3>2. CASE \E row \in rows : row.kind = k /\ row.age <= since[k]
      BY <1>7, <3>2 DEF Finish, Recent
    <3>3. QED
      BY <2>1, <3>1, <3>2 DEF Recent
  <2>2. QED
    BY <1>1, <1>7, <2>1 DEF Finish, EvidenceInv, ReadingInv
<1>8. CASE Reboot
  <2>1. ASSUME NEW k \in Kinds, Recent(k) PROVE Recent(k)'
    <3>1. CASE current.kind = k /\ current.age <= since[k]
      <4> DEFINE new == [kind |-> current.kind, status |-> "failed", age |-> current.age]
      <4>1. current # NoRun
        BY <3>1, NoRunIsNoKind
      <4>2. new \in rows' /\ new.kind = k /\ new.age <= since'[k]
        BY <1>8, <3>1, <4>1 DEF Reboot, MarkInterrupted
      <4>3. QED
        BY <4>2 DEF Recent
    <3>2. ASSUME NEW row \in rows, row.kind = k, row.age <= since[k] PROVE Recent(k)'
      <4> DEFINE new == [row EXCEPT !.status = IF @ = "running" THEN "failed" ELSE @]
      <4>1. new \in rows' /\ new.kind = k /\ new.age = row.age
        BY <1>8, <3>2 DEF Reboot, MarkInterrupted, TypeOK, Rows
      <4>2. QED
        BY <1>8, <3>2, <4>1 DEF Reboot, Recent
    <3>3. QED
      BY <2>1, <3>1, <3>2 DEF Recent
  <2>2. QED
    BY <1>1, <1>8, <2>1 DEF Reboot, EvidenceInv, ReadingInv, NothingDue
<1>9. CASE TimePasses
  <2>1. ASSUME NEW k \in Kinds
        PROVE  since'[k] = Older(since[k]) /\ since'[k] >= since[k] /\ since[k] \in Ages
    BY <1>9, OlderAge DEF TimePasses, TypeOK
  <2>2. ReadingInv'
    BY <1>9, <2>1, IntervalBounds, OlderAge DEF TimePasses, ReadingInv, Ages
  <2>3. ASSUME NEW k \in Kinds, Recent(k) PROVE Recent(k)'
    <3>1. CASE current.kind = k /\ current.age <= since[k]
      <4>1. current # NoRun /\ current.age \in Ages
        BY <3>1, NoRunIsNoKind DEF TypeOK
      <4>2. current'.kind = k /\ current'.age = Older(current.age)
        BY <1>9, <3>1, <4>1 DEF TimePasses, TypeOK
      <4>3. QED
        BY <2>1, <3>1, <4>1, <4>2, OlderMonotone DEF Recent
    <3>2. ASSUME NEW row \in rows, row.kind = k, row.age <= since[k] PROVE Recent(k)'
      <4> DEFINE new == [row EXCEPT !.age = Older(@)]
      <4>1. new \in rows' /\ new.kind = k /\ new.age = Older(row.age) /\ row.age \in Ages
        BY <1>9, <3>2 DEF TimePasses, TypeOK, Rows
      <4>2. QED
        BY <2>1, <3>2, <4>1, OlderMonotone DEF Recent
    <3>3. QED
      BY <2>3, <3>1, <3>2 DEF Recent
  <2>4. ASSUME NEW k \in Kinds, since'[k] < Interval(k) PROVE since[k] < Interval(k)
    BY <2>1, <2>4, IntervalBounds, OlderAge DEF Ages
  <2>5. EvidenceInv'
    BY <2>3, <2>4 DEF EvidenceInv, Interval
  <2>6. QED
    BY <1>1, <2>2, <2>5
<1>10. CASE UNCHANGED vars
  BY <1>1, <1>10 DEF vars, EvidenceInv, Recent, ReadingInv
<1>11. ASSUME ReadFull \/ ReadQuality PROVE IInv'
  BY <1>4, <1>11 DEF ReadFull, ReadQuality, Kinds
<1>12. QED
  BY <1>2, <1>3, <1>5, <1>6, <1>7, <1>8, <1>9, <1>10, <1>11 DEF Next, Evaluate

\* The table, the run in progress and the loop keep their types, for any intervals,
\* retention, faults and speed of the loop.
THEOREM TypeCorrect == Spec => []TypeOK
<1>1. Init => TypeOK
  BY InitIInv DEF IInv
<1> QED
  BY <1>1, TypePreserved, PTL DEF Spec

\* Scheduled diagnostics of one kind are their interval apart for every choice
\* of the intervals, provided retention keeps rows that long: is_due reads only
\* the table, and enforce_retention runs just before it.
THEOREM SpacedSchedule == LongRetention => (Spec => Spaced)
<1> SUFFICES ASSUME LongRetention PROVE Spec => Spaced
  OBVIOUS
<1>1. IInv /\ [Next]_vars => IInv'
  BY InductiveStep
<1>2. IInv /\ [Next]_vars
        => [StartsScheduled => since[current'.kind] >= Interval(current'.kind)]_vars
  <2> SUFFICES ASSUME IInv, [Next]_vars, StartsScheduled
               PROVE  since[current'.kind] >= Interval(current'.kind)
    BY DEF vars
  <2>1. Start
    BY DEF StartsScheduled, Next, Evaluate, Tick, EnforceRetention, ReadFull,
           ReadQuality, Read, ManualStart, Finish, Reboot, TimePasses, vars
  <2>2. DueKind \in Kinds /\ current' = [kind |-> DueKind, age |-> 0]
    BY <2>1 DEF StartsScheduled, Start, Begin
  <2>3. due[DueKind]
    BY <2>2 DEF DueKind, Kinds
  <2>4. QED
    BY <2>2, <2>3 DEF IInv, ReadingInv
<1>3. QED
  BY InitIInv, <1>1, <1>2, PTL DEF Spec, Spaced
=============================================================================
