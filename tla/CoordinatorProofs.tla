-------------------------- MODULE CoordinatorProofs --------------------------
(***************************************************************************)
(* The coordinator, and a page of the dashboard over it, for every value   *)
(* of their constants.                                                     *)
(***************************************************************************)
EXTENDS Dashboard, SumTheorems

USE RunsAssumption, CallersAssumption, FaultsAssumption, BoundsAssumption

LEMMA InitTypeOK == Init => TypeOK
<1> SUFFICES ASSUME Init PROVE TypeOK
  OBVIOUS
<1> USE DEF Init
<1>1. active \in [run : Runs \union {NoRun}, progress : 0..MaxEvents]
  BY DEF NoActive
<1>2. caller \in [Callers -> [pc : Starting \union Resting, run : Runs \union {NoRun}]]
  BY DEF Resting
<1>3. /\ channel \in [Runs -> 0..ChannelCapacity]
      /\ emitted \in [Runs -> 0..MaxEvents]
      /\ \A r \in Runs : channel[r] <= emitted[r]
  OBVIOUS
<1>4. task \in [Runs -> TaskStates] /\ rows \in [Runs -> Statuses]
  BY DEF TaskStates, Statuses
<1>5. boots \in 0..MaxBoots /\ (proc = "down" => boots < MaxBoots)
  OBVIOUS
<1>6. QED
  BY <1>1, <1>2, <1>3, <1>4, <1>5 DEF TypeOK

LEMMA TypePreserved == TypeOK /\ [Next]_vars => TypeOK'
<1> SUFFICES ASSUME TypeOK, [Next]_vars PROVE TypeOK'
  OBVIOUS
<1> USE DEF TypeOK, Starting, Resting, TaskStates, Statuses, procVars, engineVars
<1>1. ASSUME NEW c \in Callers, Acquire(c) PROVE TypeOK'
  BY <1>1 DEF Acquire
<1>2. ASSUME NEW c \in Callers, Conflict(c) PROVE TypeOK'
  BY <1>2 DEF Conflict
<1>3. ASSUME NEW c \in Callers, Refuse(c) PROVE TypeOK'
  BY <1>3 DEF Refuse
<1>4. ASSUME NEW c \in Callers, Activate(c) PROVE TypeOK'
  <2>1. active' \in [run : Runs \union {NoRun}, progress : 0..MaxEvents]
    BY <1>4 DEF Activate
  <2>2. task' \in [Runs -> TaskStates]
    BY <1>4 DEF Activate
  <2>3. caller' \in [Callers -> [pc : Starting \union Resting, run : Runs \union {NoRun}]]
    BY <1>4 DEF Activate
  <2>4. QED
    BY <1>4, <2>1, <2>2, <2>3 DEF Activate
<1>5. ASSUME NEW c \in Callers, Disconnect(c) PROVE TypeOK'
  BY <1>5 DEF Disconnect
<1>6. ASSUME NEW r \in Runs, InsertRow(r) PROVE TypeOK'
  BY <1>6 DEF InsertRow, Wake
<1>7. ASSUME NEW r \in Runs, InsertFails(r) PROVE TypeOK'
  BY <1>7 DEF InsertFails, Wake
<1>8. ASSUME NEW r \in Runs, Emit(r) PROVE TypeOK'
  BY <1>8 DEF Emit
<1>9. ASSUME NEW r \in Runs, Progress(r) PROVE TypeOK'
  BY <1>9 DEF Progress
<1>10. ASSUME NEW r \in Runs, NEW v \in TaskStates, LeaveLoop(r, v) PROVE TypeOK'
  BY <1>10 DEF LeaveLoop
<1>11. ASSUME NEW r \in Runs, Persist(r) PROVE TypeOK'
  BY <1>11 DEF Persist
<1>12. ASSUME NEW r \in Runs, PersistFails(r) PROVE TypeOK'
  BY <1>12 DEF PersistFails
<1>13. ASSUME NEW r \in Runs, ClearActive(r) PROVE TypeOK'
  BY <1>13 DEF ClearActive, NoActive
<1>14. ASSUME NEW r \in Runs, ReleaseBusy(r) PROVE TypeOK'
  BY <1>14 DEF ReleaseBusy
<1>15. CASE StopSignal
  BY <1>15 DEF StopSignal
<1>16. CASE Die
  <2>1. active' \in [run : Runs \union {NoRun}, progress : 0..MaxEvents]
    BY <1>16 DEF Die, NoActive
  <2>2. caller' \in [Callers -> [pc : Starting \union Resting, run : Runs \union {NoRun}]]
    BY <1>16 DEF Die
  <2>3. channel' \in [Runs -> 0..ChannelCapacity] /\ \A r \in Runs : channel'[r] <= emitted'[r]
    BY <1>16 DEF Die
  <2>4. QED
    BY <1>16, <2>1, <2>2, <2>3 DEF Die
<1>17. CASE Restart
  BY <1>17 DEF Restart
<1>18. CASE UNCHANGED vars
  BY <1>18 DEF vars
<1> QED
  BY <1>1, <1>2, <1>3, <1>4, <1>5, <1>6, <1>7, <1>8, <1>9, <1>10, <1>11, <1>12,
     <1>13, <1>14, <1>15, <1>16, <1>17, <1>18
  DEF Next, CallerNext, TaskNext, ShutdownBranch, EngineBranch, DeadlineBranch,
      EnginePanics

\* Most steps let no run in: whoever occupies the slot afterwards did so before.
LEMMA GuardKept ==
  ASSUME GuardInv, \A s \in Runs : Occupies(s)' => Occupies(s), busy' = busy,
         proc' # "down" <=> proc # "down"
  PROVE  GuardInv'
  BY DEF GuardInv

LEMMA InitIInv == Init => IInv
<1> SUFFICES ASSUME Init PROVE IInv
  OBVIOUS
<1>1. TypeOK
  BY InitTypeOK
<1>2. GuardInv
  BY DEF Init, GuardInv, Occupies, Unsettled, Starts, Starting
<1>3. CallerInv
  BY DEF Init, CallerInv, Starting
<1>4. RowInv
  BY DEF Init, RowInv
<1>5. ActiveInv
  BY DEF Init, ActiveInv
<1>6. QED
  BY <1>1, <1>2, <1>3, <1>4, <1>5 DEF IInv

LEMMA CallerSteps ==
  ASSUME IInv, TypeOK', NEW c \in Callers, CallerNext(c)
  PROVE  IInv'
<1> USE DEF IInv, procVars, engineVars
<1>1. CASE Acquire(c)
  <2>1. PICK r \in Runs :
          /\ Fresh(r)
          /\ caller' = [caller EXCEPT ![c] = [pc |-> "inserting", run |-> r]]
          /\ inserting' = inserting \union {r}
    BY <1>1 DEF Acquire
  <2>2. ~busy /\ proc # "down" /\ active = NoActive
    BY <1>1 DEF Acquire, ActiveInv
  <2>3. \A s \in Runs : ~Occupies(s)
    BY <2>2 DEF GuardInv
  <2>4. \A d \in Callers : caller[d].pc \notin Starting
    BY <2>3 DEF Occupies, Starts, CallerInv
  <2>5. \A s \in Runs : Occupies(s)' => s = r
    BY <1>1, <2>1, <2>3, <2>4 DEF Acquire, Occupies, Unsettled, Starts, TypeOK
  <2>6. GuardInv'
    BY <1>1, <2>2, <2>5 DEF Acquire, GuardInv
  <2>7. CallerInv'
    BY <1>1, <2>1, <2>2, <2>3, <2>4
    DEF Acquire, CallerInv, Occupies, Starting, TypeOK, NoActive
  <2>8. RowInv'
    BY <1>1, <2>1, <2>3 DEF Acquire, RowInv, Fresh, Occupies, TypeOK
  <2>9. ActiveInv'
    BY <1>1, <2>2 DEF Acquire, ActiveInv
  <2>10. QED
    BY <2>6, <2>7, <2>8, <2>9
<1>2. CASE Conflict(c)
  <2>1. \A s \in Runs : Occupies(s)' => Occupies(s)
    BY <1>2 DEF Conflict, Occupies, Unsettled, Starts, Starting, Resting, TypeOK
  <2>2. GuardInv'
    BY <1>2, <2>1, GuardKept DEF Conflict
  <2>3. CallerInv'
    BY <1>2 DEF Conflict, CallerInv, Starting, Resting, TypeOK
  <2>4. RowInv' /\ ActiveInv'
    BY <1>2 DEF Conflict, RowInv, ActiveInv
  <2>5. QED
    BY <2>2, <2>3, <2>4
<1>3. CASE Refuse(c)
  <2>1. PICK r \in Runs : caller[c].run = r /\ r \notin inserting /\ rows[r] = "absent"
    BY <1>3 DEF Refuse, CallerInv, Starting
  <2>2. Occupies(r) /\ caller[c].pc \in Starting
    BY <1>3, <2>1 DEF Refuse, Occupies, Starts, Starting
  <2>3. \A s \in Runs : ~Occupies(s)'
    BY <1>3, <2>1, <2>2
    DEF Refuse, Occupies, Unsettled, Starts, Starting, GuardInv, CallerInv, TypeOK
  <2>4. GuardInv'
    BY <2>3 DEF GuardInv
  <2>5. CallerInv'
    BY <1>3 DEF Refuse, CallerInv, Starting, TypeOK
  <2>6. RowInv' /\ ActiveInv'
    BY <1>3, <2>2 DEF Refuse, RowInv, ActiveInv, CallerInv
  <2>7. QED
    BY <2>4, <2>5, <2>6
<1>4. CASE Activate(c)
  <2>1. PICK r \in Runs : caller[c].run = r /\ r \notin inserting
                           /\ rows[r] = "running" /\ r \notin lost
    BY <1>4 DEF Activate, CallerInv, Starting
  <2>2. Occupies(r) /\ caller[c].pc \in Starting
    BY <1>4, <2>1 DEF Activate, Occupies, Starts, Starting
  <2>3. \A s \in Runs : Occupies(s)' => Occupies(s)
    BY <1>4, <2>1, <2>2
    DEF Activate, Occupies, Unsettled, Starts, Starting, TypeOK
  <2>4. GuardInv'
    BY <1>4, <2>3, GuardKept DEF Activate
  <2>5. CallerInv'
    BY <1>4, <2>1, <2>2 DEF Activate, CallerInv, Starting, TypeOK
  <2>6. RowInv'
    BY <1>4, <2>1 DEF Activate, RowInv, TypeOK
  <2>7. ActiveInv'
    BY <1>4, <2>1, <2>2 DEF Activate, ActiveInv, CallerInv, GuardInv, TypeOK, NoActive
  <2>8. QED
    BY <2>4, <2>5, <2>6, <2>7
<1>5. CASE Disconnect(c)
  <2>1. \A s \in Runs : Occupies(s)' => Occupies(s)
    BY <1>5 DEF Disconnect, Occupies, Unsettled, Starts, Starting, TypeOK
  <2>2. GuardInv'
    BY <1>5, <2>1, GuardKept DEF Disconnect
  <2>3. CallerInv'
    BY <1>5 DEF Disconnect, CallerInv, Starting, TypeOK
  <2>4. RowInv' /\ ActiveInv'
    BY <1>5 DEF Disconnect, RowInv, ActiveInv
  <2>5. QED
    BY <2>2, <2>3, <2>4
<1>6. QED
  BY <1>1, <1>2, <1>3, <1>4, <1>5 DEF CallerNext

LEMMA JobSteps ==
  ASSUME IInv, TypeOK', NEW r \in Runs, InsertRow(r) \/ InsertFails(r) \/ Emit(r)
  PROVE  IInv'
<1> USE DEF IInv, procVars, engineVars
<1>1. CASE InsertRow(r)
  <2>1. Occupies(r) /\ rows[r] = "absent" /\ task[r] = "none" /\ r \notin lost
    BY <1>1 DEF InsertRow, Occupies, RowInv
  <2>2. \A s \in Runs : Occupies(s)' => Occupies(s)
    BY <1>1, <2>1
    DEF InsertRow, Wake, Occupies, Unsettled, Starts, Starting, TypeOK
  <2>3. GuardInv'
    BY <1>1, <2>2, GuardKept DEF InsertRow
  <2>4. CallerInv'
    BY <1>1, <2>1 DEF InsertRow, Wake, CallerInv, Starting, TypeOK
  <2>5. RowInv' /\ ActiveInv'
    BY <1>1, <2>1 DEF InsertRow, RowInv, ActiveInv, TypeOK
  <2>6. QED
    BY <2>3, <2>4, <2>5
<1>2. CASE InsertFails(r)
  <2>1. rows[r] = "absent"
    BY <1>2 DEF InsertFails, RowInv
  <2>2. \A s \in Runs : Occupies(s)' => Occupies(s)
    BY <1>2 DEF InsertFails, Wake, Occupies, Unsettled, Starts, Starting, TypeOK
  <2>3. GuardInv'
    BY <1>2, <2>2, GuardKept DEF InsertFails
  <2>4. CallerInv'
    BY <1>2, <2>1 DEF InsertFails, Wake, CallerInv, Starting, TypeOK
  <2>5. RowInv' /\ ActiveInv'
    BY <1>2 DEF InsertFails, RowInv, ActiveInv
  <2>6. QED
    BY <2>3, <2>4, <2>5
<1>3. CASE Emit(r)
  <2>1. GuardInv' /\ CallerInv' /\ RowInv'
    BY <1>3
    DEF Emit, GuardInv, Occupies, Unsettled, Starts, CallerInv, RowInv
  <2>2. ActiveInv'
    BY <1>3 DEF Emit, ActiveInv, TypeOK
  <2>3. QED
    BY <2>1, <2>2
<1>4. QED
  BY <1>1, <1>2, <1>3

LEMMA TaskSteps ==
  ASSUME IInv, TypeOK', NEW r \in Runs, TaskNext(r)
  PROVE  IInv'
<1> USE DEF IInv, procVars, engineVars
<1>1. CASE Progress(r)
  <2>1. GuardInv'
    BY <1>1 DEF Progress, GuardInv, Occupies, Unsettled, Starts
  <2>2. active.run = r /\ rows[r] = "running" /\ Occupies(r)
    BY <1>1 DEF Progress, ActiveInv, RowInv, Occupies
  <2>3. active' = NoActive \/ (active # NoActive /\ active'.run = r
                               /\ active'.progress <= emitted[r])
    BY <1>1, <2>2 DEF Progress, TypeOK
  <2>4. \A c \in Callers : caller[c].pc \notin Starting
    BY <1>1 DEF Progress, CallerInv
  <2>5. CallerInv'
    BY <1>1, <2>4 DEF Progress, CallerInv, Starting
  <2>6. RowInv'
    BY <1>1 DEF Progress, RowInv
  <2>7. ActiveInv'
    BY <1>1, <2>2, <2>3 DEF Progress, ActiveInv, GuardInv, Occupies, NoActive, TypeOK
  <2>8. QED
    BY <2>1, <2>5, <2>6, <2>7
<1>2. ASSUME NEW v \in {"complete", "fail", "none"}, LeaveLoop(r, v) PROVE IInv'
  <2>1. \A s \in Runs : Occupies(s)' => Occupies(s)
    BY <1>2 DEF LeaveLoop, Occupies, Unsettled, Starts, TypeOK
  <2>2. GuardInv'
    BY <1>2, <2>1, GuardKept DEF LeaveLoop
  <2>3. CallerInv' /\ RowInv'
    BY <1>2 DEF LeaveLoop, CallerInv, RowInv, Starting, TypeOK
  <2>4. ActiveInv'
    BY <1>2 DEF LeaveLoop, ActiveInv, TypeOK
  <2>5. QED
    BY <2>2, <2>3, <2>4
<1>3. CASE Persist(r)
  <2>1. Occupies(r) /\ rows[r] = "running"
    BY <1>3 DEF Persist, Occupies, RowInv
  <2>2. \A s \in Runs : Occupies(s)' => Occupies(s)
    BY <1>3, <2>1 DEF Persist, Occupies, Unsettled, Starts, TypeOK
  <2>3. GuardInv'
    BY <1>3, <2>2, GuardKept DEF Persist
  <2>4. CallerInv'
    BY <1>3, <2>1 DEF Persist, CallerInv, Starting, TypeOK
  <2>5. RowInv'
    BY <1>3, <2>1 DEF Persist, RowInv, TypeOK
  <2>6. ActiveInv'
    BY <1>3, <2>1 DEF Persist, ActiveInv, TypeOK
  <2>7. QED
    BY <2>3, <2>4, <2>5, <2>6
<1>4. CASE PersistFails(r)
  <2>1. \A s \in Runs : Occupies(s)' => Occupies(s)
    BY <1>4 DEF PersistFails, Occupies, Unsettled, Starts, TypeOK
  <2>2. GuardInv'
    BY <1>4, <2>1, GuardKept DEF PersistFails
  <2>3. CallerInv'
    BY <1>4 DEF PersistFails, CallerInv, Starting, TypeOK
  <2>4. RowInv'
    BY <1>4 DEF PersistFails, RowInv, TypeOK
  <2>5. ActiveInv'
    BY <1>4 DEF PersistFails, ActiveInv, TypeOK
  <2>6. QED
    BY <2>2, <2>3, <2>4, <2>5
<1>5. CASE ClearActive(r)
  <2>1. Occupies(r)
    BY <1>5 DEF ClearActive, Occupies
  <2>2. \A s \in Runs : Occupies(s)' => Occupies(s)
    BY <1>5 DEF ClearActive, Occupies, Unsettled, Starts, TypeOK
  <2>3. GuardInv'
    BY <1>5, <2>2, GuardKept DEF ClearActive
  <2>4. CallerInv' /\ RowInv'
    BY <1>5 DEF ClearActive, CallerInv, RowInv, Starting, TypeOK
  <2>5. \A s \in Runs : s # r => task[s] = "none"
    BY <2>1 DEF GuardInv, Occupies
  <2>6. ActiveInv'
    BY <1>5, <2>5 DEF ClearActive, ActiveInv, TypeOK
  <2>7. QED
    BY <2>3, <2>4, <2>6
<1>6. CASE ReleaseBusy(r)
  <2>1. Occupies(r) /\ active = NoActive /\ ~Unsettled(r)
    BY <1>6 DEF ReleaseBusy, Occupies, ActiveInv, RowInv, Unsettled
  <2>2. \A c \in Callers : caller[c].pc \notin Starting
    BY <1>6 DEF ReleaseBusy, CallerInv
  <2>3. r \notin inserting
    BY <1>6 DEF ReleaseBusy, RowInv
  <2>4. \A s \in Runs : ~Occupies(s)'
    BY <1>6, <2>1, <2>2, <2>3
    DEF ReleaseBusy, Occupies, Unsettled, Starts, GuardInv, TypeOK
  <2>5. GuardInv'
    BY <2>4 DEF GuardInv
  <2>6. CallerInv' /\ RowInv'
    BY <1>6 DEF ReleaseBusy, CallerInv, RowInv, Starting, TypeOK
  <2>7. ActiveInv'
    BY <1>6, <2>1 DEF ReleaseBusy, ActiveInv, TypeOK
  <2>8. QED
    BY <2>5, <2>6, <2>7
<1>7. QED
  BY <1>1, <1>2, <1>3, <1>4, <1>5, <1>6
  DEF TaskNext, ShutdownBranch, EngineBranch, DeadlineBranch, EnginePanics

LEMMA ProcessSteps ==
  ASSUME IInv, TypeOK', StopSignal \/ Die \/ Restart
  PROVE  IInv'
<1> USE DEF IInv, procVars, engineVars
<1>1. CASE StopSignal
  BY <1>1
  DEF StopSignal, GuardInv, Occupies, Unsettled, Starts, CallerInv, RowInv, ActiveInv
<1>2. CASE Die
  <2>1. \A c \in Callers : caller'[c].pc \notin Starting
    BY <1>2 DEF Die, Starting, TypeOK
  <2>2. GuardInv'
    BY <1>2, <2>1 DEF Die, GuardInv, Occupies, Unsettled, Starts
  <2>3. CallerInv'
    BY <1>2, <2>1 DEF Die, CallerInv, Starting, TypeOK
  <2>4. RowInv' /\ ActiveInv'
    BY <1>2 DEF Die, RowInv, ActiveInv, TypeOK
  <2>5. QED
    BY <2>2, <2>3, <2>4
<1>3. CASE Restart
  <2>1. \A s \in Runs : ~Occupies(s)
    BY <1>3 DEF Restart, GuardInv
  <2>2. \A s \in Runs : task[s] = "none" /\ s \notin inserting
    BY <2>1 DEF Occupies
  <2>3. \A c \in Callers : caller[c].pc \notin Starting
    BY <2>1 DEF Occupies, Starts, CallerInv
  <2>4. \A s \in Runs : rows'[s] # "running"
    BY <1>3 DEF Restart
  <2>5. GuardInv'
    BY <1>3, <2>2, <2>3, <2>4 DEF Restart, GuardInv, Occupies, Unsettled, Starts
  <2>6. CallerInv'
    BY <1>3, <2>3 DEF Restart, CallerInv, Starting
  <2>7. RowInv'
    BY <1>3, <2>2 DEF Restart, RowInv, TypeOK
  <2>8. ActiveInv'
    BY <1>3, <2>2 DEF Restart, ActiveInv, TypeOK
  <2>9. QED
    BY <2>5, <2>6, <2>7, <2>8
<1>4. QED
  BY <1>1, <1>2, <1>3

\* The inductive invariant holds in every state the coordinator can reach.
THEOREM Invariance == Spec => []IInv
<1>1. IInv /\ [Next]_vars => IInv'
  <2> SUFFICES ASSUME IInv, [Next]_vars PROVE IInv'
    OBVIOUS
  <2>1. TypeOK'
    BY TypePreserved DEF IInv
  <2>2. CASE UNCHANGED vars
    BY <2>1, <2>2
    DEF vars, IInv, GuardInv, Occupies, Unsettled, Starts, CallerInv, RowInv, ActiveInv
  <2>3. QED
    BY <2>1, <2>2, CallerSteps, JobSteps, TaskSteps, ProcessSteps DEF Next
<1>2. QED
  BY InitIInv, <1>1, PTL DEF Spec

\* Every variable keeps the values its declaration in the code allows; in
\* particular the progress channel is never over its capacity.
THEOREM TypeCorrect == Spec => []TypeOK
<1>1. IInv => TypeOK
  BY DEF IInv
<1>2. QED
  BY <1>1, Invariance, PTL

\* For any number of callers, runs and restarts and whatever faults happen, two
\* execute tasks are never alive together (the compare_exchange on busy).
THEOREM MutualExclusion == Spec => []OneDiagnostic
<1>1. IInv => OneDiagnostic
  BY DEF IInv, GuardInv, Occupies, OneDiagnostic
<1>2. QED
  BY <1>1, Invariance, PTL

\* A client that sees busy released finds every run of the table decided, save
\* those whose verdict could not be stored (the end of execute).
THEOREM Settled == Spec => []IdleIsSettled
<1>1. IInv => IdleIsSettled
  BY DEF IInv, GuardInv, Occupies, Unsettled, IdleIsSettled
<1>2. QED
  BY <1>1, Invariance, PTL

\* What status() shows as the active test is recorded, guarded, and only shows
\* progress its own engine has sent (update_progress).
THEOREM HonestStatus == Spec => []ActiveIsHonest
<1>1. IInv => ActiveIsHonest
  BY DEF IInv, ActiveInv, ActiveIsHonest
<1>2. QED
  BY <1>1, Invariance, PTL

\* A start that was answered "accepted" is in the table, until retention deletes it
\* (start_selected answers after insert_running).
THEOREM Recorded == Spec => []AcceptedIsRecorded
<1>1. IInv => AcceptedIsRecorded
  BY DEF IInv, CallerInv, AcceptedIsRecorded
<1>2. QED
  BY <1>1, Invariance, PTL

LEMMA VerdictStep ==
    IInv /\ [Next]_vars => [\A r \in Runs : rows[r] \in Terminal => rows'[r] = rows[r]]_vars
<1> SUFFICES ASSUME IInv, Next, NEW r \in Runs, rows[r] \in Terminal
             PROVE  rows'[r] = rows[r]
  BY DEF vars
<1> USE DEF IInv, TypeOK
<1>1. ASSUME NEW c \in Callers, CallerNext(c) PROVE rows' = rows
  BY <1>1 DEF CallerNext, Acquire, Conflict, Refuse, Activate, Disconnect
<1>2. ASSUME NEW s \in Runs, InsertRow(s) PROVE rows'[r] = rows[r]
  BY <1>2 DEF InsertRow, RowInv, Terminal
<1>3. ASSUME NEW s \in Runs, InsertFails(s) \/ Emit(s) PROVE rows' = rows
  BY <1>3 DEF InsertFails, Emit
<1>4. ASSUME NEW s \in Runs, Persist(s) PROVE rows'[r] = rows[r]
  BY <1>4 DEF Persist, RowInv, Terminal
<1>5. ASSUME NEW s \in Runs, TaskNext(s), ~Persist(s) PROVE rows' = rows
  BY <1>5 DEF TaskNext, Progress, ShutdownBranch, EngineBranch, DeadlineBranch,
              EnginePanics, LeaveLoop, PersistFails, ClearActive, ReleaseBusy
<1>6. CASE StopSignal \/ Die
  BY <1>6 DEF StopSignal, Die
<1>7. CASE Restart
  BY <1>7 DEF Restart, Terminal
<1>8. QED
  BY <1>1, <1>2, <1>3, <1>4, <1>5, <1>6, <1>7 DEF Next

\* No step changes a verdict that was stored, although complete and fail write
\* without looking at the status they replace.
THEOREM FinalVerdict == Spec => VerdictIsFinal
  BY VerdictStep, Invariance, PTL DEF Spec, VerdictIsFinal

\* The coordinator, with its callers, its blocking jobs and its restarts,
\* implements the abstract promise of SingleFlight: every step of the code is
\* one step of it or leaves the table and the run in flight alone.
THEOREM Refinement == Spec => RefinesSingleFlight
<1>1. Init => SF!Init
  BY DEF Init, SF!Init, Unsettled
<1>2. IInv /\ [Next]_vars => [SF!Next]_(SF!vars)
  <2> SUFFICES ASSUME IInv, [Next]_vars PROVE [SF!Next]_(SF!vars)
    OBVIOUS
  <2> USE DEF IInv, TypeOK, procVars
  <2>1. ASSUME rows' = rows, lost' = lost, proc' # "down" <=> proc # "down"
        PROVE  UNCHANGED SF!vars
    BY <2>1 DEF SF!vars, Unsettled
  <2>2. CASE UNCHANGED vars
    BY <2>1, <2>2 DEF vars
  <2>3. ASSUME NEW c \in Callers, CallerNext(c) PROVE UNCHANGED SF!vars
    BY <2>1, <2>3 DEF CallerNext, Acquire, Conflict, Refuse, Activate, Disconnect
  <2>4. ASSUME NEW r \in Runs, InsertRow(r) PROVE SF!Begin(r)
    <3>1. Occupies(r) /\ rows[r] = "absent" /\ r \notin lost
      BY <2>4 DEF InsertRow, Occupies, RowInv
    <3>2. \A s \in Runs : ~Unsettled(s)
      BY <3>1 DEF GuardInv, Occupies, Unsettled
    <3>3. \A s \in Runs : Unsettled(s)' <=> s = r
      BY <2>4, <3>1, <3>2 DEF InsertRow, Unsettled, GuardInv
    <3>4. QED
      BY <2>4, <3>1, <3>2, <3>3 DEF InsertRow, SF!Begin, GuardInv
  <2>5. ASSUME NEW r \in Runs, InsertFails(r) \/ Emit(r) PROVE UNCHANGED SF!vars
    BY <2>1, <2>5 DEF InsertFails, Emit
  <2>6. ASSUME NEW r \in Runs, task[r] \in {"complete", "fail"}
        PROVE  proc # "down" /\ rows[r] = "running" /\ \A s \in Runs : Unsettled(s) <=> s = r
    BY <2>6 DEF RowInv, GuardInv, Occupies, Unsettled
  <2>7. ASSUME NEW r \in Runs, Persist(r) PROVE SF!Finish(r)
    <3>1. \A s \in Runs : ~Unsettled(s)'
      BY <2>6, <2>7 DEF Persist, Unsettled
    <3>2. \E v \in SF!Verdicts : rows' = [rows EXCEPT ![r] = v]
      BY <2>6, <2>7 DEF Persist, SF!Verdicts
    <3>3. {s \in Runs : Unsettled(s)} = {r} /\ {s \in Runs : Unsettled(s)}' = {}
      BY <2>6, <2>7, <3>1 DEF Persist
    <3>4. proc # "down" /\ proc' # "down"
      BY <2>6, <2>7 DEF Persist
    <3>5. QED
      BY <3>2, <3>3, <3>4 DEF SF!Finish
  <2>8. ASSUME NEW r \in Runs, PersistFails(r) PROVE SF!Abandon(r)
    <3>1. \A s \in Runs : ~Unsettled(s)'
      BY <2>6, <2>8 DEF PersistFails, Unsettled
    <3>2. QED
      BY <2>6, <2>8, <3>1 DEF PersistFails, SF!Abandon
  <2>9. ASSUME NEW r \in Runs, TaskNext(r), ~Persist(r), ~PersistFails(r)
        PROVE  UNCHANGED SF!vars
    BY <2>1, <2>9
    DEF TaskNext, Progress, ShutdownBranch, EngineBranch, DeadlineBranch,
        EnginePanics, LeaveLoop, ClearActive, ReleaseBusy
  <2>10. CASE StopSignal
    BY <2>1, <2>10 DEF StopSignal
  <2>11. CASE Die
    <3>1. {s \in Runs : Unsettled(s)}' = {}
      BY <2>11 DEF Die, Unsettled
    <3>2. proc # "down" /\ proc' = "down" /\ rows' = rows
      BY <2>11 DEF Die
    <3>3. QED
      BY <3>1, <3>2 DEF SF!Next, SF!Halt
  <2>12. CASE Restart
    <3>1. {s \in Runs : Unsettled(s)} = {} /\ {s \in Runs : Unsettled(s)}' = {}
      BY <2>12 DEF Restart, Unsettled
    <3>2. QED
      BY <2>12, <3>1 DEF Restart, SF!Next, SF!Recover
  <2>13. QED
    BY <2>2, <2>3, <2>4, <2>5, <2>7, <2>8, <2>9, <2>10, <2>11, <2>12
    DEF Next, SF!Next
<1>3. QED
  BY <1>1, <1>2, Invariance, PTL DEF Spec, RefinesSingleFlight, SF!Spec

-----------------------------------------------------------------------------
(***************************************************************************)
(* A page of the dashboard over the coordinator, for any runs, callers,    *)
(* faults and restarts.  No step of the page touches the server, so that   *)
(* all that is proved of the coordinator holds with the page; and as       *)
(* verdicts are final, an answer that arrives late still tells only        *)
(* verdicts that stand.                                                    *)
(***************************************************************************)

USE PageAssumption, PollsAssumption

\* The coordinator under the page is the coordinator: every step of the composition is
\* one of its steps or leaves it alone, and the page's fairness is added to its own.
THEOREM PageKeepsCoordinator == DashSpec => FairSpec
<1>1. DashInit => Init
  BY DEF DashInit
<1>2. [DashNext]_dashVars => [Next]_vars
  <2>1. ASSUME PageStep PROVE UNCHANGED vars
    BY <2>1 DEF PageStep, OpenPage, PickRange, HistoryArrives, HistoryFails, Tick, Age,
                Poll, ReadActive, PollArrives, PollFails
  <2>2. ASSUME ServerStep PROVE Next
    BY <2>2 DEF ServerStep
  <2> QED
    BY <2>1, <2>2 DEF DashNext, dashVars
<1> QED
  BY <1>1, <1>2, PTL DEF DashSpec, FairSpec, Spec

\* What the coordinator promises holds as well while pages poll it (status).
THEOREM CoordinatorUnderPage ==
    DashSpec => [](OneDiagnostic /\ IdleIsSettled /\ ActiveIsHonest) /\ VerdictIsFinal
  BY PageKeepsCoordinator, MutualExclusion, Settled, HonestStatus, FinalVerdict, PTL
  DEF FairSpec

(***************************************************************************)
(* The newest of some runs is one of them.                                 *)
(***************************************************************************)

LEMMA NewestExists ==
    ASSUME NEW S \in SUBSET Runs, S # {}
    PROVE  \E x \in S : \A y \in S : x >= y
<1> DEFINE HasNewest(U) == \E x \in U : \A y \in U : x >= y
           T == {U \in SUBSET Runs : U # {} /\ ~HasNewest(U)}
<1>1. ASSUME T # {} PROVE FALSE
  <2>1. T \in SUBSET (SUBSET Runs) /\ IsFiniteSet(Runs)
    OBVIOUS
  <2> HIDE DEF T
  <2>2. PICK U \in T : \A V \in SUBSET U : V # U => V \notin T
    BY <1>1, <2>1, SmallestSubset
  <2>3. U \in SUBSET Runs /\ U # {} /\ ~HasNewest(U)
    BY DEF T
  <2>4. PICK x \in U : TRUE
    BY <2>3
  <2> DEFINE V == U \ {x}
  <2>5. V \in SUBSET Runs /\ V \in SUBSET U /\ V # U
    BY <2>3, <2>4
  <2>6. V = {} \/ HasNewest(V)
    BY <2>2, <2>5 DEF T
  <2>7. HasNewest(U)
    <3>1. CASE V = {}
      BY <2>3, <2>4, <3>1
    <3>2. CASE HasNewest(V)
      <4>1. PICK m \in V : \A y \in V : m >= y
        BY <3>2
      <4>2. \A y \in U : y \in Nat
        BY <2>3
      <4>3. CASE m >= x
        BY <4>1, <4>2, <4>3
      <4>4. CASE x >= m
        BY <2>4, <4>1, <4>2, <4>4
      <4> QED
        BY <2>4, <4>1, <4>2, <4>3, <4>4
    <3> QED
      BY <2>6, <3>1, <3>2
  <2> QED
    BY <2>3, <2>7
<1> QED
  BY <1>1

LEMMA NewestType ==
    ASSUME NEW S \in SUBSET Runs
    PROVE  /\ Newest(S) \in S \union {NoRun}
           /\ S # {} => Newest(S) \in S /\ \A y \in S : Newest(S) >= y
<1>1. CASE S = {}
  BY <1>1 DEF Newest
<1>2. CASE S # {}
  <2>1. Max(S) \in S /\ \A y \in S : Max(S) >= y
    BY <1>2, NewestExists DEF Max
  <2> QED
    BY <1>2, <2>1 DEF Newest
<1> QED
  BY <1>1, <1>2

(***************************************************************************)
(* The page.  What is on its way to it stays true on the way, whichever    *)
(* answer arrives first.                                                   *)
(***************************************************************************)
Told(r) == rows[r] # "absent"

PageInv ==
    /\ PageTypeOK
    /\ started # NoRun => Told(started)
    /\ \A r \in Runs : answers[r] > 0 => Told(r)

\* A row that was written stays, and so does a verdict.
LEMMA RecordedStep ==
    ASSUME IInv, [Next]_vars, NEW r \in Runs
    PROVE  /\ rows[r] # "absent" => rows'[r] # "absent"
           /\ rows[r] \in Terminal => rows'[r] \in Terminal
<1>1. rows[r] \in Terminal => rows'[r] = rows[r]
  BY VerdictStep DEF vars
<1> DEFINE Stays == rows[r] # "absent" => rows'[r] # "absent"
<1>2. CASE UNCHANGED vars
  BY <1>2 DEF vars
<1>3. rows \in [Runs -> Statuses]
  BY DEF IInv, TypeOK
<1>4. ASSUME NEW c \in Callers, CallerNext(c) PROVE Stays
  BY <1>4 DEF CallerNext, Acquire, Conflict, Refuse, Activate, Disconnect
<1>5. ASSUME NEW s \in Runs, InsertRow(s) \/ InsertFails(s) \/ Emit(s) PROVE Stays
  BY <1>3, <1>5 DEF InsertRow, InsertFails, Emit
<1>6. ASSUME NEW s \in Runs, TaskNext(s) PROVE Stays
  <2>1. CASE Persist(s)
    BY <1>3, <2>1 DEF Persist
  <2>2. CASE ~Persist(s)
    BY <1>6, <2>2 DEF TaskNext, Progress, ShutdownBranch, EngineBranch, DeadlineBranch,
                      EnginePanics, LeaveLoop, PersistFails, ClearActive, ReleaseBusy
  <2> QED
    BY <2>1, <2>2
<1>7. CASE StopSignal \/ Die
  BY <1>7 DEF StopSignal, Die
<1>9. ASSUME Restart PROVE Stays
  <2>1. rows' = [s \in Runs |-> IF rows[s] = "running" THEN "interrupted" ELSE rows[s]]
    BY <1>9 DEF Restart
  <2> QED
    BY <1>3, <2>1
<1>8. Stays
  BY <1>2, <1>4, <1>5, <1>6, <1>7, <1>9 DEF Next
<1> QED
  BY <1>1, <1>8

LEMMA PageInit == DashInit => PageInv
<1> SUFFICES ASSUME DashInit PROVE PageInv
  OBVIOUS
<1>1. answers = [r \in Runs \union {NoRun} |-> 0] /\ \A r \in Runs : answers[r] = 0
  BY DEF DashInit
<1>2. answers \in [Runs \union {NoRun} -> Nat]
  BY <1>1
<1>3. loading \in [at : {"closed", "loaded", "loading"}, runs : SUBSET Runs] /\ loading.runs = {}
  BY DEF DashInit, Closed
<1>4. PageTypeOK
  BY <1>2, <1>3 DEF DashInit, PageTypeOK, Cards
<1> QED
  BY <1>1, <1>3, <1>4 DEF DashInit, PageInv

LEMMA SummaryType == Summary \in Cards
<1>1. ASSUME NEW m \in Metrics PROVE Summary[m] \in Runs \union {NoRun}
  <2> DEFINE S == {r \in Runs \ old : rows[r] = "completed" /\ m \in Measured[r]}
  <2>1. Summary[m] = Newest(S)
    BY DEF Summary
  <2>2. Newest(S) \in S \union {NoRun}
    BY NewestType
  <2> QED
    BY <2>1, <2>2
<1>2. Summary = [m \in Metrics |-> Summary[m]]
  BY DEF Summary
<1> QED
  BY <1>1, <1>2 DEF Cards

LEMMA CardsType == cards \in Cards /\ LoadSummary => cards' \in Cards
  BY SummaryType DEF LoadSummary

\* A request of the history brings only runs that are decided.
Decided(l) ==
    /\ l \in [at : {"closed", "loaded", "loading"}, runs : SUBSET Runs]
    /\ \A r \in l.runs : rows[r] \in Terminal

LEMMA HistoryDecided ==
    ASSUME NEW beyond
    PROVE  Decided([at |-> "loading", runs |-> History(beyond)])
  BY DEF Decided, History

LEMMA AskDecided ==
    ASSUME Decided(loading), historyError \in BOOLEAN, NEW beyond, AskHistory(beyond)
    PROVE  Decided(loading') /\ historyError' \in BOOLEAN
<1>1. loading' = loading \/ loading' = [at |-> "loading", runs |-> History(beyond)]
  BY DEF AskHistory, LoadHistory, HistoryIsRefused
<1>2. Decided(loading')
  BY Zenon, <1>1, HistoryDecided
<1>3. historyError' \in BOOLEAN
  BY DEF AskHistory, LoadHistory, HistoryIsRefused
<1> QED
  BY <1>2, <1>3

\* What is shown, and what is on its way, of runs that are decided.
Showing ==
    /\ Decided(loading)
    /\ historyError \in BOOLEAN
    /\ cards \in Cards

\* The runs the page has seen, and those that the answers under way tell of.
Telling ==
    /\ started \in Runs \union {NoRun}
    /\ reading \in Nat
    /\ answers \in [Runs \union {NoRun} -> Nat]
    /\ started # NoRun => Told(started)
    /\ \A r \in Runs : answers[r] > 0 => Told(r)

Windows ==
    /\ old \subseteq past /\ past \subseteq Runs
    /\ owed \subseteq Runs

LEMMA PageParts == PageInv <=> Showing /\ Telling /\ Windows
  BY DEF PageInv, PageTypeOK, Showing, Telling, Windows, Decided

LEMMA ShowingStep ==
    ASSUME Showing, rows' = rows, PageStep
    PROVE  Showing'
<1> USE DEF Showing
<1>1. \A l : Decided(l)' <=> Decided(l')
  BY DEF Decided
<1>2. ASSUME UNCHANGED shown PROVE Showing'
  BY <1>1, <1>2 DEF shown, Decided
<1>3. CASE OpenPage
  <2>1. Decided(loading') /\ historyError' = FALSE
    BY <1>3, HistoryDecided DEF OpenPage, LoadHistory
  <2>2. cards' \in Cards
    BY <1>3, CardsType DEF OpenPage
  <2> QED
    BY <2>1, <2>2 DEF Decided
<1>4. CASE PickRange
  <2>1. Decided(loading') /\ historyError' \in BOOLEAN
    BY <1>4, AskDecided DEF PickRange
  <2> QED
    BY <1>4, <2>1 DEF PickRange, Decided
<1>5. CASE HistoryArrives
  BY <1>5 DEF HistoryArrives, Loaded, Decided
<1>6. CASE HistoryFails
  BY <1>6 DEF HistoryFails, Loaded, Decided
<1>7. CASE Tick
  BY <1>7, SummaryType DEF Tick, Decided
<1>8. CASE Age \/ Poll \/ ReadActive \/ PollFails
  BY <1>2, <1>8 DEF Age, Poll, ReadActive, PollFails
<1>9. CASE PollArrives
  <2>1. ASSUME NEW r, SeeRun(r) \/ SeeNothing(r) PROVE Showing'
    BY <1>2, <2>1 DEF SeeRun, SeeNothing
  <2>2. ASSUME NEW r, SeeEnd(r) PROVE Showing'
    <3>1. Decided(loading') /\ historyError' \in BOOLEAN
      BY <2>2, AskDecided DEF SeeEnd
    <3>2. cards' \in Cards
      BY <2>2, CardsType DEF SeeEnd
    <3> QED
      BY <3>1, <3>2 DEF Decided
  <2> QED
    BY <1>9, <2>1, <2>2 DEF PollArrives
<1> QED
  BY <1>3, <1>4, <1>5, <1>6, <1>7, <1>8, <1>9 DEF PageStep

\* One answer more, of a run that is told of already or of none, and one less.
LEMMA AnswersStep ==
    ASSUME answers \in [Runs \union {NoRun} -> Nat], NEW q \in Runs \union {NoRun}
    PROVE  /\ More(q) \in [Runs \union {NoRun} -> Nat]
           /\ \A r \in Runs : More(q)[r] > 0 => answers[r] > 0 \/ r = q
           /\ answers[q] > 0 => /\ Less(q) \in [Runs \union {NoRun} -> Nat]
                                /\ \A r \in Runs : Less(q)[r] > 0 => answers[r] > 0
  BY DEF More, Less

LEMMA TellingStep ==
    ASSUME IInv, Telling, rows' = rows, PageStep
    PROVE  Telling'
<1> USE DEF Telling
<1>1. ASSUME UNCHANGED <<started, pollVars>> PROVE Telling'
  BY <1>1 DEF pollVars, Told
<1>2. CASE OpenPage \/ PickRange \/ HistoryArrives \/ HistoryFails \/ Tick \/ Age
  BY <1>1, <1>2 DEF OpenPage, PickRange, HistoryArrives, HistoryFails, Tick, Age
<1>3. CASE Poll
  <2>1. UNCHANGED started /\ (answers' = answers \/ answers' = More(NoRun))
    BY <1>3 DEF Poll
  <2>2. reading' \in Nat
    <3>1. reading' = reading \/ reading' = reading + 1
      BY <1>3 DEF Poll
    <3> QED
      BY <3>1
  <2>3. NoRun \notin Runs
    BY RunsAssumption
  <2>4. answers' \in [Runs \union {NoRun} -> Nat] /\ \A r \in Runs : answers'[r] > 0 => Told(r)
    BY <2>1, <2>3, AnswersStep
  <2> QED
    BY <2>1, <2>2, <2>4 DEF Told
<1>4. CASE ReadActive
  <2>1. active.run \in Runs \union {NoRun}
    BY DEF IInv, TypeOK
  <2>2. active.run # NoRun => rows[active.run] # "absent"
    BY DEF IInv, ActiveInv, NoActive
  <2>3. UNCHANGED started /\ reading' \in Nat /\ answers' = More(active.run)
    BY <1>4 DEF ReadActive
  <2>4. NoRun \notin Runs
    BY RunsAssumption
  <2> QED
    BY <2>1, <2>2, <2>3, <2>4, AnswersStep DEF Told
<1>5. CASE PollArrives
  <2>1. PICK r \in Runs \union {NoRun} :
          answers[r] > 0 /\ answers' = Less(r) /\ (SeeRun(r) \/ SeeEnd(r) \/ SeeNothing(r))
    BY <1>5 DEF PollArrives
  <2>2. reading' = reading
    BY <1>5 DEF PollArrives
  <2>3. answers' \in [Runs \union {NoRun} -> Nat] /\ \A s \in Runs : answers'[s] > 0 => Told(s)
    BY <2>1, AnswersStep
  <2>4. started' \in Runs \union {NoRun} /\ (started' # NoRun => Told(started'))
    BY <2>1 DEF SeeRun, SeeEnd, SeeNothing
  <2> QED
    BY <2>2, <2>3, <2>4 DEF Told
<1>6. CASE PollFails
  <2>1. PICK r \in Runs \union {NoRun} : answers[r] > 0 /\ answers' = Less(r)
    BY <1>6 DEF PollFails
  <2>2. UNCHANGED <<started, reading>>
    BY <1>6 DEF PollFails
  <2> QED
    BY <2>1, <2>2, AnswersStep DEF Told
<1> QED
  BY <1>2, <1>3, <1>4, <1>5, <1>6 DEF PageStep

LEMMA WindowsStep ==
    ASSUME Windows, PageStep
    PROVE  Windows'
<1> USE DEF Windows
<1>1. CASE UNCHANGED windows /\ owed' \subseteq owed
  BY <1>1 DEF windows
<1>2. CASE OpenPage \/ HistoryFails \/ Tick \/ Poll \/ ReadActive \/ PollFails
  BY <1>1, <1>2 DEF OpenPage, HistoryFails, Tick, Poll, ReadActive, PollFails
<1>3. CASE HistoryArrives
  BY <1>1, <1>3 DEF HistoryArrives
<1>4. CASE PickRange
  BY <1>4 DEF PickRange
<1>5. CASE Age
  BY <1>5 DEF Age
<1>6. CASE PollArrives
  <2>1. PICK r \in Runs \union {NoRun} : SeeRun(r) \/ SeeEnd(r) \/ SeeNothing(r)
    BY <1>6 DEF PollArrives
  <2>2. CASE SeeRun(r)
    BY <1>6, <2>1, <2>2 DEF PollArrives, SeeRun, windows
  <2>3. CASE SeeEnd(r)
    BY <1>1, <1>6, <2>3 DEF PollArrives, SeeEnd
  <2>4. CASE SeeNothing(r)
    BY <1>1, <1>6, <2>4 DEF PollArrives, SeeNothing
  <2> QED
    BY <2>1, <2>2, <2>3, <2>4
<1> QED
  BY <1>2, <1>3, <1>4, <1>5, <1>6 DEF PageStep

\* Steps of the page, the server standing still.
LEMMA PageStepInv ==
    ASSUME IInv, PageInv, PageStep
    PROVE  PageInv'
<1>1. rows' = rows
  BY DEF vars, PageStep, OpenPage, PickRange, HistoryArrives, HistoryFails, Tick, Age,
         Poll, ReadActive, PollArrives, PollFails
<1>2. Showing' /\ Telling' /\ Windows'
  BY <1>1, PageParts, ShowingStep, TellingStep, WindowsStep
<1> QED
  BY <1>2 DEF PageInv, PageTypeOK, Showing, Telling, Windows, Decided

\* Steps of the server, or of nobody: rows only gain.
LEMMA ServerStepInv ==
    ASSUME IInv, PageInv, ServerStep \/ UNCHANGED dashVars
    PROVE  PageInv'
<1> USE DEF PageInv, PageTypeOK
<1>1. [Next]_vars
  BY DEF ServerStep, dashVars
<1>2. UNCHANGED <<started, answers, loading, historyError, cards, old, past, owed>>
  BY DEF ServerStep, Broken, pageVars, dashVars, pollVars, shown, windows
<1>3. reading' = reading \/ reading' = 0
  BY DEF ServerStep, Broken, pageVars, dashVars, pollVars
<1>4. \A r \in Runs : /\ rows[r] # "absent" => rows'[r] # "absent"
                      /\ rows[r] \in Terminal => rows'[r] \in Terminal
  BY <1>1, RecordedStep
<1>5. PageTypeOK'
  BY <1>2, <1>3, <1>4
<1>6. /\ started' # NoRun => Told(started)'
      /\ \A r \in Runs : answers'[r] > 0 => Told(r)'
  BY <1>2, <1>4 DEF Told
<1> QED
  BY <1>5, <1>6

LEMMA PageInvariance == DashSpec => []PageInv
<1>1. IInv /\ PageInv /\ [DashNext]_dashVars => PageInv'
  BY PageStepInv, ServerStepInv DEF DashNext
<1>2. DashSpec => []IInv
  BY PageKeepsCoordinator, Invariance, PTL DEF FairSpec
<1> QED
  BY <1>1, <1>2, PageInit, PTL DEF DashSpec

\* The history shows verdicts only of runs that have them, although what it shows was read
\* when it was asked for and the server has gone on since, or died (loadHistory, results).
THEOREM PageTypeCorrect == DashSpec => []PageTypeOK
<1>1. PageInv => PageTypeOK
  BY DEF PageInv
<1> QED
  BY <1>1, PageInvariance, PTL

\* What the page takes for a running test is a recorded run, though busy and active are
\* read one after the other while runs begin and end (status, loadCurrent).
SeenIsRecorded == started # NoRun => rows[started] # "absent"

THEOREM PageSeesRecordedRuns == DashSpec => []SeenIsRecorded
<1>1. PageInv => SeenIsRecorded
  BY DEF PageInv, SeenIsRecorded, Told
<1> QED
  BY <1>1, PageInvariance, PTL
=============================================================================
