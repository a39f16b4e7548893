---------------------------- MODULE SingleFlight ----------------------------
(***************************************************************************)
(* What the coordinator, the run table and the restart procedure of the    *)
(* sentinel server promise together: diagnostics are recorded one at a     *)
(* time, every recorded one is decided at most once, and one that a stop   *)
(* of the process cuts short is settled by the next start.                 *)
(*                                                                         *)
(* Coordinator.tla implements this specification.                          *)
(***************************************************************************)

CONSTANT Runs                  \* identifiers of diagnostics

VARIABLES
    record,                    \* the run table: what is stored about each run
    inflight,                  \* the runs the live process still answers for
    up                         \* the process is running

vars == <<record, inflight, up>>

Verdicts == {"completed", "failed"}

TypeOK ==
    /\ record \in [Runs -> {"absent", "running", "interrupted"} \union Verdicts]
    /\ inflight \subseteq Runs
    /\ up \in BOOLEAN

Init ==
    /\ record = [r \in Runs |-> "absent"]
    /\ inflight = {}
    /\ up = TRUE

\* A diagnostic is recorded only while no other one is in flight.
Begin(r) ==
    /\ up
    /\ inflight = {}
    /\ record[r] = "absent"
    /\ record' = [record EXCEPT ![r] = "running"]
    /\ inflight' = {r}
    /\ UNCHANGED up

Finish(r) ==
    /\ up
    /\ inflight = {r}
    /\ \E v \in Verdicts : record' = [record EXCEPT ![r] = v]
    /\ inflight' = {}
    /\ UNCHANGED up

\* The verdict could not be stored: the record stays undecided until a restart.
Abandon(r) ==
    /\ up
    /\ inflight = {r}
    /\ inflight' = {}
    /\ UNCHANGED <<record, up>>

Halt ==
    /\ up
    /\ up' = FALSE
    /\ inflight' = {}
    /\ UNCHANGED record

Recover ==
    /\ ~up
    /\ up' = TRUE
    /\ record' = [r \in Runs |-> IF record[r] = "running" THEN "interrupted"
                                                          ELSE record[r]]
    /\ UNCHANGED inflight

Next ==
    \/ \E r \in Runs : Begin(r) \/ Finish(r) \/ Abandon(r)
    \/ Halt
    \/ Recover

Spec == Init /\ [][Next]_vars
=============================================================================
