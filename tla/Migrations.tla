----------------------------- MODULE Migrations -----------------------------
(***************************************************************************)
(* Opening the database (Database::open in db.rs) over a file left by any  *)
(* earlier version, when the process may die on the way.                   *)
(*                                                                         *)
(* execute_batch runs the statements of a script one after the other, each *)
(* in a transaction of its own: no script opens one.  A statement that     *)
(* fails ends open, and with it the process; the container starts it again *)
(* ("restart: unless-stopped").                                            *)
(*                                                                         *)
(* A row keeps what the statements tell apart: the sign of the bufferbloat *)
(* instead of its value, the class of the error instead of its text.       *)
(***************************************************************************)
EXTENDS Integers, Sequences

CONSTANTS
    Ids,                \* rows of test_runs
    MaxCrashes          \* bound: deaths during open

Versions == 1..4
Interruption == 5       \* mark_interrupted, numbered after the four scripts

ASSUME CrashAssumption == MaxCrashes \in Nat

VARIABLES
    proc,               \* "down", "opening" or "serving"
    script,             \* the script being executed, or Interruption
    next,               \* the statement of it that is executed next
    version,            \* the variable version of open, read once
    columns,            \* columns of test_runs that the first script lacks
    applied,            \* schema_migrations
    rows,               \* test_runs
    crashes,            \* deaths during open so far
    found               \* history: rows and version when serving last ended

vars == <<proc, script, next, version, columns, applied, rows, crashes, found>>

Rows == [status : {"running", "completed", "failed"},
         error : {"null", "no_samples", "other", "restarted"},
         outcome : {"null", "measured", "unavailable"},
         detail : {"null", "no_samples"},
         selected : {"null", "set"},
         raw : {"null", "negative", "positive"},    \* bufferbloat in raw_result_json
         bloat : {"null", "negative", "zero", "positive"}]

(***************************************************************************)
(* The scripts.                                                            *)
(***************************************************************************)

Create == [op |-> "create", arg |-> 0]
AddColumn(n) == [op |-> "add", arg |-> n]           \* ALTER TABLE ... ADD COLUMN
Record(v) == [op |-> "record", arg |-> v]           \* INSERT INTO schema_migrations
RecordOrIgnore(v) == [op |-> "record_or_ignore", arg |-> v]
Update(n) == [op |-> "update", arg |-> n]           \* the n-th UPDATE

\* Mutant of Script: a version is recorded before its updates.
ScriptRecordedFirst(s) ==
    CASE s = 1 -> <<Create, RecordOrIgnore(1), Create>>
      [] s = 2 -> <<AddColumn(1), AddColumn(2), AddColumn(3), AddColumn(4), AddColumn(5),
                    Record(2), Update(1), Update(2)>>
      [] s = 3 -> <<Record(3), Update(3)>>
      [] s = 4 -> <<AddColumn(6), AddColumn(7), Record(4), Update(4), Update(5)>>
      [] s = Interruption -> <<Update(6)>>

\* The five quality columns are 1 to 5, outcome and outcome_detail 6 and 7.
Script(s) ==
    CASE s = 1 -> <<Create, RecordOrIgnore(1), Create>>
      [] s = 2 -> <<AddColumn(1), AddColumn(2), AddColumn(3), AddColumn(4), AddColumn(5),
                    Update(1), Update(2), Record(2)>>
      [] s = 3 -> <<Update(3), Record(3)>>
      [] s = 4 -> <<AddColumn(6), AddColumn(7), Update(4), Update(5), Record(4)>>
      [] s = Interruption -> <<Update(6)>>

\* The columns a complete application of script s adds.
ColumnsOf(s) == {c \in 1..7 : \E i \in 1..Len(Script(s)) : Script(s)[i] = AddColumn(c)}

\* Mutants of Interrupted: a status of its own; the row of an unfinished run kept.
InterruptedWithNewStatus(row) ==
    IF row.status = "running"
    THEN [row EXCEPT !.status = "interrupted", !.error = "restarted"] ELSE row

InterruptedKept(row) == row

\* mark_interrupted.
Interrupted(row) ==
    IF row.status = "running"
    THEN [row EXCEPT !.status = "failed", !.error = "restarted"] ELSE row

\* The UPDATEs.  Two of script 2 fill latencies and then bufferbloat from the raw
\* result, two of script 3 clamp a direction each: one step here.
Updated(n, row) ==
    CASE n = 1 -> [row EXCEPT !.bloat = row.raw]
      [] n = 2 -> [row EXCEPT !.selected = "set"]
      [] n = 3 -> [row EXCEPT !.bloat = IF @ = "negative" THEN "zero" ELSE @]
      [] n = 4 -> [row EXCEPT !.outcome = IF row.status = "completed" /\ @ = "null"
                                          THEN "measured" ELSE @]
      [] n = 5 -> IF row.status = "failed" /\ row.error = "no_samples"
                  THEN [row EXCEPT !.status = "completed", !.outcome = "unavailable",
                                   !.detail = row.error, !.error = "null"]
                  ELSE row
      [] n = 6 -> Interrupted(row)

(***************************************************************************)
(* The files an earlier version of the program leaves.                     *)
(***************************************************************************)

Written(v) ==
    {row \in Rows :
        /\ row.error \in IF row.status = "failed" THEN {"no_samples", "other", "restarted"}
                                                 ELSE {"null"}
        /\ row.status # "completed" => row.raw = "null"
        /\ row.outcome \in IF v = 4 /\ row.status = "completed"
                           THEN {"measured", "unavailable"} ELSE {"null"}
        /\ row.outcome = "unavailable" => row.raw = "null"
        /\ row.detail = IF row.outcome = "unavailable" THEN "no_samples" ELSE "null"
        /\ row.selected = IF v = 1 THEN "null" ELSE "set"
        /\ row.bloat = IF v = 1 THEN "null"
                       ELSE IF v >= 3 /\ row.raw = "negative" THEN "zero"
                       ELSE row.raw}

ColumnsAt(v) == UNION {ColumnsOf(s) : s \in 2..v}

Init ==
    /\ \E v \in Versions :
        /\ applied = 1..v
        /\ columns = ColumnsAt(v)
        /\ rows \in [Ids -> Written(v)]
        /\ found = [rows |-> rows, version |-> v]
    /\ proc = "down"
    /\ script = 1
    /\ next = 1
    /\ version = 0
    /\ crashes = 0

TypeOK ==
    /\ proc \in {"down", "opening", "serving"}
    /\ script \in 1..5
    /\ next \in 1..9
    /\ version \in 0..4
    /\ columns \subseteq 1..7
    /\ applied \subseteq Versions
    /\ rows \in [Ids -> Rows]
    /\ crashes \in 0..MaxCrashes

(***************************************************************************)
(* open.                                                                   *)
(***************************************************************************)

Boot ==
    /\ proc = "down"
    /\ proc' = "opening"
    /\ script' = 1
    /\ next' = 1
    /\ UNCHANGED <<version, columns, applied, rows, crashes, found>>

Statement == Script(script)[next]

Fails(statement) ==
    \/ statement.op = "add" /\ statement.arg \in columns
    \/ statement.op = "record" /\ statement.arg \in applied

Execute ==
    /\ proc = "opening"
    /\ next <= Len(Script(script))
    /\ ~Fails(Statement)
    /\ next' = next + 1
    /\ columns' = IF Statement.op = "add" THEN columns \union {Statement.arg} ELSE columns
    /\ applied' = IF Statement.op \in {"record", "record_or_ignore"}
                  THEN applied \union {Statement.arg} ELSE applied
    /\ rows' = IF Statement.op = "update"
               THEN [i \in Ids |-> Updated(Statement.arg, rows[i])] ELSE rows
    /\ UNCHANGED <<proc, script, version, crashes, found>>

\* The error is returned through open and main.
ExecuteFails ==
    /\ proc = "opening"
    /\ next <= Len(Script(script))
    /\ Fails(Statement)
    /\ proc' = "down"
    /\ UNCHANGED <<script, next, version, columns, applied, rows, crashes, found>>

MaxVersion == CHOOSE v \in applied : \A w \in applied : w <= v

\* The version is read after the first script; each later one runs if it is new.
NextScript ==
    /\ proc = "opening"
    /\ next > Len(Script(script))
    /\ script # Interruption
    /\ version' = IF script = 1 THEN MaxVersion ELSE version
    /\ script' = CHOOSE s \in (script + 1)..Interruption :
                   /\ version' < s
                   /\ \A t \in (script + 1)..(s - 1) : version' >= t
    /\ next' = 1
    /\ UNCHANGED <<proc, columns, applied, rows, crashes, found>>

Serve ==
    /\ proc = "opening"
    /\ script = Interruption
    /\ next > Len(Script(script))
    /\ proc' = "serving"
    /\ UNCHANGED <<script, next, version, columns, applied, rows, crashes, found>>

Die ==
    /\ proc = "opening"
    /\ crashes < MaxCrashes
    /\ proc' = "down"
    /\ crashes' = crashes + 1
    /\ UNCHANGED <<script, next, version, columns, applied, rows, found>>

\* The server is stopped, perhaps while the run of row i is in progress.
Stop ==
    /\ proc = "serving"
    /\ proc' = "down"
    /\ \/ rows' = rows
       \/ \E i \in Ids :
            rows' = [rows EXCEPT ![i] =
                       [status |-> "running", error |-> "null", outcome |-> "null",
                        detail |-> "null", selected |-> "set", raw |-> "null",
                        bloat |-> "null"]]
    /\ found' = [rows |-> rows', version |-> 4]
    /\ UNCHANGED <<script, next, version, columns, applied, crashes>>

Next == Boot \/ Execute \/ ExecuteFails \/ NextScript \/ Serve \/ Die \/ Stop

Spec == Init /\ [][Next]_vars

\* The container is restarted, and a process that does not die gets on.
Fairness ==
    /\ WF_vars(Boot)
    /\ WF_vars(Execute \/ ExecuteFails \/ NextScript \/ Serve)

FairSpec == Spec /\ Fairness

(***************************************************************************)
(* Properties.                                                             *)
(***************************************************************************)

\* What opening a file of version v must make of a row, whatever happened on the
\* way: the tests of db.rs on legacy rows, for all rows at once.
Settled(row, v) ==
    LET unavailable == v < 4 /\ row.status = "failed" /\ row.error = "no_samples"
        status == CASE row.status = "running" -> "failed"
                    [] unavailable -> "completed"
                    [] OTHER -> row.status
        bloat == IF v = 1 THEN row.raw ELSE row.bloat
    IN [status |-> status,
        error |-> CASE row.status = "running" -> "restarted"
                    [] unavailable -> "null"
                    [] OTHER -> row.error,
        outcome |-> CASE unavailable -> "unavailable"
                      [] row.status = "completed" /\ row.outcome = "null" -> "measured"
                      [] OTHER -> row.outcome,
        detail |-> IF unavailable THEN row.error ELSE row.detail,
        selected |-> "set",
        raw |-> row.raw,
        bloat |-> IF v < 3 /\ bloat = "negative" THEN "zero" ELSE bloat]

\* The server only serves a database of the current schema, every row of which
\* is what the row that was found had to become: a death in a script does not
\* make it run twice on a row, and no order of the scripts loses an effect.
ServesSettledRows ==
    proc = "serving" =>
        /\ applied = Versions
        /\ columns = ColumnsAt(4)
        /\ rows = [i \in Ids |-> Settled(found.rows[i], found.version)]

\* README: "On restart, any run left in `running` is marked failed with an
\* interruption error."
RestartSettles ==
    \A i \in Ids : proc = "down" /\ rows[i].status = "running"
                     ~> rows[i].status = "failed" /\ rows[i].error = "restarted"

\* A death left a script with some of its columns added and its version not
\* recorded: ALTER TABLE fails when it is repeated.
HalfAltered == \E s \in {2, 4} : s \notin applied /\ columns \cap ColumnsOf(s) # {}

\* The same promise, but for that state: wherever else the process dies while it
\* opens the database, and however often, a later start settles the run.
RestartSettlesUnlessHalfAltered ==
    \A i \in Ids : proc = "down" /\ rows[i].status = "running"
                     ~> \/ rows[i].status = "failed" /\ rows[i].error = "restarted"
                        \/ proc = "down" /\ HalfAltered
=============================================================================
