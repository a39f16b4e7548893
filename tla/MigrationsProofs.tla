-------------------------- MODULE MigrationsProofs --------------------------
(***************************************************************************)
(* A database that is served is of the current schema, and every row of it *)
(* is what the row that was found had to become: for any set of rows, and  *)
(* however often the process dies while it opens the file.                 *)
(*                                                                         *)
(* The invariant follows the scripts.  The file is at the level k of the   *)
(* last version it records.  Up to there every row is the one found, taken *)
(* through the updates of the scripts between (At2 to At4); a death after  *)
(* the updates of script 3, or after the interruption mark, has them made  *)
(* twice, which changes nothing (Idempotent).  What a death leaves in      *)
(* scripts 2 and 4 is not known, but neither is it used: the first column  *)
(* of the script is there, and adding it again fails.                      *)
(***************************************************************************)
EXTENDS Migrations, TLAPS

(***************************************************************************)
(* A row that was found at version v, brought to versions 2, 3 and 4.      *)
(***************************************************************************)
At2(row, v) == IF v < 2 THEN Updated(2, Updated(1, row)) ELSE row
At3(row, v) == IF v < 3 THEN Updated(3, At2(row, v)) ELSE row
At4(row, v) == IF v < 4 THEN Updated(5, Updated(4, At3(row, v))) ELSE row

\* What the scripts rely on in the rows of an older version.
Sound(row, v) ==
    /\ v >= 2 => row.selected = "set"
    /\ v = 4 /\ row.status = "completed" => row.outcome # "null"

FoundInv ==
    /\ found \in [rows : [Ids -> Rows], version : Versions]
    /\ \A i \in Ids : Sound(found.rows[i], found.version)

First(i) == found.rows[i]
Second(i) == At2(found.rows[i], found.version)
Third(i) == At3(found.rows[i], found.version)
Fourth(i) == At4(found.rows[i], found.version)

\* The file, between two scripts or after a death in one.
FileInv(k) ==
    /\ k = 1 => \/ columns = {} /\ \A i \in Ids : rows[i] = First(i)
                \/ 1 \in columns
    /\ k = 2 => /\ columns = 1..5
                /\ \A i \in Ids : rows[i] \in {Second(i), Updated(3, Second(i))}
    /\ k = 3 => \/ columns = 1..5 /\ \A i \in Ids : rows[i] = Third(i)
                \/ 6 \in columns
    /\ k = 4 => /\ columns = 1..7
                /\ \A i \in Ids : rows[i] \in {Fourth(i), Interrupted(Fourth(i))}

\* A script runs on a file of the level before it, and records its own at the end.
LevelInv(k) ==
    /\ next \in 1..(Len(Script(script)) + 1)
    /\ script \in 2..4 =>
        /\ version < script
        /\ k = IF next > Len(Script(script)) THEN script ELSE script - 1
    /\ script = Interruption => k = 4

\* The file within a script.
ScriptInv ==
    /\ script = 2 /\ next \in 2..8 =>
        /\ columns = 1..(IF next < 6 THEN next - 1 ELSE 5)
        /\ \A i \in Ids : rows[i] = CASE next < 7 -> First(i)
                                      [] next = 7 -> Updated(1, First(i))
                                      [] next = 8 -> Second(i)
    /\ script = 3 /\ next = 2 => \A i \in Ids : rows[i] = Third(i)
    /\ script = 4 /\ next \in 2..5 =>
        /\ columns = 1..(IF next = 2 THEN 6 ELSE 7)
        /\ \A i \in Ids : rows[i] = CASE next < 4 -> Third(i)
                                      [] next = 4 -> Updated(4, Third(i))
                                      [] next = 5 -> Fourth(i)
    /\ script = Interruption /\ next = 2 => \A i \in Ids : rows[i] = Interrupted(Fourth(i))

ServingInv(k) == k = 4 /\ \A i \in Ids : rows[i] = Interrupted(Fourth(i))

StepsInv(k) ==
    /\ applied = 1..k
    /\ FileInv(k)
    /\ proc = "opening" => LevelInv(k) /\ ScriptInv
    /\ proc = "serving" => ServingInv(k)

IInv == TypeOK /\ FoundInv /\ \E k \in found.version..4 : StepsInv(k)

(***************************************************************************)
(* The scripts and the rows.                                               *)
(***************************************************************************)

LEMMA Script1 ==
    /\ Len(Script(1)) = 3
    /\ Script(1)[1] = Create /\ Script(1)[2] = RecordOrIgnore(1) /\ Script(1)[3] = Create
<1>1. Script(1) = <<Create, RecordOrIgnore(1), Create>>
  BY DEF Script, Interruption
<1> QED
  BY <1>1

LEMMA Script2 ==
    /\ Len(Script(2)) = 8
    /\ \A n \in 1..5 : Script(2)[n] = AddColumn(n)
    /\ Script(2)[6] = Update(1) /\ Script(2)[7] = Update(2) /\ Script(2)[8] = Record(2)
<1>1. Script(2) = <<AddColumn(1), AddColumn(2), AddColumn(3), AddColumn(4), AddColumn(5),
                  Update(1), Update(2), Record(2)>>
  BY DEF Script, Interruption
<1> QED
  BY <1>1

LEMMA Script3 ==
    /\ Len(Script(3)) = 2
    /\ Script(3)[1] = Update(3) /\ Script(3)[2] = Record(3)
<1>1. Script(3) = <<Update(3), Record(3)>>
  BY DEF Script, Interruption
<1> QED
  BY <1>1

LEMMA Script4 ==
    /\ Len(Script(4)) = 5
    /\ Script(4)[1] = AddColumn(6) /\ Script(4)[2] = AddColumn(7)
    /\ Script(4)[3] = Update(4) /\ Script(4)[4] = Update(5) /\ Script(4)[5] = Record(4)
<1>1. Script(4) = <<AddColumn(6), AddColumn(7), Update(4), Update(5), Record(4)>>
  BY DEF Script, Interruption
<1> QED
  BY <1>1

LEMMA Script5 == Len(Script(5)) = 1 /\ Script(5)[1] = Update(6)
  BY DEF Script, Interruption

LEMMA Lengths == \A s \in 1..5 : Len(Script(s)) \in 1..8
<1> SUFFICES ASSUME NEW s \in 1..5 PROVE Len(Script(s)) \in 1..8
  OBVIOUS
<1>1. s = 1 \/ s = 2 \/ s = 3 \/ s = 4 \/ s = 5
  OBVIOUS
<1> QED
  BY <1>1, Script1, Script2, Script3, Script4, Script5

LEMMA Columns ==
    /\ ColumnsAt(1) = {} /\ ColumnsAt(2) = 1..5 /\ ColumnsAt(3) = 1..5
    /\ ColumnsAt(4) = 1..7
<1>1. ColumnsOf(2) = 1..5
  <2>1. ASSUME NEW c \in 1..5 PROVE c \in ColumnsOf(2)
    BY Script2 DEF ColumnsOf
  <2>2. ASSUME NEW c \in ColumnsOf(2) PROVE c \in 1..5
    <3>1. PICK i \in 1..8 : Script(2)[i] = AddColumn(c)
      BY Script2 DEF ColumnsOf
    <3>2. i \in 1..5
      <4>1. i \in 1..5 \/ i = 6 \/ i = 7 \/ i = 8
        OBVIOUS
      <4> QED
        BY <3>1, <4>1, Script2 DEF AddColumn, Update, Record
    <3> QED
      BY <3>1, <3>2, Script2 DEF AddColumn
  <2> QED
    BY <2>1, <2>2
<1>2. ColumnsOf(3) = {}
  <2>1. ASSUME NEW c \in ColumnsOf(3) PROVE FALSE
    <3>1. PICK i \in 1..2 : Script(3)[i] = AddColumn(c)
      BY Script3 DEF ColumnsOf
    <3>2. i = 1 \/ i = 2
      OBVIOUS
    <3> QED
      BY <3>1, <3>2, Script3 DEF AddColumn, Update, Record
  <2> QED
    BY <2>1
<1>3. ColumnsOf(4) = 6..7
  <2>1. ASSUME NEW c \in 6..7 PROVE c \in ColumnsOf(4)
    <3>1. c = 6 \/ c = 7
      OBVIOUS
    <3> QED
      BY <3>1, Script4 DEF ColumnsOf
  <2>2. ASSUME NEW c \in ColumnsOf(4) PROVE c \in 6..7
    <3>1. PICK i \in 1..5 : Script(4)[i] = AddColumn(c)
      BY Script4 DEF ColumnsOf
    <3>2. i = 1 \/ i = 2 \/ i = 3 \/ i = 4 \/ i = 5
      OBVIOUS
    <3> QED
      BY <3>1, <3>2, Script4 DEF AddColumn, Update, Record
  <2> QED
    BY <2>1, <2>2
<1>4. /\ 2..1 = {} /\ 2..2 = {2} /\ 2..3 = {2, 3} /\ 2..4 = {2, 3, 4}
  OBVIOUS
<1>5. ColumnsAt(1) = {} /\ ColumnsAt(2) = ColumnsOf(2)
  BY <1>4 DEF ColumnsAt
<1>6. ColumnsAt(3) = ColumnsOf(2) \union ColumnsOf(3)
  BY <1>4 DEF ColumnsAt
<1>7. ColumnsAt(4) = ColumnsOf(2) \union ColumnsOf(3) \union ColumnsOf(4)
  BY <1>4 DEF ColumnsAt
<1>8. 1..5 \union 6..7 = 1..7
  OBVIOUS
<1> QED
  BY <1>1, <1>2, <1>3, <1>5, <1>6, <1>7, <1>8

LEMMA SameRow ==
    ASSUME NEW r \in Rows, NEW s \in Rows,
           r.status = s.status, r.error = s.error, r.outcome = s.outcome,
           r.detail = s.detail, r.selected = s.selected, r.raw = s.raw,
           r.bloat = s.bloat
    PROVE  r = s
  BY DEF Rows

\* What each update makes of the columns of a row.
LEMMA Update1 ==
    ASSUME NEW row \in Rows
    PROVE  LET new == Updated(1, row) IN
           /\ new \in Rows
           /\ new.bloat = row.raw
           /\ new.status = row.status /\ new.error = row.error /\ new.raw = row.raw
           /\ new.outcome = row.outcome /\ new.detail = row.detail
           /\ new.selected = row.selected
<1>1. Updated(1, row) = [row EXCEPT !.bloat = row.raw]
  BY DEF Updated
<1> QED
  BY <1>1 DEF Rows

LEMMA Update2 ==
    ASSUME NEW row \in Rows
    PROVE  LET new == Updated(2, row) IN
           /\ new \in Rows
           /\ new.selected = "set"
           /\ new.status = row.status /\ new.error = row.error /\ new.raw = row.raw
           /\ new.outcome = row.outcome /\ new.detail = row.detail
           /\ new.bloat = row.bloat
<1>1. Updated(2, row) = [row EXCEPT !.selected = "set"]
  BY DEF Updated
<1> QED
  BY <1>1 DEF Rows

LEMMA Update3 ==
    ASSUME NEW row \in Rows
    PROVE  LET new == Updated(3, row) IN
           /\ new \in Rows
           /\ new.bloat = IF row.bloat = "negative" THEN "zero" ELSE row.bloat
           /\ new.status = row.status /\ new.error = row.error /\ new.raw = row.raw
           /\ new.outcome = row.outcome /\ new.detail = row.detail
           /\ new.selected = row.selected
<1>1. Updated(3, row) =
        [row EXCEPT !.bloat = IF row.bloat = "negative" THEN "zero" ELSE row.bloat]
  BY DEF Updated
<1> QED
  BY <1>1 DEF Rows

LEMMA Update4 ==
    ASSUME NEW row \in Rows
    PROVE  LET new == Updated(4, row) IN
           /\ new \in Rows
           /\ new.outcome = IF row.status = "completed" /\ row.outcome = "null"
                            THEN "measured" ELSE row.outcome
           /\ new.status = row.status /\ new.error = row.error /\ new.raw = row.raw
           /\ new.detail = row.detail /\ new.selected = row.selected
           /\ new.bloat = row.bloat
<1>1. Updated(4, row) =
        [row EXCEPT !.outcome = IF row.status = "completed" /\ row.outcome = "null"
                                THEN "measured" ELSE row.outcome]
  BY DEF Updated
<1> QED
  BY <1>1 DEF Rows

Unavailable(row) == row.status = "failed" /\ row.error = "no_samples"

LEMMA Update5 ==
    ASSUME NEW row \in Rows
    PROVE  LET new == Updated(5, row) IN
           /\ new \in Rows
           /\ new.status = IF Unavailable(row) THEN "completed" ELSE row.status
           /\ new.outcome = IF Unavailable(row) THEN "unavailable" ELSE row.outcome
           /\ new.detail = IF Unavailable(row) THEN row.error ELSE row.detail
           /\ new.error = IF Unavailable(row) THEN "null" ELSE row.error
           /\ new.selected = row.selected /\ new.raw = row.raw /\ new.bloat = row.bloat
<1>1. CASE Unavailable(row)
  <2>1. Updated(5, row) =
          [row EXCEPT !.status = "completed", !.outcome = "unavailable",
                      !.detail = row.error, !.error = "null"]
    BY <1>1 DEF Updated, Unavailable
  <2> QED
    BY <1>1, <2>1 DEF Rows, Unavailable
<1>2. CASE ~Unavailable(row)
  <2>1. Updated(5, row) = row
    BY <1>2 DEF Updated, Unavailable
  <2> QED
    BY <1>2, <2>1
<1> QED
  BY <1>1, <1>2

LEMMA Update6 ==
    ASSUME NEW row \in Rows
    PROVE  LET new == Interrupted(row) IN
           /\ Updated(6, row) = new
           /\ new \in Rows
           /\ new.status = IF row.status = "running" THEN "failed" ELSE row.status
           /\ new.error = IF row.status = "running" THEN "restarted" ELSE row.error
           /\ new.outcome = row.outcome /\ new.detail = row.detail
           /\ new.selected = row.selected /\ new.raw = row.raw /\ new.bloat = row.bloat
<1>1. Updated(6, row) = Interrupted(row)
  BY DEF Updated
<1>2. CASE row.status = "running"
  <2>1. Interrupted(row) = [row EXCEPT !.status = "failed", !.error = "restarted"]
    BY <1>2 DEF Interrupted
  <2> QED
    BY <1>1, <1>2, <2>1 DEF Rows
<1>3. CASE row.status # "running"
  <2>1. Interrupted(row) = row
    BY <1>3 DEF Interrupted
  <2> QED
    BY <1>1, <1>3, <2>1
<1> QED
  BY <1>2, <1>3

LEMMA UpdatedType ==
    ASSUME NEW row \in Rows, NEW n \in 1..6
    PROVE  Updated(n, row) \in Rows
<1>1. n = 1 \/ n = 2 \/ n = 3 \/ n = 4 \/ n = 5 \/ n = 6
  OBVIOUS
<1> QED
  BY <1>1, Update1, Update2, Update3, Update4, Update5, Update6

LEMMA BroughtType ==
    ASSUME NEW row \in Rows, NEW v \in Versions
    PROVE  At2(row, v) \in Rows /\ At3(row, v) \in Rows /\ At4(row, v) \in Rows
<1>1. At2(row, v) \in Rows
  BY UpdatedType DEF At2
<1>2. At3(row, v) \in Rows
  BY <1>1, UpdatedType DEF At3
<1>3. At4(row, v) \in Rows
  BY <1>2, UpdatedType DEF At4
<1> QED
  BY <1>1, <1>2, <1>3

\* The updates that a death may have made twice.
LEMMA Idempotent ==
    ASSUME NEW row \in Rows
    PROVE  /\ Updated(3, Updated(3, row)) = Updated(3, row)
           /\ Interrupted(Interrupted(row)) = Interrupted(row)
<1>1. Updated(3, Updated(3, row)) = Updated(3, row)
  <2> DEFINE once == Updated(3, row)
             twice == Updated(3, once)
  <2>1. once \in Rows /\ (once.bloat # "negative")
    BY Update3
  <2>2. /\ twice \in Rows
        /\ twice.bloat = once.bloat
        /\ twice.status = once.status /\ twice.error = once.error /\ twice.raw = once.raw
        /\ twice.outcome = once.outcome /\ twice.detail = once.detail
        /\ twice.selected = once.selected
    BY <2>1, Update3
  <2> HIDE DEF once, twice
  <2>3. twice = once
    BY <2>1, <2>2, SameRow
  <2> QED
    BY <2>3 DEF once, twice
<1>2. Interrupted(Interrupted(row)) = Interrupted(row)
  <2>1. Interrupted(row).status # "running"
    BY Update6
  <2> QED
    BY <2>1 DEF Interrupted
<1> QED
  BY <1>1, <1>2

\* The columns of a row that opening the file has dealt with.
LEMMA SettledRow ==
    ASSUME NEW row \in Rows, NEW v \in Versions
    PROVE  LET new == Settled(row, v)
               gone == v < 4 /\ Unavailable(row)
               bloat == IF v = 1 THEN row.raw ELSE row.bloat
           IN
           /\ new \in Rows
           /\ new.status = IF row.status = "running" THEN "failed"
                           ELSE IF gone THEN "completed" ELSE row.status
           /\ new.error = IF row.status = "running" THEN "restarted"
                          ELSE IF gone THEN "null" ELSE row.error
           /\ new.outcome = IF gone THEN "unavailable"
                            ELSE IF row.status = "completed" /\ row.outcome = "null"
                            THEN "measured" ELSE row.outcome
           /\ new.detail = IF gone THEN row.error ELSE row.detail
           /\ new.selected = "set" /\ new.raw = row.raw
           /\ new.bloat = IF v < 3 /\ bloat = "negative" THEN "zero" ELSE bloat
<1> DEFINE gone == v < 4 /\ Unavailable(row)
           bloat == IF v = 1 THEN row.raw ELSE row.bloat
           new == [status |-> IF row.status = "running" THEN "failed"
                              ELSE IF gone THEN "completed" ELSE row.status,
                   error |-> IF row.status = "running" THEN "restarted"
                             ELSE IF gone THEN "null" ELSE row.error,
                   outcome |-> IF gone THEN "unavailable"
                               ELSE IF row.status = "completed" /\ row.outcome = "null"
                               THEN "measured" ELSE row.outcome,
                   detail |-> IF gone THEN row.error ELSE row.detail,
                   selected |-> "set",
                   raw |-> row.raw,
                   bloat |-> IF v < 3 /\ bloat = "negative" THEN "zero" ELSE bloat]
<1>1. Settled(row, v) = new
  BY DEF Settled, Unavailable
<1>2. /\ row.status \in {"running", "completed", "failed"}
      /\ row.error \in {"null", "no_samples", "other", "restarted"}
      /\ row.outcome \in {"null", "measured", "unavailable"}
      /\ row.detail \in {"null", "no_samples"}
      /\ row.raw \in {"null", "negative", "positive"}
      /\ row.bloat \in {"null", "negative", "zero", "positive"}
  BY DEF Rows
<1>3. new \in Rows
  BY <1>2 DEF Rows, Unavailable
<1> QED
  BY <1>1, <1>3

\* All scripts together do what opening the file has to do.
LEMMA ScriptsSettle ==
    ASSUME NEW row \in Rows, NEW v \in Versions, Sound(row, v)
    PROVE  Interrupted(At4(row, v)) = Settled(row, v)
<1> DEFINE two == At2(row, v)
           three == At3(row, v)
           four == At4(row, v)
           five == Interrupted(four)
<1>1. two \in Rows /\ three \in Rows /\ four \in Rows
  BY BroughtType
<1>2. /\ two.bloat = (IF v = 1 THEN row.raw ELSE row.bloat) /\ two.selected = "set"
      /\ two.status = row.status /\ two.error = row.error /\ two.raw = row.raw
      /\ two.outcome = row.outcome /\ two.detail = row.detail
  <2>1. CASE v < 2
    <3>1. two = Updated(2, Updated(1, row)) /\ Updated(1, row) \in Rows /\ v = 1
      BY <2>1, Update1 DEF At2, Versions
    <3> QED
      BY <3>1, Update1, Update2
  <2>2. CASE ~(v < 2)
    BY <2>2 DEF At2, Sound, Versions
  <2> QED
    BY <2>1, <2>2
<1>3. /\ three.bloat = IF v < 3 /\ two.bloat = "negative" THEN "zero" ELSE two.bloat
      /\ three.selected = two.selected
      /\ three.status = two.status /\ three.error = two.error /\ three.raw = two.raw
      /\ three.outcome = two.outcome /\ three.detail = two.detail
  <2>1. CASE v < 3
    <3>1. three = Updated(3, two)
      BY <2>1 DEF At3
    <3> QED
      BY <1>1, <2>1, <3>1, Update3
  <2>2. CASE ~(v < 3)
    BY <2>2 DEF At3, At2, Versions
  <2> QED
    BY <2>1, <2>2
<1> DEFINE gone == v < 4 /\ Unavailable(three)
<1>4. /\ four.status = IF gone THEN "completed" ELSE three.status
      /\ four.outcome = IF gone THEN "unavailable"
                        ELSE IF v < 4 /\ three.status = "completed" /\ three.outcome = "null"
                        THEN "measured" ELSE three.outcome
      /\ four.detail = IF gone THEN three.error ELSE three.detail
      /\ four.error = IF gone THEN "null" ELSE three.error
      /\ four.selected = three.selected /\ four.raw = three.raw /\ four.bloat = three.bloat
  <2>1. CASE v < 4
    <3> DEFINE half == Updated(4, three)
    <3>1. four = Updated(5, half)
      BY <2>1 DEF At4
    <3>2. /\ half \in Rows
          /\ half.outcome = IF three.status = "completed" /\ three.outcome = "null"
                            THEN "measured" ELSE three.outcome
          /\ half.status = three.status /\ half.error = three.error
          /\ half.raw = three.raw /\ half.detail = three.detail
          /\ half.selected = three.selected /\ half.bloat = three.bloat
      BY <1>1, Update4
    <3>3. Unavailable(half) = Unavailable(three)
      BY <3>2 DEF Unavailable
    <3> HIDE DEF half, three, four
    <3>4. /\ four.status = IF Unavailable(half) THEN "completed" ELSE half.status
          /\ four.outcome = IF Unavailable(half) THEN "unavailable" ELSE half.outcome
          /\ four.detail = IF Unavailable(half) THEN half.error ELSE half.detail
          /\ four.error = IF Unavailable(half) THEN "null" ELSE half.error
          /\ four.selected = half.selected /\ four.raw = half.raw
          /\ four.bloat = half.bloat
      BY <3>1, <3>2, Update5
    <3> QED
      BY <2>1, <3>2, <3>3, <3>4
  <2>2. CASE ~(v < 4)
    BY <2>2 DEF At4, At3, Versions
  <2> QED
    BY <2>1, <2>2
<1>5. /\ five \in Rows
      /\ five.status = IF four.status = "running" THEN "failed" ELSE four.status
      /\ five.error = IF four.status = "running" THEN "restarted" ELSE four.error
      /\ five.outcome = four.outcome /\ five.detail = four.detail
      /\ five.selected = four.selected /\ five.raw = four.raw /\ five.bloat = four.bloat
  BY <1>1, Update6
<1> DEFINE new == Settled(row, v)
<1>6. new \in Rows
  BY SettledRow
<1> HIDE DEF two, three, four, five
<1>7. gone = (v < 4 /\ Unavailable(row))
  BY <1>2, <1>3 DEF Unavailable
<1>8. v = 4 => (row.status = "completed" => row.outcome # "null")
  BY DEF Sound
<1>9. five.status = new.status /\ five.error = new.error
  BY <1>2, <1>3, <1>4, <1>5, <1>7, SettledRow DEF Unavailable
<1>10. five.outcome = new.outcome
  BY <1>2, <1>3, <1>4, <1>5, <1>7, <1>8, SettledRow DEF Unavailable, Versions
<1>11. five.detail = new.detail /\ five.selected = new.selected /\ five.raw = new.raw
  BY <1>2, <1>3, <1>4, <1>5, <1>7, SettledRow
<1>12. five.bloat = new.bloat
  BY <1>2, <1>3, <1>4, <1>5, SettledRow
<1>13. five = new
  BY <1>5, <1>6, <1>9, <1>10, <1>11, <1>12, SameRow
<1> QED
  BY <1>13 DEF five, four

\* A row that was served may be found again.
LEMMA SettledIsSound ==
    ASSUME NEW row \in Rows, NEW v \in Versions, Sound(row, v)
    PROVE  Settled(row, v) \in Rows /\ Sound(Settled(row, v), 4)
<1> DEFINE new == Settled(row, v)
<1>1. new \in Rows /\ new.selected = "set"
  BY SettledRow
<1>2. ASSUME new.status = "completed" PROVE new.outcome # "null"
  BY <1>2, SettledRow DEF Sound, Versions, Unavailable
<1> QED
  BY <1>1, <1>2 DEF Sound

(***************************************************************************)
(* The steps.                                                              *)
(***************************************************************************)

LEMMA NewestVersion ==
    ASSUME NEW k \in Versions, applied = 1..k
    PROVE  MaxVersion = k
<1>1. k \in applied /\ \A w \in applied : w <= k
  BY DEF Versions
<1>2. MaxVersion \in applied /\ \A w \in applied : w <= MaxVersion
  BY <1>1 DEF MaxVersion
<1> QED
  BY <1>1, <1>2 DEF Versions

\* The script that comes next is the first that is newer than the version read.
LEMMA FollowingScript ==
    ASSUME NEW s \in 1..4, NEW v \in 0..4
    PROVE  (CHOOSE t \in (s + 1)..Interruption :
               v < t /\ \A u \in (s + 1)..(t - 1) : v >= u)
             = (IF v > s THEN v ELSE s) + 1
<1> DEFINE Fits(t) == v < t /\ \A u \in (s + 1)..(t - 1) : v >= u
           first == (IF v > s THEN v ELSE s) + 1
<1>1. first \in (s + 1)..Interruption /\ Fits(first)
  BY DEF Interruption
<1>2. ASSUME NEW t \in (s + 1)..Interruption, Fits(t) PROVE t = first
  <2>1. CASE t < first
    BY <1>2, <2>1 DEF Interruption
  <2>2. CASE first < t
    <3>1. first \in (s + 1)..(t - 1) /\ v < first
      BY <2>2 DEF Interruption
    <3> QED
      BY <1>2, <3>1
  <2> QED
    BY <2>1, <2>2 DEF Interruption
<1> HIDE DEF Fits, first
<1>3. (CHOOSE t \in (s + 1)..Interruption : Fits(t)) = first
  BY <1>1, <1>2
<1> QED
  BY <1>3 DEF Fits, first

LEMMA NextScriptEffect ==
    ASSUME TypeOK, NextScript, NEW k \in Versions, applied = 1..k
    PROVE  /\ version' = IF script = 1 THEN k ELSE version
           /\ script' = (IF version' > script THEN version' ELSE script) + 1
           /\ script \in 1..4 /\ version' \in 0..4
<1>1. version' = IF script = 1 THEN k ELSE version
  BY NewestVersion DEF NextScript
<1>2. script \in 1..4 /\ version' \in 0..4
  BY <1>1 DEF NextScript, TypeOK, Interruption, Versions
<1> QED
  BY <1>1, <1>2, FollowingScript DEF NextScript

LEMMA AddStep ==
    ASSUME Execute, NEW n, Statement = AddColumn(n)
    PROVE  n \notin columns /\ columns' = columns \union {n} /\ UNCHANGED <<applied, rows>>
  BY DEF Execute, Fails, AddColumn

LEMMA UpdateStep ==
    ASSUME Execute, NEW n, Statement = Update(n)
    PROVE  /\ rows' = [i \in Ids |-> Updated(n, rows[i])]
           /\ UNCHANGED <<applied, columns>>
  BY DEF Execute, Update

LEMMA RecordStep ==
    ASSUME Execute, NEW v, Statement = Record(v)
    PROVE  v \notin applied /\ applied' = applied \union {v} /\ UNCHANGED <<columns, rows>>
  BY DEF Execute, Fails, Record

LEMMA OtherStep ==
    ASSUME Execute, 1 \in applied, Statement \in {Create, RecordOrIgnore(1)}
    PROVE  UNCHANGED <<applied, columns, rows>>
  BY DEF Execute, Create, RecordOrIgnore

\* Every statement is of one of these kinds.
LEMMA Statements ==
    ASSUME TypeOK, next <= Len(Script(script))
    PROVE  \/ Statement \in {Create, RecordOrIgnore(1)}
           \/ \E n \in 1..7 : Statement = AddColumn(n)
           \/ \E n \in 1..6 : Statement = Update(n)
           \/ \E v \in 2..4 : Statement = Record(v)
<1>1. script \in 1..5 /\ next \in 1..Len(Script(script))
  BY Lengths DEF TypeOK
<1>2. CASE script = 1
  <2>0. Len(Script(script)) = 3
    BY <1>2, Script1
  <2>1. next = 1 \/ next = 2 \/ next = 3
    BY <1>1, <2>0
  <2> QED
    BY <1>2, <2>1, Script1 DEF Statement
<1>3. CASE script = 2
  <2>0. Len(Script(script)) = 8
    BY <1>3, Script2
  <2>1. next \in 1..5 \/ next = 6 \/ next = 7 \/ next = 8
    BY <1>1, <2>0
  <2> QED
    BY <1>3, <2>1, Script2 DEF Statement
<1>4. CASE script = 3
  <2>0. Len(Script(script)) = 2
    BY <1>4, Script3
  <2>1. next = 1 \/ next = 2
    BY <1>1, <2>0
  <2> QED
    BY <1>4, <2>1, Script3 DEF Statement
<1>5. CASE script = 4
  <2>0. Len(Script(script)) = 5
    BY <1>5, Script4
  <2>1. next = 1 \/ next = 2 \/ next = 3 \/ next = 4 \/ next = 5
    BY <1>1, <2>0
  <2> QED
    BY <1>5, <2>1, Script4 DEF Statement
<1>6. CASE script = 5
  <2>0. Len(Script(script)) = 1
    BY <1>6, Script5
  <2>1. next = 1
    BY <1>1, <2>0
  <2> QED
    BY <1>6, <2>1, Script5 DEF Statement
<1> QED
  BY <1>1, <1>2, <1>3, <1>4, <1>5, <1>6

LEMMA TypeInit == Init => TypeOK
<1> SUFFICES ASSUME Init PROVE TypeOK
  OBVIOUS
<1>1. PICK v \in Versions : applied = 1..v /\ columns = ColumnsAt(v)
                           /\ rows \in [Ids -> Written(v)]
  BY DEF Init
<1>2. v = 1 \/ v = 2 \/ v = 3 \/ v = 4
  BY DEF Versions
<1>3. columns \subseteq 1..7
  BY <1>1, <1>2, Columns
<1>4. Written(v) \subseteq Rows
  BY DEF Written
<1>5. rows \in [Ids -> Rows]
  BY <1>1, <1>4
<1> QED
  BY <1>1, <1>3, <1>5, CrashAssumption DEF Init, TypeOK, Versions

LEMMA TypeStep ==
    ASSUME TypeOK, NEW k \in Versions, applied = 1..k, [Next]_vars
    PROVE  TypeOK'
<1> USE DEF TypeOK
<1>1. CASE Boot
  BY <1>1 DEF Boot
<1>2. CASE Execute
  <2>1. next \in 1..8 /\ next' = next + 1
    <3>1. PICK length \in 1..8 : Len(Script(script)) = length
      BY Lengths
    <3>2. next <= length /\ next' = next + 1
      BY <1>2, <3>1 DEF Execute
    <3> QED
      BY <3>1, <3>2
  <2> DEFINE Typed ==
        rows' \in [Ids -> Rows] /\ columns' \subseteq 1..7 /\ applied' \subseteq Versions
  <2>2. Typed
    <3>1. CASE Statement \in {Create, RecordOrIgnore(1)}
      <4>1. 1 \in applied
        BY DEF Versions
      <4>2. UNCHANGED <<applied, columns, rows>>
        BY <1>2, <3>1, <4>1, OtherStep
      <4> QED
        BY <4>2
    <3>2. ASSUME NEW n \in 1..7, Statement = AddColumn(n) PROVE Typed
      <4>1. columns' = columns \union {n} /\ UNCHANGED <<applied, rows>>
        BY <1>2, <3>2, AddStep
      <4> QED
        BY <4>1
    <3>3. ASSUME NEW n \in 1..6, Statement = Update(n) PROVE Typed
      <4>1. /\ rows' = [i \in Ids |-> Updated(n, rows[i])]
            /\ UNCHANGED <<applied, columns>>
        BY <1>2, <3>3, UpdateStep
      <4>2. \A i \in Ids : Updated(n, rows[i]) \in Rows
        BY UpdatedType
      <4> QED
        BY <4>1, <4>2
    <3>4. ASSUME NEW v \in 2..4, Statement = Record(v) PROVE Typed
      <4>1. applied' = applied \union {v} /\ UNCHANGED <<columns, rows>>
        BY <1>2, <3>4, RecordStep
      <4> QED
        BY <4>1 DEF Versions
    <3>5. next <= Len(Script(script))
      BY <1>2 DEF Execute
    <3> QED
      BY <3>1, <3>2, <3>3, <3>4, <3>5, Statements
  <2> QED
    BY <1>2, <2>1, <2>2 DEF Execute
<1>3. CASE ExecuteFails
  BY <1>3 DEF ExecuteFails
<1>4. CASE NextScript
  <2>1. script' \in 1..5 /\ version' \in 0..4
    BY <1>4, NextScriptEffect
  <2> QED
    BY <1>4, <2>1 DEF NextScript
<1>5. CASE Serve
  BY <1>5 DEF Serve
<1>6. CASE Die
  BY <1>6, CrashAssumption DEF Die
<1>7. CASE Stop
  <2>1. rows' \in [Ids -> Rows]
    BY <1>7 DEF Stop, Rows
  <2> QED
    BY <1>7, <2>1 DEF Stop
<1>8. CASE UNCHANGED vars
  BY <1>8 DEF vars
<1> QED
  BY <1>1, <1>2, <1>3, <1>4, <1>5, <1>6, <1>7, <1>8 DEF Next

LEMMA InvInit == Init => IInv
<1> SUFFICES ASSUME Init PROVE IInv
  OBVIOUS
<1>1. TypeOK
  BY TypeInit
<1>2. PICK v \in Versions : /\ applied = 1..v /\ columns = ColumnsAt(v)
                           /\ rows \in [Ids -> Written(v)]
                           /\ found = [rows |-> rows, version |-> v]
  BY DEF Init
<1>3. v = 1 \/ v = 2 \/ v = 3 \/ v = 4
  BY DEF Versions
<1>4. \A i \in Ids : Sound(rows[i], v)
  <2> SUFFICES ASSUME NEW i \in Ids PROVE Sound(rows[i], v)
    OBVIOUS
  <2>1. rows[i] \in Written(v)
    BY <1>2
  <2>2. /\ rows[i].outcome \in IF v = 4 /\ rows[i].status = "completed"
                               THEN {"measured", "unavailable"} ELSE {"null"}
        /\ rows[i].selected = IF v = 1 THEN "null" ELSE "set"
    BY <2>1 DEF Written
  <2> QED
    BY <1>3, <2>2 DEF Sound
<1>5. FoundInv
  BY <1>1, <1>2, <1>4 DEF FoundInv, TypeOK
<1>6. \A i \in Ids : /\ First(i) = rows[i]
                     /\ v = 2 => Second(i) = rows[i]
                     /\ v = 3 => Third(i) = rows[i]
                     /\ v = 4 => Fourth(i) = rows[i]
  BY <1>2 DEF First, Second, Third, Fourth, At2, At3, At4
<1>7. FileInv(v)
  BY <1>2, <1>3, <1>6, Columns DEF FileInv
<1>8. StepsInv(v)
  BY <1>2, <1>7 DEF Init, StepsInv
<1> QED
  BY <1>1, <1>2, <1>3, <1>5, <1>8 DEF IInv

\* As long as the rows found are the same, so is what they have to become.
LEMMA FoundKept ==
    ASSUME FoundInv, found' = found
    PROVE  /\ FoundInv'
           /\ \A i : /\ First(i)' = First(i) /\ Second(i)' = Second(i)
                     /\ Third(i)' = Third(i) /\ Fourth(i)' = Fourth(i)
  BY DEF FoundInv, First, Second, Third, Fourth

LEMMA FileKept ==
    ASSUME FoundInv, NEW k, FileInv(k), UNCHANGED <<found, rows, columns>>
    PROVE  FileInv(k)'
  BY FoundKept DEF FileInv

\* The types of the rows on their way.
LEMMA WayTypes ==
    ASSUME FoundInv, NEW i \in Ids
    PROVE  /\ found.version \in Versions
           /\ First(i) \in Rows /\ Second(i) \in Rows /\ Third(i) \in Rows
           /\ Fourth(i) \in Rows
           /\ Interrupted(Fourth(i)) = Settled(First(i), found.version)
<1>1. found.rows[i] \in Rows /\ found.version \in Versions
  BY DEF FoundInv
<1>2. Sound(found.rows[i], found.version)
  BY DEF FoundInv
<1> QED
  BY <1>1, <1>2, BroughtType, ScriptsSettle DEF First, Second, Third, Fourth

\* What the invariant says of a script that is being executed.
LEMMA AtStatement ==
    ASSUME TypeOK, NEW k \in 1..4, StepsInv(k), Execute
    PROVE  /\ applied = 1..k /\ FileInv(k) /\ LevelInv(k) /\ ScriptInv
           /\ proc' = "opening" /\ next' = next + 1
           /\ UNCHANGED <<script, version, found>>
           /\ next <= Len(Script(script))
           /\ script = 1 \/ script = 2 \/ script = 3 \/ script = 4 \/ script = 5
<1>1. script \in 1..5
  BY DEF TypeOK
<1> QED
  BY <1>1 DEF StepsInv, Execute

\* LevelInv with the length of the script.
LevelAt(k, n) ==
    /\ next \in 1..(n + 1)
    /\ script \in 2..4 => version < script /\ k = IF next > n THEN script ELSE script - 1
    /\ script = 5 => k = 4

LEMMA LevelOf ==
    \A k \in 1..4, n \in 1..8 : Len(Script(script)) = n => (LevelInv(k) <=> LevelAt(k, n))
  BY DEF LevelInv, LevelAt, Interruption

LEMMA LevelOfNext ==
    \A k \in 1..4, n \in 1..8 : Len(Script(script')) = n => (LevelInv(k)' <=> LevelAt(k, n)')
  BY DEF LevelInv, LevelAt, Interruption

LEMMA Execute1 ==
    ASSUME TypeOK, FoundInv, NEW k \in 1..4, StepsInv(k), Execute, script = 1
    PROVE  StepsInv(k)'
<1>1. /\ applied = 1..k /\ FileInv(k) /\ LevelInv(k)
      /\ proc' = "opening" /\ next' = next + 1 /\ UNCHANGED <<script, version, found>>
      /\ next <= Len(Script(script))
  BY AtStatement
<1>2. Len(Script(script)) = 3 /\ Len(Script(script')) = 3
  BY <1>1, Script1
<1>3. next \in 1..3
  <2>1. LevelAt(k, 3)
    BY <1>1, <1>2, LevelOf
  <2>2. next <= 3
    BY <1>1, <1>2
  <2> QED
    BY <2>1, <2>2 DEF LevelAt
<1>4. Statement \in {Create, RecordOrIgnore(1)}
  <2>1. next = 1 \/ next = 2 \/ next = 3
    BY <1>3
  <2> QED
    BY <2>1, Script1 DEF Statement
<1>5. UNCHANGED <<applied, columns, rows>>
  BY <1>1, <1>4, OtherStep
<1>6. FileInv(k)'
  BY <1>1, <1>5, FileKept
<1>7. LevelInv(k)' /\ ScriptInv'
  BY <1>1, <1>2, <1>3, LevelOfNext DEF LevelAt, ScriptInv, Interruption
<1> QED
  BY <1>1, <1>5, <1>6, <1>7 DEF StepsInv

LEMMA Execute2 ==
    ASSUME TypeOK, FoundInv, NEW k \in 1..4, found.version <= k, StepsInv(k),
           Execute, script = 2
    PROVE  \E l \in k..4 : StepsInv(l)'
<1>1. /\ applied = 1..k /\ FileInv(k) /\ LevelInv(k) /\ ScriptInv
      /\ proc' = "opening" /\ next' = next + 1 /\ UNCHANGED <<script, version, found>>
      /\ next <= Len(Script(script))
  BY AtStatement
<1>2. Len(Script(script)) = 8 /\ Len(Script(script')) = 8
  BY <1>1, Script2
<1>3. next \in 1..8 /\ version < 2 /\ k = 1
  <2>1. LevelAt(k, 8)
    BY <1>1, <1>2, LevelOf
  <2>2. next <= 8
    BY <1>1, <1>2
  <2> QED
    BY <2>1, <2>2 DEF LevelAt
<1>4. found.version = 1
  BY <1>3 DEF FoundInv, Versions
<1>5. \A i : /\ First(i)' = First(i) /\ Second(i)' = Second(i)
            /\ Third(i)' = Third(i) /\ Fourth(i)' = Fourth(i)
  BY <1>1, FoundKept
<1>6. \A i \in Ids : Second(i) = Updated(2, Updated(1, First(i)))
  BY <1>4 DEF Second, First, At2
<1>7. CASE next \in 1..5
  <2>1. Statement = AddColumn(next)
    BY <1>7, Script2 DEF Statement
  <2>2. next \notin columns /\ columns' = columns \union {next} /\ UNCHANGED <<applied, rows>>
    BY <2>1, AddStep
  <2>3. columns = 1..(next - 1) /\ \A i \in Ids : rows[i] = First(i)
    <3>1. CASE next = 1
      BY <1>1, <1>3, <2>2, <3>1 DEF FileInv
    <3>2. CASE next \in 2..5
      BY <1>1, <3>2 DEF ScriptInv
    <3> QED
      BY <1>7, <3>1, <3>2
  <2>4. columns' = 1..next
    BY <1>7, <2>2, <2>3
  <2>5. FileInv(1)'
    BY <1>7, <2>4 DEF FileInv
  <2>6. ScriptInv'
    <3>1. columns' = 1..(IF next' < 6 THEN next' - 1 ELSE 5)
      BY <1>1, <1>7, <2>4
    <3>2. next' < 7 /\ \A i \in Ids : rows'[i] = First(i)'
      BY <1>1, <1>5, <1>7, <2>2, <2>3
    <3> QED
      BY <1>1, <3>1, <3>2 DEF ScriptInv, Interruption
  <2>7. LevelInv(1)'
    BY <1>1, <1>2, <1>3, <1>7, LevelOfNext DEF LevelAt
  <2>8. StepsInv(1)'
    BY <1>1, <1>3, <2>2, <2>5, <2>6, <2>7 DEF StepsInv
  <2> QED
    BY <1>3, <2>8
<1>8. CASE next = 6 \/ next = 7
  <2>1. Statement = Update(next - 5)
    BY <1>8, Script2 DEF Statement
  <2>2. /\ rows' = [i \in Ids |-> Updated(next - 5, rows[i])]
        /\ UNCHANGED <<applied, columns>>
    BY <2>1, UpdateStep
  <2>3. columns = 1..5
    BY <1>1, <1>8 DEF ScriptInv
  <2>4. ASSUME NEW i \in Ids
        PROVE  rows'[i] = IF next' = 7 THEN Updated(1, First(i)') ELSE Second(i)'
    <3>1. CASE next = 6
      <4>1. rows[i] = First(i)
        BY <1>1, <3>1 DEF ScriptInv
      <4> QED
        BY <1>1, <1>5, <2>2, <3>1, <4>1
    <3>2. CASE next = 7
      <4>1. rows[i] = Updated(1, First(i))
        BY <1>1, <3>2 DEF ScriptInv
      <4> QED
        BY <1>1, <1>5, <1>6, <2>2, <3>2, <4>1
    <3> QED
      BY <1>8, <3>1, <3>2
  <2>5. FileInv(1)'
    BY <2>2, <2>3 DEF FileInv
  <2>6. ScriptInv'
    <3>1. columns' = 1..(IF next' < 6 THEN next' - 1 ELSE 5)
      BY <1>1, <1>8, <2>2, <2>3
    <3>2. \A i \in Ids : rows'[i] = CASE next' < 7 -> First(i)'
                                      [] next' = 7 -> Updated(1, First(i)')
                                      [] next' = 8 -> Second(i)'
      BY <1>1, <1>8, <2>4
    <3> QED
      BY <1>1, <3>1, <3>2 DEF ScriptInv, Interruption
  <2>7. LevelInv(1)'
    BY <1>1, <1>2, <1>3, <1>8, LevelOfNext DEF LevelAt
  <2>8. StepsInv(1)'
    BY <1>1, <1>3, <2>2, <2>5, <2>6, <2>7 DEF StepsInv
  <2> QED
    BY <1>3, <2>8
<1>9. CASE next = 8
  <2>1. Statement = Record(2)
    BY <1>9, Script2 DEF Statement
  <2>2. applied' = applied \union {2} /\ UNCHANGED <<columns, rows>>
    BY <2>1, RecordStep
  <2>3. applied' = 1..2
    BY <1>1, <1>3, <2>2
  <2>4. columns = 1..5 /\ \A i \in Ids : rows[i] = Second(i)
    BY <1>1, <1>9 DEF ScriptInv
  <2>5. FileInv(2)'
    BY <1>5, <2>2, <2>4 DEF FileInv
  <2>6. ScriptInv'
    BY <1>1, <1>9 DEF ScriptInv, Interruption
  <2>7. LevelInv(2)'
    BY <1>1, <1>2, <1>3, <1>9, LevelOfNext DEF LevelAt
  <2>8. StepsInv(2)'
    BY <1>1, <2>3, <2>5, <2>6, <2>7 DEF StepsInv
  <2> QED
    BY <1>3, <2>8
<1> QED
  BY <1>3, <1>7, <1>8, <1>9

LEMMA Execute3 ==
    ASSUME TypeOK, FoundInv, NEW k \in 1..4, found.version <= k, StepsInv(k),
           Execute, script = 3
    PROVE  \E l \in k..4 : StepsInv(l)'
<1>1. /\ applied = 1..k /\ FileInv(k) /\ LevelInv(k) /\ ScriptInv
      /\ proc' = "opening" /\ next' = next + 1 /\ UNCHANGED <<script, version, found>>
      /\ next <= Len(Script(script))
  BY AtStatement
<1>2. Len(Script(script)) = 2 /\ Len(Script(script')) = 2
  BY <1>1, Script3
<1>3. next \in 1..2 /\ version < 3 /\ k = 2
  <2>1. LevelAt(k, 2)
    BY <1>1, <1>2, LevelOf
  <2>2. next <= 2
    BY <1>1, <1>2
  <2> QED
    BY <2>1, <2>2 DEF LevelAt
<1>4. found.version \in Versions /\ found.version < 3
  BY <1>3 DEF FoundInv, Versions
<1>5. \A i : /\ First(i)' = First(i) /\ Second(i)' = Second(i)
            /\ Third(i)' = Third(i) /\ Fourth(i)' = Fourth(i)
  BY <1>1, FoundKept
<1>6. \A i \in Ids : Third(i) = Updated(3, Second(i))
  BY <1>4 DEF Third, Second, At3
<1>7. columns = 1..5 /\ \A i \in Ids : rows[i] \in {Second(i), Updated(3, Second(i))}
  BY <1>1, <1>3 DEF FileInv
<1>8. CASE next = 1
  <2>1. Statement = Update(3)
    BY <1>8, Script3 DEF Statement
  <2>2. /\ rows' = [i \in Ids |-> Updated(3, rows[i])]
        /\ UNCHANGED <<applied, columns>>
    BY <2>1, UpdateStep
  <2>3. ASSUME NEW i \in Ids PROVE rows'[i] = Third(i)
    <3>1. Second(i) \in Rows
      BY WayTypes
    <3>2. Updated(3, rows[i]) = Updated(3, Second(i))
      BY <1>7, <3>1, Idempotent
    <3> QED
      BY <1>6, <2>2, <3>2
  <2>4. FileInv(2)'
    BY <1>5, <1>6, <1>7, <2>2, <2>3 DEF FileInv
  <2>5. ScriptInv'
    BY <1>1, <1>5, <2>3 DEF ScriptInv, Interruption
  <2>6. LevelInv(2)'
    BY <1>1, <1>2, <1>3, <1>8, LevelOfNext DEF LevelAt
  <2>7. StepsInv(2)'
    BY <1>1, <1>3, <2>2, <2>4, <2>5, <2>6 DEF StepsInv
  <2> QED
    BY <1>3, <2>7
<1>9. CASE next = 2
  <2>1. Statement = Record(3)
    BY <1>9, Script3 DEF Statement
  <2>2. applied' = applied \union {3} /\ UNCHANGED <<columns, rows>>
    BY <2>1, RecordStep
  <2>3. applied' = 1..3
    BY <1>1, <1>3, <2>2
  <2>4. \A i \in Ids : rows[i] = Third(i)
    BY <1>1, <1>9 DEF ScriptInv
  <2>5. FileInv(3)'
    BY <1>5, <1>7, <2>2, <2>4 DEF FileInv
  <2>6. ScriptInv'
    BY <1>1, <1>9 DEF ScriptInv, Interruption
  <2>7. LevelInv(3)'
    BY <1>1, <1>2, <1>3, <1>9, LevelOfNext DEF LevelAt
  <2>8. StepsInv(3)'
    BY <1>1, <2>3, <2>5, <2>6, <2>7 DEF StepsInv
  <2> QED
    BY <1>3, <2>8
<1> QED
  BY <1>3, <1>8, <1>9

LEMMA Execute4 ==
    ASSUME TypeOK, FoundInv, NEW k \in 1..4, found.version <= k, StepsInv(k),
           Execute, script = 4
    PROVE  \E l \in k..4 : StepsInv(l)'
<1>1. /\ applied = 1..k /\ FileInv(k) /\ LevelInv(k) /\ ScriptInv
      /\ proc' = "opening" /\ next' = next + 1 /\ UNCHANGED <<script, version, found>>
      /\ next <= Len(Script(script))
  BY AtStatement
<1>2. Len(Script(script)) = 5 /\ Len(Script(script')) = 5
  BY <1>1, Script4
<1>3. next \in 1..5 /\ version < 4 /\ k = 3
  <2>1. LevelAt(k, 5)
    BY <1>1, <1>2, LevelOf
  <2>2. next <= 5
    BY <1>1, <1>2
  <2> QED
    BY <2>1, <2>2 DEF LevelAt
<1>4. found.version \in Versions /\ found.version < 4
  BY <1>3 DEF FoundInv, Versions
<1>5. \A i : /\ First(i)' = First(i) /\ Second(i)' = Second(i)
            /\ Third(i)' = Third(i) /\ Fourth(i)' = Fourth(i)
  BY <1>1, FoundKept
<1>6. \A i \in Ids : Fourth(i) = Updated(5, Updated(4, Third(i)))
  BY <1>4 DEF Third, Fourth, At4
<1>7. CASE next = 1 \/ next = 2
  <2>1. Statement = AddColumn(next + 5)
    BY <1>7, Script4 DEF Statement
  <2>2. /\ (next + 5) \notin columns /\ columns' = columns \union {next + 5}
        /\ UNCHANGED <<applied, rows>>
    BY <2>1, AddStep
  <2>3. columns = 1..(next + 4) /\ \A i \in Ids : rows[i] = Third(i)
    <3>1. CASE next = 1
      BY <1>1, <1>3, <2>2, <3>1 DEF FileInv
    <3>2. CASE next = 2
      BY <1>1, <3>2 DEF ScriptInv
    <3> QED
      BY <1>7, <3>1, <3>2
  <2>4. columns' = 1..(next + 5)
    BY <1>7, <2>2, <2>3
  <2>5. FileInv(3)'
    BY <1>7, <2>4 DEF FileInv
  <2>6. ScriptInv'
    <3>1. columns' = 1..(IF next' = 2 THEN 6 ELSE 7)
      BY <1>1, <1>7, <2>4
    <3>2. next' < 4 /\ \A i \in Ids : rows'[i] = Third(i)'
      BY <1>1, <1>5, <1>7, <2>2, <2>3
    <3> QED
      BY <1>1, <3>1, <3>2 DEF ScriptInv, Interruption
  <2>7. LevelInv(3)'
    BY <1>1, <1>2, <1>3, <1>7, LevelOfNext DEF LevelAt
  <2>8. StepsInv(3)'
    BY <1>1, <1>3, <2>2, <2>5, <2>6, <2>7 DEF StepsInv
  <2> QED
    BY <1>3, <2>8
<1>8. CASE next = 3 \/ next = 4
  <2>1. Statement = Update(next + 1)
    BY <1>8, Script4 DEF Statement
  <2>2. /\ rows' = [i \in Ids |-> Updated(next + 1, rows[i])]
        /\ UNCHANGED <<applied, columns>>
    BY <2>1, UpdateStep
  <2>3. columns = 1..7
    BY <1>1, <1>8 DEF ScriptInv
  <2>4. ASSUME NEW i \in Ids
        PROVE  rows'[i] = IF next' = 4 THEN Updated(4, Third(i)') ELSE Fourth(i)'
    <3>1. CASE next = 3
      <4>1. rows[i] = Third(i)
        BY <1>1, <3>1 DEF ScriptInv
      <4> QED
        BY <1>1, <1>5, <2>2, <3>1, <4>1
    <3>2. CASE next = 4
      <4>1. rows[i] = Updated(4, Third(i))
        BY <1>1, <3>2 DEF ScriptInv
      <4> QED
        BY <1>1, <1>5, <1>6, <2>2, <3>2, <4>1
    <3> QED
      BY <1>8, <3>1, <3>2
  <2>5. FileInv(3)'
    BY <2>2, <2>3 DEF FileInv
  <2>6. ScriptInv'
    <3>1. columns' = 1..(IF next' = 2 THEN 6 ELSE 7)
      BY <1>1, <1>8, <2>2, <2>3
    <3>2. \A i \in Ids : rows'[i] = CASE next' < 4 -> Third(i)'
                                      [] next' = 4 -> Updated(4, Third(i)')
                                      [] next' = 5 -> Fourth(i)'
      BY <1>1, <1>8, <2>4
    <3> QED
      BY <1>1, <3>1, <3>2 DEF ScriptInv, Interruption
  <2>7. LevelInv(3)'
    BY <1>1, <1>2, <1>3, <1>8, LevelOfNext DEF LevelAt
  <2>8. StepsInv(3)'
    BY <1>1, <1>3, <2>2, <2>5, <2>6, <2>7 DEF StepsInv
  <2> QED
    BY <1>3, <2>8
<1>9. CASE next = 5
  <2>1. Statement = Record(4)
    BY <1>9, Script4 DEF Statement
  <2>2. applied' = applied \union {4} /\ UNCHANGED <<columns, rows>>
    BY <2>1, RecordStep
  <2>3. applied' = 1..4
    BY <1>1, <1>3, <2>2
  <2>4. columns = 1..7 /\ \A i \in Ids : rows[i] = Fourth(i)
    BY <1>1, <1>9 DEF ScriptInv
  <2>5. FileInv(4)'
    BY <1>5, <2>2, <2>4 DEF FileInv
  <2>6. ScriptInv'
    BY <1>1, <1>9 DEF ScriptInv, Interruption
  <2>7. LevelInv(4)'
    BY <1>1, <1>2, <1>3, <1>9, LevelOfNext DEF LevelAt
  <2>8. StepsInv(4)'
    BY <1>1, <2>3, <2>5, <2>6, <2>7 DEF StepsInv
  <2> QED
    BY <1>3, <2>8
<1> QED
  BY <1>3, <1>7, <1>8, <1>9

LEMMA Execute5 ==
    ASSUME TypeOK, FoundInv, NEW k \in 1..4, StepsInv(k), Execute, script = 5
    PROVE  StepsInv(k)'
<1>1. /\ applied = 1..k /\ FileInv(k) /\ LevelInv(k) /\ ScriptInv
      /\ proc' = "opening" /\ next' = next + 1 /\ UNCHANGED <<script, version, found>>
      /\ next <= Len(Script(script))
  BY AtStatement
<1>2. Len(Script(script)) = 1 /\ Len(Script(script')) = 1
  BY <1>1, Script5
<1>3. next = 1 /\ k = 4
  <2>1. LevelAt(k, 1)
    BY <1>1, <1>2, LevelOf
  <2>2. next <= 1
    BY <1>1, <1>2
  <2> QED
    BY <2>1, <2>2 DEF LevelAt
<1>4. found.version \in Versions
  BY <1>3 DEF FoundInv, Versions
<1>5. \A i : /\ First(i)' = First(i) /\ Second(i)' = Second(i)
            /\ Third(i)' = Third(i) /\ Fourth(i)' = Fourth(i)
  BY <1>1, FoundKept
<1>6. columns = 1..7 /\ \A i \in Ids : rows[i] \in {Fourth(i), Interrupted(Fourth(i))}
  BY <1>1, <1>3 DEF FileInv
<1>7. Statement = Update(6)
  BY <1>3, Script5 DEF Statement
<1>8. /\ rows' = [i \in Ids |-> Updated(6, rows[i])]
      /\ UNCHANGED <<applied, columns>>
  BY <1>7, UpdateStep
<1>9. ASSUME NEW i \in Ids PROVE rows'[i] = Interrupted(Fourth(i))
  <2>1. Fourth(i) \in Rows /\ Interrupted(Fourth(i)) \in Rows
    BY WayTypes, Update6
  <2>2. Updated(6, rows[i]) = Interrupted(Fourth(i))
    BY <1>6, <2>1, Update6, Idempotent
  <2> QED
    BY <1>8, <2>2
<1>10. FileInv(4)'
  BY <1>5, <1>6, <1>8, <1>9 DEF FileInv
<1>11. ScriptInv'
  BY <1>1, <1>3, <1>5, <1>9 DEF ScriptInv, Interruption
<1>12. LevelInv(4)'
  BY <1>1, <1>2, <1>3, LevelOfNext DEF LevelAt
<1> QED
  BY <1>1, <1>3, <1>8, <1>10, <1>11, <1>12 DEF StepsInv

LEMMA NextScriptStep ==
    ASSUME TypeOK, FoundInv, NEW k \in 1..4, StepsInv(k), NextScript
    PROVE  StepsInv(k)'
<1>1. /\ applied = 1..k /\ FileInv(k) /\ LevelInv(k)
      /\ proc' = "opening" /\ next' = 1
      /\ UNCHANGED <<proc, columns, applied, rows, found>>
      /\ next > Len(Script(script))
  BY DEF StepsInv, NextScript
<1>2. /\ version' = IF script = 1 THEN k ELSE version
      /\ script' = (IF version' > script THEN version' ELSE script) + 1
      /\ script \in 1..4 /\ version' \in 0..4
  BY <1>1, NextScriptEffect DEF Versions
<1>3. version' <= k /\ script' = k + 1
  <2>1. CASE script = 1
    BY <1>2, <2>1
  <2>2. CASE script \in 2..4
    <3>1. version < script /\ k = script
      BY <1>1, <2>2 DEF LevelInv
    <3> QED
      BY <1>2, <2>2, <3>1
  <2> QED
    BY <1>2, <2>1, <2>2
<1>4. script' \in 1..5
  BY <1>3
<1>5. PICK n \in 1..8 : Len(Script(script')) = n
  BY <1>4, Lengths
<1>6. LevelAt(k, n)'
  BY <1>1, <1>2, <1>3 DEF LevelAt
<1>7. LevelInv(k)'
  BY <1>5, <1>6, LevelOfNext
<1>8. ScriptInv'
  BY <1>1 DEF ScriptInv
<1>9. FileInv(k)'
  BY <1>1, FileKept
<1> QED
  BY <1>1, <1>7, <1>8, <1>9 DEF StepsInv

LEMMA StopStep ==
    ASSUME TypeOK, TypeOK', FoundInv, NEW k \in 1..4, StepsInv(k), Stop
    PROVE  FoundInv' /\ found'.version = 4 /\ StepsInv(4)'
<1>1. /\ applied = 1..4 /\ columns = 1..7 /\ k = 4
      /\ \A i \in Ids : rows[i] = Interrupted(Fourth(i))
  BY DEF Stop, StepsInv, ServingInv, FileInv
<1>2. /\ proc' = "down" /\ found' = [rows |-> rows', version |-> 4]
      /\ UNCHANGED <<columns, applied>>
  BY DEF Stop
<1>3. ASSUME NEW i \in Ids PROVE Sound(rows'[i], 4)
  <2>1. Sound(rows[i], 4)
    <3>1. First(i) \in Rows /\ found.version \in Versions /\ Sound(First(i), found.version)
      BY WayTypes DEF FoundInv, First
    <3>2. rows[i] = Settled(First(i), found.version)
      BY <1>1, WayTypes
    <3> QED
      BY <3>1, <3>2, SettledIsSound
  <2>2. \/ rows'[i] = rows[i]
        \/ rows'[i].status = "running" /\ rows'[i].selected = "set"
    BY DEF Stop, TypeOK
  <2> QED
    BY <2>1, <2>2 DEF Sound
<1>4. FoundInv'
  BY <1>2, <1>3 DEF FoundInv, TypeOK, Versions
<1>5. \A i \in Ids : Fourth(i)' = rows'[i]
  BY <1>2 DEF Fourth, At4
<1>6. FileInv(4)'
  BY <1>1, <1>2, <1>5 DEF FileInv
<1> QED
  BY <1>1, <1>2, <1>4, <1>6 DEF StepsInv

LEMMA InvStep == IInv /\ [Next]_vars => IInv'
<1> SUFFICES ASSUME IInv, [Next]_vars PROVE IInv'
  OBVIOUS
<1>1. PICK k \in found.version..4 : StepsInv(k)
  BY DEF IInv
<1>2. TypeOK /\ FoundInv
  BY DEF IInv
<1>3. found.version \in 1..4 /\ k \in 1..4 /\ found.version <= k
  BY <1>1, <1>2 DEF FoundInv, Versions
<1>4. applied = 1..k
  BY <1>1 DEF StepsInv
<1>5. TypeOK'
  BY <1>2, <1>3, <1>4, TypeStep DEF Versions
<1>6. ASSUME found' = found, NEW l \in k..4, StepsInv(l)' PROVE IInv'
  BY <1>2, <1>3, <1>5, <1>6, FoundKept DEF IInv
<1>7. k \in k..4
  BY <1>3
<1>8. CASE Execute
  <2>1. found' = found
    BY <1>8 DEF Execute
  <2>2. \E l \in k..4 : StepsInv(l)'
    <3>1. script = 1 \/ script = 2 \/ script = 3 \/ script = 4 \/ script = 5
      BY <1>2 DEF TypeOK
    <3>2. CASE script = 1 \/ script = 5
      BY <1>1, <1>2, <1>3, <1>7, <1>8, <3>2, Execute1, Execute5
    <3>3. CASE script = 2
      BY <1>1, <1>2, <1>3, <1>8, <3>3, Execute2
    <3>4. CASE script = 3
      BY <1>1, <1>2, <1>3, <1>8, <3>4, Execute3
    <3>5. CASE script = 4
      BY <1>1, <1>2, <1>3, <1>8, <3>5, Execute4
    <3> QED
      BY <3>1, <3>2, <3>3, <3>4, <3>5
  <2> QED
    BY <1>6, <2>1, <2>2
<1>9. CASE NextScript
  BY <1>1, <1>2, <1>3, <1>6, <1>7, <1>9, NextScriptStep DEF NextScript
<1>10. CASE Boot
  <2>1. /\ proc' = "opening" /\ script' = 1 /\ next' = 1
        /\ UNCHANGED <<columns, applied, rows, found>>
    BY <1>10 DEF Boot
  <2>2. FileInv(k)'
    BY <1>1, <1>2, <2>1, FileKept DEF StepsInv
  <2>3. LevelAt(k, 3)'
    BY <2>1 DEF LevelAt
  <2>4. LevelInv(k)'
    BY <1>3, <2>1, <2>3, Script1, LevelOfNext
  <2>5. ScriptInv'
    BY <2>1 DEF ScriptInv
  <2>6. StepsInv(k)'
    BY <1>4, <2>1, <2>2, <2>4, <2>5 DEF StepsInv
  <2> QED
    BY <1>6, <1>7, <2>1, <2>6
<1>11. CASE Serve
  <2>1. /\ proc' = "serving" /\ proc = "opening" /\ script = 5 /\ next > Len(Script(5))
        /\ UNCHANGED <<columns, applied, rows, found>>
    BY <1>11 DEF Serve, Interruption
  <2>2. LevelInv(k) /\ ScriptInv
    BY <1>1, <2>1 DEF StepsInv
  <2>3. LevelAt(k, 1)
    BY <1>3, <2>1, <2>2, Script5, LevelOf
  <2>4. next = 2 /\ k = 4
    BY <2>1, <2>3, Script5 DEF LevelAt
  <2>5. \A i \in Ids : rows[i] = Interrupted(Fourth(i))
    BY <2>1, <2>2, <2>4 DEF ScriptInv, Interruption
  <2>6. ServingInv(k)'
    BY <1>2, <2>1, <2>4, <2>5, FoundKept DEF ServingInv
  <2>7. FileInv(k)'
    BY <1>1, <1>2, <2>1, FileKept DEF StepsInv
  <2>8. StepsInv(k)'
    BY <1>4, <2>1, <2>6, <2>7 DEF StepsInv
  <2> QED
    BY <1>6, <1>7, <2>1, <2>8
<1>12. CASE ExecuteFails \/ Die
  <2>1. proc' = "down" /\ UNCHANGED <<columns, applied, rows, found>>
    BY <1>12 DEF ExecuteFails, Die
  <2>2. FileInv(k)'
    BY <1>1, <1>2, <2>1, FileKept DEF StepsInv
  <2>3. StepsInv(k)'
    BY <1>4, <2>1, <2>2 DEF StepsInv
  <2> QED
    BY <1>6, <1>7, <2>1, <2>3
<1>13. CASE Stop
  <2>1. FoundInv' /\ found'.version = 4 /\ StepsInv(4)'
    BY <1>1, <1>2, <1>3, <1>5, <1>13, StopStep
  <2>2. 4 \in found'.version..4
    BY <2>1
  <2> QED
    BY <1>5, <2>1, <2>2 DEF IInv
<1>14. CASE UNCHANGED vars
  <2>1. UNCHANGED <<proc, script, next, version, columns, applied, rows, found>>
    BY <1>14 DEF vars
  <2>2. FileInv(k)'
    BY <1>1, <1>2, <2>1, FileKept DEF StepsInv
  <2>3. LevelInv(k)' = LevelInv(k)
    BY <2>1 DEF LevelInv
  <2>4. ScriptInv' = ScriptInv /\ ServingInv(k)' = ServingInv(k)
    BY <1>2, <2>1, FoundKept DEF ScriptInv, ServingInv
  <2>5. StepsInv(k)'
    BY <1>1, <2>1, <2>2, <2>3, <2>4 DEF StepsInv
  <2> QED
    BY <1>6, <1>7, <2>1, <2>5
<1> QED
  BY <1>8, <1>9, <1>10, <1>11, <1>12, <1>13, <1>14 DEF Next

\* The database is opened in order, whatever files and deaths it meets: the process never
\* executes a statement that does not exist, nor skips over a script (Database::open).
THEOREM TypeCorrect == Spec => []TypeOK
<1>1. IInv => TypeOK
  BY DEF IInv
<1> QED
  BY <1>1, InvInit, InvStep, PTL DEF Spec

\* What is served is of the current schema, and every row is what the one that was found
\* had to become: no death makes an update be lost, or tell the second time it is made
\* (Database::open, migrations 001 to 004, mark_interrupted).
THEOREM SettledRowsServed == Spec => []ServesSettledRows
<1>1. IInv => ServesSettledRows
  <2> SUFFICES ASSUME IInv, proc = "serving"
               PROVE  /\ applied = Versions /\ columns = ColumnsAt(4)
                      /\ rows = [i \in Ids |-> Settled(found.rows[i], found.version)]
    BY DEF ServesSettledRows
  <2>1. applied = 1..4 /\ columns = 1..7 /\ \A i \in Ids : rows[i] = Interrupted(Fourth(i))
    BY DEF IInv, StepsInv, ServingInv, FileInv
  <2>2. rows \in [Ids -> Rows] /\ FoundInv
    BY DEF IInv, TypeOK
  <2>3. \A i \in Ids : rows[i] = Settled(found.rows[i], found.version)
    BY <2>1, <2>2, WayTypes DEF First
  <2>4. rows = [i \in Ids |-> rows[i]]
    BY <2>2
  <2> QED
    BY <2>1, <2>3, <2>4, Columns DEF Versions
<1> QED
  BY <1>1, InvInit, InvStep, PTL DEF Spec
=============================================================================
