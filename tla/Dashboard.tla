----------------------------- MODULE Dashboard -----------------------------
(***************************************************************************)
(* One page of the dashboard (app.js) over the run coordinator: how the    *)
(* page learns that a run ended, and what it then shows.                   *)
(*                                                                         *)
(* The page polls GET /api/current on a timer, whether the last poll was   *)
(* answered or not; the server answers with status(), which reads busy and *)
(* active one after the other, while runs begin and end, and the answers   *)
(* overtake one another.  The page remembers that it saw a run (started).  *)
(* An answer without a running test makes it forget that run and load the  *)
(* history and the cards again.  The history is loaded at no other time    *)
(* but when the page is opened and when the user picks a range; the cards  *)
(* also on a timer.  Requests fail, and the server dies and comes back.    *)
(*                                                                         *)
(* An id stands for its started_at: ids are drawn in their order.  Of the  *)
(* history the model keeps the runs that a request brings with a verdict,  *)
(* and which of the runs that were seen are still owed; of a card, the run *)
(* whose figure it shows.  Runs get old: they leave the range of the       *)
(* history (past), and what the cards are made of (old).                   *)
(***************************************************************************)
EXTENDS Coordinator, FiniteSetsExt

CONSTANTS
    Measured,           \* per run: the metrics its report carries
    MaxPolls,           \* bound: polls that are under way at a time
    Leaving,            \* bound: runs that the range of the history leaves behind
    Aging               \* bound: runs that get older than the cards look back

Metrics == UNION {Measured[r] : r \in Runs}

\* Ids are numbered in the order they are drawn in; a Uuid has 128 bits.
ASSUME PageAssumption == Runs \subseteq Nat /\ IsFiniteSet(Runs)
ASSUME PollsAssumption == MaxPolls \in Nat \ {0}

VARIABLES
    started,            \* state.started: the run the page saw last
    reading,            \* polls whose answer says running, before the second read
    answers,            \* per run, and none: answers under way that tell of it
    loading,            \* the request of loadHistory
    historyError,       \* #history-error is visible
    cards,              \* per metric: the run whose figure the card shows
    old,                \* runs summary() does not read: 30 days, 10000 rows, retention
    past,               \* runs beyond the picked range or the rows that are shown
    owed                \* history: runs seen, of which no verdict has been shown yet

shown == <<loading, historyError, cards>>
windows == <<old, past>>
pollVars == <<reading, answers>>
pageVars == <<started, pollVars, shown, windows, owed>>
dashVars == <<vars, pageVars>>

Closed == [at |-> "closed", runs |-> {}]
Loaded == [at |-> "loaded", runs |-> {}]

Cards == [Metrics -> Runs \union {NoRun}]

PageTypeOK ==
    /\ started \in Runs \union {NoRun}
    /\ reading \in Nat
    /\ answers \in [Runs \union {NoRun} -> Nat]
    /\ loading \in [at : {"closed", "loaded", "loading"}, runs : SUBSET Runs]
    /\ \A r \in loading.runs : rows[r] \in Terminal
    /\ historyError \in BOOLEAN
    /\ cards \in Cards
    /\ old \subseteq past /\ past \subseteq Runs
    /\ owed \subseteq Runs

DashInit ==
    /\ Init
    /\ started = NoRun
    /\ reading = 0
    /\ answers = [r \in Runs \union {NoRun} |-> 0]
    /\ loading = Closed
    /\ historyError = FALSE
    /\ cards = [m \in Metrics |-> NoRun]
    /\ old = {} /\ past = {}
    /\ owed = {}

Open == loading # Closed

(***************************************************************************)
(* What the server answers.                                                *)
(***************************************************************************)

Newest(S) == IF S = {} THEN NoRun ELSE Max(S)

\* Mutant of Summary: every card shows the newest completed run that has any.
SummaryOfOne ==
    [m \in Metrics |->
        Newest({r \in Runs \ old : rows[r] = "completed" /\ Measured[r] # {}})]

\* Database::summary: every figure comes from the newest completed run that has
\* it, as a run need not have selected every test; of the last 30 days.
Summary ==
    [m \in Metrics |->
        Newest({r \in Runs \ old : rows[r] = "completed" /\ m \in Measured[r]})]

\* Mutant of History: a run without a verdict is shown like any other.
HistoryOfAll(beyond) == {r \in Runs \ beyond : rows[r] # "absent"}

\* Database::results over a range, of which the page tells the decided runs.
History(beyond) == {r \in Runs \ beyond : rows[r] \in Terminal}

(***************************************************************************)
(* The page.                                                               *)
(***************************************************************************)

\* A request of the cards is answered, or fails, which only shows a message.
LoadSummary ==
    \/ proc # "down" /\ cards' = Summary
    \/ UNCHANGED cards

\* A request of the history.  The server reads the table as soon as it is asked:
\* verdicts are final, so that a later reading shows no less.
LoadHistory(beyond) ==
    /\ proc # "down"
    /\ loading' = [at |-> "loading", runs |-> History(beyond)]
    /\ historyError' = FALSE

HistoryIsRefused ==
    /\ historyError' = TRUE
    /\ UNCHANGED loading

\* loadHistory returns silently while it is under way.
AskHistory(beyond) ==
    \/ loading = Loaded /\ (LoadHistory(beyond) \/ HistoryIsRefused)
    \/ loading # Loaded /\ UNCHANGED <<loading, historyError>>

OpenPage ==
    /\ ~Open
    /\ proc # "down"
    /\ LoadHistory(past)
    /\ LoadSummary
    /\ UNCHANGED <<vars, started, pollVars, windows, owed>>

\* Some of the oldest runs; one that goes on is not old.
Window(W, bound) ==
    /\ W \in {{}} \union {{s \in Runs : s <= r /\ rows[s] # "absent"} : r \in bound}
    /\ \A r \in W : rows[r] \in Terminal \/ r \in lost

\* The user picks a range, of 24 hours, 7 days or 30 days.
PickRange ==
    /\ Open
    /\ \E W \in SUBSET Runs :
        /\ Window(W, Leaving)
        /\ past' = old \union W
        /\ owed' = owed \ past'
        /\ AskHistory(old \union W)
    /\ UNCHANGED <<vars, started, pollVars, cards, old>>

\* What the request brought is shown.
HistoryArrives ==
    /\ loading.at = "loading"
    /\ loading' = Loaded
    /\ owed' = owed \ loading.runs
    /\ UNCHANGED <<vars, started, pollVars, historyError, cards, windows>>

\* The catch of loadHistory: what was shown stays, under an error message.
HistoryFails ==
    /\ loading.at = "loading"
    /\ loading' = Loaded
    /\ historyError' = TRUE
    /\ UNCHANGED <<vars, started, pollVars, cards, windows, owed>>

\* setInterval(loadSummary, 30000).  That two answers overtake one another is
\* repaired by the next, and not modelled.
Tick ==
    /\ Open
    /\ proc # "down"
    /\ cards' = Summary
    /\ UNCHANGED <<vars, started, pollVars, loading, historyError, windows, owed>>

More(r) == [answers EXCEPT ![r] = @ + 1]
Less(r) == [answers EXCEPT ![r] = @ - 1]

\* setInterval(loadCurrent, 2000) or the end of runNow, and the first half of
\* status(): nothing waits for the answer of an earlier poll.  The page only uses
\* the active test of an answer that says running.
Poll ==
    /\ Open
    /\ proc # "down"
    /\ reading + FoldFunction(+, 0, answers) < MaxPolls
    /\ IF busy THEN reading' = reading + 1 /\ UNCHANGED answers
               ELSE answers' = More(NoRun) /\ UNCHANGED reading
    /\ UNCHANGED <<vars, started, shown, windows, owed>>

\* The second half of status(), which takes the lock of active.
ReadActive ==
    /\ reading > 0
    /\ reading' = reading - 1
    /\ answers' = More(active.run)
    /\ UNCHANGED <<vars, started, shown, windows, owed>>

SeeRun(r) ==
    /\ r # NoRun
    /\ started' = r
    /\ owed' = (owed \union {r}) \ past
    /\ UNCHANGED shown

\* The runs that the history of this end cannot bring: one that has no verdict, and
\* whatever the request that is under way was too early for.
Unbrought ==
    IF loading = Loaded THEN {r \in Runs : rows[r] = "running"} ELSE Runs \ loading.runs

\* The run that was seen is taken to have ended: forget it, and load cards and
\* history, unless the history is being loaded.
SeeEnd(r) ==
    /\ r = NoRun
    /\ started # NoRun
    /\ started' = NoRun
    /\ LoadSummary
    /\ AskHistory(past)
    /\ owed' = owed \ Unbrought

SeeNothing(r) ==
    /\ r = NoRun
    /\ started = NoRun
    /\ UNCHANGED <<started, shown, owed>>

\* Any answer may be the next to arrive, in whatever order they were sent.
PollArrives ==
    /\ \E r \in Runs \union {NoRun} :
        /\ answers[r] > 0
        /\ answers' = Less(r)
        /\ SeeRun(r) \/ SeeEnd(r) \/ SeeNothing(r)
    /\ UNCHANGED <<vars, reading, windows>>

\* Mutant of PollFails: a page that cannot reach the server forgets the run.
PollFailsForgetting ==
    /\ \E r \in Runs \union {NoRun} : answers[r] > 0 /\ answers' = Less(r)
    /\ started' = NoRun
    /\ UNCHANGED <<vars, reading, shown, windows, owed>>

\* The request of /api/current or of /healthz fails, or /healthz answers that
\* the server is not ready: the page shows "Unavailable".
PollFails ==
    /\ \E r \in Runs \union {NoRun} : answers[r] > 0 /\ answers' = Less(r)
    /\ UNCHANGED <<vars, started, reading, shown, windows, owed>>

\* Time passes: runs leave the range, and some of them the cards as well.
Age ==
    /\ \E W, V \in SUBSET Runs :
        /\ Window(W, Leaving) /\ Window(V, Aging)
        /\ past' = past \union W \union V
        /\ old' = old \union V
    /\ owed' = owed \ past'
    /\ UNCHANGED <<vars, started, pollVars, shown>>

\* A death of the server breaks the requests it has not answered.
Broken ==
    /\ reading' = 0
    /\ UNCHANGED <<started, answers, shown, windows, owed>>

DrawnInOrder == \A r \in inserting' \ inserting : \A s \in Runs : Fresh(s) => r <= s

\* A start that is refused (Conflict) changes nothing but its caller, to whom the page
\* shows a message: it is left to Coordinator by itself.
ServerStep ==
    /\ Next
    /\ DrawnInOrder
    /\ \A c \in Callers : caller'[c].pc # "conflict"
    /\ IF proc' = "down" /\ proc # "down" THEN Broken ELSE UNCHANGED pageVars

PageStep ==
    \/ OpenPage \/ PickRange \/ HistoryArrives \/ HistoryFails \/ Tick \/ Age
    \/ Poll \/ ReadActive \/ PollArrives \/ PollFails

DashNext == ServerStep \/ PageStep

(***************************************************************************)
(* The timers of an open page fire, and every request of the history is    *)
(* answered or fails in the end.  Not every poll fails or is lost, nor     *)
(* every request of the cards: the page reaches the server now and then.   *)
(* Nothing makes a user open it or pick a range, nothing makes an answer   *)
(* overtake another or arrive in order, and the history may fail whenever  *)
(* it is asked.                                                            *)
(***************************************************************************)
PageFairness ==
    /\ WF_pageVars(HistoryArrives)
    /\ SF_pageVars(Tick)
    /\ WF_pageVars(Poll)
    /\ WF_pageVars(ReadActive)
    /\ SF_pageVars(PollArrives)

DashSpec == DashInit /\ [][DashNext]_dashVars /\ Fairness /\ PageFairness

(***************************************************************************)
(* Properties.                                                             *)
(***************************************************************************)

\* A run that the page showed as running is in the end shown with its verdict, or
\* the page says that the history could not be loaded; the page must not take the
\* moment between two reads of status(), a restart of the server or a failed poll
\* for something else.  The code has four exceptions, and no others, in which a run
\* is no longer owed:
\*   it has left the range or the rows that are shown (PickRange, Age);
\*   the page took it to have ended while a history that does not have it was being
\*   loaded, and loadHistory returned silently (Unbrought);
\*   its verdict could not be stored (Unbrought);
\*   the page took it to have ended while it went on, as the answer of an earlier poll
\*   came after the one that told of the run (Unbrought): if the run ends before the
\*   next answer tells of it again, its end is never noticed.
HistoryCatchesUp == \A r \in Runs : []<>(historyError \/ r \notin owed)

\* Whatever fails in between, and though the page sees neither short runs nor what
\* was decided at a restart, the cards of an open page end up showing, for each
\* metric, the newest completed run that measured it among those summary() reads:
\* the last 30 days, at most 10000 runs.  A metric that none of these measured has
\* a dash, even if the database has an older run that measured it.
Shows(m) == {r \in Runs \ old : rows[r] = "completed" /\ m \in Measured[r]}

CardsConverge ==
    \A m \in Metrics :
        <>[](Open => /\ cards[m] \in Shows(m) \union {NoRun}
                    /\ \A r \in Shows(m) : r <= cards[m])
=============================================================================
