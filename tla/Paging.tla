------------------------------- MODULE Paging -------------------------------
(***************************************************************************)
(* A reader of one collection of a backtest: BacktestPositionPage,         *)
(* BacktestTransactionPage, BacktestLogs, BacktestErrors and               *)
(* BacktestResultPage of backtest_data.go, in the loop BACKTEST_API.md     *)
(* prescribes.  The task may still run and write rows between the pages.   *)
(*                                                                         *)
(* A row is its number; what the code tells apart is its date and whether  *)
(* it is bare: a cash row among positions, an empty line of a log.  A page *)
(* is a run of rows: number from + 1 to number to.                         *)
(***************************************************************************)
EXTENDS Integers, Sequences, FiniteSets

CONSTANTS
    Kinds,          \* the collections the reader may choose from
    PageSize,       \* at most so many rows on a page
    Limit,          \* JoinQuant displays no row beyond this one
    MaxInt,         \* the largest value of Go's int
    MaxRows,        \* bound: rows the task writes
    MaxRecords,     \* bound: entries of record() the task writes
    MaxDate,        \* bound: the last trading day
    MaxFailures     \* bound: how often the reader goes on after an error

AllKinds == {"position", "transaction", "log", "error", "curve"}

ASSUME PagingAssumption ==
    /\ Kinds \subseteq AllKinds
    /\ {PageSize, Limit, MaxInt} \subseteq Nat \ {0} /\ PageSize <= MaxInt
    /\ {MaxRows, MaxRecords, MaxDate, MaxFailures} \subseteq Nat

VARIABLES
    kind,       \* which collection is read
    state,      \* of the task
    rows,       \* what the task has written
    records,    \* how many entries its record() has written
    cursor,     \* the reader's cursor
    userOffset, \* the reader's UserRecordOffset
    seen,       \* how often the reader got each row
    pc,         \* where the reader is
    answer,     \* the page on its way to the reader
    failures    \* how many errors it got

task == <<kind, state, rows, records>>
position == <<cursor, userOffset, seen>>
vars == <<kind, state, rows, records, cursor, userOffset, seen, pc, answer, failures>>

-----------------------------------------------------------------------------
Final == {"completed", "failed", "cancelled"}
States == {"running", "unknown"} \cup Final

\* Mutant of Terminal: only a completed task has ended.
TerminalIfCompleted(s) == s = "completed"

\* Mutant of Terminal: a task in a state the client does not know has ended.
TerminalUnlessRunning(s) == s # "running"

Terminal(s) == s \in Final

Dated == kind \in {"position", "transaction"}
Echoes == kind \in {"curve", "log"}             \* the answer repeats the offset

\* Empty lines of the ordinary log are neither counted nor of use.
Counts(i) == kind = "log" => ~ rows[i].bare
Before(n) == Cardinality({i \in 1 .. n : Counts(i)})
Positions(offset) == {n \in 0 .. Len(rows) : Before(n) = offset}

NoPage == [state |-> "none"]

Page(from, to, max, extra) ==
    [state |-> state, from |-> from, to |-> to, echo |-> Before(from), max |-> max, extra |-> extra,
     date |-> IF Dated /\ to > from THEN rows[to].date ELSE 0, chunk |-> TRUE, sound |-> TRUE]

Plus(a, b) == IF a + b > MaxInt THEN a + b - 2 * (MaxInt + 1) ELSE a + b

\* Mutant of Counted: cash rows and empty lines are not counted.
CountedWithoutBare(p) == Cardinality({i \in p.from + 1 .. p.to : ~ rows[i].bare})

\* By how much a page advances the offset.
Counted(p) == Cardinality({i \in p.from + 1 .. p.to : Counts(i)})

NextOffset(p) == Plus(cursor.Offset, Counted(p))

\* Mutant of NextCursor: the date of the last row is forgotten.
NextCursorWithoutDate(p) == [cursor EXCEPT !.Offset = NextOffset(p)]

NextCursor(p) ==
    [Offset |-> NextOffset(p), DateOffset |-> IF Dated /\ p.to > p.from THEN p.date ELSE cursor.DateOffset]

Stuck(p) == p.to > p.from /\ NextOffset(p) <= cursor.Offset

\* Mutant of Rejects: an offset that wraps is not noticed.
RejectsNoOverflow(p) ==
    \/ ~ p.sound
    \/ kind = "curve" /\ ~ p.chunk /\ p.state = "completed"
    \/ Echoes /\ p.chunk /\ p.echo # cursor.Offset
    \/ Dated /\ p.to > p.from /\ p.date < cursor.DateOffset

\* Answers the code returns ErrInvalidResponse for.
Rejects(p) ==
    \/ ~ p.sound
    \/ kind = "curve" /\ ~ p.chunk /\ p.state = "completed"
    \/ Echoes /\ p.chunk /\ p.echo # cursor.Offset
    \/ Dated /\ p.to > p.from /\ p.date < cursor.DateOffset
    \/ Stuck(p)

\* Mutant of Done: the records of record() are not waited for.
DoneWithoutRecords(p) == Terminal(p.state) /\ p.to = p.from /\ ~ p.max

Done(p) == Terminal(p.state) /\ p.to = p.from /\ p.extra = 0 /\ ~ p.max

-----------------------------------------------------------------------------
Ended == {"complete", "truncated", "stopped"}
Rows == [date : 0 .. MaxDate, bare : BOOLEAN]
Pages == [state : States, from : Nat, to : Nat, echo : Nat, max : BOOLEAN, extra : Nat,
          date : 0 .. MaxDate, chunk : BOOLEAN, sound : BOOLEAN]

TypeOK ==
    /\ kind \in Kinds /\ state \in States
    /\ rows \in Seq(Rows) /\ Len(rows) <= MaxRows
    /\ records \in 0 .. MaxRecords
    /\ cursor \in [Offset : 0 .. MaxInt, DateOffset : 0 .. MaxDate]
    /\ userOffset \in Nat
    /\ seen \in [1 .. MaxRows -> Nat]
    /\ pc \in {"idle", "wait"} \cup Ended
    /\ answer \in Pages \cup {NoPage}
    /\ failures \in 0 .. MaxFailures + 1

Init ==
    /\ kind \in Kinds
    /\ state = "running" /\ rows = <<>> /\ records = 0
    /\ cursor = [Offset |-> 0, DateOffset |-> 0] /\ userOffset = 0
    /\ seen = [i \in 1 .. MaxRows |-> 0]
    /\ pc = "idle" /\ answer = NoPage /\ failures = 0

(* The task.                                                                 *)

LastDate == IF rows = <<>> THEN 1 ELSE rows[Len(rows)].date

Write ==
    /\ state \notin Final /\ Len(rows) < MaxRows
    /\ \E d \in IF Dated THEN LastDate .. MaxDate ELSE {0}, b \in BOOLEAN :
          /\ b => kind # "curve"
          /\ rows' = Append(rows, [date |-> d, bare |-> b])
    /\ UNCHANGED <<kind, state, records, position, pc, answer, failures>>

Record ==
    /\ kind = "curve" /\ state \notin Final /\ records < MaxRecords
    /\ records' = records + 1
    /\ UNCHANGED <<kind, state, rows, position, pc, answer, failures>>

Advance ==
    /\ state \notin Final
    /\ state' \in States \ {state}
    /\ UNCHANGED <<kind, rows, records, position, pc, answer, failures>>

(* JoinQuant's answers.                                                      *)

Visible == IF kind # "curve" /\ Len(rows) > Limit THEN Limit ELSE Len(rows)

\* What follows the cursor, as the task is at one moment.  A page may be short or
\* empty, but of a task that has ended there is more as long as there is more.
ServePage ==
    \E from \in Positions(cursor.Offset), max \in BOOLEAN :
    \E to \in from .. Visible, extra \in 0 .. records - userOffset :
        /\ to - from <= PageSize
        /\ max => Visible < Len(rows) /\ to = Visible
        /\ state \in Final /\ to = from /\ ~ max => \A i \in from + 1 .. Len(rows) : ~ Counts(i)
        /\ state \in Final /\ extra = 0 => userOffset = records
        /\ answer' = Page(from, to, max, extra)

\* The result field is 0 or null.
ServeNoChunk ==
    /\ kind = "curve"
    /\ \E from \in Positions(cursor.Offset), extra \in 0 .. records - userOffset :
        /\ state \in {"failed", "cancelled"} => from = Len(rows) /\ (extra = 0 => userOffset = records)
        /\ answer' = [Page(from, from, FALSE, extra) EXCEPT !.chunk = FALSE]

\* Rows from elsewhere, which the answer lets on by its offset or its dates.
ServeElsewhere ==
    \E from \in 0 .. Visible : \E to \in from .. Visible :
        /\ to - from <= PageSize
        /\ \/ Echoes /\ Before(from) # cursor.Offset
           \/ Dated /\ to > from /\ rows[to].date < cursor.DateOffset
        /\ answer' = Page(from, to, FALSE, 0)

\* A field is missing, series differ in length or the last row has no date.
ServeUnsound == answer' = [Page(0, 0, FALSE, 0) EXCEPT !.sound = FALSE]

Serve ==
    /\ pc = "wait" /\ answer = NoPage
    /\ ServePage \/ ServeNoChunk \/ ServeElsewhere \/ ServeUnsound
    /\ UNCHANGED <<task, position, pc, failures>>

(* The reader and the calls it makes.                                        *)

\* detailPageQuery: an offset without a date is refused before anything is sent.
Usable == Dated /\ cursor.Offset > 0 => cursor.DateOffset > 0

Ask ==
    /\ pc = "idle"
    /\ pc' = IF Usable THEN "wait" ELSE "stopped"
    /\ UNCHANGED <<task, position, answer, failures>>

\* On an error other than ErrTruncated the reader may ask again from where it is.
Fail ==
    /\ failures' = failures + 1
    /\ pc' \in {"stopped"} \cup (IF failures < MaxFailures THEN {"idle"} ELSE {})
    /\ UNCHANGED position

Lose ==
    /\ pc = "wait"
    /\ answer' = NoPage
    /\ Fail
    /\ UNCHANGED task

Accept(p) ==
    /\ cursor' = NextCursor(p)
    /\ userOffset' = userOffset + p.extra
    /\ seen' = [i \in DOMAIN seen |->
                  IF i \in p.from + 1 .. p.to /\ Counts(i) THEN seen[i] + 1 ELSE seen[i]]
    /\ pc' = IF p.max THEN "truncated" ELSE IF Done(p) THEN "complete" ELSE "idle"
    /\ UNCHANGED failures

Receive ==
    /\ pc = "wait" /\ answer # NoPage
    /\ IF Rejects(answer) THEN Fail ELSE Accept(answer)
    /\ answer' = NoPage
    /\ UNCHANGED task

Next == Write \/ Record \/ Advance \/ Serve \/ Ask \/ Lose \/ Receive

Spec == Init /\ [][Next]_vars

\* A reader that goes on asking, and a JoinQuant that goes on answering.
FairSpec == Spec /\ WF_vars(Ask) /\ WF_vars(Serve) /\ WF_vars(Receive)

-----------------------------------------------------------------------------
(* Properties.                                                               *)

\* Whatever was lost, rejected or written meanwhile, the reader has the rows up to
\* its cursor once and no other: nothing repeated, nothing skipped.
NoGapNoRepeat ==
    \E n \in Positions(cursor.Offset) :
        \A i \in 1 .. MaxRows : seen[i] = IF i <= n /\ Counts(i) THEN 1 ELSE 0

\* A reader that saw Done has the whole collection of a task that has ended: it
\* never takes a running, unknown or truncated history as complete.
Complete ==
    pc = "complete" =>
        /\ state \in Final /\ userOffset = records
        /\ \A i \in 1 .. Len(rows) : Counts(i) => seen[i] = 1

\* A reader that passes on NextCursor is never refused for its cursor.
CursorAccepted == pc = "stopped" => failures > 0

Reader == INSTANCE Feed WITH
    rows <- Before(Len(rows)), records <- records, closed <- state \in Final,
    gotRows <- cursor.Offset, gotRecords <- userOffset,
    reader <- IF pc \in Ended THEN pc ELSE "reading"

\* Reading implements Feed: the cursor never goes back nor past what was written,
\* nothing moves it after the end, and what is taken once is not given up.
ReadsFeed == Reader!Spec

\* The steps that the reading of a task that has ended takes at most: each row,
\* record and error costs a request, its answer and a look at it.  An answer from
\* before the end may be empty without being the last.
StepsLeft ==
    3 * ((Len(rows) - cursor.Offset) + (records - userOffset) + (MaxFailures + 1 - failures))
      + (CASE pc = "idle" -> 3
           [] pc = "wait" -> IF answer = NoPage THEN 2 ELSE IF answer.state \in Final THEN 1 ELSE 4
           [] pc \in Ended -> 0)

\* Once the task has ended, every step brings the reader nearer to its end: no
\* page, however empty, foreign or late, makes it ask for the same rows for ever.
ReadingAdvances == [][(state \in Final) => StepsLeft' \in Nat /\ StepsLeft' < StepsLeft]_vars

\* Once the task has ended, reading ends.
ReadingEnds == state \in Final ~> pc \in Ended
=============================================================================
