-------------------------------- MODULE Feed --------------------------------
(* What a caller of the page functions of backtest_data.go may rely on: one *)
(* reader takes what a task wrote, in order and once, until the task has    *)
(* ended and it has everything, or until it is told that it gets no more.   *)
EXTENDS Naturals

VARIABLES rows, records,        \* how much the task has written
          closed,               \* the task has ended
          gotRows, gotRecords,  \* how much the reader has taken, from the beginning
          reader                \* "reading", "complete", "truncated" or "stopped"

written == <<rows, records, closed>>
taken == <<gotRows, gotRecords>>
feed == <<written, taken, reader>>

Init ==
    /\ rows = 0 /\ records = 0 /\ closed = FALSE
    /\ gotRows = 0 /\ gotRecords = 0 /\ reader = "reading"

Write ==
    /\ ~ closed
    /\ \/ rows' = rows + 1 /\ records' = records
       \/ rows' = rows /\ records' = records + 1
    /\ UNCHANGED <<closed, taken, reader>>

Close == ~ closed /\ closed' = TRUE /\ UNCHANGED <<rows, records, taken, reader>>

\* The next rows and records; the last ones before the display limit say so.
Take ==
    /\ reader = "reading" /\ reader' \in {"reading", "truncated"}
    /\ gotRows' \in gotRows .. rows /\ gotRecords' \in gotRecords .. records
    /\ UNCHANGED written

Finish ==
    /\ reader = "reading" /\ reader' = "complete"
    /\ closed /\ gotRows = rows /\ gotRecords = records
    /\ UNCHANGED <<written, taken>>

Stop == reader = "reading" /\ reader' = "stopped" /\ UNCHANGED <<written, taken>>

Next == Write \/ Close \/ Take \/ Finish \/ Stop

Spec == Init /\ [][Next]_feed
=============================================================================
