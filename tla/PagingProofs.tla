---------------------------- MODULE PagingProofs ----------------------------
(* Proofs about Paging for collections, pages and display limits of any size. *)
EXTENDS Paging, FiniteSetTheorems, TLAPS

USE PagingAssumption DEF Final, AllKinds, Dated, Echoes

(* Counting rows.                                                            *)

LEMMA CountsFinite ==
    ASSUME NEW m \in Nat, NEW n \in Nat
    PROVE  /\ IsFiniteSet({i \in m .. n : Counts(i)})
           /\ Cardinality({i \in m .. n : Counts(i)}) \in Nat
           /\ Cardinality({i \in m .. n : Counts(i)}) <= IF m > n THEN 0 ELSE n - m + 1
<1> DEFINE S == {i \in m .. n : Counts(i)}
<1>1. IsFiniteSet(m .. n) /\ Cardinality(m .. n) = IF m > n THEN 0 ELSE n - m + 1
  <2>1. m \in Int /\ n \in Int
    OBVIOUS
  <2> QED
    BY <2>1, FS_Interval
<1>2. S \in SUBSET (m .. n)
  OBVIOUS
<1>3. IsFiniteSet(S) /\ Cardinality(S) <= Cardinality(m .. n)
  BY <1>1, <1>2, FS_Subset
<1>4. Cardinality(S) \in Nat
  BY <1>3, FS_CardinalityType
<1> QED
  BY <1>1, <1>3, <1>4

LEMMA BeforeType == ASSUME NEW n \in Nat PROVE Before(n) \in Nat
BY CountsFinite DEF Before

LEMMA BeforeBound == ASSUME NEW n \in Nat PROVE Before(n) <= n
<1> DEFINE k == Cardinality({i \in 1 .. n : Counts(i)})
<1>1. 1 \in Nat
  OBVIOUS
<1>2. k \in Nat /\ k <= IF 1 > n THEN 0 ELSE n - 1 + 1
  BY <1>1, CountsFinite
<1>3. Before(n) = k
  BY DEF Before
<1> HIDE DEF k
<1> QED
  BY <1>2, <1>3

LEMMA BeforeSplit ==
    ASSUME NEW m \in Nat, NEW n \in Nat, m <= n
    PROVE  Before(n) = Before(m) + Cardinality({i \in m + 1 .. n : Counts(i)})
<1> DEFINE A == {i \in 1 .. m : Counts(i)}
           B == {i \in m + 1 .. n : Counts(i)}
<1>1. IsFiniteSet(A) /\ IsFiniteSet(B) /\ Cardinality(A) \in Nat /\ Cardinality(B) \in Nat
  BY CountsFinite
<1>2. {i \in 1 .. n : Counts(i)} = A \cup B
  OBVIOUS
<1>3. A \cap B = {}
  OBVIOUS
<1>4. Cardinality(A \cup B) = Cardinality(A) + Cardinality(B) - Cardinality(A \cap B)
  BY <1>1, FS_Union
<1>5. Cardinality(A \cap B) = 0
  BY <1>3, FS_EmptySet
<1>6. Before(n) = Cardinality(A \cup B) /\ Before(m) = Cardinality(A)
  BY <1>2 DEF Before
<1> HIDE DEF A, B
<1>7. Before(n) = Before(m) + Cardinality(B)
  BY <1>1, <1>4, <1>5, <1>6
<1> QED
  BY <1>7 DEF B

\* Between two places with as many counted rows before them, no row counts.
LEMMA SamePlace ==
    ASSUME NEW m \in Nat, NEW n \in Nat, m <= n, Before(m) = Before(n)
    PROVE  \A i \in m + 1 .. n : ~ Counts(i)
<1> DEFINE B == {i \in m + 1 .. n : Counts(i)}
<1>1. Cardinality(B) \in Nat /\ IsFiniteSet(B)
  BY CountsFinite
<1>2. Cardinality(B) = 0
  <2>1. Before(n) = Before(m) + Cardinality(B)
    BY BeforeSplit
  <2>2. Before(n) \in Nat /\ Before(m) \in Nat
    BY BeforeType
  <2> HIDE DEF B
  <2> QED
    BY <1>1, <2>1, <2>2
<1>3. B = {}
  BY <1>1, <1>2, FS_EmptySet
<1> QED
  BY <1>3

\* Rows that are there stay as they are.
LEMMA RowsStay ==
    ASSUME rows \in Seq(Rows), NEW r \in Rows, rows' = Append(rows, r), kind' = kind
    PROVE  /\ Len(rows') = Len(rows) + 1
           /\ \A i \in 1 .. Len(rows) : rows'[i] = rows[i] /\ Counts(i)' = Counts(i)
           /\ \A n \in 0 .. Len(rows) : Before(n)' = Before(n)
<1>1. Len(rows') = Len(rows) + 1 /\ Len(rows) \in Nat
  OBVIOUS
<1>2. \A i \in 1 .. Len(rows) : rows'[i] = rows[i]
  OBVIOUS
<1>3. \A i \in 1 .. Len(rows) : Counts(i)' = Counts(i)
  BY <1>2 DEF Counts
<1>4. ASSUME NEW n \in 0 .. Len(rows) PROVE Before(n)' = Before(n)
  <2>1. {i \in 1 .. n : Counts(i)'} = {i \in 1 .. n : Counts(i)}
    BY <1>1, <1>3
  <2> QED
    BY <2>1 DEF Before
<1> QED
  BY <1>1, <1>2, <1>3, <1>4

-----------------------------------------------------------------------------
(* What an answer on its way says, as long as nothing shows that it is not an  *)
(* answer to the question.                                                   *)

Plausible(p) ==
    /\ p.sound
    /\ ~ (kind = "curve" /\ ~ p.chunk /\ p.state = "completed")
    /\ ~ (Echoes /\ p.chunk /\ p.echo # cursor.Offset)
    /\ ~ (Dated /\ p.to > p.from /\ p.date < cursor.DateOffset)

AnswerInv ==
    answer # NoPage =>
        /\ pc = "wait"
        /\ answer.from <= answer.to /\ answer.to <= Len(rows)
        /\ answer.to - answer.from <= PageSize
        /\ answer.extra <= records - userOffset
        /\ answer.state \in Final => answer.state = state
        /\ Dated /\ answer.to > answer.from => answer.date > 0
        /\ Plausible(answer) =>
              /\ Before(answer.from) = cursor.Offset
              /\ Done(answer) => /\ userOffset = records
                                 /\ \A i \in answer.from + 1 .. Len(rows) : ~ Counts(i)

TaskInv ==
    /\ Dated => \A i \in 1 .. Len(rows) : rows[i].date > 0
    /\ userOffset <= records

\* A reader that has not ended may still fail once more.
Budget == pc \in {"idle", "wait"} => failures <= MaxFailures

IInv ==
    /\ TypeOK /\ TaskInv /\ AnswerInv /\ NoGapNoRepeat /\ Complete
    /\ Usable /\ CursorAccepted /\ Budget

LEMMA InitInv == Init => IInv
<1> SUFFICES ASSUME Init PROVE IInv
  OBVIOUS
<1>1. rows = <<>> /\ Len(rows) = 0 /\ rows \in Seq(Rows)
  BY DEF Init
<1>2. TypeOK
  BY <1>1 DEF Init, TypeOK, States
<1>3. NoGapNoRepeat
  <2>1. {i \in 1 .. 0 : Counts(i)} = {}
    OBVIOUS
  <2>2. Before(0) = 0
    BY <2>1, FS_EmptySet DEF Before
  <2>3. 0 \in Positions(cursor.Offset)
    BY <1>1, <2>2 DEF Positions, Init
  <2> QED
    BY <2>3 DEF NoGapNoRepeat, Init
<1>4. TaskInv /\ AnswerInv /\ Complete /\ Usable /\ CursorAccepted /\ Budget
  BY <1>1 DEF Init, TaskInv, AnswerInv, Complete, Usable, CursorAccepted, Budget
<1> QED
  BY <1>2, <1>3, <1>4 DEF IInv

-----------------------------------------------------------------------------
(* The task's steps.                                                         *)

LEMMA NoPageIsNone == NoPage \notin Pages
BY DEF NoPage, Pages

LEMMA AnswerFields ==
    ASSUME NEW p \in Pages
    PROVE  /\ p.state \in States /\ p.from \in Nat /\ p.to \in Nat /\ p.echo \in Nat
           /\ p.max \in BOOLEAN /\ p.extra \in Nat /\ p.date \in 0 .. MaxDate
           /\ p.chunk \in BOOLEAN /\ p.sound \in BOOLEAN
BY DEF Pages

LEMMA TypeFacts ==
    ASSUME TypeOK
    PROVE  /\ Len(rows) \in Nat /\ DOMAIN rows = 1 .. Len(rows)
           /\ \A i \in 1 .. Len(rows) : rows[i] \in Rows /\ rows[i].date \in 0 .. MaxDate
           /\ cursor.Offset \in 0 .. MaxInt /\ cursor.DateOffset \in 0 .. MaxDate
<1>1. rows \in Seq(Rows)
  BY DEF TypeOK
<1>2. Len(rows) \in Nat /\ DOMAIN rows = 1 .. Len(rows) /\ \A i \in 1 .. Len(rows) : rows[i] \in Rows
  BY <1>1
<1>3. \A r \in Rows : r.date \in 0 .. MaxDate
  BY DEF Rows
<1> QED
  BY <1>2, <1>3 DEF TypeOK

LEMMA WriteStep == IInv /\ Write => IInv'
<1> SUFFICES ASSUME IInv, Write PROVE IInv'
  OBVIOUS
<1>1. TypeOK /\ Len(rows) \in Nat /\ rows \in Seq(Rows) /\ Len(rows) < MaxRows /\ state \notin Final
  BY DEF IInv, TypeOK, Write
<1>2. PICK d \in Nat, b \in BOOLEAN :
        /\ rows' = Append(rows, [date |-> d, bare |-> b])
        /\ d \in 0 .. MaxDate /\ (Dated => d > 0)
  <2>1. Dated => LastDate \in Nat /\ LastDate > 0
    BY <1>1, TypeFacts DEF IInv, TaskInv, LastDate
  <2>2. PICK d \in IF Dated THEN LastDate .. MaxDate ELSE {0}, b \in BOOLEAN :
          rows' = Append(rows, [date |-> d, bare |-> b])
    BY DEF Write
  <2>3. d \in 0 .. MaxDate /\ (Dated => d > 0)
    BY <2>1, <2>2
  <2> QED
    BY <2>2, <2>3
<1>3. [date |-> d, bare |-> b] \in Rows
  BY <1>2 DEF Rows
<1>4. kind' = kind /\ state' = state /\ records' = records /\ cursor' = cursor /\ seen' = seen
      /\ userOffset' = userOffset /\ pc' = pc /\ answer' = answer /\ failures' = failures
  BY DEF Write, position
<1>5. /\ Len(rows') = Len(rows) + 1
      /\ \A i \in 1 .. Len(rows) : rows'[i] = rows[i] /\ Counts(i)' = Counts(i)
      /\ \A n \in 0 .. Len(rows) : Before(n)' = Before(n)
  BY <1>1, <1>2, <1>3, <1>4, RowsStay
<1>6. rows' \in Seq(Rows) /\ rows'[Len(rows) + 1] = [date |-> d, bare |-> b]
  BY <1>1, <1>2, <1>3
<1>7. TypeOK'
  BY <1>1, <1>4, <1>5, <1>6 DEF TypeOK
<1>8. TaskInv'
  <2>1. Dated' => \A i \in 1 .. Len(rows') : rows'[i].date > 0
    BY <1>1, <1>2, <1>4, <1>5, <1>6 DEF IInv, TaskInv
  <2> QED
    BY <1>4, <2>1 DEF IInv, TaskInv
<1>9. AnswerInv'
  <2> SUFFICES ASSUME answer # NoPage PROVE AnswerInv'
    BY <1>4 DEF AnswerInv
  <2>1. answer \in Pages
    BY <1>1 DEF TypeOK
  <2>2. answer.from \in 0 .. Len(rows) /\ answer.to <= Len(rows')
    BY <1>1, <1>5, <2>1, AnswerFields DEF IInv, AnswerInv
  <2>3. Plausible(answer)' = Plausible(answer) /\ ~ Done(answer)'
    <3>1. Plausible(answer)' = Plausible(answer)
      BY <1>4 DEF Plausible
    <3>2. answer.state \notin Final
      BY <1>1 DEF IInv, AnswerInv
    <3> QED
      BY <1>4, <3>1, <3>2 DEF Done, Terminal
  <2>4. Before(answer.from)' = Before(answer.from)
    BY <1>4, <1>5, <2>2
  <2> QED
    BY <1>4, <2>2, <2>3, <2>4 DEF IInv, AnswerInv
<1>10. NoGapNoRepeat'
  <2>1. PICK n \in Positions(cursor.Offset) :
          \A i \in 1 .. MaxRows : seen[i] = IF i <= n /\ Counts(i) THEN 1 ELSE 0
    BY DEF IInv, NoGapNoRepeat
  <2>2. n \in 0 .. Len(rows) /\ Before(n) = cursor.Offset
    BY <2>1 DEF Positions
  <2>3. n \in Positions(cursor.Offset)'
    BY <1>1, <1>4, <1>5, <2>2 DEF Positions
  <2>4. \A i \in 1 .. MaxRows : seen'[i] = IF i <= n /\ Counts(i)' THEN 1 ELSE 0
    BY <1>1, <1>4, <1>5, <2>1, <2>2
  <2> QED
    BY <2>3, <2>4 DEF NoGapNoRepeat
<1>11. Complete' /\ Usable' /\ CursorAccepted' /\ Budget'
  BY <1>1, <1>4 DEF IInv, Complete, Usable, CursorAccepted, Budget
<1> QED
  BY <1>7, <1>8, <1>9, <1>10, <1>11 DEF IInv

LEMMA RecordStep == IInv /\ (Record \/ Advance) => IInv'
<1> SUFFICES ASSUME IInv, Record \/ Advance PROVE IInv'
  OBVIOUS
<1>1. kind' = kind /\ rows' = rows /\ cursor' = cursor /\ seen' = seen
      /\ userOffset' = userOffset /\ pc' = pc /\ answer' = answer /\ failures' = failures
  BY DEF Record, Advance, position
<1>2. state \notin Final /\ state' \in States /\ records' \in 0 .. MaxRecords /\ records' >= records
  BY DEF Record, Advance, IInv, TypeOK
<1>3. TypeOK'
  BY <1>1, <1>2 DEF IInv, TypeOK
<1>4. TaskInv'
  BY <1>1, <1>2 DEF IInv, TypeOK, TaskInv
<1>5. AnswerInv'
  <2> SUFFICES ASSUME answer # NoPage PROVE AnswerInv'
    BY <1>1 DEF AnswerInv
  <2>1. answer \in Pages /\ answer.extra \in Nat
    BY AnswerFields DEF IInv, TypeOK
  <2>2. answer.state \notin Final
    BY <1>2 DEF IInv, AnswerInv
  <2>3. Plausible(answer)' = Plausible(answer) /\ Before(answer.from)' = Before(answer.from)
    BY <1>1 DEF Plausible, Before, Counts
  <2>4. ~ Done(answer)'
    BY <1>1, <2>2 DEF Done, Terminal
  <2>5. answer.extra <= records' - userOffset
    BY <1>2, <2>1 DEF IInv, AnswerInv, TypeOK
  <2> QED
    BY <1>1, <2>2, <2>3, <2>4, <2>5 DEF IInv, AnswerInv
<1>6. NoGapNoRepeat'
  BY <1>1 DEF IInv, NoGapNoRepeat, Positions, Before, Counts
<1>7. Complete' /\ Usable' /\ CursorAccepted' /\ Budget'
  BY <1>1, <1>2 DEF IInv, Complete, Usable, CursorAccepted, Budget
<1> QED
  BY <1>3, <1>4, <1>5, <1>6, <1>7 DEF IInv

-----------------------------------------------------------------------------
(* JoinQuant's answers.                                                      *)

LEMMA PageType ==
    ASSUME TypeOK, NEW from \in Nat, NEW to \in 0 .. Len(rows), NEW max \in BOOLEAN, NEW extra \in Nat
    PROVE  Page(from, to, max, extra) \in Pages
<1> DEFINE e == Before(from)
           d == IF Dated /\ to > from THEN rows[to].date ELSE 0
<1>1. e \in Nat
  BY BeforeType
<1>2. d \in 0 .. MaxDate
  <2>1. Len(rows) \in Nat /\ MaxDate \in Nat /\ \A i \in 1 .. Len(rows) : rows[i].date \in 0 .. MaxDate
    BY TypeFacts
  <2>2. CASE to > from
    BY <2>1, <2>2
  <2> QED
    BY <2>1, <2>2
<1>3. state \in States
  BY DEF TypeOK
<1>4. Page(from, to, max, extra) =
        [state |-> state, from |-> from, to |-> to, echo |-> e, max |-> max, extra |-> extra,
         date |-> d, chunk |-> TRUE, sound |-> TRUE]
  BY DEF Page
<1> HIDE DEF e, d
<1> QED
  BY <1>1, <1>2, <1>3, <1>4 DEF Pages

\* An answer that leaves the reader and the task alone and says what AnswerInv says.
LEMMA Served ==
    ASSUME IInv, NEW p \in Pages, pc = "wait", answer' = p,
           UNCHANGED <<task, position, pc, failures>>,
           p.from <= p.to, p.to <= Len(rows), p.to - p.from <= PageSize,
           p.extra <= records - userOffset, p.state = state,
           Dated /\ p.to > p.from => p.date > 0,
           Plausible(p) => /\ Before(p.from) = cursor.Offset
                           /\ Done(p) => /\ userOffset = records
                                         /\ \A i \in p.from + 1 .. Len(rows) : ~ Counts(i)
    PROVE  IInv'
<1>1. kind' = kind /\ state' = state /\ rows' = rows /\ records' = records /\ cursor' = cursor
      /\ userOffset' = userOffset /\ seen' = seen /\ pc' = pc /\ failures' = failures
  BY DEF task, position
<1>2. TypeOK'
  BY <1>1 DEF IInv, TypeOK
<1>3. TaskInv' /\ Usable' /\ CursorAccepted' /\ Complete' /\ Budget'
  BY <1>1 DEF IInv, TaskInv, Usable, CursorAccepted, Complete, Budget, Counts
<1>4. NoGapNoRepeat'
  BY <1>1 DEF IInv, NoGapNoRepeat, Positions, Before, Counts
<1>5. Plausible(p)' = Plausible(p) /\ Before(p.from)' = Before(p.from) /\ Done(p)' = Done(p)
  BY <1>1 DEF Plausible, Before, Counts, Done
<1>6. AnswerInv'
  BY <1>1, <1>5 DEF AnswerInv, Counts
<1> QED
  BY <1>2, <1>3, <1>4, <1>6 DEF IInv

LEMMA ServeStep == IInv /\ Serve => IInv'
<1> SUFFICES ASSUME IInv, Serve PROVE IInv'
  OBVIOUS
<1>1. TypeOK /\ pc = "wait" /\ UNCHANGED <<task, position, pc, failures>>
      /\ records \in Nat /\ userOffset \in Nat /\ userOffset <= records /\ Len(rows) \in Nat
  BY TypeFacts DEF IInv, TypeOK, TaskInv, Serve
<1>2. Visible \in 0 .. Len(rows)
  BY <1>1 DEF Visible
<1>3. \A to \in 1 .. Len(rows) : Dated => rows[to].date > 0
  BY DEF IInv, TaskInv
<1>4. CASE ServePage
  <2>1. PICK from \in Positions(cursor.Offset), max \in BOOLEAN :
        \E to \in from .. Visible, extra \in 0 .. records - userOffset :
            /\ to - from <= PageSize
            /\ max => Visible < Len(rows) /\ to = Visible
            /\ state \in Final /\ to = from /\ ~ max => \A i \in from + 1 .. Len(rows) : ~ Counts(i)
            /\ state \in Final /\ extra = 0 => userOffset = records
            /\ answer' = Page(from, to, max, extra)
    BY <1>4 DEF ServePage
  <2>2. PICK to \in from .. Visible, extra \in 0 .. records - userOffset :
            /\ to - from <= PageSize
            /\ max => Visible < Len(rows) /\ to = Visible
            /\ state \in Final /\ to = from /\ ~ max => \A i \in from + 1 .. Len(rows) : ~ Counts(i)
            /\ state \in Final /\ extra = 0 => userOffset = records
            /\ answer' = Page(from, to, max, extra)
    BY <2>1
  <2>3. from \in Nat /\ Before(from) = cursor.Offset /\ to \in 0 .. Len(rows) /\ extra \in Nat
    BY <1>1, <1>2, <2>2 DEF Positions
  <2> DEFINE p == Page(from, to, max, extra)
  <2>0. p = Page(from, to, max, extra) /\ answer' = p
    BY <2>2
  <2> HIDE DEF p
  <2>4. /\ p \in Pages /\ p.state = state /\ p.from = from /\ p.to = to /\ p.extra = extra /\ p.max = max
        /\ p.date = IF Dated /\ to > from THEN rows[to].date ELSE 0
    <3>1. p \in Pages
      BY <1>1, <2>0, <2>3, PageType
    <3> QED
      BY <2>0, <3>1 DEF Page
  <2>5. Done(p) => userOffset = records /\ \A i \in from + 1 .. Len(rows) : ~ Counts(i)
    BY <2>2, <2>4 DEF Done, Terminal
  <2>6. Dated /\ p.to > p.from => p.date > 0
    <3>1. to > from => to \in 1 .. Len(rows)
      BY <1>1, <2>3
    <3> QED
      BY <1>3, <2>4, <3>1
  <2>7. /\ p.from <= p.to /\ p.to <= Len(rows) /\ p.to - p.from <= PageSize
        /\ p.extra <= records - userOffset
    BY <1>1, <1>2, <2>2, <2>3, <2>4
  <2>8. Done(p) => userOffset = records /\ \A i \in p.from + 1 .. Len(rows) : ~ Counts(i)
    BY <2>4, <2>5
  <2> QED
    BY <1>1, <2>0, <2>3, <2>4, <2>6, <2>7, <2>8, Served
<1>5. CASE ServeNoChunk
  <2>1. PICK from \in Positions(cursor.Offset), extra \in 0 .. records - userOffset :
            /\ state \in {"failed", "cancelled"} => from = Len(rows) /\ (extra = 0 => userOffset = records)
            /\ answer' = [Page(from, from, FALSE, extra) EXCEPT !.chunk = FALSE]
    BY <1>5 DEF ServeNoChunk
  <2>2. from \in 0 .. Len(rows) /\ Before(from) = cursor.Offset /\ extra \in Nat /\ kind = "curve"
    BY <1>1, <1>5, <2>1 DEF Positions, ServeNoChunk
  <2> DEFINE q == Page(from, from, FALSE, extra)
             p == [q EXCEPT !.chunk = FALSE]
  <2>0. q = Page(from, from, FALSE, extra) /\ p = [q EXCEPT !.chunk = FALSE] /\ answer' = p
    BY <2>1
  <2> HIDE DEF p, q
  <2>3. /\ q \in Pages
        /\ q.state = state /\ q.from = from /\ q.to = from /\ q.extra = extra
    <3>1. from \in Nat /\ FALSE \in BOOLEAN
      BY <2>2
    <3>2. q \in Pages
      BY <1>1, <2>0, <2>2, <3>1, PageType
    <3> QED
      BY <2>0, <3>2 DEF Page
  <2>4. /\ p \in Pages /\ p.state = state /\ p.from = from /\ p.to = from /\ p.extra = extra /\ ~ p.chunk
    BY <2>0, <2>3 DEF Pages
  <2>5. Plausible(p) /\ Done(p) => state \in {"failed", "cancelled"} /\ extra = 0
    BY <2>2, <2>4 DEF Plausible, Done, Terminal
  <2>6. from = Len(rows) => \A i \in from + 1 .. Len(rows) : ~ Counts(i)
    BY <1>1
  <2>7. Plausible(p) => /\ Before(p.from) = cursor.Offset
                        /\ Done(p) => /\ userOffset = records
                                      /\ \A i \in p.from + 1 .. Len(rows) : ~ Counts(i)
    BY <2>1, <2>2, <2>4, <2>5, <2>6
  <2>8. /\ answer' = p /\ p.from <= p.to /\ p.to <= Len(rows) /\ p.to - p.from <= PageSize
        /\ p.extra <= records - userOffset
    <3>1. p.to - p.from = 0 /\ PageSize \in Nat
      BY <2>2, <2>4
    <3>2. extra <= records - userOffset
      BY <1>1
    <3>3. p.from <= p.to /\ p.to <= Len(rows) /\ p.to - p.from <= PageSize
      BY <2>2, <2>4, <3>1
    <3> QED
      BY <2>0, <2>4, <3>2, <3>3
  <2>9. ~ (p.to > p.from)
    BY <2>2, <2>4
  <2> QED
    BY <1>1, <2>4, <2>7, <2>8, <2>9, Served
<1>6. CASE ServeElsewhere
  <2>1. PICK from \in 0 .. Visible : \E to \in from .. Visible :
            /\ to - from <= PageSize
            /\ \/ Echoes /\ Before(from) # cursor.Offset
               \/ Dated /\ to > from /\ rows[to].date < cursor.DateOffset
            /\ answer' = Page(from, to, FALSE, 0)
    BY <1>6 DEF ServeElsewhere
  <2>2. PICK to \in from .. Visible :
            /\ to - from <= PageSize
            /\ \/ Echoes /\ Before(from) # cursor.Offset
               \/ Dated /\ to > from /\ rows[to].date < cursor.DateOffset
            /\ answer' = Page(from, to, FALSE, 0)
    BY <2>1
  <2>3. from \in Nat /\ to \in 0 .. Len(rows)
    BY <1>1, <1>2
  <2> DEFINE p == Page(from, to, FALSE, 0)
  <2>0. p = Page(from, to, FALSE, 0) /\ answer' = p
    BY <2>2
  <2> HIDE DEF p
  <2>4. /\ p \in Pages /\ p.state = state /\ p.from = from /\ p.to = to /\ p.extra = 0 /\ p.chunk
        /\ p.echo = Before(from) /\ p.date = IF Dated /\ to > from THEN rows[to].date ELSE 0
    <3>1. 0 \in Nat /\ FALSE \in BOOLEAN
      OBVIOUS
    <3>2. p \in Pages
      BY <1>1, <2>0, <2>3, <3>1, PageType
    <3> QED
      BY <2>0, <3>2 DEF Page
  <2>5. ~ Plausible(p)
    BY <2>2, <2>4 DEF Plausible
  <2>7. Dated /\ p.to > p.from => p.date > 0
    <3>1. to > from => to \in 1 .. Len(rows)
      BY <1>1, <2>3
    <3> QED
      BY <1>3, <2>4, <3>1
  <2>8. /\ p.from <= p.to /\ p.to <= Len(rows) /\ p.to - p.from <= PageSize
        /\ p.extra <= records - userOffset
    BY <1>1, <1>2, <2>2, <2>3, <2>4
  <2> QED
    BY <1>1, <2>0, <2>4, <2>5, <2>7, <2>8, Served
<1>7. CASE ServeUnsound
  <2> DEFINE q == Page(0, 0, FALSE, 0)
             p == [q EXCEPT !.sound = FALSE]
  <2>0. q = Page(0, 0, FALSE, 0) /\ p = [q EXCEPT !.sound = FALSE] /\ answer' = p
    BY <1>7 DEF ServeUnsound
  <2> HIDE DEF p, q
  <2>1. q \in Pages /\ q.state = state /\ q.from = 0 /\ q.to = 0 /\ q.extra = 0
    <3>1. 0 \in Nat /\ 0 \in 0 .. Len(rows) /\ FALSE \in BOOLEAN
      BY <1>1
    <3>2. q \in Pages
      BY <1>1, <2>0, <3>1, PageType
    <3> QED
      BY <2>0, <3>2 DEF Page
  <2>2. p \in Pages /\ p.state = state /\ p.from = 0 /\ p.to = 0 /\ p.extra = 0 /\ ~ p.sound
    BY <2>0, <2>1 DEF Pages
  <2>3. ~ Plausible(p)
    BY <2>2 DEF Plausible
  <2>4. /\ p.from <= p.to /\ p.to <= Len(rows) /\ p.to - p.from <= PageSize
        /\ p.extra <= records - userOffset /\ ~ (p.to > p.from)
    BY <1>1, <2>2
  <2> QED
    BY <1>1, <2>0, <2>2, <2>3, <2>4, Served
<1> QED
  BY <1>4, <1>5, <1>6, <1>7 DEF Serve

-----------------------------------------------------------------------------
(* The reader's steps.                                                       *)

LEMMA AskStep == IInv /\ Ask => IInv'
<1> SUFFICES ASSUME IInv, Ask PROVE IInv'
  OBVIOUS
<1>1. kind' = kind /\ state' = state /\ rows' = rows /\ records' = records /\ cursor' = cursor
      /\ userOffset' = userOffset /\ seen' = seen /\ answer' = answer /\ failures' = failures
      /\ pc = "idle" /\ pc' = "wait" /\ answer = NoPage
  BY DEF Ask, task, position, IInv, AnswerInv
<1>2. TypeOK' /\ Budget'
  BY <1>1 DEF IInv, TypeOK, Budget
<1>3. TaskInv' /\ Usable' /\ CursorAccepted' /\ Complete' /\ AnswerInv'
  BY <1>1 DEF IInv, TaskInv, Usable, CursorAccepted, Complete, AnswerInv, Counts
<1>4. NoGapNoRepeat'
  BY <1>1 DEF IInv, NoGapNoRepeat, Positions, Before, Counts
<1> QED
  BY <1>2, <1>3, <1>4 DEF IInv

LEMMA FailStep == IInv /\ pc = "wait" /\ Fail /\ answer' = NoPage /\ UNCHANGED task => IInv'
<1> SUFFICES ASSUME IInv, pc = "wait", Fail, answer' = NoPage, UNCHANGED task PROVE IInv'
  OBVIOUS
<1>1. kind' = kind /\ state' = state /\ rows' = rows /\ records' = records /\ cursor' = cursor
      /\ userOffset' = userOffset /\ seen' = seen /\ failures' = failures + 1
      /\ pc' \in {"stopped", "idle"} /\ (pc' = "idle" => failures < MaxFailures)
      /\ failures \in Nat /\ failures <= MaxFailures
  BY DEF Fail, task, position, IInv, TypeOK, Budget
<1>2. TypeOK' /\ Budget'
  BY <1>1 DEF IInv, TypeOK, Budget, Ended
<1>3. TaskInv' /\ Usable' /\ CursorAccepted' /\ Complete' /\ AnswerInv'
  BY <1>1 DEF IInv, TaskInv, Usable, CursorAccepted, Complete, AnswerInv, Counts
<1>4. NoGapNoRepeat'
  BY <1>1 DEF IInv, NoGapNoRepeat, Positions, Before, Counts
<1> QED
  BY <1>2, <1>3, <1>4 DEF IInv

\* What makes the code accept a page: it is plausible and does not wrap the offset.
LEMMA Accepted ==
    ASSUME IInv, answer # NoPage, ~ Rejects(answer)
    PROVE  /\ answer \in Pages /\ Plausible(answer) /\ pc = "wait"
           /\ answer.from <= answer.to /\ answer.to <= Len(rows)
           /\ Before(answer.from) = cursor.Offset
           /\ NextOffset(answer) = Before(answer.to)
           /\ NextOffset(answer) \in 0 .. MaxInt
           /\ answer.to = answer.from => NextOffset(answer) = cursor.Offset
<1>1. answer \in Pages /\ answer.from \in Nat /\ answer.to \in Nat /\ Plausible(answer) /\ ~ Stuck(answer)
  BY AnswerFields DEF IInv, TypeOK, Rejects, Plausible
<1>2. /\ answer.from <= answer.to /\ answer.to <= Len(rows) /\ answer.to - answer.from <= PageSize
      /\ Before(answer.from) = cursor.Offset /\ pc = "wait"
  BY <1>1 DEF IInv, AnswerInv
<1>3. cursor.Offset \in 0 .. MaxInt
  BY TypeFacts DEF IInv
<1> DEFINE a == cursor.Offset
           b == Counted(answer)
<1>4. b \in Nat /\ b <= answer.to - answer.from /\ (answer.to = answer.from => b = 0)
  <2>1. answer.from + 1 \in Nat
    BY <1>1
  <2>2. b \in Nat /\ b <= IF answer.from + 1 > answer.to THEN 0 ELSE answer.to - (answer.from + 1) + 1
    BY <1>1, <2>1, CountsFinite DEF Counted
  <2> QED
    BY <1>1, <1>2, <2>2
<1>5. Before(answer.to) = a + b
  BY <1>1, <1>2, BeforeSplit DEF Counted
<1>6. b <= MaxInt
  BY <1>1, <1>2, <1>4
<1>7. NextOffset(answer) = Plus(a, b) /\ (answer.to > answer.from => Plus(a, b) > a)
  <2>1. NextOffset(answer) = Plus(a, b)
    BY DEF NextOffset
  <2>2. Plus(a, b) \in Int
    BY <1>3, <1>4 DEF Plus
  <2> QED
    BY <1>1, <1>3, <2>1, <2>2 DEF Stuck
<1> HIDE DEF a, b
<1>8. Plus(a, b) = a + b /\ Plus(a, b) \in 0 .. MaxInt
  <2>1. a \in Nat /\ a <= MaxInt /\ MaxInt \in Nat
    BY <1>3 DEF a
  <2>2. CASE a + b > MaxInt
    <3>1. answer.to > answer.from
      BY <1>1, <1>2, <1>4, <2>1, <2>2
    <3>2. Plus(a, b) = a + b - 2 * (MaxInt + 1)
      BY <2>2 DEF Plus
    <3> QED
      BY <1>4, <1>6, <1>7, <2>1, <3>1, <3>2
  <2>3. CASE ~ (a + b > MaxInt)
    BY <1>4, <2>1, <2>3 DEF Plus
  <2> QED
    BY <2>2, <2>3
<1> QED
  BY <1>1, <1>2, <1>3, <1>4, <1>5, <1>7, <1>8 DEF a

LEMMA AcceptStep ==
    ASSUME IInv, answer # NoPage, ~ Rejects(answer), Accept(answer), answer' = NoPage, UNCHANGED task
    PROVE  IInv'
<1> DEFINE p == answer
<1>1. kind' = kind /\ state' = state /\ rows' = rows /\ records' = records /\ failures' = failures
      /\ cursor' = NextCursor(p) /\ userOffset' = userOffset + p.extra
  BY DEF Accept, task
<1>2. /\ p \in Pages /\ Plausible(p) /\ pc = "wait" /\ p.from <= p.to /\ p.to <= Len(rows)
      /\ Before(p.from) = cursor.Offset /\ NextOffset(p) = Before(p.to)
      /\ NextOffset(p) \in 0 .. MaxInt /\ (p.to = p.from => NextOffset(p) = cursor.Offset)
  BY Accepted
<1>3. p.from \in Nat /\ p.to \in Nat /\ p.extra \in Nat /\ p.date \in 0 .. MaxDate /\ p.state \in States
  BY <1>2, AnswerFields
<1>4. /\ cursor'.Offset = Before(p.to)
      /\ cursor'.DateOffset = IF Dated /\ p.to > p.from THEN p.date ELSE cursor.DateOffset
  BY <1>1, <1>2 DEF NextCursor
<1>5. /\ pc' \in {"truncated", "complete", "idle"}
      /\ pc' = "complete" => Done(p)
  BY DEF Accept
<1>6. userOffset' \in Nat /\ userOffset' <= records
  <2>1. userOffset \in Nat /\ records \in Nat /\ p.extra <= records - userOffset
    BY <1>2 DEF IInv, TypeOK, AnswerInv
  <2> QED
    BY <1>1, <1>3, <2>1
<1>7. PICK n \in Positions(cursor.Offset) :
        \A i \in 1 .. MaxRows : seen[i] = IF i <= n /\ Counts(i) THEN 1 ELSE 0
  BY DEF IInv, NoGapNoRepeat
<1>8. n \in 0 .. Len(rows) /\ Before(n) = Before(p.from) /\ Len(rows) \in Nat /\ Len(rows) <= MaxRows
  BY <1>2, <1>7, TypeFacts DEF Positions, IInv, TypeOK
<1>9. \A i \in 1 .. Len(rows) : Counts(i) => (i <= n <=> i <= p.from)
  <2>1. CASE n <= p.from
    <3>1. \A i \in n + 1 .. p.from : ~ Counts(i)
      <4>1. n \in Nat /\ p.from \in Nat /\ Before(n) = Before(p.from)
        BY <1>3, <1>8
      <4> HIDE DEF p
      <4> QED
        BY <2>1, <4>1, SamePlace
    <3> QED
      BY <1>3, <1>8, <2>1, <3>1
  <2>2. CASE p.from <= n
    <3>1. \A i \in p.from + 1 .. n : ~ Counts(i)
      <4>1. n \in Nat /\ p.from \in Nat /\ Before(n) = Before(p.from)
        BY <1>3, <1>8
      <4> HIDE DEF p
      <4> QED
        BY <2>2, <4>1, SamePlace
    <3> QED
      BY <1>3, <1>8, <2>2, <3>1
  <2> QED
    BY <1>3, <1>8, <2>1, <2>2
<1>10. seen' = [i \in 1 .. MaxRows |->
                  IF i \in p.from + 1 .. p.to /\ Counts(i) THEN seen[i] + 1 ELSE seen[i]]
  BY DEF Accept, IInv, TypeOK
<1>11. \A i \in 1 .. MaxRows : seen'[i] = IF i <= p.to /\ Counts(i) THEN 1 ELSE 0
  <2> SUFFICES ASSUME NEW i \in 1 .. MaxRows
               PROVE  seen'[i] = IF i <= p.to /\ Counts(i) THEN 1 ELSE 0
    OBVIOUS
  <2>1. seen'[i] = IF i \in p.from + 1 .. p.to /\ Counts(i) THEN seen[i] + 1 ELSE seen[i]
    BY <1>10
  <2>2. CASE ~ Counts(i)
    BY <1>7, <2>1, <2>2
  <2>3. CASE Counts(i) /\ i > p.to
    <3>1. seen[i] = 0
      <4>1. CASE i <= Len(rows)
        <5>1. ~ (i <= p.from)
          BY <1>2, <1>3, <2>3
        <5>2. i \in 1 .. Len(rows) /\ Counts(i)
          BY <2>3, <4>1
        <5>3. ~ (i <= n)
          BY <1>9, <5>1, <5>2
        <5> QED
          BY <1>7, <5>3
      <4>2. CASE i > Len(rows)
        BY <1>7, <1>8, <4>2
      <4> QED
        BY <1>8, <4>1, <4>2
    <3> QED
      BY <1>3, <2>1, <2>3, <3>1
  <2>4. CASE Counts(i) /\ i <= p.to
    <3>1. i \in 1 .. Len(rows) /\ (i <= n <=> i <= p.from)
      BY <1>2, <1>3, <1>8, <1>9, <2>4
    <3>2. seen[i] = IF i <= p.from THEN 1 ELSE 0
      BY <1>7, <2>4, <3>1
    <3> QED
      BY <1>3, <2>1, <2>4, <3>2
  <2> QED
    BY <1>3, <2>2, <2>3, <2>4
<1>12. NoGapNoRepeat'
  <2>1. p.to \in Positions(cursor.Offset)'
    BY <1>1, <1>2, <1>3, <1>4 DEF Positions, Before, Counts
  <2>2. \A i \in 1 .. MaxRows : seen'[i] = IF i <= p.to /\ Counts(i)' THEN 1 ELSE 0
    BY <1>1, <1>11 DEF Counts
  <2> QED
    BY <2>1, <2>2 DEF NoGapNoRepeat
<1>13. TypeOK' /\ Budget'
  <2>1. cursor' \in [Offset : 0 .. MaxInt, DateOffset : 0 .. MaxDate]
    BY <1>1, <1>2, <1>3, TypeFacts DEF NextCursor, IInv
  <2>2. seen' \in [1 .. MaxRows -> Nat]
    <3>1. \A i \in 1 .. MaxRows : seen[i] \in Nat
      BY DEF IInv, TypeOK
    <3> QED
      BY <1>10, <3>1
  <2>3. pc' \in {"idle", "wait"} \cup Ended /\ failures' <= MaxFailures
    BY <1>1, <1>2, <1>5 DEF Ended, IInv, Budget
  <2> QED
    BY <1>1, <1>6, <2>1, <2>2, <2>3 DEF IInv, TypeOK, Budget
<1>14. TaskInv' /\ AnswerInv' /\ CursorAccepted'
  BY <1>1, <1>5, <1>6 DEF IInv, TaskInv, AnswerInv, CursorAccepted
<1>15. Usable'
  <2>1. CASE Dated /\ p.to > p.from
    BY <1>1, <1>4, <2>1 DEF Usable, IInv, AnswerInv
  <2>2. CASE ~ (Dated /\ p.to > p.from)
    BY <1>1, <1>2, <1>3, <1>4, <2>2 DEF Usable, IInv
  <2> QED
    BY <2>1, <2>2
<1>16. Complete'
  <2> SUFFICES ASSUME pc' = "complete"
               PROVE  /\ state \in Final /\ userOffset' = records
                      /\ \A i \in 1 .. Len(rows) : Counts(i) => seen'[i] = 1
    BY <1>1 DEF Complete, Counts
  <2>1. Done(p) /\ p.to = p.from /\ p.extra = 0 /\ p.state \in Final
    BY <1>5 DEF Done, Terminal
  <2>2. /\ p.state = state /\ userOffset = records
        /\ \A i \in p.from + 1 .. Len(rows) : ~ Counts(i)
    BY <1>2, <2>1 DEF IInv, AnswerInv
  <2>3. \A i \in 1 .. Len(rows) : Counts(i) => i <= p.to
    BY <1>3, <1>8, <2>1, <2>2
  <2>4. \A i \in 1 .. Len(rows) : Counts(i) => seen'[i] = 1
    BY <1>8, <1>11, <2>3
  <2> QED
    BY <1>1, <2>1, <2>2, <2>4 DEF IInv, TypeOK
<1> QED
  BY <1>12, <1>13, <1>14, <1>15, <1>16 DEF IInv

LEMMA Invariance == Spec => []IInv
<1>1. IInv /\ [Next]_vars => IInv'
  <2> SUFFICES ASSUME IInv, [Next]_vars PROVE IInv'
    OBVIOUS
  <2>1. CASE Receive
    <3>1. answer # NoPage /\ pc = "wait" /\ answer' = NoPage /\ UNCHANGED task
      BY <2>1 DEF Receive
    <3>2. CASE Rejects(answer)
      BY <2>1, <3>1, <3>2, FailStep DEF Receive
    <3>3. CASE ~ Rejects(answer)
      BY <2>1, <3>1, <3>3, AcceptStep DEF Receive
    <3> QED
      BY <3>2, <3>3
  <2>2. CASE Lose
    BY <2>2, FailStep DEF Lose
  <2>3. CASE UNCHANGED vars
    <3>1. TypeOK' /\ TaskInv' /\ Usable' /\ CursorAccepted' /\ Complete' /\ Budget'
      BY <2>3 DEF vars, IInv, TypeOK, TaskInv, Usable, CursorAccepted, Complete, Budget, Counts
    <3>2. NoGapNoRepeat' /\ AnswerInv'
      BY <2>3 DEF vars, IInv, NoGapNoRepeat, AnswerInv, Positions, Before, Counts, Plausible, Done
    <3> QED
      BY <3>1, <3>2 DEF IInv
  <2> QED
    BY <2>1, <2>2, <2>3, WriteStep, RecordStep, ServeStep, AskStep DEF Next
<1> QED
  BY <1>1, InitInv, PTL DEF Spec

\* Cursors, offsets and answers stay within their ranges: no offset wraps.
THEOREM TypesHold == Spec => []TypeOK
<1>1. IInv => TypeOK
  BY DEF IInv
<1> QED
  BY <1>1, Invariance, PTL

\* The reader has the rows up to its cursor exactly once.
THEOREM EachRowOnce == Spec => []NoGapNoRepeat
<1>1. IInv => NoGapNoRepeat
  BY DEF IInv
<1> QED
  BY <1>1, Invariance, PTL

\* Done means that the reader has everything of a task that has ended.
THEOREM DoneIsComplete == Spec => []Complete
<1>1. IInv => Complete
  BY DEF IInv
<1> QED
  BY <1>1, Invariance, PTL

\* detailPageQuery refuses no cursor that nextBacktestCursor made.
THEOREM CursorsAreAccepted == Spec => []CursorAccepted
<1>1. IInv => CursorAccepted
  BY DEF IInv
<1> QED
  BY <1>1, Invariance, PTL
-----------------------------------------------------------------------------
(* Reading comes to its end: each step brings it nearer.                     *)

Phase == CASE pc = "idle" -> 3
           [] pc = "wait" -> IF answer = NoPage THEN 2 ELSE IF answer.state \in Final THEN 1 ELSE 4
           [] pc \in Ended -> 0

RowsLeft == Len(rows) - cursor.Offset
RecordsLeft == records - userOffset
ErrorsLeft == MaxFailures + 1 - failures

\* The cursor is within the collection.
Left == RowsLeft \in Nat /\ RecordsLeft \in Nat /\ ErrorsLeft \in Nat /\ Phase \in 0 .. 4

LEMMA LeftTypes == IInv => Left
<1> SUFFICES ASSUME IInv PROVE Left
  OBVIOUS
<1>1. RowsLeft \in Nat
  <2>1. PICK n \in 0 .. Len(rows) : Before(n) = cursor.Offset
    BY DEF IInv, NoGapNoRepeat, Positions
  <2>2. Len(rows) \in Nat /\ cursor.Offset \in Nat
    BY TypeFacts DEF IInv
  <2>3. n \in Nat /\ n <= Len(rows)
    BY <2>1, <2>2
  <2>4. Before(n) <= n
    BY <2>3, BeforeBound
  <2>5. QED
    BY <2>1, <2>2, <2>3, <2>4 DEF RowsLeft
<1>2. RecordsLeft \in Nat
  BY DEF IInv, TypeOK, TaskInv, RecordsLeft
<1>3. ErrorsLeft \in Nat
  BY DEF IInv, TypeOK, ErrorsLeft
<1>4. Phase \in 0 .. 4
  <2>1. pc \in {"idle", "wait"} \cup Ended
    BY DEF IInv, TypeOK
  <2>2. QED
    BY <2>1 DEF Phase, Ended
<1>5. QED
  BY <1>1, <1>2, <1>3, <1>4 DEF Left

LEMMA MeasureArithmetic ==
    ASSUME NEW r \in Nat, NEW c \in Nat, NEW e \in Nat, NEW f \in 0 .. 4,
           NEW r1 \in Nat, NEW c1 \in Nat, NEW e1 \in Nat, NEW f1 \in 0 .. 4,
           r1 <= r, c1 <= c, e1 <= e,
           f1 < f \/ ((r1 < r \/ c1 < c \/ e1 < e) /\ f >= 1 /\ f1 <= 3)
    PROVE  /\ 3 * (r1 + c1 + e1) + f1 \in Nat
           /\ 3 * (r1 + c1 + e1) + f1 < 3 * (r + c + e) + f
<1>1. (r1 + c1) + e1 <= (r + c) + e
  OBVIOUS
<1>2. CASE f1 < f
  BY <1>1, <1>2
<1>3. CASE (r1 < r \/ c1 < c \/ e1 < e) /\ f >= 1 /\ f1 <= 3
  <2>1. (r1 + c1) + e1 < (r + c) + e
    BY <1>3
  <2>2. QED
    BY <1>3, <2>1
<1>4. QED
  BY <1>2, <1>3

\* An accepted page takes the reader on, or ends its reading, or is older than the
\* end of the task.
LEMMA AcceptAdvances ==
    ASSUME IInv, IInv', answer # NoPage, ~ Rejects(answer), Accept(answer), UNCHANGED task
    PROVE  /\ RowsLeft' <= RowsLeft /\ RecordsLeft' <= RecordsLeft
           /\ \/ RowsLeft' <= RowsLeft - 1
              \/ RecordsLeft' <= RecordsLeft - 1
              \/ pc' \in {"complete", "truncated"}
              \/ answer.state \notin Final
<1> DEFINE p == answer
<1>1. rows' = rows /\ records' = records /\ cursor' = NextCursor(p) /\ userOffset' = userOffset + p.extra
  BY DEF Accept, task
<1>2. /\ p \in Pages /\ p.from <= p.to /\ NextOffset(p) \in 0 .. MaxInt
      /\ (p.to = p.from => NextOffset(p) = cursor.Offset) /\ ~ Stuck(p)
  BY Accepted DEF Rejects
<1>3. p.from \in Nat /\ p.to \in Nat /\ p.extra \in Nat
  BY <1>2, AnswerFields
<1>4. Len(rows) \in Nat /\ cursor.Offset \in Nat /\ records \in Nat /\ userOffset \in Nat
  BY TypeFacts DEF IInv, TypeOK
<1>5. cursor'.Offset = NextOffset(p)
  BY <1>1 DEF NextCursor
<1>6. p.to > p.from => NextOffset(p) > cursor.Offset
  BY <1>2, <1>4 DEF Stuck
<1>7. pc' = IF p.max THEN "truncated" ELSE IF Done(p) THEN "complete" ELSE "idle"
  BY DEF Accept
<1> HIDE DEF p
<1>8. NextOffset(p) \in Nat /\ NextOffset(p) >= cursor.Offset
  BY <1>2, <1>3, <1>4, <1>6
<1>9. RowsLeft' = Len(rows) - NextOffset(p) /\ RecordsLeft' = records - (userOffset + p.extra)
  BY <1>1, <1>5 DEF RowsLeft, RecordsLeft
<1>10. RowsLeft' <= RowsLeft /\ RecordsLeft' <= RecordsLeft
  <2>1. Len(rows) - NextOffset(p) <= Len(rows) - cursor.Offset
    BY <1>4, <1>8
  <2>2. records - (userOffset + p.extra) <= records - userOffset
    BY <1>3, <1>4
  <2>3. QED
    BY <1>9, <2>1, <2>2 DEF RowsLeft, RecordsLeft
<1>11. CASE p.to > p.from
  <2>1. RowsLeft' <= RowsLeft - 1
    BY <1>4, <1>6, <1>8, <1>9, <1>11 DEF RowsLeft
  <2>2. QED
    BY <1>10, <2>1
<1>12. CASE p.extra > 0
  <2>1. RecordsLeft' <= RecordsLeft - 1
    BY <1>3, <1>4, <1>9, <1>12 DEF RecordsLeft
  <2>2. QED
    BY <1>10, <2>1
<1>13. CASE p.to = p.from /\ p.extra = 0
  BY <1>7, <1>10, <1>13 DEF Done, Terminal, p
<1>14. QED
  BY <1>2, <1>3, <1>11, <1>12, <1>13

LEMMA StepAdvances ==
    ASSUME IInv, IInv', Left, Left', state \in Final, Next
    PROVE  StepsLeft' \in Nat /\ StepsLeft' < StepsLeft
<1>1. /\ RowsLeft \in Nat /\ RecordsLeft \in Nat /\ ErrorsLeft \in Nat /\ Phase \in 0 .. 4
      /\ RowsLeft' \in Nat /\ RecordsLeft' \in Nat /\ ErrorsLeft' \in Nat /\ Phase' \in 0 .. 4
  BY DEF Left
<1>2. PICK r \in Nat, c \in Nat, e \in Nat, f \in 0 .. 4 :
        r = RowsLeft' /\ c = RecordsLeft' /\ e = ErrorsLeft' /\ f = Phase'
  BY <1>1
<1>3. /\ StepsLeft = 3 * (RowsLeft + RecordsLeft + ErrorsLeft) + Phase
      /\ StepsLeft' = 3 * (r + c + e) + f
  BY <1>2 DEF StepsLeft, RowsLeft, RecordsLeft, ErrorsLeft, Phase
<1> DEFINE Advanced ==
             /\ r <= RowsLeft /\ c <= RecordsLeft /\ e <= ErrorsLeft
             /\ f < Phase \/ ((r < RowsLeft \/ c < RecordsLeft \/ e < ErrorsLeft) /\ Phase >= 1 /\ f <= 3)
<1>4. SUFFICES Advanced
  <2>1. PICK r0 \in Nat, c0 \in Nat, e0 \in Nat, f0 \in 0 .. 4 :
          r0 = RowsLeft /\ c0 = RecordsLeft /\ e0 = ErrorsLeft /\ f0 = Phase
    BY <1>1
  <2>2. /\ r <= r0 /\ c <= c0 /\ e <= e0
        /\ f < f0 \/ ((r < r0 \/ c < c0 \/ e < e0) /\ f0 >= 1 /\ f <= 3)
    BY <1>4, <2>1
  <2>3. 3 * (r + c + e) + f \in Nat /\ 3 * (r + c + e) + f < 3 * (r0 + c0 + e0) + f0
    BY <2>2, MeasureArithmetic
  <2>4. QED
    BY <1>3, <2>1, <2>3
<1>5. CASE Write \/ Record \/ Advance
  BY <1>5 DEF Write, Record, Advance
<1>6. CASE Ask
  <2>1. RowsLeft' = RowsLeft /\ RecordsLeft' = RecordsLeft /\ ErrorsLeft' = ErrorsLeft
    BY <1>6 DEF Ask, task, position, RowsLeft, RecordsLeft, ErrorsLeft
  <2>2. pc = "idle" /\ pc' = "wait" /\ answer' = answer /\ answer = NoPage
    BY <1>6 DEF Ask, IInv, AnswerInv
  <2>3. Phase = 3 /\ Phase' = 2
    BY <2>2 DEF Phase, Ended
  <2>4. QED
    BY <1>1, <1>2, <2>1, <2>3
<1>7. CASE Serve
  <2>1. RowsLeft' = RowsLeft /\ RecordsLeft' = RecordsLeft /\ ErrorsLeft' = ErrorsLeft
    BY <1>7 DEF Serve, task, position, RowsLeft, RecordsLeft, ErrorsLeft
  <2>2. pc = "wait" /\ pc' = "wait" /\ answer = NoPage
    BY <1>7 DEF Serve
  <2>3. answer' # NoPage /\ answer'.state = state
    <3>1. CASE ServePage \/ ServeElsewhere
      BY <3>1 DEF ServePage, ServeElsewhere, Page, NoPage
    <3>2. CASE ServeNoChunk
      BY <3>2 DEF ServeNoChunk, Page, NoPage
    <3>3. CASE ServeUnsound
      BY <3>3 DEF ServeUnsound, Page, NoPage
    <3>4. QED
      BY <1>7, <3>1, <3>2, <3>3 DEF Serve
  <2>4. Phase = 2 /\ Phase' = 1
    BY <2>2, <2>3 DEF Phase, Ended
  <2>5. QED
    BY <1>1, <1>2, <2>1, <2>4
<1>8. ASSUME pc = "wait", answer' = NoPage, Fail, UNCHANGED task
      PROVE  Advanced
  <2>1. RowsLeft' = RowsLeft /\ RecordsLeft' = RecordsLeft /\ failures' = failures + 1
    BY <1>8 DEF Fail, task, position, RowsLeft, RecordsLeft
  <2>2. failures \in Nat /\ MaxFailures \in Nat
    BY DEF IInv, TypeOK
  <2>3. ErrorsLeft' = MaxFailures + 1 - (failures + 1)
    BY <2>1 DEF ErrorsLeft
  <2>4. e = ErrorsLeft - 1
    BY <1>2, <2>2, <2>3 DEF ErrorsLeft
  <2>5. Phase >= 1
    BY <1>8 DEF Phase, Ended
  <2>6. f <= 3
    <3>1. pc' \in {"idle", "stopped"}
      BY <1>8 DEF Fail
    <3>2. QED
      BY <1>2, <3>1 DEF Phase, Ended
  <2>7. QED
    BY <1>1, <1>2, <2>1, <2>4, <2>5, <2>6
<1>9. CASE Lose
  BY <1>8, <1>9 DEF Lose
<1>10. CASE Receive
  <2>1. answer # NoPage /\ pc = "wait" /\ answer' = NoPage /\ UNCHANGED task
    BY <1>10 DEF Receive
  <2>2. CASE Rejects(answer)
    BY <1>8, <1>10, <2>1, <2>2 DEF Receive
  <2>3. CASE ~ Rejects(answer)
    <3>1. Accept(answer)
      BY <1>10, <2>3 DEF Receive
    <3>2. /\ r <= RowsLeft /\ c <= RecordsLeft
          /\ \/ r < RowsLeft
             \/ c < RecordsLeft
             \/ pc' \in {"complete", "truncated"}
             \/ answer.state \notin Final
      BY <1>1, <1>2, <2>1, <2>3, <3>1, AcceptAdvances
    <3>3. failures' = failures /\ pc' \in {"idle", "complete", "truncated"}
      BY <3>1 DEF Accept
    <3>4. e = ErrorsLeft
      BY <1>2, <3>3 DEF ErrorsLeft
    <3>5. Phase >= 1 /\ (answer.state \notin Final => Phase = 4)
      BY <2>1 DEF Phase, Ended
    <3>6. f <= 3 /\ (pc' \in {"complete", "truncated"} => f = 0)
      BY <1>2, <3>3 DEF Phase, Ended
    <3>7. QED
      BY <1>1, <1>2, <3>2, <3>4, <3>5, <3>6
  <2>4. QED
    BY <2>2, <2>3
<1>11. QED
  BY <1>5, <1>6, <1>7, <1>9, <1>10 DEF Next

\* Once the task has ended, the reader asks at most as often as there are rows,
\* records and errors left: no page makes the loop of BACKTEST_API.md run for ever.
THEOREM ReadingIsShort == Spec => ReadingAdvances
<1>1. IInv /\ IInv' /\ Left /\ Left' /\ [Next]_vars
        => [(state \in Final) => StepsLeft' \in Nat /\ StepsLeft' < StepsLeft]_vars
  BY StepAdvances
<1>2. QED
  BY <1>1, LeftTypes, Invariance, PTL DEF Spec, ReadingAdvances
-----------------------------------------------------------------------------
(* Each step is a step of Feed or a stutter.                                 *)

\* Uncounted rows leave the offsets of the others, counted ones take the next.
LEMMA WriteRefines == ASSUME IInv, Write PROVE Reader!Write \/ UNCHANGED Reader!feed
<1>1. PICK r \in Rows : rows' = Append(rows, r)
  <2>1. PICK d \in IF Dated THEN LastDate .. MaxDate ELSE {0}, b \in BOOLEAN :
          rows' = Append(rows, [date |-> d, bare |-> b])
    BY DEF Write
  <2>2. d \in 0 .. MaxDate
    <3>1. rows # <<>> => LastDate \in 0 .. MaxDate
      BY TypeFacts DEF IInv, TypeOK, LastDate
    <3>2. QED
      BY <2>1, <3>1 DEF LastDate
  <2>3. QED
    BY <2>1, <2>2 DEF Rows
<1>2. /\ state \notin Final /\ kind' = kind /\ state' = state /\ records' = records
      /\ cursor' = cursor /\ userOffset' = userOffset /\ pc' = pc
  BY DEF Write, position
<1>3. PICK n \in Nat : n = Len(rows)
  BY TypeFacts DEF IInv
<1>4. Len(rows') = n + 1 /\ Before(n)' = Before(n)
  <2>1. rows \in Seq(Rows)
    BY DEF IInv, TypeOK
  <2>2. /\ Len(rows') = Len(rows) + 1
        /\ \A m \in 0 .. Len(rows) : Before(m)' = Before(m)
    BY <1>1, <1>2, <2>1, RowsStay
  <2>3. QED
    BY <1>3, <2>2
<1> DEFINE S == {i \in 1 .. n : Counts(i)'}
           T == {i \in 1 .. n + 1 : Counts(i)'}
<1>5. Cardinality(T) = Cardinality(S) \/ Cardinality(T) = Cardinality(S) + 1
  <2>1. IsFiniteSet(S) /\ n + 1 \notin S
    <3>1. IsFiniteSet(1 .. n)
      <4>1. 1 \in Int /\ n \in Int
        OBVIOUS
      <4>2. QED
        BY <4>1, FS_Interval
    <3>2. S \subseteq 1 .. n
      OBVIOUS
    <3>3. QED
      BY <3>1, <3>2, FS_Subset
  <2>2. T = S \/ T = S \cup {n + 1}
    OBVIOUS
  <2> HIDE DEF S, T
  <2>3. QED
    BY <2>1, <2>2, FS_AddElement
<1>6. Before(n)' = Cardinality(S) /\ Before(Len(rows))' = Cardinality(T)
  BY <1>4 DEF Before
<1>7. Before(Len(rows))' = Before(Len(rows)) \/ Before(Len(rows))' = Before(Len(rows)) + 1
  BY <1>3, <1>4, <1>5, <1>6
<1>8. QED
  BY <1>2, <1>7 DEF Reader!Write, Reader!feed, Reader!written, Reader!taken

\* A page brings rows and records that are there, and the last one nothing else.
LEMMA AcceptRefines ==
    ASSUME IInv, answer # NoPage, ~ Rejects(answer), Accept(answer), UNCHANGED task
    PROVE  Reader!Take \/ Reader!Finish
<1> DEFINE p == answer
           n == Len(rows)
<1>1. /\ kind' = kind /\ state' = state /\ rows' = rows /\ records' = records
      /\ cursor' = NextCursor(p) /\ userOffset' = userOffset + p.extra
      /\ pc' = IF p.max THEN "truncated" ELSE IF Done(p) THEN "complete" ELSE "idle"
  BY DEF Accept, task
<1>2. /\ p \in Pages /\ Plausible(p) /\ pc = "wait" /\ p.from <= p.to /\ p.to <= n
      /\ Before(p.from) = cursor.Offset /\ NextOffset(p) = Before(p.to)
      /\ (p.to = p.from => NextOffset(p) = cursor.Offset)
  BY Accepted
<1>3. p.from \in Nat /\ p.to \in Nat /\ p.extra \in Nat /\ n \in Nat
  BY <1>2, AnswerFields, TypeFacts DEF IInv
<1>4. cursor'.Offset = Before(p.to)
  BY <1>1, <1>2 DEF NextCursor
<1>5. Before(n)' = Before(n) /\ Len(rows') = n
  BY <1>1 DEF Before, Counts
<1>6. Before(p.from) <= Before(p.to) /\ Before(p.to) <= Before(n)
  <2>1. /\ Before(p.from) \in Nat /\ Before(p.to) \in Nat /\ Before(n) \in Nat
        /\ Cardinality({i \in p.from + 1 .. p.to : Counts(i)}) \in Nat
        /\ Cardinality({i \in p.to + 1 .. n : Counts(i)}) \in Nat
    <3> HIDE DEF p, n
    <3>1. p.from + 1 \in Nat /\ p.to + 1 \in Nat
      BY <1>3
    <3>2. Before(p.from) \in Nat /\ Before(p.to) \in Nat /\ Before(n) \in Nat
      BY <1>3, BeforeType
    <3>3. Cardinality({i \in p.from + 1 .. p.to : Counts(i)}) \in Nat
      BY <1>3, <3>1, CountsFinite
    <3>4. Cardinality({i \in p.to + 1 .. n : Counts(i)}) \in Nat
      BY <1>3, <3>1, CountsFinite
    <3>5. QED
      BY <3>2, <3>3, <3>4
  <2> HIDE DEF p, n
  <2>2. /\ Before(p.to) = Before(p.from) + Cardinality({i \in p.from + 1 .. p.to : Counts(i)})
        /\ Before(n) = Before(p.to) + Cardinality({i \in p.to + 1 .. n : Counts(i)})
    BY <1>2, <1>3, BeforeSplit
  <2>3. QED
    BY <2>1, <2>2
<1>7. /\ Before(p.to) \in cursor.Offset .. Before(n)
      /\ userOffset' \in userOffset .. records
  <2>1. Before(p.from) \in Nat /\ Before(p.to) \in Nat /\ Before(n) \in Nat
    <3> HIDE DEF p, n
    <3>1. QED
      BY <1>3, BeforeType
  <2>2. userOffset \in Nat /\ records \in Nat /\ p.extra <= records - userOffset
    BY <1>2 DEF IInv, TypeOK, AnswerInv
  <2>3. cursor.Offset \in Nat /\ Before(p.to) \in cursor.Offset .. Before(n)
    BY <1>2, <1>6, <2>1
  <2>4. userOffset' \in userOffset .. records
    BY <1>1, <1>3, <2>2
  <2>5. QED
    BY <2>3, <2>4
<1>8. CASE pc' = "complete"
  <2>1. Done(p) /\ p.to = p.from /\ p.extra = 0 /\ p.state \in Final
    BY <1>1, <1>8 DEF Done, Terminal
  <2>2. p.state = state /\ userOffset = records /\ \A i \in p.from + 1 .. n : ~ Counts(i)
    BY <1>2, <2>1 DEF IInv, AnswerInv
  <2>3. Before(n) = Before(p.from)
    <3>1. {i \in p.from + 1 .. n : Counts(i)} = {}
      BY <2>2
    <3>2. Cardinality({i \in p.from + 1 .. n : Counts(i)}) = 0
      BY <3>1, FS_EmptySet
    <3>3. p.from <= n
      BY <1>2, <1>3
    <3> HIDE DEF p, n
    <3>4. Before(n) = Before(p.from) + Cardinality({i \in p.from + 1 .. n : Counts(i)})
      BY <1>3, <3>3, BeforeSplit
    <3>5. Before(p.from) \in Nat
      BY <1>3, BeforeType
    <3>6. QED
      BY <3>2, <3>4, <3>5
  <2>4. Reader!Finish
    <3>1. cursor'.Offset = cursor.Offset /\ userOffset' = userOffset
      BY <1>1, <1>2, <1>4, <2>1, <2>2 DEF IInv, TypeOK
    <3>2. QED
      BY <1>1, <1>2, <1>5, <1>8, <2>1, <2>2, <2>3, <3>1
         DEF Reader!Finish, Reader!written, Reader!taken, Ended
  <2>5. QED
    BY <2>4
<1>9. CASE pc' \in {"truncated", "idle"}
  <2>1. Reader!Take
    BY <1>1, <1>2, <1>4, <1>5, <1>7, <1>9 DEF Reader!Take, Reader!written, Ended
  <2>2. QED
    BY <2>1
<1>10. QED
  BY <1>1, <1>8, <1>9

LEMMA NextRefines == ASSUME IInv, [Next]_vars PROVE [Reader!Next]_Reader!feed
<1> USE DEF Reader!feed, Reader!written, Reader!taken
<1>1. ASSUME kind' = kind, rows' = rows PROVE Before(Len(rows))' = Before(Len(rows))
  BY <1>1 DEF Before, Counts
<1>2. CASE Record
  BY <1>1, <1>2 DEF Record, position, Reader!Write, Reader!Next
<1>3. CASE Advance
  BY <1>1, <1>3 DEF Advance, position, Reader!Close, Reader!Next
<1>4. CASE Ask
  BY <1>1, <1>4 DEF Ask, task, position, IInv, Ended, Reader!Stop, Reader!Next
<1>5. CASE Serve \/ UNCHANGED vars
  BY <1>1, <1>5 DEF Serve, vars, task, position
<1>6. ASSUME pc = "wait", Fail, UNCHANGED task PROVE Reader!Stop \/ UNCHANGED Reader!feed
  BY <1>1, <1>6 DEF Fail, task, position, Ended, Reader!Stop
<1>7. CASE Lose
  BY <1>6, <1>7 DEF Lose, Reader!Next
<1>8. CASE Receive
  BY <1>6, <1>8, AcceptRefines DEF Receive, Reader!Next
<1>9. CASE Write
  BY <1>9, WriteRefines DEF Reader!Next
<1>10. QED
  BY <1>2, <1>3, <1>4, <1>5, <1>7, <1>8, <1>9 DEF Next

\* The page functions and their cursors implement a reader that takes what the
\* task wrote in order and once (BacktestCursor, Done and ErrTruncated).
THEOREM ReadingImplementsFeed == Spec => ReadsFeed
<1>1. Init => Reader!Init
  <2> SUFFICES ASSUME Init PROVE Reader!Init
    OBVIOUS
  <2>1. Before(Len(rows)) = 0
    <3>1. {i \in 1 .. Len(rows) : Counts(i)} = {}
      BY DEF Init
    <3>2. QED
      BY <3>1, FS_EmptySet DEF Before
  <2>2. QED
    BY <2>1 DEF Init, Reader!Init, Ended
<1>2. QED
  BY <1>1, NextRefines, Invariance, PTL DEF Spec, ReadsFeed, Reader!Spec
=============================================================================
