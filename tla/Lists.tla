-------------------------------- MODULE Lists --------------------------------
(***************************************************************************)
(* A caller that walks a list to its end: ListAlgorithms with its folders, *)
(* ListBacktests and ListAllBacktests of backtest_pages.go, from page to   *)
(* NextPage and from folder to folder, while strategies and backtests are  *)
(* created, deleted and moved.  It is also how a caller finds out what an  *)
(* ErrSubmissionUnknown has left behind.                                   *)
(*                                                                         *)
(* The IDs in a list change from page to page, so a caller cannot tell a   *)
(* repeated row; the model can, since a row is the thing it stands for.    *)
(***************************************************************************)
EXTENDS Integers, FiniteSets, SequencesExt

CONSTANTS
    Kinds,          \* the lists the caller may choose from
    Items,          \* strategies or backtests
    Folders, Root,  \* folders of strategies
    Start,          \* for each kind, the lists there may be when the walk starts
    Limits,         \* AllBacktestOptions.Limit
    DefaultLimit,   \* the 10 that a limit of 0 stands for
    HtmlRows,       \* how many rows JoinQuant shows on an HTML page
    MaxInt,         \* the largest value of Go's int
    MaxMoves,       \* bound: rows deleted or moved during the walk
    MaxFailures     \* bound: how often the caller goes on after an error

AllKinds == {"algorithms", "history", "account"}
Rows == Items \cup (Folders \ {Root})

\* Every row stands in one place.
Placed(l) ==
    /\ l \in [Folders -> Seq(Rows)]
    /\ \A f, g \in Folders : \A i \in 1 .. Len(l[f]), j \in 1 .. Len(l[g]) :
          l[f][i] = l[g][j] => f = g /\ i = j

ASSUME ListsAssumption ==
    /\ Kinds \subseteq AllKinds
    /\ Root \in Folders /\ Items \cap Folders = {}
    /\ \A k \in Kinds : \A l \in Start[k] :
          /\ Placed(l) /\ \A f \in Folders : Len(l[f]) <= MaxInt
          /\ k # "algorithms" => \A f \in Folders : l[f] \in Seq(Items) /\ (f # Root => l[f] = <<>>)
    /\ Limits \subseteq Int
    /\ {DefaultLimit, HtmlRows, MaxInt} \subseteq Nat \ {0}
    /\ {MaxMoves, MaxFailures} \subseteq Nat

VARIABLES
    kind,       \* which list is walked
    limit,      \* the caller's Limit
    list,       \* what each folder holds; all but Root are empty unless "algorithms"
    born,       \* the rows there have been
    steady,     \* history: those there from the start and not moved since
    moves,      \* history: how many were deleted or moved
    odd,        \* history: JoinQuant gave an answer that makes no sense
    folder,     \* the folder the caller reads
    page,       \* the page it asks for next
    todo,       \* folders it has found but not read
    read,       \* folders it has read to the end
    got,        \* how often it got each item
    pc,         \* where the caller is
    answer,     \* the page on its way to it
    failures    \* how many errors it got

world == <<kind, limit, list, born, steady, moves>>
walk == <<folder, page, todo, read, got>>
vars == <<kind, limit, list, born, steady, moves, odd,
          folder, page, todo, read, got, pc, answer, failures>>

-----------------------------------------------------------------------------
Html == kind # "account"

\* Rows on a page.
Size == IF Html THEN HtmlRows ELSE IF limit = 0 THEN DefaultLimit ELSE limit

\* Negative page numbers and limits are refused before anything is sent.
Usable == page >= 0 /\ (~ Html => limit >= 0)

PageNumber(n) == IF n = 0 THEN 1 ELSE n

NoAnswer == [rows |-> {}, shown |-> FALSE, link |-> 0, echo |-> 0, total |-> 0, sound |-> FALSE]

\* Mutants of NextPage: an off-by-one either way, a product that overflows, and a
\* walk that goes on to the first empty page whatever the links say.
NextPageOnePast(a) ==
    IF Html THEN IF a.shown THEN a.link ELSE 0
    ELSE IF a.total > 0 /\ page <= a.total \div Size THEN page + 1 ELSE 0

NextPageOffByOne(a) ==
    IF Html THEN IF a.shown THEN a.link ELSE 0
    ELSE IF a.total > 0 /\ page < (a.total - 1) \div Size THEN page + 1 ELSE 0

Wrapped(n) == ((n + MaxInt + 1) % (2 * (MaxInt + 1))) - (MaxInt + 1)
NextPageByProduct(a) ==
    IF Html THEN IF a.shown THEN a.link ELSE 0
    ELSE IF Wrapped(page * Size) < a.total THEN page + 1 ELSE 0

NextPageUntilEmpty(a) ==
    IF Html THEN IF a.rows = {} \/ page = MaxInt THEN 0 ELSE page + 1
    ELSE IF a.total > 0 /\ page <= (a.total - 1) \div Size THEN page + 1 ELSE 0

\* A link that is not hidden, or what the total says.
NextPage(a) ==
    IF Html THEN IF a.shown THEN a.link ELSE 0
    ELSE IF a.total > 0 /\ page <= (a.total - 1) \div Size THEN page + 1 ELSE 0

\* Mutant of Rejects: a link may point back.
RejectsUnlessBackward(a) ==
    \/ ~ a.sound
    \/ ~ Html /\ (a.echo # page \/ a.total < 0)
    \/ ~ Html /\ NextPage(a) # 0 /\ a.rows = {}

\* Answers the code returns ErrInvalidResponse for.
Rejects(a) ==
    \/ ~ a.sound
    \/ Html /\ a.shown /\ a.link <= page
    \/ ~ Html /\ (a.echo # page \/ a.total < 0)
    \/ ~ Html /\ NextPage(a) # 0 /\ a.rows = {}

-----------------------------------------------------------------------------
Ended == {"done", "stopped"}
Answers == [rows : SUBSET Rows, shown : BOOLEAN, link : 0 .. MaxInt, echo : Int,
            total : -1 .. MaxInt, sound : BOOLEAN]

TypeOK ==
    /\ kind \in Kinds /\ limit \in Limits \cup {0}
    /\ Placed(list) /\ \A f \in Folders : Len(list[f]) <= MaxInt
    /\ born \subseteq Rows /\ steady \subseteq born
    /\ moves \in 0 .. MaxMoves /\ odd \in BOOLEAN
    /\ folder \in Folders /\ todo \subseteq Folders /\ read \subseteq Folders
    /\ page \in -1 .. MaxInt
    /\ got \in [Items -> Nat]
    /\ pc \in {"idle", "wait"} \cup Ended
    /\ answer \in Answers
    /\ failures \in 0 .. MaxFailures + 1

Init ==
    /\ kind \in Kinds
    /\ limit \in IF kind = "account" THEN Limits ELSE {0}
    /\ list \in Start[kind]
    /\ born = UNION {ToSet(list[f]) : f \in Folders} /\ steady = born
    /\ moves = 0 /\ odd = FALSE
    /\ folder = Root /\ todo = {} /\ read = {}
    /\ page \in {-1, 0, 1}
    /\ got = [x \in Items |-> 0]
    /\ pc = "idle" /\ answer = NoAnswer /\ failures = 0

(* The account.  Where a new row comes is JoinQuant's business.              *)

Stands(f) == f = Root \/ \E g \in Folders : f \in ToSet(list[g])

\* The folders that go where a row goes: itself, if it is one, and those in it.
Along(x) ==
    {g \in Folders : x \in Folders /\ \A S \in SUBSET Folders :
        x \in S /\ (\A f \in S : ToSet(list[f]) \cap Folders \subseteq S) => g \in S}

Insert(x, f, i) ==
    /\ x \notin born /\ (x \in Folders => kind = "algorithms")
    /\ Stands(f) /\ (f # Root => kind = "algorithms")
    /\ Len(list[f]) < MaxInt
    /\ list' = [list EXCEPT ![f] = InsertAt(@, i, x)]
    /\ born' = born \cup {x}
    /\ UNCHANGED <<kind, limit, steady, moves, odd, walk, pc, answer, failures>>

Leaves(x) ==
    /\ moves < MaxMoves /\ moves' = moves + 1
    /\ steady' = steady \ {x}
    /\ UNCHANGED <<kind, limit, born, odd, walk, pc, answer, failures>>

\* A folder is deleted with all it holds.
Delete(f, i) ==
    /\ Leaves(list[f][i])
    /\ list' = [g \in Folders |-> IF g \in Along(list[f][i]) THEN <<>>
                                  ELSE IF g = f THEN RemoveAt(list[f], i) ELSE list[g]]

\* To another folder, as MoveAlgorithms does, or to where an edited strategy comes;
\* a folder comes with all it holds, and never into itself.
Move(f, i, g, j) ==
    /\ kind = "algorithms" /\ Stands(g) /\ g \notin Along(list[f][i])
    /\ Leaves(list[f][i])
    /\ LET rest == [list EXCEPT ![f] = RemoveAt(@, i)] IN
          /\ Len(rest[g]) < MaxInt /\ j <= Len(rest[g]) + 1
          /\ list' = [rest EXCEPT ![g] = InsertAt(@, j, list[f][i])]

Change ==
    \E f \in Folders :
        \/ \E x \in Rows, i \in 1 .. Len(list[f]) + 1 : Insert(x, f, i)
        \/ \E i \in 1 .. Len(list[f]) :
              Delete(f, i) \/ \E g \in Folders : \E j \in 1 .. Len(list[g]) + 1 : Move(f, i, g, j)

(* JoinQuant's answers.                                                      *)

OnPage(p) == {list[folder][i] : i \in {i \in 1 .. Len(list[folder]) : (p - 1) * Size < i /\ i <= p * Size}}

\* The page as the list is at one moment.  On the last page the next link is
\* hidden; behind it HTML shows nothing, or the last page once more.
ServePage ==
    /\ \E p \in 1 .. page :
          /\ p = page \/ (Html /\ p * Size >= Len(list[folder]))
          /\ answer' = [rows |-> OnPage(p), shown |-> Html /\ p = page /\ p * Size < Len(list[folder]),
                        link |-> IF page < MaxInt THEN page + 1 ELSE 0, echo |-> page,
                        total |-> Len(list[folder]), sound |-> TRUE]
    /\ UNCHANGED odd

\* The rows of the first page or none, with a made-up link or total, or with
\* the wrong page number or a field that cannot be read.
ServeOdd ==
    /\ \E rows \in {{}, OnPage(1)}, next \in 0 .. MaxInt, total \in {-1, MaxInt},
          echo \in {page, page + 1}, sound \in BOOLEAN :
          answer' = [rows |-> rows, shown |-> TRUE, link |-> IF Html THEN next ELSE 0,
                     echo |-> IF Html THEN page ELSE echo, total |-> total, sound |-> sound]
    /\ odd' = TRUE

Serve ==
    /\ pc = "wait" /\ answer = NoAnswer
    /\ ServePage \/ ServeOdd
    /\ UNCHANGED <<world, walk, pc, failures>>

(* The caller and the calls it makes.                                        *)

Ask ==
    /\ pc = "idle"
    /\ IF Usable THEN pc' = "wait" /\ page' = PageNumber(page)
                 ELSE pc' = "stopped" /\ UNCHANGED page
    /\ UNCHANGED <<world, odd, folder, todo, read, got, answer, failures>>

Fail ==
    /\ failures' = failures + 1
    /\ pc' \in {"stopped"} \cup (IF failures < MaxFailures THEN {"idle"} ELSE {})
    /\ UNCHANGED walk

Lose ==
    /\ pc = "wait"
    /\ answer' = NoAnswer
    /\ Fail
    /\ UNCHANGED <<world, odd>>

Turn(a) ==
    /\ page' = NextPage(a) /\ pc' = "idle"
    /\ todo' = todo \cup ((a.rows \cap Folders) \ (read \cup {folder}))
    /\ UNCHANGED <<folder, read>>

\* A folder is read to the end; another one is next.
Leave(a) ==
    LET left == (todo \cup (a.rows \cap Folders)) \ (read \cup {folder}) IN
    /\ read' = read \cup {folder}
    /\ IF left = {} THEN pc' = "done" /\ todo' = {} /\ UNCHANGED <<folder, page>>
       ELSE pc' = "idle" /\ page' = 0 /\ folder' \in left /\ todo' = left \ {folder'}

Accept(a) ==
    /\ got' = [x \in Items |-> IF x \in a.rows THEN got[x] + 1 ELSE got[x]]
    /\ IF NextPage(a) # 0 THEN Turn(a) ELSE Leave(a)
    /\ UNCHANGED failures

\* ListAlgorithms and ListBacktests return a page with a wrong link beside the error;
\* this caller leaves it, as it leaves every result that comes with an error.
Receive ==
    /\ pc = "wait" /\ answer # NoAnswer
    /\ IF Rejects(answer) THEN Fail ELSE Accept(answer)
    /\ answer' = NoAnswer
    /\ UNCHANGED <<world, odd>>

Next == Change \/ Serve \/ Ask \/ Lose \/ Receive

Spec == Init /\ [][Next]_vars

\* A caller that goes on asking, and a JoinQuant that goes on answering.
FairSpec == Spec /\ WF_vars(Ask) /\ WF_vars(Serve) /\ WF_vars(Receive)

-----------------------------------------------------------------------------
(* Properties.                                                               *)

Found(x) == IF x \in Items THEN got[x] > 0 ELSE x \in read \cup todo \cup {folder}

Missed == {x \in steady : ~ Found(x) /\ \E f \in read : x \in ToSet(list[f])}

\* New rows push others back, they hide none: as long as nothing is deleted or
\* moved, a folder read to its end has given up every row it had from the start.
\* So a write that landed before the walk began is found by it.
NothingSkipped == moves = 0 /\ ~ odd => Missed = {}

\* Each row deleted or moved makes the walk miss at most one that stays, which
\* may be a folder, with all it holds.
OneMissedPerMove == ~ odd => Cardinality(Missed) <= moves

\* Of a list that stays as it is, the walk gets every item of a folder it has
\* read exactly once, and none twice.
OnceEach ==
    moves = 0 /\ ~ odd /\ born = steady =>
        \A f \in Folders : \A x \in ToSet(list[f]) \cap Items :
            got[x] <= 1 /\ (f \in read => got[x] = 1)

\* No page of a list, however it changed meanwhile, is refused as invalid.
PagesAccepted == pc = "wait" /\ answer # NoAnswer /\ ~ odd => ~ Rejects(answer)

\* The steps a walk has left at most: each folder has as many pages as there are
\* page numbers, and a page takes a request, its answer and a look at it.
PagesLeft == Cardinality(Folders \ read) * (MaxInt + 1) + (MaxInt - page)
StepsLeft ==
    3 * (PagesLeft + (MaxFailures + 1 - failures))
      + (CASE pc = "idle" -> 3
           [] pc = "wait" -> IF answer = NoAnswer THEN 2 ELSE 1
           [] pc \in Ended -> 0)

\* Whatever links and totals JoinQuant makes up, and whatever becomes of the lists
\* meanwhile, every step of the walk brings it nearer to its end.
WalkAdvances ==
    [][\/ UNCHANGED <<walk, pc, answer, failures>>
       \/ StepsLeft' \in Nat /\ StepsLeft' < StepsLeft]_vars

\* A walk ends, whatever links and totals JoinQuant makes up.
WalkEnds == <>(pc \in Ended)
=============================================================================
