--------------------------- MODULE FileStoreProofs ---------------------------
(***************************************************************************)
(* The file of sessions keeps its promises for every number of processes,  *)
(* threads and accounts: it can always be read, leaves no copies behind,   *)
(* and does what SessionStore says.                                        *)
(***************************************************************************)
EXTENDS FileStore, TLAPS

USE DEF Steps, Holding, Writing

\* What a thread that is at some point of a call knows about the call.
CallInv == \A t \in Threads :
    /\ pc[t] = "idle" <=> calls[t] = NoCall
    /\ pc[t] = "answered" => calls[t].result # None
    /\ pc[t] \notin {"idle", "answered"} => calls[t].result = None
    /\ pc[t] # "idle" /\ calls[t].op = "save" => calls[t].state \in States
    /\ pc[t] \in Holding => calls[t].op \in {"save", "delete"}

\* One thread of a process is between reading the file and replacing it.
MutexInv == \A t, u \in Threads :
    Process[t] = Process[u] /\ pc[t] \in Holding /\ pc[u] \in Holding => t = u

\* A thread nobody overtook writes the file as it is, with its own row changed.
FreshInv == \A t \in fresh : pc[t] \in Holding /\ copy[t] = Change(t)

TempInv == \A t \in Threads :
    /\ temp[t] # NoFile <=> pc[t] \in Writing
    /\ pc[t] \in Writing => temp[t].rows = copy[t]
    /\ pc[t] = "synced" => temp[t].synced

\* What is renamed to the path was synced.
FileInv == \A f \in {file, disk} : f # Torn /\ (f # NoFile => f.synced)

Inv == TypeOK /\ CallInv /\ MutexInv /\ FreshInv /\ TempInv /\ FileInv

-----------------------------------------------------------------------------
LEMMA RowsType == ASSUME TypeOK PROVE FileRows \in RowSets
  BY FileAssumption DEF TypeOK, FileRows, RowSets, NoRows, Files

LEMMA FileKinds == ASSUME NEW f \in Files PROVE f # NoFile /\ f # Torn
  BY FileAssumption

LEMMA ChangeType ==
    ASSUME TypeOK, CallInv, NEW t \in Threads, pc[t] # "idle"
    PROVE  Change(t) \in RowSets
  BY RowsType, FileAssumption DEF TypeOK, CallInv, Change, RowSets

LEMMA CallFields ==
    ASSUME TypeOK, CallInv, NEW t \in Threads, pc[t] # "idle"
    PROVE  /\ calls[t] \in Store!Calls
           /\ calls[t] = [op |-> calls[t].op, state |-> calls[t].state, result |-> calls[t].result]
  BY DEF TypeOK, CallInv, Store!Calls

\* Answering is the same for all operations.
LEMMA AnswerType ==
    ASSUME TypeOK, CallInv, NEW t \in Threads, pc[t] # "idle", NEW r \in Store!Results, Answer(t, r)
    PROVE  /\ temp' \in [Threads -> Files \cup {NoFile}]
           /\ calls' \in [Threads -> Store!Calls \cup {NoCall}]
           /\ pc' \in [Threads -> Steps]
           /\ copy' \in [Threads -> RowSets]
<1>1. [calls[t] EXCEPT !.result = r] \in Store!Calls
  BY CallFields DEF Store!Calls
<1>2. NoRows \in RowSets
  BY DEF NoRows, RowSets
<1> QED BY <1>1, <1>2 DEF Answer, TypeOK

LEMMA AnswerCall ==
    ASSUME TypeOK, CallInv, NEW t \in Threads, pc[t] # "idle", NEW r \in Store!Results, Answer(t, r)
    PROVE  CallInv'
<1>1. [calls[t] EXCEPT !.result = r] \in Store!Calls
  BY CallFields DEF Store!Calls
<1>2. r # None /\ NoCall \notin Store!Calls
  BY FileAssumption
<1>3. /\ [calls[t] EXCEPT !.result = r].result = r
      /\ [calls[t] EXCEPT !.result = r].op = calls[t].op
      /\ [calls[t] EXCEPT !.result = r].state = calls[t].state
  BY CallFields DEF Store!Calls
<1>4. /\ pc'[t] = "answered" /\ calls'[t] = [calls[t] EXCEPT !.result = r]
      /\ \A u \in Threads : u # t => pc'[u] = pc[u] /\ calls'[u] = calls[u]
  BY DEF Answer, TypeOK
<1>5. calls'[t] # NoCall /\ calls'[t].result # None
  BY <1>1, <1>2, <1>3, <1>4
<1>6. calls'[t].op = "save" => calls'[t].state \in States
  BY <1>3, <1>4 DEF CallInv
<1> QED BY <1>4, <1>5, <1>6 DEF CallInv

LEMMA AnswerMutex ==
    ASSUME TypeOK, MutexInv, NEW t \in Threads, NEW r, Answer(t, r)
    PROVE  MutexInv'
  BY DEF Answer, TypeOK, MutexInv

LEMMA AnswerTemp ==
    ASSUME TypeOK, TempInv, NEW t \in Threads, NEW r, Answer(t, r)
    PROVE  TempInv'
  BY DEF Answer, TypeOK, TempInv

\* The rows do not change: threads that are not in fresh any more aside, what
\* they write is still right.
LEMMA AnswerFresh ==
    ASSUME TypeOK, FreshInv, NEW t \in Threads, NEW r, Answer(t, r),
           file' = file, fresh' \subseteq fresh \ {t}
    PROVE  FreshInv'
<1>1. \A u \in Threads : u # t => pc'[u] = pc[u] /\ copy'[u] = copy[u] /\ calls'[u] = calls[u]
  BY DEF Answer, TypeOK
<1>2. \A u \in fresh' : u \in fresh /\ u \in Threads /\ u # t
  BY DEF TypeOK
<1>3. FileRows' = FileRows
  BY DEF FileRows
<1> QED BY <1>1, <1>2, <1>3 DEF FreshInv, Change
-----------------------------------------------------------------------------
\* One lemma per action: it preserves the invariant.

LEMMA ErrorType == Store!Error \in Store!Results /\ Store!Ok \in Store!Results /\ Store!NotFound \in Store!Results
  BY DEF Store!Error, Store!Ok, Store!NotFound, Store!Loaded, Store!Results

LEMMA InitInv == ASSUME Init PROVE Inv
<1>1. NoRows \in RowSets
  BY DEF NoRows, RowSets
<1>2. NoFile # Torn
  BY FileAssumption
<1> QED BY <1>1, <1>2 DEF Init, Inv, TypeOK, CallInv, MutexInv, FreshInv, TempInv, FileInv

LEMMA CallStep ==
    ASSUME Inv, NEW t \in Threads, NEW op \in Store!Ops, NEW s \in States \cup {None},
           op = "save" => s \in States, Call(t, op, s)
    PROVE  Inv'
<1> DEFINE c == [op |-> op, state |-> s, result |-> None]
<1>1. c \in Store!Calls /\ c # NoCall
  BY FileAssumption DEF Store!Calls
<1>2. /\ pc[t] = "idle" /\ pc'[t] = "called" /\ calls'[t] = c
      /\ \A u \in Threads : u # t => pc'[u] = pc[u] /\ calls'[u] = calls[u]
  BY DEF Call, Inv, TypeOK
<1>3. c.op = op /\ c.state = s /\ c.result = None
  OBVIOUS
<1> HIDE DEF c
<1>4. TypeOK'
  BY <1>1 DEF Inv, Call, TypeOK, c
<1>5. CallInv'
  BY <1>1, <1>2, <1>3 DEF Inv, CallInv
<1>6. MutexInv'
  BY <1>2 DEF Inv, MutexInv
<1>7. FreshInv'
  BY <1>2 DEF Call, Inv, TypeOK, FreshInv, Change, FileRows
<1>8. TempInv' /\ FileInv'
  BY <1>2 DEF Call, Inv, TempInv, FileInv
<1> QED BY <1>4, <1>5, <1>6, <1>7, <1>8 DEF Inv

LEMMA AnswerStep ==
    ASSUME Inv, NEW t \in Threads, pc[t] # "idle", NEW r \in Store!Results, Answer(t, r),
           fresh' \subseteq fresh \ {t}, UNCHANGED <<file, disk, astray>>
    PROVE  Inv'
<1>1. TypeOK'
  BY AnswerType DEF Inv, TypeOK
<1>2. CallInv' /\ MutexInv' /\ TempInv' /\ FreshInv'
  BY AnswerCall, AnswerMutex, AnswerTemp, AnswerFresh DEF Inv
<1>3. FileInv'
  BY DEF Inv, FileInv
<1> QED BY <1>1, <1>2, <1>3 DEF Inv

LEMMA FailStep == ASSUME Inv, NEW t \in Threads, pc[t] # "idle", Fail(t) PROVE Inv'
  BY AnswerStep, ErrorType DEF Fail

LEMMA NotFresh == ASSUME Inv, NEW t \in Threads, pc[t] \notin Holding PROVE t \notin fresh
  BY DEF Inv, FreshInv

LEMMA LoadStep == ASSUME Inv, NEW t \in Threads, pc[t] = "called", Load(t) PROVE Inv'
<1>1. PICK r : r \in Store!Results /\ Answer(t, r)
  <2>1. FileRows[Account[t]] \in States \cup {NoRow}
    BY RowsType, FileAssumption DEF Inv, RowSets
  <2>2. FileRows[Account[t]] # NoRow => Store!Loaded(FileRows[Account[t]]) \in Store!Results
    BY <2>1 DEF Store!Loaded, Store!Results
  <2> QED BY <2>1, <2>2, ErrorType DEF Load
<1>2. fresh' \subseteq fresh \ {t} /\ UNCHANGED <<file, disk, astray>>
  BY NotFresh DEF Load
<1> QED BY <1>1, <1>2, AnswerStep

LEMMA BeginStep == ASSUME Inv, NEW t \in Threads, pc[t] = "called", Free(t), Begin(t) PROVE Inv'
<1>1. CASE calls[t].op = "delete" /\ file = NoFile /\ Answer(t, Store!NotFound) /\ UNCHANGED <<file, disk, fresh, astray>>
  BY <1>1, NotFresh, AnswerStep, ErrorType
<1>2. CASE /\ calls[t].op \in {"save", "delete"}
           /\ pc' = [pc EXCEPT ![t] = "read"]
           /\ copy' = [copy EXCEPT ![t] = Change(t)]
           /\ fresh' = fresh \cup {t}
           /\ UNCHANGED <<file, disk, temp, calls, astray>>
  <2>1. /\ pc'[t] = "read" /\ copy'[t] = Change(t)
        /\ \A u \in Threads : u # t => pc'[u] = pc[u] /\ copy'[u] = copy[u]
    BY <1>2 DEF Inv, TypeOK
  <2>2. TypeOK'
    BY <1>2, ChangeType DEF Inv, TypeOK
  <2>3. CallInv'
    BY <1>2, <2>1 DEF Inv, CallInv
  <2>4. MutexInv'
    BY <2>1 DEF Free, Inv, MutexInv
  <2>5. FreshInv'
    <3>1. FileRows' = FileRows /\ calls' = calls /\ fresh \subseteq Threads
      BY <1>2 DEF FileRows, Inv, TypeOK
    <3>2. Change(t)' = Change(t) /\ \A u \in fresh : Change(u)' = Change(u)
      BY <3>1 DEF Change
    <3>3. \A u \in fresh' : u = t \/ (u \in fresh /\ u \in Threads /\ u # t)
      BY <1>2, <3>1
    <3> QED BY <2>1, <3>2, <3>3 DEF Inv, FreshInv
  <2>6. TempInv' /\ FileInv'
    BY <1>2, <2>1 DEF Inv, TempInv, FileInv
  <2> QED BY <2>2, <2>3, <2>4, <2>5, <2>6 DEF Inv
<1> QED BY <1>1, <1>2 DEF Begin

LEMMA ReadStep == ASSUME Inv, NEW t \in Threads, Read(t) PROVE Inv'
  BY FailStep, LoadStep, BeginStep DEF Read

LEMMA WriteStep == ASSUME Inv, NEW t \in Threads, Write(t) PROVE Inv'
<1>1. CASE /\ pc' = [pc EXCEPT ![t] = "written"]
           /\ temp' = [temp EXCEPT ![t] = [rows |-> copy[t], synced |-> FALSE]]
           /\ UNCHANGED <<file, disk, calls, copy, fresh, astray>>
  <2> DEFINE f == [rows |-> copy[t], synced |-> FALSE]
  <2>0. f \in Files /\ f.rows = copy[t]
    BY DEF Inv, TypeOK, Files
  <2>1. f \in Files /\ f # NoFile /\ f.rows = copy[t]
    BY <2>0, FileKinds
  <2>2. /\ pc[t] = "read" /\ pc'[t] = "written" /\ temp'[t] = f
        /\ \A u \in Threads : u # t => pc'[u] = pc[u] /\ temp'[u] = temp[u]
    BY <1>1 DEF Write, Inv, TypeOK
  <2>3. TypeOK'
    BY <1>1, <2>1 DEF Inv, TypeOK
  <2> HIDE DEF f
  <2>4. CallInv'
    BY <1>1, <2>2 DEF Inv, CallInv
  <2>5. MutexInv'
    BY <2>2 DEF Inv, MutexInv
  <2>6. FreshInv'
    BY <1>1, <2>2 DEF Inv, TypeOK, FreshInv, Change, FileRows
  <2>7. TempInv' /\ FileInv'
    BY <1>1, <2>1, <2>2 DEF Inv, TempInv, FileInv
  <2> QED BY <2>3, <2>4, <2>5, <2>6, <2>7 DEF Inv
<1> QED BY <1>1, FailStep DEF Write

LEMMA SyncStep == ASSUME Inv, NEW t \in Threads, Sync(t) PROVE Inv'
<1>1. CASE /\ pc' = [pc EXCEPT ![t] = "synced"]
           /\ Flush(t)
           /\ UNCHANGED <<file, disk, calls, copy, fresh, astray>>
  <2> DEFINE f == [temp[t] EXCEPT !.synced = TRUE]
  <2>1. temp[t] \in Files
    BY DEF Sync, Inv, TypeOK, TempInv
  <2>0. f \in Files /\ f.rows = temp[t].rows /\ f.synced
    BY <2>1 DEF Files
  <2>2. f \in Files /\ f # NoFile /\ f.rows = temp[t].rows /\ f.synced
    BY <2>0, FileKinds
  <2>3. /\ pc[t] = "written" /\ pc'[t] = "synced" /\ temp'[t] = f
        /\ \A u \in Threads : u # t => pc'[u] = pc[u] /\ temp'[u] = temp[u]
    BY <1>1 DEF Sync, Flush, Inv, TypeOK
  <2>4. TypeOK'
    BY <1>1, <2>2 DEF Flush, Inv, TypeOK
  <2> HIDE DEF f
  <2>5. CallInv'
    BY <1>1, <2>3 DEF Inv, CallInv
  <2>6. MutexInv'
    BY <2>3 DEF Inv, MutexInv
  <2>7. FreshInv'
    BY <1>1, <2>3 DEF Inv, TypeOK, FreshInv, Change, FileRows
  <2>8. TempInv' /\ FileInv'
    BY <1>1, <2>2, <2>3 DEF Inv, TempInv, FileInv
  <2> QED BY <2>4, <2>5, <2>6, <2>7, <2>8 DEF Inv
<1> QED BY <1>1, FailStep DEF Sync

\* No other thread of the process holds a copy, so none stays fresh.
LEMMA RenameStep == ASSUME Inv, NEW t \in Threads, Rename(t) PROVE Inv'
<1>1. CASE /\ file' = temp[t]
           /\ Answer(t, Store!Ok)
           /\ astray' = (astray \/ t \notin fresh)
           /\ fresh' = {u \in fresh \ {t} : Process[u] = Process[t]}
           /\ UNCHANGED disk
  <2>1. pc[t] = "synced" /\ temp[t] \in Files /\ temp[t].synced /\ temp[t] # NoFile
    BY DEF Rename, Inv, TypeOK, TempInv
  <2>2. fresh' = {}
    BY <1>1, <2>1 DEF Inv, TypeOK, MutexInv, FreshInv
  <2>3. TypeOK'
    BY <1>1, <2>1, <2>2, AnswerType, ErrorType DEF Inv, TypeOK
  <2>4. CallInv' /\ MutexInv' /\ TempInv'
    BY <1>1, <2>1, AnswerCall, AnswerMutex, AnswerTemp, ErrorType DEF Inv
  <2>5. FreshInv'
    BY <2>2 DEF FreshInv
  <2>6. FileInv'
    BY <1>1, <2>1, FileAssumption DEF Inv, FileInv
  <2> QED BY <2>3, <2>4, <2>5, <2>6 DEF Inv
<1> QED BY <1>1, FailStep DEF Rename

LEMMA ReturnStep == ASSUME Inv, NEW t \in Threads, Return(t) PROVE Inv'
<1>1. /\ pc[t] = "answered" /\ pc'[t] = "idle" /\ calls'[t] = NoCall
      /\ \A u \in Threads : u # t => pc'[u] = pc[u] /\ calls'[u] = calls[u]
  BY DEF Return, Inv, TypeOK
<1>2. TypeOK'
  BY DEF Return, Inv, TypeOK
<1>3. CallInv'
  BY <1>1 DEF Inv, CallInv
<1>4. MutexInv'
  BY <1>1 DEF Inv, MutexInv
<1>5. FreshInv'
  BY <1>1 DEF Return, Inv, TypeOK, FreshInv, Change, FileRows
<1>6. TempInv' /\ FileInv'
  BY <1>1 DEF Return, Inv, TempInv, FileInv
<1> QED BY <1>2, <1>3, <1>4, <1>5, <1>6 DEF Inv
\* The threads that die were in no call, or are in none any more.
LEMMA DieStep ==
    ASSUME Inv, NEW T \in SUBSET Threads, Die(T), FileInv', file' \in Files \cup {NoFile},
           disk' \in Files \cup {NoFile}, astray' \in BOOLEAN,
           file' = file \/ T = Threads
    PROVE  Inv'
<1>1. \A t \in Threads :
         IF t \in T THEN pc'[t] = "idle" /\ calls'[t] = NoCall /\ temp'[t] = NoFile
         ELSE pc'[t] = pc[t] /\ calls'[t] = calls[t] /\ temp'[t] = temp[t] /\ copy'[t] = copy[t]
  BY DEF Die
<1>2. TypeOK'
  <2>1. NoRows \in RowSets
    BY DEF NoRows, RowSets
  <2> QED BY <2>1 DEF Die, Inv, TypeOK
<1>3. CallInv'
  BY <1>1 DEF Inv, CallInv
<1>4. MutexInv'
  BY <1>1 DEF Inv, MutexInv
<1>5. TempInv'
  BY <1>1 DEF Inv, TempInv
<1>6. FreshInv'
  <2>1. CASE T = Threads
    BY <2>1 DEF Die, Inv, TypeOK, FreshInv
  <2>2. CASE file' = file
    <3>1. \A t \in fresh' : t \in fresh /\ t \in Threads /\ t \notin T
      BY DEF Die, Inv, TypeOK
    <3>2. \A t \in fresh' : Change(t)' = Change(t)
      BY <1>1, <2>2, <3>1 DEF Change, FileRows
    <3> QED BY <1>1, <3>1, <3>2 DEF Inv, FreshInv
  <2> QED BY <2>1, <2>2
<1> QED BY <1>2, <1>3, <1>4, <1>5, <1>6 DEF Inv

LEMMA CrashStep == ASSUME Inv, NEW p \in Processes, Crash(p) PROVE Inv'
<1>1. FileInv' /\ file' = file /\ file' \in Files \cup {NoFile} /\ disk' \in Files \cup {NoFile} /\ astray' \in BOOLEAN
  BY DEF Crash, Inv, TypeOK, FileInv
<1> QED BY <1>1, DieStep DEF Crash

\* A file that was not synced would come back torn.
LEMMA PowerLossStep == ASSUME Inv, PowerLoss PROVE Inv'
<1>1. \A f \in {file, disk} : f # Torn /\ (f # NoFile => f.synced) /\ f \in Files \cup {NoFile}
  BY DEF Inv, TypeOK, FileInv
<1>2. file' \in {disk, file} /\ disk' = file'
  BY <1>1, FileKinds DEF PowerLoss
<1>3. FileInv' /\ file' \in Files \cup {NoFile} /\ disk' \in Files \cup {NoFile}
  BY <1>1, <1>2 DEF FileInv
<1>4. astray' \in BOOLEAN
  BY DEF PowerLoss
<1> QED BY <1>3, <1>4, DieStep DEF PowerLoss

LEMMA WriteBackStep == ASSUME Inv, WriteBack PROVE Inv'
<1>1. TypeOK' /\ CallInv' /\ MutexInv' /\ TempInv' /\ FileInv'
  BY DEF WriteBack, Inv, TypeOK, CallInv, MutexInv, TempInv, FileInv
<1>2. FreshInv'
  BY DEF WriteBack, Inv, FreshInv, Change, FileRows
<1> QED BY <1>1, <1>2 DEF Inv

LEMMA StutterStep == ASSUME Inv, UNCHANGED vars PROVE Inv'
<1>1. TypeOK' /\ CallInv' /\ MutexInv' /\ TempInv' /\ FileInv'
  BY DEF vars, Inv, TypeOK, CallInv, MutexInv, TempInv, FileInv
<1>2. FreshInv'
  BY DEF vars, Inv, FreshInv, Change, FileRows
<1> QED BY <1>1, <1>2 DEF Inv

LEMMA NextInv == ASSUME Inv, [Next]_vars PROVE Inv'
<1>1. ASSUME NEW t \in Threads, NEW op \in Store!Ops, NEW s \in States,
             Call(t, op, IF op = "save" THEN s ELSE None)
      PROVE  Inv'
  BY <1>1, CallStep
<1>2. ASSUME NEW t \in Threads, Step(t) \/ Return(t) PROVE Inv'
  BY <1>2, ReadStep, WriteStep, SyncStep, RenameStep, ReturnStep DEF Step
<1>3. CASE \E p \in Processes : Crash(p)
  BY <1>3, CrashStep
<1>4. CASE WriteBack \/ PowerLoss \/ UNCHANGED vars
  BY <1>4, WriteBackStep, PowerLossStep, StutterStep
<1> QED BY <1>1, <1>2, <1>3, <1>4 DEF Next

-----------------------------------------------------------------------------
\* Refinement: every step is one of SessionStore, or none of its business.

LEMMA InitRefines == ASSUME Init PROVE Store!StoreInit
<1>1. FileRows = NoRows
  BY DEF Init, FileRows
<1> QED BY <1>1 DEF Init, Store!StoreInit, NoRows

LEMMA FailRefines == ASSUME Inv, NEW t \in Threads, pc[t] \notin {"idle", "answered"}, Fail(t)
                     PROVE  Store!Act(t)
<1>1. calls[t] # NoCall /\ calls[t].result = None /\ FileRows' = FileRows
  BY DEF Inv, CallInv, Fail, FileRows
<1> QED BY <1>1 DEF Fail, Answer, Store!Act, Store!StoreAnswer

LEMMA LoadRefines == ASSUME Inv, NEW t \in Threads, pc[t] = "called", Load(t) PROVE Store!Act(t)
<1>1. calls[t] # NoCall /\ calls[t].result = None /\ FileRows' = FileRows
  BY DEF Inv, CallInv, Load, FileRows
<1> QED BY <1>1 DEF Load, Answer, Store!Act, Store!StoreAnswer

LEMMA BeginRefines ==
    ASSUME Inv, NEW t \in Threads, pc[t] = "called", Begin(t)
    PROVE  Store!Act(t) \/ UNCHANGED Store!storeVars
<1>1. calls[t] # NoCall /\ calls[t].result = None /\ FileRows' = FileRows
  BY DEF Inv, CallInv, Begin, FileRows
<1>2. CASE calls[t].op = "delete" /\ file = NoFile /\ Answer(t, Store!NotFound)
  <2>1. FileRows = NoRows /\ NoRows[Account[t]] = NoRow /\ NoRows = [NoRows EXCEPT ![Account[t]] = NoRow]
    BY <1>2, FileAssumption DEF FileRows, NoRows
  <2> QED BY <1>1, <1>2, <2>1 DEF Answer, Store!Act, Store!StoreAnswer
<1>3. CASE UNCHANGED calls
  BY <1>1, <1>3 DEF Store!storeVars
<1> QED BY <1>2, <1>3 DEF Begin

LEMMA ReadRefines ==
    ASSUME Inv, NEW t \in Threads, Read(t)
    PROVE  Store!Act(t) \/ UNCHANGED Store!storeVars
  BY FailRefines, LoadRefines, BeginRefines DEF Read

\* What a fresh thread renames is the file with its row changed.
LEMMA RenameRefines ==
    ASSUME Inv, NEW t \in Threads, Rename(t), ~ astray'
    PROVE  Store!Act(t)
<1>1. CASE Fail(t)
  BY <1>1, FailRefines DEF Rename
<1>2. CASE file' = temp[t] /\ Answer(t, Store!Ok) /\ astray' = (astray \/ t \notin fresh)
  <2>1. calls[t] # NoCall /\ calls[t].result = None /\ calls[t].op \in {"save", "delete"}
    BY DEF Rename, Inv, CallInv
  <2>2. temp[t] \in Files /\ temp[t].rows = Change(t)
    BY <1>2 DEF Rename, Inv, TypeOK, TempInv, FreshInv
  <2>3. FileRows' = Change(t)
    BY <1>2, <2>2, FileKinds DEF FileRows
  <2> QED BY <1>2, <2>1, <2>3 DEF Change, Answer, Store!Act, Store!StoreAnswer
<1> QED BY <1>1, <1>2 DEF Rename

LEMMA StepRefines ==
    ASSUME Inv, NEW t \in Threads, Step(t), ~ astray'
    PROVE  Store!Act(t) \/ UNCHANGED Store!storeVars
<1>1. CASE Read(t)
  BY <1>1, ReadRefines
<1>2. CASE Write(t)
  BY <1>2, FailRefines DEF Write, Store!storeVars, FileRows
<1>3. CASE Sync(t)
  BY <1>3, FailRefines DEF Sync, Store!storeVars, FileRows
<1>4. CASE Rename(t)
  BY <1>4, RenameRefines
<1> QED BY <1>1, <1>2, <1>3, <1>4 DEF Step

LEMMA CallRefines ==
    ASSUME Inv, NEW t \in Threads, NEW op \in Store!Ops, NEW s \in States \cup {None}, Call(t, op, s)
    PROVE  Store!StoreCall(t)
  BY DEF Call, Inv, CallInv, Store!StoreCall, FileRows

LEMMA ReturnRefines == ASSUME Inv, NEW t \in Threads, Return(t) PROVE Store!StoreReturn(t)
  BY DEF Return, Inv, CallInv, Store!StoreReturn, FileRows

LEMMA DieRefines == ASSUME NEW T, Die(T), file' = file PROVE Store!StoreCrash(T)
  BY DEF Die, Store!StoreCrash, FileRows

LEMMA NextRefines ==
    ASSUME Inv, [Next]_vars
    PROVE  astray' \/ [Store!StoreNext]_Store!storeVars
<1> SUFFICES ASSUME ~ astray' PROVE Store!StoreNext \/ UNCHANGED Store!storeVars
  OBVIOUS
<1>1. ASSUME NEW t \in Threads, NEW op \in Store!Ops, NEW s \in States,
             Call(t, op, IF op = "save" THEN s ELSE None)
      PROVE  Store!StoreNext
  BY <1>1, CallRefines DEF Store!StoreNext
<1>2. ASSUME NEW t \in Threads, Step(t) \/ Return(t)
      PROVE  Store!StoreNext \/ UNCHANGED Store!storeVars
  BY <1>2, StepRefines, ReturnRefines DEF Store!StoreNext
<1>3. ASSUME NEW p \in Processes, Crash(p) PROVE Store!StoreNext
  BY <1>3, DieRefines DEF Crash, Store!StoreNext
<1>4. CASE PowerLoss
  BY <1>4, DieRefines DEF PowerLoss, Store!StoreNext
<1>5. CASE WriteBack \/ UNCHANGED vars
  BY <1>5 DEF WriteBack, vars, Store!storeVars, FileRows
<1> QED BY <1>1, <1>2, <1>3, <1>4, <1>5 DEF Next
-----------------------------------------------------------------------------
(* Theorems of the file by itself.  SessionsProofs carries them over to a    *)
(* Client that uses it.                                                      *)

THEOREM Invariance == Spec => []Inv
<1>1. Init => Inv
  BY InitInv
<1>2. Inv /\ [Next]_vars => Inv'
  BY NextInv
<1> QED BY <1>1, <1>2, PTL DEF Spec

\* The file can always be read, and what a Client is told of it is what
\* SessionStore says, unless another process or the disk was in its way
\* (fileSessionStore, session_store.go).
THEOREM FileImplementsStore == Spec => []Readable /\ []NoLitter /\ Implements
<1>1. Inv => Readable /\ NoLitter
  BY DEF Inv, FileInv, TempInv, Readable, NoLitter
<1>2. Init => Store!StoreInit
  BY InitRefines
<1>3. Inv /\ [Next]_vars => [astray' \/ [Store!StoreNext]_Store!storeVars]_vars
  BY NextRefines
<1> QED BY <1>1, <1>2, <1>3, Invariance, PTL DEF Spec, Implements
=============================================================================
