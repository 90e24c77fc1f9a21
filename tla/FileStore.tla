------------------------------ MODULE FileStore ------------------------------
(***************************************************************************)
(* fileSessionStore of examples/all/session_store.go: the sessions of all  *)
(* accounts in one file.  Every operation reads the file under the mutex   *)
(* of its process; a Save or a Delete changes one row of what it read,     *)
(* writes all rows to a temporary file, syncs it and renames it over the   *)
(* old one.  A step may fail, a process may die and the power may go off.  *)
(*                                                                         *)
(* SessionStore is what the callers of the file rely on.                   *)
(***************************************************************************)
EXTENDS FiniteSets

CONSTANTS Threads, Accounts, Account, States, NoRow, NoCall, None,
    Processes, Process,     \* the process of each thread
    NoFile, Torn            \* no file yet; a file that cannot be read as JSON

VARIABLES
    file,       \* what is under the path
    disk,       \* what will be there after the power went off, at the earliest
    temp,       \* the temporary file of each thread
    calls,      \* the call each thread is in, as in SessionStore
    pc,         \* where in it the thread is
    copy,       \* the rows a thread that holds the mutex is to write
    fresh,      \* history: the writing threads that no other process has overtaken
    astray      \* history: a write of one process was undone by another's, or by the disk

vars == <<file, disk, temp, calls, pc, copy, fresh, astray>>

RowSets == [Accounts -> States \cup {NoRow}]
NoRows == [a \in Accounts |-> NoRow]
Files == [rows : RowSets, synced : BOOLEAN]

\* The rows that the file stands for.
FileRows == IF file \in {NoFile, Torn} THEN NoRows ELSE file.rows

Store == INSTANCE SessionStore WITH rows <- FileRows

ASSUME FileAssumption ==
    /\ Account \in [Threads -> Accounts] /\ Process \in [Threads -> Processes]
    /\ {NoRow, NoCall, None} \cap States = {} /\ NoRow # NoCall /\ None \notin {NoRow, NoCall}
    /\ NoCall \notin Store!Calls /\ None \notin Store!Results
    /\ {NoFile, Torn} \cap Files = {} /\ NoFile # Torn

Steps == {"idle", "called", "read", "written", "synced", "answered"}
Holding == {"read", "written", "synced"}
Writing == {"written", "synced"}

TypeOK ==
    /\ file \in Files \cup {NoFile, Torn} /\ disk \in Files \cup {NoFile, Torn}
    /\ temp \in [Threads -> Files \cup {NoFile}]
    /\ calls \in [Threads -> Store!Calls \cup {NoCall}]
    /\ pc \in [Threads -> Steps]
    /\ copy \in [Threads -> RowSets]
    /\ fresh \subseteq Threads /\ astray \in BOOLEAN

Init ==
    /\ file = NoFile /\ disk = NoFile
    /\ temp = [t \in Threads |-> NoFile]
    /\ calls = [t \in Threads |-> NoCall]
    /\ pc = [t \in Threads |-> "idle"]
    /\ copy = [t \in Threads |-> NoRows]
    /\ fresh = {} /\ astray = FALSE

-----------------------------------------------------------------------------
Call(t, op, s) ==
    /\ pc[t] = "idle"
    /\ pc' = [pc EXCEPT ![t] = "called"]
    /\ calls' = [calls EXCEPT ![t] = [op |-> op, state |-> s, result |-> None]]
    /\ UNCHANGED <<file, disk, temp, copy, fresh, astray>>

\* The call is decided; defer gives the mutex back and removes the temporary file.
AnswerKeepingTemp(t, r) ==
    /\ pc' = [pc EXCEPT ![t] = "answered"]
    /\ calls' = [calls EXCEPT ![t] = [@ EXCEPT !.result = r]]
    /\ copy' = [copy EXCEPT ![t] = NoRows]
    /\ UNCHANGED temp

Answer(t, r) ==
    /\ pc' = [pc EXCEPT ![t] = "answered"]
    /\ calls' = [calls EXCEPT ![t] = [@ EXCEPT !.result = r]]
    /\ copy' = [copy EXCEPT ![t] = NoRows]
    /\ temp' = [temp EXCEPT ![t] = NoFile]

Fail(t) ==
    /\ Answer(t, Store!Error)
    /\ fresh' = fresh \ {t}
    /\ UNCHANGED <<file, disk, astray>>

\* Mutant of Free: no mutex.
FreeAlways(t) == TRUE

Free(t) == \A u \in Threads : Process[u] = Process[t] => pc[u] \notin Holding

Load(t) ==
    /\ calls[t].op = "load"
    /\ LET s == FileRows[Account[t]] IN
          Answer(t, IF s = NoRow THEN Store!NotFound ELSE Store!Loaded(s))
    /\ UNCHANGED <<file, disk, fresh, astray>>

\* Mutant of Change: Save takes a file that is not there for an error of its own,
\* and starts from nothing.
ChangeFromNothing(t) == [NoRows EXCEPT ![Account[t]] = IF calls[t].op = "save" THEN calls[t].state ELSE NoRow]

Change(t) == [FileRows EXCEPT ![Account[t]] = IF calls[t].op = "save" THEN calls[t].state ELSE NoRow]

\* A Save starts a file that is not there, a Delete has nothing to do.
Begin(t) ==
    \/ /\ calls[t].op = "delete" /\ file = NoFile
       /\ Answer(t, Store!NotFound)
       /\ UNCHANGED <<file, disk, fresh, astray>>
    \/ /\ calls[t].op = "save" \/ (calls[t].op = "delete" /\ file # NoFile)
       /\ pc' = [pc EXCEPT ![t] = "read"]
       /\ copy' = [copy EXCEPT ![t] = Change(t)]
       /\ fresh' = fresh \cup {t}
       /\ UNCHANGED <<file, disk, temp, calls, astray>>

Read(t) ==
    /\ pc[t] = "called" /\ Free(t)
    /\ IF file = Torn THEN Fail(t) ELSE Load(t) \/ Begin(t) \/ Fail(t)

Write(t) ==
    /\ pc[t] = "read"
    /\ \/ /\ pc' = [pc EXCEPT ![t] = "written"]
          /\ temp' = [temp EXCEPT ![t] = [rows |-> copy[t], synced |-> FALSE]]
          /\ UNCHANGED <<file, disk, calls, copy, fresh, astray>>
       \/ Fail(t)

\* Mutant of Flush: Sync is left out.
FlushNothing(t) == UNCHANGED temp

Flush(t) == temp' = [temp EXCEPT ![t].synced = TRUE]

Sync(t) ==
    /\ pc[t] = "written"
    /\ \/ /\ pc' = [pc EXCEPT ![t] = "synced"]
          /\ Flush(t)
          /\ UNCHANGED <<file, disk, calls, copy, fresh, astray>>
       \/ Fail(t)

Rename(t) ==
    /\ pc[t] = "synced"
    /\ \/ /\ file' = temp[t]
          /\ Answer(t, Store!Ok)
          /\ astray' = (astray \/ t \notin fresh)
          /\ fresh' = {u \in fresh \ {t} : Process[u] = Process[t]}
          /\ UNCHANGED disk
       \/ Fail(t)

Return(t) ==
    /\ pc[t] = "answered"
    /\ pc' = [pc EXCEPT ![t] = "idle"]
    /\ calls' = [calls EXCEPT ![t] = NoCall]
    /\ UNCHANGED <<file, disk, temp, copy, fresh, astray>>

-----------------------------------------------------------------------------
(* What the system does.  Nobody syncs the directory: a rename reaches the   *)
(* disk some time later, and the data of a file that was not synced may not  *)
(* have.                                                                     *)

WriteBack ==
    /\ disk' = file
    /\ UNCHANGED <<file, temp, calls, pc, copy, fresh, astray>>

\* A temporary file that a dead process leaves is not followed further.
Die(T) ==
    /\ temp' = [t \in Threads |-> IF t \in T THEN NoFile ELSE temp[t]]
    /\ calls' = [t \in Threads |-> IF t \in T THEN NoCall ELSE calls[t]]
    /\ pc' = [t \in Threads |-> IF t \in T THEN "idle" ELSE pc[t]]
    /\ copy' = [t \in Threads |-> IF t \in T THEN NoRows ELSE copy[t]]
    /\ fresh' = fresh \ T

Crash(p) ==
    /\ Die({t \in Threads : Process[t] = p})
    /\ UNCHANGED <<file, disk, astray>>

PowerLoss ==
    /\ Die(Threads)
    /\ file' \in {disk, IF file \in Files /\ ~ file.synced THEN Torn ELSE file}
    /\ disk' = file'
    /\ astray' = (astray \/ file' # file)

Step(t) == Read(t) \/ Write(t) \/ Sync(t) \/ Rename(t)

Next ==
    \/ \E t \in Threads :
          \/ \E op \in Store!Ops, s \in States : Call(t, op, IF op = "save" THEN s ELSE None)
          \/ Step(t) \/ Return(t)
    \/ \E p \in Processes : Crash(p)
    \/ WriteBack \/ PowerLoss

Spec == Init /\ [][Next]_vars

-----------------------------------------------------------------------------
(* Properties.                                                               *)

\* The file can always be read: no crash and no loss of power leaves half of it,
\* after which every Load and every Save would fail for good.
Readable == file # Torn

\* Sessions are secret: an operation that is over, also one that failed half-way,
\* has left no copy of them in a temporary file.
NoLitter == \A t \in Threads : temp[t] # NoFile => pc[t] \in Writing

\* Threads of one process, and processes that take turns, get what SessionStore
\* promises: rows of other accounts kept, one effect per call, none of a failed one.
Implements ==
    Store!StoreInit /\ [][astray' \/ [Store!StoreNext]_Store!storeVars]_vars
=============================================================================
