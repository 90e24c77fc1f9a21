----------------------------- MODULE SessionStore -----------------------------
(***************************************************************************)
(* What a Client relies on when it is given a SessionStore (auth.go): one  *)
(* row per account, and calls that take effect once, at one moment between *)
(* their start and their return, or fail and change nothing.               *)
(***************************************************************************)
CONSTANTS
    Threads,        \* who may call it, one call at a time
    Accounts,       \* the account keys
    Account,        \* the account of each thread
    States,         \* session states
    NoRow,          \* what the row of an account without a session holds
    NoCall,         \* what a thread that is not in a call does
    None            \* neither: the argument of a Load, the result of a pending call

VARIABLES
    rows,       \* the session of every account
    calls       \* the call each thread is in

storeVars == <<rows, calls>>

Ops == {"load", "save", "delete"}
Loaded(s) == [status |-> "ok", state |-> s]
Ok == Loaded(None)
NotFound == [status |-> "not found", state |-> None]
Error == [status |-> "error", state |-> None]
Results == [status : {"ok", "not found", "error"}, state : States \cup {None}]
Calls == [op : Ops, state : States \cup {None}, result : Results \cup {None}]

StoreInit ==
    /\ rows = [a \in Accounts |-> NoRow]
    /\ calls = [t \in Threads |-> NoCall]

StoreCall(t) ==
    /\ calls[t] = NoCall
    /\ \E op \in Ops, s \in States \cup {None} :
          calls' = [calls EXCEPT ![t] = [op |-> op, state |-> s, result |-> None]]
    /\ UNCHANGED rows

StoreAnswer(t, r) == calls' = [calls EXCEPT ![t] = [@ EXCEPT !.result = r]]

\* The effect of a call and its result.  To delete what is not there is no error
\* but may be said to be.
Act(t) ==
    /\ calls[t] # NoCall /\ calls[t].result = None
    /\ LET a == Account[t] IN
       \/ /\ calls[t].op = "load"
          /\ StoreAnswer(t, IF rows[a] = NoRow THEN NotFound ELSE Loaded(rows[a]))
          /\ UNCHANGED rows
       \/ /\ calls[t].op = "save"
          /\ rows' = [rows EXCEPT ![a] = calls[t].state]
          /\ StoreAnswer(t, Ok)
       \/ /\ calls[t].op = "delete"
          /\ rows' = [rows EXCEPT ![a] = NoRow]
          /\ \E r \in {Ok} \cup (IF rows[a] = NoRow THEN {NotFound} ELSE {}) : StoreAnswer(t, r)
       \/ StoreAnswer(t, Error) /\ UNCHANGED rows

StoreReturn(t) ==
    /\ calls[t] # NoCall /\ calls[t].result # None
    /\ calls' = [calls EXCEPT ![t] = NoCall]
    /\ UNCHANGED rows

\* The processes of some threads die.
StoreCrash(T) ==
    /\ calls' = [t \in Threads |-> IF t \in T THEN NoCall ELSE calls[t]]
    /\ UNCHANGED rows

StoreNext ==
    \/ \E t \in Threads : StoreCall(t) \/ Act(t) \/ StoreReturn(t)
    \/ \E T \in SUBSET Threads : StoreCrash(T)

StoreSpec == StoreInit /\ [][StoreNext]_storeVars
=============================================================================
