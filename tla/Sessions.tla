------------------------------- MODULE Sessions -------------------------------
(***************************************************************************)
(* A Client whose session is in the file of the example, from one process  *)
(* to the next: its answers set cookies in its jar and save them, it       *)
(* restores them and clears them, while other accounts and another process *)
(* use the file, processes die and the power goes off.                     *)
(***************************************************************************)
EXTENDS FileStore, Jar

CONSTANTS
    Me,             \* the thread of the Client
    SetCookies,     \* what JoinQuant sets
    OtherStates,    \* what other Clients save
    MaxTime,        \* bound of the clock
    MaxCalls        \* bound: calls that Clients make, and cookies set without one

ASSUME SessionAssumption ==
    /\ Me \in Threads /\ \A t \in Threads \ {Me} : Account[t] # Account[Me]
    /\ States = [Slots -> Cookies] /\ OtherStates \subseteq States
    /\ SetCookies \subseteq [slot : Slots, value : Values, maxAge : Int, expires : 0 .. Forever]
    /\ MaxTime \in Nat /\ MaxCalls \in Nat
    /\ MaxTime < Forever /\ \A c \in SetCookies : MaxTime + c.maxAge < Forever

VARIABLES
    now,
    made,           \* how many there were
    jar,            \* the jar of the Client
    plain,          \* history: all cookies set since it was empty or restored were plain
    settled         \* history: its last call to the store was good and no cookie was set since

sessionVars == <<file, disk, temp, calls, pc, copy, fresh, astray,
                 now, made, jar, plain, settled>>

client == <<now, made, jar, plain, settled>>
Mine == Account[Me]
Others == Threads \ {Me}

SessionTypeOK ==
    /\ TypeOK
    /\ now \in 0 .. MaxTime /\ made \in 0 .. MaxCalls /\ jar \in Jars /\ plain \in BOOLEAN /\ settled \in BOOLEAN

SessionInit == Init /\ now = 0 /\ made = 0 /\ jar = EmptyJar /\ plain = TRUE /\ settled = FALSE

-----------------------------------------------------------------------------
Count == made < MaxCalls /\ made' = made + 1

Set(c) ==
    /\ jar' = SetCookie(jar, c, now)
    /\ plain' = (plain /\ Plain(c, now))

\* The last answer of a request sets cookies: do saves the jar.
Answered(c) ==
    /\ Set(c)
    /\ Call(Me, "save", Snapshot(jar', now))
    /\ settled' = FALSE
    /\ Count /\ UNCHANGED now

\* A redirect, an error, a download or WithCookies sets them: nothing is saved.
SetOnly(c) ==
    /\ pc[Me] = "idle"
    /\ Set(c)
    /\ settled' = FALSE
    /\ Count /\ UNCHANGED <<vars, now>>

ClearSession ==
    /\ jar' = EmptyJar /\ plain' = TRUE /\ settled' = FALSE
    /\ Call(Me, "delete", None)
    /\ Count /\ UNCHANGED now

Restore ==
    /\ Call(Me, "load", None)
    /\ Count /\ UNCHANGED <<now, jar, plain, settled>>

\* A row that is found replaces the jar, an ErrSessionNotFound of Delete is none.
Returned ==
    /\ Return(Me)
    /\ LET call == calls[Me] IN
       \/ /\ call.op = "load" /\ call.result.status = "ok"
          /\ jar' = Replace(call.result.state, now) /\ plain' = TRUE /\ settled' = TRUE
       \/ /\ call.op # "load"
          /\ settled' = (call.result.status # "error") /\ UNCHANGED <<jar, plain>>
       \/ /\ call.op = "load" /\ call.result.status # "ok"
          /\ UNCHANGED <<jar, plain, settled>>
    /\ UNCHANGED <<now, made>>

\* The process of the Client, or another one, dies; the next one starts with no cookies.
Restart ==
    /\ jar' = EmptyJar /\ plain' = TRUE /\ settled' = FALSE
    /\ UNCHANGED <<now, made>>

SessionCrash(p) ==
    /\ Crash(p)
    /\ IF p = Process[Me] THEN Restart ELSE UNCHANGED client

SessionPowerLoss == PowerLoss /\ Restart

Work(t) == Step(t) /\ UNCHANGED client

Other(t) ==
    /\ Count
    /\ \/ \E s \in OtherStates : Call(t, "save", s)
       \/ \E op \in {"load", "delete"} : Call(t, op, None)
    /\ UNCHANGED <<now, jar, plain, settled>>

Tick ==
    /\ now < MaxTime /\ now' = now + 1
    /\ UNCHANGED <<vars, made, jar, plain, settled>>

SessionNext ==
    \/ \E c \in SetCookies : Answered(c) \/ SetOnly(c)
    \/ ClearSession \/ Restore \/ Returned
    \/ \E t \in Threads : Work(t)
    \/ \E t \in Others : Other(t) \/ (Return(t) /\ UNCHANGED client)
    \/ \E p \in Processes : SessionCrash(p)
    \/ SessionPowerLoss \/ Tick
    \/ WriteBack /\ UNCHANGED client

SessionSpec == SessionInit /\ [][SessionNext]_sessionVars

-----------------------------------------------------------------------------
(* Properties.                                                               *)

\* What a Client that started now would send.
NextSends ==
    LET row == FileRows[Mine] IN
    Sent(IF row = NoRow THEN EmptyJar ELSE Replace(row, now), now)

\* Were the process to die now, the next one would send JoinQuant the same
\* cookies, and none that JoinQuant let expire or that ClearSession removed.
\* It is so after every call that saved, cleared or restored the session without
\* an error, however long ago, whatever other accounts did to the file since.
Resumes == settled /\ pc[Me] = "idle" /\ plain /\ ~ astray => NextSends = Sent(jar, now)
=============================================================================
