-------------------------------- MODULE Auth --------------------------------
(***************************************************************************)
(* The session and login protocol of the client (auth.go, login_guard.go,  *)
(* session.go and the request path of client.go) for ONE account key.      *)
(*                                                                         *)
(* Clients are Client objects, each in a process of its own; Callers are   *)
(* the goroutines that call them.  They share the account's SessionStore   *)
(* row, the LoginGuard lock and its LoginState record, and JoinQuant.      *)
(*                                                                         *)
(* A step is atomic only where the code makes it so: it ends wherever the  *)
(* goroutine waits for a lock, for the network or for a store, unless what *)
(* it touches meanwhile is protected by a lock it holds.                   *)
(***************************************************************************)
EXTENDS Integers, FiniteSets

CONSTANTS
    Clients, Callers,
    Owner,          \* the client each caller uses
    NoCaller,       \* no goroutine holds the lock
    Providers,      \* the clients built WithCredentialProvider
    Seeded,         \* those built WithCookies, or on a jar that has cookies
    Operations,     \* the entry points each caller uses
    Stored,         \* WithSessionStore was given
    Guarded,        \* WithLoginGuard was given
    RefreshCookies, \* JoinQuant sets cookies on answers other than a login's
    Cooldown,       \* the five minutes of login_guard.go:131
    MaxTime, MaxSessions, MaxGeneration   \* bounds of the model

AllOperations == {"read", "plain", "authenticate", "login", "clear", "reset"}

ASSUME CallersAssumption ==
    /\ Owner \in [Callers -> Clients]
    /\ NoCaller \notin Callers
    /\ Providers \subseteq Clients /\ Seeded \subseteq Clients
    /\ Operations \in [Callers -> SUBSET AllOperations]

\* New refuses a guard without a store.
ASSUME OptionsAssumption ==
    /\ {Stored, Guarded, RefreshCookies} \subseteq BOOLEAN
    /\ Guarded => Stored

ASSUME BoundsAssumption ==
    /\ Cooldown \in Nat /\ MaxTime \in Nat
    /\ MaxSessions \in Nat /\ MaxGeneration \in Nat

VARIABLES
    now,            \* the wall clock
    valid,          \* sessions JoinQuant still honours
    issued,         \* the last session it issued
    store,          \* the SessionStore row: the session its cookies carry
    guardLock,      \* the caller that holds LoginGuard.Lock
    guardState,     \* the LoginState the guard holds
    jar,            \* Client.jar: the session cookie in memory
    loaded,         \* Client.sessionLoaded
    gen,            \* Client.authGeneration
    authMu,         \* the caller that holds Client.authMu
    mem,            \* Client.loginState
    pc, call,       \* where each caller is, and in which operation
    obs,            \* the generation a read observed before its request
    copy,           \* the jar a caller read earlier and still uses: the Cookie
                    \* header of its request, then the Snapshot it will Save
    tries,          \* history: POSTs since the record that protects a client
    coolUntil,      \*   was last cleared, and the cool-down of the last one
    renewed,        \* history: the last session confirmed and persisted
    cleared         \* history: sessions up to this one were given up

serverVars == <<valid, issued>>
guardVars  == <<guardLock, guardState>>
memVars    == <<jar, loaded, gen, mem>>
callerVars == <<pc, call, obs, copy>>
tryVars    == <<tries, coolUntil>>
pastVars   == <<renewed, cleared>>
otherVars == <<now, serverVars, store, guardVars, memVars, authMu, tryVars, pastVars>>
vars == <<otherVars, callerVars>>

-----------------------------------------------------------------------------
(* A session is a number in order of issue; 0 is a jar (or a row) whose     *)
(* cookies carry no session.                                                *)
Sessions == 0 .. MaxSessions
NoRow == -1                      \* ErrSessionNotFound

MaxAttempts == 3

LoginState == [pending: BOOLEAN, blocked: BOOLEAN, attempts: Nat, retryAfter: Nat]
Unprotected == [pending |-> FALSE, blocked |-> FALSE, attempts |-> 0, retryAfter |-> 0]

\* A Save can fail although the write landed ("unsure").
WriteOutcomes == {"ok", "failed", "unsure"}
StoreOutcomes == IF Stored THEN WriteOutcomes ELSE {"ok"}
GuardOutcomes == IF Guarded THEN WriteOutcomes ELSE {"ok"}

\* The points at which a caller holds the login lock.
LoginPoints == {"probe", "gate", "post", "await", "confirm", "persist", "resolve"}
\* Those at which its password POST may have reached JoinQuant.
PostedPoints == {"await", "confirm", "persist", "resolve"}
MuPoints == LoginPoints \cup {"lock", "reset", "delete"}
Points == MuPoints \cup {"idle", "observe", "send", "wait", "saveReturn", "saveRenew", "mu"}

\* The record that limits the logins of client c, and the clients under it.
Record(c) == IF Guarded THEN guardState ELSE mem[c]
Sharing(c) == IF Guarded THEN Clients ELSE {c}

\* What the jar of a new client c can hold: nothing, or what its user got before.
Given(c) == IF c \in Seeded THEN 0 .. issued ELSE {0}

Renews(t) == call[t] = "read" /\ Owner[t] \in Providers

-----------------------------------------------------------------------------
TypeOK ==
    /\ now \in Nat
    /\ issued \in Sessions /\ valid \subseteq (1 .. issued)
    /\ store \in Sessions \cup {NoRow}
    /\ guardLock \in Callers \cup {NoCaller}
    /\ guardState \in LoginState
    /\ jar \in [Clients -> Sessions]
    /\ loaded \in [Clients -> BOOLEAN]
    /\ gen \in [Clients -> Nat]
    /\ authMu \in [Clients -> Callers \cup {NoCaller}]
    /\ mem \in [Clients -> LoginState]
    /\ pc \in [Callers -> Points]
    /\ call \in [Callers -> AllOperations \cup {"none"}]
    /\ obs \in [Callers -> Nat]
    /\ copy \in [Callers -> Sessions]
    /\ tries \in [Clients -> Nat]
    /\ coolUntil \in [Clients -> Nat]
    /\ renewed \in Sessions /\ cleared \in Sessions

(* Freshly built clients.  An earlier process may have left a session in    *)
(* the store, and the user may have got newer ones in a browser; any of      *)
(* them may have expired since.                                             *)
Init ==
    /\ now = 0
    /\ issued \in Sessions
    /\ valid \in SUBSET (1 .. issued)
    /\ store \in {NoRow} \cup IF Stored THEN 0 .. issued ELSE {}
    /\ guardLock = NoCaller /\ guardState = Unprotected
    /\ jar \in [Clients -> Sessions] /\ \A c \in Clients : jar[c] \in Given(c)
    /\ loaded = [c \in Clients |-> FALSE]
    /\ gen = [c \in Clients |-> 0]
    /\ authMu = [c \in Clients |-> NoCaller]
    /\ mem = [c \in Clients |-> Unprotected]
    /\ pc = [t \in Callers |-> "idle"]
    /\ call = [t \in Callers |-> "none"]
    /\ obs = [t \in Callers |-> 0]
    /\ copy = [t \in Callers |-> 0]
    /\ tries = [c \in Clients |-> 0]
    /\ coolUntil = [c \in Clients |-> 0]
    /\ renewed = IF store = NoRow THEN 0 ELSE store
    /\ cleared = 0

-----------------------------------------------------------------------------
(* Control of one caller.                                                   *)

Goto(t, point) ==
    /\ pc' = [pc EXCEPT ![t] = point]
    /\ UNCHANGED <<call, obs, copy>>

Return(t) ==
    /\ pc' = [pc EXCEPT ![t] = "idle"]
    /\ call' = [call EXCEPT ![t] = "none"]
    /\ obs' = [obs EXCEPT ![t] = 0]
    /\ copy' = [copy EXCEPT ![t] = 0]

\* Mutant of Retry: the second request may renew again.
RetryAgain(t) ==
    /\ pc' = [pc EXCEPT ![t] = "send"]
    /\ obs' = [obs EXCEPT ![t] = gen[Owner[t]]]
    /\ copy' = [copy EXCEPT ![t] = 0]
    /\ UNCHANGED call

\* The second and last request of a read: its error is returned as it is.
Retry(t) ==
    /\ pc' = [pc EXCEPT ![t] = "send"]
    /\ call' = [call EXCEPT ![t] = "plain"]
    /\ obs' = [obs EXCEPT ![t] = 0]
    /\ copy' = [copy EXCEPT ![t] = 0]

AwaitMu(t) ==
    /\ pc' = [pc EXCEPT ![t] = "mu"]
    /\ copy' = [copy EXCEPT ![t] = 0]
    /\ UNCHANGED <<call, obs>>

HoldMu(t) == authMu' = [authMu EXCEPT ![Owner[t]] = t]
ReleaseMu(t) == authMu' = [authMu EXCEPT ![Owner[t]] = NoCaller]
\* Mutant of MuFree: authMu is not taken.
MuIgnored(t) == TRUE

MuFree(t) == authMu[Owner[t]] = NoCaller

\* Mutant of TakeGuard: the LoginGuard lock is not taken.
GuardIgnored(t) == UNCHANGED guardLock

TakeGuard(t) == guardLock = NoCaller /\ guardLock' = IF Guarded THEN t ELSE NoCaller

\* Mutant of EndLogin: an error path forgets to unlock the guard.
EndLoginLocked(t, ok) ==
    /\ ReleaseMu(t)
    /\ guardLock' = IF ok THEN NoCaller ELSE guardLock
    /\ IF ok /\ call[t] = "read" THEN Retry(t) ELSE Return(t)

\* The deferred unlocks of protectedLoginLocked and of its callers.
EndLogin(t, ok) ==
    /\ ReleaseMu(t)
    /\ guardLock' = NoCaller
    /\ IF ok /\ call[t] = "read" THEN Retry(t) ELSE Return(t)

-----------------------------------------------------------------------------
(* Writes to the store and to the guard.                                    *)

PutRow(s, outcome) ==
    store' = IF Stored /\ outcome # "failed" THEN s ELSE store

\* A request made under authMu whose answer may set cookies saves the jar,
\* which only the holder of authMu changes.
MaySaveJar(c) ==
    store' \in {store} \cup (IF Stored /\ RefreshCookies THEN {jar[c]} ELSE {})

StoreLoginState(c, state, outcome) ==
    /\ mem' = [mem EXCEPT ![c] = state]
    /\ guardState' = IF Guarded /\ outcome # "failed" THEN state ELSE guardState

ForgetTries(c, outcome) ==
    LET gone == IF outcome = "failed" THEN {} ELSE Sharing(c)
    IN  /\ tries' = [d \in Clients |-> IF d \in gone THEN 0 ELSE tries[d]]
        /\ coolUntil' = [d \in Clients |-> IF d \in gone THEN 0 ELSE coolUntil[d]]

-----------------------------------------------------------------------------
(* Requests: reads (getEnvelopeHeaders, getHTML), and everything that goes  *)
(* through do once with no renewal (Session and the write requests).        *)

BeginRead(t) ==
    /\ pc[t] = "idle" /\ "read" \in Operations[t]
    /\ pc' = [pc EXCEPT ![t] = "observe"]
    /\ call' = [call EXCEPT ![t] = "read"]
    /\ UNCHANGED <<otherVars, obs, copy>>

\* currentAuthGeneration, which has to wait for authMu.
ObserveGeneration(t) ==
    /\ pc[t] = "observe" /\ MuFree(t)
    /\ obs' = [obs EXCEPT ![t] = gen[Owner[t]]]
    /\ pc' = [pc EXCEPT ![t] = "send"]
    /\ UNCHANGED <<otherVars, call, copy>>

BeginPlain(t) ==
    /\ pc[t] = "idle" /\ "plain" \in Operations[t]
    /\ pc' = [pc EXCEPT ![t] = "send"]
    /\ call' = [call EXCEPT ![t] = "plain"]
    /\ UNCHANGED <<otherVars, obs, copy>>

Send(t) ==
    /\ pc[t] = "send"
    /\ pc' = [pc EXCEPT ![t] = "wait"]
    /\ copy' = [copy EXCEPT ![t] = jar[Owner[t]]]
    /\ UNCHANGED <<otherVars, call, obs>>

\* Data, an error, or an expired session nobody will renew: the call returns.
AnswerReturns(t) ==
    /\ pc[t] = "wait"
    /\ Return(t)
    /\ UNCHANGED otherVars

AnswerExpired(t) ==
    /\ pc[t] = "wait" /\ copy[t] \notin valid /\ Renews(t)
    /\ AwaitMu(t)
    /\ UNCHANGED otherVars

\* A 2xx answer with Set-Cookie: do takes a Snapshot of the jar, then Saves it
\* without authMu or the guard, and only then is the body decoded.
AnswerSetsCookies(t) ==
    /\ pc[t] = "wait" /\ Stored /\ RefreshCookies
    /\ pc' = [pc EXCEPT ![t] = IF copy[t] \notin valid /\ Renews(t)
                               THEN "saveRenew" ELSE "saveReturn"]
    /\ copy' = [copy EXCEPT ![t] = jar[Owner[t]]]
    /\ UNCHANGED <<otherVars, call, obs>>

SaveSnapshot(t) ==
    /\ pc[t] \in {"saveReturn", "saveRenew"}
    /\ \E outcome \in WriteOutcomes :
          /\ PutRow(copy[t], outcome)
          /\ IF outcome = "ok" /\ pc[t] = "saveRenew" THEN AwaitMu(t) ELSE Return(t)
    /\ UNCHANGED <<now, serverVars, guardVars, memVars, authMu, tryVars, pastVars>>

-----------------------------------------------------------------------------
(* Operations that take authMu.                                             *)

Begin(t, op) ==
    /\ pc[t] = "idle" /\ op \in Operations[t] \cap {"authenticate", "login", "clear", "reset"}
    /\ op = "clear" => gen[Owner[t]] < MaxGeneration
    /\ pc' = [pc EXCEPT ![t] = "mu"]
    /\ call' = [call EXCEPT ![t] = op]
    /\ UNCHANGED <<otherVars, obs, copy>>

\* reauthenticate: the generation moved on while the read was in flight.
SkipRenewal(t) ==
    /\ pc[t] = "mu" /\ call[t] = "read" /\ MuFree(t)
    /\ gen[Owner[t]] # obs[t]
    /\ Retry(t)
    /\ UNCHANGED otherVars

TakeMu(t) ==
    /\ pc[t] = "mu" /\ call[t] \in {"read", "authenticate", "login", "reset"} /\ MuFree(t)
    /\ call[t] = "read" => gen[Owner[t]] = obs[t]
    /\ HoldMu(t)
    /\ Goto(t, IF call[t] = "reset" THEN "reset" ELSE "lock")
    /\ UNCHANGED <<now, serverVars, store, guardVars, memVars, tryVars, pastVars>>

\* Mutant of ClearJar: the jar is kept.
ClearRowOnly(t) ==
    LET c == Owner[t] IN
    /\ pc[t] = "mu" /\ call[t] = "clear" /\ MuFree(t)
    /\ gen' = [gen EXCEPT ![c] = @ + 1]
    /\ renewed' = 0
    /\ HoldMu(t) /\ Goto(t, "delete")
    /\ UNCHANGED <<now, serverVars, store, guardVars, mem, tryVars, jar, loaded, cleared>>

\* ClearSession empties the jar, then deletes the row, under authMu alone.
ClearJar(t) ==
    LET c == Owner[t] IN
    /\ pc[t] = "mu" /\ call[t] = "clear" /\ MuFree(t)
    /\ jar' = [jar EXCEPT ![c] = 0]
    /\ loaded' = [loaded EXCEPT ![c] = TRUE]
    /\ gen' = [gen EXCEPT ![c] = @ + 1]
    /\ renewed' = 0
    /\ IF Stored
       THEN HoldMu(t) /\ Goto(t, "delete") /\ UNCHANGED cleared
       ELSE Return(t) /\ cleared' = issued /\ UNCHANGED authMu
    /\ UNCHANGED <<now, serverVars, store, guardVars, mem, tryVars>>

DeleteRow(t) ==
    /\ pc[t] = "delete"
    /\ \E outcome \in WriteOutcomes :
          /\ PutRow(NoRow, outcome)
          /\ cleared' = IF outcome = "ok" THEN issued ELSE cleared
    /\ renewed' = 0
    /\ ReleaseMu(t) /\ Return(t)
    /\ UNCHANGED <<now, serverVars, guardVars, memVars, tryVars>>

ResetProtection(t) ==
    LET c == Owner[t] IN
    /\ pc[t] = "reset" /\ guardLock = NoCaller
    /\ \E outcome \in GuardOutcomes :
          /\ StoreLoginState(c, Unprotected, outcome)
          /\ ForgetTries(c, outcome)
    /\ ReleaseMu(t) /\ Return(t)
    /\ UNCHANGED <<now, serverVars, store, guardLock, jar, loaded, gen, pastVars>>

-----------------------------------------------------------------------------
(* protectedLoginLocked, under authMu.                                      *)

\* The guard's lock cannot be had (or its Load fails, or the context ended).
LockFails(t) ==
    /\ pc[t] \in {"lock", "reset"}
    /\ ReleaseMu(t) /\ Return(t)
    /\ UNCHANGED <<now, serverVars, store, guardVars, memVars, tryVars, pastVars>>

\* Mutants of Reloads: the row is never read again once it was loaded, or
\* always.
ReloadsOnce(c) == Stored /\ ~ loaded[c]
ReloadsAlways(c) == Stored

Reloads(c) == Stored /\ (~ loaded[c] \/ Guarded)

\* Lock, Load the record, reload the row, and decide whether to probe: only a
\* Login on an empty jar skips the probe, and aux cookies may fill the jar.
EnterLogin(t) ==
    LET c == Owner[t] IN
    /\ pc[t] = "lock" /\ TakeGuard(t)
    /\ mem' = IF Guarded THEN [mem EXCEPT ![c] = guardState] ELSE mem
    /\ jar' = IF Reloads(c) /\ store # NoRow THEN [jar EXCEPT ![c] = store] ELSE jar
    /\ loaded' = [loaded EXCEPT ![c] = @ \/ Stored]
    /\ \/ Goto(t, "probe")
       \/ call[t] = "login" /\ jar'[c] = 0 /\ Goto(t, "gate")
    /\ UNCHANGED <<now, serverVars, store, guardState, gen, authMu, tryVars, pastVars>>

\* The record was loaded, the row could not be.
ReloadFails(t) ==
    LET c == Owner[t] IN
    /\ pc[t] = "lock" /\ guardLock = NoCaller /\ Reloads(c)
    /\ mem' = IF Guarded THEN [mem EXCEPT ![c] = guardState] ELSE mem
    /\ EndLogin(t, FALSE)
    /\ UNCHANGED <<now, serverVars, store, guardState, jar, loaded, gen, tryVars, pastVars>>

\* The session is alive: a record an ambiguous login left behind is cleared.
ProbeValid(t) ==
    LET c == Owner[t] IN
    /\ pc[t] = "probe" /\ jar[c] \in valid
    /\ MaySaveJar(c)
    /\ IF mem[c] = Unprotected
       THEN EndLogin(t, TRUE) /\ UNCHANGED <<mem, guardState, tryVars>>
       ELSE \E outcome \in GuardOutcomes :
               /\ StoreLoginState(c, Unprotected, outcome)
               /\ ForgetTries(c, outcome)
               /\ EndLogin(t, outcome = "ok")
    /\ UNCHANGED <<now, serverVars, jar, loaded, gen, pastVars>>

\* Mutant of ProbeExpired: any failed probe leads to a password.
ProbeOtherError(t) ==
    LET c == Owner[t] IN
    /\ pc[t] = "probe"
    /\ MaySaveJar(c)
    /\ Goto(t, "gate")
    /\ UNCHANGED <<now, serverVars, guardVars, memVars, authMu, tryVars, pastVars>>

ProbeExpired(t) ==
    LET c == Owner[t] IN
    /\ pc[t] = "probe" /\ jar[c] \notin valid
    /\ MaySaveJar(c)
    /\ Goto(t, "gate")
    /\ UNCHANGED <<now, serverVars, guardVars, memVars, authMu, tryVars, pastVars>>

\* Any other answer ends the login without a password.
ProbeFails(t) ==
    /\ pc[t] = "probe"
    /\ MaySaveJar(Owner[t])
    /\ EndLogin(t, FALSE)
    /\ UNCHANGED <<now, serverVars, guardState, memVars, tryVars, pastVars>>

\* Blocked, cooling down, no provider, or a provider without credentials (which
\* can happen whatever the record says).
GateRefuses(t) ==
    /\ pc[t] = "gate"
    /\ EndLogin(t, FALSE)
    /\ UNCHANGED <<now, serverVars, store, guardState, memVars, tryVars, pastVars>>

\* Mutants of MayLogin: an off-by-one, no cool-down, no look at blocked.
MayLoginOnceMore(c) ==
    /\ ~ mem[c].blocked /\ mem[c].attempts <= MaxAttempts
    /\ now >= mem[c].retryAfter
MayLoginWhileCooling(c) == ~ mem[c].blocked /\ mem[c].attempts < MaxAttempts
MayLoginWhenBlocked(c) == mem[c].attempts < MaxAttempts /\ now >= mem[c].retryAfter

MayLogin(c) ==
    /\ ~ mem[c].blocked /\ mem[c].attempts < MaxAttempts
    /\ now >= mem[c].retryAfter

\* Mutant of NextAttempt: attempts left instead of attempts made.
CountDown(c) ==
    [pending |-> TRUE, blocked |-> FALSE,
     attempts |-> mem[c].attempts - 1, retryAfter |-> now + Cooldown]

NextAttempt(c) ==
    [pending |-> TRUE, blocked |-> FALSE,
     attempts |-> mem[c].attempts + 1, retryAfter |-> now + Cooldown]

\* Mutant of Reserve: the record is saved only once the answer is known.
ReserveInMemory(t) ==
    LET c == Owner[t] IN
    /\ pc[t] = "gate" /\ MayLogin(c)
    /\ call[t] = "login" \/ c \in Providers
    /\ mem' = [mem EXCEPT ![c] = NextAttempt(c)]
    /\ Goto(t, "post")
    /\ UNCHANGED <<now, serverVars, store, jar, loaded, gen, tryVars, pastVars,
                   authMu, guardVars>>

\* The attempt is recorded before the password leaves.
Reserve(t) ==
    LET c == Owner[t] IN
    /\ pc[t] = "gate" /\ MayLogin(c)
    /\ call[t] = "login" \/ c \in Providers
    /\ \E outcome \in GuardOutcomes :
          /\ StoreLoginState(c, NextAttempt(c), outcome)
          /\ IF outcome = "ok"
             THEN Goto(t, "post") /\ UNCHANGED <<authMu, guardLock>>
             ELSE EndLogin(t, FALSE)
    /\ UNCHANGED <<now, serverVars, store, jar, loaded, gen, tryVars, pastVars>>

PostPassword(t) ==
    LET c == Owner[t] IN
    /\ pc[t] = "post"
    /\ Goto(t, "await")
    /\ tries' = [d \in Clients |-> IF d \in Sharing(c) THEN tries[d] + 1 ELSE tries[d]]
    /\ coolUntil' = [d \in Clients |->
                        IF d \in Sharing(c) THEN mem[c].retryAfter ELSE coolUntil[d]]
    /\ UNCHANGED <<now, serverVars, store, guardVars, memVars, authMu, pastVars>>

\* The error path after the POST; definite: JoinQuant answered with a refusal.
Settle(t, definite) ==
    LET c == Owner[t]
        state == [mem[c] EXCEPT !.pending = FALSE,
                                !.blocked = definite \/ mem[c].attempts >= MaxAttempts]
    IN  /\ \E outcome \in GuardOutcomes : StoreLoginState(c, state, outcome)
        /\ EndLogin(t, FALSE)

\* A session is issued; do saves the jar before the body is decoded, so a body
\* that does not decode (garbled) leaves the session saved and the login failed.
LoginAccepted(t) ==
    LET c == Owner[t]
        session == issued + 1
    IN
    /\ pc[t] = "await" /\ issued < MaxSessions
    /\ issued' = session
    /\ valid' = valid \cup {session}
    /\ jar' = [jar EXCEPT ![c] = session]
    /\ \E outcome \in StoreOutcomes, garbled \in BOOLEAN :
          /\ PutRow(session, outcome)
          /\ IF outcome = "ok" /\ ~ garbled
             THEN Goto(t, "confirm") /\ UNCHANGED <<mem, guardVars, authMu>>
             ELSE Settle(t, FALSE)
    /\ UNCHANGED <<now, loaded, gen, tryVars, pastVars>>

\* Refused, throttled, failed, or the answer is lost (whatever JoinQuant did).
LoginFails(t) ==
    /\ pc[t] = "await"
    /\ MaySaveJar(Owner[t])
    /\ \E definite \in BOOLEAN : Settle(t, definite)
    /\ UNCHANGED <<now, serverVars, jar, loaded, gen, tryVars, pastVars>>

\* loginOnce ends by asking JoinQuant who is logged in.
ConfirmValid(t) ==
    LET c == Owner[t] IN
    /\ pc[t] = "confirm" /\ jar[c] \in valid
    /\ MaySaveJar(c)
    /\ Goto(t, "persist")
    /\ UNCHANGED <<now, serverVars, guardVars, memVars, authMu, tryVars, pastVars>>

ConfirmFails(t) ==
    /\ pc[t] = "confirm"
    /\ MaySaveJar(Owner[t])
    /\ \E definite \in BOOLEAN : Settle(t, definite)
    /\ UNCHANGED <<now, serverVars, jar, loaded, gen, tryVars, pastVars>>

PersistSession(t) ==
    LET c == Owner[t] IN
    /\ pc[t] = "persist"
    /\ gen' = [gen EXCEPT ![c] = @ + 1]
    /\ \E outcome \in StoreOutcomes :
          /\ PutRow(jar[c], outcome)
          /\ IF outcome = "ok"
             THEN Goto(t, "resolve") /\ renewed' = jar[c] /\ UNCHANGED <<authMu, guardLock>>
             ELSE EndLogin(t, FALSE) /\ UNCHANGED renewed
    /\ UNCHANGED <<now, serverVars, guardState, jar, loaded, mem, tryVars, cleared>>

ResolveLogin(t) ==
    LET c == Owner[t] IN
    /\ pc[t] = "resolve"
    /\ \E outcome \in GuardOutcomes :
          /\ StoreLoginState(c, Unprotected, outcome)
          /\ ForgetTries(c, outcome)
          /\ EndLogin(t, outcome = "ok")
    /\ UNCHANGED <<now, serverVars, store, jar, loaded, gen, pastVars>>

-----------------------------------------------------------------------------
(* The environment.                                                         *)

\* A process dies and a fresh one takes its place; the guard's lock, held by
\* the process, is released, and an unguarded client's record dies with it.
Crash(c) ==
    LET dead == {t \in Callers : Owner[t] = c} IN
    /\ \E s \in Given(c) : jar' = [jar EXCEPT ![c] = s]
    /\ loaded' = [loaded EXCEPT ![c] = FALSE]
    /\ gen' = [gen EXCEPT ![c] = 0]
    /\ authMu' = [authMu EXCEPT ![c] = NoCaller]
    /\ mem' = [mem EXCEPT ![c] = Unprotected]
    /\ guardLock' = IF guardLock \in dead THEN NoCaller ELSE guardLock
    /\ pc' = [t \in Callers |-> IF t \in dead THEN "idle" ELSE pc[t]]
    /\ call' = [t \in Callers |-> IF t \in dead THEN "none" ELSE call[t]]
    /\ obs' = [t \in Callers |-> IF t \in dead THEN 0 ELSE obs[t]]
    /\ copy' = [t \in Callers |-> IF t \in dead THEN 0 ELSE copy[t]]
    /\ tries' = IF Guarded THEN tries ELSE [tries EXCEPT ![c] = 0]
    /\ coolUntil' = IF Guarded THEN coolUntil ELSE [coolUntil EXCEPT ![c] = 0]
    /\ UNCHANGED <<now, serverVars, store, guardState, pastVars>>

Expire(s) ==
    /\ s \in valid
    /\ valid' = valid \ {s}
    /\ UNCHANGED <<now, issued, store, guardVars, memVars, authMu, callerVars,
                   tryVars, pastVars>>

Tick ==
    /\ now < MaxTime
    /\ now' = now + 1
    /\ UNCHANGED <<serverVars, store, guardVars, memVars, authMu, callerVars,
                   tryVars, pastVars>>

-----------------------------------------------------------------------------
Starts(t) == BeginRead(t) \/ BeginPlain(t) \/ \E op \in AllOperations : Begin(t, op)

AcquireMu(t) == ObserveGeneration(t) \/ SkipRenewal(t) \/ TakeMu(t) \/ ClearJar(t)
AcquireGuard(t) == EnterLogin(t) \/ ReloadFails(t) \/ ResetProtection(t)

\* The steps a goroutine takes on its own once its call has started.
Proceed(t) ==
    \/ Send(t) \/ AnswerReturns(t) \/ AnswerExpired(t) \/ AnswerSetsCookies(t)
    \/ SaveSnapshot(t) \/ DeleteRow(t)
    \/ ProbeValid(t) \/ ProbeExpired(t) \/ ProbeFails(t)
    \/ GateRefuses(t) \/ Reserve(t) \/ PostPassword(t)
    \/ LoginAccepted(t) \/ LoginFails(t) \/ ConfirmValid(t) \/ ConfirmFails(t)
    \/ PersistSession(t) \/ ResolveLogin(t)

\* A step of the call itself, whatever it needed to go on.
Advances(t) == AcquireMu(t) \/ AcquireGuard(t) \/ LockFails(t) \/ Proceed(t)

Next ==
    \/ \E t \in Callers : Starts(t) \/ Advances(t)
    \/ \E c \in Clients : Crash(c)
    \/ \E s \in Sessions : Expire(s)
    \/ Tick

Spec == Init /\ [][Next]_vars

(* A goroutine runs on; requests end (http.Client has a timeout); sync.Mutex *)
(* starves nobody; the guard's lock is given to somebody, but LoginGuard does *)
(* not say that everybody gets it.  Nothing makes a context end, a process   *)
(* die, a session expire or a caller start.                                  *)
Fairness == \A t \in Callers :
    WF_vars(Proceed(t)) /\ SF_vars(AcquireMu(t)) /\ WF_vars(AcquireGuard(t))

FairSpec == Spec /\ Fairness

-----------------------------------------------------------------------------
(* Properties.                                                              *)

\* Whoever logs in, crashes or fails to save, at most three passwords are sent
\* for an account (for an unguarded client, by it) until a session is confirmed
\* or the user resets the protection.
LoginBudget == \A c \in Clients : tries[c] <= MaxAttempts

\* While a password may be at JoinQuant with no outcome recorded, the record
\* that survives a crash says so and still counts the attempt.
DurableIntent ==
    \A t \in Callers : pc[t] \in PostedPoints =>
        LET r == Record(Owner[t]) IN
        r.pending /\ r.attempts >= tries[Owner[t]] /\ r.retryAfter >= coolUntil[Owner[t]]

\* Two calls are never between the check of the record and its update: in one
\* client because of authMu, across processes because of the guard.
LoginExclusive ==
    \A t, u \in Callers :
        /\ pc[t] \in LoginPoints /\ pc[u] \in LoginPoints
        /\ Guarded \/ Owner[t] = Owner[u]
        => t = u

\* No password is sent while the cool-down of an earlier unresolved one runs,
\* whichever process sent it.
CooldownKept ==
    [][\A t \in Callers : PostPassword(t) /\ tries[Owner[t]] > 0
                             => now >= coolUntil[Owner[t]]]_vars

\* No password is sent while the session the last login confirmed and saved
\* is still alive: who takes the lock finds it in the store.
NoRedundantLogin == [][\A t \in Callers : PostPassword(t) => renewed \notin valid]_vars

\* The store never goes back from a session to one issued before it.
StoreNeverRegresses == [][store' = NoRow \/ store' >= store]_vars

\* With one client: once ClearSession has returned nil, none of the sessions it
\* gave up is in memory or in the store again.
ClearedStaysCleared ==
    /\ store \notin 1 .. cleared
    /\ \A c \in Clients : jar[c] \notin 1 .. cleared

(* Why these hold: the parts of the inductive invariant.                    *)

\* Whoever is past a lock holds it.
MuHeld == \A t \in Callers : pc[t] \in MuPoints => authMu[Owner[t]] = t
GuardHeld == Guarded => \A t \in Callers : pc[t] \in LoginPoints => guardLock = t

\* The locks belong to calls that are still under them, in their own client.
LocksOwned ==
    /\ \A t \in Callers : guardLock = t => pc[t] \in LoginPoints /\ Guarded
    /\ \A c \in Clients, t \in Callers :
          authMu[c] = t => Owner[t] = c /\ pc[t] \in MuPoints

\* Under the lock, the record in memory is the one the guard holds.
RecordFresh ==
    Guarded => \A t \in Callers : pc[t] \in LoginPoints => mem[Owner[t]] = guardState

\* A jar with a session was loaded from the row, or filled after the row was loaded.
JarLoaded ==
    Stored => /\ \A c \in Clients : jar[c] # 0 => loaded[c]
              /\ \A t \in Callers : pc[t] \in LoginPoints => loaded[Owner[t]]

\* The record never counts fewer attempts than there were, nor more than three,
\* and remembers the cool-down of the last.
Counted(c) ==
    /\ tries[c] <= Record(c).attempts /\ Record(c).attempts <= MaxAttempts
    /\ tries[c] > 0 => Record(c).retryAfter >= coolUntil[c]

\* What the record says once an attempt is reserved, and once it is sent.
Reserved(c) ==
    LET r == Record(c) IN
    /\ r.pending /\ ~ r.blocked /\ r.attempts > tries[c] /\ r.retryAfter >= Cooldown
    /\ tries[c] > 0 => now >= coolUntil[c] /\ r.retryAfter >= coolUntil[c] + Cooldown
Posted(c) == Record(c).pending /\ ~ Record(c).blocked /\ tries[c] > 0

RecordInv ==
    /\ \A c \in Clients : Counted(c)
    /\ \A t \in Callers : \A c \in Sharing(Owner[t]) :
          /\ pc[t] = "post" => Reserved(c)
          /\ pc[t] \in PostedPoints => Posted(c)
LocksInv == MuHeld /\ GuardHeld /\ RecordFresh

\* The guard's record and the steps around it implement the promise of
\* LoginLimiter for every client, also when a Save fails or a process dies.
Limiter(c) == INSTANCE LoginLimiter WITH
    MaxPosts <- MaxAttempts, clock <- now,
    posted <- tries[c], quietUntil <- coolUntil[c], blocked <- Record(c).blocked
LimitsLogins ==
    /\ \A c \in Clients : Limiter(c)!Init
    /\ [][\A c \in Clients : [Limiter(c)!Next]_(Limiter(c)!observed)]_vars

\* Whom a caller waits for, if it waits for a lock that is taken.
Blocker(t) ==
    CASE pc[t] \in {"observe", "mu"} -> authMu[Owner[t]]
      [] pc[t] \in {"lock", "reset"} -> guardLock
      [] OTHER                       -> NoCaller
Runs(t) == pc[t] # "idle" /\ Blocker(t) = NoCaller

\* Nobody waits for ever by the order in which the code takes its locks: who
\* waits for one waits for a call that runs, or for one that holds authMu and
\* waits for a call of another client that holds the guard and runs.
NoDeadlock ==
    \A t \in Callers : Blocker(t) # NoCaller =>
        LET u == Blocker(t) IN
        \/ Runs(u)
        \/ pc[t] \in {"observe", "mu"} /\ Owner[Blocker(u)] # Owner[u] /\ Runs(Blocker(u))

\* The steps a call has left at most, when no lock is taken: a read sends two
\* requests and renews the session once between them.
StepsLeft(t) ==
    CASE pc[t] = "idle"  -> 0
      [] pc[t] \in {"saveReturn", "delete", "reset"} -> 1
      [] pc[t] = "wait"  -> IF call[t] = "read" THEN 14 ELSE 2
      [] pc[t] = "send"  -> IF call[t] = "read" THEN 15 ELSE 3
      [] pc[t] = "resolve" -> 4
      [] pc[t] = "persist" -> 5
      [] pc[t] = "confirm" -> 6
      [] pc[t] = "await" -> 7
      [] pc[t] = "post"  -> 8
      [] pc[t] = "gate"  -> 9
      [] pc[t] = "probe" -> 10
      [] pc[t] = "lock"  -> 11
      [] pc[t] = "mu"    -> 12
      [] pc[t] = "saveRenew" -> 13
      [] pc[t] = "observe" -> 16

\* A call never goes back: each step of its own brings it nearer to its end,
\* whatever is answered, fails or expires, and no step of another call takes it
\* away from it.
CallsAreShort ==
    [][\A t \in Callers :
          /\ Advances(t) => StepsLeft(t)' < StepsLeft(t)
          /\ pc[t] # "idle" => StepsLeft(t)' <= StepsLeft(t)]_vars

\* A call that takes the login lock does not lose a live session its client has.
\* (It may, if the client was Seeded: EnterLogin puts the row over what it was given.)
LiveSessionReused ==
    [][\A t \in Callers : EnterLogin(t) /\ jar[Owner[t]] \in valid
                             => jar'[Owner[t]] \in valid]_vars

\* A call waits for ever for the guard, which others take and give back meanwhile,
\* again and again.
Overtaken(t) ==
    /\ <>[](pc[t] \in {"lock", "reset"})
    /\ []<>(guardLock = NoCaller) /\ []<>(guardLock # NoCaller)

\* Every call returns or its process dies, also those that wait for authMu behind
\* a login; unless a call of its client is overtaken at the guard for ever.
CallsReturn ==
    \A t \in Callers :
        \/ []<>(pc[t] = "idle")
        \/ \E u \in Callers : Owner[u] = Owner[t] /\ Overtaken(u)
=============================================================================
