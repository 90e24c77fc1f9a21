-------------------------- MODULE AuthCallsProofs --------------------------
(* Proofs about the course of the calls of Auth: whom they wait for, how    *)
(* many steps they take, and what a call without a guard keeps.             *)
EXTENDS AuthProofs

USE DEF AllOperations, Sessions, NoRow, MaxAttempts, WriteOutcomes,
        StoreOutcomes, GuardOutcomes, LoginPoints, PostedPoints, MuPoints, Points,
        otherVars

(***************************************************************************)
(* The owners of the locks.                                                *)
(***************************************************************************)

LEMMA InitOwned == Init => LocksOwned
BY CallersAssumption DEF Init, LocksOwned

\* t holds no lock before or after the step, or goes on holding the same.
LEMMA OwnedKept ==
    ASSUME TypeOK, LocksOwned, NEW t \in Callers,
           \A u \in Callers \ {t} : pc'[u] = pc[u],
           pc[t] \in MuPoints => pc'[t] \in MuPoints,
           pc[t] \in LoginPoints => pc'[t] \in LoginPoints,
           UNCHANGED <<authMu, guardLock>>
    PROVE  LocksOwned'
BY DEF LocksOwned

\* t takes the lock of its client.
LEMMA OwnedTaken ==
    ASSUME TypeOK, LocksOwned, NEW t \in Callers, NEW point \in MuPoints,
           pc[t] = "mu", HoldMu(t), Goto(t, point), guardLock' = guardLock
    PROVE  LocksOwned'
<1>1. \A u \in Callers \ {t} : pc'[u] = pc[u]
  BY DEF Goto, TypeOK
<1>2. pc'[t] = point
  BY DEF Goto, TypeOK
<1>3. /\ authMu'[Owner[t]] = t
      /\ \A d \in Clients \ {Owner[t]} : authMu'[d] = authMu[d]
  BY CallersAssumption DEF HoldMu, TypeOK
<1> QED
  BY <1>1, <1>2, <1>3, CallersAssumption DEF LocksOwned

\* t lets go of what it holds.
LEMMA OwnedReleased ==
    ASSUME TypeOK, LocksOwned, NEW t \in Callers, ReleaseMu(t),
           \A u \in Callers \ {t} : pc'[u] = pc[u],
           \/ guardLock' = NoCaller
           \/ guardLock' = guardLock /\ pc[t] \notin LoginPoints
    PROVE  LocksOwned'
<1>1. /\ authMu'[Owner[t]] = NoCaller
      /\ \A d \in Clients \ {Owner[t]} : authMu'[d] = authMu[d]
  BY CallersAssumption DEF ReleaseMu, TypeOK
<1>2. \A c \in Clients : authMu'[c] # t
  BY <1>1, CallersAssumption DEF LocksOwned
<1>3. guardLock' # t
  BY CallersAssumption DEF LocksOwned
<1> QED
  BY <1>1, <1>2, <1>3, CallersAssumption DEF LocksOwned

LEMMA EndLoginOwned ==
    ASSUME TypeOK, LocksOwned, NEW t \in Callers, NEW ok \in BOOLEAN, EndLogin(t, ok)
    PROVE  LocksOwned'
<1>1. \A u \in Callers \ {t} : pc'[u] = pc[u]
  BY DEF EndLogin, Retry, Return, TypeOK
<1> QED
  BY <1>1, OwnedReleased DEF EndLogin

LEMMA GotoOwned ==
    ASSUME TypeOK, LocksOwned, NEW t \in Callers, NEW point \in LoginPoints,
           Goto(t, point), UNCHANGED <<authMu, guardLock>>
    PROVE  LocksOwned'
<1>1. (\A u \in Callers \ {t} : pc'[u] = pc[u]) /\ pc'[t] = point
  BY DEF Goto, TypeOK
<1> QED
  BY <1>1, OwnedKept

LEMMA NextOwned == TypeOK /\ LocksOwned /\ [Next]_vars => LocksOwned'
<1> SUFFICES ASSUME TypeOK, LocksOwned, [Next]_vars PROVE LocksOwned'
  OBVIOUS
<1> USE CallersAssumption
<1>1. ASSUME NEW t \in Callers,
             Starts(t) \/ ObserveGeneration(t) \/ SkipRenewal(t) \/ Send(t) \/ AnswerReturns(t) \/ AnswerExpired(t)
             \/ AnswerSetsCookies(t) \/ SaveSnapshot(t)
      PROVE  LocksOwned'
  <2>1. /\ pc[t] \notin MuPoints /\ UNCHANGED <<authMu, guardLock>>
        /\ \E point \in Points : pc' = [pc EXCEPT ![t] = point]
    BY <1>1 DEF Starts, BeginRead, BeginPlain, Begin, ObserveGeneration, SkipRenewal, Send, AnswerReturns, AnswerExpired,
       AnswerSetsCookies, SaveSnapshot, AwaitMu, Retry, Return, guardVars
  <2>2. \A u \in Callers \ {t} : pc'[u] = pc[u]
    BY <2>1 DEF TypeOK
  <2> QED BY <2>1, <2>2, OwnedKept
<1>2. ASSUME NEW t \in Callers, TakeMu(t) PROVE LocksOwned'
  <2>1. /\ pc[t] = "mu" /\ HoldMu(t) /\ guardLock' = guardLock
        /\ \E point \in {"reset", "lock"} : Goto(t, point)
    BY <1>2 DEF TakeMu, guardVars
  <2> QED BY <2>1, OwnedTaken
<1>3. ASSUME NEW t \in Callers, ClearJar(t) PROVE LocksOwned'
  <2>1. pc[t] = "mu" /\ guardLock' = guardLock
    BY <1>3 DEF ClearJar, guardVars
  <2>2. CASE Stored
    <3>1. HoldMu(t) /\ Goto(t, "delete") BY <1>3, <2>2 DEF ClearJar
    <3> QED BY <2>1, <3>1, OwnedTaken
  <2>3. CASE ~ Stored
    <3>1. Return(t) /\ authMu' = authMu BY <1>3, <2>3 DEF ClearJar
    <3>2. \A u \in Callers \ {t} : pc'[u] = pc[u] BY <3>1 DEF Return, TypeOK
    <3> QED BY <2>1, <3>1, <3>2, OwnedKept
  <2> QED BY <2>2, <2>3
<1>4. ASSUME NEW t \in Callers, DeleteRow(t) \/ LockFails(t) \/ ResetProtection(t) PROVE LocksOwned'
  <2>1. pc[t] \notin LoginPoints /\ ReleaseMu(t) /\ Return(t) /\ guardLock' = guardLock
    BY <1>4 DEF DeleteRow, LockFails, ResetProtection, guardVars
  <2>2. \A u \in Callers \ {t} : pc'[u] = pc[u]
    BY <2>1 DEF Return, TypeOK
  <2> QED BY <2>1, <2>2, OwnedReleased
<1>5. ASSUME NEW t \in Callers, EnterLogin(t) PROVE LocksOwned'
  <2>1. /\ \A u \in Callers \ {t} : pc'[u] = pc[u]
        /\ pc[t] = "lock" /\ pc'[t] \in {"probe", "gate"}
        /\ authMu' = authMu /\ guardLock' = IF Guarded THEN t ELSE NoCaller
    BY <1>5 DEF EnterLogin, TakeGuard, Goto, TypeOK
  <2> QED BY <2>1 DEF LocksOwned
<1>6. ASSUME NEW t \in Callers, ReloadFails(t) \/ ProbeFails(t) \/ GateRefuses(t) \/ ProbeValid(t)
                                \/ ResolveLogin(t)
      PROVE  LocksOwned'
  <2>1. \E ok \in BOOLEAN : EndLogin(t, ok)
    BY <1>6 DEF ReloadFails, ProbeFails, GateRefuses, ProbeValid, ResolveLogin
  <2> QED BY <2>1, EndLoginOwned
<1>7. ASSUME NEW t \in Callers, ProbeExpired(t) \/ ConfirmValid(t) \/ PostPassword(t)
      PROVE  LocksOwned'
  <2>1. UNCHANGED <<authMu, guardLock>> /\ \E point \in LoginPoints : Goto(t, point)
    BY <1>7 DEF ProbeExpired, ConfirmValid, PostPassword, guardVars
  <2> QED BY <2>1, GotoOwned
<1>8. ASSUME NEW t \in Callers, Reserve(t) \/ PersistSession(t) PROVE LocksOwned'
  <2>1. \/ UNCHANGED <<authMu, guardLock>> /\ \E point \in LoginPoints : Goto(t, point)
        \/ EndLogin(t, FALSE)
    BY <1>8 DEF Reserve, PersistSession
  <2> QED BY <2>1, GotoOwned, EndLoginOwned
<1>9. ASSUME NEW t \in Callers, LoginAccepted(t) \/ LoginFails(t) \/ ConfirmFails(t)
      PROVE  LocksOwned'
  <2>1. \/ UNCHANGED <<authMu, guardLock>> /\ Goto(t, "confirm")
        \/ EndLogin(t, FALSE)
    BY <1>9 DEF LoginAccepted, LoginFails, ConfirmFails, Settle, guardVars
  <2> QED BY <2>1, GotoOwned, EndLoginOwned
<1>10. ASSUME NEW c \in Clients, Crash(c) PROVE LocksOwned'
  <2>1. /\ \A u \in Callers : Owner[u] # c => pc'[u] = pc[u]
        /\ authMu'[c] = NoCaller /\ \A d \in Clients \ {c} : authMu'[d] = authMu[d]
        /\ \A u \in Callers : guardLock' = u => guardLock = u /\ Owner[u] # c
    BY <1>10 DEF Crash, TypeOK
  <2> QED BY <2>1 DEF LocksOwned
<1>11. CASE (\E s \in Sessions : Expire(s)) \/ Tick \/ UNCHANGED vars
  BY <1>11 DEF Expire, Tick, vars, guardVars, callerVars, LocksOwned
<1> QED
  BY <1>1, <1>2, <1>3, <1>4, <1>5, <1>6, <1>7, <1>8, <1>9, <1>10, <1>11
  DEF Next, Advances, AcquireMu, AcquireGuard, Proceed

\* A call that holds authMu is past "mu", one that holds the guard waits for no
\* lock; so the waiting ends after two calls.
LEMMA WaitsEnd == TypeOK /\ MuHeld /\ LocksOwned => NoDeadlock
<1> SUFFICES ASSUME TypeOK, MuHeld, LocksOwned, NEW t \in Callers, Blocker(t) # NoCaller
             PROVE  LET u == Blocker(t) IN
                    \/ Runs(u)
                    \/ pc[t] \in {"observe", "mu"} /\ Owner[Blocker(u)] # Owner[u] /\ Runs(Blocker(u))
  BY DEF NoDeadlock
<1> USE CallersAssumption
<1>1. ASSUME guardLock # NoCaller
      PROVE  guardLock \in Callers /\ pc[guardLock] \in LoginPoints /\ Runs(guardLock)
  BY <1>1 DEF TypeOK, LocksOwned, Runs, Blocker
<1>2. CASE pc[t] \in {"lock", "reset"}
  <2>1. Blocker(t) = guardLock BY <1>2 DEF Blocker
  <2> QED BY <1>1, <2>1
<1>3. CASE pc[t] \in {"observe", "mu"}
  <2> DEFINE u == authMu[Owner[t]]
  <2>1. Blocker(t) = u BY <1>3 DEF Blocker
  <2>2. u \in Callers /\ pc[u] \in MuPoints
    BY <2>1 DEF TypeOK, LocksOwned
  <2>3. CASE Blocker(u) = NoCaller
    BY <2>1, <2>2, <2>3 DEF Runs
  <2>4. CASE Blocker(u) # NoCaller
    <3>1. pc[u] \in {"lock", "reset"} /\ Blocker(u) = guardLock
      BY <2>2, <2>4 DEF Blocker
    <3>2. guardLock # u /\ Runs(guardLock) /\ pc[guardLock] \in MuPoints /\ guardLock \in Callers
      BY <1>1, <2>4, <3>1
    <3>3. Owner[guardLock] # Owner[u]
      BY <2>2, <3>2, MuExclusive
    <3> QED BY <1>3, <2>1, <3>1, <3>2, <3>3
  <2> QED BY <2>3, <2>4
<1> QED
  BY <1>2, <1>3 DEF Blocker

\* No order of the calls of any number of goroutines and processes ends in a
\* circle of authMu and the guard's lock (auth.go, login_guard.go): no error path
\* keeps one, nobody takes authMu after the guard, and nobody takes either twice.
THEOREM CallsDoNotDeadlock == Spec => []NoDeadlock
<1>1. TypeOK /\ LocksInv /\ LocksOwned => NoDeadlock
  BY WaitsEnd DEF LocksInv
<1> QED
  BY <1>1, InitTypeOK, NextTypeOK, InitLocks, NextLocks, InitOwned, NextOwned, PTL DEF Spec
-----------------------------------------------------------------------------
(***************************************************************************)
(* The length of a call.                                                   *)
(***************************************************************************)

LEMMA StepsLeftType == TypeOK => \A t \in Callers : StepsLeft(t) \in 0 .. 16
BY DEF TypeOK, StepsLeft

LEMMA StepsLeftTypeNext == TypeOK' => \A t \in Callers : StepsLeft(t)' \in 0 .. 16
BY DEF TypeOK, StepsLeft

\* What t does leaves the place of the other calls alone.
Alien(t) == \A u \in Callers \ {t} : pc'[u] = pc[u] /\ call'[u] = call[u]

\* t goes on to a given point, in the same operation.
LEMMA GotoShort ==
    ASSUME TypeOK, NEW t \in Callers, NEW point \in Points, Goto(t, point) \/ (AwaitMu(t) /\ point = "mu")
    PROVE  Alien(t) /\ pc'[t] = point /\ call'[t] = call[t]
BY DEF Goto, AwaitMu, Alien, TypeOK

LEMMA ReturnShort ==
    ASSUME TypeOK, NEW t \in Callers, pc[t] # "idle", Return(t)
    PROVE  Alien(t) /\ StepsLeft(t)' < StepsLeft(t)
<1>1. Alien(t) /\ pc'[t] = "idle"
  BY DEF Return, Alien, TypeOK
<1> QED
  BY <1>1 DEF StepsLeft, TypeOK

\* From any point behind the first request, the second is a step forward.
LEMMA RetryShort ==
    ASSUME TypeOK, NEW t \in Callers, pc[t] \in LoginPoints \cup {"lock", "mu"}, Retry(t)
    PROVE  Alien(t) /\ StepsLeft(t)' < StepsLeft(t)
<1>1. Alien(t) /\ pc'[t] = "send" /\ call'[t] = "plain"
  BY DEF Retry, Alien, TypeOK
<1> QED
  BY <1>1 DEF StepsLeft, TypeOK

LEMMA EndLoginShort ==
    ASSUME TypeOK, NEW t \in Callers, pc[t] \in LoginPoints \cup {"lock"},
           NEW ok \in BOOLEAN, EndLogin(t, ok)
    PROVE  Alien(t) /\ StepsLeft(t)' < StepsLeft(t)
BY ReturnShort, RetryShort DEF EndLogin

\* One case per action: where it takes the call and why that is nearer the end.
LEMMA StepShortens ==
    ASSUME TypeOK, NEW t \in Callers, Advances(t)
    PROVE  Alien(t) /\ StepsLeft(t)' < StepsLeft(t)
<1>1. CASE ObserveGeneration(t) \/ Send(t) \/ AnswerSetsCookies(t)
  <2>1. Alien(t) /\ call'[t] = call[t]
    BY <1>1 DEF ObserveGeneration, Send, AnswerSetsCookies, Alien, TypeOK
  <2>2. \/ pc[t] = "observe" /\ pc'[t] = "send"
        \/ pc[t] = "send" /\ pc'[t] = "wait"
        \/ pc[t] = "wait" /\ pc'[t] = "saveReturn"
        \/ pc[t] = "wait" /\ pc'[t] = "saveRenew" /\ call[t] = "read"
    BY <1>1 DEF ObserveGeneration, Send, AnswerSetsCookies, Renews, TypeOK
  <2> QED BY <2>1, <2>2 DEF StepsLeft
<1>2. CASE AnswerExpired(t) \/ SaveSnapshot(t)
  <2>1. \/ pc[t] = "wait" /\ call[t] = "read" /\ AwaitMu(t)
        \/ pc[t] = "saveRenew" /\ AwaitMu(t)
        \/ pc[t] # "idle" /\ Return(t)
    BY <1>2 DEF AnswerExpired, SaveSnapshot, Renews
  <2>2. ASSUME AwaitMu(t) PROVE Alien(t) /\ pc'[t] = "mu"
    BY <2>2, GotoShort
  <2>3. CASE pc[t] = "wait" /\ call[t] = "read" /\ AwaitMu(t)
    BY <2>2, <2>3 DEF StepsLeft
  <2>4. CASE pc[t] = "saveRenew" /\ AwaitMu(t)
    BY <2>2, <2>4 DEF StepsLeft
  <2>5. CASE pc[t] # "idle" /\ Return(t)
    BY <2>5, ReturnShort
  <2> QED BY <2>1, <2>3, <2>4, <2>5
<1>3. CASE AnswerReturns(t) \/ DeleteRow(t) \/ LockFails(t) \/ ResetProtection(t)
  <2>1. pc[t] # "idle" /\ Return(t)
    BY <1>3 DEF AnswerReturns, DeleteRow, LockFails, ResetProtection
  <2> QED BY <2>1, ReturnShort
<1>4. CASE SkipRenewal(t)
  BY <1>4, RetryShort DEF SkipRenewal
<1>5. CASE TakeMu(t) \/ ClearJar(t)
  <2>1. pc[t] = "mu" /\ (Return(t) \/ \E point \in {"reset", "lock", "delete"} : Goto(t, point))
    BY <1>5 DEF TakeMu, ClearJar
  <2>2. ASSUME NEW point \in {"reset", "lock", "delete"}, Goto(t, point)
        PROVE  Alien(t) /\ StepsLeft(t)' < StepsLeft(t)
    <3>1. Alien(t) /\ pc'[t] = point BY <2>2, GotoShort
    <3> QED BY <2>1, <3>1 DEF StepsLeft
  <2> QED BY <2>1, <2>2, ReturnShort
<1>6. CASE EnterLogin(t)
  <2>1. pc[t] = "lock" /\ \E point \in {"probe", "gate"} : Goto(t, point)
    BY <1>6 DEF EnterLogin
  <2>2. Alien(t) /\ pc'[t] \in {"probe", "gate"} BY <2>1, GotoShort
  <2> QED BY <2>1, <2>2 DEF StepsLeft
<1>7. CASE ReloadFails(t) \/ ProbeFails(t) \/ GateRefuses(t) \/ ProbeValid(t) \/ ResolveLogin(t)
  <2>1. pc[t] \in LoginPoints \cup {"lock"} /\ \E ok \in BOOLEAN : EndLogin(t, ok)
    BY <1>7 DEF ReloadFails, ProbeFails, GateRefuses, ProbeValid, ResolveLogin
  <2> QED BY <2>1, EndLoginShort
<1>8. CASE ProbeExpired(t) \/ ConfirmValid(t) \/ PostPassword(t)
  <2>1. \/ pc[t] = "probe" /\ Goto(t, "gate")
        \/ pc[t] = "confirm" /\ Goto(t, "persist")
        \/ pc[t] = "post" /\ Goto(t, "await")
    BY <1>8 DEF ProbeExpired, ConfirmValid, PostPassword
  <2>2. ASSUME NEW point \in {"gate", "persist", "await"}, Goto(t, point)
        PROVE  Alien(t) /\ pc'[t] = point
    BY <2>2, GotoShort
  <2> QED BY <2>1, <2>2 DEF StepsLeft
<1>9. CASE Reserve(t) \/ PersistSession(t) \/ LoginAccepted(t) \/ LoginFails(t) \/ ConfirmFails(t)
  <2>1. \/ pc[t] = "gate" /\ Goto(t, "post")
        \/ pc[t] = "persist" /\ Goto(t, "resolve")
        \/ pc[t] = "await" /\ Goto(t, "confirm")
        \/ pc[t] \in LoginPoints /\ EndLogin(t, FALSE)
    BY <1>9 DEF Reserve, PersistSession, LoginAccepted, LoginFails, ConfirmFails, Settle
  <2>2. ASSUME NEW point \in {"post", "resolve", "confirm"}, Goto(t, point)
        PROVE  Alien(t) /\ pc'[t] = point
    BY <2>2, GotoShort
  <2>3. CASE pc[t] \in LoginPoints /\ EndLogin(t, FALSE)
    BY <2>3, EndLoginShort
  <2>4. CASE \/ pc[t] = "gate" /\ Goto(t, "post")
             \/ pc[t] = "persist" /\ Goto(t, "resolve")
             \/ pc[t] = "await" /\ Goto(t, "confirm")
    BY <2>2, <2>4 DEF StepsLeft
  <2> QED BY <2>1, <2>3, <2>4
<1> QED
  BY <1>1, <1>2, <1>3, <1>4, <1>5, <1>6, <1>7, <1>8, <1>9
  DEF Advances, AcquireMu, AcquireGuard, Proceed

\* The steps nobody's call takes.
LEMMA WorldLengthens ==
    ASSUME TypeOK, NEW t \in Callers, pc[t] # "idle",
           (\E c \in Clients : Crash(c)) \/ (\E s \in Sessions : Expire(s)) \/ Tick \/ UNCHANGED vars
    PROVE  StepsLeft(t)' <= StepsLeft(t)
<1>1. CASE \E c \in Clients : Crash(c)
  <2>1. \/ pc'[t] = "idle"
        \/ pc'[t] = pc[t] /\ call'[t] = call[t]
    BY <1>1 DEF Crash
  <2>2. pc'[t] = "idle" => StepsLeft(t)' = 0
    BY DEF StepsLeft
  <2>3. pc'[t] = pc[t] /\ call'[t] = call[t] => StepsLeft(t)' = StepsLeft(t)
    BY DEF StepsLeft
  <2> QED BY <2>1, <2>2, <2>3, StepsLeftType
<1>2. CASE (\E s \in Sessions : Expire(s)) \/ Tick \/ UNCHANGED vars
  <2>1. UNCHANGED <<pc, call>>
    BY <1>2 DEF Expire, Tick, vars, callerVars
  <2>2. StepsLeft(t)' = StepsLeft(t)
    BY <2>1 DEF StepsLeft
  <2> QED BY <2>2, StepsLeftType
<1> QED
  BY <1>1, <1>2

\* Whatever JoinQuant answers and however often the session expires, a call takes
\* at most sixteen steps of its own: one renewal and one repetition of its request
\* (getEnvelopeHeaders, getHTML, reauthenticate, protectedLoginLocked).
THEOREM CallsEnd == Spec => CallsAreShort
<1>1. ASSUME TypeOK, [Next]_vars, NEW t \in Callers
      PROVE  /\ Advances(t) => StepsLeft(t)' < StepsLeft(t)
             /\ pc[t] # "idle" => StepsLeft(t)' <= StepsLeft(t)
  <2>1. Advances(t) => StepsLeft(t)' < StepsLeft(t)
    BY <1>1, StepShortens
  <2>2. ASSUME pc[t] # "idle", NEW u \in Callers, Starts(u) \/ Advances(u)
        PROVE  StepsLeft(t)' <= StepsLeft(t)
    <3>1. CASE u = t
      <4>1. Advances(t) BY <2>2, <3>1 DEF Starts, BeginRead, BeginPlain, Begin
      <4>2. StepsLeft(t)' < StepsLeft(t) BY <4>1, <2>1
      <4>3. StepsLeft(t) \in Int /\ StepsLeft(t)' \in Int
        BY <1>1, NextTypeOK, StepsLeftType, StepsLeftTypeNext
      <4> QED BY <4>2, <4>3
    <3>2. CASE u # t
      <4>1. CASE Starts(u)
        BY <1>1, <3>2, <4>1, StepsLeftType DEF Starts, BeginRead, BeginPlain, Begin, StepsLeft, TypeOK
      <4>2. CASE Advances(u)
        <5>1. pc'[t] = pc[t] /\ call'[t] = call[t] BY <1>1, <3>2, <4>2, StepShortens DEF Alien
        <5>2. StepsLeft(t)' = StepsLeft(t) BY <5>1 DEF StepsLeft
        <5> QED BY <1>1, <5>2, StepsLeftType
      <4> QED BY <2>2, <4>1, <4>2
    <3> QED BY <3>1, <3>2
  <2> QED BY <1>1, <2>1, <2>2, WorldLengthens DEF Next
<1>2. TypeOK /\ [Next]_vars =>
        [\A t \in Callers : /\ Advances(t) => StepsLeft(t)' < StepsLeft(t)
                            /\ pc[t] # "idle" => StepsLeft(t)' <= StepsLeft(t)]_vars
  BY <1>1
<1> QED
  BY <1>2, TypeCorrect, PTL DEF Spec, CallsAreShort
-----------------------------------------------------------------------------
(***************************************************************************)
(* What a call without a guard keeps.                                      *)
(***************************************************************************)

\* One case per action that changes a jar, loads it or takes the login lock.
LEMMA NextLoaded == Seeded = {} /\ TypeOK /\ JarLoaded /\ [Next]_vars => JarLoaded'
<1> SUFFICES ASSUME Seeded = {}, TypeOK, JarLoaded, [Next]_vars, Stored PROVE JarLoaded'
  BY DEF JarLoaded
<1> USE CallersAssumption
<1>1. ASSUME UNCHANGED <<jar, loaded>>, NEW t \in Callers,
             \A u \in Callers \ {t} : pc'[u] = pc[u],
             pc'[t] \in LoginPoints => pc[t] \in LoginPoints
      PROVE  JarLoaded'
  BY <1>1 DEF JarLoaded
<1>2. ASSUME NEW t \in Callers,
             Starts(t) \/ ObserveGeneration(t) \/ SkipRenewal(t) \/ TakeMu(t) \/ Send(t) \/ AnswerReturns(t) \/ AnswerExpired(t)
             \/ AnswerSetsCookies(t) \/ SaveSnapshot(t) \/ DeleteRow(t) \/ LockFails(t)
             \/ ResetProtection(t)
      PROVE  JarLoaded'
  <2>1. /\ UNCHANGED <<jar, loaded>>
        /\ \E point \in Points \ LoginPoints : pc' = [pc EXCEPT ![t] = point]
    BY <1>2 DEF Starts, BeginRead, BeginPlain, Begin, ObserveGeneration, SkipRenewal, TakeMu, Send, AnswerReturns,
       AnswerExpired, AnswerSetsCookies, SaveSnapshot, DeleteRow, LockFails, ResetProtection,
       AwaitMu, Retry, Return, Goto, memVars
  <2>2. (\A u \in Callers \ {t} : pc'[u] = pc[u]) /\ pc'[t] \notin LoginPoints
    BY <2>1 DEF TypeOK
  <2> QED BY <1>1, <2>1, <2>2
<1>3. ASSUME NEW t \in Callers,
             ReloadFails(t) \/ ProbeValid(t) \/ ProbeExpired(t) \/ ProbeFails(t) \/ GateRefuses(t)
             \/ Reserve(t) \/ PostPassword(t) \/ LoginFails(t) \/ ConfirmValid(t) \/ ConfirmFails(t)
             \/ PersistSession(t) \/ ResolveLogin(t)
      PROVE  JarLoaded'
  <2>1. UNCHANGED <<jar, loaded>>
    BY <1>3 DEF ReloadFails, ProbeValid, ProbeExpired, ProbeFails, GateRefuses, Reserve, PostPassword,
       LoginFails, ConfirmValid, ConfirmFails, PersistSession, ResolveLogin, memVars
  <2>2. \/ pc[t] \in LoginPoints /\ \E point \in LoginPoints : Goto(t, point)
        \/ \E ok \in BOOLEAN : EndLogin(t, ok)
    BY <1>3 DEF ReloadFails, ProbeValid, ProbeExpired, ProbeFails, GateRefuses, Reserve, PostPassword,
       LoginFails, ConfirmValid, ConfirmFails, PersistSession, ResolveLogin, Settle
  <2>3. /\ \A u \in Callers \ {t} : pc'[u] = pc[u]
        /\ pc'[t] \in LoginPoints => pc[t] \in LoginPoints
    BY <2>2 DEF Goto, EndLogin, Retry, Return, TypeOK
  <2> QED BY <1>1, <2>1, <2>3
<1>4. ASSUME NEW t \in Callers, ClearJar(t) PROVE JarLoaded'
  <2>1. /\ loaded'[Owner[t]] /\ \A d \in Clients \ {Owner[t]} : loaded'[d] = loaded[d]
        /\ \A d \in Clients \ {Owner[t]} : jar'[d] = jar[d]
    BY <1>4 DEF ClearJar, TypeOK
  <2>2. (\A u \in Callers \ {t} : pc'[u] = pc[u]) /\ pc'[t] \notin LoginPoints
    BY <1>4 DEF ClearJar, Goto, Return, TypeOK
  <2> QED BY <2>1, <2>2 DEF JarLoaded
<1>5. ASSUME NEW t \in Callers, EnterLogin(t) PROVE JarLoaded'
  <2>1. /\ loaded'[Owner[t]] /\ \A d \in Clients \ {Owner[t]} : loaded'[d] = loaded[d]
        /\ \A d \in Clients \ {Owner[t]} : jar'[d] = jar[d]
        /\ \A u \in Callers \ {t} : pc'[u] = pc[u]
    BY <1>5 DEF EnterLogin, Goto, TypeOK
  <2> QED BY <2>1 DEF JarLoaded
<1>6. ASSUME NEW t \in Callers, LoginAccepted(t) PROVE JarLoaded'
  <2>1. /\ loaded' = loaded /\ \A d \in Clients \ {Owner[t]} : jar'[d] = jar[d]
        /\ pc[t] \in LoginPoints
    BY <1>6 DEF LoginAccepted, TypeOK
  <2>2. Goto(t, "confirm") \/ EndLogin(t, FALSE)
    BY <1>6 DEF LoginAccepted, Settle
  <2>3. \A u \in Callers \ {t} : pc'[u] = pc[u]
    BY <2>2 DEF Goto, EndLogin, Retry, Return, TypeOK
  <2> QED BY <2>1, <2>3 DEF JarLoaded
<1>7. ASSUME NEW c \in Clients, Crash(c) PROVE JarLoaded'
  <2>1. /\ jar'[c] = 0
        /\ \A d \in Clients \ {c} : jar'[d] = jar[d] /\ loaded'[d] = loaded[d]
        /\ \A u \in Callers : Owner[u] = c => pc'[u] \notin LoginPoints
        /\ \A u \in Callers : Owner[u] # c => pc'[u] = pc[u]
    BY <1>7 DEF Crash, Given, TypeOK
  <2> QED BY <2>1 DEF JarLoaded
<1>8. CASE (\E s \in Sessions : Expire(s)) \/ Tick \/ UNCHANGED vars
  BY <1>8 DEF Expire, Tick, vars, memVars, callerVars, JarLoaded
<1> QED
  BY <1>2, <1>3, <1>4, <1>5, <1>6, <1>7, <1>8 DEF Next, Advances, AcquireMu, AcquireGuard, Proceed

\* Without a guard, a client that is not built with cookies never drops a live session
\* for the row's (login_guard.go:86): the row is read once, before the jar has a session.
\* A client built WithCookies, or on a jar that has some (client.go:160), may: what it
\* was given is in the jar before the row is.  So may one with a guard: run dropped.
THEOREM UnguardedKeepsSession ==
    ASSUME ~ Guarded, Seeded = {} PROVE Spec => LiveSessionReused
<1>1. ASSUME TypeOK, JarLoaded, NEW t \in Callers, EnterLogin(t), jar[Owner[t]] \in valid
      PROVE  jar'[Owner[t]] \in valid
  <2>1. Owner[t] \in Clients /\ jar[Owner[t]] # 0
    BY <1>1, CallersAssumption DEF TypeOK
  <2>2. ~ Reloads(Owner[t])
    BY <1>1, <2>1 DEF JarLoaded, Reloads
  <2> QED BY <1>1, <2>2 DEF EnterLogin
<1>2. TypeOK /\ JarLoaded =>
        [\A t \in Callers : EnterLogin(t) /\ jar[Owner[t]] \in valid => jar'[Owner[t]] \in valid]_vars
  BY <1>1
<1>3. Init => JarLoaded
  BY DEF Init, Given, JarLoaded
<1> QED
  BY <1>2, <1>3, InitTypeOK, NextTypeOK, NextLoaded, PTL DEF Spec, LiveSessionReused
=============================================================================
