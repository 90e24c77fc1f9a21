----------------------------- MODULE AuthProofs -----------------------------
(* Proofs about Auth for any clients, callers, options and bounds.          *)
EXTENDS Auth, TLAPS

USE DEF AllOperations, Sessions, NoRow, MaxAttempts, WriteOutcomes,
        StoreOutcomes, GuardOutcomes, LoginPoints, PostedPoints, MuPoints, Points,
        otherVars

LEMMA Records ==
    /\ Unprotected \in LoginState
    /\ \A r \in LoginState : /\ r.pending \in BOOLEAN /\ r.blocked \in BOOLEAN
                             /\ r.attempts \in Nat /\ r.retryAfter \in Nat
BY DEF Unprotected, LoginState

LEMMA InitTypeOK == Init => TypeOK
BY CallersAssumption, OptionsAssumption, BoundsAssumption, Records DEF Init, TypeOK

\* The type of what belongs to the callers, and that of the locks.
CallersOK ==
    /\ pc \in [Callers -> Points]
    /\ call \in [Callers -> AllOperations \cup {"none"}]
    /\ obs \in [Callers -> Nat]
    /\ copy \in [Callers -> Sessions]
LocksOK ==
    /\ guardLock \in Callers \cup {NoCaller}
    /\ authMu \in [Clients -> Callers \cup {NoCaller}]

LEMMA MoveTypeOK ==
    ASSUME TypeOK, NEW t \in Callers, NEW point \in Points,
           Goto(t, point) \/ Return(t) \/ Retry(t) \/ AwaitMu(t)
    PROVE  CallersOK'
BY BoundsAssumption DEF Goto, Return, Retry, AwaitMu, TypeOK, CallersOK

LEMMA EndLoginTypeOK ==
    ASSUME TypeOK, NEW t \in Callers, NEW ok \in BOOLEAN, EndLogin(t, ok)
    PROVE  LocksOK' /\ CallersOK'
<1>1. Return(t) \/ Retry(t)
  BY DEF EndLogin
<1>2. CallersOK'
  BY <1>1, MoveTypeOK
<1> QED
  BY <1>2, CallersAssumption DEF EndLogin, ReleaseMu, TypeOK, LocksOK

LEMMA StoreTypeOK ==
    ASSUME TypeOK, NEW c \in Clients, NEW s \in Sessions \cup {NoRow}, NEW outcome \in WriteOutcomes,
           MaySaveJar(c) \/ PutRow(s, outcome)
    PROVE  store' \in Sessions \cup {NoRow}
BY DEF MaySaveJar, PutRow, TypeOK

LEMMA StoreLoginStateTypeOK ==
    ASSUME TypeOK, NEW c \in Clients, NEW state \in LoginState, NEW outcome \in WriteOutcomes,
           StoreLoginState(c, state, outcome)
    PROVE  mem' \in [Clients -> LoginState] /\ guardState' \in LoginState
BY DEF StoreLoginState, TypeOK

LEMMA ForgetTriesTypeOK ==
    ASSUME TypeOK, NEW c \in Clients, NEW outcome \in WriteOutcomes, ForgetTries(c, outcome)
    PROVE  tries' \in [Clients -> Nat] /\ coolUntil' \in [Clients -> Nat]
BY DEF ForgetTries, TypeOK

LEMMA SettleTypeOK ==
    ASSUME TypeOK, NEW t \in Callers, NEW definite \in BOOLEAN, Settle(t, definite)
    PROVE  /\ mem' \in [Clients -> LoginState] /\ guardState' \in LoginState
           /\ LocksOK' /\ CallersOK'
<1> DEFINE c == Owner[t]
           state == [mem[c] EXCEPT !.pending = FALSE,
                                   !.blocked = definite \/ mem[c].attempts >= MaxAttempts]
<1>1. c \in Clients /\ mem[c] \in LoginState
  BY CallersAssumption DEF TypeOK
<1>2. state \in LoginState
  BY <1>1 DEF LoginState
<1>3. PICK outcome \in WriteOutcomes : StoreLoginState(c, state, outcome)
  BY DEF Settle
<1>4. EndLogin(t, FALSE)
  BY DEF Settle
<1> QED
  BY <1>1, <1>2, <1>3, <1>4, EndLoginTypeOK, StoreLoginStateTypeOK

\* The types of every variable are preserved: one step per action.
LEMMA NextTypeOK == TypeOK /\ [Next]_vars => TypeOK'
<1> SUFFICES ASSUME TypeOK, [Next]_vars PROVE TypeOK'
  OBVIOUS
<1> USE CallersAssumption, OptionsAssumption, BoundsAssumption
<1>1. ASSUME NEW t \in Callers, Starts(t) \/ ObserveGeneration(t) PROVE TypeOK'
  <2>1. CallersOK'
    BY <1>1 DEF Starts, BeginRead, BeginPlain, Begin, ObserveGeneration, TypeOK, CallersOK
  <2>2. UNCHANGED <<now, serverVars, store, guardVars, memVars, authMu, tryVars, pastVars>>
    BY <1>1 DEF Starts, BeginRead, BeginPlain, Begin, ObserveGeneration
  <2> QED BY <2>1, <2>2 DEF TypeOK, CallersOK, serverVars, guardVars, memVars, tryVars, pastVars
<1>2. ASSUME NEW t \in Callers, SkipRenewal(t) \/ TakeMu(t) PROVE TypeOK'
  <2>1. CallersOK' BY <1>2, MoveTypeOK DEF SkipRenewal, TakeMu
  <2>2. authMu' \in [Clients -> Callers \cup {NoCaller}]
    BY <1>2 DEF SkipRenewal, TakeMu, HoldMu, TypeOK
  <2>3. UNCHANGED <<now, serverVars, store, guardVars, memVars, tryVars, pastVars>>
    BY <1>2 DEF SkipRenewal, TakeMu
  <2> QED BY <2>1, <2>2, <2>3 DEF TypeOK, CallersOK, serverVars, guardVars, memVars, tryVars, pastVars
<1>3. ASSUME NEW t \in Callers, ClearJar(t) PROVE TypeOK'
  <2>1. CallersOK' BY <1>3, MoveTypeOK DEF ClearJar
  <2> QED BY <1>3, <2>1 DEF ClearJar, HoldMu, TypeOK, CallersOK, serverVars, guardVars, tryVars
<1>4. ASSUME NEW t \in Callers, Send(t) \/ AnswerSetsCookies(t) PROVE TypeOK'
  BY <1>4 DEF Send, AnswerSetsCookies, TypeOK, serverVars, guardVars, memVars, tryVars, pastVars
<1>5. ASSUME NEW t \in Callers, AnswerReturns(t) \/ AnswerExpired(t) PROVE TypeOK'
  <2>1. CallersOK' BY <1>5, MoveTypeOK DEF AnswerReturns, AnswerExpired
  <2> QED BY <1>5, <2>1 DEF AnswerReturns, AnswerExpired, TypeOK, CallersOK,
                            serverVars, guardVars, memVars, tryVars, pastVars
<1>6. ASSUME NEW t \in Callers, SaveSnapshot(t) PROVE TypeOK'
  <2>1. CallersOK' BY <1>6, MoveTypeOK DEF SaveSnapshot
  <2>2. store' \in Sessions \cup {NoRow} BY <1>6 DEF SaveSnapshot, PutRow, TypeOK
  <2> QED BY <1>6, <2>1, <2>2 DEF SaveSnapshot, TypeOK, CallersOK,
                                  serverVars, guardVars, memVars, tryVars, pastVars
<1>7. ASSUME NEW t \in Callers, DeleteRow(t) PROVE TypeOK'
  <2>1. CallersOK' BY <1>7, MoveTypeOK DEF DeleteRow
  <2>2. store' \in Sessions \cup {NoRow} BY <1>7 DEF DeleteRow, PutRow, TypeOK
  <2>3. cleared' \in Sessions BY <1>7 DEF DeleteRow, TypeOK
  <2> QED BY <1>7, <2>1, <2>2, <2>3 DEF DeleteRow, ReleaseMu, TypeOK, CallersOK,
                                        serverVars, guardVars, memVars, tryVars
<1>8. ASSUME NEW t \in Callers, LockFails(t) PROVE TypeOK'
  <2>1. CallersOK' BY <1>8, MoveTypeOK DEF LockFails
  <2> QED BY <1>8, <2>1 DEF LockFails, ReleaseMu, TypeOK, CallersOK,
                            serverVars, guardVars, memVars, tryVars, pastVars
<1>9. ASSUME NEW t \in Callers, EnterLogin(t) PROVE TypeOK'
  BY <1>9 DEF EnterLogin, TakeGuard, Goto, TypeOK, serverVars, tryVars, pastVars
<1>10. ASSUME NEW t \in Callers, ReloadFails(t) PROVE TypeOK'
  <2>1. EndLogin(t, FALSE) BY <1>10 DEF ReloadFails
  <2> QED BY <1>10, <2>1, EndLoginTypeOK
          DEF ReloadFails, TypeOK, LocksOK, CallersOK, serverVars, tryVars, pastVars
<1>11. ASSUME NEW t \in Callers, ResetProtection(t) PROVE TypeOK'
  <2>1. PICK outcome \in WriteOutcomes :
            StoreLoginState(Owner[t], Unprotected, outcome) /\ ForgetTries(Owner[t], outcome)
    BY <1>11 DEF ResetProtection
  <2>2. /\ mem' \in [Clients -> LoginState] /\ guardState' \in LoginState
        /\ tries' \in [Clients -> Nat] /\ coolUntil' \in [Clients -> Nat]
    BY <2>1, Records, StoreLoginStateTypeOK, ForgetTriesTypeOK
  <2>3. CallersOK' BY <1>11, MoveTypeOK DEF ResetProtection
  <2> QED BY <1>11, <2>2, <2>3 DEF ResetProtection, ReleaseMu, TypeOK, CallersOK, serverVars, pastVars
<1>12. ASSUME NEW t \in Callers, ProbeValid(t) PROVE TypeOK'
  <2>1. store' \in Sessions \cup {NoRow} BY <1>12, StoreTypeOK DEF ProbeValid
  <2>2. CASE mem[Owner[t]] = Unprotected
    <3>1. EndLogin(t, TRUE) BY <1>12, <2>2 DEF ProbeValid
    <3>2. LocksOK' /\ CallersOK' BY <3>1, EndLoginTypeOK
    <3> QED BY <1>12, <2>1, <2>2, <3>2
            DEF ProbeValid, TypeOK, LocksOK, CallersOK, serverVars, tryVars, pastVars
  <2>3. CASE mem[Owner[t]] # Unprotected
    <3>1. PICK outcome \in WriteOutcomes :
            /\ StoreLoginState(Owner[t], Unprotected, outcome) /\ ForgetTries(Owner[t], outcome)
            /\ EndLogin(t, outcome = "ok")
      BY <1>12, <2>3 DEF ProbeValid
    <3>2. /\ mem' \in [Clients -> LoginState] /\ guardState' \in LoginState
          /\ tries' \in [Clients -> Nat] /\ coolUntil' \in [Clients -> Nat]
      BY <3>1, Records, StoreLoginStateTypeOK, ForgetTriesTypeOK
    <3>3. LocksOK' /\ CallersOK' BY <3>1, EndLoginTypeOK
    <3> QED BY <1>12, <2>1, <3>2, <3>3 DEF ProbeValid, TypeOK, LocksOK, CallersOK, serverVars, pastVars
  <2> QED BY <2>2, <2>3
<1>13. ASSUME NEW t \in Callers, ProbeExpired(t) \/ ConfirmValid(t) PROVE TypeOK'
  <2>1. store' \in Sessions \cup {NoRow} BY <1>13, StoreTypeOK DEF ProbeExpired, ConfirmValid
  <2>2. CallersOK' BY <1>13, MoveTypeOK DEF ProbeExpired, ConfirmValid
  <2> QED BY <1>13, <2>1, <2>2 DEF ProbeExpired, ConfirmValid, TypeOK, CallersOK,
                                   serverVars, guardVars, memVars, tryVars, pastVars
<1>14. ASSUME NEW t \in Callers, ProbeFails(t) \/ GateRefuses(t) PROVE TypeOK'
  <2>1. LocksOK' /\ CallersOK' BY <1>14, EndLoginTypeOK DEF ProbeFails, GateRefuses
  <2>2. store' \in Sessions \cup {NoRow}
    BY <1>14, StoreTypeOK DEF ProbeFails, GateRefuses, TypeOK
  <2> QED BY <1>14, <2>1, <2>2
          DEF ProbeFails, GateRefuses, TypeOK, LocksOK, CallersOK, serverVars, memVars, tryVars, pastVars
<1>15. ASSUME NEW t \in Callers, Reserve(t) PROVE TypeOK'
  <2>1. NextAttempt(Owner[t]) \in LoginState
    BY Records DEF NextAttempt, LoginState, TypeOK
  <2>2. PICK outcome \in WriteOutcomes :
          /\ StoreLoginState(Owner[t], NextAttempt(Owner[t]), outcome)
          /\ IF outcome = "ok"
             THEN Goto(t, "post") /\ UNCHANGED <<authMu, guardLock>>
             ELSE EndLogin(t, FALSE)
    BY <1>15 DEF Reserve
  <2>3. mem' \in [Clients -> LoginState] /\ guardState' \in LoginState
    BY <2>1, <2>2, StoreLoginStateTypeOK
  <2>4. LocksOK' /\ CallersOK'
    BY <2>2, EndLoginTypeOK, MoveTypeOK DEF LocksOK, TypeOK
  <2> QED BY <1>15, <2>3, <2>4 DEF Reserve, TypeOK, LocksOK, CallersOK, serverVars, tryVars, pastVars
<1>16. ASSUME NEW t \in Callers, PostPassword(t) PROVE TypeOK'
  BY <1>16, Records DEF PostPassword, Goto, TypeOK, serverVars, guardVars, memVars, pastVars
<1>17. ASSUME NEW t \in Callers, LoginAccepted(t) PROVE TypeOK'
  <2>1. PICK outcome \in WriteOutcomes, garbled \in BOOLEAN :
          /\ PutRow(issued + 1, outcome)
          /\ IF outcome = "ok" /\ ~ garbled
             THEN Goto(t, "confirm") /\ UNCHANGED <<mem, guardVars, authMu>>
             ELSE Settle(t, FALSE)
    BY <1>17 DEF LoginAccepted
  <2>2. issued + 1 \in Sessions /\ valid' \subseteq 1 .. issued'
    BY <1>17 DEF LoginAccepted, TypeOK
  <2>3. store' \in Sessions \cup {NoRow} BY <2>1, <2>2, StoreTypeOK
  <2>4. LocksOK' /\ CallersOK' /\ mem' \in [Clients -> LoginState] /\ guardState' \in LoginState
    BY <2>1, SettleTypeOK, MoveTypeOK DEF TypeOK, LocksOK, guardVars
  <2> QED BY <1>17, <2>2, <2>3, <2>4 DEF LoginAccepted, TypeOK, LocksOK, CallersOK, tryVars, pastVars
<1>18. ASSUME NEW t \in Callers, LoginFails(t) \/ ConfirmFails(t) PROVE TypeOK'
  <2>1. PICK definite \in BOOLEAN : Settle(t, definite)
    BY <1>18 DEF LoginFails, ConfirmFails
  <2>2. store' \in Sessions \cup {NoRow} BY <1>18, StoreTypeOK DEF LoginFails, ConfirmFails
  <2>3. LocksOK' /\ CallersOK' /\ mem' \in [Clients -> LoginState] /\ guardState' \in LoginState
    BY <2>1, SettleTypeOK
  <2> QED BY <1>18, <2>2, <2>3
          DEF LoginFails, ConfirmFails, TypeOK, LocksOK, CallersOK, serverVars, tryVars, pastVars
<1>19. ASSUME NEW t \in Callers, PersistSession(t) PROVE TypeOK'
  <2>1. PICK outcome \in WriteOutcomes :
          /\ PutRow(jar[Owner[t]], outcome)
          /\ IF outcome = "ok"
             THEN Goto(t, "resolve") /\ renewed' = jar[Owner[t]] /\ UNCHANGED <<authMu, guardLock>>
             ELSE EndLogin(t, FALSE) /\ UNCHANGED renewed
    BY <1>19 DEF PersistSession
  <2>2. jar[Owner[t]] \in Sessions BY DEF TypeOK
  <2>3. store' \in Sessions \cup {NoRow} BY <2>1, <2>2, StoreTypeOK
  <2>4. LocksOK' /\ CallersOK' /\ renewed' \in Sessions
    BY <2>1, <2>2, EndLoginTypeOK, MoveTypeOK DEF LocksOK, TypeOK
  <2>5. gen' \in [Clients -> Nat] BY <1>19 DEF PersistSession, TypeOK
  <2> QED BY <1>19, <2>3, <2>4, <2>5 DEF PersistSession, TypeOK, LocksOK, CallersOK, serverVars, tryVars
<1>20. ASSUME NEW t \in Callers, ResolveLogin(t) PROVE TypeOK'
  <2>1. PICK outcome \in WriteOutcomes :
          /\ StoreLoginState(Owner[t], Unprotected, outcome) /\ ForgetTries(Owner[t], outcome)
          /\ EndLogin(t, outcome = "ok")
    BY <1>20 DEF ResolveLogin
  <2>2. /\ mem' \in [Clients -> LoginState] /\ guardState' \in LoginState
        /\ tries' \in [Clients -> Nat] /\ coolUntil' \in [Clients -> Nat]
    BY <2>1, Records, StoreLoginStateTypeOK, ForgetTriesTypeOK
  <2>3. LocksOK' /\ CallersOK' BY <2>1, EndLoginTypeOK
  <2> QED BY <1>20, <2>2, <2>3 DEF ResolveLogin, TypeOK, LocksOK, CallersOK, serverVars, pastVars
<1>21. ASSUME NEW c \in Clients, Crash(c) PROVE TypeOK'
  BY <1>21, Records DEF Crash, Given, TypeOK, serverVars, pastVars
<1>22. ASSUME NEW s \in Sessions, Expire(s) PROVE TypeOK'
  BY <1>22 DEF Expire, TypeOK, guardVars, memVars, callerVars, tryVars, pastVars
<1>23. CASE Tick
  BY <1>23 DEF Tick, TypeOK, serverVars, guardVars, memVars, callerVars, tryVars, pastVars
<1>24. CASE UNCHANGED vars
  BY <1>24 DEF vars, TypeOK, serverVars, guardVars, memVars, callerVars, tryVars, pastVars
<1> QED
  BY <1>1, <1>2, <1>3, <1>4, <1>5, <1>6, <1>7, <1>8, <1>9, <1>10, <1>11, <1>12, <1>13, <1>14,
     <1>15, <1>16, <1>17, <1>18, <1>19, <1>20, <1>21, <1>22, <1>23, <1>24
  DEF Next, Advances, AcquireMu, AcquireGuard, Proceed

\* Every reachable state is well typed.
THEOREM TypeCorrect == Spec => []TypeOK
BY InitTypeOK, NextTypeOK, PTL DEF Spec
-----------------------------------------------------------------------------
(* The locks.  A step moves one caller t; the lemmas say what each kind of   *)
(* move does to the others.                                                 *)

LEMMA InitLocks == Init => LocksInv
BY CallersAssumption DEF Init, LocksInv, MuHeld, GuardHeld, RecordFresh

\* Two callers of one client are not both past authMu.
LEMMA MuExclusive ==
    ASSUME MuHeld, NEW t \in Callers, NEW u \in Callers, Owner[t] = Owner[u],
           pc[t] \in MuPoints, pc[u] \in MuPoints
    PROVE  t = u
BY DEF MuHeld

\* t is outside the locks and stays there.
LEMMA OutsideLocks ==
    ASSUME TypeOK, LocksInv, NEW t \in Callers, NEW point \in Points \ MuPoints,
           pc' = [pc EXCEPT ![t] = point],
           UNCHANGED <<authMu, guardLock, guardState, mem>>
    PROVE  LocksInv'
<1>1. \A u \in Callers : pc'[u] \in MuPoints => pc[u] = pc'[u]
  BY DEF TypeOK
<1> QED
  BY <1>1 DEF LocksInv, MuHeld, GuardHeld, RecordFresh

\* t lets go of the locks it holds.
LEMMA EndLoginLocks ==
    ASSUME TypeOK, LocksInv, NEW t \in Callers, NEW ok \in BOOLEAN,
           pc[t] \in MuPoints, EndLogin(t, ok),
           Guarded => guardLock \in {t, NoCaller},
           \A d \in Clients \ {Owner[t]} : mem'[d] = mem[d]
    PROVE  LocksInv'
<1>1. \A u \in Callers : pc'[u] \in MuPoints => u # t /\ pc[u] = pc'[u]
  BY DEF EndLogin, Retry, Return, TypeOK
<1>2. \A u \in Callers : pc'[u] \in MuPoints => Owner[u] # Owner[t]
  BY <1>1, MuExclusive DEF LocksInv
<1>3. MuHeld'
  BY <1>1, <1>2, CallersAssumption DEF EndLogin, ReleaseMu, LocksInv, MuHeld, TypeOK
<1>4. Guarded => \A u \in Callers : pc'[u] \notin LoginPoints
  BY <1>1, CallersAssumption DEF LocksInv, GuardHeld
<1> QED
  BY <1>3, <1>4 DEF LocksInv, GuardHeld, RecordFresh

\* The same for the calls that hold authMu alone.
LEMMA ReleaseLocks ==
    ASSUME TypeOK, LocksInv, NEW t \in Callers, pc[t] \in MuPoints \ LoginPoints,
           ReleaseMu(t), Return(t), guardLock' = guardLock,
           \/ UNCHANGED <<mem, guardState>>
           \/ guardLock = NoCaller /\ \A d \in Clients \ {Owner[t]} : mem'[d] = mem[d]
    PROVE  LocksInv'
<1>1. \A u \in Callers : pc'[u] \in MuPoints => u # t /\ pc[u] = pc'[u]
  BY DEF Return, TypeOK
<1>2. \A u \in Callers : pc'[u] \in MuPoints => Owner[u] # Owner[t]
  BY <1>1, MuExclusive DEF LocksInv
<1>3. MuHeld'
  BY <1>1, <1>2, CallersAssumption DEF ReleaseMu, LocksInv, MuHeld, TypeOK
<1>4. GuardHeld'
  BY <1>1 DEF LocksInv, GuardHeld
<1>5. RecordFresh'
  BY <1>1, <1>2, CallersAssumption DEF LocksInv, GuardHeld, RecordFresh
<1> QED
  BY <1>3, <1>4, <1>5 DEF LocksInv

\* t, which holds the login lock, goes on holding it.
LEMMA InsideLocks ==
    ASSUME TypeOK, LocksInv, NEW t \in Callers, NEW point \in LoginPoints,
           pc[t] \in LoginPoints, Goto(t, point), UNCHANGED <<authMu, guardLock>>,
           \/ UNCHANGED <<mem, guardState>>
           \/ /\ Guarded => mem'[Owner[t]] = guardState'
              /\ \A d \in Clients \ {Owner[t]} : mem'[d] = mem[d]
    PROVE  LocksInv'
<1>1. \A u \in Callers : u # t => pc'[u] = pc[u]
  BY DEF Goto, TypeOK
<1>2. Guarded => \A u \in Callers : pc'[u] \in LoginPoints => u = t
  BY <1>1 DEF LocksInv, GuardHeld
<1>3. MuHeld' /\ GuardHeld'
  BY <1>1 DEF LocksInv, MuHeld, GuardHeld
<1>4. RecordFresh'
  BY <1>2, CallersAssumption DEF LocksInv, RecordFresh
<1> QED
  BY <1>3, <1>4 DEF LocksInv

\* What one client's StoreLoginState leaves alone, and what it makes equal.
LEMMA StoreLoginStateEffect ==
    ASSUME TypeOK, NEW c \in Clients, NEW state, NEW outcome, StoreLoginState(c, state, outcome)
    PROVE  /\ mem'[c] = state /\ \A d \in Clients \ {c} : mem'[d] = mem[d]
           /\ outcome # "failed" /\ Guarded => guardState' = state
           /\ outcome = "failed" \/ ~ Guarded => guardState' = guardState
BY DEF StoreLoginState, TypeOK

LEMMA SettleLocks ==
    ASSUME TypeOK, LocksInv, NEW t \in Callers, pc[t] \in LoginPoints,
           NEW definite \in BOOLEAN, Settle(t, definite)
    PROVE  LocksInv'
<1>1. \A d \in Clients \ {Owner[t]} : mem'[d] = mem[d]
  BY StoreLoginStateEffect, CallersAssumption DEF Settle
<1>2. EndLogin(t, FALSE)
  BY DEF Settle
<1> QED
  BY <1>1, <1>2, EndLoginLocks DEF LocksInv, GuardHeld

LEMMA NextLocks == TypeOK /\ LocksInv /\ [Next]_vars => LocksInv'
<1> SUFFICES ASSUME TypeOK, LocksInv, [Next]_vars PROVE LocksInv'
  OBVIOUS
<1> USE CallersAssumption
<1>1. ASSUME NEW t \in Callers,
             Starts(t) \/ ObserveGeneration(t) \/ SkipRenewal(t) \/ Send(t) \/ AnswerReturns(t) \/ AnswerExpired(t)
             \/ AnswerSetsCookies(t) \/ SaveSnapshot(t)
      PROVE  LocksInv'
  <2>1. /\ \E point \in Points \ MuPoints : pc' = [pc EXCEPT ![t] = point]
        /\ UNCHANGED <<authMu, guardLock, guardState, mem>>
    BY <1>1 DEF Starts, BeginRead, BeginPlain, Begin, ObserveGeneration, SkipRenewal, Send, AnswerReturns, AnswerExpired,
       AnswerSetsCookies, SaveSnapshot, AwaitMu, Retry, Return, guardVars, memVars
  <2> QED BY <2>1, OutsideLocks
<1>2. ASSUME NEW t \in Callers, TakeMu(t) PROVE LocksInv'
  <2>1. \A u \in Callers : pc[u] \in MuPoints => Owner[u] # Owner[t]
    BY <1>2 DEF TakeMu, MuFree, LocksInv, MuHeld
  <2>2. /\ \A u \in Callers : u # t => pc'[u] = pc[u]
        /\ pc'[t] \in {"reset", "lock"}
        /\ \A d \in Clients : d # Owner[t] => authMu'[d] = authMu[d]
        /\ authMu'[Owner[t]] = t
        /\ UNCHANGED <<guardLock, guardState, mem>>
    BY <1>2 DEF TakeMu, HoldMu, Goto, TypeOK, guardVars, memVars
  <2>3. MuHeld' BY <2>1, <2>2 DEF LocksInv, MuHeld
  <2>4. GuardHeld' /\ RecordFresh' BY <2>2 DEF LocksInv, GuardHeld, RecordFresh
  <2> QED BY <2>3, <2>4 DEF LocksInv
<1>3. ASSUME NEW t \in Callers, ClearJar(t) PROVE LocksInv'
  <2>1. CASE Stored
    <3>1. \A u \in Callers : pc[u] \in MuPoints => Owner[u] # Owner[t]
      BY <1>3 DEF ClearJar, MuFree, LocksInv, MuHeld
    <3>2. /\ \A u \in Callers : u # t => pc'[u] = pc[u]
          /\ pc'[t] = "delete"
          /\ \A d \in Clients : d # Owner[t] => authMu'[d] = authMu[d]
          /\ authMu'[Owner[t]] = t
          /\ UNCHANGED <<guardLock, guardState, mem>>
      BY <1>3, <2>1 DEF ClearJar, HoldMu, Goto, TypeOK, guardVars
    <3>3. MuHeld' BY <3>1, <3>2 DEF LocksInv, MuHeld
    <3>4. GuardHeld' /\ RecordFresh' BY <3>2 DEF LocksInv, GuardHeld, RecordFresh
    <3> QED BY <3>3, <3>4 DEF LocksInv
  <2>2. CASE ~ Stored
    <3>1. /\ \E point \in Points \ MuPoints : pc' = [pc EXCEPT ![t] = point]
          /\ UNCHANGED <<authMu, guardLock, guardState, mem>>
      BY <1>3, <2>2 DEF ClearJar, Return, guardVars
    <3> QED BY <3>1, OutsideLocks
  <2> QED BY <2>1, <2>2
<1>4. ASSUME NEW t \in Callers, DeleteRow(t) \/ LockFails(t) PROVE LocksInv'
  <2>1. /\ pc[t] \in MuPoints \ LoginPoints /\ ReleaseMu(t) /\ Return(t)
        /\ UNCHANGED <<guardLock, guardState, mem>>
    BY <1>4 DEF DeleteRow, LockFails, guardVars, memVars
  <2> QED BY <2>1, ReleaseLocks
<1>5. ASSUME NEW t \in Callers, ResetProtection(t) PROVE LocksInv'
  <2>1. /\ pc[t] \in MuPoints \ LoginPoints /\ ReleaseMu(t) /\ Return(t)
        /\ guardLock = NoCaller /\ guardLock' = guardLock
        /\ \A d \in Clients \ {Owner[t]} : mem'[d] = mem[d]
    BY <1>5, StoreLoginStateEffect DEF ResetProtection
  <2> QED BY <2>1, ReleaseLocks
<1>6. ASSUME NEW t \in Callers, EnterLogin(t) PROVE LocksInv'
  <2>1. /\ \A u \in Callers : u # t => pc'[u] = pc[u]
        /\ pc[t] = "lock" /\ pc'[t] \in {"probe", "gate"}
        /\ UNCHANGED <<authMu, guardState>>
        /\ \A d \in Clients \ {Owner[t]} : mem'[d] = mem[d]
        /\ Guarded => mem'[Owner[t]] = guardState
        /\ guardLock = NoCaller /\ (Guarded => guardLock' = t)
    BY <1>6 DEF EnterLogin, TakeGuard, Goto, TypeOK
  <2>2. MuHeld' BY <2>1 DEF LocksInv, MuHeld
  <2>3. Guarded => \A u \in Callers : pc'[u] \in LoginPoints => u = t
    BY <2>1 DEF LocksInv, GuardHeld
  <2>4. GuardHeld' /\ RecordFresh' BY <2>1, <2>3 DEF GuardHeld, RecordFresh
  <2> QED BY <2>2, <2>4 DEF LocksInv
<1>7. ASSUME NEW t \in Callers, ReloadFails(t) PROVE LocksInv'
  <2>1. /\ pc[t] \in MuPoints /\ EndLogin(t, FALSE) /\ guardLock \in {t, NoCaller}
        /\ \A d \in Clients \ {Owner[t]} : mem'[d] = mem[d]
    BY <1>7 DEF ReloadFails, TypeOK
  <2> QED BY <2>1, EndLoginLocks
<1>8. ASSUME NEW t \in Callers, ProbeValid(t) \/ ProbeFails(t) \/ GateRefuses(t) \/ ResolveLogin(t)
      PROVE  LocksInv'
  <2>1. pc[t] \in LoginPoints /\ \E ok \in BOOLEAN : EndLogin(t, ok)
    BY <1>8 DEF ProbeValid, ProbeFails, GateRefuses, ResolveLogin
  <2>2. \A d \in Clients \ {Owner[t]} : mem'[d] = mem[d]
    BY <1>8, StoreLoginStateEffect DEF ProbeValid, ProbeFails, GateRefuses, ResolveLogin, memVars
  <2> QED BY <2>1, <2>2, EndLoginLocks DEF LocksInv, GuardHeld
<1>9. ASSUME NEW t \in Callers, ProbeExpired(t) \/ ConfirmValid(t) \/ PostPassword(t) PROVE LocksInv'
  <2>1. /\ pc[t] \in LoginPoints /\ \E point \in LoginPoints : Goto(t, point)
        /\ UNCHANGED <<authMu, guardLock, guardState, mem>>
    BY <1>9 DEF ProbeExpired, ConfirmValid, PostPassword, guardVars, memVars
  <2> QED BY <2>1, InsideLocks
<1>10. ASSUME NEW t \in Callers, Reserve(t) PROVE LocksInv'
  <2>1. PICK outcome \in WriteOutcomes :
          /\ StoreLoginState(Owner[t], NextAttempt(Owner[t]), outcome)
          /\ IF outcome = "ok"
             THEN Goto(t, "post") /\ UNCHANGED <<authMu, guardLock>>
             ELSE EndLogin(t, FALSE)
    BY <1>10 DEF Reserve
  <2>2. pc[t] \in LoginPoints BY <1>10 DEF Reserve
  <2>3. CASE outcome = "ok" BY <2>1, <2>2, <2>3, InsideLocks, StoreLoginStateEffect
  <2>4. CASE outcome # "ok"
    BY <2>1, <2>2, <2>4, EndLoginLocks, StoreLoginStateEffect DEF LocksInv, GuardHeld
  <2> QED BY <2>3, <2>4
<1>11. ASSUME NEW t \in Callers, LoginAccepted(t) PROVE LocksInv'
  <2>1. \/ Goto(t, "confirm") /\ UNCHANGED <<mem, guardVars, authMu>>
        \/ Settle(t, FALSE)
    BY <1>11 DEF LoginAccepted
  <2>2. pc[t] \in LoginPoints BY <1>11 DEF LoginAccepted
  <2> QED BY <2>1, <2>2, InsideLocks, SettleLocks DEF guardVars
<1>12. ASSUME NEW t \in Callers, LoginFails(t) \/ ConfirmFails(t) PROVE LocksInv'
  <2>1. pc[t] \in LoginPoints /\ \E definite \in BOOLEAN : Settle(t, definite)
    BY <1>12 DEF LoginFails, ConfirmFails
  <2> QED BY <2>1, SettleLocks
<1>13. ASSUME NEW t \in Callers, PersistSession(t) PROVE LocksInv'
  <2>1. /\ pc[t] \in LoginPoints /\ UNCHANGED <<mem, guardState>>
        /\ \/ Goto(t, "resolve") /\ UNCHANGED <<authMu, guardLock>>
           \/ EndLogin(t, FALSE)
    BY <1>13 DEF PersistSession
  <2> QED BY <2>1, InsideLocks, EndLoginLocks DEF LocksInv, GuardHeld
<1>14. ASSUME NEW c \in Clients, Crash(c) PROVE LocksInv'
  <2>1. /\ \A u \in Callers : pc'[u] \in MuPoints => Owner[u] # c /\ pc[u] = pc'[u]
        /\ \A d \in Clients \ {c} : authMu'[d] = authMu[d] /\ mem'[d] = mem[d]
        /\ guardLock' = IF guardLock \in {t \in Callers : Owner[t] = c} THEN NoCaller ELSE guardLock
        /\ guardState' = guardState
    BY <1>14 DEF Crash, TypeOK
  <2> QED BY <2>1 DEF LocksInv, MuHeld, GuardHeld, RecordFresh
<1>15. CASE (\E s \in Sessions : Expire(s)) \/ Tick \/ UNCHANGED vars
  BY <1>15 DEF Expire, Tick, vars, guardVars, memVars, callerVars, LocksInv, MuHeld, GuardHeld, RecordFresh
<1> QED
  BY <1>1, <1>2, <1>3, <1>4, <1>5, <1>6, <1>7, <1>8, <1>9, <1>10, <1>11, <1>12, <1>13, <1>14, <1>15
  DEF Next, Advances, AcquireMu, AcquireGuard, Proceed

\* Two calls are never both between the check of the record and its update.
THEOREM LoginsExclusive == Spec => []LoginExclusive
<1>1. TypeOK /\ LocksInv => LoginExclusive
  BY DEF LocksInv, MuHeld, GuardHeld, LoginExclusive
<1> QED
  BY <1>1, InitTypeOK, NextTypeOK, InitLocks, NextLocks, PTL DEF Spec
-----------------------------------------------------------------------------
(* The record that limits the logins.                                       *)

\* The callers that may log in under the record of t, other than t: none.
Alone(t) == \A u \in Callers \ {t} : pc[u] \in LoginPoints => Owner[u] \notin Sharing(Owner[t])

LEMMA LoginAlone ==
    ASSUME LocksInv, NEW t \in Callers,
           \/ pc[t] \in LoginPoints
           \/ pc[t] \in MuPoints /\ guardLock = NoCaller
    PROVE  Alone(t)
BY CallersAssumption DEF Alone, Sharing, LocksInv, MuHeld, GuardHeld

\* The holder of the lock has the record in memory.
LEMMA RecordInMemory ==
    ASSUME LocksInv, NEW t \in Callers, pc[t] \in LoginPoints, NEW d \in Sharing(Owner[t])
    PROVE  Record(d) = mem[Owner[t]]
BY DEF Record, Sharing, LocksInv, RecordFresh

LEMMA RecordType == TypeOK => \A c \in Clients : Record(c) \in LoginState /\ tries[c] \in Nat /\ coolUntil[c] \in Nat
BY DEF TypeOK, Record

LEMMA InitRecord == Init => RecordInv
BY CallersAssumption DEF Init, RecordInv, Counted, Record, Unprotected

\* A step that leaves the records and the history alone, and in which t does not
\* come to a point the record must allow.
LEMMA RecordUntouched ==
    ASSUME TypeOK, RecordInv, NEW t \in Callers, NEW point \in Points,
           pc' = [pc EXCEPT ![t] = point],
           point = "post" => pc[t] = "post",
           point \in PostedPoints => pc[t] \in PostedPoints,
           \A d \in Clients : Record(d)' = Record(d),
           UNCHANGED <<now, tries, coolUntil>>
    PROVE  RecordInv'
<1>1. \A u \in Callers : /\ pc'[u] = "post" => pc[u] = "post"
                         /\ pc'[u] \in PostedPoints => pc[u] \in PostedPoints
  BY DEF TypeOK
<1>2. \A d \in Clients : Counted(d)'
  BY DEF RecordInv, Counted
<1>3. \A d \in Clients : (Reserved(d) => Reserved(d)') /\ (Posted(d) => Posted(d)')
  BY DEF Reserved, Posted
<1> QED
  BY <1>1, <1>2, <1>3, CallersAssumption DEF RecordInv, Sharing

\* A step of t that changes only the record and the history of its own clients.
LEMMA RecordStep ==
    ASSUME TypeOK, RecordInv, NEW t \in Callers, Alone(t),
           \A u \in Callers \ {t} : pc'[u] = pc[u],
           now' = now,
           \A d \in Clients \ Sharing(Owner[t]) :
               Record(d)' = Record(d) /\ tries'[d] = tries[d] /\ coolUntil'[d] = coolUntil[d],
           \A d \in Sharing(Owner[t]) : Counted(d)',
           \A d \in Sharing(Owner[t]) : /\ pc'[t] = "post" => Reserved(d)'
                                        /\ pc'[t] \in PostedPoints => Posted(d)'
    PROVE  RecordInv'
<1>1. \A d \in Clients \ Sharing(Owner[t]) :
          Counted(d)' /\ (Reserved(d) => Reserved(d)') /\ (Posted(d) => Posted(d)')
  BY DEF RecordInv, Counted, Reserved, Posted
<1>2. \A u \in Callers \ {t} : pc'[u] \in LoginPoints => Sharing(Owner[u]) \subseteq Clients \ Sharing(Owner[t])
  BY CallersAssumption DEF Alone, Sharing
<1>3. \A u \in Callers \ {t} : \A d \in Sharing(Owner[u]) :
          /\ pc'[u] = "post" => Reserved(d)'
          /\ pc'[u] \in PostedPoints => Posted(d)'
  BY <1>1, <1>2 DEF RecordInv
<1> QED
  BY <1>1, <1>3 DEF RecordInv

\* Forgetting the attempts together with the record keeps the count right.
LEMMA ForgetRecord ==
    ASSUME TypeOK, RecordInv, NEW t \in Callers, Alone(t),
           NEW outcome \in GuardOutcomes,
           StoreLoginState(Owner[t], Unprotected, outcome), ForgetTries(Owner[t], outcome),
           NEW point \in Points \ (PostedPoints \cup {"post"}), pc' = [pc EXCEPT ![t] = point],
           now' = now
    PROVE  RecordInv'
<1> DEFINE c == Owner[t]
<1>1. c \in Clients /\ Sharing(c) \subseteq Clients
  BY CallersAssumption DEF Sharing
<1>2. \A d \in Clients \ Sharing(c) :
          Record(d)' = Record(d) /\ tries'[d] = tries[d] /\ coolUntil'[d] = coolUntil[d]
  BY <1>1, StoreLoginStateEffect DEF Record, Sharing, ForgetTries
<1>3. CASE outcome # "failed"
  <2>1. \A d \in Sharing(c) : Record(d)' = Unprotected /\ tries'[d] = 0
    BY <1>1, <1>3, StoreLoginStateEffect DEF Record, Sharing, ForgetTries
  <2>2. \A d \in Sharing(c) : Counted(d)'
    BY <2>1 DEF Counted, Unprotected
  <2> QED
    BY <1>2, <2>2, RecordStep DEF TypeOK
<1>4. CASE outcome = "failed"
  <2>1. \A d \in Clients : Record(d)' = Record(d)
    BY <1>1, <1>4, StoreLoginStateEffect DEF Record
  <2>2. UNCHANGED <<tries, coolUntil>>
    BY <1>4 DEF ForgetTries, TypeOK
  <2> QED
    BY <2>1, <2>2, RecordUntouched
<1> QED
  BY <1>3, <1>4

LEMMA EndLoginMove ==
    ASSUME NEW t \in Callers, NEW ok \in BOOLEAN, EndLogin(t, ok)
    PROVE  \E point \in {"idle", "send"} : pc' = [pc EXCEPT ![t] = point]
BY DEF EndLogin, Retry, Return

\* The error path keeps the count and the cool-down.
LEMMA SettleRecord ==
    ASSUME TypeOK, LocksInv, RecordInv, NEW t \in Callers, pc[t] \in LoginPoints,
           NEW definite \in BOOLEAN, Settle(t, definite), UNCHANGED <<now, tries, coolUntil>>
    PROVE  RecordInv'
<1> DEFINE c == Owner[t]
           state == [mem[c] EXCEPT !.pending = FALSE,
                                   !.blocked = definite \/ mem[c].attempts >= MaxAttempts]
<1>1. c \in Clients /\ Sharing(c) \subseteq Clients /\ mem[c] \in LoginState
  BY CallersAssumption DEF Sharing, TypeOK
<1>2. PICK outcome \in GuardOutcomes : StoreLoginState(c, state, outcome)
  BY DEF Settle
<1>3. PICK point \in {"idle", "send"} : pc' = [pc EXCEPT ![t] = point]
  BY EndLoginMove DEF Settle
<1>4. state.attempts = mem[c].attempts /\ state.retryAfter = mem[c].retryAfter
  BY <1>1 DEF LoginState
<1>5. \A d \in Sharing(c) : Record(d)'.attempts = Record(d).attempts
                           /\ Record(d)'.retryAfter = Record(d).retryAfter
  BY <1>1, <1>2, <1>4, RecordInMemory, StoreLoginStateEffect DEF Record, Sharing
<1>6. \A d \in Sharing(c) : Counted(d)'
  BY <1>1, <1>5 DEF RecordInv, Counted
<1>7. \A d \in Clients \ Sharing(c) : Record(d)' = Record(d)
  BY <1>1, <1>2, StoreLoginStateEffect DEF Record, Sharing
<1> QED
  BY <1>3, <1>6, <1>7, LoginAlone, RecordStep DEF TypeOK
LEMMA ReserveRecord ==
    ASSUME TypeOK, LocksInv, RecordInv, NEW t \in Callers, Reserve(t)
    PROVE  RecordInv'
<1> DEFINE c == Owner[t]
<1>1. c \in Clients /\ Sharing(c) \subseteq Clients /\ c \in Sharing(c) /\ pc[t] \in LoginPoints
  BY CallersAssumption DEF Sharing, Reserve
<1>2. PICK outcome \in GuardOutcomes :
        /\ StoreLoginState(c, NextAttempt(c), outcome)
        /\ IF outcome = "ok"
           THEN Goto(t, "post") /\ UNCHANGED <<authMu, guardLock>>
           ELSE EndLogin(t, FALSE)
  BY DEF Reserve
<1>3. UNCHANGED <<now, tries, coolUntil>> /\ MayLogin(c)
  BY DEF Reserve, tryVars
<1>4. \A d \in Clients \ Sharing(c) : Record(d)' = Record(d)
  BY <1>1, <1>2, StoreLoginStateEffect DEF Record, Sharing
<1>5. \A d \in Sharing(c) : /\ Record(d) = mem[c] /\ Record(d) \in LoginState
                           /\ tries[d] \in Nat /\ coolUntil[d] \in Nat
  BY <1>1, RecordInMemory, RecordType
<1>6. CASE outcome = "failed"
  <2>1. \A d \in Clients : Record(d)' = Record(d)
    BY <1>1, <1>2, <1>6, StoreLoginStateEffect DEF Record
  <2>2. PICK point \in {"idle", "send"} : pc' = [pc EXCEPT ![t] = point]
    BY <1>2, <1>6, EndLoginMove
  <2> QED BY <1>3, <2>1, <2>2, RecordUntouched
<1>7. CASE outcome # "failed"
  <2>1. \A d \in Sharing(c) : Record(d)' = NextAttempt(c)
    BY <1>1, <1>2, <1>7, StoreLoginStateEffect DEF Record, Sharing
  <2>2. \A d \in Sharing(c) : Counted(d)'
    BY <1>1, <1>3, <1>5, <2>1, BoundsAssumption, Records
    DEF RecordInv, Counted, NextAttempt, MayLogin, TypeOK
  <2>3. \A u \in Callers \ {t} : pc'[u] = pc[u]
    BY <1>2, EndLoginMove DEF Goto, TypeOK
  <2>4. \A d \in Sharing(c) : Reserved(d)'
    BY <1>1, <1>3, <1>5, <2>1, BoundsAssumption, Records
    DEF RecordInv, Counted, Reserved, NextAttempt, MayLogin, TypeOK
  <2>5. pc'[t] \notin PostedPoints
    BY <1>2, EndLoginMove DEF Goto, TypeOK
  <2> QED BY <1>1, <1>3, <1>4, <2>2, <2>3, <2>4, <2>5, LoginAlone, RecordStep
<1> QED
  BY <1>6, <1>7

LEMMA PostRecord ==
    ASSUME TypeOK, LocksInv, RecordInv, NEW t \in Callers, PostPassword(t)
    PROVE  RecordInv'
<1> DEFINE c == Owner[t]
<1>1. c \in Clients /\ Sharing(c) \subseteq Clients /\ c \in Sharing(c) /\ pc[t] \in LoginPoints
  BY CallersAssumption DEF Sharing, PostPassword
<1>2. \A d \in Clients : Record(d)' = Record(d)
  BY DEF PostPassword, Record, guardVars, memVars
<1>3. \A d \in Sharing(c) : Record(d) = Record(c) /\ Record(d) = mem[c]
  BY <1>1, RecordInMemory
<1>4. /\ \A d \in Sharing(c) : Reserved(d)
      /\ pc'[t] = "await" /\ now' = now /\ \A u \in Callers \ {t} : pc'[u] = pc[u]
  BY DEF RecordInv, PostPassword, Goto, TypeOK
<1>5. /\ \A d \in Sharing(c) : tries'[d] = tries[d] + 1 /\ coolUntil'[d] = mem[c].retryAfter
      /\ \A d \in Clients \ Sharing(c) : tries'[d] = tries[d] /\ coolUntil'[d] = coolUntil[d]
  BY <1>1 DEF PostPassword
<1>6. \A d \in Sharing(c) : Counted(d)'
  BY <1>1, <1>2, <1>3, <1>4, <1>5, RecordType, Records DEF RecordInv, Counted, Reserved
<1>7. \A d \in Sharing(c) : Posted(d)'
  BY <1>1, <1>2, <1>4, <1>5, RecordType DEF Reserved, Posted
<1> QED
  BY <1>1, <1>2, <1>4, <1>5, <1>6, <1>7, LoginAlone, RecordStep

LEMMA NextRecord == TypeOK /\ LocksInv /\ RecordInv /\ [Next]_vars => RecordInv'
<1> SUFFICES ASSUME TypeOK, LocksInv, RecordInv, [Next]_vars PROVE RecordInv'
  OBVIOUS
<1> USE CallersAssumption
<1>1. ASSUME NEW t \in Callers,
             Starts(t) \/ ObserveGeneration(t) \/ SkipRenewal(t) \/ TakeMu(t) \/ ClearJar(t) \/ LockFails(t) \/ Send(t)
             \/ AnswerReturns(t) \/ AnswerExpired(t) \/ AnswerSetsCookies(t) \/ SaveSnapshot(t)
             \/ DeleteRow(t)
      PROVE  RecordInv'
  <2>1. /\ \E point \in Points \ (PostedPoints \cup {"post"}) : pc' = [pc EXCEPT ![t] = point]
        /\ UNCHANGED <<now, tries, coolUntil, guardState, mem>>
    BY <1>1 DEF Starts, BeginRead, BeginPlain, Begin, ObserveGeneration, SkipRenewal, TakeMu, ClearJar, LockFails, Send,
       AnswerReturns, AnswerExpired, AnswerSetsCookies, SaveSnapshot, DeleteRow, AwaitMu, Retry, Return,
       Goto, guardVars, memVars, tryVars
  <2>2. \A d \in Clients : Record(d)' = Record(d) BY <2>1 DEF Record
  <2> QED BY <2>1, <2>2, RecordUntouched
<1>2. ASSUME NEW t \in Callers, EnterLogin(t) \/ ReloadFails(t) PROVE RecordInv'
  <2>1. \E point \in Points \ (PostedPoints \cup {"post"}) : pc' = [pc EXCEPT ![t] = point]
    BY <1>2, EndLoginMove DEF EnterLogin, ReloadFails, Goto
  <2>2. UNCHANGED <<now, tries, coolUntil>> /\ \A d \in Clients : Record(d)' = Record(d)
    BY <1>2 DEF EnterLogin, ReloadFails, Record, tryVars
  <2> QED BY <2>1, <2>2, RecordUntouched
<1>3. ASSUME NEW t \in Callers, ResetProtection(t) PROVE RecordInv'
  <2>1. /\ pc' = [pc EXCEPT ![t] = "idle"] /\ now' = now
        /\ pc[t] = "reset" /\ guardLock = NoCaller
    BY <1>3 DEF ResetProtection, Return
  <2>2. PICK outcome \in GuardOutcomes :
          StoreLoginState(Owner[t], Unprotected, outcome) /\ ForgetTries(Owner[t], outcome)
    BY <1>3 DEF ResetProtection
  <2>3. Alone(t) BY <2>1, LoginAlone
  <2> QED BY <2>1, <2>2, <2>3, ForgetRecord
<1>4. ASSUME NEW t \in Callers, ProbeValid(t) \/ ResolveLogin(t) PROVE RecordInv'
  <2>1. pc[t] \in LoginPoints /\ now' = now /\ Alone(t)
    BY <1>4, LoginAlone DEF ProbeValid, ResolveLogin
  <2>2. PICK point \in {"idle", "send"} : pc' = [pc EXCEPT ![t] = point]
    BY <1>4, EndLoginMove DEF ProbeValid, ResolveLogin
  <2>3. CASE UNCHANGED <<mem, guardState, tryVars>>
    <3>1. \A d \in Clients : Record(d)' = Record(d) BY <2>3 DEF Record
    <3> QED BY <2>1, <2>2, <2>3, <3>1, RecordUntouched DEF tryVars
  <2>4. CASE \E outcome \in GuardOutcomes :
               StoreLoginState(Owner[t], Unprotected, outcome) /\ ForgetTries(Owner[t], outcome)
    BY <2>1, <2>2, <2>4, ForgetRecord
  <2> QED BY <1>4, <2>3, <2>4 DEF ProbeValid, ResolveLogin
<1>5. ASSUME NEW t \in Callers, ProbeExpired(t) \/ ProbeFails(t) \/ GateRefuses(t) PROVE RecordInv'
  <2>1. \E point \in Points \ (PostedPoints \cup {"post"}) : pc' = [pc EXCEPT ![t] = point]
    BY <1>5, EndLoginMove DEF ProbeExpired, ProbeFails, GateRefuses, Goto
  <2>2. UNCHANGED <<now, tries, coolUntil>> /\ \A d \in Clients : Record(d)' = Record(d)
    BY <1>5 DEF ProbeExpired, ProbeFails, GateRefuses, Record, guardVars, memVars, tryVars
  <2> QED BY <2>1, <2>2, RecordUntouched
<1>6. ASSUME NEW t \in Callers, Reserve(t) \/ PostPassword(t) PROVE RecordInv'
  BY <1>6, ReserveRecord, PostRecord
<1>7. ASSUME NEW t \in Callers, LoginAccepted(t) PROVE RecordInv'
  <2>1. pc[t] = "await" /\ UNCHANGED <<now, tries, coolUntil>>
    BY <1>7 DEF LoginAccepted, tryVars
  <2>2. CASE Goto(t, "confirm") /\ UNCHANGED <<mem, guardVars, authMu>>
    <3>1. \A d \in Clients : Record(d)' = Record(d) BY <2>2 DEF Record, guardVars
    <3> QED BY <2>1, <2>2, <3>1, RecordUntouched DEF Goto
  <2>3. CASE Settle(t, FALSE) BY <2>1, <2>3, SettleRecord
  <2> QED BY <1>7, <2>2, <2>3 DEF LoginAccepted
<1>8. ASSUME NEW t \in Callers, LoginFails(t) \/ ConfirmFails(t) PROVE RecordInv'
  <2>1. /\ pc[t] \in LoginPoints /\ UNCHANGED <<now, tries, coolUntil>>
        /\ \E definite \in BOOLEAN : Settle(t, definite)
    BY <1>8 DEF LoginFails, ConfirmFails, tryVars
  <2> QED BY <2>1, SettleRecord
<1>9. ASSUME NEW t \in Callers, ConfirmValid(t) \/ PersistSession(t) PROVE RecordInv'
  <2>1. /\ pc[t] \in PostedPoints
        /\ \E point \in PostedPoints \cup {"idle", "send"} : pc' = [pc EXCEPT ![t] = point]
    BY <1>9, EndLoginMove DEF ConfirmValid, PersistSession, Goto
  <2>2. UNCHANGED <<now, tries, coolUntil>> /\ \A d \in Clients : Record(d)' = Record(d)
    BY <1>9 DEF ConfirmValid, PersistSession, Record, guardVars, memVars, tryVars
  <2> QED BY <2>1, <2>2, RecordUntouched
<1>10. ASSUME NEW c \in Clients, Crash(c) PROVE RecordInv'
  <2>1. /\ \A u \in Callers : pc'[u] \in LoginPoints => pc'[u] = pc[u] /\ Owner[u] # c
        /\ UNCHANGED <<now, guardState>>
        /\ \A d \in Clients \ {c} : mem'[d] = mem[d] /\ tries'[d] = tries[d] /\ coolUntil'[d] = coolUntil[d]
    BY <1>10 DEF Crash, TypeOK
  <2>2. CASE Guarded
    <3>1. UNCHANGED <<tries, coolUntil>> /\ \A d \in Clients : Record(d)' = Record(d)
      BY <1>10, <2>1, <2>2 DEF Crash, Record
    <3>2. \A d \in Clients : /\ Counted(d)'
                            /\ (Reserved(d) => Reserved(d)') /\ (Posted(d) => Posted(d)')
      BY <2>1, <3>1 DEF RecordInv, Counted, Reserved, Posted
    <3> QED BY <2>1, <3>2 DEF RecordInv, Sharing
  <2>3. CASE ~ Guarded
    <3>1. \A d \in Clients \ {c} : Record(d)' = Record(d)
      BY <2>1, <2>3 DEF Record
    <3>2. Record(c)' = Unprotected /\ tries'[c] = 0
      BY <1>10, <2>3 DEF Crash, Record, TypeOK
    <3>3. \A d \in Clients : Counted(d)'
      BY <2>1, <3>1, <3>2 DEF RecordInv, Counted, Unprotected
    <3>4. \A d \in Clients \ {c} : (Reserved(d) => Reserved(d)') /\ (Posted(d) => Posted(d)')
      BY <2>1, <3>1 DEF Reserved, Posted
    <3> QED BY <2>1, <2>3, <3>3, <3>4 DEF RecordInv, Sharing
  <2> QED BY <2>2, <2>3
<1>11. CASE (\E s \in Sessions : Expire(s)) \/ Tick \/ UNCHANGED vars
  <2>1. UNCHANGED <<pc, guardState, mem, tries, coolUntil>> /\ now' >= now
    BY <1>11 DEF Expire, Tick, vars, guardVars, memVars, callerVars, tryVars, TypeOK
  <2>2. \A d \in Clients : Record(d)' = Record(d) BY <2>1 DEF Record
  <2>3. \A d \in Clients : Counted(d)' /\ (Posted(d) => Posted(d)')
    BY <2>1, <2>2 DEF RecordInv, Counted, Posted
  <2>4. now \in Nat /\ now' \in Nat
    BY <1>11 DEF Expire, Tick, vars, TypeOK
  <2>5. ASSUME NEW d \in Clients, Reserved(d) PROVE Reserved(d)'
    <3>1. tries'[d] = tries[d] /\ coolUntil'[d] = coolUntil[d] /\ coolUntil[d] \in Nat
      BY <2>1 DEF TypeOK
    <3>2. now >= coolUntil[d] => now' >= coolUntil[d]
      BY <2>1, <2>4, <3>1
    <3> QED BY <2>2, <2>5, <3>1, <3>2 DEF Reserved
  <2> QED BY <2>1, <2>3, <2>5 DEF RecordInv, Sharing
<1> QED
  BY <1>1, <1>2, <1>3, <1>4, <1>5, <1>6, <1>7, <1>8, <1>9, <1>10, <1>11
  DEF Next, Advances, AcquireMu, AcquireGuard, Proceed

IInv == TypeOK /\ LocksInv /\ RecordInv

LEMMA Invariance == Spec => []IInv
<1>1. Init => IInv
  BY InitTypeOK, InitLocks, InitRecord DEF IInv
<1>2. IInv /\ [Next]_vars => IInv'
  BY NextTypeOK, NextLocks, NextRecord DEF IInv
<1> QED
  BY <1>1, <1>2, PTL DEF Spec

\* However logins fail, crash or race, three passwords at most are sent until a
\* session is confirmed or the user resets the protection.
THEOREM BudgetHolds == Spec => []LoginBudget
<1>1. IInv => LoginBudget
  BY RecordType DEF IInv, RecordInv, Counted, LoginBudget, LoginState
<1> QED
  BY <1>1, Invariance, PTL

\* Whenever a crash may leave a password's outcome unknown, the record says so.
THEOREM IntentIsDurable == Spec => []DurableIntent
<1>1. IInv => DurableIntent
  BY CallersAssumption DEF IInv, RecordInv, Counted, Posted, DurableIntent, Sharing
<1> QED
  BY <1>1, Invariance, PTL

\* No password leaves during the cool-down of an earlier unresolved one.
THEOREM CooldownHolds == Spec => CooldownKept
<1>1. IInv => \A t \in Callers : PostPassword(t) /\ tries[Owner[t]] > 0 => now >= coolUntil[Owner[t]]
  BY CallersAssumption DEF IInv, RecordInv, Reserved, PostPassword, Sharing
<1> QED
  BY <1>1, Invariance, PTL DEF CooldownKept
-----------------------------------------------------------------------------
(* Refinement: what one client sees of the record is a step of LoginLimiter. *)

Limited(d) == [Limiter(d)!Next]_(Limiter(d)!observed)

LEMMA SameView ==
    ASSUME NEW d \in Clients, now' = now, Record(d)'.blocked = Record(d).blocked,
           tries'[d] = tries[d], coolUntil'[d] = coolUntil[d]
    PROVE  Limited(d)
BY DEF Limited, Limiter!observed, Limiter!limits

LEMMA ForgetView ==
    ASSUME NEW c \in Clients, NEW outcome \in GuardOutcomes, TypeOK, now' = now,
           StoreLoginState(c, Unprotected, outcome), ForgetTries(c, outcome), NEW d \in Clients
    PROVE  Limited(d)
<1>1. CASE outcome # "failed" /\ d \in Sharing(c)
  <2>1. Record(d)' = Unprotected /\ tries'[d] = 0 /\ coolUntil'[d] = 0
    BY <1>1, StoreLoginStateEffect DEF Record, Sharing, ForgetTries
  <2>2. Limiter(d)!Resolve
    BY <2>1 DEF Limiter!Resolve, Unprotected
  <2> QED BY <2>2 DEF Limited, Limiter!Next
<1>2. CASE outcome = "failed" \/ d \notin Sharing(c)
  <2>1. Record(d)' = Record(d) /\ tries'[d] = tries[d] /\ coolUntil'[d] = coolUntil[d]
    BY <1>2, StoreLoginStateEffect DEF Record, Sharing, ForgetTries, TypeOK
  <2> QED BY <2>1, SameView
<1> QED
  BY <1>1, <1>2

LEMMA SettleView ==
    ASSUME IInv, NEW t \in Callers, pc[t] \in PostedPoints, NEW definite \in BOOLEAN,
           Settle(t, definite), UNCHANGED <<now, tries, coolUntil>>, NEW d \in Clients
    PROVE  Limited(d)
<1> DEFINE c == Owner[t]
           state == [mem[c] EXCEPT !.pending = FALSE,
                                   !.blocked = definite \/ mem[c].attempts >= MaxAttempts]
<1>1. c \in Clients /\ mem[c] \in LoginState
  BY CallersAssumption DEF IInv, TypeOK
<1>2. PICK outcome \in GuardOutcomes : StoreLoginState(c, state, outcome)
  BY DEF Settle
<1>3. CASE Record(d)' = Record(d)
  BY <1>3, SameView
<1>4. CASE Record(d)' # Record(d)
  <2>1. d \in Sharing(c) /\ Record(d)' = state
    BY <1>1, <1>2, <1>4, StoreLoginStateEffect DEF IInv, Record, Sharing
  <2>2. Posted(d)
    BY <2>1 DEF IInv, RecordInv
  <2>3. state.blocked \in BOOLEAN
    BY <1>1, Records DEF LoginState
  <2>4. CASE state.blocked
    <3>1. Limiter(d)!Block BY <2>1, <2>2, <2>4, <2>3 DEF Posted, Limiter!Block
    <3> QED BY <3>1 DEF Limited, Limiter!Next
  <2>5. CASE ~ state.blocked
    <3>1. Record(d)'.blocked = Record(d).blocked
      BY <1>1, <2>1, <2>2, <2>3, <2>5, RecordType, Records DEF IInv, Posted
    <3> QED BY <3>1, SameView
  <2> QED BY <2>3, <2>4, <2>5
<1> QED
  BY <1>3, <1>4

LEMMA ReserveView ==
    ASSUME IInv, NEW t \in Callers, Reserve(t), NEW d \in Clients
    PROVE  Limited(d)
<1> DEFINE c == Owner[t]
<1>1. c \in Clients /\ pc[t] \in LoginPoints /\ UNCHANGED <<now, tries, coolUntil>> /\ ~ mem[c].blocked
  BY CallersAssumption DEF Reserve, MayLogin, tryVars
<1>2. PICK outcome \in GuardOutcomes : StoreLoginState(c, NextAttempt(c), outcome)
  BY DEF Reserve
<1>3. CASE Record(d)' = Record(d)
  BY <1>1, <1>3, SameView
<1>4. CASE Record(d)' # Record(d)
  <2>1. d \in Sharing(c) /\ Record(d)' = NextAttempt(c)
    BY <1>1, <1>2, <1>4, StoreLoginStateEffect DEF IInv, Record, Sharing
  <2>2. Record(d) = mem[c]
    BY <1>1, <2>1, RecordInMemory DEF IInv
  <2>3. Record(d)'.blocked = FALSE /\ Record(d).blocked = FALSE
    BY <1>1, <2>1, <2>2, RecordType, Records DEF IInv, NextAttempt
  <2> QED BY <1>1, <2>3, SameView
<1> QED
  BY <1>3, <1>4

LEMMA PostView ==
    ASSUME IInv, NEW t \in Callers, PostPassword(t), NEW d \in Clients
    PROVE  Limited(d)
<1> DEFINE c == Owner[t]
<1>1. c \in Clients /\ pc[t] = "post" /\ now' = now /\ Record(d)' = Record(d)
  BY CallersAssumption DEF PostPassword, Record, guardVars, memVars
<1>2. CASE d \notin Sharing(c)
  <2>1. tries'[d] = tries[d] /\ coolUntil'[d] = coolUntil[d]
    BY <1>2 DEF PostPassword
  <2> QED BY <1>1, <2>1, SameView
<1>3. CASE d \in Sharing(c)
  <2>1. Reserved(d) /\ Counted(d) /\ Record(d) = mem[c]
    BY <1>1, <1>3, RecordInMemory DEF IInv, RecordInv
  <2>2. tries'[d] = tries[d] + 1 /\ coolUntil'[d] = Record(d).retryAfter
    BY <1>3, <2>1 DEF PostPassword
  <2>3. /\ tries[d] \in Nat /\ coolUntil[d] \in Nat
        /\ Record(d).attempts \in Nat /\ Record(d).retryAfter \in Nat
    BY RecordType, Records DEF IInv
  <2>4. Limiter(d)!Post
    BY <1>1, <2>1, <2>2, <2>3, BoundsAssumption DEF Reserved, Counted, Limiter!Post
  <2> QED BY <2>4 DEF Limited, Limiter!Next
<1> QED
  BY <1>2, <1>3

LEMMA NextView ==
    ASSUME IInv, [Next]_vars, NEW d \in Clients
    PROVE  Limited(d)
<1> USE CallersAssumption
<1>1. ASSUME NEW t \in Callers,
             Starts(t) \/ ObserveGeneration(t) \/ SkipRenewal(t) \/ TakeMu(t) \/ ClearJar(t) \/ LockFails(t) \/ Send(t)
             \/ AnswerReturns(t) \/ AnswerExpired(t) \/ AnswerSetsCookies(t) \/ SaveSnapshot(t)
             \/ DeleteRow(t) \/ EnterLogin(t) \/ ReloadFails(t) \/ ProbeExpired(t) \/ ProbeFails(t)
             \/ GateRefuses(t) \/ ConfirmValid(t) \/ PersistSession(t)
      PROVE  Limited(d)
  <2>1. UNCHANGED <<now, tries, coolUntil, guardState>> /\ (~ Guarded => mem' = mem)
    BY <1>1 DEF Starts, BeginRead, BeginPlain, Begin, ObserveGeneration, SkipRenewal, TakeMu, ClearJar, LockFails, Send,
       AnswerReturns, AnswerExpired, AnswerSetsCookies, SaveSnapshot, DeleteRow, EnterLogin, ReloadFails,
       ProbeExpired, ProbeFails, GateRefuses, ConfirmValid, PersistSession, guardVars, memVars, tryVars
  <2>2. Record(d)' = Record(d) BY <2>1 DEF Record
  <2> QED BY <2>1, <2>2, SameView
<1>2. ASSUME NEW t \in Callers, ResetProtection(t) \/ ProbeValid(t) \/ ResolveLogin(t) PROVE Limited(d)
  <2>1. now' = now /\ TypeOK /\ Owner[t] \in Clients
    BY <1>2 DEF ResetProtection, ProbeValid, ResolveLogin, IInv
  <2>2. \/ UNCHANGED <<mem, guardState, tryVars>>
        \/ \E outcome \in GuardOutcomes :
              StoreLoginState(Owner[t], Unprotected, outcome) /\ ForgetTries(Owner[t], outcome)
    BY <1>2 DEF ResetProtection, ProbeValid, ResolveLogin
  <2> QED BY <2>1, <2>2, ForgetView, SameView DEF Record, tryVars
<1>3. ASSUME NEW t \in Callers, Reserve(t) \/ PostPassword(t) PROVE Limited(d)
  BY <1>3, ReserveView, PostView
<1>4. ASSUME NEW t \in Callers, LoginAccepted(t) PROVE Limited(d)
  <2>1. pc[t] = "await" /\ UNCHANGED <<now, tries, coolUntil>>
    BY <1>4 DEF LoginAccepted, tryVars
  <2>2. UNCHANGED <<mem, guardVars>> \/ Settle(t, FALSE)
    BY <1>4 DEF LoginAccepted
  <2> QED BY <2>1, <2>2, SettleView, SameView DEF Record, guardVars
<1>5. ASSUME NEW t \in Callers, LoginFails(t) \/ ConfirmFails(t) PROVE Limited(d)
  <2>1. /\ pc[t] \in PostedPoints /\ UNCHANGED <<now, tries, coolUntil>>
        /\ \E definite \in BOOLEAN : Settle(t, definite)
    BY <1>5 DEF LoginFails, ConfirmFails, tryVars
  <2> QED BY <2>1, SettleView
<1>6. ASSUME NEW c \in Clients, Crash(c) PROVE Limited(d)
  <2>1. CASE Guarded \/ d # c
    <3>1. now' = now /\ Record(d)' = Record(d) /\ tries'[d] = tries[d] /\ coolUntil'[d] = coolUntil[d]
      BY <1>6, <2>1 DEF Crash, Record, IInv, TypeOK
    <3> QED BY <3>1, SameView
  <2>2. CASE ~ Guarded /\ d = c
    <3>1. now' = now /\ Record(d)' = Unprotected /\ tries'[d] = 0 /\ coolUntil'[d] = 0
      BY <1>6, <2>2 DEF Crash, Record, IInv, TypeOK
    <3>2. Limiter(d)!Resolve BY <3>1 DEF Limiter!Resolve, Unprotected
    <3> QED BY <3>2 DEF Limited, Limiter!Next
  <2> QED BY <2>1, <2>2
<1>7. CASE Tick
  <2>1. now' > now /\ UNCHANGED <<mem, guardState, tries, coolUntil>>
    BY <1>7 DEF Tick, guardVars, memVars, tryVars, IInv, TypeOK
  <2>2. Limiter(d)!Pass BY <2>1 DEF Record, Limiter!Pass, Limiter!limits
  <2> QED BY <2>2 DEF Limited, Limiter!Next
<1>8. CASE (\E s \in Sessions : Expire(s)) \/ UNCHANGED vars
  <2>1. UNCHANGED <<now, mem, guardState, tries, coolUntil>>
    BY <1>8 DEF Expire, vars, guardVars, memVars, tryVars
  <2> QED BY <2>1, SameView DEF Record
<1> QED
  BY <1>1, <1>2, <1>3, <1>4, <1>5, <1>6, <1>7, <1>8 DEF Next, Advances, AcquireMu, AcquireGuard, Proceed

\* For every client, the protocol implements the promise of LoginLimiter.
THEOREM LoginsAreLimited == Spec => LimitsLogins
<1>1. Init => \A c \in Clients : Limiter(c)!Init
  BY DEF Init, Limiter!Init, Record, Unprotected
<1>2. IInv /\ [Next]_vars => \A c \in Clients : [Limiter(c)!Next]_(Limiter(c)!observed)
  BY NextView DEF Limited
<1> QED
  BY <1>1, <1>2, Invariance, PTL DEF Spec, LimitsLogins
-----------------------------------------------------------------------------
(* What ClearSession gave up, with one client whose answers set no cookies   *)
(* but those of a login.                                                     *)

\* Between the jar and the row, authMu keeps the jar empty.
ClearInv ==
    /\ cleared <= issued
    /\ ClearedStaysCleared
    /\ ~ Stored => store = NoRow
    /\ \A t \in Callers :
          /\ pc[t] = "delete" => Stored /\ jar[Owner[t]] = 0
          /\ pc[t] \notin {"saveReturn", "saveRenew"}

LEMMA NoRowOutside == \A n \in Nat : NoRow \notin 1 .. n
BY DEF NoRow

\* A caller moves on, and perhaps, under authMu, changes the jar or the row.
LEMMA ClearMove ==
    ASSUME TypeOK, LocksInv, ClearInv, NEW t \in Callers, \A c, d \in Clients : c = d,
           NEW point \in Points \ {"delete", "saveReturn", "saveRenew"},
           pc' = [pc EXCEPT ![t] = point],
           cleared' = cleared, issued' >= issued, issued' \in Nat,
           store' \notin 1 .. cleared, ~ Stored => store' = store,
           jar' = jar \/ (pc[t] \in MuPoints /\ \A c \in Clients : jar'[c] \notin 1 .. cleared)
    PROVE  ClearInv'
<1>1. \A u \in Callers : u # t => pc'[u] = pc[u]
  BY DEF TypeOK
<1>2. pc'[t] = point
  BY DEF TypeOK
<1>3. cleared' <= issued'
  BY DEF TypeOK, ClearInv
<1>4. ClearedStaysCleared'
  BY DEF ClearInv, ClearedStaysCleared
<1>5. ASSUME NEW u \in Callers, pc'[u] = "delete" PROVE Stored /\ jar'[Owner[u]] = 0
  <2>1. u # t /\ pc[u] = "delete"
    BY <1>1, <1>2, <1>5
  <2>2. pc[t] \notin MuPoints
    BY <2>1, MuExclusive, CallersAssumption DEF LocksInv
  <2> QED BY <2>1, <2>2 DEF ClearInv
<1>6. \A u \in Callers : pc'[u] \notin {"saveReturn", "saveRenew"}
  BY <1>1, <1>2 DEF ClearInv
<1> QED BY <1>3, <1>4, <1>5, <1>6 DEF ClearInv

LEMMA NextClear ==
    ASSUME \A c, d \in Clients : c = d, ~ RefreshCookies, Seeded = {},
           TypeOK, LocksInv, ClearInv, [Next]_vars
    PROVE  ClearInv'
<1> USE CallersAssumption
<1>0. /\ issued \in Nat /\ cleared \in Nat
      /\ store \notin 1 .. cleared /\ \A c \in Clients : jar[c] \notin 1 .. cleared
  BY BoundsAssumption DEF TypeOK, ClearInv, ClearedStaysCleared
<1>1. ASSUME NEW t \in Callers,
             Starts(t) \/ ObserveGeneration(t) \/ SkipRenewal(t) \/ TakeMu(t) \/ LockFails(t) \/ Send(t) \/ AnswerReturns(t)
             \/ AnswerExpired(t) \/ ReloadFails(t) \/ GateRefuses(t) \/ Reserve(t) \/ PostPassword(t)
             \/ ResetProtection(t) \/ ResolveLogin(t)
      PROVE  ClearInv'
  <2>1. PICK point \in Points \ {"delete", "saveReturn", "saveRenew"} : pc' = [pc EXCEPT ![t] = point]
    BY <1>1, EndLoginMove DEF Starts, BeginRead, BeginPlain, Begin, ObserveGeneration, SkipRenewal, TakeMu, LockFails, Send,
       AnswerReturns, AnswerExpired, ReloadFails, GateRefuses, Reserve, PostPassword, ResetProtection,
       ResolveLogin, AwaitMu, Retry, Return, Goto
  <2>2. UNCHANGED <<store, jar, cleared, issued>>
    BY <1>1 DEF Starts, BeginRead, BeginPlain, Begin, ObserveGeneration, SkipRenewal, TakeMu, LockFails, Send,
       AnswerReturns, AnswerExpired, ReloadFails, GateRefuses, Reserve, PostPassword, ResetProtection,
       ResolveLogin, serverVars, memVars, pastVars
  <2>3. cleared' = cleared /\ issued' >= issued /\ issued' \in Nat
    BY <1>0, <2>2
  <2>4. store' \notin 1 .. cleared /\ (~ Stored => store' = store)
    BY <1>0, <2>2
  <2>5. jar' = jar
    BY <2>2
  <2> QED BY <2>1, <2>3, <2>4, <2>5, ClearMove
<1>2. ASSUME NEW t \in Callers,
             ProbeValid(t) \/ ProbeExpired(t) \/ ProbeFails(t) \/ LoginFails(t) \/ ConfirmValid(t)
             \/ ConfirmFails(t)
      PROVE  ClearInv'
  <2>1. PICK point \in Points \ {"delete", "saveReturn", "saveRenew"} : pc' = [pc EXCEPT ![t] = point]
    BY <1>2, EndLoginMove DEF ProbeValid, ProbeExpired, ProbeFails, LoginFails, ConfirmValid,
       ConfirmFails, Settle, Goto
  <2>2. UNCHANGED <<store, jar, cleared, issued>>
    BY <1>2 DEF ProbeValid, ProbeExpired, ProbeFails, LoginFails, ConfirmValid,
       ConfirmFails, MaySaveJar, serverVars, memVars, pastVars
  <2>3. cleared' = cleared /\ issued' >= issued /\ issued' \in Nat
    BY <1>0, <2>2
  <2>4. store' \notin 1 .. cleared /\ (~ Stored => store' = store)
    BY <1>0, <2>2
  <2>5. jar' = jar
    BY <2>2
  <2> QED BY <2>1, <2>3, <2>4, <2>5, ClearMove
<1>3. ASSUME NEW t \in Callers, AnswerSetsCookies(t) \/ SaveSnapshot(t) PROVE FALSE
  BY <1>3 DEF AnswerSetsCookies, SaveSnapshot, ClearInv
<1>4. ASSUME NEW t \in Callers, ClearJar(t) PROVE ClearInv'
  <2>1. /\ jar' = [jar EXCEPT ![Owner[t]] = 0] /\ store' = store /\ issued' = issued
        /\ \A u \in Callers : u # t => pc'[u] = pc[u]
        /\ IF Stored THEN pc'[t] = "delete" /\ cleared' = cleared
           ELSE pc'[t] = "idle" /\ cleared' = issued
    BY <1>4 DEF ClearJar, Goto, Return, TypeOK, serverVars
  <2>2. \A c \in Clients : jar'[c] = 0
    BY <2>1 DEF TypeOK
  <2>3. cleared' <= issued' /\ (~ Stored => store' = NoRow)
    BY <1>0, <2>1 DEF ClearInv
  <2>4. ClearedStaysCleared'
    BY <1>0, <2>1, <2>2, <2>3 DEF ClearedStaysCleared
  <2>5. \A u \in Callers : /\ pc'[u] = "delete" => Stored
                           /\ pc'[u] \notin {"saveReturn", "saveRenew"}
    BY <2>1 DEF ClearInv
  <2> QED BY <2>2, <2>3, <2>4, <2>5 DEF ClearInv
<1>5. ASSUME NEW t \in Callers, DeleteRow(t) PROVE ClearInv'
  <2>1. PICK outcome \in WriteOutcomes :
          PutRow(NoRow, outcome) /\ cleared' = IF outcome = "ok" THEN issued ELSE cleared
    BY <1>5 DEF DeleteRow
  <2>2. /\ pc[t] = "delete" /\ jar' = jar /\ issued' = issued
        /\ pc' = [pc EXCEPT ![t] = "idle"]
    BY <1>5 DEF DeleteRow, Return, memVars, serverVars
  <2>3. Stored /\ \A c \in Clients : jar[c] = 0
    BY <2>2 DEF ClearInv
  <2>4. ClearedStaysCleared'
    <3>1. \A c \in Clients : jar'[c] \notin 1 .. cleared'
      BY <1>0, <2>1, <2>2, <2>3
    <3>2. CASE outcome = "ok"
      BY <2>1, <2>3, <3>1, <3>2, NoRowOutside DEF ClearedStaysCleared, PutRow
    <3>3. CASE outcome # "ok"
      <4>1. cleared' = cleared /\ store' \in {store, NoRow}
        BY <2>1, <3>3 DEF PutRow
      <4> QED BY <1>0, <3>1, <4>1, NoRowOutside DEF ClearedStaysCleared
    <3> QED BY <3>2, <3>3
  <2>5. cleared' <= issued'
    BY <1>0, <2>1, <2>2 DEF ClearInv
  <2>6. \A u \in Callers : /\ pc'[u] = "delete" => pc[u] = "delete"
                           /\ pc'[u] \notin {"saveReturn", "saveRenew"}
    BY <2>2 DEF TypeOK, ClearInv
  <2> QED BY <2>2, <2>3, <2>4, <2>5, <2>6 DEF ClearInv
<1>6. ASSUME NEW t \in Callers, EnterLogin(t) PROVE ClearInv'
  <2>0. PICK point \in {"probe", "gate"} : pc' = [pc EXCEPT ![t] = point]
    BY <1>6 DEF EnterLogin, Goto
  <2>1. /\ pc[t] \in MuPoints /\ UNCHANGED <<store, cleared, issued>>
        /\ jar' = IF Reloads(Owner[t]) /\ store # NoRow THEN [jar EXCEPT ![Owner[t]] = store] ELSE jar
    BY <1>6 DEF EnterLogin, Goto, serverVars, pastVars
  <2>2. \A c \in Clients : jar'[c] \notin 1 .. cleared
    BY <1>0, <2>1 DEF TypeOK
  <2>3. cleared' = cleared /\ issued' >= issued /\ issued' \in Nat
    BY <1>0, <2>1
  <2>4. store' \notin 1 .. cleared /\ (~ Stored => store' = store)
    BY <1>0, <2>1
  <2>5. pc[t] \in MuPoints
    BY <2>1
  <2>6. point \in Points \ {"delete", "saveReturn", "saveRenew"}
    BY DEF Points, MuPoints, LoginPoints
  <2> QED BY <2>0, <2>2, <2>3, <2>4, <2>5, <2>6, ClearMove
<1>7. ASSUME NEW t \in Callers, LoginAccepted(t) PROVE ClearInv'
  <2>0. PICK point \in {"confirm", "idle", "send"} : pc' = [pc EXCEPT ![t] = point]
    BY <1>7, EndLoginMove DEF LoginAccepted, Settle, Goto
  <2>1. /\ pc[t] \in MuPoints /\ cleared' = cleared /\ issued' = issued + 1
        /\ jar' = [jar EXCEPT ![Owner[t]] = issued + 1]
        /\ \E outcome \in StoreOutcomes : PutRow(issued + 1, outcome)
    BY <1>7, EndLoginMove DEF LoginAccepted, Settle, Goto, pastVars
  <2>2. issued + 1 \notin 1 .. cleared
    BY <1>0 DEF ClearInv
  <2>3. \A c \in Clients : jar'[c] \notin 1 .. cleared
    BY <1>0, <2>1, <2>2 DEF TypeOK
  <2>4. store' \notin 1 .. cleared /\ (~ Stored => store' = store)
    BY <1>0, <2>1, <2>2 DEF PutRow
  <2>5. cleared' = cleared /\ issued' >= issued /\ issued' \in Nat
    BY <1>0, <2>1
  <2>6. pc[t] \in MuPoints
    BY <2>1
  <2>7. point \in Points \ {"delete", "saveReturn", "saveRenew"}
    BY DEF Points, MuPoints, LoginPoints
  <2> QED BY <2>0, <2>3, <2>4, <2>5, <2>6, <2>7, ClearMove
<1>8. ASSUME NEW t \in Callers, PersistSession(t) PROVE ClearInv'
  <2>0. PICK point \in {"resolve", "idle", "send"} : pc' = [pc EXCEPT ![t] = point]
    BY <1>8, EndLoginMove DEF PersistSession, Goto
  <2>1. /\ UNCHANGED <<jar, cleared, issued>>
        /\ \E outcome \in StoreOutcomes : PutRow(jar[Owner[t]], outcome)
    BY <1>8, EndLoginMove DEF PersistSession, Goto, serverVars
  <2>2. store' \notin 1 .. cleared /\ (~ Stored => store' = store)
    BY <1>0, <2>1 DEF PutRow
  <2>3. cleared' = cleared /\ issued' >= issued /\ issued' \in Nat
    BY <1>0, <2>1
  <2>4. jar' = jar
    BY <2>1
  <2>5. point \in Points \ {"delete", "saveReturn", "saveRenew"}
    BY DEF Points, MuPoints, LoginPoints
  <2> QED BY <2>0, <2>2, <2>3, <2>4, <2>5, ClearMove
<1>9. ASSUME NEW c \in Clients, Crash(c) PROVE ClearInv'
  <2>1. /\ \A u \in Callers : pc'[u] = "idle" /\ jar'[c] = 0
        /\ UNCHANGED <<store, cleared, issued>>
    BY <1>9 DEF Crash, Given, TypeOK, serverVars, pastVars
  <2>2. \A d \in Clients : jar'[d] \notin 1 .. cleared
    BY <1>0, <1>9 DEF Crash, Given, TypeOK
  <2> QED BY <2>1, <2>2 DEF ClearInv, ClearedStaysCleared
<1>10. CASE (\E s \in Sessions : Expire(s)) \/ Tick \/ UNCHANGED vars
  BY <1>10 DEF Expire, Tick, vars, serverVars, memVars, callerVars, pastVars, ClearInv, ClearedStaysCleared
<1> QED
  BY <1>1, <1>2, <1>3, <1>4, <1>5, <1>6, <1>7, <1>8, <1>9, <1>10
  DEF Next, Advances, AcquireMu, AcquireGuard, Proceed

\* A session that ClearSession gave up does not come back, whatever the reads,
\* logins and crashes beside it do (ClearSession, auth.go): authMu suffices for
\* one client as long as no Save runs outside of it.  (A client that is built
\* with cookies brings those back when it is built again.)
THEOREM ClearedHolds ==
    ASSUME \A c, d \in Clients : c = d, ~ RefreshCookies, Seeded = {}
    PROVE  Spec => []ClearedStaysCleared
<1>1. Init => ClearInv
  BY CallersAssumption, BoundsAssumption DEF Init, Given, ClearInv, ClearedStaysCleared
<1>2. IInv /\ ClearInv /\ [Next]_vars => ClearInv'
  BY NextClear DEF IInv
<1>3. ClearInv => ClearedStaysCleared
  BY DEF ClearInv
<1> QED
  BY <1>1, <1>2, <1>3, Invariance, PTL DEF Spec
-----------------------------------------------------------------------------
(* Renewals, when only logins set cookies and one login runs at a time: the  *)
(* last session that was confirmed and saved is in the row as long as it is  *)
(* alive, so that whoever takes the lock finds it.                           *)

OneLogin == Stored /\ ~ RefreshCookies /\ (Guarded \/ \A c, d \in Clients : c = d)

\* Past the probe, no session is left to reuse.
RenewPoints == {"gate", "post", "await", "confirm", "persist"}
NewPoints == {"confirm", "persist"}

RenewedStored ==
    renewed \in valid =>
        store = renewed /\ (~ Guarded => \A c \in Clients : loaded[c] => jar[c] = renewed)
RenewAt(t) ==
    /\ pc[t] = "probe" /\ renewed \in valid => jar[Owner[t]] = renewed
    /\ pc[t] \in RenewPoints => renewed \notin valid
    /\ pc[t] \in NewPoints => jar[Owner[t]] = issued
    /\ pc[t] \notin {"saveReturn", "saveRenew"}
RenewInv == store <= issued /\ renewed <= issued /\ RenewedStored /\ \A t \in Callers : RenewAt(t)

LEMMA InitRenew == Init => RenewInv
<1> SUFFICES ASSUME Init PROVE RenewInv
  OBVIOUS
<1>1. issued \in Nat /\ store \in {NoRow} \cup 0 .. issued /\ \A c \in Clients : ~ loaded[c]
  BY BoundsAssumption DEF Init
<1>2. renewed = (IF store = NoRow THEN 0 ELSE store) /\ valid \subseteq 1 .. issued
  BY DEF Init
<1>3. RenewedStored
  BY <1>1, <1>2 DEF RenewedStored
<1>4. \A t \in Callers : pc[t] = "idle"
  BY DEF Init
<1>5. \A t \in Callers : RenewAt(t)
  BY <1>4 DEF RenewAt, RenewPoints, NewPoints
<1>6. renewed <= issued
  BY <1>1, <1>2
<1> QED BY <1>1, <1>3, <1>5, <1>6 DEF RenewInv

\* A caller goes on, and nothing else changes.
LEMMA RenewMove ==
    ASSUME TypeOK, RenewInv, NEW t \in Callers, NEW point \in Points \ {"probe", "saveReturn", "saveRenew"},
           pc' = [pc EXCEPT ![t] = point],
           point \in RenewPoints => renewed \notin valid,
           point \in NewPoints => jar[Owner[t]] = issued,
           UNCHANGED <<store, issued, valid, renewed, jar, loaded>>
    PROVE  RenewInv'
<1>1. store' <= issued' /\ renewed' <= issued' /\ RenewedStored'
  BY DEF RenewInv, RenewedStored
<1>2. ASSUME NEW u \in Callers, u # t PROVE RenewAt(u)'
  <2>1. pc'[u] = pc[u] /\ RenewAt(u)
    BY <1>2 DEF TypeOK, RenewInv
  <2> QED BY <2>1 DEF RenewAt
<1>3. pc'[t] = point
  BY DEF TypeOK
<1>4. RenewAt(t)'
  BY <1>3 DEF RenewAt
<1> QED BY <1>1, <1>2, <1>4 DEF RenewInv

\* Who changes its client's jar holds authMu: no other caller of that client is at a
\* point where the jar matters.
LEMMA RenewOthers ==
    ASSUME TypeOK, LocksInv, RenewInv, NEW t \in Callers, pc[t] \in MuPoints,
           NEW u \in Callers, u # t, pc'[u] = pc[u],
           \A c \in Clients \ {Owner[t]} : jar'[c] = jar[c],
           pc[u] \in RenewPoints => renewed' \notin valid',
           pc[u] \in NewPoints => issued' = issued,
           renewed' \in valid' => renewed' = renewed /\ renewed \in valid
    PROVE  RenewAt(u)'
<1>1. RenewAt(u)
  BY DEF RenewInv
<1>2. CASE pc[u] \in {"probe"} \cup NewPoints
  <2>1. pc[u] \in MuPoints
    BY <1>2 DEF NewPoints
  <2>2. Owner[u] # Owner[t]
    BY <2>1, MuExclusive DEF LocksInv
  <2>3. jar'[Owner[u]] = jar[Owner[u]]
    BY <2>2, CallersAssumption
  <2> QED BY <1>1, <2>3 DEF RenewAt
<1>3. CASE pc[u] \notin {"probe"} \cup NewPoints
  BY <1>1, <1>3 DEF RenewAt
<1> QED BY <1>2, <1>3

LEMMA NextRenew ==
    ASSUME OneLogin, TypeOK, LocksInv, RenewInv, [Next]_vars
    PROVE  RenewInv'
<1> USE CallersAssumption
<1>0. /\ issued \in Nat /\ valid \subseteq 1 .. issued /\ 0 \notin valid /\ renewed \in Nat
      /\ store \in Int /\ store <= issued /\ renewed <= issued
      /\ \A t \in Callers : RenewAt(t)
  BY BoundsAssumption DEF TypeOK, RenewInv
<1>1. ASSUME NEW t \in Callers,
             Starts(t) \/ ObserveGeneration(t) \/ SkipRenewal(t) \/ TakeMu(t) \/ LockFails(t) \/ Send(t) \/ AnswerReturns(t)
             \/ AnswerExpired(t) \/ ReloadFails(t) \/ GateRefuses(t) \/ ResetProtection(t) \/ ResolveLogin(t)
             \/ ProbeValid(t) \/ ProbeFails(t) \/ LoginFails(t) \/ ConfirmFails(t)
      PROVE  RenewInv'
  <2>1. PICK point \in Points \ ({"probe", "saveReturn", "saveRenew"} \cup RenewPoints) :
          pc' = [pc EXCEPT ![t] = point]
    BY <1>1, EndLoginMove DEF Starts, BeginRead, BeginPlain, Begin, ObserveGeneration, SkipRenewal, TakeMu, LockFails, Send,
       AnswerReturns, AnswerExpired, ReloadFails, GateRefuses, ResetProtection, ResolveLogin,
       ProbeValid, ProbeFails, LoginFails, ConfirmFails, Settle, AwaitMu, Retry, Return, Goto, RenewPoints
  <2>2. UNCHANGED <<store, issued, valid, renewed, jar, loaded>>
    BY <1>1 DEF OneLogin, Starts, BeginRead, BeginPlain, Begin, ObserveGeneration, SkipRenewal, TakeMu, LockFails, Send,
       AnswerReturns, AnswerExpired, ReloadFails, GateRefuses, ResetProtection, ResolveLogin,
       ProbeValid, ProbeFails, LoginFails, ConfirmFails, MaySaveJar, serverVars, memVars, pastVars
  <2>3. point \notin RenewPoints /\ point \notin NewPoints
    BY <2>1 DEF RenewPoints, NewPoints
  <2> QED BY <2>1, <2>2, <2>3, RenewMove
<1>2. ASSUME NEW t \in Callers, ProbeExpired(t) \/ Reserve(t) \/ PostPassword(t) \/ ConfirmValid(t)
      PROVE  RenewInv'
  <2>1. renewed \notin valid
    BY <1>0, <1>2 DEF RenewAt, RenewPoints, ProbeExpired, Reserve, PostPassword, ConfirmValid
  <2>2. PICK point \in {"gate", "post", "await", "persist", "idle", "send"} :
          pc' = [pc EXCEPT ![t] = point] /\ (point = "persist" => pc[t] = "confirm")
    BY <1>2, EndLoginMove DEF ProbeExpired, Reserve, PostPassword, ConfirmValid, Goto
  <2>3. UNCHANGED <<store, issued, valid, renewed, jar, loaded>>
    BY <1>2 DEF OneLogin, ProbeExpired, Reserve, PostPassword, ConfirmValid, MaySaveJar,
       serverVars, memVars, pastVars
  <2>4. point \in NewPoints => jar[Owner[t]] = issued
    BY <1>0, <2>2 DEF RenewAt, NewPoints
  <2>5. point \in Points \ {"probe", "saveReturn", "saveRenew"}
    BY <2>2
  <2> QED BY <2>1, <2>2, <2>3, <2>4, <2>5, RenewMove
<1>3. ASSUME NEW t \in Callers, AnswerSetsCookies(t) \/ SaveSnapshot(t) PROVE FALSE
  BY <1>0, <1>3 DEF AnswerSetsCookies, SaveSnapshot, RenewAt, OneLogin
<1>4. ASSUME NEW t \in Callers, ClearJar(t) PROVE RenewInv'
  <2>1. /\ UNCHANGED <<store, issued, valid>> /\ renewed' = 0 /\ pc'[t] = "delete" /\ MuFree(t)
        /\ \A c \in Clients \ {Owner[t]} : jar'[c] = jar[c]
        /\ \A u \in Callers : u # t => pc'[u] = pc[u]
    BY <1>4 DEF ClearJar, Goto, TypeOK, serverVars, OneLogin
  <2>2. renewed' \notin valid'
    BY <1>0, <2>1
  <2>3. RenewedStored'
    BY <2>2 DEF RenewedStored
  <2>4. ASSUME NEW u \in Callers, u # t PROVE RenewAt(u)'
    <3>1. pc[u] \in NewPoints => jar'[Owner[u]] = jar[Owner[u]]
      BY <2>1 DEF LocksInv, MuHeld, MuFree, NewPoints
    <3> QED BY <1>0, <2>1, <2>2, <2>4, <3>1 DEF RenewAt
  <2>5. RenewAt(t)'
    BY <2>1 DEF RenewAt, RenewPoints, NewPoints
  <2>6. store' <= issued' /\ renewed' <= issued'
    BY <1>0, <2>1
  <2> QED BY <2>3, <2>4, <2>5, <2>6 DEF RenewInv
<1>5. ASSUME NEW t \in Callers, DeleteRow(t) PROVE RenewInv'
  <2>1. /\ UNCHANGED <<issued, valid, jar>> /\ renewed' = 0 /\ pc[t] = "delete" /\ pc'[t] = "idle"
        /\ \A u \in Callers : u # t => pc'[u] = pc[u]
    BY <1>5 DEF DeleteRow, Return, TypeOK, serverVars, memVars
  <2>2. renewed' \notin valid'
    BY <1>0, <2>1
  <2>3. RenewedStored'
    BY <2>2 DEF RenewedStored
  <2>4. ASSUME NEW u \in Callers PROVE RenewAt(u)'
    BY <1>0, <2>1, <2>2 DEF RenewAt, RenewPoints, NewPoints
  <2>5. store' = store \/ store' = NoRow
    BY <1>5 DEF DeleteRow, PutRow
  <2>6. store' <= issued' /\ renewed' <= issued'
    BY <1>0, <2>1, <2>5
  <2> QED BY <2>3, <2>4, <2>6 DEF RenewInv
<1>6. ASSUME NEW t \in Callers, EnterLogin(t) PROVE RenewInv'
  <2>1. /\ UNCHANGED <<store, issued, valid, renewed>> /\ pc[t] \in MuPoints
        /\ pc'[t] \in {"probe", "gate"} /\ \A u \in Callers : u # t => pc'[u] = pc[u]
        /\ \A c \in Clients \ {Owner[t]} : jar'[c] = jar[c]
        /\ jar'[Owner[t]] = IF Reloads(Owner[t]) /\ store # NoRow THEN store ELSE jar[Owner[t]]
        /\ pc'[t] = "gate" => jar'[Owner[t]] = 0
    BY <1>6 DEF EnterLogin, Goto, TypeOK, serverVars, pastVars
  <2>2. renewed \in valid => store = renewed /\ renewed # NoRow /\ renewed # 0
    BY <1>0 DEF RenewInv, RenewedStored
  <2>3. renewed \in valid => jar'[Owner[t]] = renewed
    BY <2>1, <2>2 DEF RenewInv, RenewedStored, Reloads, OneLogin
  <2>4. \A c \in Clients : loaded'[c] /\ c # Owner[t] => loaded[c]
    BY <1>6 DEF EnterLogin, TypeOK
  <2>5. RenewedStored'
    BY <2>1, <2>2, <2>3, <2>4 DEF RenewInv, RenewedStored
  <2>6. ASSUME NEW u \in Callers, u # t PROVE RenewAt(u)'
    <3>1. pc[u] \in RenewPoints => renewed' \notin valid'
      BY <1>0, <2>1 DEF RenewAt
    <3>2. renewed' \in valid' => renewed' = renewed /\ renewed \in valid
      BY <2>1
    <3>3. pc'[u] = pc[u] /\ issued' = issued
      BY <2>1, <2>6
    <3> QED BY <2>1, <2>6, <3>1, <3>2, <3>3, RenewOthers
  <2>7. RenewAt(t)'
    BY <1>0, <2>1, <2>2, <2>3 DEF RenewAt, RenewPoints, NewPoints
  <2> QED BY <1>0, <2>1, <2>5, <2>6, <2>7 DEF RenewInv
<1>7. ASSUME NEW t \in Callers, LoginAccepted(t) PROVE RenewInv'
  <2>1. pc[t] = "await" /\ pc[t] \in MuPoints /\ pc[t] \in LoginPoints /\ renewed \notin valid
    BY <1>0, <1>7 DEF LoginAccepted, RenewAt, RenewPoints
  <2>2. /\ issued' = issued + 1 /\ valid' = valid \cup {issued + 1} /\ renewed' = renewed
        /\ jar'[Owner[t]] = issued + 1 /\ \A c \in Clients \ {Owner[t]} : jar'[c] = jar[c]
    BY <1>7 DEF LoginAccepted, TypeOK, pastVars
  <2>3. renewed' \notin valid'
    BY <1>0, <2>1, <2>2
  <2>4. RenewedStored'
    BY <2>3 DEF RenewedStored
  <2>5. store' \in {store, issued + 1}
    BY <1>7 DEF LoginAccepted, PutRow
  <2>6. store' <= issued' /\ renewed' <= issued'
    BY <1>0, <2>2, <2>5
  <2>7. PICK point \in {"confirm", "idle", "send"} : pc' = [pc EXCEPT ![t] = point]
    BY <1>7, EndLoginMove DEF LoginAccepted, Settle, Goto
  <2>8. ASSUME NEW u \in Callers, u # t PROVE RenewAt(u)'
    <3>1. pc[u] \notin LoginPoints
      BY <2>1, <2>8 DEF LocksInv, MuHeld, GuardHeld, OneLogin
    <3>2. pc'[u] = pc[u]
      BY <2>7, <2>8 DEF TypeOK
    <3> QED BY <1>0, <3>1, <3>2 DEF RenewAt, RenewPoints, NewPoints
  <2>9. pc'[t] = point
    BY <2>7 DEF TypeOK
  <2>10. RenewAt(t)'
    BY <2>2, <2>3, <2>7, <2>9 DEF RenewAt, RenewPoints, NewPoints
  <2> QED BY <2>4, <2>6, <2>8, <2>10 DEF RenewInv
<1>8. ASSUME NEW t \in Callers, PersistSession(t) PROVE RenewInv'
  <2>1. /\ UNCHANGED <<issued, valid, jar, loaded>> /\ pc[t] = "persist"
        /\ \E outcome \in WriteOutcomes :
              /\ PutRow(jar[Owner[t]], outcome)
              /\ IF outcome = "ok" THEN renewed' = jar[Owner[t]] ELSE renewed' = renewed
    BY <1>8 DEF PersistSession, serverVars
  <2>2. PICK point \in {"resolve", "idle", "send"} : pc' = [pc EXCEPT ![t] = point]
    BY <1>8, EndLoginMove DEF PersistSession, Goto
  <2>3. jar[Owner[t]] = issued /\ renewed \notin valid
    BY <1>0, <2>1 DEF RenewAt, RenewPoints, NewPoints
  <2>4. store' \in {store, issued} /\ (renewed' = renewed \/ (renewed' = issued /\ store' = issued))
    BY <2>1, <2>3 DEF PutRow, OneLogin
  <2>5. store' <= issued' /\ renewed' <= issued'
    BY <1>0, <2>1, <2>4
  <2>6. RenewedStored'
    BY <2>1, <2>3, <2>4 DEF RenewedStored, OneLogin
  <2>7. ASSUME NEW u \in Callers, u # t PROVE RenewAt(u)'
    <3>1. pc[u] \notin LoginPoints
      BY <2>1, <2>7 DEF LocksInv, MuHeld, GuardHeld, OneLogin
    <3>2. pc'[u] = pc[u]
      BY <2>2, <2>7 DEF TypeOK
    <3> QED BY <1>0, <3>1, <3>2 DEF RenewAt, RenewPoints, NewPoints
  <2>8. RenewAt(t)'
    BY <2>2 DEF RenewAt, RenewPoints, NewPoints, TypeOK
  <2> QED BY <2>5, <2>6, <2>7, <2>8 DEF RenewInv
<1>9. ASSUME NEW c \in Clients, Crash(c) PROVE RenewInv'
  <2>1. /\ UNCHANGED <<store, issued, valid, renewed>>
        /\ ~ loaded'[c] /\ \A d \in Clients \ {c} : jar'[d] = jar[d] /\ loaded'[d] = loaded[d]
    BY <1>9 DEF Crash, Given, TypeOK, serverVars, pastVars
  <2>2. RenewedStored'
    BY <2>1 DEF RenewInv, RenewedStored
  <2>3. ASSUME NEW u \in Callers PROVE RenewAt(u)'
    <3>1. CASE Owner[u] = c
      <4>1. pc'[u] = "idle"
        BY <1>9, <3>1 DEF Crash
      <4> QED BY <4>1 DEF RenewAt, RenewPoints, NewPoints
    <3>2. CASE Owner[u] # c
      <4>1. pc'[u] = pc[u] /\ jar'[Owner[u]] = jar[Owner[u]]
        BY <1>9, <2>1, <3>2 DEF Crash
      <4> QED BY <1>0, <2>1, <4>1 DEF RenewAt
    <3> QED BY <3>1, <3>2
  <2> QED BY <1>0, <2>1, <2>2, <2>3 DEF RenewInv
<1>10. ASSUME NEW s \in Sessions, Expire(s) PROVE RenewInv'
  <2>1. /\ UNCHANGED <<store, issued, renewed, jar, loaded, pc>> /\ valid' \subseteq valid
    BY <1>10 DEF Expire, memVars, callerVars, pastVars
  <2>2. RenewedStored'
    BY <2>1 DEF RenewInv, RenewedStored
  <2>3. ASSUME NEW u \in Callers PROVE RenewAt(u)'
    BY <1>0, <2>1 DEF RenewAt
  <2> QED BY <1>0, <2>1, <2>2, <2>3 DEF RenewInv
<1>11. CASE Tick \/ UNCHANGED vars
  BY <1>11 DEF Tick, vars, serverVars, memVars, callerVars, pastVars, RenewInv, RenewedStored, RenewAt
<1> QED
  BY <1>1, <1>2, <1>3, <1>4, <1>5, <1>6, <1>7, <1>8, <1>9, <1>10, <1>11
  DEF Next, Advances, AcquireMu, AcquireGuard, Proceed

\* Why no password is sent while a live session is in the store (login_guard.go:83:
\* reload and probe under the lock), and why the row only moves on to newer sessions.
LEMMA RenewInvariance == ASSUME OneLogin PROVE Spec => [](IInv /\ RenewInv)
<1>1. IInv /\ RenewInv /\ [Next]_vars => RenewInv'
  BY NextRenew DEF IInv
<1> QED
  BY <1>1, InitRenew, Invariance, PTL DEF Spec

\* No password is sent while the session of the last login is alive: with a guard
\* for all processes, without one for the goroutines of a client.
THEOREM LoginsAreNeeded == ASSUME OneLogin PROVE Spec => NoRedundantLogin
<1>1. IInv /\ RenewInv /\ [Next]_vars =>
        [\A t \in Callers : PostPassword(t) => renewed \notin valid]_vars
  BY DEF RenewInv, RenewAt, RenewPoints, PostPassword
<1> QED
  BY <1>1, RenewInvariance, PTL DEF Spec, NoRedundantLogin

\* A write to the row is a deletion or puts a session there that is not older.
LEMMA RowAdvances ==
    ASSUME OneLogin, TypeOK, RenewInv, [Next]_vars
    PROVE  store' = NoRow \/ store' >= store
<1>0. issued \in Nat /\ store \in Int /\ store <= issued /\ \A t \in Callers : RenewAt(t)
  BY BoundsAssumption DEF TypeOK, RenewInv
<1>1. ASSUME NEW t \in Callers,
             Starts(t) \/ AcquireMu(t) \/ AcquireGuard(t) \/ LockFails(t)
             \/ Send(t) \/ AnswerReturns(t) \/ AnswerExpired(t)
             \/ ProbeValid(t) \/ ProbeExpired(t) \/ ProbeFails(t) \/ GateRefuses(t) \/ Reserve(t)
             \/ PostPassword(t) \/ LoginFails(t) \/ ConfirmValid(t) \/ ConfirmFails(t) \/ ResolveLogin(t)
      PROVE  store' = store
  BY <1>1 DEF OneLogin, Starts, BeginRead, BeginPlain, Begin, AcquireMu, ObserveGeneration, SkipRenewal, TakeMu, ClearJar,
     AcquireGuard, EnterLogin, ReloadFails, ResetProtection, LockFails, Send, AnswerReturns, AnswerExpired,
     ProbeValid, ProbeExpired, ProbeFails, GateRefuses, Reserve, PostPassword, LoginFails, ConfirmValid,
     ConfirmFails, ResolveLogin, MaySaveJar
<1>2. ASSUME NEW t \in Callers, AnswerSetsCookies(t) \/ SaveSnapshot(t) PROVE FALSE
  BY <1>0, <1>2 DEF AnswerSetsCookies, SaveSnapshot, RenewAt, OneLogin
<1>3. ASSUME NEW t \in Callers, DeleteRow(t) PROVE store' \in {store, NoRow}
  BY <1>3 DEF DeleteRow, PutRow
<1>4. ASSUME NEW t \in Callers, LoginAccepted(t) PROVE store' \in {store, issued + 1}
  BY <1>4 DEF LoginAccepted, PutRow
<1>5. ASSUME NEW t \in Callers, PersistSession(t) PROVE store' \in {store, issued}
  <2>1. jar[Owner[t]] = issued
    BY <1>0, <1>5 DEF PersistSession, RenewAt, NewPoints
  <2> QED BY <1>5, <2>1 DEF PersistSession, PutRow
<1>6. ASSUME (\E c \in Clients : Crash(c)) \/ (\E s \in Sessions : Expire(s)) \/ Tick \/ UNCHANGED vars
      PROVE  store' = store
  BY <1>6 DEF Crash, Expire, Tick, vars
<1>7. store' \in {store, NoRow, issued, issued + 1}
  BY <1>1, <1>2, <1>3, <1>4, <1>5, <1>6 DEF Next, Advances, Proceed
<1> QED BY <1>0, <1>7

\* The row never goes back to an older session (loginOnce and protectedLoginLocked):
\* a process that was slow cannot undo what another has saved since.
THEOREM RowNeverGoesBack == ASSUME OneLogin PROVE Spec => StoreNeverRegresses
<1>1. IInv /\ RenewInv /\ [Next]_vars => [store' = NoRow \/ store' >= store]_vars
  BY RowAdvances DEF IInv
<1> QED
  BY <1>1, RenewInvariance, PTL DEF Spec, StoreNeverRegresses
=============================================================================
