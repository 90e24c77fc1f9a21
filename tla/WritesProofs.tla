---------------------------- MODULE WritesProofs ----------------------------
(* Proofs about Writes for any set of operations and any number of calls.   *)
EXTENDS Writes, TLAPS

USE DEF AllOperations, Identified, Redirects, Refusals, NoAnswer, NoResult, Fails

LEMMA AnswerFields ==
    ASSUME NEW a \in Answers
    PROVE  /\ a.http \in Https /\ a.code \in Codes
           /\ a.data \in {"id", "none", "bad"} /\ a.cookies \in BOOLEAN
BY DEF Answers

LEMMA CauseType ==
    ASSUME NEW a \in Answers
    PROVE  Cause(a) \in {{"expired"}, {"protocol"}, {"api"}, {"api", "quota"}}
BY DEF Cause

LEMMA ResultOf ==
    ASSUME NEW i \in BOOLEAN, NEW e \in SUBSET Errors
    PROVE  [id |-> i, is |-> e] \in Results
BY DEF Results

LEMMA UnknownIs ==
    ASSUME NEW e
    PROVE  /\ "unknown" \in Unknown(e).is /\ Unknown(e).is # {} /\ ~ Unknown(e).id
           /\ ~ Definite(Unknown(e))
<1>1. Unknown(e) = [id |-> FALSE, is |-> {"unknown"} \cup e]
  BY DEF Unknown
<1>2. "unknown" \in {"unknown"} \cup e
  OBVIOUS
<1> QED
  BY <1>1, <1>2 DEF Definite

LEMMA PageErrorsType == PageErrors \subseteq SUBSET Errors /\ {} \notin PageErrors
BY DEF PageErrors, LoginErrors, Protections, Errors

LEMMA UnknownOf ==
    ASSUME NEW e \in SUBSET Errors
    PROVE  Unknown(e) \in Results
<1>1. {"unknown"} \cup e \in SUBSET Errors
  BY DEF Errors
<1> QED
  BY <1>1, ResultOf DEF Unknown

\* What writeBacktestEnvelope makes of an answer: an ID only of an accepted one,
\* no error only of an accepted one.
LEMMA EnvelopeCases ==
    ASSUME NEW a \in Answers, NEW saved \in BOOLEAN
    PROVE  \/ /\ Accepted(a)
              /\ Envelope(a, saved).id = (a.data = "id")
              /\ Envelope(a, saved).is \in {{}, {"persistence"}}
              /\ saved => Envelope(a, saved).is = {}
              /\ Envelope(a, saved) = [id |-> a.data = "id", is |-> Envelope(a, saved).is]
           \/ ~ Accepted(a) /\ Ambiguous(a) /\ Envelope(a, saved) = Unknown(Cause(a))
           \/ ~ Accepted(a) /\ ~ Ambiguous(a) /\ Envelope(a, saved) = Fails(Cause(a))
BY DEF Envelope, Saving

LEMMA CreationCases ==
    ASSUME NEW a \in Answers, NEW saved \in BOOLEAN
    PROVE  \/ a.http = "editor" /\ Creation(a, saved) = [id |-> TRUE, is |-> Saving(saved)]
           \/ a.http = "login" /\ Creation(a, saved) = Fails({"expired"})
           \/ /\ a.http \in {"2xx", "4xx", "401", "408"} /\ a.code \in Refusals
              /\ Creation(a, saved) = Fails(Cause([a EXCEPT !.http = "2xx"]))
           \/ Creation(a, saved) = Unknown({"protocol"})
BY DEF Creation

LEMMA OutcomeType ==
    ASSUME NEW o \in AllOperations, NEW a \in Answers, NEW saved \in BOOLEAN
    PROVE  Outcome(o, a, saved) \in Results
<1> DEFINE r == IF o = "create" THEN Creation(a, saved) ELSE Envelope(a, saved)
<1>1. [a EXCEPT !.http = "2xx"] \in Answers
  BY DEF Answers, Https
<1>2. Cause(a) \in SUBSET Errors /\ Cause([a EXCEPT !.http = "2xx"]) \in SUBSET Errors
  BY <1>1, CauseType DEF Errors
<1>3. {} \in SUBSET Errors /\ {"persistence"} \in SUBSET Errors /\ {"expired"} \in SUBSET Errors
      /\ {"protocol"} \in SUBSET Errors /\ {"credits"} \in SUBSET Errors
  BY DEF Errors
<1>4. Creation(a, saved) \in Results
  BY <1>2, <1>3, CreationCases, ResultOf, UnknownOf DEF Saving
<1>5. Envelope(a, saved) \in Results
  BY <1>2, <1>3, EnvelopeCases, ResultOf, UnknownOf
<1>6. r \in Results
  BY <1>4, <1>5
<1>7. r.is \cup {"credits"} \in SUBSET Errors
  BY <1>3, <1>6 DEF Results
<1>8. CASE o = "export" /\ "quota" \in r.is
  BY <1>7, <1>8, ResultOf DEF Outcome, NotEntitled
<1>9. CASE ~ (o = "export" /\ "quota" \in r.is)
  <2>1. Outcome(o, a, saved) \in {r, Unknown({"protocol"})}
    BY <1>9 DEF Outcome, NotEntitled
  <2> QED
    BY <2>1, <1>3, <1>6, UnknownOf
<1> QED
  BY <1>8, <1>9

\* An error that leaves no doubt comes from an answer that refuses.
LEMMA DefiniteRefuses ==
    ASSUME NEW o \in AllOperations, NEW a \in Answers, NEW did \in BOOLEAN, NEW saved \in BOOLEAN,
           Structured408 => o # "create", Possible(o, did, a), Definite(Outcome(o, a, saved))
    PROVE  ~ did
<1>1. a.http \in Https /\ a.code \in Codes
  BY AnswerFields
<1>2. CASE o = "create"
  <2>1. Outcome(o, a, saved) \in {Creation(a, saved), Unknown({"protocol"})}
    BY <1>2 DEF Outcome, NotEntitled
  <2>2. Definite(Creation(a, saved))
    BY <2>1, UnknownIs
  <2>3. a.http # "editor" /\ Creation(a, saved) # Unknown({"protocol"})
    BY <2>2, UnknownIs DEF Definite, Creation, Saving
  <2>4. a.http = "login" \/ (a.http \in {"2xx", "4xx", "401", "408"} /\ a.code \in Refusals)
    BY <2>3, CreationCases
  <2> QED
    BY <1>2, <2>4 DEF Possible, Refuses
<1>3. CASE o # "create"
  <2>1. ~ Accepted(a)
    <3>1. SUFFICES ASSUME Accepted(a) PROVE FALSE
      OBVIOUS
    <3>2. Envelope(a, saved).is \in {{}, {"persistence"}}
      BY <3>1, EnvelopeCases
    <3>3. "quota" \notin Envelope(a, saved).is
      BY <3>2
    <3>4. ~ Definite(Envelope(a, saved)) /\ ~ Definite(Unknown({"protocol"}))
      BY <3>2, UnknownIs DEF Definite
    <3>5. Outcome(o, a, saved) = Envelope(a, saved) \/ Outcome(o, a, saved) = Unknown({"protocol"})
      BY <1>3, <3>3 DEF Outcome, NotEntitled
    <3> QED
      BY <3>4, <3>5
  <2>2. ~ Ambiguous(a)
    <3>1. SUFFICES ASSUME Ambiguous(a) PROVE FALSE
      OBVIOUS
    <3>2. Envelope(a, saved) = Unknown(Cause(a))
      BY <2>1, <3>1 DEF Envelope
    <3>3. "unknown" \in Outcome(o, a, saved).is
      BY <1>3, <3>2, UnknownIs DEF Outcome, NotEntitled
    <3> QED
      BY <3>3 DEF Definite
  <2> QED
    BY <1>1, <1>3, <2>2 DEF Possible, Refuses, Ambiguous, Https
<1> QED
  BY <1>2, <1>3

LEMMA SuccessReported ==
    ASSUME NEW o \in AllOperations, NEW a \in Answers, NEW did \in BOOLEAN, NEW saved \in BOOLEAN,
           Possible(o, did, a), Outcome(o, a, saved).is = {}
    PROVE  did
<1>1. CASE o = "create"
  <2>1. Outcome(o, a, saved) \in {Creation(a, saved), Unknown({"protocol"})}
    BY <1>1 DEF Outcome, NotEntitled
  <2>2. Creation(a, saved).is = {}
    BY <2>1, UnknownIs
  <2>3. [a EXCEPT !.http = "2xx"] \in Answers
    BY DEF Answers, Https
  <2>4. a.http = "editor"
    BY <2>2, <2>3, CreationCases, CauseType, UnknownIs
  <2> QED
    BY <1>1, <2>4 DEF Possible, Reports
<1>2. CASE o # "create"
  <2>1. Envelope(a, saved).is = {}
    BY <1>2, UnknownIs DEF Outcome, NotEntitled
  <2>2. Accepted(a)
    BY <2>1, EnvelopeCases, CauseType, UnknownIs
  <2> QED
    BY <1>2, <2>2 DEF Accepted, Possible, Reports
<1> QED
  BY <1>1, <1>2

LEMMA IdKept ==
    ASSUME NEW o \in Identified, NEW a \in Answers, NEW did \in BOOLEAN, NEW saved \in BOOLEAN,
           Possible(o, did, a), Reports(o, a), o = "create" \/ a.data = "id"
    PROVE  Outcome(o, a, saved).id
<1>1. CASE o = "create"
  <2>1. Creation(a, saved) = [id |-> TRUE, is |-> Saving(saved)]
    BY <1>1 DEF Creation, Reports
  <2>2. Creation(a, saved).id /\ Creation(a, saved) # Fails({})
    BY <2>1
  <2> QED
    BY <1>1, <2>2 DEF Outcome, NotEntitled
<1>2. CASE o # "create"
  <2>1. Accepted(a)
    BY <1>2 DEF Accepted, Reports
  <2>2. Envelope(a, saved).id /\ Envelope(a, saved).is \in {{}, {"persistence"}}
    BY <1>2, <2>1, EnvelopeCases
  <2>3. "quota" \notin Envelope(a, saved).is
    BY <2>2
  <2>4. Envelope(a, saved) # Fails({})
    BY <2>2
  <2>5. Outcome(o, a, saved) = Envelope(a, saved)
    BY <1>2, <2>3, <2>4 DEF Outcome, NotEntitled
  <2> QED
    BY <2>2, <2>5
<1> QED
  BY <1>1, <1>2

-----------------------------------------------------------------------------
\* Where a call is says how many of its requests there are, and whether JoinQuant
\* has answered; what it returned says whether one may still be on its way.
NetInv ==
    /\ pc \in {"page", "ready"} => net = 0 /\ landed = 0 /\ answer = NoAnswer
    /\ pc = "wait" => net + landed = 1 /\ (landed = 1 <=> answer # NoAnswer)
    /\ pc = "idle" => net + landed <= 1 /\ (Definite(result) => net = 0)
                        /\ (answer # NoAnswer => net = 0)

\* An answer goes with what JoinQuant did, a result with what happened before it.
AnswerInv ==
    /\ answer # NoAnswer => \E did \in BOOLEAN : Possible(op, did, answer) /\ (did => tasks > 0)
    /\ pc = "idle" /\ result.is = {} => tasks > 0

LEMMA InitInv == Init => TypeOK /\ NetInv /\ AnswerInv /\ KnownIdKept
<1> SUFFICES ASSUME Init PROVE TypeOK /\ NetInv /\ AnswerInv /\ KnownIdKept
  OBVIOUS
<1>1. result = NoResult /\ result.is # {} /\ result \in Results
  BY DEF Init, Results, Errors
<1> QED
  BY <1>1, WritesAssumption DEF Init, TypeOK, NetInv, AnswerInv, KnownIdKept

\* No request is sent again: none follows a redirect, none can be read again.
LEMMA SentOnce == ~ Replays(Request(op)) /\ ~ Follows(Request(op), answer)
BY DEF Replays, Follows, Rereads, Request, Method

LEMMA NextTypeOK == TypeOK /\ [Next]_vars => TypeOK'
<1> SUFFICES ASSUME TypeOK, [Next]_vars PROVE TypeOK'
  OBVIOUS
<1> USE WritesAssumption
<1>1. op \in AllOperations /\ \A e : e \in SUBSET Errors => Fails(e) \in Results
  BY ResultOf DEF TypeOK
<1>2. CASE Begin
  BY <1>2 DEF Begin, TypeOK
<1>3. CASE ReadPage
  <2>1. result' \in Results
    BY <1>1, <1>3, PageErrorsType DEF ReadPage, Return, TypeOK
  <2> QED
    BY <1>3, <2>1 DEF ReadPage, Return, TypeOK
<1>4. CASE Submit
  <2>1. result' \in Results
    BY <1>1, <1>4 DEF Submit, Return, Errors, TypeOK
  <2> QED
    BY <1>4, <2>1 DEF Submit, Return, TypeOK
<1>5. CASE Land
  BY <1>5 DEF Land, TypeOK
<1>6. CASE LoseAnswer
  <2>1. Unknown({"transport"}) \in Results
    BY UnknownOf DEF Errors
  <2> QED
    BY <1>6, <2>1 DEF LoseAnswer, Return, TypeOK
<1>7. CASE Receive
  <2>1. \A saved \in BOOLEAN : answer # NoAnswer => Outcome(op, answer, saved) \in Results
    BY <1>1, OutcomeType DEF TypeOK
  <2>2. result' \in Results
    BY <1>7, <2>1 DEF Receive, Return, TypeOK
  <2>3. pc' = "idle" /\ net' = net /\ answer' = answer
    BY <1>7, SentOnce DEF Receive, Return
  <2> QED
    BY <1>7, <2>2, <2>3 DEF Receive, TypeOK
<1>8. CASE UNCHANGED vars
  BY <1>8 DEF vars, TypeOK
<1> QED
  BY <1>2, <1>3, <1>4, <1>5, <1>6, <1>7, <1>8 DEF Next

LEMMA NextNet == TypeOK /\ NetInv /\ [Next]_vars => NetInv'
<1> SUFFICES ASSUME TypeOK, NetInv, [Next]_vars PROVE NetInv'
  OBVIOUS
<1>1. CASE Begin
  BY <1>1 DEF Begin, TypeOK, NetInv
<1>2. CASE ReadPage
  BY <1>2 DEF ReadPage, Return, TypeOK, NetInv
<1>3. CASE Submit
  BY <1>3 DEF Submit, Return, TypeOK, NetInv
<1>4. CASE Land
  <2>1. NoAnswer \notin Answers
    BY DEF Answers, Https
  <2>2. ~ (pc = "idle" /\ (Definite(result) \/ answer # NoAnswer))
    BY <1>4 DEF Land, NetInv
  <2> QED
    BY <1>4, <2>1, <2>2 DEF Land, TypeOK, NetInv
<1>5. CASE LoseAnswer
  <2>1. net' = net /\ landed' = landed /\ pc' = "idle" /\ answer' = NoAnswer
        /\ result' = Unknown({"transport"})
    BY <1>5, SentOnce DEF LoseAnswer, Return
  <2>2. ~ Definite(result')
    BY <2>1, UnknownIs
  <2> QED
    BY <1>5, <2>1, <2>2 DEF LoseAnswer, TypeOK, NetInv
<1>6. CASE Receive
  <2>1. net' = net /\ landed' = landed /\ pc' = "idle" /\ answer' = answer
    BY <1>6, SentOnce DEF Receive, Return
  <2> QED
    BY <1>6, <2>1 DEF Receive, TypeOK, NetInv
<1>7. CASE UNCHANGED vars
  BY <1>7 DEF vars, NetInv, Definite
<1> QED
  BY <1>1, <1>2, <1>3, <1>4, <1>5, <1>6, <1>7 DEF Next

LEMMA NextAnswer == TypeOK /\ NetInv /\ AnswerInv /\ [Next]_vars => AnswerInv'
<1> SUFFICES ASSUME TypeOK, NetInv, AnswerInv, [Next]_vars PROVE AnswerInv'
  OBVIOUS
<1>1. op \in AllOperations
  BY WritesAssumption DEF TypeOK
<1>2. CASE Begin \/ ReadPage \/ Submit
  <2>1. tasks' = tasks /\ op' = op /\ (answer' = answer \/ answer' = NoAnswer)
    BY <1>2 DEF Begin, ReadPage, Submit
  <2>2. pc' = "idle" => result'.is # {}
    <3>1. CASE Begin
      BY <1>2, <3>1 DEF Begin, Return, Fails
    <3>2. CASE ReadPage
      <4>1. pc' = "ready" \/ \E errors \in PageErrors : result' = Fails(errors)
        BY <3>2 DEF ReadPage, Return
      <4>2. ASSUME NEW errors \in PageErrors PROVE Fails(errors).is # {}
        BY PageErrorsType DEF Fails
      <4> QED
        BY <4>1, <4>2
    <3>3. CASE Submit
      BY <1>2, <3>3 DEF Submit, Return, Fails
    <3> QED
      BY <1>2, <3>1, <3>2, <3>3
  <2> QED
    BY <2>1, <2>2 DEF AnswerInv
<1>3. CASE Land
  <2>1. PICK did \in BOOLEAN, a \in Answers :
          /\ Possible(op, did, a)
          /\ tasks' = IF did THEN tasks + 1 ELSE tasks
          /\ answer' = IF pc = "wait" THEN a ELSE answer
    BY <1>3 DEF Land
  <2>2. (did => tasks' > 0) /\ (tasks > 0 => tasks' > 0)
    BY <2>1 DEF TypeOK
  <2>3. op' = op /\ pc' = pc /\ result' = result
    BY <1>3 DEF Land
  <2>4. CASE pc = "wait"
    BY <2>1, <2>2, <2>3, <2>4 DEF AnswerInv
  <2>5. CASE pc # "wait"
    BY <2>1, <2>2, <2>3, <2>5 DEF AnswerInv
  <2> QED
    BY <2>4, <2>5
<1>4. CASE LoseAnswer
  <2>1. answer' = NoAnswer /\ pc' = "idle" /\ result' = Unknown({"transport"})
    BY <1>4, SentOnce DEF LoseAnswer, Return
  <2>2. result'.is # {}
    BY <2>1, UnknownIs
  <2> QED
    BY <2>1, <2>2 DEF AnswerInv
<1>5. CASE Receive
  <2>1. /\ answer' = answer /\ answer # NoAnswer /\ tasks' = tasks /\ op' = op
        /\ \E saved \in BOOLEAN : result' = Outcome(op, answer, saved)
    BY <1>5, SentOnce, WritesAssumption DEF Receive, Return
  <2>2. PICK saved \in BOOLEAN : result' = Outcome(op, answer, saved)
    BY <2>1
  <2>3. PICK did \in BOOLEAN : Possible(op, did, answer) /\ (did => tasks > 0)
    BY <2>1 DEF AnswerInv
  <2>4. result'.is = {} => did
    BY <1>1, <2>1, <2>2, <2>3, SuccessReported DEF TypeOK
  <2> QED
    BY <2>1, <2>3, <2>4 DEF AnswerInv
<1>6. CASE UNCHANGED vars
  BY <1>6 DEF vars, AnswerInv
<1> QED
  BY <1>2, <1>3, <1>4, <1>5, <1>6 DEF Next

LEMMA NextKept == TypeOK /\ NetInv /\ AnswerInv /\ KnownIdKept /\ [Next]_vars => KnownIdKept'
<1> SUFFICES ASSUME TypeOK, NetInv, AnswerInv, KnownIdKept, [Next]_vars,
                    pc' = "idle", answer' # NoAnswer, op' \in Identified, Reports(op', answer'),
                    op' = "create" \/ answer'.data = "id"
             PROVE  result'.id
  BY DEF KnownIdKept
<1>1. CASE Begin \/ ReadPage \/ Submit
  BY <1>1 DEF Begin, ReadPage, Submit, NetInv
<1>2. CASE Land
  <2>1. net > 0 /\ pc = "idle" /\ answer # NoAnswer
    <3>1. net > 0 /\ pc' = pc /\ (pc # "wait" => answer' = answer)
      BY <1>2 DEF Land
    <3> QED
      BY <3>1
  <2> QED
    BY <2>1 DEF NetInv
<1>3. CASE LoseAnswer
  BY <1>3, SentOnce DEF LoseAnswer
<1>4. CASE Receive
  <2>1. /\ answer' = answer /\ op' = op
        /\ \E saved \in BOOLEAN : result' = Outcome(op, answer, saved)
    BY <1>4, SentOnce, WritesAssumption DEF Receive, Return
  <2>2. PICK saved \in BOOLEAN : result' = Outcome(op, answer, saved)
    BY <2>1
  <2>3. PICK did \in BOOLEAN : Possible(op, did, answer)
    BY <2>1 DEF AnswerInv
  <2>4. answer \in Answers
    BY <2>1 DEF TypeOK
  <2> QED
    BY <2>1, <2>2, <2>3, <2>4, IdKept
<1>5. CASE UNCHANGED vars
  BY <1>5 DEF vars, KnownIdKept
<1> QED
  BY <1>1, <1>2, <1>3, <1>4, <1>5 DEF Next

IInv == TypeOK /\ NetInv /\ AnswerInv /\ KnownIdKept

LEMMA Invariance == Spec => []IInv
<1>1. Init => IInv
  BY InitInv DEF IInv
<1>2. IInv /\ [Next]_vars => IInv'
  BY NextTypeOK, NextNet, NextAnswer, NextKept DEF IInv
<1> QED
  BY <1>1, <1>2, PTL DEF Spec

\* Whatever goes wrong before, in or after a write (the page and its form, the renewal
\* of the session for it, the transport, the answer, a Save), the result is one of the
\* listed: a store's error is always wrapped (saveSession, storeLoginState).
THEOREM TypesHold == Spec => []TypeOK
<1>1. IInv => TypeOK
  BY DEF IInv
<1> QED
  BY <1>1, Invariance, PTL

\* Nothing sends a write of backtest_write.go, algorithm_write.go,
\* algorithm_folder.go or backtest_export.go twice.
THEOREM SentAtMostOnce == Spec => []OneRequest
<1>1. IInv => OneRequest
  BY DEF IInv, TypeOK, NetInv, OneRequest
<1> QED
  BY <1>1, Invariance, PTL

\* A nil error means JoinQuant did it, also when stores fail.
THEOREM SuccessHolds == Spec => []SuccessIsReal
<1>1. IInv => SuccessIsReal
  BY DEF IInv, AnswerInv, SuccessIsReal
<1> QED
  BY <1>1, Invariance, PTL

\* A reported ID is never dropped, also when stores fail.
THEOREM IdsAreKept == Spec => []KnownIdKept
<1>1. IInv => KnownIdKept
  BY DEF IInv
<1> QED
  BY <1>1, Invariance, PTL

-----------------------------------------------------------------------------
\* A 408 with an envelope is a refusal to createAlgorithm alone.
Agreed408 == Structured408 => "create" \notin Operations

\* What a definite error needs besides: while nothing was answered nothing was
\* done, and an answer says what was done.
RefusalInv ==
    /\ tasks <= 1
    /\ pc \in {"page", "ready"} => tasks = 0
    /\ pc = "wait" => IF answer = NoAnswer THEN tasks = 0
                      ELSE \E did \in BOOLEAN : Possible(op, did, answer) /\ (did <=> tasks = 1)
    /\ pc = "idle" => tasks + net <= 1 /\ (Definite(result) => tasks = 0)

LEMMA NextRefusal ==
    ASSUME Agreed408
    PROVE  IInv /\ RefusalInv /\ [Next]_vars => RefusalInv'
<1> SUFFICES ASSUME IInv, RefusalInv, [Next]_vars PROVE RefusalInv'
  OBVIOUS
<1>1. TypeOK /\ NetInv /\ op \in AllOperations
  BY WritesAssumption DEF IInv, TypeOK
<1>2. CASE Begin \/ ReadPage \/ Submit
  BY <1>1, <1>2 DEF Begin, ReadPage, Submit, Return, RefusalInv, NetInv, TypeOK
<1>3. CASE Land
  <2>1. PICK did \in BOOLEAN, a \in Answers :
          /\ Possible(op, did, a)
          /\ tasks' = IF did THEN tasks + 1 ELSE tasks
          /\ answer' = IF pc = "wait" THEN a ELSE answer
    BY <1>3 DEF Land
  <2>2. net > 0 /\ net' = net - 1 /\ op' = op /\ pc' = pc /\ result' = result
    BY <1>3 DEF Land
  <2>3. CASE pc = "wait"
    <3>1. answer = NoAnswer /\ a # NoAnswer
      BY <1>1, <2>2, <2>3 DEF NetInv, TypeOK, Answers, Https
    <3>2. tasks = 0
      BY <2>3, <3>1 DEF RefusalInv
    <3> QED
      BY <2>1, <2>2, <2>3, <3>1, <3>2 DEF RefusalInv
  <2>4. CASE pc = "idle"
    <3>1. ~ Definite(result)
      BY <1>1, <2>2, <2>4 DEF NetInv
    <3> QED
      BY <1>1, <2>1, <2>2, <2>4, <3>1 DEF RefusalInv, TypeOK
  <2> QED
    BY <1>1, <2>2, <2>3, <2>4 DEF NetInv, TypeOK
<1>4. CASE LoseAnswer
  <2>1. pc = "wait" /\ pc' = "idle" /\ net' = net /\ tasks' = tasks /\ result' = Unknown({"transport"})
    BY <1>4, SentOnce DEF LoseAnswer, Return
  <2>2. ~ Definite(result')
    BY <2>1, UnknownIs
  <2>3. tasks + net <= 1
    BY <1>1, <2>1 DEF RefusalInv, NetInv, TypeOK
  <2> QED
    BY <2>1, <2>2, <2>3 DEF RefusalInv
<1>5. CASE Receive
  <2>1. /\ pc = "wait" /\ pc' = "idle" /\ net' = net /\ tasks' = tasks /\ op' = op
        /\ answer # NoAnswer /\ \E saved \in BOOLEAN : result' = Outcome(op, answer, saved)
    BY <1>5, SentOnce, WritesAssumption DEF Receive, Return
  <2>2. PICK did \in BOOLEAN : Possible(op, did, answer) /\ (did <=> tasks = 1)
    BY <2>1 DEF RefusalInv
  <2>3. Definite(result') => ~ did
    BY <1>1, <2>1, <2>2, DefiniteRefuses DEF TypeOK, Agreed408
  <2>4. net = 0 /\ tasks <= 1
    BY <1>1, <2>1 DEF NetInv, RefusalInv, TypeOK
  <2>5. Definite(result') => tasks' = 0
    BY <1>1, <2>1, <2>2, <2>3, <2>4 DEF TypeOK
  <2>6. tasks' <= 1 /\ tasks' + net' <= 1
    BY <1>1, <2>1, <2>4 DEF TypeOK
  <2> QED
    BY <2>1, <2>5, <2>6 DEF RefusalInv
<1>6. CASE UNCHANGED vars
  BY <1>6 DEF vars, RefusalInv, Definite
<1> QED
  BY <1>2, <1>3, <1>4, <1>5, <1>6 DEF Next

LEMMA RefusalInvariance ==
    ASSUME Agreed408
    PROVE  Spec => []RefusalInv
<1>1. Init => RefusalInv
  BY DEF Init, RefusalInv
<1>2. IInv /\ RefusalInv /\ [Next]_vars => RefusalInv'
  BY NextRefusal
<1> QED
  BY <1>1, <1>2, Invariance, PTL DEF Spec

\* Unless JoinQuant answers CreateAlgorithm with a 408 and an envelope, an error that is neither unknown
\* nor one of persistence means that nothing was done, also when stores fail.
THEOREM RefusalsAreDefinite ==
    ASSUME Agreed408
    PROVE  Spec => []RefusalIsDefinite
<1>1. IInv /\ RefusalInv => RefusalIsDefinite
  BY DEF IInv, NetInv, RefusalInv, RefusalIsDefinite
<1> QED
  BY <1>1, RefusalInvariance, Invariance, PTL

\* So a caller that repeats a write after such errors only has it done once,
\* however often it tries and however late the requests land.
THEOREM DoneOnce ==
    ASSUME Agreed408
    PROVE  Spec => []OneTask
<1>1. RefusalInv => OneTask
  BY DEF RefusalInv, OneTask
<1> QED
  BY <1>1, RefusalInvariance, PTL

-----------------------------------------------------------------------------
\* An answer that should carry an ID and does not, when its cookies are saved.
LEMMA MissingId ==
    ASSUME NEW o \in Identified \ {"create"}, NEW a \in Answers, Reports(o, a), a.data = "none"
    PROVE  "unknown" \in Outcome(o, a, TRUE).is
<1>1. Accepted(a)
  BY DEF Accepted, Reports
<1>2. Envelope(a, TRUE) = Fails({})
  BY <1>1 DEF Envelope, Saving
<1>3. Envelope(a, TRUE).is = {}
  BY <1>1, EnvelopeCases
<1>4. Outcome(o, a, TRUE) = Unknown({"protocol"})
  BY <1>2, <1>3 DEF Outcome, NotEntitled
<1> QED
  BY <1>4, UnknownIs

LEMMA NextMissing ==
    ASSUME ~ SaveFails
    PROVE  IInv /\ MissingIdIsUnknown /\ [Next]_vars => MissingIdIsUnknown'
<1> SUFFICES ASSUME IInv, MissingIdIsUnknown, [Next]_vars,
                    pc' = "idle", answer' # NoAnswer, op' \in Identified \ {"create"},
                    Reports(op', answer'), answer'.data = "none"
             PROVE  "unknown" \in result'.is
  BY DEF MissingIdIsUnknown
<1>1. TypeOK /\ NetInv
  BY DEF IInv
<1>2. CASE Begin \/ ReadPage \/ Submit
  BY <1>1, <1>2 DEF Begin, ReadPage, Submit, NetInv
<1>3. CASE Land
  <2>1. net > 0 /\ pc = "idle" /\ (pc # "wait" => answer' = answer)
    BY <1>3 DEF Land
  <2> QED
    BY <1>1, <2>1 DEF NetInv
<1>4. CASE LoseAnswer
  BY <1>4, SentOnce DEF LoseAnswer
<1>5. CASE Receive
  <2>1. answer' = answer /\ op' = op /\ result' = Outcome(op, answer, TRUE)
    BY <1>5, SentOnce DEF Receive, Return
  <2> QED
    BY <1>1, <2>1, MissingId DEF TypeOK
<1>6. CASE UNCHANGED vars
  BY <1>6 DEF vars, MissingIdIsUnknown
<1> QED
  BY <1>2, <1>3, <1>4, <1>5, <1>6 DEF Next

\* The only thing that turns a good answer without its ID into something other than
\* an unknown outcome is a session that cannot be saved (backtest_write.go:89).
THEOREM OnlySavesHideMissingIds == ASSUME ~ SaveFails PROVE Spec => []MissingIdIsUnknown
<1>1. Init => MissingIdIsUnknown
  BY DEF Init, MissingIdIsUnknown
<1> QED
  BY <1>1, NextMissing, Invariance, PTL DEF Spec
=============================================================================
