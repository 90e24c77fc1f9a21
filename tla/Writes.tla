------------------------------- MODULE Writes -------------------------------
(***************************************************************************)
(* One write to JoinQuant as its caller sees it: backtest_write.go,        *)
(* algorithm_write.go, algorithm_folder.go and CreateBacktestExport.       *)
(*                                                                         *)
(* A caller wants one thing done (a task built or cancelled, a strategy    *)
(* or folder created, strategies moved, an export requested).  It calls    *)
(* the write; on an error that does not say the outcome is unknown it may  *)
(* call it again.  The request may land, or not, before or after the       *)
(* caller stops waiting for its answer.                                    *)
(***************************************************************************)
EXTENDS Naturals

CONSTANTS
    Operations,     \* the writes the caller may choose from
    SaveFails,      \* the SessionStore and the LoginGuard may fail
    Structured408,  \* JoinQuant may answer 408 with a JSON envelope
    MaxCalls        \* bound: how often the caller tries

AllOperations == {"build", "cancel", "create", "folder", "move", "export"}

ASSUME WritesAssumption ==
    /\ Operations \subseteq AllOperations
    /\ {SaveFails, Structured408} \subseteq BOOLEAN
    /\ MaxCalls \in Nat

Paged == {"build", "cancel", "export"}                  \* read a page first
Identified == {"build", "create", "folder", "export"}   \* answer with an ID

VARIABLES
    op,         \* the write the caller wants
    pc,         \* where its call is
    calls,      \* how many times it called
    net,        \* requests of the call on their way to JoinQuant
    landed,     \* requests of the call JoinQuant has received
    tasks,      \* how many times JoinQuant did what the caller wants, in all calls
    answer,     \* the answer to the call's last request
    result      \* what the last call returned

vars == <<op, pc, calls, net, landed, tasks, answer, result>>

-----------------------------------------------------------------------------
(* Answers, as far as the code tells them apart: the HTTP status, redirect   *)
(* target or unreadable body; the envelope's code ("quota": 30000, "odd":    *)
(* 00000 with a status that is not success, "oddExpired": 00000 with a       *)
(* redirect to the login); its data; and whether it sets cookies.            *)
Redirects == {"login", "editor", "elsewhere"}
Https == {"2xx", "4xx", "401", "408", "5xx", "unreadable"} \cup Redirects
Refusals == {"expired", "quota", "other"}
Codes == {"undecodable", "none", "ok", "odd", "oddExpired"} \cup Refusals
Answers == [http: Https, code: Codes, data: {"id", "none", "bad"}, cookies: BOOLEAN]
NoAnswer == [http |-> "lost", code |-> "undecodable", data |-> "none", cookies |-> FALSE]

\* What the login protection may say instead of renewing the session of a page.
Protections == {"blocked", "cooldown", "unavailable"}

\* The errors a call can return, as errors.Is and errors.As tell them apart.
\* "unnamed" are the two of buildBacktestForm without a sentinel, and what a
\* LoginGuard says when it does not give its lock; a store's error has a name.
Errors == {"unknown", "expired", "api", "quota", "credits", "protocol",
           "persistence", "transport", "context", "unnamed"} \cup Protections
Results == [id: BOOLEAN, is: SUBSET Errors]
NoResult == [id |-> FALSE, is |-> {"context"}]      \* before the first call

Fails(errors) == [id |-> FALSE, is |-> errors]
Unknown(errors) == Fails({"unknown"} \cup errors)

\* Mutant of Saving: the store's own error is returned as it is.
SavingUnwrapped(saved) == IF saved THEN {} ELSE {"store"}

Saving(saved) == IF saved THEN {} ELSE {"persistence"}

\* Mutant of Accepted: the envelope's status field is not looked at.
AcceptedAnyStatus(a) == a.http = "2xx" /\ a.code \in {"ok", "odd"} /\ a.data # "bad"

\* An answer that says the write was done, with data that decodes.
Accepted(a) == a.http = "2xx" /\ a.code = "ok" /\ a.data # "bad"

\* Mutant of Ambiguous: a 408 or 5xx is a refusal.
AmbiguousBodies(a) ==
    \/ a.http \in {"editor", "elsewhere", "unreadable"}
    \/ a.http = "2xx" /\ a.code \notin Refusals

\* An answer after which the write may or may not have been done.
Ambiguous(a) ==
    \/ a.http \in {"editor", "elsewhere", "unreadable", "408", "5xx"}
    \/ a.http = "2xx" /\ a.code \notin Refusals

\* envelope.validate, or the APIError made of the HTTP status.
Cause(a) ==
    IF a.http \in {"login", "401"} \/ (a.http = "2xx" /\ a.code \in {"expired", "oddExpired"})
    THEN {"expired"}
    ELSE IF a.http = "unreadable" \/ (a.http = "2xx" /\ a.code \in {"undecodable", "none", "ok"})
    THEN {"protocol"}
    ELSE IF a.code = "quota" THEN {"api", "quota"} ELSE {"api"}

\* writeBacktestEnvelope: the value and the error an answer makes.
Envelope(a, saved) ==
    IF Accepted(a) THEN [id |-> a.data = "id", is |-> IF a.cookies THEN Saving(saved) ELSE {}]
    ELSE IF Ambiguous(a) THEN Unknown(Cause(a)) ELSE Fails(Cause(a))

\* createAlgorithm: only a redirect to the editor is a success.
Creation(a, saved) ==
    IF a.http = "editor" THEN [id |-> TRUE, is |-> Saving(saved)]
    ELSE IF a.http = "login" THEN Fails({"expired"})
    ELSE IF a.http \in {"2xx", "4xx", "401", "408"} /\ a.code \in Refusals
    THEN Fails(Cause([a EXCEPT !.http = "2xx"]))
    ELSE Unknown({"protocol"})

\* An export that the free entitlement does not cover.
NotEntitled(o, r) == o = "export" /\ "quota" \in r.is

\* Mutant of Outcome: a failed Save drops what the answer said.
OutcomeOrError(o, a, saved) ==
    LET r == IF o = "create" THEN Creation(a, saved) ELSE Envelope(a, saved) IN
    IF r.is # {} THEN Fails(r.is)
    ELSE IF o \in Identified /\ ~ r.id THEN Unknown({"protocol"}) ELSE r

\* What the caller gets.  An answer without the ID it should carry is one more
\* unknown outcome, unless an error comes with it.
Outcome(o, a, saved) ==
    LET r == IF o = "create" THEN Creation(a, saved) ELSE Envelope(a, saved) IN
    IF NotEntitled(o, r) THEN Fails(r.is \cup {"credits"})
    ELSE IF o \in Identified /\ r = Fails({}) THEN Unknown({"protocol"})
    ELSE r

-----------------------------------------------------------------------------
(* The request, and net/http and JoinQuant around it.                        *)

Method(o) == IF o = "export" THEN "GET" ELSE "POST"

\* Mutants of Request: an export without a body, which net/http may send again,
\* and a form it may send again to where JoinQuant redirects it.
RequestWithoutBody(o) ==
    [method |-> Method(o), body |-> o # "export", getBody |-> FALSE, follows |-> FALSE]
RequestThatFollows(o) ==
    [method |-> Method(o), body |-> TRUE, getBody |-> TRUE, follows |-> TRUE]

\* Every write hides how to read its body again and follows no redirect.
Request(o) ==
    [method |-> Method(o), body |-> TRUE, getBody |-> FALSE, follows |-> FALSE]

\* net/http sends a GET again when a reused connection breaks, and any request
\* to where a 307 or 308 points, if it can read the body again.
Rereads(r) == ~ r.body \/ r.getBody
Replays(r) == r.method = "GET" /\ Rereads(r)
Follows(r, a) == r.follows /\ a.http = "elsewhere" /\ Rereads(r)

\* JoinQuant refuses only what it did not do and reports only what it did;
\* anything else it may answer in either case.
Refuses(a) ==
    \/ a.http \in {"login", "4xx", "401"}
    \/ a.code \in {"expired", "quota"}
    \/ a.http = "2xx" /\ a.code = "other"
Reports(o, a) == IF o = "create" THEN a.http = "editor" ELSE a.http = "2xx" /\ a.code = "ok"
Possible(o, did, a) ==
    /\ did => ~ Refuses(a)
    /\ Reports(o, a) => did
    /\ a.http = "editor" => o = "create"
    /\ a.http \in Redirects \cup {"unreadable"} => a.code = "undecodable"
    /\ a.http = "408" /\ ~ Structured408 => a.code = "undecodable"
    /\ a.data # "none" => a.http = "2xx" /\ a.code = "ok" /\ o \in Identified
    /\ a.cookies => a.http = "2xx" /\ a.code = "ok"

-----------------------------------------------------------------------------
TypeOK ==
    /\ op \in Operations
    /\ pc \in {"idle", "page", "ready", "wait"}
    /\ calls \in 0 .. MaxCalls
    /\ net \in Nat /\ landed \in Nat /\ tasks \in Nat
    /\ answer \in Answers \cup {NoAnswer}
    /\ result \in Results

Init ==
    /\ op \in Operations
    /\ pc = "idle" /\ calls = 0
    /\ net = 0 /\ landed = 0 /\ tasks = 0
    /\ answer = NoAnswer /\ result = NoResult

\* An error that leaves no doubt.  The session is saved after a good answer, so
\* ErrSessionPersistence is no refusal either.
Definite(r) == r.is # {} /\ {"unknown", "persistence"} \cap r.is = {}

\* The caller may call (again) unless the last call did it or may have done it.
Begin ==
    /\ pc = "idle" /\ calls < MaxCalls /\ Definite(result)
    /\ pc' = IF op \in Paged THEN "page" ELSE "ready"
    /\ calls' = calls + 1
    /\ landed' = 0 /\ answer' = NoAnswer
    /\ UNCHANGED <<op, net, tasks, result>>

Return(r) == pc' = "idle" /\ result' = r

\* Why there is no page: its request or its content, a session that cannot be
\* renewed, or the login of the renewal, whose error is joined with that of the
\* guard if its outcome cannot be recorded.
LoginErrors == {"expired", "api", "protocol", "transport"}
PageErrors ==
    {{e} : e \in LoginErrors \cup Protections \cup {"unnamed"}}
      \cup (IF SaveFails THEN {{"persistence"}} \cup {{e, "persistence"} : e \in LoginErrors} ELSE {})

\* The page that holds the form, the run ID, the button and the token.
ReadPage ==
    /\ pc = "page"
    /\ \/ pc' = "ready" /\ UNCHANGED result
       \/ \E errors \in PageErrors : Return(Fails(errors))
    /\ UNCHANGED <<op, calls, net, landed, tasks, answer>>

\* The context may have ended before anything was sent.
Submit ==
    /\ pc = "ready"
    /\ \/ Return(Fails({"context"})) /\ UNCHANGED net
       \/ pc' = "wait" /\ net' = net + 1 /\ UNCHANGED result
    /\ UNCHANGED <<op, calls, landed, tasks, answer>>

Land ==
    /\ net > 0
    /\ net' = net - 1
    /\ landed' = landed + 1
    /\ \E did \in BOOLEAN, a \in Answers :
          /\ Possible(op, did, a)
          /\ tasks' = IF did THEN tasks + 1 ELSE tasks
          /\ answer' = IF pc = "wait" THEN a ELSE answer
    /\ UNCHANGED <<op, pc, calls, result>>

\* The connection breaks, the client's timeout passes or the context ends.
LoseAnswer ==
    /\ pc = "wait"
    /\ answer' = NoAnswer
    /\ IF Replays(Request(op)) /\ landed + net < 2
       THEN net' = net + 1 /\ UNCHANGED <<pc, result>>
       ELSE Return(Unknown({"transport"})) /\ UNCHANGED net
    /\ UNCHANGED <<op, calls, landed, tasks>>

Receive ==
    /\ pc = "wait" /\ answer # NoAnswer
    /\ IF Follows(Request(op), answer)
       THEN net' = net + 1 /\ answer' = NoAnswer /\ UNCHANGED <<pc, result>>
       ELSE /\ \E saved \in {TRUE} \cup {~ SaveFails} : Return(Outcome(op, answer, saved))
            /\ UNCHANGED <<net, answer>>
    /\ UNCHANGED <<op, calls, landed, tasks>>

Next == Begin \/ ReadPage \/ Submit \/ Land \/ LoseAnswer \/ Receive

Spec == Init /\ [][Next]_vars

-----------------------------------------------------------------------------
(* Properties.                                                               *)

\* Nothing between the caller and JoinQuant sends a call's request twice:
\* neither a redirect, nor a broken connection, nor a renewed session.
OneRequest == net + landed <= 1

\* An error that is neither ErrSubmissionUnknown nor ErrSessionPersistence means
\* that JoinQuant did nothing and will do nothing: the caller may call again.
RefusalIsDefinite == pc = "idle" /\ Definite(result) => tasks = 0 /\ net = 0

\* So a caller that calls again only then gets the thing done once.
OneTask == tasks <= 1

\* A nil error is never returned for a write JoinQuant did not do.
SuccessIsReal == pc = "idle" /\ result.is = {} => tasks > 0

\* An ID JoinQuant reported reaches the caller, also when the session that came
\* with it cannot be saved.
KnownIdKept ==
    pc = "idle" /\ answer # NoAnswer /\ op \in Identified /\ Reports(op, answer)
      /\ (op = "create" \/ answer.data = "id") => result.id

\* A good answer that lacks the ID it should carry is an unknown outcome
\* (BACKTEST_API.md: an invalid successful answer returns *SubmissionError).
MissingIdIsUnknown ==
    pc = "idle" /\ answer # NoAnswer /\ op \in Identified \ {"create"}
      /\ Reports(op, answer) /\ answer.data = "none" => "unknown" \in result.is
=============================================================================
