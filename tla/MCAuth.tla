------------------------------- MODULE MCAuth -------------------------------
(* Instances of Auth for TLC: p and q are clients, each in its own process, *)
(* p1, p2 are goroutines that call p and q1 one that calls q.               *)
EXTENDS Auth

CONSTANTS p, q, p1, p2, q1

TwoProcesses == [t \in {p1, q1} |-> IF t = p1 THEN p ELSE q]
OneProcess == [t \in {p1, p2} |-> p]
BothKinds == [t \in {p1, p2, q1} |-> IF t = q1 THEN q ELSE p]

\* What the goroutines of each run call.
GuardUses == [t \in {p1, q1} |-> {"read", "login", "reset"}]
SharingUses == [t \in {p1, q1} |-> {"authenticate", "clear"}]
OneClientUses == [t \in {p1, p2} |-> {"plain", "read", "login", "clear", "reset"}]
WaitingUses ==
    [t \in {p1, p2, q1} |->
        CASE t = p1 -> {"read"} [] t = p2 -> {"login", "clear", "reset"} [] t = q1 -> {"authenticate", "reset"}]
RevivedUses == [t \in {p1, p2} |-> {"read", "clear"}]
LostUpdateUses == [t \in {p1, q1} |-> {"read"}]
DroppedUses == [t \in {p1, q1} |-> {"authenticate"}]

\* What the rest of a run can depend on.  A guarded client loads its record
\* under the guard's lock before it looks at it, so outside the lock the copy
\* in memory is dead; so is sessionLoaded.  Of the generations it matters
\* whether they are those the reads observed, and how many ClearSession may add.
Live(c) == ~ Guarded \/ \E t \in Callers : Owner[t] = c /\ pc[t] \in LoginPoints
Current(t) == call[t] # "read" \/ pc[t] = "observe" \/ obs[t] = gen[Owner[t]]
Generations ==
    IF \E t \in Callers : "clear" \in Operations[t]
    THEN [c \in Clients |-> IF gen[c] < MaxGeneration THEN gen[c] ELSE MaxGeneration]
    ELSE <<>>
CallState ==
    <<now, serverVars, store, guardVars, jar, authMu, pc, call, copy, Generations,
      [t \in Callers |-> Current(t)],
      [c \in Clients |-> IF Live(c) THEN <<mem[c], loaded[c]>> ELSE <<>>]>>

\* The same with the history that some properties are about.
GuardState == <<CallState, tryVars>>
LiveState == <<GuardState, pastVars>>
=============================================================================
