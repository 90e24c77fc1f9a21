------------------------------ MODULE MCSessions ------------------------------
(***************************************************************************)
(* An instance of Sessions: the Client and a Client of another account in  *)
(* one process, and one of that account in another process.                *)
(***************************************************************************)
EXTENDS Sessions

CONSTANTS me, other, far, ann, bob, p, q, sid, sidElsewhere, v, w

MCAccount == [t \in {me, other, far} |-> IF t = me THEN ann ELSE bob]
MCProcess == [t \in {me, other, far} |-> IF t = far THEN q ELSE p]
MCStates == [Slots -> Cookies]
MCBecomes == [s \in {sid, sidElsewhere} |-> sid]
MCBehind == [s \in {sid, sidElsewhere} |-> IF s = sid THEN 0 ELSE 1]

MCOtherStates == {[s \in Slots |-> IF s = sid THEN [value |-> v, until |-> Forever] ELSE NoCookie]}

\* For the browser's session; until a time; for a time; deleted; with a Max-Age and an
\* Expires that differ; by another host.
MCSetCookies ==
    {[slot |-> sid, value |-> v, maxAge |-> 0, expires |-> Forever],
     [slot |-> sid, value |-> w, maxAge |-> 0, expires |-> 1],
     [slot |-> sid, value |-> w, maxAge |-> 1, expires |-> Forever],
     [slot |-> sid, value |-> v, maxAge |-> -1, expires |-> Forever],
     [slot |-> sid, value |-> w, maxAge |-> 2, expires |-> 1],
     [slot |-> sidElsewhere, value |-> w, maxAge |-> 0, expires |-> Forever]}
=============================================================================
