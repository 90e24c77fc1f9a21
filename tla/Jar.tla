--------------------------------- MODULE Jar ---------------------------------
(***************************************************************************)
(* statefulJar of auth.go: net/http/cookiejar, which decides what is sent, *)
(* and beside it the entries that a session is saved from, since a cookie  *)
(* jar does not tell when its cookies expire.                              *)
(*                                                                         *)
(* A slot is a domain, path and name.  What the host of the base URL is    *)
(* sent are the Own slots; a host that JoinQuant redirects to can fill     *)
(* others.  A time of 0 or in the past is that of no cookie.               *)
(***************************************************************************)
EXTENDS Integers

CONSTANTS
    Slots, Own,     \* the slots, and those that the base host is sent
    Becomes,        \* the slot that a slot is restored to
    Behind,         \* how many slots Snapshot sorts behind each
    Values,         \* values of cookies
    NoValue,
    Forever         \* later than all times: a cookie without a time of expiry

ASSUME JarAssumption ==
    /\ Own \subseteq Slots /\ Becomes \in [Slots -> Own]
    /\ \A s \in Own : Becomes[s] = s
    /\ Behind \in [Slots -> Nat]
    /\ \A S \in (SUBSET Slots) \ {{}} : \E s \in S : \A r \in S : Behind[s] <= Behind[r]
    /\ \A r, s \in Slots : Behind[r] = Behind[s] => r = s
    /\ NoValue \notin Values /\ Forever \in Nat \ {0}

NoCookie == [value |-> NoValue, until |-> 0]
Cookies == [value : Values, until : 1 .. Forever] \cup {NoCookie}
Jars == [kept : [Slots -> Cookies], entries : [Slots -> Cookies]]

EmptyJar == [kept |-> [s \in Slots |-> NoCookie], entries |-> [s \in Slots |-> NoCookie]]

-----------------------------------------------------------------------------
(* Set-Cookie: a value, Max-Age and Expires.  A Max-Age of 0 is none, a      *)
(* negative one deletes; Expires is Forever when there is none.              *)

\* cookiejar: Max-Age goes before Expires.
KeptUntil(c, now) ==
    IF c.maxAge < 0 THEN 0 ELSE IF c.maxAge > 0 THEN now + c.maxAge ELSE c.expires

\* Mutant of EntryUntil: Max-Age is not turned into a time.
EntryUntilExpires(c, now) == IF c.maxAge < 0 \/ c.expires <= now THEN 0 ELSE c.expires

EntryUntil(c, now) ==
    IF c.maxAge < 0 \/ c.expires <= now THEN 0
    ELSE IF c.expires = Forever /\ c.maxAge > 0 THEN now + c.maxAge ELSE c.expires

\* Mutant of Stored: what is deleted or late is stored like the rest.
StoredAlways(value, until, now) == [value |-> value, until |-> until]

Stored(value, until, now) == IF until <= now THEN NoCookie ELSE [value |-> value, until |-> until]

\* Mutant of SetCookie: a cookie that is deleted stays among the entries.
SetCookieKeepingEntry(jar, c, now) ==
    [jar EXCEPT !.kept[c.slot] = Stored(c.value, KeptUntil(c, now), now),
                !.entries[c.slot] = IF EntryUntil(c, now) <= now THEN @ ELSE Stored(c.value, EntryUntil(c, now), now)]

SetCookie(jar, c, now) ==
    [jar EXCEPT !.kept[c.slot] = Stored(c.value, KeptUntil(c, now), now),
                !.entries[c.slot] = Stored(c.value, EntryUntil(c, now), now)]

\* A cookie that both take for the same: at most one of the two attributes, or two
\* that agree, from the host of the base URL.
Plain(c, now) ==
    c.slot \in Own /\ (c.maxAge > 0 /\ c.expires # Forever => c.expires = now + c.maxAge)

-----------------------------------------------------------------------------
Live(cookie, now) == cookie.until > now

\* What is saved.
Snapshot(jar, now) == [s \in Slots |-> IF Live(jar.entries[s], now) THEN jar.entries[s] ELSE NoCookie]

\* A cookie of another host comes back as one of the base host, over the cookies
\* that come before it.
Restored(state, o) ==
    LET from == {s \in Slots : Becomes[s] = o /\ state[s] # NoCookie}
        last == CHOOSE s \in from : \A r \in from : Behind[s] <= Behind[r]
    IN  IF from = {} THEN NoCookie ELSE state[last]

\* The cookies have a time of expiry at the most, on which jar and entries agree.
Replace(state, now) ==
    LET set == [s \in Slots |-> LET c == Restored(state, s) IN Stored(c.value, c.until, now)]
    IN  [kept |-> set, entries |-> set]

\* What JoinQuant is sent.
Sent(jar, now) == [s \in Own |-> IF Live(jar.kept[s], now) THEN jar.kept[s].value ELSE NoValue]
=============================================================================
