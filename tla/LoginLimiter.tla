---------------------------- MODULE LoginLimiter ----------------------------
(* What the login protection promises about the passwords sent for one      *)
(* account, whoever sends them: login_guard.go seen from JoinQuant.          *)
EXTENDS Naturals

CONSTANTS MaxPosts,     \* unresolved passwords before the user must step in
          Cooldown      \* least time between two of them

VARIABLES clock,
          posted,       \* passwords sent since the last resolution
          quietUntil,   \* the end of the last one's cool-down
          blocked       \* JoinQuant refused the account's credentials

limits == <<posted, quietUntil, blocked>>
observed == <<clock, limits>>

Init == clock = 0 /\ posted = 0 /\ quietUntil = 0 /\ blocked = FALSE

\* A password is sent, and starts a cool-down after the one before it.
Post ==
    /\ ~ blocked /\ posted < MaxPosts
    /\ posted > 0 => clock >= quietUntil
    /\ posted' = posted + 1
    /\ quietUntil' \in Nat
    /\ quietUntil' >= (IF posted > 0 THEN quietUntil + Cooldown ELSE Cooldown)
    /\ UNCHANGED <<clock, blocked>>

\* A password was refused for good, or was the last one allowed.
Block == posted > 0 /\ blocked' = TRUE /\ UNCHANGED <<clock, posted, quietUntil>>

\* A session is confirmed, or the user resets the protection.
Resolve == posted' = 0 /\ quietUntil' = 0 /\ blocked' = FALSE /\ UNCHANGED clock

Pass == clock' > clock /\ UNCHANGED limits

Next == Post \/ Block \/ Resolve \/ Pass

Spec == Init /\ [][Next]_observed
=============================================================================
