------------------------- MODULE MCRefreshSessions -------------------------
(* RefreshSessions and AccountTokens for TLC: each behaviour exercises one   *)
(* of them, the other stays as it began.  Two concurrent requests, and three *)
(* refresh tokens: enough for a token, the successor a rotation gives it,    *)
(* and a second rotation or sign-in.  Of two accounts one exists at first.   *)
EXTENDS RefreshSessions, AccountTokens, TLC

CONSTANTS u2, a1

MCTokens == 1..3

VARIABLE exercised

CheckInit ==
    /\ Init /\ AccountsInit
    /\ account = [u \in Users |-> IF u = u2 THEN VerifiedWith(a1) ELSE Nobody]
    /\ exercised \in {"sessions", "accounts"}

CheckNext ==
    /\ UNCHANGED exercised
    /\ \/ exercised = "sessions" /\ Next /\ UNCHANGED accountVars
       \/ exercised = "accounts" /\ AccountsNext /\ UNCHANGED vars

CheckSpec == CheckInit /\ [][CheckNext]_<<vars, accountVars, exercised>>

\* Bound: one token expires, or one commit loses a token, not both.
OneMishap == Cardinality(lost) + Cardinality(expired) <= 1

\* The requests are those of both parts.
MCSymmetry == Permutations(Requests)
=============================================================================
