--------------------------- MODULE MCMfaChallenges ---------------------------
(* MfaChallenges and ClientTokens for TLC, side by side: each behaviour      *)
(* exercises one of them, the other stays as it began.                       *)
EXTENDS MfaChallenges, ClientTokens, TLC

CONSTANTS busyTab, profile, other

Interchangeable == Permutations(Requests) \cup Permutations(Challenges)

\* One tab with two requests under way, beside one that loads its user.
CallsOf(t) == IF t = busyTab THEN {profile, other} ELSE {profile}

VARIABLE exercised

CheckInit == Init /\ ClientInit /\ exercised \in {"challenges", "client"}

CheckNext ==
    /\ UNCHANGED exercised
    /\ \/ exercised = "challenges" /\ Next /\ UNCHANGED clientVars
       \/ exercised = "client" /\ ClientNext /\ UNCHANGED vars

CheckSpec == CheckInit /\ [][CheckNext]_<<vars, clientVars, exercised>>

\* The properties of ClientTokens are about behaviours without a mishap.  The second
\* request of the busy tab is followed up to the second pair of tokens.
Followed ==
    /\ mishaps = {}
    /\ calls[busyTab][other] # Idle => Len(signIn) <= 2
=============================================================================
