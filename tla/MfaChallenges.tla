--------------------------- MODULE MfaChallenges ---------------------------
(***************************************************************************)
(* The email MFA challenges of one account: issued at sign-in, answered by *)
(* concurrent verify requests with right or wrong guesses, limited to      *)
(* MaxAttempts wrong ones, voided by an MFA reset; and the daily job that  *)
(* empties the blacklist of consumed challenge tokens.                     *)
(* services/auth_service.py, database/repositories.py, worker/tasks.py.    *)
(*                                                                         *)
(* A verify request holds the challenge row FOR UPDATE from LockChallenge  *)
(* to the end of its transaction.  A rejected guess commits before it      *)
(* answers; an accepted one answers before it commits.                     *)
(***************************************************************************)
EXTENDS Integers, FiniteSets

CONSTANTS
    Requests,       \* request slots
    Challenges,     \* challenge tokens that can ever be issued
    None,           \* no request holds the row, or no challenge is answered
    MaxAttempts,    \* settings.auth.mfa_max_attempts
    MaxClears       \* bound: runs of the daily job

ASSUME MaxAttemptsIsPositive == MaxAttempts \in Nat \ {0}
ASSUME MaxClearsIsNatural == MaxClears \in Nat
ASSUME NoneIsNone == None \notin Requests \cup Challenges

VARIABLES
    mfaEnabled,     \* users.mfa_enabled
    challenge,      \* committed challenge rows
    failures,       \* failed_attempt_count of each
    blacklisted,    \* tokens with a committed row in mfa_token_blacklist
    expired,        \* tokens past their expiry
    session,        \* the refresh session that answering the challenge opened
    holder,         \* the request that holds the challenge row, or None
    pc,             \* how far each request is
    target,         \* the challenge it answers
    seen,           \* failed_attempt_count as it loaded it
    listed,         \* the sessions an MFA reset found active
    clears,         \* how often the daily job ran
    cleared,        \* history: tokens whose blacklist row the job deleted
    wrong,          \* history: guesses answered as wrong
    signins         \* history: committed sign-ins

rowsAndUser == <<mfaEnabled, challenge, failures, session>>
history == <<clears, cleared, wrong, signins>>
vars == <<mfaEnabled, challenge, failures, blacklisted, expired, session,
          holder, pc, target, seen, listed, clears, cleared, wrong, signins>>

Held(r) == {c \in Challenges : holder[c] = r}
Open == {c \in Challenges : challenge[c] = "open"}

Init ==
    /\ mfaEnabled = TRUE
    /\ challenge = [c \in Challenges |-> "none"]
    /\ failures = [c \in Challenges |-> 0]
    /\ blacklisted = {} /\ expired = {} /\ cleared = {}
    /\ session = [c \in Challenges |-> "none"]
    /\ holder = [c \in Challenges |-> None]
    /\ pc = [r \in Requests |-> "idle"]
    /\ target = [r \in Requests |-> None]
    /\ seen = [r \in Requests |-> 0]
    /\ listed = [r \in Requests |-> {}]
    /\ clears = 0
    /\ wrong = [c \in Challenges |-> 0]
    /\ signins = [c \in Challenges |-> 0]

\* The request's transaction ends and its row locks are free.
Finish(r) ==
    /\ pc' = [pc EXCEPT ![r] = "idle"]
    /\ holder' = [c \in Challenges |-> IF holder[c] = r THEN None ELSE holder[c]]
    /\ seen' = [seen EXCEPT ![r] = 0]
    /\ listed' = [listed EXCEPT ![r] = {}]
    /\ target' = [target EXCEPT ![r] = None]
    /\ UNCHANGED expired

-----------------------------------------------------------------------------
(* Signing in and the settings of the account. *)

\* authenticate_user with MFA on: _issue_mfa_challenge.
IssueChallenge(c) ==
    /\ mfaEnabled
    /\ challenge[c] = "none"
    /\ challenge' = [challenge EXCEPT ![c] = "open"]
    /\ UNCHANGED <<mfaEnabled, failures, blacklisted, expired, session, holder,
                   pc, target, seen, listed>>
    /\ UNCHANGED history

\* update_mfa_settings; open challenges stay as they are.
SetMfaEnabled(on) ==
    /\ mfaEnabled # on
    /\ mfaEnabled' = on
    /\ UNCHANGED <<challenge, failures, blacklisted, expired, session, holder,
                   pc, target, seen, listed>>
    /\ UNCHANGED history

Expire(c) ==
    /\ challenge[c] # "none" /\ c \notin expired
    /\ expired' = expired \cup {c}
    /\ UNCHANGED <<blacklisted, holder, pc, target, seen, listed>>
    /\ UNCHANGED rowsAndUser
    /\ UNCHANGED history

-----------------------------------------------------------------------------
(* verify_mfa_challenge. *)

\* The first checks, before any lock: not expired, not on the blacklist.
BeginVerify(r, c) ==
    /\ pc[r] = "idle"
    /\ challenge[c] # "none"
    /\ c \notin expired \cup blacklisted
    /\ pc' = [pc EXCEPT ![r] = "lock"]
    /\ target' = [target EXCEPT ![r] = c]
    /\ UNCHANGED <<blacklisted, expired, holder, seen, listed>>
    /\ UNCHANGED rowsAndUser
    /\ UNCHANGED history

\* Mutant of LockChallenge: the row is read without FOR UPDATE.
LockChallengeUnlocked(r) ==
    /\ pc[r] = "lock"
    /\ UNCHANGED <<blacklisted, expired, target, listed>>
    /\ UNCHANGED rowsAndUser
    /\ UNCHANGED history
    /\ challenge[target[r]] = "open"
    /\ holder' = [holder EXCEPT ![target[r]] = r]
    /\ seen' = [seen EXCEPT ![r] = failures[target[r]]]
    /\ pc' = [pc EXCEPT ![r] = "judge"]

\* SELECT ... FOR UPDATE: waits for the holder, then loads what it committed.
LockChallenge(r) ==
    /\ pc[r] = "lock"
    /\ holder[target[r]] = None
    /\ UNCHANGED <<blacklisted>>
    /\ UNCHANGED rowsAndUser
    /\ UNCHANGED history
    /\ \/ /\ target[r] \notin Open
          /\ Finish(r)
       \/ /\ target[r] \in Open
          /\ holder' = [holder EXCEPT ![target[r]] = r]
          /\ seen' = [seen EXCEPT ![r] = failures[target[r]]]
          /\ pc' = [pc EXCEPT ![r] = "judge"]
          /\ UNCHANGED <<expired, target, listed>>

\* A wrong code or security answer, or a token that was put on the blacklist
\* while this request waited.  The count and, at the limit, the blacklist row
\* are committed together; the row cannot be inserted twice, and then the
\* request fails and nothing is counted.
Reject(r) ==
    LET c == target[r]
        count == seen[r] + 1
        limited == count >= MaxAttempts
    IN /\ pc[r] = "judge"
       /\ Finish(r)
       /\ UNCHANGED <<mfaEnabled, challenge, session, clears, cleared, signins>>
       /\ \/ /\ limited /\ c \in blacklisted
             /\ UNCHANGED <<failures, blacklisted, wrong>>
          \/ /\ ~(limited /\ c \in blacklisted)
             /\ failures' = [failures EXCEPT ![c] = count]
             /\ wrong' = [wrong EXCEPT ![c] = @ + 1]
             /\ blacklisted' = blacklisted \cup (IF limited THEN {c} ELSE {})

\* Mutant of Accept: the blacklist is not read again under the lock, and its
\* token_hash is not unique.
AcceptUnchecked(r) ==
    /\ pc[r] = "judge"
    /\ mfaEnabled
    /\ pc' = [pc EXCEPT ![r] = "answered"]
    /\ UNCHANGED <<blacklisted, expired, holder, target, seen, listed>>
    /\ UNCHANGED rowsAndUser
    /\ UNCHANGED history

\* Right code and answer, for a token that is still not blacklisted: the
\* blacklist row and the new session are written, and the answer goes out.
Accept(r) ==
    /\ pc[r] = "judge"
    /\ target[r] \notin blacklisted
    /\ mfaEnabled
    /\ pc' = [pc EXCEPT ![r] = "answered"]
    /\ UNCHANGED <<blacklisted, expired, holder, target, seen, listed>>
    /\ UNCHANGED rowsAndUser
    /\ UNCHANGED history

\* The same with MFA switched off since: refused, and nothing is counted.
RefuseDisabled(r) ==
    /\ pc[r] = "judge"
    /\ target[r] \notin blacklisted
    /\ ~mfaEnabled
    /\ Finish(r)
    /\ UNCHANGED <<blacklisted>>
    /\ UNCHANGED rowsAndUser
    /\ UNCHANGED history

\* The commit of an accepted guess, after the answer.
CommitSignIn(r) ==
    LET c == target[r]
    IN /\ pc[r] = "answered"
       /\ blacklisted' = blacklisted \cup {c}
       /\ session' = [session EXCEPT ![c] = "active"]
       /\ signins' = [signins EXCEPT ![c] = @ + 1]
       /\ Finish(r)
       /\ UNCHANGED <<mfaEnabled, challenge, failures, clears, cleared, wrong>>

-----------------------------------------------------------------------------
(* confirm_mfa_reset, once its account token has been accepted. *)

BeginReset(r) ==
    /\ pc[r] = "idle"
    /\ pc' = [pc EXCEPT ![r] = "delete"]
    /\ UNCHANGED <<blacklisted, expired, holder, target, seen, listed>>
    /\ UNCHANGED rowsAndUser
    /\ UNCHANGED history

\* Mutant of DeleteChallenges: it does not wait for the guesses that are judged.
DeleteChallengesUnlocked(r) ==
    /\ pc[r] = "delete"
    /\ holder' = [c \in Challenges |-> IF c \in Open THEN r ELSE holder[c]]
    /\ pc' = [pc EXCEPT ![r] = "list"]
    /\ UNCHANGED <<blacklisted, expired, target, seen, listed>>
    /\ UNCHANGED rowsAndUser
    /\ UNCHANGED history

\* DELETE of the user's challenges: waits for every guess that holds one.
DeleteChallenges(r) ==
    /\ pc[r] = "delete"
    /\ \A c \in Open : holder[c] = None
    /\ holder' = [c \in Challenges |-> IF c \in Open THEN r ELSE holder[c]]
    /\ pc' = [pc EXCEPT ![r] = "list"]
    /\ UNCHANGED <<blacklisted, expired, target, seen, listed>>
    /\ UNCHANGED rowsAndUser
    /\ UNCHANGED history

\* The active sessions, read after the challenges are locked and deleted.
ListSessions(r) ==
    /\ pc[r] = "list"
    /\ listed' = [listed EXCEPT ![r] = {c \in Challenges : session[c] = "active"}]
    /\ pc' = [pc EXCEPT ![r] = "reset"]
    /\ UNCHANGED <<blacklisted, expired, holder, target, seen>>
    /\ UNCHANGED rowsAndUser
    /\ UNCHANGED history

CommitReset(r) ==
    /\ pc[r] = "reset"
    /\ mfaEnabled' = FALSE
    /\ challenge' = [c \in Challenges |->
                       IF c \in Held(r) THEN "deleted" ELSE challenge[c]]
    /\ session' = [c \in Challenges |->
                     IF c \in listed[r] THEN "revoked" ELSE session[c]]
    /\ Finish(r)
    /\ UNCHANGED <<failures, blacklisted>>
    /\ UNCHANGED history

-----------------------------------------------------------------------------
\* The transaction fails at any point before it commits, also when the answer
\* of an accepted guess is already out.
Fail(r) ==
    /\ pc[r] # "idle"
    /\ Finish(r)
    /\ UNCHANGED <<blacklisted>>
    /\ UNCHANGED rowsAndUser
    /\ UNCHANGED history

\* The beat schedule's clear_mfa_token_blacklist: DELETE without a WHERE.
ClearBlacklist ==
    /\ clears < MaxClears
    /\ clears' = clears + 1
    /\ cleared' = cleared \cup blacklisted
    /\ blacklisted' = {}
    /\ UNCHANGED <<expired, holder, pc, target, seen, listed, wrong, signins>>
    /\ UNCHANGED rowsAndUser

Step(r) ==
    \/ LockChallenge(r) \/ Reject(r) \/ Accept(r) \/ RefuseDisabled(r)
    \/ CommitSignIn(r) \/ DeleteChallenges(r) \/ ListSessions(r) \/ CommitReset(r)

Next ==
    \/ \E c \in Challenges : IssueChallenge(c) \/ Expire(c)
    \/ \E on \in BOOLEAN : SetMfaEnabled(on)
    \/ \E r \in Requests :
         \/ \E c \in Challenges : BeginVerify(r, c)
         \/ BeginReset(r) \/ Step(r) \/ Fail(r)
    \/ ClearBlacklist

Spec == Init /\ [][Next]_vars

-----------------------------------------------------------------------------
(* Properties. *)

\* Every variable stays within its type.
TypeOK ==
    /\ mfaEnabled \in BOOLEAN
    /\ challenge \in [Challenges -> {"none", "open", "deleted"}]
    /\ failures \in [Challenges -> Nat]
    /\ blacklisted \subseteq Challenges
    /\ expired \subseteq Challenges
    /\ session \in [Challenges -> {"none", "active", "revoked"}]
    /\ holder \in [Challenges -> Requests \cup {None}]
    /\ pc \in [Requests -> {"idle", "lock", "judge", "answered",
                            "delete", "list", "reset"}]
    /\ target \in [Requests -> Challenges \cup {None}]
    /\ seen \in [Requests -> Nat]
    /\ listed \in [Requests -> SUBSET Challenges]
    /\ clears \in Nat
    /\ cleared \subseteq Challenges
    /\ wrong \in [Challenges -> Nat]
    /\ signins \in [Challenges -> Nat]

\* No guess goes uncounted: the stored count is the number of guesses that
\* were answered as wrong, however many requests guessed at the same time.
EveryGuessCounts == \A c \in Challenges : failures[c] = wrong[c]

\* A challenge takes at most MaxAttempts wrong guesses, and from the last of
\* them on its token is refused, until the daily job deletes the row that
\* refuses it.
AttemptsLimited ==
    \A c \in Challenges \ cleared :
        /\ failures[c] <= MaxAttempts
        /\ failures[c] = MaxAttempts => c \in blacklisted

\* Guesses are counted and limited, however many are made at the same time.
GuessesAreCounted == EveryGuessCounts /\ AttemptsLimited

\* A challenge signs in at most once while its blacklist row stands, also when
\* several requests carry the right answer at the same time.
OneSignInUntilCleared ==
    \A c \in Challenges \ cleared :
        /\ signins[c] <= 1
        /\ signins[c] = 1 => c \in blacklisted

\* An MFA reset voids the challenges it finds together with what they opened:
\* a guess that was being judged while the reset ran has either failed or
\* opened a session that the reset revoked.
ResetVoidsChallenges ==
    \A c \in Challenges : challenge[c] = "deleted" => session[c] # "active"
=============================================================================
