------------------------ MODULE MfaChallengesProofs ------------------------
(***************************************************************************)
(* The safety properties of MfaChallenges, for any number of requests and  *)
(* challenges, any limit of attempts and any number of daily clean-ups.    *)
(*                                                                         *)
(* What carries them is the row lock: a guess that is being judged holds   *)
(* its challenge, so the count it has loaded is the stored one, nobody     *)
(* else can blacklist the token between its check and its commit, and a    *)
(* reset that holds the open challenges has listed every session that one  *)
(* of them opened.                                                         *)
(*                                                                         *)
(* The properties of ClientTokens follow, for any number of tabs, requests *)
(* and pairs of tokens.                                                    *)
(***************************************************************************)
EXTENDS MfaChallenges, ClientTokens, TLAPS, FiniteSetTheorems

Judged == {"judge", "answered"}
Resetting == {"list", "reset"}

\* What request r knows of the rows it holds.
RequestInv(r) ==
    /\ pc[r] \in Judged \cup {"lock"} => target[r] \in Challenges
    /\ pc[r] \in Judged => holder[target[r]] = r /\ seen[r] = failures[target[r]]
    /\ pc[r] = "answered" => target[r] \notin blacklisted
    /\ pc[r] = "reset" => \A c \in Held(r) : session[c] = "active" => c \in listed[r]

\* Only an open challenge is held, by the guess that is judged or by a reset.
HolderInv(c) ==
    holder[c] # None =>
        /\ challenge[c] = "open"
        /\ \/ pc[holder[c]] \in Judged /\ target[holder[c]] = c
           \/ pc[holder[c]] \in Resetting

Inv ==
    /\ TypeOK
    /\ \A r \in Requests : RequestInv(r)
    /\ \A c \in Challenges : HolderInv(c)
    /\ GuessesAreCounted
    /\ OneSignInUntilCleared
    /\ ResetVoidsChallenges

-----------------------------------------------------------------------------
\* Initially no challenge is issued and no request holds one.
LEMMA InitInv == Init => Inv
<1> SUFFICES ASSUME Init PROVE Inv
  OBVIOUS
<1> USE DEF Init
<1>1. TypeOK
  BY DEF TypeOK
<1>2. \A r \in Requests : RequestInv(r)
  BY DEF RequestInv, Judged
<1>3. \A c \in Challenges : HolderInv(c)
  BY DEF HolderInv
<1>4. GuessesAreCounted
  BY MaxAttemptsIsPositive DEF GuessesAreCounted, EveryGuessCounts, AttemptsLimited
<1>5. OneSignInUntilCleared /\ ResetVoidsChallenges
  BY DEF OneSignInUntilCleared, ResetVoidsChallenges
<1> QED
  BY <1>1, <1>2, <1>3, <1>4, <1>5 DEF Inv

\* What Finish(r) does to the rows r holds and to the other requests.
LEMMA Finished ==
    ASSUME Inv, NEW r \in Requests, Finish(r)
    PROVE  /\ pc' \in [Requests -> {"idle", "lock", "judge", "answered",
                                     "delete", "list", "reset"}]
           /\ target' \in [Requests -> Challenges \cup {None}]
           /\ seen' \in [Requests -> Nat]
           /\ listed' \in [Requests -> SUBSET Challenges]
           /\ holder' \in [Challenges -> Requests \cup {None}]
           /\ pc'[r] = "idle"
           /\ \A q \in Requests \ {r} :
                UNCHANGED <<pc[q], target[q], seen[q], listed[q]>>
           /\ \A q \in Requests \ {r} : Held(q)' = Held(q)
           /\ \A c \in Challenges : holder'[c] = IF holder[c] = r THEN None ELSE holder[c]
           /\ expired' = expired
  BY NoneIsNone DEF Inv, TypeOK, Finish, Held

\* A transaction that ends and changes no row keeps the invariant.
LEMMA FinishInv ==
    ASSUME Inv, NEW r \in Requests, Finish(r),
           UNCHANGED blacklisted, UNCHANGED rowsAndUser, UNCHANGED history
    PROVE  Inv'
<1> USE DEF rowsAndUser, history
<1>1. TypeOK'
  BY Finished DEF Inv, TypeOK
<1>2. \A q \in Requests : RequestInv(q)'
  <2> SUFFICES ASSUME NEW q \in Requests PROVE RequestInv(q)'
    OBVIOUS
  <2>1. CASE q = r
    BY <2>1, Finished DEF RequestInv, Judged
  <2>2. CASE q # r
    BY <2>2, Finished DEF Inv, RequestInv, Judged
  <2> QED
    BY <2>1, <2>2
<1>3. \A c \in Challenges : HolderInv(c)'
  BY Finished DEF Inv, TypeOK, HolderInv
<1>4. GuessesAreCounted' /\ OneSignInUntilCleared' /\ ResetVoidsChallenges'
  BY DEF Inv, GuessesAreCounted, EveryGuessCounts, AttemptsLimited,
         OneSignInUntilCleared, ResetVoidsChallenges
<1> QED
  BY <1>1, <1>2, <1>3, <1>4 DEF Inv

\* A step of one request that changes no row and holds what it held.
LEMMA QuietInv ==
    ASSUME Inv, NEW r \in Requests, TypeOK', RequestInv(r)',
           UNCHANGED blacklisted, UNCHANGED rowsAndUser, UNCHANGED history,
           \A q \in Requests \ {r} :
               /\ UNCHANGED <<pc[q], target[q], seen[q], listed[q]>>
               /\ Held(q)' = Held(q),
           \A c \in Challenges : HolderInv(c)'
    PROVE  Inv'
<1> USE DEF rowsAndUser, history
<1>1. ASSUME NEW q \in Requests \ {r} PROVE RequestInv(q)'
  BY <1>1 DEF Inv, TypeOK, RequestInv, Held, Judged
<1>2. GuessesAreCounted' /\ OneSignInUntilCleared' /\ ResetVoidsChallenges'
  BY DEF Inv, GuessesAreCounted, EveryGuessCounts, AttemptsLimited,
         OneSignInUntilCleared, ResetVoidsChallenges
<1> QED
  BY <1>1, <1>2 DEF Inv

-----------------------------------------------------------------------------
(* The account, the beat schedule and time. *)

\* A new challenge has no guesses.
LEMMA IssueChallengeInv ==
    ASSUME Inv, NEW c \in Challenges, IssueChallenge(c) PROVE Inv'
<1> USE DEF IssueChallenge, history
<1>1. TypeOK'
  BY DEF Inv, TypeOK
<1>2. \A r \in Requests : RequestInv(r)'
  BY DEF Inv, RequestInv, Judged, Held
<1>3. \A d \in Challenges : HolderInv(d)'
  BY DEF Inv, TypeOK, HolderInv
<1>4. GuessesAreCounted' /\ OneSignInUntilCleared'
  BY DEF Inv, GuessesAreCounted, EveryGuessCounts, AttemptsLimited, OneSignInUntilCleared
<1>5. ResetVoidsChallenges'
  BY DEF Inv, TypeOK, ResetVoidsChallenges
<1> QED
  BY <1>1, <1>2, <1>3, <1>4, <1>5 DEF Inv

LEMMA AccountInv ==
    ASSUME Inv, \/ \E on \in BOOLEAN : SetMfaEnabled(on)
                \/ \E c \in Challenges : Expire(c)
                \/ UNCHANGED vars
    PROVE  Inv'
<1> USE DEF SetMfaEnabled, Expire, rowsAndUser, history, vars
<1>1. /\ UNCHANGED <<challenge, failures, blacklisted, session, holder, pc, target, seen,
                     listed, clears, cleared, wrong, signins>>
      /\ mfaEnabled' \in BOOLEAN /\ expired' \subseteq Challenges
  BY DEF Inv, TypeOK
<1>2. TypeOK'
  BY <1>1 DEF Inv, TypeOK
<1>3. \A r \in Requests : RequestInv(r)'
  BY <1>1 DEF Inv, RequestInv, Judged, Held
<1>4. \A d \in Challenges : HolderInv(d)'
  BY <1>1 DEF Inv, HolderInv
<1>5. GuessesAreCounted' /\ OneSignInUntilCleared' /\ ResetVoidsChallenges'
  BY <1>1 DEF Inv, GuessesAreCounted, EveryGuessCounts, AttemptsLimited,
         OneSignInUntilCleared, ResetVoidsChallenges
<1> QED
  BY <1>2, <1>3, <1>4, <1>5 DEF Inv

\* What the daily job takes off the blacklist counts as cleared; the other
\* tokens were not blacklisted, so they have attempts left and no sign-in.
LEMMA ClearBlacklistInv == ASSUME Inv, ClearBlacklist PROVE Inv'
<1> USE DEF ClearBlacklist, rowsAndUser
<1>1. TypeOK'
  BY DEF Inv, TypeOK
<1>2. \A r \in Requests : RequestInv(r)'
  BY DEF Inv, RequestInv, Judged, Held
<1>3. \A d \in Challenges : HolderInv(d)'
  BY DEF Inv, HolderInv
<1>4. GuessesAreCounted'
  BY MaxAttemptsIsPositive
     DEF Inv, TypeOK, GuessesAreCounted, EveryGuessCounts, AttemptsLimited
<1>5. OneSignInUntilCleared' /\ ResetVoidsChallenges'
  BY DEF Inv, TypeOK, OneSignInUntilCleared, ResetVoidsChallenges
<1> QED
  BY <1>1, <1>2, <1>3, <1>4, <1>5 DEF Inv

-----------------------------------------------------------------------------
(* The steps of a request. *)

\* A request that begins holds nothing.
LEMMA BeginVerifyInv ==
    ASSUME Inv, NEW r \in Requests, NEW c \in Challenges, BeginVerify(r, c)
    PROVE  Inv'
<1> USE DEF BeginVerify, rowsAndUser, history
<1>1. TypeOK'
  BY DEF Inv, TypeOK
<1>2. RequestInv(r)' /\ \A q \in Requests \ {r} :
               /\ UNCHANGED <<pc[q], target[q], seen[q], listed[q]>>
               /\ Held(q)' = Held(q)
  BY DEF Inv, TypeOK, RequestInv, Judged, Held
<1>3. \A d \in Challenges : HolderInv(d)'
  BY DEF Inv, TypeOK, HolderInv, Judged, Resetting
<1> QED
  BY <1>1, <1>2, <1>3, QuietInv

\* The row is locked by one request at a time, which has read its counter.
LEMMA LockChallengeInv == ASSUME Inv, NEW r \in Requests, LockChallenge(r)
                          PROVE  Inv'
<1>1. CASE Finish(r)
  BY <1>1, FinishInv DEF LockChallenge
<1>2. CASE ~Finish(r)
  <2> DEFINE c == target[r]
  <2>0. /\ pc[r] = "lock" /\ holder[c] = None /\ c \in Open
        /\ holder' = [holder EXCEPT ![c] = r]
        /\ seen' = [seen EXCEPT ![r] = failures[c]]
        /\ pc' = [pc EXCEPT ![r] = "judge"]
        /\ UNCHANGED <<expired, target, listed, blacklisted>>
        /\ UNCHANGED rowsAndUser /\ UNCHANGED history
    BY <1>2 DEF LockChallenge
  <2>1. TypeOK'
    BY <2>0 DEF Inv, TypeOK, rowsAndUser, history, Open
  <2>2. RequestInv(r)'
    BY <2>0 DEF Inv, TypeOK, RequestInv, Judged, Open, rowsAndUser
  <2>3. \A q \in Requests \ {r} :
               /\ UNCHANGED <<pc[q], target[q], seen[q], listed[q]>>
               /\ Held(q)' = Held(q)
    BY <2>0, NoneIsNone DEF Inv, TypeOK, Held, Open
  <2>4. \A d \in Challenges : HolderInv(d)'
    BY <2>0 DEF Inv, TypeOK, HolderInv, Judged, Resetting, Open, rowsAndUser
  <2> QED
    BY <2>0, <2>1, <2>2, <2>3, <2>4, QuietInv
<1> QED
  BY <1>1, <1>2

\* The count that a wrong guess stores is one more than the stored one, which
\* is below the limit, or the token was blacklisted and nothing is stored.
LEMMA RejectInv == ASSUME Inv, NEW r \in Requests, Reject(r) PROVE Inv'
<1> DEFINE c == target[r]
           count == seen[r] + 1
<1>0. /\ pc[r] = "judge" /\ Finish(r)
      /\ UNCHANGED <<mfaEnabled, challenge, session, clears, cleared, signins>>
      /\ c \in Challenges /\ holder[c] = r /\ seen[r] = failures[c]
  BY DEF Reject, Inv, RequestInv, Judged
<1>1. CASE count >= MaxAttempts /\ c \in blacklisted
  BY <1>0, <1>1, FinishInv DEF Reject, rowsAndUser, history
<1>2. CASE ~(count >= MaxAttempts /\ c \in blacklisted)
  <2>0. /\ failures' = [failures EXCEPT ![c] = count]
        /\ wrong' = [wrong EXCEPT ![c] = @ + 1]
        /\ blacklisted' = blacklisted \cup (IF count >= MaxAttempts THEN {c} ELSE {})
    BY <1>2 DEF Reject
  <2>1. TypeOK'
    BY <1>0, <2>0, Finished DEF Inv, TypeOK
  <2>2. \A q \in Requests : RequestInv(q)'
    <3> SUFFICES ASSUME NEW q \in Requests PROVE RequestInv(q)'
      OBVIOUS
    <3>1. CASE q = r
      BY <1>0, <3>1, Finished DEF RequestInv, Judged
    <3>2. CASE q # r
      <4>1. pc[q] \in Judged => target[q] # c
        BY <1>0, <3>2 DEF Inv, RequestInv
      <4> QED
        BY <1>0, <2>0, <3>2, <4>1, Finished DEF Inv, TypeOK, RequestInv, Judged
    <3> QED
      BY <3>1, <3>2
  <2>3. \A d \in Challenges : HolderInv(d)'
    BY <1>0, Finished DEF Inv, TypeOK, HolderInv
  <2>4. GuessesAreCounted'
    <3>1. EveryGuessCounts'
      BY <1>0, <2>0 DEF Inv, TypeOK, GuessesAreCounted, EveryGuessCounts
    <3>2. c \notin cleared => failures[c] <= MaxAttempts - 1 \/ c \in blacklisted
      BY <1>0, MaxAttemptsIsPositive
         DEF Inv, TypeOK, GuessesAreCounted, AttemptsLimited
    <3>3. AttemptsLimited'
      BY <1>0, <1>2, <2>0, <3>2, MaxAttemptsIsPositive
         DEF Inv, TypeOK, GuessesAreCounted, AttemptsLimited
    <3> QED
      BY <3>1, <3>3 DEF GuessesAreCounted
  <2>5. OneSignInUntilCleared' /\ ResetVoidsChallenges'
    BY <1>0, <2>0 DEF Inv, OneSignInUntilCleared, ResetVoidsChallenges
  <2> QED
    BY <2>1, <2>2, <2>3, <2>4, <2>5 DEF Inv
<1> QED
  BY <1>1, <1>2

\* A right answer enters the blacklist, and opens the session, once.
LEMMA AcceptInv == ASSUME Inv, NEW r \in Requests, Accept(r) PROVE Inv'
<1> USE DEF Accept, rowsAndUser, history
<1>1. TypeOK'
  BY DEF Inv, TypeOK
<1>2. RequestInv(r)' /\ \A q \in Requests \ {r} :
               /\ UNCHANGED <<pc[q], target[q], seen[q], listed[q]>>
               /\ Held(q)' = Held(q)
  BY DEF Inv, TypeOK, RequestInv, Judged, Held
<1>3. \A d \in Challenges : HolderInv(d)'
  BY DEF Inv, TypeOK, HolderInv, Judged, Resetting
<1> QED
  BY <1>1, <1>2, <1>3, QuietInv

\* The challenge that signs in is held, hence open and not yet blacklisted:
\* it has not signed in before and no reset has deleted or listed around it.
LEMMA CommitSignInInv == ASSUME Inv, NEW r \in Requests, CommitSignIn(r)
                         PROVE  Inv'
<1> DEFINE c == target[r]
<1>0. /\ pc[r] = "answered" /\ Finish(r)
      /\ blacklisted' = blacklisted \cup {c}
      /\ session' = [session EXCEPT ![c] = "active"]
      /\ signins' = [signins EXCEPT ![c] = @ + 1]
      /\ UNCHANGED <<mfaEnabled, challenge, failures, clears, cleared, wrong>>
      /\ c \in Challenges /\ holder[c] = r /\ c \notin blacklisted
      /\ challenge[c] = "open"
  BY NoneIsNone DEF CommitSignIn, Inv, RequestInv, HolderInv, Judged
<1>1. TypeOK'
  BY <1>0, Finished DEF Inv, TypeOK
<1>2. \A q \in Requests : RequestInv(q)'
  <2> SUFFICES ASSUME NEW q \in Requests PROVE RequestInv(q)'
    OBVIOUS
  <2>1. CASE q = r
    BY <1>0, <2>1, Finished DEF RequestInv, Judged
  <2>2. CASE q # r
    <3>1. c \notin Held(q) /\ (pc[q] \in Judged => target[q] # c)
      BY <1>0, <2>2 DEF Inv, RequestInv, Held
    <3> QED
      BY <1>0, <2>2, <3>1, Finished DEF Inv, TypeOK, RequestInv, Judged, Held
  <2> QED
    BY <2>1, <2>2
<1>3. \A d \in Challenges : HolderInv(d)'
  BY <1>0, Finished DEF Inv, TypeOK, HolderInv
<1>4. GuessesAreCounted'
  BY <1>0 DEF Inv, TypeOK, GuessesAreCounted, EveryGuessCounts, AttemptsLimited
<1>5. OneSignInUntilCleared'
  BY <1>0 DEF Inv, TypeOK, OneSignInUntilCleared
<1>6. ResetVoidsChallenges'
  BY <1>0 DEF Inv, TypeOK, ResetVoidsChallenges
<1> QED
  BY <1>1, <1>2, <1>3, <1>4, <1>5, <1>6 DEF Inv

LEMMA BeginResetInv == ASSUME Inv, NEW r \in Requests, BeginReset(r) PROVE Inv'
<1> USE DEF BeginReset, rowsAndUser, history
<1>1. TypeOK'
  BY DEF Inv, TypeOK
<1>2. RequestInv(r)' /\ \A q \in Requests \ {r} :
               /\ UNCHANGED <<pc[q], target[q], seen[q], listed[q]>>
               /\ Held(q)' = Held(q)
  BY DEF Inv, TypeOK, RequestInv, Judged, Held
<1>3. \A d \in Challenges : HolderInv(d)'
  BY DEF Inv, TypeOK, HolderInv, Judged, Resetting
<1> QED
  BY <1>1, <1>2, <1>3, QuietInv

\* The reset waits for who holds a challenge, and then holds them all.
LEMMA DeleteChallengesInv == ASSUME Inv, NEW r \in Requests, DeleteChallenges(r)
                             PROVE  Inv'
<1> USE DEF DeleteChallenges, rowsAndUser, history
<1>1. TypeOK'
  BY DEF Inv, TypeOK, Open
<1>2. RequestInv(r)'
  BY DEF Inv, TypeOK, RequestInv, Judged
<1>3. \A q \in Requests \ {r} :
               /\ UNCHANGED <<pc[q], target[q], seen[q], listed[q]>>
               /\ Held(q)' = Held(q)
  BY NoneIsNone DEF Inv, TypeOK, Held, Open
<1>4. \A d \in Challenges : HolderInv(d)'
  BY DEF Inv, TypeOK, HolderInv, Judged, Resetting, Open
<1> QED
  BY <1>1, <1>2, <1>3, <1>4, QuietInv

\* The reset lists the sessions that are open.
LEMMA ListSessionsInv == ASSUME Inv, NEW r \in Requests, ListSessions(r)
                         PROVE  Inv'
<1> USE DEF ListSessions, rowsAndUser, history
<1>1. TypeOK'
  BY DEF Inv, TypeOK
<1>2. RequestInv(r)' /\ \A q \in Requests \ {r} :
               /\ UNCHANGED <<pc[q], target[q], seen[q], listed[q]>>
               /\ Held(q)' = Held(q)
  BY DEF Inv, TypeOK, RequestInv, Judged, Held
<1>3. \A d \in Challenges : HolderInv(d)'
  BY DEF Inv, TypeOK, HolderInv, Judged, Resetting
<1> QED
  BY <1>1, <1>2, <1>3, QuietInv

\* The sessions of the challenges that a reset deletes are among those it
\* listed, and revoked; revoking a session makes none active.
LEMMA CommitResetInv == ASSUME Inv, NEW r \in Requests, CommitReset(r)
                        PROVE  Inv'
<1> USE DEF CommitReset, history
<1>0. Finish(r) /\ pc[r] = "reset"
  OBVIOUS
<1>1. TypeOK'
  BY <1>0, Finished DEF Inv, TypeOK
<1>2. \A q \in Requests : RequestInv(q)'
  <2> SUFFICES ASSUME NEW q \in Requests PROVE RequestInv(q)'
    OBVIOUS
  <2>1. CASE q = r
    BY <1>0, <2>1, Finished DEF RequestInv, Judged
  <2>2. CASE q # r
    <3>1. \A d \in Challenges : session'[d] = "active" => session[d] = "active"
      OBVIOUS
    <3>2. pc[q] \in Judged => holder'[target[q]] = q
      BY <1>0, <2>2, Finished DEF Inv, RequestInv, Judged
    <3> QED
      BY <1>0, <2>2, <3>1, <3>2, Finished DEF Inv, RequestInv, Judged, Held
  <2> QED
    BY <2>1, <2>2
<1>3. \A d \in Challenges : HolderInv(d)'
  BY <1>0, Finished DEF Inv, TypeOK, HolderInv, Held
<1>4. GuessesAreCounted' /\ OneSignInUntilCleared'
  BY DEF Inv, GuessesAreCounted, EveryGuessCounts, AttemptsLimited, OneSignInUntilCleared
<1>5. ResetVoidsChallenges'
  BY <1>0 DEF Inv, RequestInv, ResetVoidsChallenges
<1> QED
  BY <1>1, <1>2, <1>3, <1>4, <1>5 DEF Inv

\* Every step keeps the invariant.
LEMMA NextInv == Inv /\ [Next]_vars => Inv'
<1> SUFFICES ASSUME Inv, [Next]_vars PROVE Inv'
  OBVIOUS
<1>1. ASSUME NEW r \in Requests, Step(r) PROVE Inv'
  <2>1. CASE RefuseDisabled(r)
    BY <2>1, FinishInv DEF RefuseDisabled
  <2> QED
    BY <1>1, <2>1, LockChallengeInv, RejectInv, AcceptInv, CommitSignInInv,
       DeleteChallengesInv, ListSessionsInv, CommitResetInv DEF Step
<1>2. ASSUME NEW r \in Requests, Fail(r) PROVE Inv'
  BY <1>2, FinishInv DEF Fail
<1> QED
  BY <1>1, <1>2, IssueChallengeInv, AccountInv, ClearBlacklistInv, BeginVerifyInv,
     BeginResetInv DEF Next

\* The invariant holds in every behaviour.
THEOREM Invariance == Spec => []Inv
  BY InitInv, NextInv, PTL DEF Spec

-----------------------------------------------------------------------------
\* Every variable keeps its type.
THEOREM TypeCorrect == Spec => []TypeOK
<1>1. Inv => TypeOK
  BY DEF Inv
<1> QED
  BY <1>1, Invariance, PTL

\* However many guesses are made at once, each wrong one is counted, and no
\* more than MaxAttempts are taken (verify_mfa_challenge and its FOR UPDATE).
THEOREM GuessesAreAlwaysCounted == Spec => []GuessesAreCounted
<1>1. Inv => GuessesAreCounted
  BY DEF Inv
<1> QED
  BY <1>1, Invariance, PTL

\* However many right answers arrive at once, a challenge signs in once while
\* the blacklist row stands.
THEOREM SignsInOnce == Spec => []OneSignInUntilCleared
<1>1. Inv => OneSignInUntilCleared
  BY DEF Inv
<1> QED
  BY <1>1, Invariance, PTL

\* A reset leaves no session that one of the challenges it voided opened
\* (confirm_mfa_reset, which deletes before it lists).
THEOREM ResetIsThorough == Spec => []ResetVoidsChallenges
<1>1. Inv => ResetVoidsChallenges
  BY DEF Inv
<1> QED
  BY <1>1, Invariance, PTL

-----------------------------------------------------------------------------
(* ClientTokens.  Without a mishap at most one tab renews, and until it has  *)
(* stored the answer the pair in the storage is the one it renews; a pair    *)
(* the server does not renew any more is one of a session the user has       *)
(* signed out of; and while a tab signs out nobody signs in.                 *)

Logins == {signIn[n] : n \in Pairs}
Tokens == Pairs \cup {Absent}

CallRows == [phase : {"idle", "sent", "waiting", "retried"}, token : Tokens]
RenewalRows == [phase : {"none", "asked", "answered"}, token : Tokens, reply : Tokens]
LeavingRows == [phase : {"none", "asked", "answered"}, access : Tokens, refresh : Tokens]
StoredPairs == [access : Tokens, refresh : Tokens]
PageRows == [signedIn : BOOLEAN, expired : BOOLEAN]

\* Every variable stays within its type; sign-ins are numbered as they come.
ClientTypeOK ==
    /\ store \in StoredPairs
    /\ live \subseteq Pairs /\ fresh \subseteq Pairs
    /\ signIn \in Seq(Nat)
    /\ page \in [Tabs -> PageRows]
    /\ DOMAIN calls = Tabs
    /\ \A t \in Tabs : calls[t] \in [Calls(t) -> CallRows]
    /\ renewal \in [Tabs -> RenewalRows]
    /\ leaving \in [Tabs -> LeavingRows]
    /\ left \subseteq Logins
    /\ mishaps \subseteq {"lost", "ended", "slow", "contended"}
    /\ \E k \in Nat : Logins = 1..k

\* The server renews the pair, or the user has signed out of its session.
Alive(n) == n \in live \/ signIn[n] \in left

\* What a tab that renews has asked for, and was answered.
RenewalInv(t) ==
    t \in Renewing =>
        /\ Renewing = {t}
        /\ store.refresh \in Pairs /\ renewal[t].token = store.refresh
        /\ renewal[t].phase = "asked" => renewal[t].reply = Absent /\ Alive(store.refresh)
        /\ renewal[t].phase = "answered" =>
               IF renewal[t].reply = Absent THEN signIn[store.refresh] \in left
               ELSE /\ renewal[t].reply \in fresh /\ Alive(renewal[t].reply)
                    /\ signIn[renewal[t].reply] = signIn[store.refresh]

\* A tab that signs out has named a session the user has signed out of, and the
\* storage holds no other.
LeavingInv(t) ==
    leaving[t] # Staying =>
        /\ leaving[t].phase = "asked" =>
               leaving[t].refresh \in Pairs /\ signIn[leaving[t].refresh] \in left
        /\ store.refresh # Absent => signIn[store.refresh] \in left

SmoothInv ==
    /\ store.access = store.refresh
    /\ Renewing = {} /\ store.refresh # Absent => Alive(store.refresh)
    /\ \A t \in Tabs : RenewalInv(t) /\ LeavingInv(t)
    /\ \A t \in Tabs : \A c \in Calls(t) :
           calls[t][c].phase = "retried" => calls[t][c].token \in fresh
    /\ (\A t \in Tabs : leaving[t] = Staying) /\ store.refresh # Absent =>
           signIn[store.refresh] \notin left

ClientInv == ClientTypeOK /\ (mishaps = {} => SmoothInv)

-----------------------------------------------------------------------------
\* No pair is the absent one.
LEMMA PairsAreNumbers == Pairs \subseteq Nat /\ Absent \notin Pairs
  BY ClientConstants DEF Pairs

\* While nobody signs in or renews, the pairs are the same.
LEMMA SamePairs ==
    ASSUME UNCHANGED signIn
    PROVE  /\ Pairs' = Pairs /\ Tokens' = Tokens /\ Logins' = Logins
           /\ CallRows' = CallRows /\ RenewalRows' = RenewalRows
           /\ LeavingRows' = LeavingRows /\ StoredPairs' = StoredPairs
<1>1. Pairs' = Pairs
  BY DEF Pairs
<1>2. Tokens' = Tokens /\ Logins' = Logins
  BY <1>1 DEF Tokens, Logins
<1> QED
  BY <1>1, <1>2 DEF CallRows, RenewalRows, LeavingRows, StoredPairs

\* A pair that is issued is a new one, and the others go back to what they did.
LEMMA PairIssued ==
    ASSUME signIn \in Seq(Nat), NEW login \in Nat, signIn' = Append(signIn, login)
    PROVE  /\ signIn' \in Seq(Nat)
           /\ Len(signIn') \in Nat /\ Len(signIn') \notin Pairs
           /\ Pairs' = Pairs \cup {Len(signIn')}
           /\ signIn'[Len(signIn')] = login
           /\ \A n \in Pairs : signIn'[n] = signIn[n]
           /\ Logins' = Logins \cup {login}
           /\ Tokens \subseteq Tokens' /\ Len(signIn') \in Tokens'
           /\ CallRows \subseteq CallRows' /\ RenewalRows \subseteq RenewalRows'
           /\ LeavingRows \subseteq LeavingRows' /\ StoredPairs \subseteq StoredPairs'
<1>1. /\ signIn' \in Seq(Nat) /\ Len(signIn') = Len(signIn) + 1 /\ Len(signIn) \in Nat
      /\ Len(signIn') \in Nat
      /\ signIn'[Len(signIn')] = login
      /\ \A n \in 1..Len(signIn) : signIn'[n] = signIn[n]
  OBVIOUS
<1>2. Len(signIn') \notin Pairs /\ Pairs' = Pairs \cup {Len(signIn')}
  BY <1>1 DEF Pairs
<1>3. \A n \in Pairs : signIn'[n] = signIn[n]
  BY <1>1 DEF Pairs
<1>4. Logins' = Logins \cup {login}
  BY <1>1, <1>2, <1>3 DEF Logins
<1>5. Tokens \subseteq Tokens' /\ Len(signIn') \in Tokens'
  BY <1>2 DEF Tokens
<1>6. /\ CallRows \subseteq CallRows' /\ RenewalRows \subseteq RenewalRows'
      /\ LeavingRows \subseteq LeavingRows' /\ StoredPairs \subseteq StoredPairs'
  BY <1>5 DEF CallRows, RenewalRows, LeavingRows, StoredPairs
<1> QED
  BY <1>1, <1>2, <1>3, <1>4, <1>5, <1>6

\* One call changes.
LEMMA OneCall ==
    ASSUME ClientTypeOK, UNCHANGED signIn, NEW t \in Tabs, NEW c \in Calls(t),
           NEW x \in CallRows, calls' = [calls EXCEPT ![t][c] = x]
    PROVE  /\ DOMAIN calls' = Tabs
           /\ \A u \in Tabs : calls'[u] \in [Calls(u) -> CallRows']
           /\ calls'[t][c] = x
           /\ \A u \in Tabs : \A d \in Calls(u) :
                  calls'[u][d] = x \/ calls'[u][d] = calls[u][d]
<1>1. DOMAIN calls = Tabs /\ \A u \in Tabs : calls[u] \in [Calls(u) -> CallRows]
  BY DEF ClientTypeOK
<1>2. /\ DOMAIN calls' = Tabs
      /\ calls'[t] = [calls[t] EXCEPT ![c] = x]
      /\ \A u \in Tabs \ {t} : calls'[u] = calls[u]
  BY <1>1
<1>3. CallRows' = CallRows
  BY SamePairs
<1> QED
  BY <1>1, <1>2, <1>3

\* Initially there is no session.
LEMMA ClientInitInv == ClientInit => ClientInv
<1> SUFFICES ASSUME ClientInit PROVE ClientInv
  OBVIOUS
<1>1. Len(signIn) = 0 /\ signIn \in Seq(Nat) /\ Pairs = {} /\ Logins = {}
  BY DEF ClientInit, Pairs, Logins
<1>2. Logins = 1..0 /\ 0 \in Nat
  BY <1>1
<1>3. Tokens = {Absent}
  BY <1>1 DEF Tokens
<1>4. ClientTypeOK
  <2>1. \E k \in Nat : Logins = 1..k
    BY <1>2
  <2>2. \A t \in Tabs : calls[t] \in [Calls(t) -> CallRows]
    BY <1>3 DEF ClientInit, CallRows, Idle
  <2> QED
    BY <1>1, <1>3, <2>1, <2>2
    DEF ClientInit, ClientTypeOK, PageRows, StoredPairs, RenewalRows, LeavingRows, NoPair,
        Pair, NoRenewal, Staying
<1>5. Renewing = {} /\ store.refresh = Absent /\ store.access = Absent
  BY DEF ClientInit, Renewing, NoRenewal, NoPair, Pair
<1>6. \A t \in Tabs : leaving[t] = Staying
  BY DEF ClientInit
<1>7. \A t \in Tabs : \A c \in Calls(t) : calls[t][c].phase # "retried"
  BY DEF ClientInit, Idle
<1>8. SmoothInv
  BY <1>5, <1>6, <1>7 DEF SmoothInv, RenewalInv, LeavingInv
<1> QED
  BY <1>4, <1>8 DEF ClientInv

\* A step that leaves the sessions, the renewals and the sign-outs as they are.
LEMMA SameSession ==
    ASSUME ClientTypeOK, SmoothInv,
           UNCHANGED <<store, live, signIn, renewal, leaving, left>>,
           \A t \in Tabs : \A c \in Calls(t) :
               calls'[t][c].phase = "retried" => calls'[t][c].token \in fresh',
           \A t \in Tabs : renewal[t].reply \in fresh => renewal[t].reply \in fresh'
    PROVE  SmoothInv'
<1>1. Renewing' = Renewing /\ Pairs' = Pairs
  BY DEF Renewing, Pairs
<1>2. \A n : Alive(n)' <=> (n \in live \/ signIn[n] \in left)
  BY DEF Alive
<1>3. \A t \in Tabs : RenewalInv(t)'
  <2> SUFFICES ASSUME NEW t \in Tabs PROVE RenewalInv(t)'
    OBVIOUS
  <2> QED
    BY <1>1 DEF SmoothInv, RenewalInv, Alive
<1>4. \A t \in Tabs : LeavingInv(t)'
  BY <1>1 DEF SmoothInv, LeavingInv
<1> QED
  BY <1>1, <1>3, <1>4 DEF SmoothInv, Alive

\* An access token grows old.
LEMMA AccessExpiresInv ==
    ASSUME ClientInv, NEW n \in Pairs, AccessExpires(n)
    PROVE  ClientInv'
<1> USE DEF ClientInv
<1>1. ClientTypeOK'
  BY SamePairs DEF AccessExpires, ClientTypeOK, Mishap
<1>2. ASSUME mishaps' = {} PROVE SmoothInv'
  <2> DEFINE slow == \E t \in Tabs :
                         \/ renewal[t].reply = n
                         \/ \E c \in Calls(t) : calls[t][c] = [phase |-> "retried", token |-> n]
  <2>1. mishaps = {} /\ ~slow
    BY <1>2 DEF AccessExpires, Mishap
  <2>2. ASSUME NEW t \in Tabs, NEW c \in Calls(t), calls[t][c].phase = "retried"
        PROVE  calls[t][c].token # n
    <3>1. calls[t][c] \in CallRows
      BY DEF ClientTypeOK
    <3> QED
      BY <2>1, <2>2, <3>1 DEF CallRows
  <2> QED
    BY <2>1, <2>2, SameSession DEF AccessExpires, SmoothInv
<1> QED
  BY <1>1, <1>2

\* A session that is ended elsewhere is a mishap.
LEMMA EndedElsewhereInv ==
    ASSUME ClientInv, NEW n \in Pairs, EndedElsewhere(n)
    PROVE  ClientInv'
<1>1. ClientTypeOK'
  BY SamePairs DEF EndedElsewhere, ClientInv, ClientTypeOK
<1> QED
  BY <1>1 DEF EndedElsewhere, ClientInv

\* A request begins, or is accepted.
LEMMA BeginInv ==
    ASSUME ClientInv, NEW t \in Tabs, NEW c \in Calls(t), Begin(t, c) \/ Accepted(t, c)
    PROVE  ClientInv'
<1> USE DEF ClientInv
<1>1. PICK x \in CallRows : calls' = [calls EXCEPT ![t][c] = x] /\ x.phase # "retried"
  <2>1. CASE Begin(t, c)
    <3>1. [phase |-> "sent", token |-> store.access] \in CallRows
      BY DEF ClientTypeOK, CallRows, StoredPairs
    <3> QED
      BY <2>1, <3>1 DEF Begin
  <2>2. CASE Accepted(t, c)
    <3>1. Idle \in CallRows /\ Idle.phase # "retried"
      BY DEF Idle, CallRows, Tokens
    <3> QED
      BY <2>2, <3>1 DEF Accepted
  <2> QED
    BY <2>1, <2>2
<1>2. UNCHANGED <<store, live, fresh, signIn, renewal, leaving, left, mishaps>>
  BY DEF Begin, Accepted, serverVars, historyOfClient
<1>3. page' \in [Tabs -> PageRows]
  <2>1. page \in [Tabs -> PageRows]
    BY DEF ClientTypeOK
  <2>2. page' = page \/ page' = [page EXCEPT ![t] = [signedIn |-> TRUE, expired |-> FALSE]]
    BY <2>1 DEF Begin, Accepted
  <2>3. [signedIn |-> TRUE, expired |-> FALSE] \in PageRows
    BY DEF PageRows
  <2> QED
    BY <2>1, <2>2, <2>3
<1>4. ClientTypeOK'
  BY <1>1, <1>2, <1>3, OneCall, SamePairs DEF ClientTypeOK
<1>5. ASSUME mishaps' = {} PROVE SmoothInv'
  <2>1. SmoothInv
    BY <1>2, <1>5
  <2>2. \A u \in Tabs : \A d \in Calls(u) :
            calls'[u][d].phase = "retried" => calls'[u][d].token \in fresh'
    BY <1>1, <1>2, <2>1, OneCall DEF SmoothInv
  <2> QED
    BY <1>2, <2>1, <2>2, SameSession
<1> QED
  BY <1>4, <1>5

\* The empty pair, a page that has lost its session and an idle call are rows.
LEMMA EmptyRows ==
    /\ Absent \in Tokens
    /\ NoPair \in StoredPairs /\ NoPair.access = Absent /\ NoPair.refresh = Absent
    /\ Expired \in PageRows
    /\ Idle \in CallRows /\ Idle.phase = "idle"
    /\ NoRenewal \in RenewalRows /\ NoRenewal.phase = "none"
    /\ Staying \in LeavingRows /\ Staying.phase = "none"
  BY DEF Tokens, NoPair, Pair, StoredPairs, Expired, PageRows, Idle, CallRows,
         NoRenewal, RenewalRows, Staying, LeavingRows

\* A stored pair without a refresh token is empty, if it is one pair.
LEMMA StoredPair ==
    ASSUME ClientTypeOK, store.access = store.refresh, store.refresh = Absent
    PROVE  store = NoPair
  BY DEF ClientTypeOK, StoredPairs, NoPair, Pair

\* A request that fails has met with a mishap: the answer was lost, or the new token
\* was too old already.
LEMMA FailsInv ==
    ASSUME ClientInv, NEW t \in Tabs, NEW c \in Calls(t), Fails(t, c)
    PROVE  ClientInv'
<1>1. ClientTypeOK
  BY DEF ClientInv
<1>2. /\ calls' = [calls EXCEPT ![t][c] = Idle]
      /\ UNCHANGED <<live, fresh, signIn, renewal, leaving, left>>
  BY DEF Fails, serverVars
<1>3. store' \in StoredPairs /\ page' \in [Tabs -> PageRows]
  BY <1>1, EmptyRows DEF Fails, AfterProfile, ClientTypeOK
<1>4. mishaps' = mishaps \/ mishaps' = mishaps \cup {"lost"}
  BY DEF Fails, Mishap
<1>5. ClientTypeOK'
  BY <1>1, <1>2, <1>3, <1>4, EmptyRows, OneCall, SamePairs DEF ClientTypeOK
<1>6. ASSUME mishaps' = {} PROVE FALSE
  <2>1. mishaps = {} /\ calls[t][c].phase = "retried" /\ calls[t][c].token \notin fresh
    BY <1>4, <1>6 DEF Fails, Mishap, Refused
  <2> QED
    BY <2>1 DEF ClientInv, SmoothInv
<1> QED
  BY <1>5, <1>6 DEF ClientInv

\* A request that is refused waits for a new pair, which its tab asks for unless it
\* has asked already.
LEMMA RefusedOnceInv ==
    ASSUME ClientInv, NEW t \in Tabs, NEW c \in Calls(t), RefusedOnce(t, c)
    PROVE  ClientInv'
<1> DEFINE waiting == [phase |-> "waiting", token |-> Absent]
           asked == [phase |-> "asked", token |-> store.refresh, reply |-> Absent]
<1>1. ClientTypeOK
  BY DEF ClientInv
<1>2. UNCHANGED <<live, fresh, signIn, leaving, left>>
  BY DEF RefusedOnce, serverVars
<1>3. waiting \in CallRows /\ waiting.phase = "waiting"
  BY EmptyRows DEF CallRows
<1>4. /\ asked \in RenewalRows /\ asked.phase = "asked"
      /\ asked.token = store.refresh /\ asked.reply = Absent
  BY <1>1, EmptyRows DEF RenewalRows, ClientTypeOK, StoredPairs
<1>5. PICK x \in CallRows : calls' = [calls EXCEPT ![t][c] = x] /\ x.phase # "retried"
  BY <1>3, EmptyRows DEF RefusedOnce
<1>6. \/ /\ store.refresh = Absent /\ store' = NoPair /\ UNCHANGED <<renewal, mishaps>>
         /\ page' = [page EXCEPT ![t] = Expired]
      \/ UNCHANGED <<store, page, renewal, mishaps>>
      \/ /\ store.refresh # Absent /\ renewal[t].phase = "none" /\ UNCHANGED <<store, page>>
         /\ renewal' = [renewal EXCEPT ![t] = asked]
         /\ mishaps' = IF Renewing \ {t} # {} THEN mishaps \cup {"contended"} ELSE mishaps
  BY DEF RefusedOnce, Joins, Mishap
<1> HIDE DEF waiting, asked
<1>7. ClientTypeOK'
  <2>1. /\ store' \in StoredPairs /\ page' \in [Tabs -> PageRows]
        /\ renewal' \in [Tabs -> RenewalRows]
    BY <1>1, <1>4, <1>6, EmptyRows DEF ClientTypeOK
  <2>2. mishaps' \subseteq {"lost", "ended", "slow", "contended"}
    BY <1>1, <1>6 DEF ClientTypeOK
  <2> QED
    BY <1>1, <1>2, <1>5, <2>1, <2>2, OneCall, SamePairs DEF ClientTypeOK
<1>8. ASSUME mishaps' = {} PROVE SmoothInv'
  <2>1. mishaps = {} /\ SmoothInv
    BY <1>6, <1>8 DEF ClientInv
  <2>2. \A u \in Tabs : \A d \in Calls(u) :
            calls'[u][d].phase = "retried" => calls'[u][d].token \in fresh'
    BY <1>1, <1>2, <1>5, <2>1, OneCall DEF SmoothInv
  <2>3. CASE UNCHANGED renewal
    <3>1. UNCHANGED store
      BY <1>1, <1>6, <2>1, StoredPair DEF SmoothInv
    <3> QED
      BY <1>1, <1>2, <2>1, <2>2, <2>3, <3>1, SameSession
  <2>4. CASE ~UNCHANGED renewal
    <3>1. /\ store.refresh # Absent /\ UNCHANGED store
          /\ renewal' = [renewal EXCEPT ![t] = asked]
          /\ Renewing \ {t} = {} /\ renewal[t].phase = "none"
      BY <1>6, <1>8, <2>4
    <3>2. Renewing = {}
      BY <3>1 DEF Renewing
    <3>3. store.refresh \in Pairs /\ Alive(store.refresh)
      BY <1>1, <2>1, <3>1, <3>2 DEF ClientTypeOK, StoredPairs, Tokens, SmoothInv
    <3>4. renewal'[t] = asked /\ \A u \in Tabs \ {t} : renewal'[u] = renewal[u]
      BY <1>1, <3>1 DEF ClientTypeOK
    <3>5. Renewing' = {t}
      BY <1>4, <3>2, <3>4 DEF Renewing
    <3>6. Pairs' = Pairs /\ Alive(store.refresh)'
      BY <1>2, <3>1, <3>3, SamePairs DEF Alive
    <3>7. ASSUME NEW u \in Tabs PROVE RenewalInv(u)'
      BY <1>4, <3>1, <3>3, <3>4, <3>5, <3>6 DEF RenewalInv
    <3>8. ASSUME NEW u \in Tabs PROVE LeavingInv(u)'
      BY <1>2, <2>1, <3>1, <3>6 DEF SmoothInv, LeavingInv
    <3> QED
      BY <1>2, <2>1, <2>2, <3>1, <3>5, <3>7, <3>8 DEF SmoothInv
  <2> QED
    BY <2>3, <2>4
<1> QED
  BY <1>7, <1>8 DEF ClientInv

\* A renewal that gets lost is a mishap.
LEMMA RenewalLostInv ==
    ASSUME ClientInv, NEW t \in Tabs, RenewalLost(t)
    PROVE  ClientInv'
<1>1. ClientTypeOK
  BY DEF ClientInv
<1>2. renewal[t] \in RenewalRows
  BY <1>1 DEF ClientTypeOK
<1>3. [renewal[t] EXCEPT !.phase = "answered", !.reply = Absent] \in RenewalRows
  BY <1>2, EmptyRows DEF RenewalRows
<1>4. renewal' \in [Tabs -> RenewalRows]
  BY <1>1, <1>3 DEF ClientTypeOK, RenewalLost
<1>5. ClientTypeOK'
  BY <1>1, <1>4, SamePairs DEF ClientTypeOK, RenewalLost, Mishap, serverVars
<1> QED
  BY <1>5 DEF ClientInv, RenewalLost, Mishap

\* The pair in the storage, a renewal or a sign-out is untouched by a new pair.
LEMMA SignInsStay ==
    ASSUME ClientTypeOK, NEW login \in Nat, signIn' = Append(signIn, login),
           NEW n \in Tokens, n # Absent
    PROVE  n \in Pairs /\ n \in Pairs' /\ signIn'[n] = signIn[n]
<1>1. n \in Pairs
  BY DEF Tokens
<1> QED
  BY <1>1, PairIssued DEF ClientTypeOK

\* The rows are rows still when there are more pairs.
LEMMA MorePairs ==
    ASSUME ClientTypeOK, NEW login \in Nat, signIn' = Append(signIn, login),
           UNCHANGED <<store, calls, leaving>>
    PROVE  /\ store' \in StoredPairs' /\ DOMAIN calls' = Tabs
           /\ \A t \in Tabs : calls'[t] \in [Calls(t) -> CallRows']
           /\ leaving' \in [Tabs -> LeavingRows']
<1>1. /\ CallRows \subseteq CallRows' /\ LeavingRows \subseteq LeavingRows'
      /\ StoredPairs \subseteq StoredPairs'
  BY PairIssued DEF ClientTypeOK
<1> QED
  BY <1>1 DEF ClientTypeOK

\* The server renews the pair a tab asks for, or refuses to.
LEMMA RenewInv ==
    ASSUME ClientInv, NEW t \in Tabs, Renew(t)
    PROVE  ClientInv'
<1>1. ClientTypeOK
  BY DEF ClientInv
<1>2. renewal[t].phase = "asked" /\ UNCHANGED <<store, page, calls, leaving, left, mishaps>>
  BY DEF Renew, historyOfClient
<1>3. t \in Renewing /\ renewal[t] \in RenewalRows
  BY <1>1, <1>2 DEF Renewing, ClientTypeOK
<1>4. CASE renewal[t].token \notin live
  <2>1. /\ renewal' = [renewal EXCEPT ![t].phase = "answered"]
        /\ UNCHANGED <<live, fresh, signIn>>
    BY <1>4 DEF Renew, serverVars
  <2>2. [renewal[t] EXCEPT !.phase = "answered"] \in RenewalRows
    BY <1>3 DEF RenewalRows
  <2>3. renewal' \in [Tabs -> RenewalRows]
    BY <1>1, <2>1, <2>2 DEF ClientTypeOK
  <2>4. ClientTypeOK'
    BY <1>1, <1>2, <2>1, <2>3, SamePairs DEF ClientTypeOK
  <2>5. ASSUME mishaps' = {} PROVE SmoothInv'
    <3>1. SmoothInv
      BY <1>2, <2>5 DEF ClientInv
    <3>2. /\ Renewing = {t} /\ store.refresh \in Pairs /\ renewal[t].token = store.refresh
          /\ renewal[t].reply = Absent /\ signIn[store.refresh] \in left
      BY <1>2, <1>3, <1>4, <3>1 DEF SmoothInv, RenewalInv, Alive
    <3>3. /\ renewal'[t] = [renewal[t] EXCEPT !.phase = "answered"]
          /\ \A u \in Tabs \ {t} : renewal'[u] = renewal[u]
      BY <1>1, <2>1 DEF ClientTypeOK
    <3>4. /\ renewal'[t].phase = "answered" /\ renewal'[t].reply = Absent
          /\ renewal'[t].token = store.refresh
      BY <1>3, <3>2, <3>3 DEF RenewalRows
    <3>5. Renewing' = {t} /\ Pairs' = Pairs
      BY <2>1, <3>2, <3>3, <3>4, SamePairs DEF Renewing
    <3>6. ASSUME NEW u \in Tabs PROVE RenewalInv(u)'
      BY <1>2, <2>1, <3>2, <3>4, <3>5 DEF RenewalInv
    <3>7. ASSUME NEW u \in Tabs PROVE LeavingInv(u)'
      BY <1>2, <2>1, <3>1, <3>5 DEF SmoothInv, LeavingInv
    <3> QED
      BY <1>2, <2>1, <3>1, <3>5, <3>6, <3>7 DEF SmoothInv
  <2> QED
    BY <2>4, <2>5 DEF ClientInv
<1>5. CASE renewal[t].token \in live
  <2> DEFINE login == signIn[renewal[t].token]
             new == Len(signIn')
  <2>1. /\ signIn' = Append(signIn, login)
        /\ live' = (live \ {renewal[t].token}) \cup {new}
        /\ fresh' = fresh \cup {new}
        /\ renewal' = [renewal EXCEPT ![t].phase = "answered", ![t].reply = new]
    BY <1>5 DEF Renew
  <2>2. renewal[t].token \in Pairs /\ login \in Nat /\ login \in Logins
    <3>1. renewal[t].token \in Pairs /\ signIn \in Seq(Nat)
      BY <1>1, <1>5 DEF ClientTypeOK
    <3>2. login \in Nat
      BY <3>1 DEF Pairs
    <3> QED
      BY <3>1, <3>2 DEF Logins
  <2> HIDE DEF login
  <2>3. /\ signIn' \in Seq(Nat) /\ new \in Nat /\ new \notin Pairs
        /\ Pairs' = Pairs \cup {new} /\ signIn'[new] = login
        /\ \A n \in Pairs : signIn'[n] = signIn[n]
        /\ Logins' = Logins \cup {login} /\ new \in Tokens'
        /\ RenewalRows \subseteq RenewalRows'
    BY <1>1, <2>1, <2>2, PairIssued DEF ClientTypeOK
  <2>4. Logins' = Logins
    BY <2>2, <2>3
  <2>5. /\ store' \in StoredPairs' /\ DOMAIN calls' = Tabs
        /\ \A u \in Tabs : calls'[u] \in [Calls(u) -> CallRows']
        /\ leaving' \in [Tabs -> LeavingRows']
    BY <1>1, <1>2, <2>1, <2>2, MorePairs
  <2> HIDE DEF new
  <2>6. [renewal[t] EXCEPT !.phase = "answered", !.reply = new] \in RenewalRows'
    <3>1. renewal[t] \in RenewalRows'
      BY <1>3, <2>3
    <3> QED
      BY <2>3, <3>1 DEF RenewalRows
  <2>7. renewal' \in [Tabs -> RenewalRows']
    <3>1. renewal \in [Tabs -> RenewalRows']
      BY <1>1, <2>3 DEF ClientTypeOK
    <3> QED
      BY <2>1, <2>6, <3>1
  <2>8. ClientTypeOK'
    <3>1. live' \subseteq Pairs' /\ fresh' \subseteq Pairs'
      BY <1>1, <2>1, <2>3 DEF ClientTypeOK
    <3> QED
      BY <1>1, <1>2, <2>3, <2>4, <2>5, <2>7, <3>1 DEF ClientTypeOK
  <2>9. ASSUME mishaps' = {} PROVE SmoothInv'
    <3>1. SmoothInv
      BY <1>2, <2>9 DEF ClientInv
    <3>2. /\ Renewing = {t} /\ store.refresh \in Pairs /\ renewal[t].token = store.refresh
          /\ login = signIn[store.refresh]
      BY <1>2, <1>3, <3>1 DEF SmoothInv, RenewalInv, login
    <3>3. /\ renewal'[t] = [renewal[t] EXCEPT !.phase = "answered", !.reply = new]
          /\ \A u \in Tabs \ {t} : renewal'[u] = renewal[u]
      BY <1>1, <2>1 DEF ClientTypeOK
    <3>4. /\ renewal'[t].phase = "answered" /\ renewal'[t].reply = new
          /\ renewal'[t].token = store.refresh
      BY <1>3, <3>2, <3>3 DEF RenewalRows
    <3>5. Renewing' = {t}
      BY <3>2, <3>3, <3>4 DEF Renewing
    <3>6. /\ new # Absent /\ new \in fresh' /\ new \in live'
          /\ signIn'[new] = signIn'[store.refresh] /\ store.refresh \in Pairs'
      BY <2>1, <2>3, <3>2, ClientConstants
    <3>7. ASSUME NEW u \in Tabs PROVE RenewalInv(u)'
      BY <1>2, <3>4, <3>5, <3>6 DEF RenewalInv, Alive
    <3>8. signIn'[store.refresh] = signIn[store.refresh]
      BY <2>3, <3>2
    <3>9. ASSUME NEW u \in Tabs PROVE LeavingInv(u)'
      BY <1>2, <2>3, <3>1, <3>8 DEF SmoothInv, LeavingInv
    <3>10. \A u \in Tabs : \A c \in Calls(u) :
              calls'[u][c].phase = "retried" => calls'[u][c].token \in fresh'
      BY <1>2, <2>1, <3>1 DEF SmoothInv
    <3> QED
      BY <1>2, <3>1, <3>5, <3>7, <3>8, <3>9, <3>10 DEF SmoothInv
  <2> QED
    BY <2>8, <2>9 DEF ClientInv
<1> QED
  BY <1>4, <1>5

\* The answer is stored, and what waited for it is sent again or fails.
LEMMA RenewedInv ==
    ASSUME ClientInv, NEW t \in Tabs, Renewed(t)
    PROVE  ClientInv'
<1> DEFINE reply == renewal[t].reply
           After(call) ==
               IF call.phase # "waiting" THEN call
               ELSE IF reply = Absent THEN Idle ELSE [phase |-> "retried", token |-> reply]
<1>1. ClientTypeOK
  BY DEF ClientInv
<1>2. /\ renewal[t].phase = "answered" /\ store' = Pair(reply)
      /\ calls' = [calls EXCEPT ![t] = [c \in Calls(t) |-> After(calls[t][c])]]
      /\ page' = [page EXCEPT ![t] = IF reply = Absent THEN Expired ELSE @]
      /\ renewal' = [renewal EXCEPT ![t] = NoRenewal]
      /\ UNCHANGED <<live, fresh, signIn, leaving, left, mishaps>>
  <2>1. calls' = [calls EXCEPT ![t] = [c \in Calls(t) |-> After(@[c])]]
    BY DEF Renewed
  <2> QED
    BY <2>1 DEF Renewed, serverVars, historyOfClient
<1>3. t \in Renewing /\ reply \in Tokens
  BY <1>1, <1>2 DEF Renewing, ClientTypeOK, RenewalRows
<1>4. \A x \in CallRows : After(x) \in CallRows
  BY <1>3, EmptyRows DEF CallRows
<1>5. \A x \in CallRows : After(x).phase = "retried" =>
          After(x) = x \/ (After(x).token = reply /\ reply # Absent)
  BY EmptyRows
<1>6. store' \in StoredPairs /\ store'.access = reply /\ store'.refresh = reply
  BY <1>2, <1>3 DEF StoredPairs, Pair
<1> HIDE DEF After, reply
<1>7. /\ DOMAIN calls' = Tabs
      /\ \A c \in Calls(t) : calls'[t][c] = After(calls[t][c])
      /\ \A u \in Tabs \ {t} : calls'[u] = calls[u]
      /\ calls'[t] \in [Calls(t) -> CallRows]
  BY <1>1, <1>2, <1>4 DEF ClientTypeOK
<1>8. page' \in [Tabs -> PageRows] /\ renewal' \in [Tabs -> RenewalRows]
  BY <1>1, <1>2, EmptyRows DEF ClientTypeOK
<1>9. ClientTypeOK'
  <2>1. \A u \in Tabs : calls'[u] \in [Calls(u) -> CallRows]
    BY <1>1, <1>7 DEF ClientTypeOK
  <2> QED
    BY <1>1, <1>2, <1>6, <1>7, <1>8, <2>1, SamePairs DEF ClientTypeOK
<1>10. ASSUME mishaps' = {} PROVE SmoothInv'
  <2>1. SmoothInv
    BY <1>2, <1>10 DEF ClientInv
  <2>2. /\ Renewing = {t} /\ store.refresh \in Pairs
        /\ IF reply = Absent THEN signIn[store.refresh] \in left
           ELSE reply \in fresh /\ Alive(reply) /\ signIn[reply] = signIn[store.refresh]
    BY <1>2, <1>3, <2>1 DEF SmoothInv, RenewalInv, reply
  <2>3. store.refresh # Absent
    BY <2>2, PairsAreNumbers
  <2>4. renewal'[t] = NoRenewal /\ \A u \in Tabs \ {t} : renewal'[u] = renewal[u]
    BY <1>1, <1>2 DEF ClientTypeOK
  <2>5. Renewing' = {}
    BY <2>2, <2>4, EmptyRows DEF Renewing
  <2>6. ASSUME NEW u \in Tabs PROVE RenewalInv(u)'
    BY <2>5 DEF RenewalInv
  <2>7. ASSUME NEW u \in Tabs PROVE LeavingInv(u)'
    BY <1>2, <1>6, <2>1, <2>2, <2>3, SamePairs DEF SmoothInv, LeavingInv
  <2>8. ASSUME NEW u \in Tabs, NEW c \in Calls(u), calls'[u][c].phase = "retried"
        PROVE  calls'[u][c].token \in fresh'
    <3>1. calls[u][c] \in CallRows
      BY <1>1 DEF ClientTypeOK
    <3>2. calls[u][c].phase = "retried" => calls[u][c].token \in fresh
      BY <2>1 DEF SmoothInv
    <3>3. CASE u = t
      <4>1. calls'[u][c] = After(calls[u][c])
        BY <1>7, <3>3
      <4>2. \/ After(calls[u][c]) = calls[u][c]
            \/ After(calls[u][c]).token = reply /\ reply # Absent
        BY <1>5, <2>8, <3>1, <4>1
      <4> QED
        BY <1>2, <2>2, <2>8, <3>2, <4>1, <4>2
    <3>4. CASE u # t
      BY <1>2, <1>7, <2>8, <3>2, <3>4
    <3> QED
      BY <3>3, <3>4
  <2>9. store'.refresh # Absent =>
            store'.refresh \in live' \/ signIn'[store'.refresh] \in left'
    BY <1>2, <1>6, <2>2 DEF Alive
  <2>10. (\A u \in Tabs : leaving'[u] = Staying) /\ store'.refresh # Absent =>
             signIn'[store'.refresh] \notin left'
    BY <1>2, <1>6, <2>1, <2>2, <2>3 DEF SmoothInv
  <2> QED
    BY <1>6, <2>5, <2>6, <2>7, <2>8, <2>9, <2>10 DEF SmoothInv, Alive
<1> QED
  BY <1>9, <1>10 DEF ClientInv

\* A user who signs in gets a pair of a sign-in of its own.
LEMMA SignInInv ==
    ASSUME ClientInv, NEW t \in Tabs, SignIn(t)
    PROVE  ClientInv' /\ store'.refresh # Absent
<1> DEFINE login == 1 + Cardinality(Logins)
           new == Len(signIn')
           contended == Renewing # {} \/ \E u \in Tabs : leaving[u] # Staying
<1>1. ClientTypeOK
  BY DEF ClientInv
<1>2. PICK k \in Nat : Logins = 1..k
  BY <1>1 DEF ClientTypeOK
<1>3. login = k + 1 /\ login \in Nat /\ login \notin Logins /\ Logins \cup {login} = 1..(k + 1)
  <2>1. Cardinality(1..k) = k
    <3>1. Cardinality(1..k) = IF 1 > k THEN 0 ELSE k - 1 + 1
      BY <1>2, FS_Interval
    <3> QED
      BY <1>2, <3>1
  <2>2. login = k + 1
    BY <1>2, <2>1
  <2> QED
    BY <1>2, <2>2
<1>4. /\ signIn' = Append(signIn, login)
      /\ live' = live \cup {new} /\ fresh' = fresh \cup {new}
      /\ store' = Pair(new)
      /\ page' = [page EXCEPT ![t] = [signedIn |-> TRUE, expired |-> FALSE]]
      /\ mishaps' = IF contended THEN mishaps \cup {"contended"} ELSE mishaps
      /\ UNCHANGED <<calls, renewal, leaving, left>>
  BY DEF SignIn, Issue, Mishap, Logins
<1> HIDE DEF login, contended
<1>5. /\ signIn' \in Seq(Nat) /\ new \in Nat /\ new \notin Pairs
      /\ Pairs' = Pairs \cup {new} /\ signIn'[new] = login
      /\ \A n \in Pairs : signIn'[n] = signIn[n]
      /\ Logins' = Logins \cup {login} /\ new \in Tokens'
      /\ CallRows \subseteq CallRows' /\ RenewalRows \subseteq RenewalRows'
      /\ LeavingRows \subseteq LeavingRows'
  BY <1>1, <1>3, <1>4, PairIssued DEF ClientTypeOK
<1> HIDE DEF new
<1>6. /\ store' \in StoredPairs' /\ store'.access = new /\ store'.refresh = new
      /\ new # Absent
  BY <1>4, <1>5, ClientConstants DEF StoredPairs, Pair
<1>7. ClientTypeOK'
  <2>1. live' \subseteq Pairs' /\ fresh' \subseteq Pairs' /\ left' \subseteq Logins'
    BY <1>1, <1>4, <1>5 DEF ClientTypeOK
  <2>2. page' \in [Tabs -> PageRows]
    BY <1>1, <1>4 DEF ClientTypeOK, PageRows
  <2>3. /\ DOMAIN calls' = Tabs
        /\ \A u \in Tabs : calls'[u] \in [Calls(u) -> CallRows']
    BY <1>1, <1>4, <1>5 DEF ClientTypeOK
  <2>4. renewal' \in [Tabs -> RenewalRows'] /\ leaving' \in [Tabs -> LeavingRows']
    BY <1>1, <1>4, <1>5 DEF ClientTypeOK
  <2>5. mishaps' \subseteq {"lost", "ended", "slow", "contended"}
    BY <1>1, <1>4 DEF ClientTypeOK
  <2>6. \E j \in Nat : Logins' = 1..j
    <3>1. Logins' = 1..(k + 1) /\ k + 1 \in Nat
      BY <1>2, <1>3, <1>5
    <3> QED
      BY <3>1
  <2> QED
    BY <1>5, <1>6, <2>1, <2>2, <2>3, <2>4, <2>5, <2>6 DEF ClientTypeOK
<1>8. ASSUME mishaps' = {} PROVE SmoothInv'
  <2>1. mishaps = {} /\ SmoothInv /\ Renewing = {} /\ \A u \in Tabs : leaving[u] = Staying
    BY <1>4, <1>8 DEF ClientInv, contended
  <2>2. Renewing' = {}
    BY <1>4, <2>1 DEF Renewing
  <2>3. ASSUME NEW u \in Tabs PROVE RenewalInv(u)' /\ LeavingInv(u)'
    BY <1>4, <2>1, <2>2 DEF RenewalInv, LeavingInv
  <2>4. \A u \in Tabs : \A c \in Calls(u) :
            calls'[u][c].phase = "retried" => calls'[u][c].token \in fresh'
    BY <1>4, <2>1 DEF SmoothInv
  <2>5. signIn'[new] \notin left' /\ new \in live'
    BY <1>1, <1>3, <1>4, <1>5 DEF ClientTypeOK
  <2> QED
    BY <1>6, <2>2, <2>3, <2>4, <2>5 DEF SmoothInv, Alive
<1> QED
  BY <1>6, <1>7, <1>8 DEF ClientInv

\* A user asks to end the session of the pair in the storage.
LEMMA SignOutInv ==
    ASSUME ClientInv, NEW t \in Tabs, SignOut(t)
    PROVE  ClientInv'
<1> DEFINE asking == [phase |-> IF store.access = Absent THEN "answered" ELSE "asked",
                      access |-> store.access, refresh |-> store.refresh]
<1>1. ClientTypeOK
  BY DEF ClientInv
<1>2. /\ leaving' = [leaving EXCEPT ![t] = asking]
      /\ left' = IF store.access = Absent THEN left ELSE left \cup {signIn[store.access]}
      /\ mishaps' = IF Renewing # {} THEN mishaps \cup {"contended"} ELSE mishaps
      /\ UNCHANGED <<store, live, fresh, signIn, page, calls, renewal>>
  BY DEF SignOut, Mishap, serverVars
<1>3. store.access \in Tokens /\ store.refresh \in Tokens
  BY <1>1 DEF ClientTypeOK, StoredPairs
<1>4. /\ asking \in LeavingRows /\ asking.refresh = store.refresh /\ asking # Staying
      /\ asking.phase = "asked" => store.access # Absent
  BY <1>3 DEF LeavingRows, Staying
<1> HIDE DEF asking
<1>5. /\ leaving' \in [Tabs -> LeavingRows] /\ leaving'[t] = asking
      /\ \A u \in Tabs \ {t} : leaving'[u] = leaving[u]
  BY <1>1, <1>2, <1>4 DEF ClientTypeOK
<1>6. store.access # Absent => signIn[store.access] \in Logins
  BY <1>3 DEF Tokens, Logins
<1>7. ClientTypeOK'
  <2>1. left' \subseteq Logins
    BY <1>1, <1>2, <1>6 DEF ClientTypeOK
  <2>2. mishaps' \subseteq {"lost", "ended", "slow", "contended"}
    BY <1>1, <1>2 DEF ClientTypeOK
  <2> QED
    BY <1>1, <1>2, <1>5, <2>1, <2>2, SamePairs DEF ClientTypeOK
<1>8. ASSUME mishaps' = {} PROVE SmoothInv'
  <2>1. mishaps = {} /\ SmoothInv /\ Renewing = {} /\ store.access = store.refresh
    BY <1>2, <1>8 DEF ClientInv, SmoothInv
  <2>2. Renewing' = {} /\ Pairs' = Pairs
    BY <1>2, <2>1, SamePairs DEF Renewing
  <2>3. store.refresh # Absent => signIn[store.refresh] \in left' /\ store.refresh \in Pairs
    BY <1>2, <1>3, <2>1 DEF Tokens
  <2>4. left \subseteq left'
    BY <1>2
  <2>5. ASSUME NEW u \in Tabs PROVE LeavingInv(u)'
    BY <1>2, <1>4, <1>5, <2>1, <2>2, <2>3, <2>4 DEF SmoothInv, LeavingInv
  <2>6. ASSUME NEW u \in Tabs PROVE RenewalInv(u)'
    BY <2>2 DEF RenewalInv
  <2> QED
    BY <1>2, <1>4, <1>5, <2>1, <2>2, <2>3, <2>5, <2>6 DEF SmoothInv, Alive
<1> QED
  BY <1>7, <1>8 DEF ClientInv

\* The server ends the session, or does not.
LEMMA SignOutHandledInv ==
    ASSUME ClientInv, NEW t \in Tabs, SignOutHandled(t)
    PROVE  ClientInv'
<1>1. ClientTypeOK
  BY DEF ClientInv
<1>2. /\ leaving[t].phase = "asked"
      /\ leaving' = [leaving EXCEPT ![t].phase = "answered"]
      /\ live' = live \/ live' = live \ {leaving[t].refresh}
      /\ UNCHANGED <<store, fresh, signIn, page, calls, renewal, left, mishaps>>
  BY DEF SignOutHandled, historyOfClient
<1>3. leaving[t] \in LeavingRows /\ leaving[t] # Staying
  BY <1>1, <1>2, EmptyRows DEF ClientTypeOK
<1>4. /\ [leaving[t] EXCEPT !.phase = "answered"] \in LeavingRows
      /\ [leaving[t] EXCEPT !.phase = "answered"].phase = "answered"
  BY <1>3 DEF LeavingRows
<1>5. /\ leaving' \in [Tabs -> LeavingRows] /\ leaving'[t].phase = "answered"
      /\ \A u \in Tabs \ {t} : leaving'[u] = leaving[u]
  BY <1>1, <1>2, <1>4 DEF ClientTypeOK
<1>6. live' \subseteq Pairs
  BY <1>1, <1>2 DEF ClientTypeOK
<1>7. ClientTypeOK'
  BY <1>1, <1>2, <1>5, <1>6, SamePairs DEF ClientTypeOK
<1>8. ASSUME mishaps' = {} PROVE SmoothInv'
  <2>1. mishaps = {} /\ SmoothInv
    BY <1>2, <1>8 DEF ClientInv
  <2>2. leaving[t].refresh \in Pairs /\ signIn[leaving[t].refresh] \in left
    BY <1>2, <1>3, <2>1 DEF SmoothInv, LeavingInv
  <2>3. \A n : (n \in live \/ signIn[n] \in left) => (n \in live' \/ signIn'[n] \in left')
    BY <1>2, <2>2
  <2>4. Renewing' = Renewing /\ Pairs' = Pairs
    BY <1>2, SamePairs DEF Renewing
  <2>5. ASSUME NEW u \in Tabs PROVE RenewalInv(u)'
    BY <1>2, <2>1, <2>3, <2>4 DEF SmoothInv, RenewalInv, Alive
  <2>6. ASSUME NEW u \in Tabs PROVE LeavingInv(u)'
    BY <1>2, <1>3, <1>5, <2>1, <2>4 DEF SmoothInv, LeavingInv
  <2>7. leaving'[t] # Staying
    BY <1>5, EmptyRows
  <2> QED
    BY <1>2, <2>1, <2>3, <2>4, <2>5, <2>6, <2>7 DEF SmoothInv, Alive
<1> QED
  BY <1>7, <1>8 DEF ClientInv

\* The storage is emptied.
LEMMA SignedOutInv ==
    ASSUME ClientInv, NEW t \in Tabs, SignedOut(t)
    PROVE  ClientInv'
<1>1. ClientTypeOK
  BY DEF ClientInv
<1>2. /\ store' = NoPair
      /\ page' = [page EXCEPT ![t] = [signedIn |-> FALSE, expired |-> FALSE]]
      /\ leaving' = [leaving EXCEPT ![t] = Staying]
      /\ mishaps' = IF Renewing # {} THEN mishaps \cup {"contended"} ELSE mishaps
      /\ UNCHANGED <<live, fresh, signIn, calls, renewal, left>>
  BY DEF SignedOut, Emptied, Mishap, serverVars
<1>3. /\ leaving' \in [Tabs -> LeavingRows] /\ leaving'[t] = Staying
      /\ page' \in [Tabs -> PageRows]
  BY <1>1, <1>2, EmptyRows DEF ClientTypeOK, PageRows
<1>4. mishaps' \subseteq {"lost", "ended", "slow", "contended"}
  BY <1>1, <1>2 DEF ClientTypeOK
<1>5. ClientTypeOK'
  BY <1>1, <1>2, <1>3, <1>4, EmptyRows, SamePairs DEF ClientTypeOK
<1>6. ASSUME mishaps' = {} PROVE SmoothInv'
  <2>1. mishaps = {} /\ SmoothInv /\ Renewing = {}
    BY <1>2, <1>6 DEF ClientInv
  <2>2. Renewing' = {} /\ Pairs' = Pairs /\ store'.refresh = Absent /\ store'.access = Absent
    BY <1>2, <2>1, EmptyRows, SamePairs DEF Renewing
  <2>3. ASSUME NEW u \in Tabs PROVE LeavingInv(u)'
    <3>1. leaving'[u] = Staying \/ leaving'[u] = leaving[u]
      BY <1>1, <1>2 DEF ClientTypeOK
    <3> QED
      BY <1>2, <2>1, <2>2, <3>1 DEF SmoothInv, LeavingInv
  <2>4. ASSUME NEW u \in Tabs PROVE RenewalInv(u)'
    BY <2>2 DEF RenewalInv
  <2> QED
    BY <1>2, <2>1, <2>2, <2>3, <2>4 DEF SmoothInv
<1> QED
  BY <1>5, <1>6 DEF ClientInv

\* A page that is loaded anew forgets what it has asked for.
LEMMA ReloadInv ==
    ASSUME ClientInv, NEW t \in Tabs, Reload(t)
    PROVE  ClientInv'
<1> DEFINE here == store.access # Absent
           start == [c \in Calls(t) |->
                        IF here /\ c = Profile
                        THEN [phase |-> "sent", token |-> store.access] ELSE Idle]
<1>1. ClientTypeOK
  BY DEF ClientInv
<1>2. /\ page' = [page EXCEPT ![t] = [signedIn |-> here, expired |-> FALSE]]
      /\ calls' = [calls EXCEPT ![t] = start]
      /\ renewal' = [renewal EXCEPT ![t] = NoRenewal]
      /\ leaving' = [leaving EXCEPT ![t] = Staying]
      /\ mishaps' = IF t \in Renewing \/ leaving[t] # Staying THEN mishaps \cup {"lost"}
                    ELSE mishaps
      /\ UNCHANGED <<store, live, fresh, signIn, left>>
  BY DEF Reload, Mishap, serverVars
<1>3. start \in [Calls(t) -> CallRows] /\ \A c \in Calls(t) : start[c].phase # "retried"
  <2>1. [phase |-> "sent", token |-> store.access] \in CallRows
    BY <1>1 DEF ClientTypeOK, StoredPairs, CallRows
  <2> QED
    BY <2>1, EmptyRows
<1>4. [signedIn |-> here, expired |-> FALSE] \in PageRows
  BY DEF PageRows
<1> HIDE DEF here, start
<1>5. /\ DOMAIN calls' = Tabs /\ calls'[t] = start
      /\ \A u \in Tabs \ {t} : calls'[u] = calls[u]
  BY <1>1, <1>2 DEF ClientTypeOK
<1>6. ClientTypeOK'
  <2>1. \A u \in Tabs : calls'[u] \in [Calls(u) -> CallRows]
    BY <1>1, <1>3, <1>5 DEF ClientTypeOK
  <2>2. page' \in [Tabs -> PageRows]
    BY <1>1, <1>2, <1>4 DEF ClientTypeOK
  <2>3. renewal' \in [Tabs -> RenewalRows] /\ leaving' \in [Tabs -> LeavingRows]
    BY <1>1, <1>2, EmptyRows DEF ClientTypeOK
  <2>4. mishaps' \subseteq {"lost", "ended", "slow", "contended"}
    BY <1>1, <1>2 DEF ClientTypeOK
  <2> QED
    BY <1>1, <1>2, <1>5, <2>1, <2>2, <2>3, <2>4, SamePairs DEF ClientTypeOK
<1>7. ASSUME mishaps' = {} PROVE SmoothInv'
  <2>1. mishaps = {} /\ SmoothInv /\ t \notin Renewing /\ leaving[t] = Staying
    BY <1>2, <1>7 DEF ClientInv
  <2>2. leaving' = leaving
    BY <1>1, <1>2, <2>1 DEF ClientTypeOK
  <2>3. \A u \in Tabs : u \in Renewing' <=> u \in Renewing
    BY <1>1, <1>2, <2>1, EmptyRows DEF Renewing, ClientTypeOK
  <2>4. Renewing' = Renewing /\ Pairs' = Pairs
    BY <1>2, <2>3, SamePairs DEF Renewing
  <2>5. ASSUME NEW u \in Tabs PROVE RenewalInv(u)'
    <3>1. u # t => renewal'[u] = renewal[u]
      BY <1>1, <1>2 DEF ClientTypeOK
    <3> QED
      BY <1>2, <2>1, <2>4, <3>1 DEF SmoothInv, RenewalInv, Alive
  <2>6. ASSUME NEW u \in Tabs PROVE LeavingInv(u)'
    BY <1>2, <2>1, <2>2, <2>4 DEF SmoothInv, LeavingInv
  <2>7. \A u \in Tabs : \A c \in Calls(u) :
            calls'[u][c].phase = "retried" => calls'[u][c].token \in fresh'
    BY <1>2, <1>3, <1>5, <2>1 DEF SmoothInv
  <2> QED
    BY <1>2, <2>1, <2>2, <2>4, <2>5, <2>6, <2>7 DEF SmoothInv, Alive
<1> QED
  BY <1>6, <1>7 DEF ClientInv

\* Every step keeps the invariant.
LEMMA ClientStep == ClientInv /\ [ClientNext]_clientVars => ClientInv'
<1> SUFFICES ASSUME ClientInv, [ClientNext]_clientVars PROVE ClientInv'
  OBVIOUS
<1>1. CASE UNCHANGED clientVars
  <2>1. ClientTypeOK'
    BY <1>1, SamePairs DEF clientVars, ClientInv, ClientTypeOK
  <2>2. ASSUME mishaps' = {} PROVE SmoothInv'
    BY <1>1, <2>2, SameSession DEF clientVars, ClientInv, SmoothInv
  <2> QED
    BY <2>1, <2>2 DEF ClientInv
<1>2. CASE \E n \in Pairs : AccessExpires(n) \/ EndedElsewhere(n)
  BY <1>2, AccessExpiresInv, EndedElsewhereInv
<1>3. ASSUME NEW t \in Tabs, NEW c \in Calls(t),
             Begin(t, c) \/ Accepted(t, c) \/ Fails(t, c) \/ RefusedOnce(t, c)
      PROVE  ClientInv'
  BY <1>3, BeginInv, FailsInv, RefusedOnceInv
<1>4. ASSUME NEW t \in Tabs, Renew(t) \/ RenewalLost(t) \/ Renewed(t)
      PROVE  ClientInv'
  BY <1>4, RenewInv, RenewalLostInv, RenewedInv
<1>5. ASSUME NEW t \in Tabs,
             SignIn(t) \/ SignOut(t) \/ SignOutHandled(t) \/ SignedOut(t) \/ Reload(t)
      PROVE  ClientInv'
  BY <1>5, SignInInv, SignOutInv, SignOutHandledInv, SignedOutInv, ReloadInv
<1> QED
  BY <1>1, <1>2, <1>3, <1>4, <1>5 DEF ClientNext

\* The strengthening of both properties of the browser's session.
LEMMA ClientInvariance == ClientSpec => []ClientInv
<1> QED
  BY ClientInitInv, ClientStep, PTL DEF ClientSpec

\* Type correctness of the browser's session, for every number of tabs and requests.
THEOREM ClientTypeCorrect == ClientSpec => []ClientTypeOK
<1>1. ClientInv => ClientTypeOK
  BY DEF ClientInv
<1> QED
  BY <1>1, ClientInvariance, PTL

\* Without a mishap, once no tab is signing out, the storage holds no pair of a session
\* the user has signed out of, whether or not the server has ended it.
THEOREM SignOutAlwaysHolds == ClientSpec => []SignOutHolds
<1>1. ClientInv => SignOutHolds
  BY DEF ClientInv, SmoothInv, SignOutHolds
<1> QED
  BY <1>1, ClientInvariance, PTL

\* A step that empties the storage, when nothing has gone wrong, empties it of a session
\* the user has signed out of.
LEMMA ClientKeeps ==
    ClientInv /\ [ClientNext]_clientVars =>
        [store.refresh # Absent /\ store'.refresh = Absent /\ mishaps' = {}
             => signIn[store.refresh] \in left]_clientVars
<1> SUFFICES ASSUME ClientInv, ClientNext, mishaps' = {},
                    store.refresh # Absent, store'.refresh = Absent
             PROVE  signIn[store.refresh] \in left
  OBVIOUS
<1>1. mishaps = {} /\ ~UNCHANGED store
  <2>1. \A what, if : Mishap(what, if) => mishaps \subseteq mishaps'
    BY DEF Mishap
  <2>2. ASSUME NEW n \in Pairs, AccessExpires(n) \/ EndedElsewhere(n)
        PROVE  mishaps \subseteq mishaps'
    BY <2>1, <2>2 DEF AccessExpires, EndedElsewhere, historyOfClient
  <2>3. ASSUME NEW t \in Tabs, NEW c \in Calls(t),
               Begin(t, c) \/ Accepted(t, c) \/ Fails(t, c) \/ RefusedOnce(t, c)
        PROVE  mishaps \subseteq mishaps'
    BY <2>1, <2>3 DEF Begin, Accepted, Fails, RefusedOnce, historyOfClient
  <2>4. ASSUME NEW t \in Tabs, Renew(t) \/ RenewalLost(t) \/ Renewed(t)
        PROVE  mishaps \subseteq mishaps'
    BY <2>1, <2>4 DEF Renew, RenewalLost, Renewed, historyOfClient
  <2>5. ASSUME NEW t \in Tabs,
               SignIn(t) \/ SignOut(t) \/ SignOutHandled(t) \/ SignedOut(t) \/ Reload(t)
        PROVE  mishaps \subseteq mishaps'
    BY <2>1, <2>5 DEF SignIn, SignOut, SignOutHandled, SignedOut, Reload, historyOfClient
  <2>6. mishaps \subseteq mishaps'
    BY <2>2, <2>3, <2>4, <2>5 DEF ClientNext
  <2>7. store' # store
    BY Zenon
  <2> QED
    BY <2>6, <2>7
<1>2. SmoothInv /\ ClientTypeOK
  BY <1>1 DEF ClientInv
<1>3. ASSUME NEW t \in Tabs, NEW c \in Calls(t), Fails(t, c) PROVE FALSE
  <2>1. calls[t][c].phase = "retried" /\ calls[t][c].token \notin fresh
    BY <1>1, <1>3 DEF Fails, Mishap, Refused
  <2> QED
    BY <1>2, <2>1 DEF SmoothInv
<1>4. ASSUME NEW t \in Tabs, NEW c \in Calls(t), RefusedOnce(t, c) PROVE FALSE
  BY <1>1, <1>4 DEF RefusedOnce
<1>5. ASSUME NEW t \in Tabs, Renewed(t) PROVE signIn[store.refresh] \in left
  <2>1. renewal[t].phase = "answered" /\ store'.refresh = renewal[t].reply
    BY <1>5 DEF Renewed, Pair
  <2>2. t \in Renewing
    BY <2>1 DEF Renewing
  <2> QED
    BY <1>2, <2>1, <2>2 DEF SmoothInv, RenewalInv
<1>6. ASSUME NEW t \in Tabs, SignIn(t) PROVE FALSE
  BY <1>6, SignInInv
<1>7. ASSUME NEW t \in Tabs, SignedOut(t) PROVE signIn[store.refresh] \in left
  <2>1. leaving[t] # Staying
    BY <1>7, EmptyRows DEF SignedOut
  <2> QED
    BY <1>2, <2>1 DEF SmoothInv, LeavingInv
<1>8. \/ \E t \in Tabs : Renewed(t) \/ SignIn(t) \/ SignedOut(t)
      \/ \E t \in Tabs : \E c \in Calls(t) : Fails(t, c) \/ RefusedOnce(t, c)
  BY <1>1 DEF ClientNext, AccessExpires, EndedElsewhere, Begin, Accepted, Renew, RenewalLost,
              SignOut, SignOutHandled, Reload
<1> QED
  BY <1>3, <1>4, <1>5, <1>6, <1>7, <1>8

\* Without a mishap a session leaves the storage only for a user who has signed out of
\* it, however many requests are refused in whatever order.
THEOREM SessionIsAlwaysKept == ClientSpec => SessionIsKept
<1> QED
  BY ClientInvariance, ClientKeeps, PTL DEF ClientSpec, SessionIsKept
=============================================================================
