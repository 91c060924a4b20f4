-------------------------- MODULE RefreshSessions --------------------------
(***************************************************************************)
(* Refresh-token sessions of one account: sign-in, rotation, logout,       *)
(* revocation of one or all sessions, MFA reset and password reset, run by *)
(* concurrent HTTP requests.  services/auth_service.py, the repository     *)
(* functions it calls, and the per-request transaction of                  *)
(* database/session.py.                                                    *)
(*                                                                         *)
(* A request is one database transaction at READ COMMITTED.  What it has   *)
(* written is invisible until Commit; until then it holds the row lock of  *)
(* every session it updated and the unique index entry of every blacklist  *)
(* row it inserted, and another request that wants either one waits.  The  *)
(* answer leaves before the commit: the code after the yield of            *)
(* get_db_session runs when the response has been sent.                    *)
(***************************************************************************)
EXTENDS Integers, FiniteSets

CONSTANTS
    Requests,       \* request slots, each serving one request at a time
    Tokens,         \* refresh tokens that can ever be minted, in order
    NoToken,        \* the parent of a token that a sign-in minted
    ShortLived,     \* tokens old enough to expire while requests run
    CommitMayFail   \* may the database lose a transaction at its commit?

ASSUME TokensAreOrdered == Tokens \subseteq Int
ASSUME NoTokenIsNone == NoToken \notin Tokens
ASSUME ShortLivedAreTokens == ShortLived \subseteq Tokens
ASSUME CommitMayFailIsFlag == CommitMayFail \in BOOLEAN

VARIABLES
    session,    \* committed session rows: absent, active or why revoked
    blacklist,  \* committed blacklist rows: absent or the reason
    expired,    \* tokens past their expiry
    issued,     \* tokens that an answer has handed to the client
    parent,     \* history: the token each issued token was rotated from
    lost,       \* history: issued tokens whose transaction rolled back
    op, pc,     \* what each request is doing, and how far it is
    rows,       \* session rows the request loaded and will revoke
    subject,    \* tokens the request will put on the blacklist
    locked,     \* session rows it has updated, so holds locked
    entered,    \* blacklist rows it has inserted and not yet committed
    minted,     \* the session row it has inserted, if any
    doomed      \* its transaction was rolled back by a flush that failed

tables == <<session, blacklist>>
history == <<issued, parent, lost>>
work == <<op, pc, rows, subject, locked, entered, minted, doomed>>
vars == <<session, blacklist, expired, issued, parent, lost,
          op, pc, rows, subject, locked, entered, minted, doomed>>

UserRevocations == {"logout", "revoke_session", "revoke_all"}
Ops == UserRevocations \cup {"login", "rotation", "mfa_reset", "password_reset"}

\* The reason column of both tables; the three ways in which the user ends a
\* session need not be told apart.
Reason(what) == IF what \in UserRevocations THEN "user" ELSE what

SessionState == {"none", "active", "rotation", "user", "mfa_reset"}
BlacklistState == {"clear", "rotation", "user"}

Blacklisted == {t \in Tokens : blacklist[t] # "clear"}

\* list_active_refresh_token_sessions_for_user
ActiveRows == {t \in Tokens : session[t] = "active" /\ t \notin expired}

Init ==
    /\ session = [t \in Tokens |-> "none"]
    /\ blacklist = [t \in Tokens |-> "clear"]
    /\ expired = {} /\ issued = {} /\ lost = {}
    /\ parent = [t \in Tokens |-> NoToken]
    /\ op = [r \in Requests |-> "login"]
    /\ pc = [r \in Requests |-> "idle"]
    /\ rows = [r \in Requests |-> {}]
    /\ subject = [r \in Requests |-> {}]
    /\ locked = [r \in Requests |-> {}]
    /\ entered = [r \in Requests |-> {}]
    /\ minted = [r \in Requests |-> {}]
    /\ doomed = [r \in Requests |-> FALSE]

-----------------------------------------------------------------------------
(* What every request shares. *)

\* A request starts a transaction: what it is, where it starts, the session
\* rows it has loaded and the tokens it will blacklist.
Start(r, what, at, loaded, revoked) ==
    /\ pc[r] = "idle"
    /\ op' = [op EXCEPT ![r] = what]
    /\ pc' = [pc EXCEPT ![r] = at]
    /\ rows' = [rows EXCEPT ![r] = loaded]
    /\ subject' = [subject EXCEPT ![r] = revoked]
    /\ UNCHANGED <<locked, entered, minted, doomed, expired>>
    /\ UNCHANGED tables
    /\ UNCHANGED history

\* The transaction is over: its locks and index entries are free again.
Finish(r) ==
    /\ op' = [op EXCEPT ![r] = "login"]
    /\ pc' = [pc EXCEPT ![r] = "idle"]
    /\ rows' = [rows EXCEPT ![r] = {}]
    /\ subject' = [subject EXCEPT ![r] = {}]
    /\ locked' = [locked EXCEPT ![r] = {}]
    /\ entered' = [entered EXCEPT ![r] = {}]
    /\ minted' = [minted EXCEPT ![r] = {}]
    /\ doomed' = [doomed EXCEPT ![r] = FALSE]
    /\ UNCHANGED expired

\* The next token never used.  Tokens are opaque, so they are named in the
\* order of minting; primary keys need not follow it, but all that LockRow
\* takes from them is that every request sorts the rows the same way.
Fresh(n) == n \in Tokens \ issued /\ \A m \in Tokens \ issued : n <= m

\* Bound: a sign-in or rotation starts only if a token is left for it and for
\* every rotation under way, so that no request stops for want of one.
TokenLeft ==
    Cardinality(Tokens \ issued) >
        Cardinality({q \in Requests : op[q] = "rotation" /\ minted[q] = {}})

\* _token_response: insert a session row for a new token and answer with it.
AnswerWithToken(r, n, from) ==
    /\ Fresh(n)
    /\ issued' = issued \cup {n}
    /\ parent' = [parent EXCEPT ![n] = from]
    /\ minted' = [minted EXCEPT ![r] = {n}]
    /\ pc' = [pc EXCEPT ![r] = "answered"]

-----------------------------------------------------------------------------
(* The first statements of each operation. *)

\* authenticate_user and verify_mfa_challenge end in _token_response.
Login(r, n) ==
    /\ pc[r] = "idle" /\ TokenLeft
    /\ AnswerWithToken(r, n, NoToken)
    /\ UNCHANGED <<session, blacklist, expired, lost, op,
                   rows, subject, locked, entered, doomed>>

\* refresh_auth_tokens: any token the client was ever given, decoded unexpired.
Refresh(r, t) ==
    /\ t \in issued \ expired /\ TokenLeft
    /\ Start(r, "rotation", "check", {}, {t})

\* logout_user with a refresh token.
Logout(r, t) ==
    /\ t \in issued \ expired
    /\ Start(r, "logout", "check", {}, {t})

\* revoke_session: 404 unless the row is active and unexpired.
RevokeSession(r, t) ==
    /\ t \in ActiveRows
    /\ Start(r, "revoke_session", "write", {t}, {t})

\* revoke_all_sessions: the rows are those one SELECT sees.
RevokeAll(r) == Start(r, "revoke_all", "write", ActiveRows, ActiveRows)

\* confirm_mfa_reset: same SELECT, but nothing goes on the blacklist.
MfaReset(r) == Start(r, "mfa_reset", "write", ActiveRows, {})

\* confirm_password_reset (and change_password): no session is loaded.
PasswordReset(r) == Start(r, "password_reset", "answered", {}, {})

-----------------------------------------------------------------------------
(* _revoke_refresh_token: two reads, then the writes. *)

\* Line 1052: a blacklisted token ends the request, with 401 for a rotation
\* and with success for a logout; neither has written anything.
CheckBlacklist(r) ==
    /\ pc[r] = "check"
    /\ UNCHANGED tables
    /\ UNCHANGED history
    /\ \/ /\ subject[r] \cap Blacklisted # {}
          /\ Finish(r)
       \/ /\ subject[r] \cap Blacklisted = {}
          /\ pc' = [pc EXCEPT ![r] = "read"]
          /\ UNCHANGED <<expired, op, rows, subject, locked, entered,
                         minted, doomed>>

\* Line 1066: a revoked or expired row is a 401; an active one is loaded for
\* the update; a missing one leaves only the blacklist to protect the token.
ReadSession(r) ==
    /\ pc[r] = "read"
    /\ UNCHANGED tables
    /\ UNCHANGED history
    /\ \E t \in subject[r] :
         \/ /\ session[t] # "none" /\ t \notin ActiveRows
            /\ Finish(r)
         \/ /\ session[t] = "none" \/ t \in ActiveRows
            /\ pc' = [pc EXCEPT ![r] = "write"]
            /\ rows' = [rows EXCEPT ![r] = {t} \cap ActiveRows]
            /\ UNCHANGED <<expired, op, subject, locked, entered,
                           minted, doomed>>

\* UPDATE of the loaded rows, in primary-key order: each waits for its lock.
\* The row is written whatever the previous holder of the lock made of it.
LockRow(r, t) ==
    /\ pc[r] = "write"
    /\ t \in rows[r] \ locked[r]
    /\ \A s \in rows[r] \ locked[r] : t <= s
    /\ \A q \in Requests : t \notin locked[q]
    /\ locked' = [locked EXCEPT ![r] = @ \cup {t}]
    /\ UNCHANGED <<op, pc, rows, subject, entered, minted, doomed, expired>>
    /\ UNCHANGED tables
    /\ UNCHANGED history

\* Mutant of MayEnter: an entry that is not committed yet does not count.
MayEnterBesideOthers(r, t) ==
    /\ pc[r] = "write"
    /\ rows[r] \subseteq locked[r]
    /\ t \in subject[r] \ entered[r]

\* The INSERT of a blacklist row is this request's turn: its updates are done
\* and no open transaction holds the index entry.
MayEnter(r, t) ==
    /\ pc[r] = "write"
    /\ rows[r] \subseteq locked[r]
    /\ t \in subject[r] \ entered[r]
    /\ \A q \in Requests : t \notin entered[q]

\* Mutant of EnterBlacklist: token_hash is not unique.
EnterBlacklistTwice(r, t) ==
    /\ MayEnter(r, t)
    /\ entered' = [entered EXCEPT ![r] = @ \cup {t}]
    /\ UNCHANGED <<op, pc, rows, subject, locked, minted, doomed, expired>>
    /\ UNCHANGED tables
    /\ UNCHANGED history

EnterBlacklist(r, t) ==
    /\ MayEnter(r, t)
    /\ t \notin Blacklisted
    /\ entered' = [entered EXCEPT ![r] = @ \cup {t}]
    /\ UNCHANGED <<op, pc, rows, subject, locked, minted, doomed, expired>>
    /\ UNCHANGED tables
    /\ UNCHANGED history

\* The unique constraint refuses the row, and the failed flush rolls the
\* whole transaction back.  A rotation answers 401.  The others swallow the
\* DuplicateRecordError: with more rows to insert the next flush raises and
\* the answer is 500, with none left the answer is success all the same.
DuplicateEntry(r, t) ==
    /\ MayEnter(r, t)
    /\ t \in Blacklisted
    /\ UNCHANGED tables
    /\ UNCHANGED history
    /\ \/ /\ op[r] = "rotation" \/ subject[r] # entered[r] \cup {t}
          /\ Finish(r)
       \/ /\ op[r] # "rotation" /\ subject[r] = entered[r] \cup {t}
          /\ pc' = [pc EXCEPT ![r] = "answered"]
          /\ doomed' = [doomed EXCEPT ![r] = TRUE]
          /\ locked' = [locked EXCEPT ![r] = {}]
          /\ entered' = [entered EXCEPT ![r] = {}]
          /\ UNCHANGED <<op, rows, subject, minted, expired>>

-----------------------------------------------------------------------------
(* The answer, then the end of the transaction. *)

Written(r) ==
    /\ pc[r] = "write"
    /\ rows[r] \subseteq locked[r]
    /\ subject[r] \subseteq entered[r]

\* refresh_auth_tokens: a new session row, then the answer.
AnswerRotation(r, n) ==
    /\ Written(r) /\ op[r] = "rotation"
    /\ \E t \in subject[r] : AnswerWithToken(r, n, t)
    /\ UNCHANGED <<session, blacklist, expired, lost, op,
                   rows, subject, locked, entered, doomed>>

\* The other operations answer with a message.
Answer(r) ==
    /\ Written(r) /\ op[r] # "rotation"
    /\ pc' = [pc EXCEPT ![r] = "answered"]
    /\ UNCHANGED <<expired, op, rows, subject, locked, entered, minted, doomed>>
    /\ UNCHANGED tables
    /\ UNCHANGED history

\* get_db_session, after the response: everything becomes visible at once.
Commit(r) ==
    /\ pc[r] = "answered" /\ ~doomed[r]
    /\ session' = [t \in Tokens |->
                     IF t \in rows[r] THEN Reason(op[r])
                     ELSE IF t \in minted[r] THEN "active" ELSE session[t]]
    /\ blacklist' = [t \in Tokens |->
                       IF t \in entered[r] THEN Reason(op[r]) ELSE blacklist[t]]
    /\ Finish(r)
    /\ UNCHANGED history

\* Mutant of CommitRaises: the blacklist is stored by itself, before the rest.
CommitRaisesInPart(r) ==
    /\ pc[r] = "answered"
    /\ doomed[r] \/ CommitMayFail
    /\ lost' = lost \cup minted[r]
    /\ blacklist' = [t \in Tokens |->
                       IF t \in entered[r] THEN Reason(op[r]) ELSE blacklist[t]]
    /\ Finish(r)
    /\ UNCHANGED <<session, issued, parent>>

\* The commit raises after the answer was sent: always when the transaction
\* was already rolled back, otherwise only if the database fails.
CommitRaises(r) ==
    /\ pc[r] = "answered"
    /\ doomed[r] \/ CommitMayFail
    /\ lost' = lost \cup minted[r]
    /\ Finish(r)
    /\ UNCHANGED <<issued, parent>>
    /\ UNCHANGED tables

\* An exception, a lost connection or a stopped server before the answer.
Abort(r) ==
    /\ pc[r] \in {"check", "read", "write"}
    /\ Finish(r)
    /\ UNCHANGED tables
    /\ UNCHANGED history

Expire(t) ==
    /\ t \in (ShortLived \cap issued) \ expired
    /\ expired' = expired \cup {t}
    /\ UNCHANGED tables
    /\ UNCHANGED history
    /\ UNCHANGED work

-----------------------------------------------------------------------------
Begin(r) ==
    \/ \E n \in Tokens : Login(r, n)
    \/ \E t \in Tokens : Refresh(r, t) \/ Logout(r, t) \/ RevokeSession(r, t)
    \/ RevokeAll(r) \/ MfaReset(r) \/ PasswordReset(r)

\* A statement of the request that does not wait for a lock.
Statement(r) ==
    \/ CheckBlacklist(r) \/ ReadSession(r) \/ Answer(r)
    \/ \E n \in Tokens : AnswerRotation(r, n)
    \/ Commit(r) \/ CommitRaises(r)

\* A statement that may wait for another transaction to end.
LockStep(r) ==
    \E t \in Tokens : LockRow(r, t) \/ EnterBlacklist(r, t) \/ DuplicateEntry(r, t)

Next ==
    \/ \E r \in Requests : Begin(r) \/ Statement(r) \/ LockStep(r) \/ Abort(r)
    \/ \E t \in Tokens : Expire(t)

Spec == Init /\ [][Next]_vars

-----------------------------------------------------------------------------
(* Properties. *)

\* Every variable stays within its type.
TypeOK ==
    /\ session \in [Tokens -> SessionState]
    /\ blacklist \in [Tokens -> BlacklistState]
    /\ expired \subseteq Tokens
    /\ issued \subseteq Tokens
    /\ lost \subseteq issued
    /\ parent \in [Tokens -> Tokens \cup {NoToken}]
    /\ op \in [Requests -> Ops]
    /\ pc \in [Requests -> {"idle", "check", "read", "write", "answered"}]
    /\ rows \in [Requests -> SUBSET Tokens]
    /\ subject \in [Requests -> SUBSET Tokens]
    /\ locked \in [Requests -> SUBSET Tokens]
    /\ entered \in [Requests -> SUBSET Tokens]
    /\ minted \in [Requests -> SUBSET Tokens]
    /\ doomed \in [Requests -> BOOLEAN]

\* Tokens the client holds by a transaction that did not roll back.
Kept == issued \ lost

\* The token is spent on a rotation: committed, or answered and about to be.
SpentOnRotation(t) ==
    \/ blacklist[t] = "rotation"
    \/ \E r \in Requests : /\ pc[r] = "answered" /\ op[r] = "rotation"
                           /\ t \in entered[r]

\* A refresh token is redeemed at most once: however many requests present it
\* at the same time, no two tokens that were kept descend from it.  The check
\* of line 1052 does not ensure that (it reads before anyone commits); the
\* unique constraint of the blacklist does.
SingleUse ==
    \A a, b \in Kept : parent[a] = parent[b] /\ parent[a] # NoToken => a = b

\* A token that logout, revoke_session or revoke_all put on the blacklist has
\* no kept successor: a revocation that commits never loses to a rotation of
\* the same token that ran beside it.
RevokedHasNoSuccessor ==
    \A n \in Kept : parent[n] # NoToken => SpentOnRotation(parent[n])

\* The two tables tell the same story: a session row revoked by anything but
\* an MFA reset has a blacklist row for the same reason, although two requests
\* may write the row one after the other.
TablesAgree ==
    \A t \in Tokens : session[t] \in {"rotation", "user"} => blacklist[t] = session[t]

-----------------------------------------------------------------------------
(* The promise the tables and the requests keep together. *)

\* What a token is worth: the answer of a rotation promises its successor, the
\* blacklist decides the rest.
Worth(t) ==
    CASE t \notin issued                            -> "unused"
      [] t \in issued /\ blacklist[t] = "rotation"  -> "settled"
      [] t \in issued /\ blacklist[t] = "user"      -> "revoked"
      [] t \in issued /\ blacklist[t] = "clear"     ->
           IF SpentOnRotation(t) THEN "promised" ELSE "valid"

Register == INSTANCE SessionRegister WITH
    standing <- [t \in Tokens |-> Worth(t)],
    heirs    <- [t \in Tokens |-> {n \in Kept : parent[n] = t}]

\* The statements of all requests, in whatever order they interleave and
\* whichever commit is lost, amount to whole steps of the register: a token is
\* exchanged once, revoked or neither, and an exchange that was stored or a
\* revocation is never undone.
ImplementsRegister == Register!RegisterSpec
=============================================================================
