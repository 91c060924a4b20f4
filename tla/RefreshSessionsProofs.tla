----------------------- MODULE RefreshSessionsProofs -----------------------
(***************************************************************************)
(* What RefreshSessions and AccountTokens promise, for any number of       *)
(* requests, tokens, users, addresses and links, and whether or not        *)
(* commits may fail.  The two share no variable.                           *)
(***************************************************************************)
EXTENDS RefreshSessions, AccountTokens, TLAPS, FiniteSetTheorems

-----------------------------------------------------------------------------
(* RefreshSessions.  The invariant that carries its properties (Inv) says    *)
(* what an open transaction knows: the blacklist entries it holds are held   *)
(* by no other and are not yet committed (the unique index), they are all    *)
(* the tokens it set out to revoke once it has answered, and the successor   *)
(* of a kept rotation is tied to the transaction that will commit or lose    *)
(* both together.                                                            *)

\* What the transaction of request r may hold, by what it is doing.
RequestInv(r) ==
    /\ entered[r] \subseteq subject[r] \ Blacklisted
    /\ pc[r] = "idle" => op[r] = "login"
    /\ pc[r] \in {"idle", "check", "read"} => entered[r] = {}
    /\ op[r] \in UserRevocations \cup {"rotation"} => rows[r] \subseteq subject[r]
    /\ op[r] \in {"login", "mfa_reset", "password_reset"} => subject[r] = {}
    /\ op[r] \in {"login", "password_reset"} => rows[r] = {}
    /\ pc[r] = "answered" /\ ~doomed[r] => subject[r] \subseteq entered[r]
    /\ doomed[r] => entered[r] = {} /\ minted[r] = {} /\ op[r] # "rotation"
    /\ pc[r] # "answered" => minted[r] = {} /\ ~doomed[r]
    /\ minted[r] \subseteq issued

\* No two transactions hold the index entry of the same token.
EntriesExclusive ==
    \A r, q \in Requests : r # q => entered[r] \cap entered[q] = {}

\* The token was spent by a rotation that committed, or by one that will
\* commit or roll back together with its successor n.
SpentWith(n) ==
    \/ blacklist[parent[n]] = "rotation"
    \/ \E r \in Requests : /\ pc[r] = "answered" /\ op[r] = "rotation"
                           /\ parent[n] \in entered[r] /\ n \in minted[r]

SuccessorsTied == \A n \in Kept : parent[n] # NoToken => SpentWith(n)

Inv ==
    /\ TypeOK
    /\ \A r \in Requests : RequestInv(r)
    /\ EntriesExclusive
    /\ SuccessorsTied
    /\ SingleUse
    /\ TablesAgree

-----------------------------------------------------------------------------
\* Initially nothing is issued, held or recorded.
LEMMA InitInv == Init => Inv
<1> SUFFICES ASSUME Init PROVE Inv
  OBVIOUS
<1> USE DEF Init
<1>1. TypeOK
  BY DEF TypeOK, SessionState, BlacklistState, Ops, UserRevocations
<1>2. \A r \in Requests : RequestInv(r)
  BY DEF RequestInv, UserRevocations
<1>3. EntriesExclusive
  BY DEF EntriesExclusive
<1>4. SuccessorsTied /\ SingleUse
  BY DEF SuccessorsTied, SingleUse, Kept
<1>5. TablesAgree
  BY DEF TablesAgree
<1> QED
  BY <1>1, <1>2, <1>3, <1>4, <1>5 DEF Inv

-----------------------------------------------------------------------------
\* A transaction that ends without a commit and without an answer leaves the
\* tables and the history alone, and gives up what it held.
LEMMA FinishInv ==
    ASSUME Inv, NEW r \in Requests, Finish(r),
           UNCHANGED tables, UNCHANGED history,
           pc[r] # "answered"
    PROVE  Inv'
<1> USE DEF Inv, Finish, tables, history
<1>1. TypeOK'
  BY DEF TypeOK, Ops
<1>2. \A q \in Requests : RequestInv(q)'
  <2> SUFFICES ASSUME NEW q \in Requests PROVE RequestInv(q)'
    OBVIOUS
  <2>1. CASE q = r
    BY <2>1 DEF RequestInv, TypeOK, UserRevocations
  <2>2. CASE q # r
    BY <2>2 DEF RequestInv, TypeOK, Blacklisted
  <2> QED
    BY <2>1, <2>2
<1>3. EntriesExclusive'
  BY DEF EntriesExclusive, TypeOK
<1>4. SuccessorsTied'
  BY DEF SuccessorsTied, SpentWith, Kept, TypeOK
<1>5. SingleUse' /\ TablesAgree'
  BY DEF SingleUse, TablesAgree, Kept
<1> QED
  BY <1>1, <1>2, <1>3, <1>4, <1>5

\* A request that starts holds nothing yet.
LEMMA StartInv ==
    ASSUME Inv, NEW r \in Requests, NEW what \in Ops \ {"login"},
           NEW at \in {"check", "read", "write", "answered"},
           NEW loaded \in SUBSET Tokens, NEW revoked \in SUBSET Tokens,
           Start(r, what, at, loaded, revoked),
           what \in UserRevocations \cup {"rotation"}
             => loaded \subseteq revoked /\ at # "answered",
           what \in {"mfa_reset", "password_reset"} => revoked = {},
           what = "password_reset" => loaded = {}
    PROVE  Inv'
<1> USE DEF Inv, Start, tables, history
<1>0. RequestInv(r) /\ op \in [Requests -> Ops]
  BY DEF TypeOK
<1>1. TypeOK'
  BY DEF TypeOK
<1>2. \A q \in Requests : RequestInv(q)'
  <2> SUFFICES ASSUME NEW q \in Requests PROVE RequestInv(q)'
    OBVIOUS
  <2>1. CASE q = r
    <3>1. entered[r] = {} /\ minted[r] = {} /\ ~doomed[r]
      BY DEF RequestInv
    <3> QED
      BY <2>1, <3>1 DEF RequestInv, TypeOK, Ops, UserRevocations, Blacklisted
  <2>2. CASE q # r
    BY <2>2 DEF RequestInv, TypeOK, Blacklisted
  <2> QED
    BY <2>1, <2>2
<1>3. EntriesExclusive'
  BY DEF EntriesExclusive
<1>4. SuccessorsTied'
  BY DEF SuccessorsTied, SpentWith, Kept, TypeOK
<1>5. SingleUse' /\ TablesAgree'
  BY DEF SingleUse, TablesAgree, Kept
<1> QED
  BY <1>1, <1>2, <1>3, <1>4, <1>5

\* A sign-in adds a token with no parent.
LEMMA LoginInv == ASSUME Inv, NEW r \in Requests, NEW n \in Tokens, Login(r, n)
                  PROVE  Inv'
<1> USE DEF Inv, Login, AnswerWithToken
<1>0. n \in Tokens \ issued
  BY DEF Fresh
<1>1. TypeOK'
  BY <1>0 DEF TypeOK
<1>2. \A q \in Requests : RequestInv(q)'
  <2> SUFFICES ASSUME NEW q \in Requests PROVE RequestInv(q)'
    OBVIOUS
  <2>1. CASE q = r
    BY <2>1, <1>0 DEF RequestInv, TypeOK, Ops, UserRevocations, Blacklisted
  <2>2. CASE q # r
    BY <2>2, <1>0 DEF RequestInv, TypeOK, Blacklisted
  <2> QED
    BY <2>1, <2>2
<1>3. EntriesExclusive'
  BY DEF EntriesExclusive
<1>4. SuccessorsTied'
  <2> SUFFICES ASSUME NEW m \in Kept', parent'[m] # NoToken PROVE SpentWith(m)'
    BY DEF SuccessorsTied
  <2>1. m # n /\ m \in Kept /\ parent'[m] = parent[m]
    BY <1>0 DEF Kept, TypeOK
  <2>2. SpentWith(m)
    BY <2>1 DEF SuccessorsTied
  <2>3. \A q \in Requests : pc[q] = "answered" => q # r
    OBVIOUS
  <2> QED
    BY <2>1, <2>2, <2>3 DEF SpentWith, TypeOK
<1>5. SingleUse'
  BY <1>0 DEF SingleUse, Kept, TypeOK
<1>6. TablesAgree'
  BY DEF TablesAgree
<1> QED
  BY <1>1, <1>2, <1>3, <1>4, <1>5, <1>6

\* A rotation that got its blacklist entry adds the only kept successor of its
\* token: an earlier one would need a committed entry, or one held by another.
LEMMA AnswerRotationInv ==
    ASSUME Inv, NEW r \in Requests, NEW n \in Tokens, AnswerRotation(r, n)
    PROVE  Inv'
<1> USE DEF Inv, AnswerRotation, AnswerWithToken, Written
<1>0. n \in Tokens \ issued /\ pc[r] = "write" /\ op[r] = "rotation"
  BY DEF Fresh
<1>1. PICK t \in subject[r] : parent' = [parent EXCEPT ![n] = t]
  OBVIOUS
<1>2. t \in entered[r] /\ t \in Tokens /\ blacklist[t] = "clear"
  BY <1>0, <1>1 DEF RequestInv, TypeOK, Blacklisted
<1>3. TypeOK'
  BY <1>0, <1>2 DEF TypeOK
<1>4. \A q \in Requests : RequestInv(q)'
  <2> SUFFICES ASSUME NEW q \in Requests PROVE RequestInv(q)'
    OBVIOUS
  <2>1. CASE q = r
    BY <2>1, <1>0 DEF RequestInv, TypeOK, UserRevocations, Blacklisted
  <2>2. CASE q # r
    BY <2>2, <1>0 DEF RequestInv, TypeOK, Blacklisted
  <2> QED
    BY <2>1, <2>2
<1>5. EntriesExclusive'
  BY DEF EntriesExclusive
<1>6. SuccessorsTied'
  <2> SUFFICES ASSUME NEW m \in Kept', parent'[m] # NoToken PROVE SpentWith(m)'
    BY DEF SuccessorsTied
  <2>1. CASE m = n
    BY <2>1, <1>0, <1>1, <1>2 DEF SpentWith, TypeOK
  <2>2. CASE m # n
    <3>1. m \in Kept /\ parent'[m] = parent[m]
      BY <2>2, <1>1 DEF Kept, TypeOK
    <3>2. SpentWith(m)
      BY <3>1 DEF SuccessorsTied
    <3> QED
      BY <3>1, <3>2, <1>0 DEF SpentWith, TypeOK
  <2> QED
    BY <2>1, <2>2
<1>7. SingleUse'
  <2>1. \A a \in Kept : parent[a] # t
    <3> SUFFICES ASSUME NEW a \in Kept, parent[a] = t PROVE FALSE
      OBVIOUS
    <3>1. parent[a] # NoToken
      BY <1>2, NoTokenIsNone
    <3>2. SpentWith(a)
      BY <3>1 DEF SuccessorsTied
    <3>3. PICK q \in Requests : pc[q] = "answered" /\ t \in entered[q]
      BY <3>2, <1>2 DEF SpentWith
    <3> QED
      BY <3>3, <1>0, <1>2 DEF EntriesExclusive
  <2>2. \A a \in Kept' : a = n \/ (a \in Kept /\ parent'[a] = parent[a])
    BY <1>1 DEF Kept, TypeOK
  <2>3. parent'[n] = t
    BY <1>1 DEF TypeOK
  <2> QED
    BY <2>1, <2>2, <2>3 DEF SingleUse
<1>8. TablesAgree'
  BY DEF TablesAgree
<1> QED
  BY <1>3, <1>4, <1>5, <1>6, <1>7, <1>8

-----------------------------------------------------------------------------
\* Steps that change neither tables nor history: the reads, the row locks, the
\* new blacklist entry, the swallowed duplicate and the plain answer.
LEMMA TablesKept ==
    ASSUME Inv, UNCHANGED tables, UNCHANGED history, TypeOK',
           \A r \in Requests : RequestInv(r)', EntriesExclusive',
           \A r \in Requests : pc[r] = "answered" /\ op[r] = "rotation" =>
               UNCHANGED <<pc[r], op[r], entered[r], minted[r]>>
    PROVE  Inv'
<1> USE DEF Inv, tables, history
<1>1. SuccessorsTied'
  <2> SUFFICES ASSUME NEW m \in Kept', parent'[m] # NoToken PROVE SpentWith(m)'
    BY DEF SuccessorsTied
  <2>1. SpentWith(m)
    BY DEF SuccessorsTied, Kept
  <2> QED
    BY <2>1 DEF SpentWith
<1>2. SingleUse' /\ TablesAgree'
  BY DEF SingleUse, TablesAgree, Kept
<1> QED
  BY <1>1, <1>2

LEMMA CheckBlacklistInv == ASSUME Inv, NEW r \in Requests, CheckBlacklist(r)
                           PROVE  Inv'
<1>1. CASE Finish(r)
  BY <1>1, FinishInv DEF CheckBlacklist
<1>2. CASE ~Finish(r)
  <2> USE DEF Inv
  <2>0. /\ pc[r] = "check" /\ pc' = [pc EXCEPT ![r] = "read"]
        /\ UNCHANGED <<expired, op, rows, subject, locked, entered, minted, doomed>>
        /\ UNCHANGED tables /\ UNCHANGED history
    BY <1>2 DEF CheckBlacklist
  <2>1. TypeOK'
    BY <2>0 DEF TypeOK, tables, history
  <2>2. \A q \in Requests : RequestInv(q)'
    BY <2>0 DEF RequestInv, TypeOK, Blacklisted, tables, history
  <2>3. EntriesExclusive'
    BY <2>0 DEF EntriesExclusive
  <2>4. \A q \in Requests : pc[q] = "answered" /\ op[q] = "rotation" =>
               UNCHANGED <<pc[q], op[q], entered[q], minted[q]>>
    BY <2>0 DEF TypeOK
  <2> QED
    BY <2>0, <2>1, <2>2, <2>3, <2>4, TablesKept
<1> QED
  BY <1>1, <1>2

LEMMA ReadSessionInv == ASSUME Inv, NEW r \in Requests, ReadSession(r)
                        PROVE  Inv'
<1>1. CASE Finish(r)
  BY <1>1, FinishInv DEF ReadSession
<1>2. CASE ~Finish(r)
  <2> USE DEF Inv
  <2>0. PICK t \in subject[r] :
        /\ pc[r] = "read" /\ pc' = [pc EXCEPT ![r] = "write"]
        /\ rows' = [rows EXCEPT ![r] = {t} \cap ActiveRows]
        /\ UNCHANGED <<expired, op, subject, locked, entered, minted, doomed>>
        /\ UNCHANGED tables /\ UNCHANGED history
    BY <1>2 DEF ReadSession
  <2>1. TypeOK'
    BY <2>0 DEF TypeOK, ActiveRows, tables, history
  <2>2. \A q \in Requests : RequestInv(q)'
    BY <2>0 DEF RequestInv, TypeOK, Blacklisted, tables, history, UserRevocations
  <2>3. EntriesExclusive'
    BY <2>0 DEF EntriesExclusive
  <2>4. \A q \in Requests : pc[q] = "answered" /\ op[q] = "rotation" =>
               UNCHANGED <<pc[q], op[q], entered[q], minted[q]>>
    BY <2>0 DEF TypeOK
  <2> QED
    BY <2>0, <2>1, <2>2, <2>3, <2>4, TablesKept
<1> QED
  BY <1>1, <1>2

\* A request that has the row lock is the only one.
LEMMA LockRowInv ==
    ASSUME Inv, NEW r \in Requests, NEW t \in Tokens, LockRow(r, t) PROVE Inv'
<1> USE DEF Inv, LockRow
<1>1. TypeOK'
  BY DEF TypeOK, tables, history
<1>2. \A q \in Requests : RequestInv(q)'
  BY DEF RequestInv, Blacklisted, tables, history
<1>3. EntriesExclusive'
  BY DEF EntriesExclusive
<1> QED
  BY <1>1, <1>2, <1>3, TablesKept

\* An index entry is entered when nobody has it.
LEMMA EnterBlacklistInv ==
    ASSUME Inv, NEW r \in Requests, NEW t \in Tokens, EnterBlacklist(r, t)
    PROVE  Inv'
<1> USE DEF Inv, EnterBlacklist, MayEnter
<1>1. TypeOK'
  BY DEF TypeOK, tables, history
<1>2. \A q \in Requests : RequestInv(q)'
  <2> SUFFICES ASSUME NEW q \in Requests PROVE RequestInv(q)'
    OBVIOUS
  <2>1. CASE q = r
    BY <2>1 DEF RequestInv, TypeOK, Blacklisted, tables, history
  <2>2. CASE q # r
    BY <2>2 DEF RequestInv, TypeOK, Blacklisted, tables, history
  <2> QED
    BY <2>1, <2>2
<1>3. EntriesExclusive'
  BY DEF EntriesExclusive, TypeOK
<1>4. \A q \in Requests : pc[q] = "answered" /\ op[q] = "rotation" =>
             UNCHANGED <<pc[q], op[q], entered[q], minted[q]>>
  BY DEF TypeOK
<1> QED
  BY <1>1, <1>2, <1>3, <1>4, TablesKept

\* A duplicate ends the transaction, whose entries go with it.
LEMMA DuplicateEntryInv ==
    ASSUME Inv, NEW r \in Requests, NEW t \in Tokens, DuplicateEntry(r, t)
    PROVE  Inv'
<1>0. pc[r] = "write" /\ UNCHANGED tables /\ UNCHANGED history
  BY DEF DuplicateEntry, MayEnter
<1>1. CASE Finish(r)
  BY <1>0, <1>1, FinishInv
<1>2. CASE ~Finish(r)
  <2> USE DEF Inv
  <2>0. /\ op[r] # "rotation"
        /\ pc' = [pc EXCEPT ![r] = "answered"]
        /\ doomed' = [doomed EXCEPT ![r] = TRUE]
        /\ locked' = [locked EXCEPT ![r] = {}]
        /\ entered' = [entered EXCEPT ![r] = {}]
        /\ UNCHANGED <<op, rows, subject, minted, expired>>
    BY <1>2 DEF DuplicateEntry
  <2>1. TypeOK'
    BY <1>0, <2>0 DEF TypeOK, tables, history
  <2>2. \A q \in Requests : RequestInv(q)'
    <3> SUFFICES ASSUME NEW q \in Requests PROVE RequestInv(q)'
      OBVIOUS
    <3>1. CASE q = r
      BY <3>1, <1>0, <2>0 DEF RequestInv, TypeOK, Blacklisted, tables, history
    <3>2. CASE q # r
      BY <3>2, <1>0, <2>0 DEF RequestInv, TypeOK, Blacklisted, tables, history
    <3> QED
      BY <3>1, <3>2
  <2>3. EntriesExclusive'
    BY <2>0 DEF EntriesExclusive, TypeOK
  <2>4. \A q \in Requests : pc[q] = "answered" /\ op[q] = "rotation" =>
               UNCHANGED <<pc[q], op[q], entered[q], minted[q]>>
    BY <1>0, <2>0 DEF TypeOK
  <2> QED
    BY <1>0, <2>1, <2>2, <2>3, <2>4, TablesKept
<1> QED
  BY <1>1, <1>2

\* A response leaves before the commit.
LEMMA AnswerInv == ASSUME Inv, NEW r \in Requests, Answer(r) PROVE Inv'
<1> USE DEF Inv, Answer, Written
<1>1. TypeOK'
  BY DEF TypeOK, tables, history
<1>2. \A q \in Requests : RequestInv(q)'
  BY DEF RequestInv, TypeOK, Blacklisted, tables, history
<1>3. EntriesExclusive'
  BY DEF EntriesExclusive
<1>4. \A q \in Requests : pc[q] = "answered" /\ op[q] = "rotation" =>
             UNCHANGED <<pc[q], op[q], entered[q], minted[q]>>
  BY DEF TypeOK
<1> QED
  BY <1>1, <1>2, <1>3, <1>4, TablesKept

-----------------------------------------------------------------------------
\* The commit turns the entries it held into rows, with the reason that it
\* also writes into the session rows it revokes.
LEMMA CommitInv == ASSUME Inv, NEW r \in Requests, Commit(r) PROVE Inv'
<1> USE DEF Inv, Commit, Finish, history
<1>0. pc[r] = "answered" /\ ~doomed[r] /\ RequestInv(r)
  OBVIOUS
<1>1. TypeOK'
  <2>1. \A t \in entered[r] : Reason(op[r]) \in BlacklistState
    BY <1>0 DEF RequestInv, TypeOK, Ops, UserRevocations, Reason, BlacklistState
  <2>2. \A t \in rows[r] : Reason(op[r]) \in SessionState
    BY <1>0 DEF RequestInv, TypeOK, Ops, UserRevocations, Reason, SessionState
  <2>3. session' \in [Tokens -> SessionState]
    BY <2>2 DEF TypeOK, SessionState
  <2>4. blacklist' \in [Tokens -> BlacklistState]
    BY <2>1 DEF TypeOK
  <2> QED
    BY <2>3, <2>4 DEF TypeOK, Ops
<1>2. Blacklisted' \subseteq Blacklisted \cup entered[r]
  BY DEF Blacklisted, TypeOK
<1>3. \A q \in Requests : RequestInv(q)'
  <2> SUFFICES ASSUME NEW q \in Requests PROVE RequestInv(q)'
    OBVIOUS
  <2>1. CASE q = r
    BY <2>1 DEF RequestInv, TypeOK, UserRevocations
  <2>2. CASE q # r
    BY <2>2, <1>2 DEF RequestInv, TypeOK, EntriesExclusive
  <2> QED
    BY <2>1, <2>2
<1>4. EntriesExclusive'
  BY DEF EntriesExclusive, TypeOK
<1>5. SuccessorsTied'
  <2> SUFFICES ASSUME NEW m \in Kept', parent'[m] # NoToken PROVE SpentWith(m)'
    BY DEF SuccessorsTied
  <2>0. m \in Kept /\ parent'[m] = parent[m] /\ parent[m] \in Tokens
    BY DEF Kept, TypeOK
  <2>1. SpentWith(m)
    BY <2>0 DEF SuccessorsTied
  <2>2. CASE blacklist[parent[m]] = "rotation"
    <3>1. parent[m] \notin entered[r]
      BY <2>2, <2>0, <1>0 DEF RequestInv, Blacklisted
    <3> QED
      BY <2>0, <2>2, <3>1 DEF SpentWith
  <2>3. ASSUME NEW q \in Requests, pc[q] = "answered", op[q] = "rotation",
               parent[m] \in entered[q], m \in minted[q]
        PROVE  SpentWith(m)'
    <3>1. CASE q = r
      BY <2>0, <2>3, <3>1 DEF SpentWith, Reason, UserRevocations
    <3>2. CASE q # r
      BY <2>0, <2>3, <3>2 DEF SpentWith, TypeOK
    <3> QED
      BY <3>1, <3>2
  <2> QED
    BY <2>1, <2>2, <2>3 DEF SpentWith
<1>6. SingleUse'
  BY DEF SingleUse, Kept
<1>7. TablesAgree'
  <2> SUFFICES ASSUME NEW t \in Tokens, session'[t] \in {"rotation", "user"}
               PROVE  blacklist'[t] = session'[t]
    BY DEF TablesAgree
  <2>1. CASE t \in rows[r]
    <3>1. session'[t] = Reason(op[r])
      BY <2>1
    <3>2. op[r] \in UserRevocations \cup {"rotation"}
      BY <2>1, <3>1, <1>0 DEF RequestInv, TypeOK, Ops, Reason
    <3>3. t \in entered[r]
      BY <2>1, <3>2, <1>0 DEF RequestInv
    <3> QED
      BY <3>1, <3>3
  <2>2. CASE t \notin rows[r]
    <3>1. session'[t] = session[t]
      BY <2>2
    <3>2. blacklist[t] = session[t]
      BY <3>1 DEF TablesAgree
    <3>3. t \notin entered[r]
      BY <3>1, <3>2, <1>0 DEF RequestInv, Blacklisted
    <3> QED
      BY <3>1, <3>2, <3>3
  <2> QED
    BY <2>1, <2>2
<1> QED
  BY <1>1, <1>3, <1>4, <1>5, <1>6, <1>7

\* A commit that raises frees the entries, and the token it had handed out is
\* no longer a kept one.
LEMMA CommitRaisesInv == ASSUME Inv, NEW r \in Requests, CommitRaises(r)
                         PROVE  Inv'
<1> USE DEF Inv, CommitRaises, Finish, tables
<1>0. RequestInv(r)
  OBVIOUS
<1>1. TypeOK'
  BY <1>0 DEF TypeOK, RequestInv, Ops
<1>2. \A q \in Requests : RequestInv(q)'
  <2> SUFFICES ASSUME NEW q \in Requests PROVE RequestInv(q)'
    OBVIOUS
  <2>1. CASE q = r
    BY <2>1 DEF RequestInv, TypeOK, UserRevocations
  <2>2. CASE q # r
    BY <2>2 DEF RequestInv, TypeOK, Blacklisted
  <2> QED
    BY <2>1, <2>2
<1>3. EntriesExclusive'
  BY DEF EntriesExclusive, TypeOK
<1>4. SuccessorsTied'
  <2> SUFFICES ASSUME NEW m \in Kept', parent'[m] # NoToken PROVE SpentWith(m)'
    BY DEF SuccessorsTied
  <2>1. m \in Kept /\ m \notin minted[r] /\ parent'[m] = parent[m]
    BY DEF Kept
  <2>2. SpentWith(m)
    BY <2>1 DEF SuccessorsTied
  <2> QED
    BY <2>1, <2>2 DEF SpentWith, TypeOK
<1>5. SingleUse' /\ TablesAgree'
  BY DEF SingleUse, TablesAgree, Kept
<1> QED
  BY <1>1, <1>2, <1>3, <1>4, <1>5

\* A token grows old.
LEMMA ExpireInv == ASSUME Inv, NEW t \in Tokens, Expire(t) PROVE Inv'
<1> USE DEF Inv, Expire, work
<1>1. TypeOK'
  BY DEF TypeOK, tables, history
<1>2. \A q \in Requests : RequestInv(q)'
  BY DEF RequestInv, Blacklisted, tables, history
<1>3. EntriesExclusive'
  BY DEF EntriesExclusive
<1> QED
  BY <1>1, <1>2, <1>3, TablesKept

\* The operations that begin with the reads they start from.
LEMMA BeginInv == ASSUME Inv, NEW r \in Requests, Begin(r) PROVE Inv'
<1> USE DEF Ops, UserRevocations
<1>1. ASSUME NEW t \in Tokens, Refresh(r, t) PROVE Inv'
  BY <1>1, StartInv DEF Refresh
<1>2. ASSUME NEW t \in Tokens, Logout(r, t) PROVE Inv'
  BY <1>2, StartInv DEF Logout
<1>3. ASSUME NEW t \in Tokens, RevokeSession(r, t) PROVE Inv'
  BY <1>3, StartInv DEF RevokeSession
<1>4. ActiveRows \in SUBSET Tokens
  BY DEF ActiveRows
<1>5. CASE RevokeAll(r)
  BY <1>4, <1>5, StartInv DEF RevokeAll
<1>6. CASE MfaReset(r)
  BY <1>4, <1>6, StartInv DEF MfaReset
<1>7. CASE PasswordReset(r)
  BY <1>7, StartInv DEF PasswordReset
<1> QED
  BY <1>1, <1>2, <1>3, <1>5, <1>6, <1>7, LoginInv DEF Begin

\* Every step keeps the invariant.
LEMMA NextInv == Inv /\ [Next]_vars => Inv'
<1> SUFFICES ASSUME Inv, [Next]_vars PROVE Inv'
  OBVIOUS
<1>1. ASSUME NEW r \in Requests, Begin(r) PROVE Inv'
  BY <1>1, BeginInv
<1>2. ASSUME NEW r \in Requests, Statement(r) PROVE Inv'
  BY <1>2, CheckBlacklistInv, ReadSessionInv, AnswerInv, AnswerRotationInv,
     CommitInv, CommitRaisesInv DEF Statement
<1>3. ASSUME NEW r \in Requests, LockStep(r) PROVE Inv'
  BY <1>3, LockRowInv, EnterBlacklistInv, DuplicateEntryInv DEF LockStep
<1>4. ASSUME NEW r \in Requests, Abort(r) PROVE Inv'
  BY <1>4, FinishInv DEF Abort
<1>5. ASSUME NEW t \in Tokens, Expire(t) PROVE Inv'
  BY <1>5, ExpireInv
<1>6. CASE UNCHANGED vars
  <2>1. TypeOK' /\ EntriesExclusive' /\ SingleUse' /\ TablesAgree'
    BY <1>6 DEF Inv, vars, TypeOK, EntriesExclusive, SingleUse, TablesAgree, Kept
  <2>2. SuccessorsTied'
    BY <1>6 DEF Inv, vars, SuccessorsTied, SpentWith, Kept
  <2>3. \A q \in Requests : RequestInv(q)'
    BY <1>6 DEF Inv, vars, RequestInv, Blacklisted
  <2> QED
    BY <2>1, <2>2, <2>3 DEF Inv
<1> QED
  BY <1>1, <1>2, <1>3, <1>4, <1>5, <1>6 DEF Next

\* Inv is an invariant of the specification.
THEOREM Invariance == Spec => []Inv
  BY InitInv, NextInv, PTL DEF Spec

-----------------------------------------------------------------------------
\* Every variable keeps its type.
THEOREM TypeCorrect == Spec => []TypeOK
<1>1. Inv => TypeOK
  BY DEF Inv
<1> QED
  BY <1>1, Invariance, PTL

\* However many requests present a refresh token at once, at most one rotation
\* of it is kept (_revoke_refresh_token and the unique token_hash).
THEOREM SingleUseHolds == Spec => []SingleUse
<1>1. Inv => SingleUse
  BY DEF Inv
<1> QED
  BY <1>1, Invariance, PTL

\* A token that was revoked by the user never has a kept successor.
THEOREM RevocationIsFinal == Spec => []RevokedHasNoSuccessor
<1>1. Inv => RevokedHasNoSuccessor
  BY DEF Inv, SuccessorsTied, SpentWith, RevokedHasNoSuccessor, SpentOnRotation
<1> QED
  BY <1>1, Invariance, PTL

\* A session row and the blacklist row of its token never disagree about why
\* the session ended.
THEOREM TablesAlwaysAgree == Spec => []TablesAgree
<1>1. Inv => TablesAgree
  BY DEF Inv
<1> QED
  BY <1>1, Invariance, PTL

-----------------------------------------------------------------------------
(* The refinement of SessionRegister. *)

\* A token that no answer has carried yet is in no table.
RowsOfIssued ==
    \A t \in Tokens \ issued : session[t] = "none" /\ blacklist[t] = "clear"

\* What request r works on are issued tokens, and a rotation works on one.
KnownInv(r) ==
    /\ rows[r] \cup subject[r] \subseteq issued
    /\ op[r] = "rotation" => \E t \in Tokens : subject[r] = {t}

\* What request r has handed out: a sign-in a token without a parent, an
\* answered rotation the one heir of the token whose entry it holds.
MintedInv(r) ==
    /\ minted[r] # {} => op[r] \in {"login", "rotation"}
    /\ op[r] = "login" => \A n \in minted[r] : parent[n] = NoToken
    /\ op[r] = "rotation" /\ pc[r] = "answered" =>
         \E n \in Kept : minted[r] = {n} /\ parent[n] \in entered[r]

Lineage ==
    /\ RowsOfIssued
    /\ \A r \in Requests : KnownInv(r) /\ MintedInv(r)

\* Initially there are no tokens.
LEMMA InitLineage == Init => Lineage
  BY DEF Init, Lineage, RowsOfIssued, KnownInv, MintedInv

\* The steps of a request that leave tables and history alone.
LEMMA QuietLineage ==
    ASSUME Inv, Lineage, NEW r \in Requests,
           UNCHANGED tables, UNCHANGED history,
           \A q \in Requests \ {r} :
               UNCHANGED <<op[q], pc[q], rows[q], subject[q], entered[q], minted[q]>>,
           KnownInv(r)', MintedInv(r)'
    PROVE  Lineage'
<1>1. RowsOfIssued'
  BY DEF Lineage, RowsOfIssued, tables, history
<1>2. ASSUME NEW q \in Requests \ {r} PROVE KnownInv(q)' /\ MintedInv(q)'
  BY <1>2 DEF Lineage, KnownInv, MintedInv, Kept, history
<1> QED
  BY <1>1, <1>2 DEF Lineage

LEMMA FinishLineage ==
    ASSUME Inv, Lineage, NEW r \in Requests, Finish(r),
           UNCHANGED tables, UNCHANGED history
    PROVE  Lineage'
<1> USE DEF Finish, Inv
<1>1. /\ op'[r] = "login" /\ rows'[r] = {} /\ subject'[r] = {} /\ minted'[r] = {}
      /\ pc'[r] = "idle"
  BY DEF TypeOK
<1>2. KnownInv(r)' /\ MintedInv(r)'
  BY <1>1 DEF KnownInv, MintedInv
<1>3. \A q \in Requests \ {r} :
          UNCHANGED <<op[q], pc[q], rows[q], subject[q], entered[q], minted[q]>>
  BY DEF TypeOK
<1> QED
  BY <1>2, <1>3, QuietLineage

LEMMA StartLineage ==
    ASSUME Inv, Lineage, NEW r \in Requests, NEW what \in Ops \ {"login"},
           NEW at \in {"check", "read", "write", "answered"},
           NEW loaded \in SUBSET issued, NEW revoked \in SUBSET issued,
           Start(r, what, at, loaded, revoked),
           what = "rotation" => at = "check" /\ \E t \in Tokens : revoked = {t}
    PROVE  Lineage'
<1> USE DEF Start, Inv
<1>1. /\ op'[r] = what /\ rows'[r] = loaded /\ subject'[r] = revoked
      /\ pc'[r] = at /\ minted'[r] = {}
  BY DEF TypeOK, RequestInv
<1>2. KnownInv(r)' /\ MintedInv(r)'
  BY <1>1 DEF KnownInv, MintedInv, history
<1>3. \A q \in Requests \ {r} :
          UNCHANGED <<op[q], pc[q], rows[q], subject[q], entered[q], minted[q]>>
  BY DEF TypeOK
<1> QED
  BY <1>2, <1>3, QuietLineage

LEMMA BeginLineage ==
    ASSUME Inv, Lineage, NEW r \in Requests, Begin(r) PROVE Lineage'
<1> USE DEF Ops, UserRevocations
<1>0. ActiveRows \subseteq issued /\ ActiveRows \in SUBSET issued
  BY DEF ActiveRows, Lineage, RowsOfIssued
<1>1. ASSUME NEW t \in Tokens, Refresh(r, t) PROVE Lineage'
  BY <1>1, StartLineage DEF Refresh
<1>2. ASSUME NEW t \in Tokens, Logout(r, t) PROVE Lineage'
  BY <1>2, StartLineage DEF Logout
<1>3. ASSUME NEW t \in Tokens, RevokeSession(r, t) PROVE Lineage'
  BY <1>0, <1>3, StartLineage DEF RevokeSession
<1>4. CASE RevokeAll(r)
  BY <1>0, <1>4, StartLineage DEF RevokeAll
<1>5. CASE MfaReset(r)
  BY <1>0, <1>5, StartLineage DEF MfaReset
<1>6. CASE PasswordReset(r)
  BY <1>6, StartLineage DEF PasswordReset
<1>7. ASSUME NEW n \in Tokens, Login(r, n) PROVE Lineage'
  <2> USE DEF Login, AnswerWithToken, Inv
  <2>0. n \notin issued /\ pc[r] = "idle" /\ op[r] = "login"
    BY <1>7 DEF Fresh, RequestInv
  <2>1. RowsOfIssued'
    BY <1>7 DEF Lineage, RowsOfIssued
  <2>2. KnownInv(r)' /\ MintedInv(r)'
    BY <1>7, <2>0 DEF Lineage, KnownInv, MintedInv, TypeOK
  <2>3. ASSUME NEW q \in Requests, q # r PROVE KnownInv(q)' /\ MintedInv(q)'
    <3>1. UNCHANGED <<op[q], pc[q], rows[q], subject[q], entered[q], minted[q]>>
      BY <1>7, <2>3 DEF TypeOK
    <3>2. minted[q] \subseteq issued /\ Kept \subseteq issued /\ Kept \subseteq Kept'
      BY <1>7 DEF RequestInv, Kept
    <3>3. \A m \in issued : parent'[m] = parent[m]
      BY <1>7, <2>0 DEF TypeOK
    <3> QED
      BY <1>7, <3>1, <3>2, <3>3 DEF Lineage, KnownInv, MintedInv
  <2> QED
    BY <2>1, <2>2, <2>3 DEF Lineage
<1> QED
  BY <1>1, <1>2, <1>3, <1>4, <1>5, <1>6, <1>7 DEF Begin

LEMMA StatementLineage ==
    ASSUME Inv, Lineage, NEW r \in Requests,
           \/ CheckBlacklist(r) \/ ReadSession(r) \/ Answer(r) \/ Abort(r)
           \/ \E t \in Tokens : LockRow(r, t) \/ EnterBlacklist(r, t) \/ DuplicateEntry(r, t)
    PROVE  Lineage'
<1> USE DEF Inv
<1>0. UNCHANGED tables /\ UNCHANGED history
  BY DEF CheckBlacklist, ReadSession, Answer, Abort, LockRow, EnterBlacklist, DuplicateEntry
<1>1. CASE Finish(r)
  BY <1>0, <1>1, FinishLineage
<1>2. CASE ~Finish(r)
  <2>1. \A q \in Requests \ {r} :
          UNCHANGED <<op[q], pc[q], rows[q], subject[q], entered[q], minted[q]>>
    BY <1>2 DEF CheckBlacklist, ReadSession, Answer, Abort, LockRow, EnterBlacklist,
                DuplicateEntry, TypeOK
  <2>2. op'[r] = op[r] /\ subject'[r] = subject[r] /\ minted'[r] = minted[r]
    BY <1>2 DEF CheckBlacklist, ReadSession, Answer, Abort, LockRow, EnterBlacklist,
                DuplicateEntry
  <2>3. rows'[r] \subseteq issued
    BY <1>2 DEF CheckBlacklist, ReadSession, Answer, Abort, LockRow, EnterBlacklist,
                DuplicateEntry, TypeOK, Lineage, KnownInv
  <2>4. op[r] = "rotation" => pc'[r] # "answered"
    BY <1>2 DEF CheckBlacklist, ReadSession, Answer, Abort, LockRow, EnterBlacklist,
                DuplicateEntry, MayEnter, TypeOK
  <2>5. KnownInv(r)' /\ MintedInv(r)'
    BY <1>0, <2>2, <2>3, <2>4 DEF Lineage, KnownInv, MintedInv, history
  <2> QED
    BY <1>0, <2>1, <2>5, QuietLineage
<1> QED
  BY <1>1, <1>2

\* A promised successor is tied to the token it was exchanged for.
LEMMA AnswerRotationLineage ==
    ASSUME Inv, Lineage, NEW r \in Requests, NEW n \in Tokens, AnswerRotation(r, n)
    PROVE  Lineage'
<1> USE DEF Inv, AnswerRotation, AnswerWithToken, Written
<1>0. n \in Tokens \ issued /\ pc[r] = "write" /\ op[r] = "rotation"
  BY DEF Fresh
<1>1. PICK t \in subject[r] : parent' = [parent EXCEPT ![n] = t]
  OBVIOUS
<1>2. RowsOfIssued'
  BY DEF Lineage, RowsOfIssued
<1>3. KnownInv(r)'
  BY DEF Lineage, KnownInv
<1>4. MintedInv(r)'
  <2>1. n \in Kept' /\ minted'[r] = {n} /\ parent'[n] = t /\ t \in entered'[r]
    BY <1>0, <1>1 DEF Kept, TypeOK
  <2> QED
    BY <1>0, <2>1 DEF MintedInv
<1>5. ASSUME NEW q \in Requests, q # r PROVE KnownInv(q)' /\ MintedInv(q)'
  <2>1. UNCHANGED <<op[q], pc[q], rows[q], subject[q], entered[q], minted[q]>>
    BY <1>5 DEF TypeOK
  <2>2. minted[q] \subseteq issued /\ Kept \subseteq issued /\ Kept \subseteq Kept'
    BY DEF RequestInv, Kept
  <2>3. \A m \in issued : parent'[m] = parent[m]
    BY <1>0, <1>1 DEF TypeOK
  <2> QED
    BY <2>1, <2>2, <2>3 DEF Lineage, KnownInv, MintedInv
<1> QED
  BY <1>2, <1>3, <1>4, <1>5 DEF Lineage

\* The heir of an answered rotation was minted by no other request.
LEMMA HeirsApart ==
    ASSUME Inv, Lineage, NEW r \in Requests, NEW q \in Requests, r # q,
           pc[q] = "answered", op[q] = "rotation"
    PROVE  minted[q] \cap minted[r] = {}
<1> SUFFICES ASSUME NEW n \in minted[q], n \in minted[r] PROVE FALSE
  OBVIOUS
<1>1. parent[n] \in entered[q] /\ parent[n] \in Tokens
  BY DEF Inv, TypeOK, Lineage, MintedInv
<1>2. op[r] \in {"login", "rotation"}
  BY DEF Lineage, MintedInv
<1>3. op[r] # "login"
  BY <1>1, NoTokenIsNone DEF Lineage, MintedInv
<1>4. pc[r] = "answered"
  BY DEF Inv, RequestInv
<1>5. parent[n] \in entered[r]
  BY <1>2, <1>3, <1>4 DEF Lineage, MintedInv
<1> QED
  BY <1>1, <1>5 DEF Inv, EntriesExclusive

\* What a commit publishes has the parent it was minted for.
LEMMA CommitLineage ==
    ASSUME Inv, Lineage, NEW r \in Requests, Commit(r) \/ CommitRaises(r)
    PROVE  Lineage'
<1> USE DEF Inv
<1>0. Finish(r) /\ UNCHANGED <<issued, parent>>
  BY DEF Commit, CommitRaises, history
<1>1. /\ op'[r] = "login" /\ rows'[r] = {} /\ subject'[r] = {} /\ minted'[r] = {}
      /\ pc'[r] = "idle"
  BY <1>0 DEF Finish, TypeOK
<1>2. KnownInv(r)' /\ MintedInv(r)'
  BY <1>1 DEF KnownInv, MintedInv
<1>3. RowsOfIssued'
  <2>1. rows[r] \cup minted[r] \cup entered[r] \subseteq issued
    BY DEF Lineage, KnownInv, RequestInv
  <2> QED
    BY <1>0, <2>1 DEF Commit, CommitRaises, tables, Lineage, RowsOfIssued
<1>4. ASSUME NEW q \in Requests, q # r PROVE KnownInv(q)' /\ MintedInv(q)'
  <2>1. UNCHANGED <<op[q], pc[q], rows[q], subject[q], entered[q], minted[q]>>
    BY <1>0, <1>4 DEF Finish, TypeOK
  <2>2. KnownInv(q)'
    BY <1>0, <2>1 DEF Lineage, KnownInv
  <2>3. ASSUME pc[q] = "answered", op[q] = "rotation",
               NEW n \in Kept, minted[q] = {n}
        PROVE  n \in Kept'
    <3>1. n \notin minted[r]
      BY <1>4, <2>3, HeirsApart
    <3> QED
      BY <1>0, <2>3, <3>1 DEF Commit, CommitRaises, history, Kept
  <2>4. MintedInv(q)'
    BY <1>0, <2>1, <2>3 DEF Lineage, MintedInv
  <2> QED
    BY <2>2, <2>4
<1> QED
  BY <1>2, <1>3, <1>4 DEF Lineage

\* Every step keeps the lineage of tokens.
LEMMA NextLineage == Inv /\ Lineage /\ [Next]_vars => Lineage'
<1> SUFFICES ASSUME Inv, Lineage, [Next]_vars PROVE Lineage'
  OBVIOUS
<1>1. ASSUME NEW r \in Requests, Begin(r) PROVE Lineage'
  BY <1>1, BeginLineage
<1>2. ASSUME NEW r \in Requests, Statement(r) \/ LockStep(r) \/ Abort(r) PROVE Lineage'
  BY <1>2, StatementLineage, AnswerRotationLineage, CommitLineage
     DEF Statement, LockStep
<1>3. ASSUME NEW t \in Tokens, Expire(t) PROVE Lineage'
  BY <1>3 DEF Expire, work, tables, history, Lineage, RowsOfIssued, KnownInv,
              MintedInv, Kept
<1>4. CASE UNCHANGED vars
  BY <1>4 DEF vars, Lineage, RowsOfIssued, KnownInv, MintedInv, Kept
<1> QED
  BY <1>1, <1>2, <1>3, <1>4 DEF Next

-----------------------------------------------------------------------------
\* The cases of Worth are those of a known token.
LEMMA WorthOf ==
    ASSUME Inv, NEW t \in Tokens
    PROVE  /\ t \notin issued => Worth(t) = "unused"
           /\ t \in issued /\ blacklist[t] = "rotation" => Worth(t) = "settled"
           /\ t \in issued /\ blacklist[t] = "user" => Worth(t) = "revoked"
           /\ t \in issued /\ blacklist[t] = "clear" /\ SpentOnRotation(t)
                => Worth(t) = "promised"
           /\ t \in issued /\ blacklist[t] = "clear" /\ ~SpentOnRotation(t)
                => Worth(t) = "valid"
           /\ blacklist[t] \in {"rotation", "user", "clear"}
<1>1. blacklist[t] \in {"rotation", "user", "clear"}
  BY DEF Inv, TypeOK, BlacklistState
<1>2. t \notin issued => Worth(t) = "unused"
  BY <1>1 DEF Worth
<1>3. t \in issued /\ blacklist[t] = "rotation" => Worth(t) = "settled"
  BY <1>1 DEF Worth
<1>4. t \in issued /\ blacklist[t] = "user" => Worth(t) = "revoked"
  BY <1>1 DEF Worth
<1>5. t \in issued /\ blacklist[t] = "clear" =>
        Worth(t) = IF SpentOnRotation(t) THEN "promised" ELSE "valid"
  BY <1>1 DEF Worth
<1> QED
  BY <1>1, <1>2, <1>3, <1>4, <1>5

\* The worth of a token depends on its rows and on the requests that hold it.
LEMMA SameWorth ==
    ASSUME NEW t \in Tokens, t \in issued' <=> t \in issued,
           blacklist'[t] = blacklist[t], SpentOnRotation(t)' <=> SpentOnRotation(t)
    PROVE  Worth(t)' = Worth(t)
<1>1. CASE SpentOnRotation(t)
  BY <1>1 DEF Worth
<1>2. CASE ~SpentOnRotation(t)
  BY <1>2 DEF Worth
<1> QED
  BY <1>1, <1>2

Heirs(t) == {n \in Kept : parent[n] = t}

\* Initially the register is empty.
LEMMA InitRegister == Init => Register!RegisterInit
<1> SUFFICES ASSUME Init PROVE Register!RegisterInit
  OBVIOUS
<1>1. \A t \in Tokens : Worth(t) = "unused"
  BY InitInv, WorthOf DEF Init
<1>2. \A t \in Tokens : {n \in Kept : parent[n] = t} = {}
  BY DEF Init, Kept
<1> QED
  BY <1>1, <1>2 DEF Register!RegisterInit

\* A step that neither spends nor frees a token is none of the register.
LEMMA QuietRegister ==
    ASSUME Inv, Inv', UNCHANGED tables, UNCHANGED history,
           \A r \in Requests : op[r] = "rotation" \/ op'[r] = "rotation" =>
               \/ UNCHANGED <<pc[r], op[r], entered[r]>>
               \/ pc[r] # "answered" /\ pc'[r] # "answered"
    PROVE  UNCHANGED Register!register
<1>1. ASSUME NEW t \in Tokens PROVE Worth(t)' = Worth(t)
  <2>1. SpentOnRotation(t)' <=> SpentOnRotation(t)
    BY DEF SpentOnRotation, tables
  <2> QED
    BY <2>1 DEF Worth, tables, history
<1>2. Kept' = Kept /\ parent' = parent
  BY DEF Kept, history
<1> QED
  BY <1>1, <1>2 DEF Register!register

LEMMA FinishRegister ==
    ASSUME Inv, Inv', NEW r \in Requests, Finish(r), pc[r] # "answered",
           UNCHANGED tables, UNCHANGED history
    PROVE  UNCHANGED Register!register
<1>1. \A q \in Requests : op[q] = "rotation" \/ op'[q] = "rotation" =>
               \/ UNCHANGED <<pc[q], op[q], entered[q]>>
               \/ pc[q] # "answered" /\ pc'[q] # "answered"
  BY DEF Finish, Inv, TypeOK
<1> QED
  BY <1>1, QuietRegister

\* A statement that is not committed changes nothing in the register.
LEMMA StatementRegister ==
    ASSUME Inv, Inv', NEW r \in Requests,
           \/ CheckBlacklist(r) \/ ReadSession(r) \/ Answer(r) \/ Abort(r)
           \/ \E t \in Tokens : LockRow(r, t) \/ EnterBlacklist(r, t) \/ DuplicateEntry(r, t)
    PROVE  UNCHANGED Register!register
<1>0. UNCHANGED tables /\ UNCHANGED history /\ pc[r] # "answered"
  BY DEF CheckBlacklist, ReadSession, Answer, Abort, LockRow, EnterBlacklist,
         DuplicateEntry, MayEnter, Written
<1>1. CASE Finish(r)
  BY <1>0, <1>1, FinishRegister
<1>2. CASE ~Finish(r)
  <2>1. \A q \in Requests \ {r} : UNCHANGED <<op[q], pc[q], entered[q]>>
    BY <1>2 DEF CheckBlacklist, ReadSession, Answer, Abort, LockRow, EnterBlacklist,
                DuplicateEntry, Inv, TypeOK
  <2>2. op'[r] = op[r] /\ (op[r] = "rotation" => pc'[r] # "answered")
    BY <1>2 DEF CheckBlacklist, ReadSession, Answer, Abort, LockRow, EnterBlacklist,
                DuplicateEntry, MayEnter, Inv, TypeOK
  <2> QED
    BY <1>0, <2>1, <2>2, QuietRegister
<1> QED
  BY <1>1, <1>2

LEMMA StartRegister ==
    ASSUME Inv, Inv', NEW r \in Requests, NEW what \in Ops \ {"login"},
           NEW at \in {"check", "read", "write", "answered"},
           NEW loaded, NEW revoked,
           Start(r, what, at, loaded, revoked), what = "rotation" => at = "check"
    PROVE  UNCHANGED Register!register
<1>1. \A q \in Requests : op[q] = "rotation" \/ op'[q] = "rotation" =>
               \/ UNCHANGED <<pc[q], op[q], entered[q]>>
               \/ pc[q] # "answered" /\ pc'[q] # "answered"
  BY DEF Start, Inv, TypeOK, RequestInv
<1> QED
  BY <1>1, QuietRegister DEF Start

\* A sign-in that answers makes a promise.
LEMMA LoginRegister ==
    ASSUME Inv, Lineage, Inv', NEW r \in Requests, NEW n \in Tokens, Login(r, n)
    PROVE  Register!Grant(n)
<1> USE DEF Login, AnswerWithToken
<1>0. n \notin issued /\ pc[r] = "idle" /\ op[r] = "login"
  BY DEF Fresh, Inv, RequestInv
<1>1. \A t \in Tokens : SpentOnRotation(t)' <=> SpentOnRotation(t)
  BY <1>0 DEF SpentOnRotation, Inv, TypeOK
<1>2. \A t \in Tokens \ {n} : Worth(t)' = Worth(t)
  BY <1>1, SameWorth
<1>3. ~SpentOnRotation(n) /\ blacklist[n] = "clear"
  BY <1>0 DEF SpentOnRotation, Lineage, RowsOfIssued, KnownInv, Inv, RequestInv
<1>4. Worth(n) = "unused" /\ Worth(n)' = "valid"
  BY <1>0, <1>1, <1>3, WorthOf DEF Worth
<1>5. \A t \in Tokens : Heirs(t)' = Heirs(t)
  BY <1>0, NoTokenIsNone DEF Heirs, Kept, Inv, TypeOK
<1> QED
  BY <1>2, <1>4, <1>5 DEF Register!Grant, Heirs

\* A rotation that answers promises a successor.
LEMMA AnswerRotationRegister ==
    ASSUME Inv, Lineage, Inv', NEW r \in Requests, NEW n \in Tokens,
           AnswerRotation(r, n)
    PROVE  \E t \in Tokens : Register!Redeem(t, n)
<1> USE DEF AnswerRotation, AnswerWithToken, Written
<1>0. n \in Tokens \ issued /\ pc[r] = "write" /\ op[r] = "rotation"
  BY DEF Fresh
<1>1. PICK t \in subject[r] : parent' = [parent EXCEPT ![n] = t]
  OBVIOUS
<1>2. /\ t \in Tokens /\ t \in issued /\ subject[r] = {t} /\ entered[r] = {t}
      /\ t # n /\ blacklist[t] = "clear" /\ t # NoToken
  BY <1>0, <1>1, NoTokenIsNone
     DEF Inv, TypeOK, RequestInv, Lineage, KnownInv, Blacklisted
<1>3. ~SpentOnRotation(t)
  BY <1>0, <1>2 DEF SpentOnRotation, Inv, EntriesExclusive
<1>4. SpentOnRotation(t)'
  BY <1>0, <1>2 DEF SpentOnRotation, Inv, TypeOK
<1>5. \A s \in Tokens \ {t} : SpentOnRotation(s)' <=> SpentOnRotation(s)
  BY <1>0, <1>2 DEF SpentOnRotation, Inv, TypeOK
<1>6. \A s \in Tokens \ {t, n} : Worth(s)' = Worth(s)
  BY <1>0, <1>5, SameWorth
<1>7. Worth(t) = "valid" /\ Worth(t)' = "promised"
  BY <1>2, <1>3, <1>4, WorthOf DEF Worth
<1>8. ~SpentOnRotation(n) /\ blacklist[n] = "clear"
  BY <1>0 DEF SpentOnRotation, Lineage, RowsOfIssued, KnownInv, Inv, RequestInv
<1>9. Worth(n) = "unused" /\ Worth(n)' = "valid"
  BY <1>0, <1>2, <1>5, <1>8, WorthOf DEF Worth
<1>10. Kept' = Kept \cup {n} /\ n \notin Kept
  BY <1>0 DEF Kept, Inv, TypeOK
<1>11. \A m \in Kept : parent'[m] = parent[m] /\ parent[m] # t
  <2>1. ASSUME NEW m \in Kept, parent[m] = t PROVE FALSE
    <3>1. SpentWith(m)
      BY <1>2, <2>1 DEF Inv, SuccessorsTied
    <3> QED
      BY <1>2, <1>3, <2>1, <3>1 DEF SpentWith, SpentOnRotation
  <2> QED
    BY <1>1, <1>10, <2>1 DEF Inv, TypeOK
<1>12. parent'[n] = t
  BY <1>1 DEF Inv, TypeOK
<1>13. Heirs(t)' = {n} /\ \A s \in Tokens \ {t} : Heirs(s)' = Heirs(s)
  BY <1>10, <1>11, <1>12 DEF Heirs
<1>14. Register!Redeem(t, n)
  <2> DEFINE standing == [s \in Tokens |-> Worth(s)]
             heirs == [s \in Tokens |-> Heirs(s)]
  <2>1. standing[t] = "valid" /\ standing[n] = "unused"
    BY <1>2, <1>7, <1>9
  <2>2. standing' = [standing EXCEPT ![t] = "promised", ![n] = "valid"]
    BY <1>2, <1>6, <1>7, <1>9
  <2>3. heirs' = [heirs EXCEPT ![t] = {n}]
    BY <1>2, <1>13
  <2> QED
    BY <2>1, <2>2, <2>3 DEF Register!Redeem, Heirs
<1> QED
  BY <1>2, <1>14

\* Which token an answered request spends: a rotation the one whose entry it
\* holds, and no other transaction holds that.
LEMMA SpentByRequest ==
    ASSUME Inv, NEW r \in Requests, NEW t \in entered[r],
           pc[r] = "answered"
    PROVE  /\ t \in Tokens /\ blacklist[t] = "clear"
           /\ SpentOnRotation(t) <=> op[r] = "rotation"
<1>1. t \in Tokens /\ blacklist[t] = "clear"
  BY DEF Inv, TypeOK, RequestInv, Blacklisted
<1>2. ASSUME SpentOnRotation(t) PROVE op[r] = "rotation"
  <2>1. PICK q \in Requests : pc[q] = "answered" /\ op[q] = "rotation" /\ t \in entered[q]
    BY <1>1, <1>2 DEF SpentOnRotation
  <2> QED
    BY <2>1 DEF Inv, EntriesExclusive
<1>3. op[r] = "rotation" => SpentOnRotation(t)
  BY DEF SpentOnRotation
<1> QED
  BY <1>1, <1>2, <1>3

\* A transaction that ends gives up the tokens it holds and no others.
LEMMA EndRegister ==
    ASSUME Inv, NEW r \in Requests, pc[r] = "answered", Finish(r),
           NEW t \in Tokens \ entered[r], blacklist'[t] = blacklist[t],
           issued' = issued
    PROVE  Worth(t)' = Worth(t)
<1>1. \A q \in Requests \ {r} : UNCHANGED <<op[q], pc[q], entered[q]>>
  BY DEF Finish, Inv, TypeOK
<1>2. pc'[r] = "idle"
  BY DEF Finish, Inv, TypeOK
<1>3. SpentOnRotation(t)' <=> SpentOnRotation(t)
  BY <1>1, <1>2 DEF SpentOnRotation
<1> QED
  BY <1>3 DEF Worth

\* A commit redeems, settles or revokes, one step of the register.
LEMMA CommitRegister ==
    ASSUME Inv, Lineage, Inv', NEW r \in Requests, Commit(r)
    PROVE  Register!RegisterNext
<1> USE DEF Commit, history
<1>0. /\ pc[r] = "answered" /\ ~doomed[r] /\ Finish(r)
      /\ issued' = issued /\ Kept' = Kept /\ parent' = parent
  BY DEF Kept
<1>1. \A t \in Tokens \ entered[r] : Worth(t)' = Worth(t)
  <2> TAKE t \in Tokens \ entered[r]
  <2>1. blacklist'[t] = blacklist[t]
    OBVIOUS
  <2> QED
    BY <1>0, <2>1, EndRegister
<1>2. \A t \in Tokens : Heirs(t)' = Heirs(t)
  BY <1>0 DEF Heirs
<1>3. \A t \in entered[r] : t \in Tokens /\ t \in issued
  BY DEF Inv, TypeOK, RequestInv, Lineage, KnownInv
<1>4. CASE op[r] = "rotation"
  <2>1. PICK t \in Tokens : entered[r] = {t}
    BY <1>0, <1>4 DEF Inv, RequestInv, Lineage, KnownInv
  <2>2. Worth(t) = "promised"
    BY <1>0, <1>3, <1>4, <2>1, SpentByRequest, WorthOf
  <2>3. blacklist'[t] = "rotation"
    BY <1>4, <2>1 DEF Reason, UserRevocations
  <2>4. Worth(t)' = "settled"
    BY <1>0, <1>3, <2>1, <2>3 DEF Worth
  <2>5. Register!Settle(t)
    BY <1>1, <1>2, <2>1, <2>2, <2>4 DEF Register!Settle, Heirs
  <2> QED
    BY <2>5 DEF Register!RegisterNext
<1>5. CASE op[r] # "rotation"
  <2>1. ASSUME NEW t \in entered[r]
        PROVE  Worth(t) = "valid" /\ Worth(t)' = "revoked"
    <3>1. Worth(t) = "valid"
      BY <1>0, <1>3, <1>5, SpentByRequest, WorthOf
    <3>2. op[r] \in UserRevocations
      BY <1>5 DEF Inv, RequestInv, TypeOK, Ops, UserRevocations
    <3>3. blacklist'[t] = "user"
      BY <1>3, <3>2 DEF Reason
    <3> QED
      BY <1>0, <1>3, <3>1, <3>3 DEF Worth
  <2>2. \A t \in Tokens : Worth(t)' \in Register!Standing
    <3>1. \A t \in Tokens : Worth(t) \in Register!Standing
      BY WorthOf DEF Register!Standing
    <3> QED
      BY <1>1, <2>1, <3>1 DEF Register!Standing
  <2>3. \A t \in Tokens : Worth(t)' = Worth(t) \/ (Worth(t) = "valid" /\ Worth(t)' = "revoked")
    BY <1>1, <2>1
  <2>4. Register!Revoke
    BY <1>2, <2>2, <2>3 DEF Register!Revoke, Heirs
  <2> QED
    BY <2>4 DEF Register!RegisterNext
<1> QED
  BY <1>4, <1>5

\* A commit that raises keeps nothing of its request.
LEMMA CommitRaisesRegister ==
    ASSUME Inv, Lineage, Inv', NEW r \in Requests, CommitRaises(r)
    PROVE  Register!RegisterNext \/ UNCHANGED Register!register
<1> USE DEF CommitRaises, tables
<1>0. /\ pc[r] = "answered" /\ Finish(r) /\ issued' = issued
      /\ blacklist' = blacklist /\ parent' = parent
      /\ Kept' = Kept \ minted[r]
  BY DEF Kept
<1>1. \A t \in Tokens \ entered[r] : Worth(t)' = Worth(t)
  BY <1>0, EndRegister
<1>2. \A t \in entered[r] : t \in Tokens /\ t \in issued
  BY DEF Inv, TypeOK, RequestInv, Lineage, KnownInv
<1>3. ASSUME NEW t \in entered[r] PROVE Worth(t)' = "valid"
  <2>1. \A q \in Requests \ {r} : t \notin entered[q]
    BY DEF Inv, EntriesExclusive
  <2>2. ~SpentOnRotation(t)'
    BY <1>0, <1>3, <2>1, SpentByRequest DEF SpentOnRotation, Finish, Inv, TypeOK
  <2>3. t \in Tokens /\ t \in issued' /\ blacklist'[t] = "clear"
    BY <1>0, <1>2, SpentByRequest
  <2> QED
    BY <2>2, <2>3 DEF Worth
<1>4. CASE op[r] = "rotation"
  <2>1. PICK t \in Tokens : entered[r] = {t}
    <3>1. doomed[r] => op[r] # "rotation"
      BY DEF Inv, RequestInv
    <3> QED
      BY <1>0, <1>4, <3>1 DEF Inv, TypeOK, RequestInv, Lineage, KnownInv
  <2>2. PICK n \in Kept : minted[r] = {n} /\ parent[n] = t
    BY <1>0, <1>4, <2>1 DEF Lineage, MintedInv
  <2>3. Worth(t) = "promised"
    BY <1>0, <1>2, <1>4, <2>1, SpentByRequest, WorthOf
  <2>4. Heirs(t)' = {}
    BY <1>0, <2>1, <2>2, NoTokenIsNone DEF Heirs, Inv, SingleUse
  <2>5. \A s \in Tokens \ {t} : Heirs(s)' = Heirs(s)
    BY <1>0, <2>2 DEF Heirs
  <2>6. Register!TakeBack(t)
    <3> DEFINE standing == [s \in Tokens |-> Worth(s)]
               heirs == [s \in Tokens |-> Heirs(s)]
    <3>1. standing[t] = "promised"
      BY <2>3
    <3>2. standing' = [standing EXCEPT ![t] = "valid"]
      BY <1>1, <1>3, <2>1
    <3>3. heirs' = [heirs EXCEPT ![t] = {}]
      BY <2>4, <2>5
    <3> QED
      BY <3>1, <3>2, <3>3 DEF Register!TakeBack, Heirs
  <2> QED
    BY <2>6 DEF Register!RegisterNext
<1>5. CASE op[r] # "rotation"
  <2>1. \A t \in Tokens : Heirs(t)' = Heirs(t)
    BY <1>0, <1>5, NoTokenIsNone DEF Heirs, Lineage, MintedInv
  <2>2. \A t \in entered[r] : Worth(t) = "valid"
    BY <1>0, <1>2, <1>5, SpentByRequest, WorthOf
  <2>3. \A t \in Tokens : Worth(t)' = Worth(t)
    BY <1>1, <1>3, <2>2
  <2> QED
    BY <2>1, <2>3 DEF Register!register, Heirs
<1> QED
  BY <1>4, <1>5

\* Every step is a step of the register or none.
LEMMA NextRegister ==
    Inv /\ Lineage /\ Inv' /\ [Next]_vars => [Register!RegisterNext]_(Register!register)
<1> SUFFICES ASSUME Inv, Lineage, Inv', [Next]_vars
             PROVE  Register!RegisterNext \/ UNCHANGED Register!register
  OBVIOUS
<1>1. ASSUME NEW r \in Requests, Begin(r)
      PROVE  Register!RegisterNext \/ UNCHANGED Register!register
  <2>1. ASSUME NEW n \in Tokens, Login(r, n) PROVE Register!RegisterNext
    BY <2>1, LoginRegister DEF Register!RegisterNext
  <2>2. ASSUME ~\E n \in Tokens : Login(r, n) PROVE UNCHANGED Register!register
    BY <1>1, <2>2, StartRegister DEF Begin, Refresh, Logout, RevokeSession, RevokeAll,
       MfaReset, PasswordReset, Ops, UserRevocations
  <2> QED
    BY <2>1, <2>2
<1>2. ASSUME NEW r \in Requests, Statement(r) \/ LockStep(r) \/ Abort(r)
      PROVE  Register!RegisterNext \/ UNCHANGED Register!register
  <2>1. ASSUME NEW n \in Tokens, AnswerRotation(r, n) PROVE Register!RegisterNext
    BY <2>1, AnswerRotationRegister DEF Register!RegisterNext
  <2> QED
    BY <1>2, <2>1, StatementRegister, CommitRegister, CommitRaisesRegister
       DEF Statement, LockStep
<1>3. ASSUME NEW t \in Tokens, Expire(t) PROVE UNCHANGED Register!register
  <2>1. UNCHANGED tables /\ UNCHANGED history /\ UNCHANGED work
    BY <1>3 DEF Expire
  <2> QED
    BY <2>1, QuietRegister DEF work
<1>4. CASE UNCHANGED vars
  <2>1. UNCHANGED tables /\ UNCHANGED history /\ UNCHANGED work
    BY <1>4 DEF vars, tables, history, work
  <2> QED
    BY <2>1, QuietRegister DEF work
<1> QED
  BY <1>1, <1>2, <1>3, <1>4 DEF Next

\* For any number of requests and tokens, and whichever commits are lost, the
\* statements of rotations, sign-ins and revocations amount to whole steps of
\* the register: a token is exchanged once, and an exchange that was stored or a
\* revocation is never undone (_revoke_refresh_token and get_db_session).
THEOREM RegisterIsImplemented == Spec => ImplementsRegister
<1>1. Spec => [](Inv /\ Lineage)
  BY InitInv, InitLineage, NextInv, NextLineage, PTL DEF Spec
<1> QED
  BY <1>1, InitRegister, NextRegister, PTL
     DEF Spec, ImplementsRegister, Register!RegisterSpec

-----------------------------------------------------------------------------
(* AccountTokens.  The address of an account that is not verified is the one *)
(* it was registered with, and its verification links went there: only a     *)
(* change of the address, which verifies it, makes another.  And while no    *)
(* two requests of a user and purpose overlap, the one under way is the only *)
(* writer of their links: the link it follows stays unused, the one it       *)
(* issues is the newest, and what it revokes is what works when it ends.     *)

LinkInv(t) ==
    /\ t \in Issued =>
           /\ link[t].user \in Existing /\ link[t].inbox = link[t].to
           /\ link[t].purpose = "verify" /\ ~account[link[t].user].verified =>
                  link[t].to = account[link[t].user].email
           /\ <<link[t].user, link[t].purpose>> \notin crowded =>
                  /\ followed[t] <= 1 /\ (~link[t].used => followed[t] = 0)
                  /\ ~link[t].used /\ ~link[t].revoked =>
                         \A s \in LinksOf(link[t].user, link[t].purpose) : s <= t
    /\ t \notin Issued => followed[t] = 0

\* What a request has read of the links it follows or issues.
ReadInv(r) ==
    LET j == job[r] IN
    /\ j.kind # "register" => j.user \in Existing
    /\ j.kind # "register" /\ j.purpose = "verify" /\ ~account[j.user].verified =>
           j.to = account[j.user].email
    /\ j.kind = "register" => j.purpose = "verify" /\ j.writes
    /\ j.kind = "follow" => /\ j.link \in LinksOf(j.user, j.purpose)
                            /\ link[j.link].to = j.to
    /\ j.kind # "follow" => j.link \notin Issued
    /\ j.revokes \subseteq LinksOf(j.user, j.purpose) \ {j.link}
    /\ j.flushed /\ j.kind = "register" => j.user \notin Existing

\* What it knows as long as it is alone.
AloneInv(r) ==
    LET j == job[r] IN
    <<j.user, j.purpose>> \notin crowded =>
        /\ j.kind = "follow" => ~link[j.link].used /\ ~link[j.link].revoked
        /\ j.kind # "follow" => \A s \in LinksOf(j.user, j.purpose) : s < j.link
        /\ j.flushed => j.revokes = Outstanding(j.user, j.purpose) \ {j.link}

\* Two requests issue different links, are crowded if they are of one user and
\* purpose, and do not both write one user.
PairInv(q, r) ==
    /\ job[q].link = job[r].link => job[q].kind = "follow" /\ job[r].kind = "follow"
    /\ job[q].user = job[r].user /\ job[q].purpose = job[r].purpose =>
           <<job[q].user, job[q].purpose>> \in crowded
    /\ job[q].flushed /\ job[r].flushed /\ job[q].writes /\ job[r].writes =>
           job[q].user # job[r].user

AccountsInv ==
    /\ AccountsOK
    /\ \A t \in Links : LinkInv(t)
    /\ \A r \in Mailers : Busy(r) => ReadInv(r) /\ AloneInv(r)
    /\ \A q, r \in Mailers : Busy(q) /\ Busy(r) /\ q # r => PairInv(q, r)
    /\ AddressesAreProven

-----------------------------------------------------------------------------
\* The link a request would issue is newer than all others.
LEMMA NextLinkIsNew ==
    ASSUME AccountsOK
    PROVE  Reserved \subseteq Links /\ \A s \in Reserved : s < NextLink
<1> DEFINE D == {t \in Links : \E s \in Reserved : t <= s}
<1>1. Reserved \subseteq Links
  BY DEF Reserved, Issued, Busy, AccountsOK, Jobs
<1>2. IsFiniteSet(D) /\ Cardinality(D) \in Nat
  <2>1. IsFiniteSet(Links)
    BY LinksAreBounded, FS_Interval DEF Links
  <2> QED
    BY <2>1, FS_Subset, FS_CardinalityType
<1>3. ASSUME NEW s \in Reserved PROVE s < NextLink
  <2>1. s \in Nat \ {0} /\ s <= MaxLinks
    BY <1>1, LinksAreBounded DEF Links
  <2>2. Cardinality(1..s) = s
    BY <2>1, FS_Interval
  <2>3. 1..s \subseteq D
    BY <2>1, LinksAreBounded DEF Links
  <2> HIDE DEF D
  <2>4. s <= Cardinality(D)
    <3>1. Cardinality(1..s) <= Cardinality(D)
      BY <1>2, <2>3, FS_Subset
    <3> QED
      BY <2>2, <3>1
  <2>5. NextLink = Cardinality(D) + 1
    BY DEF NextLink, D
  <2> QED
    BY <1>2, <2>1, <2>4, <2>5
<1> QED
  BY <1>1, <1>3

\* Initially no links are issued, and accounts have been verified long ago.
LEMMA AccountsInitInv == AccountsInit => AccountsInv
<1> SUFFICES ASSUME AccountsInit PROVE AccountsInv
  OBVIOUS
<1>1. Issued = {} /\ \A r \in Mailers : ~Busy(r)
  BY DEF AccountsInit, Issued, Busy
<1>2. \A a \in Addresses : VerifiedWith(a) \in AccountRows
  BY DEF VerifiedWith, AccountRows
<1>3. account \in [Users -> AccountRows \cup {Nobody}]
  BY <1>2 DEF AccountsInit
<1>4. \A u \in Existing : account[u] \in AccountRows
  BY <1>3 DEF Existing
<1>5. proven \in [Users -> SUBSET Addresses]
  <2>1. \A u \in Existing : account[u].email \in Addresses
    BY <1>4 DEF AccountRows
  <2> QED
    BY <2>1 DEF AccountsInit
<1>6. AccountsOK
  BY <1>3, <1>5 DEF AccountsInit, AccountsOK
<1>7. \A t \in Links : LinkInv(t)
  BY <1>1 DEF AccountsInit, LinkInv
<1>8. AddressesAreProven
  <2>1. \A u \in Existing : u \in Users /\ proven[u] = {account[u].email}
    BY DEF AccountsInit, Existing
  <2> QED
    BY <2>1 DEF AddressesAreProven
<1> QED
  BY <1>1, <1>6, <1>7, <1>8 DEF AccountsInv

-----------------------------------------------------------------------------
(* Requests begin and end. *)

\* A request that begins knows what it has read, and is crowded by another of its
\* user and purpose.
LEMMA BeginJobInv ==
    ASSUME AccountsInv, NEW r \in Mailers, NEW kind \in {"register", "issue", "follow"},
           NEW u \in Users, NEW p \in Purposes, NEW t, NEW to \in Addresses,
           NEW writes \in BOOLEAN, BeginJob(r, kind, u, p, t, to, writes),
           kind # "register" =>
               u \in Existing /\ (p = "verify" /\ ~account[u].verified => to = account[u].email),
           kind = "register" => p = "verify" /\ writes,
           kind = "follow" => /\ t \in LinksOf(u, p) /\ link[t].to = to
                              /\ ~link[t].used /\ ~link[t].revoked,
           kind # "follow" => t = NextLink
    PROVE  AccountsInv'
<1> DEFINE j == [kind |-> kind, user |-> u, purpose |-> p, link |-> t, to |-> to,
                 writes |-> writes, revokes |-> {}, mailed |-> FALSE, flushed |-> FALSE]
<1>1. /\ ~Busy(r) /\ t \in Links /\ job' = [job EXCEPT ![r] = j]
      /\ crowded' = crowded \cup Crowd(u, p)
      /\ UNCHANGED <<account, link, age, proven, followed>>
  BY DEF BeginJob
<1>2. job'[r] = j /\ \A q \in Mailers \ {r} : job'[q] = job[q]
  BY <1>1 DEF AccountsInv, AccountsOK
<1>3. j \in Jobs
  BY <1>1 DEF Jobs
<1>4. AccountsOK'
  <2>1. crowded' \subseteq Users \X Purposes
    BY <1>1 DEF Crowd, AccountsInv, AccountsOK
  <2>2. job' \in [Mailers -> Jobs \cup {Nobody}]
    BY <1>1, <1>3 DEF AccountsInv, AccountsOK
  <2> QED
    BY <1>1, <2>1, <2>2 DEF AccountsInv, AccountsOK
<1>5. /\ Existing' = Existing /\ Issued' = Issued
      /\ \A v, o : LinksOf(v, o)' = LinksOf(v, o) /\ Outstanding(v, o)' = Outstanding(v, o)
  BY <1>1 DEF Existing, Issued, LinksOf, Outstanding
<1>6. \A s \in Links : LinkInv(s)'
  BY <1>1, <1>5 DEF AccountsInv, LinkInv
<1>7. kind # "follow" => /\ t \notin Issued /\ \A s \in Issued : s < t
                         /\ \A q \in Mailers : Busy(q) => job[q].link < t
  <2>1. \A s \in Reserved : s \in Links /\ s < NextLink
    BY NextLinkIsNew DEF AccountsInv
  <2> QED
    BY <1>1, <2>1, LinksAreBounded DEF Reserved, Links
<1>8. ReadInv(r)' /\ AloneInv(r)'
  <2>1. ReadInv(r)'
    BY <1>1, <1>2, <1>5, <1>7 DEF ReadInv
  <2>2. LinksOf(u, p) \subseteq Issued
    BY DEF LinksOf
  <2>3. AloneInv(r)'
    BY <1>1, <1>2, <1>5, <1>7, <2>2 DEF AloneInv
  <2> QED
    BY <2>1, <2>3
<1>9. ASSUME NEW q \in Mailers \ {r}, Busy(q)'
      PROVE  Busy(q) /\ ReadInv(q)' /\ AloneInv(q)'
  <2>1. Busy(q) /\ ReadInv(q) /\ AloneInv(q)
    BY <1>2, <1>9 DEF AccountsInv, Busy
  <2> QED
    BY <1>1, <1>2, <1>5, <2>1 DEF ReadInv, AloneInv
<1>10. ASSUME NEW q \in Mailers \ {r}, Busy(q)'
       PROVE  PairInv(q, r)' /\ PairInv(r, q)'
  <2>1. Busy(q) /\ ReadInv(q) /\ job[q] \in Jobs
    BY <1>9, <1>10 DEF AccountsInv, AccountsOK, Busy
  <2>2. job[q].link = t => job[q].kind = "follow" /\ kind = "follow"
    <3>1. job[q].kind # "follow" => job[q].link \notin Issued
      BY <2>1 DEF ReadInv
    <3>2. kind = "follow" => t \in Issued
      BY DEF LinksOf
    <3>3. t \in Int
      BY <1>1 DEF Links
    <3> QED
      BY <1>7, <2>1, <3>1, <3>2, <3>3
  <2>3. job[q].user = u /\ job[q].purpose = p => <<u, p>> \in crowded'
    BY <1>1, <2>1 DEF Crowd
  <2> QED
    BY <1>2, <2>2, <2>3 DEF PairInv
<1>11. \A q, m \in Mailers : Busy(q)' /\ Busy(m)' /\ q # m => PairInv(q, m)'
  <2>1. ASSUME NEW q \in Mailers \ {r}, NEW m \in Mailers \ {r}, Busy(q)', Busy(m)', q # m
        PROVE  PairInv(q, m)'
    <3>1. PairInv(q, m)
      BY <1>9, <2>1 DEF AccountsInv
    <3> QED
      BY <1>1, <1>2, <3>1 DEF PairInv
  <2> QED
    BY <1>10, <2>1
<1>12. AddressesAreProven'
  BY <1>1, <1>5 DEF AccountsInv, AddressesAreProven
<1> QED
  BY <1>4, <1>6, <1>8, <1>9, <1>11, <1>12 DEF AccountsInv

\* A request that ends without a commit leaves nothing.
LEMMA EndInv ==
    ASSUME AccountsInv, NEW r \in Mailers, EndJob(r),
           UNCHANGED <<account, link, age, proven, followed, crowded>>
    PROVE  AccountsInv'
<1>1. /\ job' = [job EXCEPT ![r] = Nobody] /\ job'[r] = Nobody
      /\ \A q \in Mailers \ {r} : job'[q] = job[q]
  BY DEF EndJob, AccountsInv, AccountsOK
<1>2. /\ Existing' = Existing /\ Issued' = Issued
      /\ \A v, o : LinksOf(v, o)' = LinksOf(v, o) /\ Outstanding(v, o)' = Outstanding(v, o)
  BY DEF Existing, Issued, LinksOf, Outstanding
<1>3. AccountsOK'
  BY <1>1 DEF AccountsInv, AccountsOK
<1>4. \A t \in Links : LinkInv(t)'
  BY <1>2 DEF AccountsInv, LinkInv
<1>5. ASSUME NEW q \in Mailers, Busy(q)'
      PROVE  q # r /\ job'[q] = job[q] /\ Busy(q) /\ ReadInv(q)' /\ AloneInv(q)'
  <2>1. q # r /\ job'[q] = job[q] /\ Busy(q)
    BY <1>1, <1>5 DEF Busy
  <2>2. ReadInv(q) /\ AloneInv(q)
    BY <2>1 DEF AccountsInv
  <2> QED
    BY <1>2, <2>1, <2>2 DEF ReadInv, AloneInv
<1>6. \A q, m \in Mailers : Busy(q)' /\ Busy(m)' /\ q # m => PairInv(q, m)'
  BY <1>5 DEF AccountsInv, PairInv
<1>7. AddressesAreProven'
  BY <1>2 DEF AccountsInv, AddressesAreProven
<1> QED
  BY <1>3, <1>4, <1>5, <1>6, <1>7 DEF AccountsInv

\* A request that flushes revokes what works, and holds what it writes.
LEMMA FlushInv ==
    ASSUME AccountsInv, NEW r \in Mailers, NEW d \in Deliveries, Flush(r, d)
    PROVE  AccountsInv'
<1> DEFINE j == job[r]
           revoked == Outstanding(j.user, j.purpose) \ {j.link}
           claimed == Holds(r) \cup {<<"link", t>> : t \in revoked}
           after == [j EXCEPT !.flushed = TRUE, !.revokes = revoked,
                              !.mailed = d = "sent" /\ j.kind # "follow"]
<1>1. /\ Busy(r) /\ ~j.flushed /\ \A q \in Flushed : Holds(q) \cap claimed = {}
      /\ UNCHANGED <<account, link, age, proven, followed, crowded>>
  BY DEF Flush
<1>2. CASE Clashes(r) \/ Refused(j, d)
  BY <1>1, <1>2, EndInv DEF Flush
<1>3. CASE ~(Clashes(r) \/ Refused(j, d))
  <2>1. job' = [job EXCEPT ![r] = after]
    BY <1>3 DEF Flush
  <2>2. j \in Jobs /\ ReadInv(r) /\ AloneInv(r)
    BY <1>1 DEF AccountsInv, AccountsOK, Busy
  <2>3. /\ revoked \subseteq LinksOf(j.user, j.purpose) \ {j.link}
        /\ revoked \subseteq Links
    BY DEF Outstanding, LinksOf, Issued
  <2>4. /\ after \in Jobs /\ after.flushed /\ after.revokes = revoked
        /\ after.kind = j.kind /\ after.user = j.user /\ after.purpose = j.purpose
        /\ after.link = j.link /\ after.to = j.to /\ after.writes = j.writes
    BY <2>2, <2>3 DEF Jobs
  <2>5. job'[r] = after /\ \A q \in Mailers \ {r} : job'[q] = job[q]
    BY <2>1 DEF AccountsInv, AccountsOK
  <2> HIDE DEF after
  <2>6. /\ Existing' = Existing /\ Issued' = Issued
        /\ \A v, o : LinksOf(v, o)' = LinksOf(v, o) /\ Outstanding(v, o)' = Outstanding(v, o)
    BY <1>1 DEF Existing, Issued, LinksOf, Outstanding
  <2>7. AccountsOK'
    BY <1>1, <2>1, <2>4 DEF AccountsInv, AccountsOK
  <2>8. \A t \in Links : LinkInv(t)'
    BY <1>1, <2>6 DEF AccountsInv, LinkInv
  <2>9. j.kind = "register" => j.user \notin Existing
    BY <1>3 DEF Clashes
  <2>10. ReadInv(r)' /\ AloneInv(r)'
    <3>1. ReadInv(r)'
      BY <1>1, <2>2, <2>3, <2>4, <2>5, <2>6, <2>9 DEF ReadInv
    <3>2. AloneInv(r)'
      BY <1>1, <2>2, <2>4, <2>5, <2>6 DEF AloneInv
    <3> QED
      BY <3>1, <3>2
  <2>11. ASSUME NEW q \in Mailers \ {r}, Busy(q)'
         PROVE  Busy(q) /\ ReadInv(q)' /\ AloneInv(q)' /\ PairInv(q, r)' /\ PairInv(r, q)'
    <3>1. Busy(q) /\ ReadInv(q) /\ AloneInv(q) /\ PairInv(q, r) /\ PairInv(r, q)
      BY <1>1, <2>5, <2>11 DEF AccountsInv, Busy
    <3>2. ReadInv(q)' /\ AloneInv(q)'
      BY <1>1, <2>5, <2>6, <3>1 DEF ReadInv, AloneInv
    <3>3. job[q].flushed /\ job[q].writes /\ j.writes => job[q].user # j.user
      <4> SUFFICES ASSUME job[q].flushed, job[q].writes, j.writes, job[q].user = j.user
                   PROVE  FALSE
        OBVIOUS
      <4>1. q \in Flushed
        BY <3>1 DEF Flushed
      <4>2. <<"user", j.user>> \in Holds(q) /\ <<"user", j.user>> \in Holds(r)
        BY DEF Holds
      <4> QED
        BY <1>1, <4>1, <4>2
    <3> QED
      BY <1>1, <2>4, <2>5, <3>1, <3>2, <3>3 DEF PairInv
  <2>12. \A q, m \in Mailers : Busy(q)' /\ Busy(m)' /\ q # m => PairInv(q, m)'
    <3>1. ASSUME NEW q \in Mailers \ {r}, NEW m \in Mailers \ {r}, Busy(q)', Busy(m)', q # m
          PROVE  PairInv(q, m)'
      <4>1. PairInv(q, m)
        BY <2>11, <3>1 DEF AccountsInv
      <4> QED
        BY <1>1, <2>5, <4>1 DEF PairInv
    <3> QED
      BY <2>11, <3>1
  <2>13. AddressesAreProven'
    BY <1>1, <2>6 DEF AccountsInv, AddressesAreProven
  <2> QED
    BY <2>7, <2>8, <2>10, <2>11, <2>12, <2>13 DEF AccountsInv
<1> QED
  BY <1>2, <1>3

-----------------------------------------------------------------------------
(* Commits. *)

\* What a commit does to an account: it verifies it, or leaves the address and
\* the verification as they are.
LEMMA RowAfterCommit ==
    ASSUME AccountsInv, NEW r \in Mailers, CommitJob(r)
    PROVE  LET j == job[r] IN
           /\ Busy(r) /\ j.flushed /\ j \in Jobs
           /\ account' \in [Users -> AccountRows \cup {Nobody}]
           /\ \A u \in Users \ {j.user} : account'[u] = account[u]
           /\ account'[j.user] = RowAfter(r) /\ account'[j.user] \in AccountRows
           /\ Existing' = Existing \cup {j.user}
           /\ \A u \in Existing : ~account'[u].verified =>
                  ~account[u].verified /\ account'[u].email = account[u].email
<1> DEFINE j == job[r]
           row == account[j.user]
<1>1. Busy(r) /\ j.flushed /\ j \in Jobs /\ ReadInv(r)
  BY DEF CommitJob, Flushed, AccountsInv, AccountsOK, Busy
<1>2. /\ j.user \in Users /\ j.to \in Addresses /\ j.writes \in BOOLEAN
      /\ j.kind \in {"register", "issue", "follow"} /\ j.purpose \in Purposes
  BY <1>1 DEF Jobs
<1>3. j.kind # "register" => j.user \in Existing /\ row \in AccountRows
  BY <1>1 DEF ReadInv, Existing, AccountsInv, AccountsOK
<1>4. /\ RowAfter(r) \in AccountRows
      /\ j.kind # "register" /\ ~RowAfter(r).verified =>
             ~row.verified /\ RowAfter(r).email = row.email
  <2>1. CASE j.kind = "register"
    <3>1. RowAfter(r) = [email |-> j.to, pending |-> Nobody, verified |-> FALSE,
                         leaving |-> FALSE]
      BY <2>1 DEF RowAfter
    <3> QED
      BY <1>2, <2>1, <3>1 DEF AccountRows
  <2>2. CASE j.kind = "issue"
    <3>1. RowAfter(r) = IF j.writes THEN [row EXCEPT !.pending = j.to] ELSE row
      BY <2>2 DEF RowAfter
    <3> QED
      BY <1>2, <1>3, <2>2, <3>1 DEF AccountRows
  <2>3. CASE j.kind = "follow" /\ j.purpose = "change"
    <3>1. RowAfter(r) = [row EXCEPT !.email = j.to, !.pending = Nobody, !.verified = TRUE]
      BY <2>3 DEF RowAfter
    <3> QED
      BY <1>2, <1>3, <2>3, <3>1 DEF AccountRows
  <2>4. CASE j.kind = "follow" /\ j.purpose = "verify"
    <3>1. RowAfter(r) = [row EXCEPT !.verified = TRUE]
      BY <2>4 DEF RowAfter
    <3> QED
      BY <1>2, <1>3, <2>4, <3>1 DEF AccountRows
  <2>5. CASE j.kind = "follow" /\ j.purpose = "reset"
    <3>1. RowAfter(r) = row
      BY <2>5 DEF RowAfter
    <3> QED
      BY <1>3, <2>5, <3>1
  <2> QED
    BY <1>2, <2>1, <2>2, <2>3, <2>4, <2>5 DEF Purposes
<1>5. account' = [account EXCEPT ![j.user] = RowAfter(r)]
  BY DEF CommitJob
<1>6. /\ account' \in [Users -> AccountRows \cup {Nobody}]
      /\ account'[j.user] = RowAfter(r)
      /\ \A u \in Users \ {j.user} : account'[u] = account[u]
  BY <1>2, <1>4, <1>5 DEF AccountsInv, AccountsOK
<1>7. RowAfter(r) # Nobody
  BY <1>4, NobodyIsNoRow
<1>8. Existing' = Existing \cup {j.user}
  BY <1>2, <1>6, <1>7 DEF Existing
<1>9. \A u \in Existing : ~account'[u].verified =>
          ~account[u].verified /\ account'[u].email = account[u].email
  <2>1. j.kind = "register" => j.user \notin Existing
    BY <1>1 DEF ReadInv
  <2>2. \A u \in Existing : u \in Users
    BY DEF Existing
  <2> QED
    BY <1>4, <1>6, <2>1, <2>2
<1> QED
  BY <1>1, <1>4, <1>6, <1>8, <1>9

\* What a commit does to the links: it issues or uses its own, and revokes some of
\* the same user and purpose.
LEMMA LinksAfterCommit ==
    ASSUME AccountsInv, NEW r \in Mailers, CommitJob(r)
    PROVE  LET j == job[r] IN
           /\ link' \in [Links -> LinkRows \cup {Nobody}]
           /\ Issued' = Issued \cup {j.link}
           /\ j.link \in Issued <=> j.kind = "follow"
           /\ \A t \in Issued :
                  /\ link'[t].user = link[t].user /\ link'[t].purpose = link[t].purpose
                  /\ link'[t].to = link[t].to /\ link'[t].inbox = link[t].inbox
                  /\ link'[t].used <=> link[t].used \/ t = j.link
                  /\ link'[t].revoked <=> link[t].revoked \/ t \in j.revokes
           /\ j.kind # "follow" =>
                  /\ link'[j.link].user = j.user /\ link'[j.link].purpose = j.purpose
                  /\ link'[j.link].to = j.to /\ link'[j.link].inbox = j.to
                  /\ ~link'[j.link].used /\ ~link'[j.link].revoked
           /\ \A u, p : LinksOf(u, p)' = LinksOf(u, p) \cup
                  (IF u = j.user /\ p = j.purpose THEN {j.link} ELSE {})
<1> DEFINE j == job[r]
           fresh == [user |-> j.user, purpose |-> j.purpose, to |-> j.to,
                     mailed |-> j.mailed, inbox |-> j.to, used |-> FALSE, revoked |-> FALSE]
<1>1. j \in Jobs /\ ReadInv(r)
  BY DEF CommitJob, Flushed, AccountsInv, AccountsOK, Busy
<1>2. /\ j.link \in Links /\ j.link \notin j.revokes
      /\ j.revokes \subseteq LinksOf(j.user, j.purpose)
      /\ j.link \in Issued <=> j.kind = "follow"
      /\ j.kind = "follow" => j.link \in LinksOf(j.user, j.purpose)
  BY <1>1 DEF Jobs, ReadInv, LinksOf
<1>3. \A t \in Issued : t \in Links /\ link[t] \in LinkRows
  BY DEF Issued, AccountsInv, AccountsOK
<1>4. fresh \in LinkRows
  BY <1>1 DEF Jobs, LinkRows
<1>5. link' = LinksAfter(r)
  BY DEF CommitJob
<1>6. ASSUME NEW t \in Links
      PROVE  link'[t] = IF t \in j.revokes THEN [link[t] EXCEPT !.revoked = TRUE]
                        ELSE IF t # j.link THEN link[t]
                        ELSE IF j.kind = "follow" THEN [link[t] EXCEPT !.used = TRUE]
                        ELSE fresh
  BY <1>5 DEF LinksAfter, MailedTo
<1>7. j.revokes \subseteq Issued
  BY <1>2 DEF LinksOf
<1> HIDE DEF fresh
<1>8. ASSUME NEW t \in Issued
      PROVE  /\ link'[t] \in LinkRows
             /\ link'[t].user = link[t].user /\ link'[t].purpose = link[t].purpose
             /\ link'[t].to = link[t].to /\ link'[t].inbox = link[t].inbox
             /\ link'[t].used <=> link[t].used \/ t = j.link
             /\ link'[t].revoked <=> link[t].revoked \/ t \in j.revokes
  <2>1. t \in Links /\ link[t] \in LinkRows
    BY <1>3
  <2>2. CASE t \in j.revokes
    <3>1. link'[t] = [link[t] EXCEPT !.revoked = TRUE] /\ t # j.link
      BY <1>2, <1>6, <2>1, <2>2
    <3> QED
      BY <2>1, <2>2, <3>1 DEF LinkRows
  <2>3. CASE t \notin j.revokes /\ t # j.link
    BY <1>6, <2>1, <2>3
  <2>4. CASE t = j.link
    <3>1. link'[t] = [link[t] EXCEPT !.used = TRUE] /\ t \notin j.revokes
      BY <1>2, <1>6, <2>1, <2>4
    <3> QED
      BY <2>1, <2>4, <3>1 DEF LinkRows
  <2> QED
    BY <2>2, <2>3, <2>4
<1>9. j.kind # "follow" => link'[j.link] = fresh
  BY <1>2, <1>6
<1>10. \A t \in Links \ Issued : t # j.link => link'[t] = Nobody
  BY <1>6, <1>7 DEF Issued
<1>11. link' \in [Links -> LinkRows \cup {Nobody}]
  <2>1. link' = [t \in Links |-> link'[t]]
    BY <1>5 DEF LinksAfter
  <2>2. \A t \in Links : link'[t] \in LinkRows \cup {Nobody}
    BY <1>2, <1>4, <1>8, <1>9, <1>10
  <2> QED
    BY <2>1, <2>2
<1>12. Issued' = Issued \cup {j.link}
  <2>1. \A t \in Issued : link'[t] # Nobody
    BY <1>8, NobodyIsNoRow
  <2>2. link'[j.link] # Nobody
    BY <1>2, <1>4, <1>9, <2>1, NobodyIsNoRow
  <2> QED
    BY <1>2, <1>3, <1>10, <2>1, <2>2 DEF Issued
<1>13. /\ fresh.user = j.user /\ fresh.purpose = j.purpose /\ fresh.to = j.to
       /\ fresh.inbox = j.to /\ ~fresh.used /\ ~fresh.revoked
  BY DEF fresh
<1>14. link'[j.link].user = j.user /\ link'[j.link].purpose = j.purpose
  BY <1>2, <1>8, <1>9, <1>13 DEF LinksOf
<1>15. ASSUME NEW u, NEW p, u = j.user, p = j.purpose
       PROVE  LinksOf(u, p)' = LinksOf(u, p) \cup {j.link}
  <2>1. \A t \in Issued : t \in LinksOf(u, p)' <=> t \in LinksOf(u, p)
    BY <1>8, <1>12 DEF LinksOf
  <2>2. j.link \in LinksOf(u, p)'
    BY <1>12, <1>14, <1>15 DEF LinksOf
  <2>3. /\ LinksOf(u, p)' \subseteq Issued \cup {j.link}
        /\ LinksOf(u, p) \subseteq Issued
    BY <1>12 DEF LinksOf
  <2> QED
    BY <2>1, <2>2, <2>3
<1>16. \A u, p : u # j.user \/ p # j.purpose => LinksOf(u, p)' = LinksOf(u, p)
  BY <1>8, <1>12, <1>14 DEF LinksOf
<1> QED
  BY <1>2, <1>8, <1>9, <1>11, <1>12, <1>13, <1>15, <1>16

\* A link stays as it was mailed, and the newest one replaces those before it.
LEMMA CommitLinks ==
    ASSUME AccountsInv, NEW r \in Mailers, CommitJob(r), NEW t \in Links
    PROVE  LinkInv(t)'
<1> DEFINE j == job[r]
<1>1. /\ Busy(r) /\ j.flushed /\ j \in Jobs /\ ReadInv(r) /\ AloneInv(r)
      /\ crowded' = crowded
  BY RowAfterCommit DEF CommitJob, AccountsInv
<1>2. /\ Existing' = Existing \cup {j.user}
      /\ account'[j.user] = RowAfter(r)
      /\ \A u \in Existing : ~account'[u].verified =>
             ~account[u].verified /\ account'[u].email = account[u].email
  BY RowAfterCommit
<1>3. /\ Issued' = Issued \cup {j.link}
      /\ j.link \in Issued <=> j.kind = "follow"
      /\ \A u, p : LinksOf(u, p)' = LinksOf(u, p) \cup
             (IF u = j.user /\ p = j.purpose THEN {j.link} ELSE {})
  BY LinksAfterCommit
<1>4. \A s \in Issued :
          /\ link'[s].user = link[s].user /\ link'[s].purpose = link[s].purpose
          /\ link'[s].to = link[s].to /\ link'[s].inbox = link[s].inbox
          /\ link'[s].used <=> link[s].used \/ s = j.link
          /\ link'[s].revoked <=> link[s].revoked \/ s \in j.revokes
  BY LinksAfterCommit
<1>5. j.kind # "follow" =>
          /\ link'[j.link].user = j.user /\ link'[j.link].purpose = j.purpose
          /\ link'[j.link].to = j.to /\ link'[j.link].inbox = j.to
  BY LinksAfterCommit
<1>6. /\ j.link \in Links /\ j.kind \in {"register", "issue", "follow"}
      /\ j.purpose \in Purposes
  BY <1>1 DEF Jobs
<1>7. /\ followed'[t] = IF j.kind = "follow" /\ t = j.link THEN followed[t] + 1
                        ELSE followed[t]
      /\ followed[t] \in Nat
  BY <1>6 DEF CommitJob, AccountsInv, AccountsOK
<1>8. LinkInv(t)
  BY DEF AccountsInv
<1>9. CASE t \in Issued
  <2>0. PICK u, p : u = link[t].user /\ p = link[t].purpose
    OBVIOUS
  <2>1. /\ t \in Issued' /\ link'[t].user = u /\ link'[t].purpose = p
        /\ link'[t].to = link[t].to /\ link'[t].inbox = link[t].inbox
        /\ u \in Existing /\ link[t].inbox = link[t].to /\ t \in LinksOf(u, p)
    BY <1>3, <1>4, <1>8, <1>9, <2>0 DEF LinkInv, LinksOf
  <2>2. p = "verify" /\ ~account'[u].verified => link[t].to = account'[u].email
    BY <1>2, <1>8, <1>9, <2>0, <2>1 DEF LinkInv
  <2>3. ASSUME <<u, p>> \notin crowded
        PROVE  /\ followed'[t] <= 1 /\ (~link'[t].used => followed'[t] = 0)
               /\ ~link'[t].used /\ ~link'[t].revoked => \A s \in LinksOf(u, p)' : s <= t
    <3>1. /\ followed[t] <= 1 /\ (~link[t].used => followed[t] = 0)
          /\ ~link[t].used /\ ~link[t].revoked => \A s \in LinksOf(u, p) : s <= t
      BY <1>8, <1>9, <2>0, <2>3 DEF LinkInv
    <3>2. CASE u = j.user /\ p = j.purpose
      <4>1. t = j.link /\ j.kind = "follow" => ~link[t].used
        BY <1>1, <2>3, <3>2 DEF AloneInv
      <4>2. link'[t].used \/ link'[t].revoked
        <5>1. j.revokes = Outstanding(u, p) \ {j.link}
          BY <1>1, <2>3, <3>2 DEF AloneInv
        <5>2. ~link[t].used /\ ~link[t].revoked => t \in Outstanding(u, p)
          BY <2>1 DEF Outstanding
        <5> QED
          BY <1>4, <1>9, <5>1, <5>2
      <4>3. followed'[t] <= 1 /\ (~link'[t].used => followed'[t] = 0)
        BY <1>4, <1>7, <1>9, <3>1, <4>1
      <4> QED
        BY <4>2, <4>3
    <3>3. CASE u # j.user \/ p # j.purpose
      <4>1. t \notin j.revokes \cup {j.link}
        <5>1. t \notin LinksOf(j.user, j.purpose)
          BY <2>0, <3>3 DEF LinksOf
        <5>2. j.link \in Issued => j.link \in LinksOf(j.user, j.purpose)
          BY <1>1, <1>3 DEF ReadInv
        <5> QED
          BY <1>1, <1>9, <5>1, <5>2 DEF ReadInv
      <4>2. LinksOf(u, p)' = LinksOf(u, p)
        BY <1>3, <3>3
      <4> QED
        BY <1>4, <1>7, <1>9, <3>1, <4>1, <4>2
    <3> QED
      BY <3>2, <3>3
  <2> QED
    BY <1>1, <1>2, <2>1, <2>2, <2>3 DEF LinkInv
<1>10. CASE t \notin Issued /\ t = j.link
  <2>1. j.kind # "follow" /\ followed'[t] = 0
    BY <1>3, <1>7, <1>8, <1>10 DEF LinkInv
  <2>2. ~account'[j.user].verified /\ j.purpose = "verify" => j.to = account'[j.user].email
    <3>1. CASE j.kind = "register"
      <4>1. RowAfter(r).email = j.to
        BY <3>1 DEF RowAfter
      <4> QED
        BY <1>2, <4>1
    <3>2. CASE j.kind # "register"
      BY <1>1, <1>2, <3>2 DEF ReadInv
    <3> QED
      BY <3>1, <3>2
  <2>3. PICK u, p : u = j.user /\ p = j.purpose
    OBVIOUS
  <2>4. <<u, p>> \notin crowded => \A s \in LinksOf(u, p)' : s <= j.link
    <3>1. \A s \in LinksOf(j.user, j.purpose) : s \in Int
      BY LinksAreBounded DEF LinksOf, Issued, Links
    <3>2. j.link \in Int
      BY <1>6 DEF Links
    <3> QED
      BY <1>1, <1>3, <2>1, <2>3, <3>1, <3>2 DEF AloneInv
  <2>5. link'[t].user = u /\ link'[t].purpose = p /\ link'[t].to = j.to /\ link'[t].inbox = j.to
    BY <1>5, <1>10, <2>1, <2>3
  <2>6. t \in Issued' /\ u \in Existing'
    BY <1>2, <1>3, <1>10, <2>3
  <2> QED
    BY <1>1, <1>10, <2>1, <2>2, <2>3, <2>4, <2>5, <2>6 DEF LinkInv
<1>11. CASE t \notin Issued /\ t # j.link
  BY <1>3, <1>7, <1>8, <1>11 DEF LinkInv
<1> QED
  BY <1>9, <1>10, <1>11

\* The other requests keep what they know.
LEMMA CommitOthers ==
    ASSUME AccountsInv, NEW r \in Mailers, CommitJob(r), NEW q \in Mailers, Busy(q)'
    PROVE  q # r /\ Busy(q) /\ job'[q] = job[q] /\ ReadInv(q)' /\ AloneInv(q)'
<1> DEFINE j == job[r]
           k == job[q]
<1>1. job' = [job EXCEPT ![r] = Nobody] /\ crowded' = crowded
  BY DEF CommitJob, EndJob
<1>2. q # r /\ Busy(q) /\ job'[q] = k /\ Busy(q)'
  BY <1>1 DEF Busy, AccountsInv, AccountsOK
<1>3. /\ k \in Jobs /\ ReadInv(q) /\ AloneInv(q) /\ PairInv(q, r) /\ ReadInv(r)
      /\ j \in Jobs /\ j.flushed /\ Busy(r)
  BY <1>2, RowAfterCommit DEF AccountsInv, AccountsOK, Busy
<1>4. /\ Existing' = Existing \cup {j.user}
      /\ \A u \in Existing : ~account'[u].verified =>
             ~account[u].verified /\ account'[u].email = account[u].email
  BY RowAfterCommit
<1>5. /\ Issued' = Issued \cup {j.link}
      /\ j.link \in Issued <=> j.kind = "follow"
      /\ \A u, p : LinksOf(u, p)' = LinksOf(u, p) \cup
             (IF u = j.user /\ p = j.purpose THEN {j.link} ELSE {})
  BY LinksAfterCommit
<1>6. \A s \in Issued :
          /\ link'[s].user = link[s].user /\ link'[s].purpose = link[s].purpose
          /\ link'[s].to = link[s].to
          /\ link'[s].used <=> link[s].used \/ s = j.link
          /\ link'[s].revoked <=> link[s].revoked \/ s \in j.revokes
  BY LinksAfterCommit
<1>7. \A u, p : LinksOf(u, p) \subseteq LinksOf(u, p)'
  BY <1>5
<1> PICK u, p : u = k.user /\ p = k.purpose
  OBVIOUS
<1>8. ReadInv(q)'
  <2>1. k.kind # "register" => k.user \in Existing'
    BY <1>3, <1>4 DEF ReadInv
  <2>2. k.kind # "register" /\ k.purpose = "verify" /\ ~account'[k.user].verified =>
            k.to = account'[k.user].email
    BY <1>3, <1>4 DEF ReadInv
  <2>3. k.kind = "follow" => k.link \in LinksOf(u, p)' /\ link'[k.link].to = k.to
    BY <1>3, <1>6, <1>7 DEF ReadInv, LinksOf
  <2>4. k.kind # "follow" => k.link \notin Issued'
    BY <1>3, <1>5 DEF ReadInv, PairInv
  <2>5. k.revokes \subseteq LinksOf(u, p)' \ {k.link}
    BY <1>3, <1>7 DEF ReadInv
  <2>6. k.flushed /\ k.kind = "register" => k.user \notin Existing'
    <3> SUFFICES ASSUME k.flushed, k.kind = "register" PROVE k.user \notin Existing'
      OBVIOUS
    <3>1. k.user \notin Existing /\ k.writes
      BY <1>3 DEF ReadInv
    <3>2. k.user # j.user
      BY <1>3, <3>1 DEF ReadInv, PairInv
    <3> QED
      BY <1>4, <3>1, <3>2
  <2> QED
    BY <1>2, <1>3, <2>1, <2>2, <2>3, <2>4, <2>5, <2>6 DEF ReadInv
<1>9. AloneInv(q)'
  <2> SUFFICES ASSUME <<k.user, k.purpose>> \notin crowded PROVE AloneInv(q)'
    BY <1>1, <1>2 DEF AloneInv
  <2>1. k.user # j.user \/ k.purpose # j.purpose
    BY <1>3 DEF PairInv
  <2>2. LinksOf(u, p)' = LinksOf(u, p)
    BY <1>5, <2>1
  <2>3. \A t \in LinksOf(u, p) :
            /\ t \in Issued /\ t \notin j.revokes \cup {j.link}
            /\ link'[t].used <=> link[t].used
            /\ link'[t].revoked <=> link[t].revoked
    <3>1. \A t \in LinksOf(u, p) :
              t \in Issued /\ t \notin LinksOf(j.user, j.purpose)
      BY <2>1 DEF LinksOf
    <3>2. j.link \in Issued => j.link \in LinksOf(j.user, j.purpose)
      BY <1>3, <1>5 DEF ReadInv
    <3>3. j.revokes \subseteq LinksOf(j.user, j.purpose)
      BY <1>3 DEF ReadInv
    <3> QED
      BY <1>6, <3>1, <3>2, <3>3
  <2>4. Outstanding(u, p)' = Outstanding(u, p)
    BY <2>2, <2>3 DEF Outstanding
  <2>5. k.kind = "follow" => k.link \in LinksOf(u, p)
    BY <1>3 DEF ReadInv
  <2> QED
    BY <1>2, <1>3, <2>2, <2>3, <2>4, <2>5 DEF AloneInv
<1> QED
  BY <1>2, <1>8, <1>9

\* Only who has followed a link to an address makes it verified.
LEMMA CommitJobInv ==
    ASSUME AccountsInv, NEW r \in Mailers, CommitJob(r)
    PROVE  AccountsInv'
<1> DEFINE j == job[r]
<1>1. /\ Busy(r) /\ j \in Jobs /\ ReadInv(r)
      /\ account' \in [Users -> AccountRows \cup {Nobody}]
      /\ account'[j.user] = RowAfter(r)
      /\ \A u \in Users \ {j.user} : account'[u] = account[u]
      /\ Existing' = Existing \cup {j.user}
  BY RowAfterCommit DEF AccountsInv
<1>2. /\ link' \in [Links -> LinkRows \cup {Nobody}]
      /\ j.link \in Issued <=> j.kind = "follow"
  BY LinksAfterCommit
<1>3. /\ job' = [job EXCEPT ![r] = Nobody]
      /\ IF j.kind # "follow" THEN UNCHANGED <<proven, followed>>
         ELSE /\ proven' = [proven EXCEPT ![j.user] = @ \cup {link[j.link].inbox}]
              /\ followed' = [followed EXCEPT ![j.link] = @ + 1]
      /\ UNCHANGED <<age, crowded>>
  BY DEF CommitJob, EndJob
<1>4. j.user \in Users /\ j.link \in Links /\ j.kind \in {"register", "issue", "follow"}
      /\ j.purpose \in Purposes
  BY <1>1 DEF Jobs
<1>5. j.kind = "follow" => link[j.link].inbox = j.to /\ j.to \in Addresses
  <2> SUFFICES ASSUME j.kind = "follow" PROVE link[j.link].inbox = j.to
    BY <1>1 DEF Jobs
  <2>1. j.link \in Issued /\ link[j.link].to = j.to
    BY <1>1 DEF ReadInv, LinksOf
  <2> QED
    BY <1>4, <2>1 DEF AccountsInv, LinkInv
<1>6. /\ proven' \in [Users -> SUBSET Addresses] /\ \A u \in Users : proven[u] \subseteq proven'[u]
      /\ j.kind = "follow" => j.to \in proven'[j.user]
      /\ followed' \in [Links -> Nat]
  BY <1>3, <1>4, <1>5 DEF AccountsInv, AccountsOK
<1>7. AccountsOK'
  BY <1>1, <1>2, <1>3, <1>6 DEF AccountsInv, AccountsOK
<1>8. \A t \in Links : LinkInv(t)'
  BY CommitLinks
<1>9. \A q \in Mailers : Busy(q)' => ReadInv(q)' /\ AloneInv(q)'
  BY CommitOthers
<1>10. \A p, q \in Mailers : Busy(p)' /\ Busy(q)' /\ p # q => PairInv(p, q)'
  <2>1. ASSUME NEW p \in Mailers, NEW q \in Mailers, Busy(p)', Busy(q)', p # q
        PROVE  PairInv(p, q)'
    <3>1. Busy(p) /\ job'[p] = job[p] /\ Busy(q) /\ job'[q] = job[q]
      BY <2>1, CommitOthers
    <3>2. PairInv(p, q)
      BY <2>1, <3>1 DEF AccountsInv
    <3> QED
      BY <1>3, <3>1, <3>2 DEF PairInv
  <2> QED
    BY <2>1
<1>11. RowAfter(r).verified => RowAfter(r).email \in proven'[j.user]
  <2> DEFINE row == account[j.user]
  <2>1. CASE j.kind = "register"
    BY <2>1 DEF RowAfter
  <2>2. j.kind # "register" =>
            j.user \in Existing /\ row \in AccountRows
            /\ (row.verified => row.email \in proven'[j.user])
    BY <1>1, <1>4, <1>6 DEF ReadInv, AccountsInv, AddressesAreProven, Existing, AccountsOK
  <2>3. CASE j.kind = "issue"
    BY <2>2, <2>3 DEF RowAfter, AccountRows
  <2>4. CASE j.kind = "follow" /\ j.purpose = "change"
    BY <1>6, <2>2, <2>4 DEF RowAfter, AccountRows
  <2>5. CASE j.kind = "follow" /\ j.purpose = "verify"
    <3>1. RowAfter(r) = [row EXCEPT !.verified = TRUE]
      BY <2>5 DEF RowAfter
    <3>2. RowAfter(r).email = row.email
      BY <2>2, <2>5, <3>1 DEF AccountRows
    <3>3. ~row.verified => row.email = j.to
      BY <1>1, <2>5 DEF ReadInv
    <3> QED
      BY <1>6, <2>2, <2>5, <3>2, <3>3
  <2>6. CASE j.kind = "follow" /\ j.purpose = "reset"
    BY <2>2, <2>6 DEF RowAfter
  <2> QED
    BY <1>4, <2>1, <2>3, <2>4, <2>5, <2>6 DEF Purposes
<1>12. AddressesAreProven'
  <2>1. ASSUME NEW u \in Existing', account'[u].verified
        PROVE  account'[u].email \in proven'[u]
    <3>1. CASE u = j.user
      BY <1>1, <1>11, <2>1, <3>1
    <3>2. CASE u # j.user
      <4>1. u \in Existing /\ u \in Users /\ account'[u] = account[u]
        BY <1>1, <2>1, <3>2 DEF Existing
      <4> QED
        BY <1>6, <2>1, <4>1 DEF AccountsInv, AddressesAreProven
    <3> QED
      BY <3>1, <3>2
  <2> QED
    BY <2>1 DEF AddressesAreProven
<1> QED
  BY <1>7, <1>8, <1>9, <1>10, <1>12 DEF AccountsInv

-----------------------------------------------------------------------------
(* Time, leaving, and the theorem. *)

\* Time passes for a link: nothing that works now worked less before.
LEMMA OlderInv ==
    ASSUME AccountsInv, NEW t \in Links, Older(t)
    PROVE  AccountsInv'
<1>1. /\ age' = [age EXCEPT ![t] = @ + 1] /\ t \in Ageing
      /\ UNCHANGED <<account, link, job, proven, followed, crowded>>
  BY DEF Older
<1>2. age[t] \in 0..2 /\ age[t] < 2
  BY <1>1 DEF Ageing, AccountsInv, AccountsOK
<1>3. AccountsOK'
  <2>1. age[t] + 1 \in 0..2
    BY <1>2
  <2> QED
    BY <1>1, <2>1 DEF AccountsInv, AccountsOK
<1>4. /\ Existing' = Existing /\ Issued' = Issued
      /\ \A v, o : LinksOf(v, o)' = LinksOf(v, o) /\ Outstanding(v, o)' = Outstanding(v, o)
      /\ \A r \in Mailers : Busy(r)' = Busy(r)
  BY <1>1 DEF Existing, Issued, LinksOf, Outstanding, Busy
<1> QED
  BY <1>1, <1>3, <1>4 DEF AccountsInv, LinkInv, ReadInv, AloneInv, PairInv, AddressesAreProven

\* Asking for deletion leaves the address and its verification as they are.
LEMMA RequestDeletionInv ==
    ASSUME AccountsInv, NEW u \in Users, RequestDeletion(u)
    PROVE  AccountsInv'
<1> DEFINE row == [account[u] EXCEPT !.leaving = TRUE]
<1>1. /\ u \in Existing /\ account' = [account EXCEPT ![u] = row]
      /\ UNCHANGED <<link, age, job, proven, followed, crowded>>
  BY DEF RequestDeletion
<1>2. account[u] \in AccountRows
  BY <1>1 DEF Existing, AccountsInv, AccountsOK
<1>3. /\ row \in AccountRows /\ row.email = account[u].email
      /\ row.verified = account[u].verified
  BY <1>2 DEF AccountRows
<1> HIDE DEF row
<1>4. account'[u] = row /\ \A v \in Users \ {u} : account'[v] = account[v]
  BY <1>1 DEF AccountsInv, AccountsOK
<1>5. row # Nobody
  BY <1>3, NobodyIsNoRow
<1>6. /\ Existing' = Existing /\ Issued' = Issued
      /\ \A v, o : LinksOf(v, o)' = LinksOf(v, o) /\ Outstanding(v, o)' = Outstanding(v, o)
      /\ \A r \in Mailers : Busy(r)' = Busy(r)
  BY <1>1, <1>4, <1>5 DEF Existing, Issued, LinksOf, Outstanding, Busy
<1>7. \A v \in Existing : account'[v].email = account[v].email
                          /\ account'[v].verified = account[v].verified
  BY <1>3, <1>4 DEF Existing
<1>8. AccountsOK'
  BY <1>1, <1>3 DEF AccountsInv, AccountsOK
<1>9. \A t \in Links : LinkInv(t)'
  BY <1>1, <1>6, <1>7 DEF AccountsInv, LinkInv
<1>10. \A r \in Mailers : Busy(r)' => ReadInv(r)' /\ AloneInv(r)'
  BY <1>1, <1>6, <1>7 DEF AccountsInv, ReadInv, AloneInv
<1>11. \A q, r \in Mailers : Busy(q)' /\ Busy(r)' /\ q # r => PairInv(q, r)'
  BY <1>1, <1>6 DEF AccountsInv, PairInv
<1>12. AddressesAreProven'
  BY <1>1, <1>6, <1>7 DEF AccountsInv, AddressesAreProven
<1> QED
  BY <1>8, <1>9, <1>10, <1>11, <1>12 DEF AccountsInv

\* Every step keeps the invariant.
LEMMA AccountsStepInv == AccountsInv /\ [AccountsNext]_accountVars => AccountsInv'
<1> SUFFICES ASSUME AccountsInv, [AccountsNext]_accountVars PROVE AccountsInv'
  OBVIOUS
<1> USE DEF AccountsInv
<1>1. ASSUME NEW r \in Mailers, NEW u \in Users, NEW a \in Addresses, BeginRegister(r, u, a)
      PROVE  AccountsInv'
  BY <1>1, BeginJobInv DEF BeginRegister, Purposes
<1>2. \A u \in Existing : u \in Users /\ account[u] \in AccountRows
                          /\ account[u].email \in Addresses
  BY DEF Existing, AccountsOK, AccountRows
<1>3. ASSUME NEW r \in Mailers, NEW u \in Users, NEW a \in Addresses,
             BeginEmailChange(r, u, a)
      PROVE  AccountsInv'
  <2>1. (account[u].pending # a) \in BOOLEAN
    OBVIOUS
  <2> QED
    BY <1>3, <2>1, BeginJobInv DEF BeginEmailChange, Purposes
<1>4. ASSUME NEW r \in Mailers, NEW u \in Users, BeginResend(r, u)
      PROVE  AccountsInv'
  BY <1>2, <1>4, BeginJobInv DEF BeginResend, Purposes
<1>5. ASSUME NEW r \in Mailers, NEW u \in Users, BeginPasswordReset(r, u)
      PROVE  AccountsInv'
  BY <1>2, <1>5, BeginJobInv DEF BeginPasswordReset, Purposes
<1>6. ASSUME NEW r \in Mailers, NEW t \in Issued, NEW p \in Purposes,
             NEW writes \in BOOLEAN, Follow(r, t, p, writes)
      PROVE  AccountsInv'
  <2>1. t \in Links /\ link[t] \in LinkRows /\ LinkInv(t)
    BY DEF Issued, AccountsOK
  <2>2. /\ link[t].user \in Users /\ link[t].to \in Addresses
        /\ link[t].user \in Existing /\ t \in LinksOf(link[t].user, p)
        /\ ~link[t].used /\ ~link[t].revoked /\ link[t].purpose = p
    BY <1>6, <2>1 DEF LinkRows, LinkInv, LinksOf, Follow, Live
  <2>3. BeginJob(r, "follow", link[t].user, p, t, link[t].to, writes)
    BY <1>6 DEF Follow
  <2>4. p = "verify" /\ ~account[link[t].user].verified =>
            link[t].to = account[link[t].user].email
    BY <2>1, <2>2 DEF LinkInv
  <2> QED
    BY <2>2, <2>3, <2>4, BeginJobInv
<1>7. ASSUME NEW r \in Mailers, NEW t \in Issued,
             FollowVerification(r, t) \/ FollowEmailChange(r, t) \/ FollowPasswordReset(r, t)
      PROVE  AccountsInv'
  <2>1. t \in Links /\ link[t] \in LinkRows /\ LinkInv(t)
    BY DEF Issued, AccountsOK
  <2>2. account[link[t].user].verified \in BOOLEAN
    BY <1>2, <2>1 DEF LinkInv, AccountRows
  <2>3. (~account[link[t].user].verified) \in BOOLEAN
    BY <2>2
  <2> QED
    BY <1>6, <1>7, <2>3 DEF FollowVerification, FollowEmailChange, FollowPasswordReset,
                            Purposes
<1>8. ASSUME NEW r \in Mailers, NEW d \in Deliveries, Flush(r, d)
      PROVE  AccountsInv'
  BY <1>8, FlushInv
<1>9. ASSUME NEW r \in Mailers, CommitJob(r)
      PROVE  AccountsInv'
  BY <1>9, CommitJobInv
<1>10. ASSUME NEW r \in Mailers, LoseJob(r)
       PROVE  AccountsInv'
  BY <1>10, EndInv DEF LoseJob
<1>11. ASSUME NEW t \in Links, Older(t) PROVE AccountsInv'
  BY <1>11, OlderInv
<1>12. ASSUME NEW u \in Users, RequestDeletion(u) PROVE AccountsInv'
  BY <1>12, RequestDeletionInv
<1>13. CASE UNCHANGED accountVars
  <2>1. UNCHANGED <<account, link, age, job, proven, followed, crowded>>
    BY <1>13 DEF accountVars
  <2>2. /\ Existing' = Existing /\ Issued' = Issued
        /\ \A v, o : LinksOf(v, o)' = LinksOf(v, o) /\ Outstanding(v, o)' = Outstanding(v, o)
        /\ \A r \in Mailers : Busy(r)' = Busy(r)
    BY <2>1 DEF Existing, Issued, LinksOf, Outstanding, Busy
  <2> QED
    BY <2>1, <2>2 DEF AccountsOK, LinkInv, ReadInv, AloneInv, PairInv, AddressesAreProven
<1> HIDE DEF AccountsInv
<1> QED
  BY <1>1, <1>3, <1>4, <1>5, <1>7, <1>8, <1>9, <1>10, <1>11, <1>12, <1>13 DEF AccountsNext

\* What works of the links of a user and purpose that nothing crowded is the newest.
LEMMA NewestIsTheLatest ==
    ASSUME AccountsOK, NEW u, NEW p, NEW t \in LinksOf(u, p), \A s \in LinksOf(u, p) : s <= t
    PROVE  t = Newest(u, p)
<1>1. \A s \in LinksOf(u, p) : s \in Int
  BY LinksAreBounded DEF LinksOf, Issued, Links
<1>2. Newest(u, p) \in LinksOf(u, p) /\ \A s \in LinksOf(u, p) : s <= Newest(u, p)
  BY DEF Newest
<1>3. t <= Newest(u, p) /\ Newest(u, p) <= t
  BY <1>2
<1> QED
  BY <1>1, <1>2, <1>3

\* The invariant holds in every behaviour.
THEOREM AccountsInvariance == AccountsSpec => []AccountsInv
<1>1. AccountsInit => AccountsInv
  BY AccountsInitInv
<1>2. AccountsInv /\ [AccountsNext]_accountVars => AccountsInv'
  BY AccountsStepInv
<1> QED
  BY <1>1, <1>2, PTL DEF AccountsSpec

\* auth_service.py: a verified address was proven by a link mailed to it; a link
\* works once, and only the newest of its purpose, but for requests that overlap.
THEOREM LinksAlwaysWorkAsMailed == AccountsSpec => []LinksWorkAsMailed
<1>1. AccountsInv => LinksWorkAsMailed
  <2> SUFFICES ASSUME AccountsInv PROVE LinksWorkAsMailed
    OBVIOUS
  <2>1. LinksWorkOnce
    <3>1. \A t \in Issued : t \in Links
      BY DEF Issued
    <3> QED
      BY <3>1 DEF AccountsInv, LinkInv, LinksWorkOnce
  <2>2. NewestLinkWorks
    <3>1. ASSUME NEW u \in Users, NEW p \in Purposes, <<u, p>> \notin crowded,
                 NEW t \in LinksOf(u, p), Live(t, u)
          PROVE  t = Newest(u, p)
      <4>1. /\ t \in Links /\ t \in Issued /\ link[t].user = u /\ link[t].purpose = p
            /\ ~link[t].used /\ ~link[t].revoked
        BY <3>1 DEF LinksOf, Issued, Live
      <4>2. LinkInv(t)
        BY <4>1 DEF AccountsInv
      <4>3. \A s \in LinksOf(u, p) : s <= t
        BY <3>1, <4>1, <4>2 DEF LinkInv
      <4> QED
        BY <4>3, NewestIsTheLatest DEF AccountsInv
    <3> QED
      BY <3>1 DEF NewestLinkWorks
  <2>3. AddressesAreProven
    BY DEF AccountsInv
  <2> QED
    BY <2>1, <2>2, <2>3 DEF LinksWorkAsMailed
<1> QED
  BY <1>1, AccountsInvariance, PTL
=============================================================================
