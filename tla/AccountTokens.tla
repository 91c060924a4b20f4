--------------------------- MODULE AccountTokens ---------------------------
(***************************************************************************)
(* The links an account is mailed to verify its address, to change it and  *)
(* to reset its password: issued with a cooldown, superseded by the next   *)
(* one, followed once; and the request to delete an account.               *)
(* services/auth_service.py, services/email_service.py, database/          *)
(* repositories.py.                                                        *)
(*                                                                         *)
(* A request is one transaction in three steps: it reads and judges what   *)
(* it has read; it flushes its rows, waiting for those another request     *)
(* holds, and mails its link; it commits.  The id of a link is taken when  *)
(* its transaction begins, as created_at is.  Its age is 0 within the      *)
(* resend cooldown, 1 after it and 2 once the link has expired.            *)
(***************************************************************************)
EXTENDS Integers, FiniteSets

CONSTANTS
    Users,
    Addresses,      \* the addresses people may give, in canonical form
    MaxLinks,       \* bound: links issued
    Mailers,        \* requests that may be under way together
    Nobody          \* no account, no link, no request, no address

ASSUME LinksAreBounded == MaxLinks \in Nat
ASSUME NobodyIsNobody == Nobody \notin Users \cup Addresses \cup Mailers \cup Nat

Links == 1..MaxLinks
Purposes == {"verify", "change", "reset"}

AccountRows ==
    [email : Addresses, pending : Addresses \cup {Nobody}, verified : BOOLEAN, leaving : BOOLEAN]
LinkRows ==
    [user : Users, purpose : Purposes, to : Addresses, mailed : BOOLEAN, inbox : Addresses,
     used : BOOLEAN, revoked : BOOLEAN]
Jobs ==
    [kind : {"register", "issue", "follow"}, user : Users, purpose : Purposes, link : Links,
     to : Addresses, writes : BOOLEAN, revokes : SUBSET Links, mailed : BOOLEAN,
     flushed : BOOLEAN]

ASSUME NobodyIsNoRow == Nobody \notin AccountRows \cup LinkRows \cup Jobs

VARIABLES
    account,        \* users: email, pending_email, is_email_verified, deletion
    link,           \* account_tokens
    age,            \* of each link
    job,            \* each request: what it has read and what it is to write
    proven,         \* history: addresses whose owner followed a link
    followed,       \* history: how often each link has been redeemed
    crowded         \* history: user and purpose of requests that overlapped

accountVars == <<account, link, age, job, proven, followed, crowded>>

Existing == {u \in Users : account[u] # Nobody}
Taken == {account[u].email : u \in Existing}
Issued == {t \in Links : link[t] # Nobody}
Busy(r) == job[r] # Nobody
Flushed == {r \in Mailers : Busy(r) /\ job[r].flushed}

\* Some accounts exist, with addresses they have verified long ago.
VerifiedWith(a) == [email |-> a, pending |-> Nobody, verified |-> TRUE, leaving |-> FALSE]

AccountsInit ==
    /\ account \in [Users -> {Nobody} \cup {VerifiedWith(a) : a \in Addresses}]
    /\ \A u, v \in Existing : u # v => account[u].email # account[v].email
    /\ link = [t \in Links |-> Nobody]
    /\ age = [t \in Links |-> 0]
    /\ job = [r \in Mailers |-> Nobody]
    /\ proven = [u \in Users |-> IF u \in Existing THEN {account[u].email} ELSE {}]
    /\ followed = [t \in Links |-> 0]
    /\ crowded = {}

-----------------------------------------------------------------------------
(* What a request reads. *)

\* get_latest_account_token_for_user.
LinksOf(u, p) == {t \in Issued : link[t].user = u /\ link[t].purpose = p}
Newest(u, p) == CHOOSE t \in LinksOf(u, p) : \A s \in LinksOf(u, p) : s <= t

\* _resend_available_at.
Cool(u, p) == LinksOf(u, p) # {} => age[Newest(u, p)] > 0

\* _assert_account_token_valid, which verify_email repeats.
Live(t, u) ==
    /\ link[t].user = u
    /\ ~link[t].used /\ ~link[t].revoked
    /\ age[t] < 2

\* The next id, above all that are issued or reserved.
Reserved == Issued \cup {job[r].link : r \in {q \in Mailers : Busy(q)}}
NextLink == Cardinality({t \in Links : \E s \in Reserved : t <= s}) + 1

Crowd(u, p) ==
    IF \E q \in Mailers : Busy(q) /\ job[q].user = u /\ job[q].purpose = p
    THEN {<<u, p>>} ELSE {}

BeginJob(r, kind, u, p, t, to, writes) ==
    /\ ~Busy(r) /\ t \in Links
    /\ job' = [job EXCEPT ![r] =
            [kind |-> kind, user |-> u, purpose |-> p, link |-> t, to |-> to,
             writes |-> writes, revokes |-> {}, mailed |-> FALSE, flushed |-> FALSE]]
    /\ crowded' = crowded \cup Crowd(u, p)
    /\ UNCHANGED <<account, link, age, proven, followed>>

\* register_user: neither the name nor the address is in use.
BeginRegister(r, u, a) ==
    /\ u \notin Existing /\ a \notin Taken
    /\ BeginJob(r, "register", u, "verify", NextLink, a, TRUE)

\* resend_verification_email.
BeginResend(r, u) ==
    /\ u \in Existing /\ ~account[u].verified /\ Cool(u, "verify")
    /\ BeginJob(r, "issue", u, "verify", NextLink, account[u].email, FALSE)

\* request_email_change.  pending_email is written if it differs from what was read.
BeginEmailChange(r, u, a) ==
    /\ u \in Existing /\ a \notin Taken /\ Cool(u, "change")
    /\ BeginJob(r, "issue", u, "change", NextLink, a, account[u].pending # a)

\* request_password_reset, by address.
BeginPasswordReset(r, u) ==
    /\ u \in Existing /\ Cool(u, "reset")
    /\ BeginJob(r, "issue", u, "reset", NextLink, account[u].email, FALSE)

\* Someone follows a link that was mailed to them.
Follow(r, t, p, writes) ==
    /\ link[t].purpose = p /\ link[t].mailed /\ Live(t, link[t].user)
    /\ BeginJob(r, "follow", link[t].user, p, t, link[t].to, writes)

\* verify_email.
FollowVerification(r, t) == Follow(r, t, "verify", ~account[link[t].user].verified)

\* confirm_email_change: only to the address that is pending, and still free.
FollowEmailChange(r, t) ==
    /\ account[link[t].user].pending = link[t].to
    /\ link[t].to \notin Taken
    /\ Follow(r, t, "change", TRUE)

\* confirm_password_reset.
FollowPasswordReset(r, t) == Follow(r, t, "reset", TRUE)

-----------------------------------------------------------------------------
(* What it writes. *)

\* Mutant of Outstanding: only links of an earlier user are revoked.
OutstandingElsewhere(u, p) == {}

\* revoke_account_tokens_for_user, of what is committed when it looks.
Outstanding(u, p) ==
    {t \in LinksOf(u, p) : ~link[t].used /\ ~link[t].revoked}

\* The unique value a request inserts or sets.
Claims(r) ==
    LET j == job[r] IN
    IF j.kind = "register" \/ (j.kind = "follow" /\ j.purpose = "change")
    THEN {<<"email", j.to>>}
    ELSE IF j.kind = "issue" /\ j.writes THEN {<<"pending", j.to>>}
    ELSE {}

\* The rows and values it holds until it ends.
Holds(r) ==
    LET j == job[r] IN
    Claims(r) \cup {<<"link", t>> : t \in j.revokes \cup {j.link}}
              \cup (IF j.writes THEN {<<"user", j.user>>} ELSE {})

\* A unique constraint of users is violated: DuplicateRecordError, 409.
Clashes(r) ==
    \/ job[r].kind = "register" /\ job[r].user \in Existing
    \/ \E u \in Existing \ {job[r].user} :
           \/ <<"email", account[u].email>> \in Claims(r)
           \/ <<"pending", account[u].pending>> \in Claims(r)

\* SmtpEmailService.send: an email is sent, or the attempt fails, or email is not
\* configured and none is attempted.
Deliveries == {"sent", "failed", "off"}

\* _require_email_delivery: a failed attempt fails the request, except that of a
\* password reset, which is logged only.
Refused(j, delivery) == delivery = "failed" /\ j.kind # "follow" /\ j.purpose # "reset"

EndJob(r) == job' = [job EXCEPT ![r] = Nobody]

\* The rows are flushed once nobody else holds one of them.
Flush(r, delivery) ==
    LET j == job[r]
        revoked == Outstanding(j.user, j.purpose) \ {j.link}
        claimed == Holds(r) \cup {<<"link", t>> : t \in revoked}
    IN
    /\ Busy(r) /\ ~j.flushed
    /\ \A q \in Flushed : Holds(q) \cap claimed = {}
    /\ IF Clashes(r) \/ Refused(j, delivery)
       THEN EndJob(r)
       ELSE job' = [job EXCEPT ![r].flushed = TRUE, ![r].revokes = revoked,
                               ![r].mailed = delivery = "sent" /\ j.kind # "follow"]
    /\ UNCHANGED <<account, link, age, proven, followed, crowded>>

\* Only the columns that differ from what was read are written.
RowAfter(r) ==
    LET j == job[r]
        row == account[j.user]
        Follows(p) == j.kind = "follow" /\ j.purpose = p
    IN
    CASE j.kind = "register" ->
             [email |-> j.to, pending |-> Nobody, verified |-> FALSE, leaving |-> FALSE]
      [] j.kind = "issue" -> IF j.writes THEN [row EXCEPT !.pending = j.to] ELSE row
      [] Follows("change") ->
             [row EXCEPT !.email = j.to, !.pending = Nobody, !.verified = TRUE]
      [] Follows("verify") -> [row EXCEPT !.verified = TRUE]
      [] OTHER -> row

\* The inbox of the link: send_verification_email and its like go to the address
\* of the account, send_email_change_confirmation_email to the new one.
MailedTo(j) == j.to

\* The links after it: its own inserted or used, the others revoked.
LinksAfter(r) ==
    LET j == job[r] IN
    [t \in Links |->
        IF t \in j.revokes THEN [link[t] EXCEPT !.revoked = TRUE]
        ELSE IF t # j.link THEN link[t]
        ELSE IF j.kind = "follow" THEN [link[t] EXCEPT !.used = TRUE]
        ELSE [user |-> j.user, purpose |-> j.purpose, to |-> j.to, mailed |-> j.mailed,
              inbox |-> MailedTo(j), used |-> FALSE, revoked |-> FALSE]]

CommitJob(r) ==
    LET j == job[r] IN
    /\ r \in Flushed
    /\ account' = [account EXCEPT ![j.user] = RowAfter(r)]
    /\ link' = LinksAfter(r)
    /\ IF j.kind # "follow" THEN UNCHANGED <<proven, followed>>
       ELSE /\ proven' = [proven EXCEPT ![j.user] = @ \cup {link[j.link].inbox}]
            /\ followed' = [followed EXCEPT ![j.link] = @ + 1]
    /\ EndJob(r)
    /\ UNCHANGED <<age, crowded>>

\* The process or its connection is lost: what it mailed stays mailed.
LoseJob(r) ==
    /\ r \in Flushed
    /\ EndJob(r)
    /\ UNCHANGED <<account, link, age, proven, followed, crowded>>

-----------------------------------------------------------------------------
(* Time, and leaving. *)

\* Time passes, first for the oldest of the links whose age still matters.
Ageing ==
    {t \in Issued : age[t] < 2 /\ \E u \in Users, p \in Purposes :
        t \in Outstanding(u, p) \/ (t \in LinksOf(u, p) /\ t = Newest(u, p))}

Older(t) ==
    /\ t \in Ageing
    /\ \A s \in Ageing : s < t => age[s] > age[t]
    /\ age' = [age EXCEPT ![t] = @ + 1]
    /\ UNCHANGED <<account, link, job, proven, followed, crowded>>

\* request_account_deletion, with the password confirmed.
RequestDeletion(u) ==
    /\ u \in Existing
    /\ \A q \in Flushed : <<"user", u>> \notin Holds(q)
    /\ account' = [account EXCEPT ![u].leaving = TRUE]
    /\ UNCHANGED <<link, age, job, proven, followed, crowded>>

AccountsNext ==
    \/ \E r \in Mailers :
           \/ \E u \in Users, a \in Addresses :
                  BeginRegister(r, u, a) \/ BeginEmailChange(r, u, a)
           \/ \E u \in Users : BeginResend(r, u) \/ BeginPasswordReset(r, u)
           \/ \E t \in Issued : \/ FollowVerification(r, t) \/ FollowEmailChange(r, t)
                                \/ FollowPasswordReset(r, t)
           \/ \E delivery \in Deliveries : Flush(r, delivery)
           \/ CommitJob(r) \/ LoseJob(r)
    \/ \E t \in Links : Older(t)
    \/ \E u \in Users : RequestDeletion(u)

\* Requests are carried out and time passes.
AccountsSpec ==
    /\ AccountsInit /\ [][AccountsNext]_accountVars
    /\ \A r \in Mailers :
           /\ WF_accountVars(\E d \in Deliveries : Flush(r, d))
           /\ WF_accountVars(CommitJob(r))
    /\ \A t \in Links : WF_accountVars(Older(t))

-----------------------------------------------------------------------------
(* Properties. *)

\* Every variable stays within its type.
AccountsOK ==
    /\ account \in [Users -> AccountRows \cup {Nobody}]
    /\ link \in [Links -> LinkRows \cup {Nobody}]
    /\ age \in [Links -> 0..2]
    /\ job \in [Mailers -> Jobs \cup {Nobody}]
    /\ proven \in [Users -> SUBSET Addresses]
    /\ followed \in [Links -> Nat]
    /\ crowded \subseteq Users \X Purposes

\* api/routes/auth_routes.py:113: "Verify the new account email address before
\* applying it."  An account counts as verified only with an address whose owner
\* has followed a link mailed to it, whatever order the links are followed in
\* and whichever requests overlap.
AddressesAreProven ==
    \A u \in Existing : account[u].verified => account[u].email \in proven[u]

\* A link is redeemed once, unless two requests of that user and purpose were
\* under way together: the token is looked up without a lock.
LinksWorkOnce ==
    \A t \in Issued : <<link[t].user, link[t].purpose>> \notin crowded => followed[t] <= 1

\* A new link supersedes those before it, so that one of each purpose works,
\* unless two requests of that user and purpose were under way together.
NewestLinkWorks ==
    \A u \in Users, p \in Purposes :
        <<u, p>> \notin crowded =>
            \A t \in LinksOf(u, p) : Live(t, u) => t = Newest(u, p)

\* A mailed link proves the address it was mailed to, and of the links mailed for
\* one purpose only the newest works, and only once, unless two requests of that
\* user and purpose were under way together.
LinksWorkAsMailed == AddressesAreProven /\ LinksWorkOnce /\ NewestLinkWorks

\* delete_users_scheduled_for_deletion selects them.
ToBeDeleted == {u \in Existing : account[u].leaving}

\* services/auth_service.py:715: "Your user data is scheduled for removal in 24
\* hours."
ScheduledIsRemoved == \A u \in Users : u \in ToBeDeleted ~> u \notin Existing
=============================================================================
