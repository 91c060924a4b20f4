---------------------------- MODULE EmailDigests ----------------------------
(***************************************************************************)
(* The e-mail side of watchlist notifications: alerts drafted by a refresh *)
(* job and committed later, the users' preferences and unsubscribe, and    *)
(* the hourly delivery of pending alerts as one digest per user.           *)
(* services/notification_service.py, worker/tasks.py and the repository    *)
(* functions they call.                                                    *)
(*                                                                         *)
(* One delivery is one transaction over all users.  The rows it marks are  *)
(* locked until its commit, and the mails are out long before.             *)
(***************************************************************************)
EXTENDS Integers, FiniteSets

CONSTANTS
    Users,
    Alerts,         \* notifications that can ever be created
    Ownerships,     \* what is checked: whose each alert may be
    Deliveries,     \* delivery tasks that may run at the same time
    MaxToggles,     \* bound: changes of the users' settings
    MaxMailFailures \* bound: mails not accepted and tasks that fail

ASSUME AlertsHaveOwners == Ownerships \subseteq [Alerts -> Users]
ASSUME DigestBounds == MaxToggles \in Nat /\ MaxMailFailures \in Nat

VARIABLES
    ownerOf,    \* user_id of each notification, never changed
    emailOn,    \* user_notification_settings.email_enabled
    typeOn,     \* notification_preferences.email_enabled; one type is enough
    quiet,      \* users in their quiet hours
    alert,      \* notification rows: email_eligible and email_sent_at
    stage,      \* how far each delivery is
    ahead,      \* users it has not come to
    user,       \* the user it is at
    listed,     \* the pending alerts it loaded for that user
    marks,      \* rows it has marked sent and not committed
    mutes,      \* rows it has made ineligible and not committed
    mailed,     \* history: how often each alert went out in a mail
    muted,      \* history: users whose e-mail was off since the delivery began
    overlapped, \* history: two deliveries have run at the same time
    toggles, mailFailures

run == <<stage, ahead, user, listed, marks, mutes>>
settings == <<ownerOf, emailOn, typeOn, quiet>>
digestVars == <<ownerOf, emailOn, typeOn, quiet, alert, stage, ahead, user, listed, marks,
                mutes, mailed, muted, overlapped, toggles, mailFailures>>

Of(u) == {n \in Alerts : ownerOf[n] = u}

\* Mutant of PendingOf: email_sent_at is not asked for.
PendingOrSent(u) == {n \in Of(u) : alert[n] \in {"pending", "sent"}}

\* The alerts of the user that wait for a digest.
PendingOf(u) == {n \in Of(u) : alert[n] = "pending"}

LockedBy(r) == marks[r] \cup mutes[r]
Locked == UNION {LockedBy(r) : r \in Deliveries}

DigestInit ==
    /\ ownerOf \in Ownerships
    /\ emailOn = [u \in Users |-> TRUE]
    /\ typeOn \in [Users -> BOOLEAN]
    /\ quiet = {}
    /\ alert = [n \in Alerts |-> "none"]
    /\ stage = [r \in Deliveries |-> "idle"]
    /\ ahead = [r \in Deliveries |-> {}]
    /\ user = [r \in Deliveries |-> {}]
    /\ listed = [r \in Deliveries |-> {}]
    /\ marks = [r \in Deliveries |-> {}]
    /\ mutes = [r \in Deliveries |-> {}]
    /\ mailed = [n \in Alerts |-> 0]
    /\ muted = [r \in Deliveries |-> {}]
    /\ overlapped = FALSE
    /\ toggles = 0 /\ mailFailures = 0

-----------------------------------------------------------------------------
(* emit_watchlist_notifications, in the transaction of a refresh job. *)

\* The preferences are read and the row is inserted, not committed yet.
Draft(n) ==
    /\ alert[n] = "none"
    /\ alert' = [alert EXCEPT ![n] =
                   IF emailOn[ownerOf[n]] /\ typeOn[ownerOf[n]]
                   THEN "drafted" ELSE "in_app"]
    /\ UNCHANGED <<mailed, muted, toggles, mailFailures, overlapped>>
    /\ UNCHANGED run
    /\ UNCHANGED settings

\* The job commits, whatever the user has changed since.
Publish(n) ==
    /\ alert[n] = "drafted"
    /\ alert' = [alert EXCEPT ![n] = "pending"]
    /\ UNCHANGED <<mailed, muted, toggles, mailFailures, overlapped>>
    /\ UNCHANGED run
    /\ UNCHANGED settings

-----------------------------------------------------------------------------
(* The user's requests. *)

\* disable_pending_notification_emails: UPDATE of what is pending, which
\* waits for deliveries that have marked one of the rows.
Disable(u) ==
    /\ PendingOf(u) \cap Locked = {}
    /\ alert' = [n \in Alerts |-> IF n \in PendingOf(u) THEN "muted" ELSE alert[n]]

Toggle == toggles < MaxToggles /\ toggles' = toggles + 1

\* unsubscribe_email, and update_notification_settings to off.
Unsubscribe(u) ==
    /\ Toggle
    /\ emailOn' = [emailOn EXCEPT ![u] = FALSE]
    /\ Disable(u)
    /\ UNCHANGED <<ownerOf, typeOn, quiet, mailed, muted, mailFailures, overlapped>>
    /\ UNCHANGED run

\* update_notification_settings to on.
Subscribe(u) ==
    /\ Toggle
    /\ emailOn' = [emailOn EXCEPT ![u] = TRUE]
    /\ muted' = [r \in Deliveries |-> muted[r] \ {u}]
    /\ UNCHANGED <<ownerOf, typeOn, quiet, alert, mailed, mailFailures, overlapped>>
    /\ UNCHANGED run

\* update_preference.
SetType(u, on) ==
    /\ Toggle
    /\ typeOn' = [typeOn EXCEPT ![u] = on]
    /\ IF on THEN UNCHANGED alert ELSE Disable(u)
    /\ UNCHANGED <<ownerOf, emailOn, quiet, mailed, muted, mailFailures, overlapped>>
    /\ UNCHANGED run

\* Quiet hours begin and end with the clock.
SetQuiet(u) ==
    /\ Toggle
    /\ quiet' = IF u \in quiet THEN quiet \ {u} ELSE quiet \cup {u}
    /\ UNCHANGED <<ownerOf, emailOn, typeOn, alert, mailed, muted, mailFailures, overlapped>>
    /\ UNCHANGED run

-----------------------------------------------------------------------------
(* deliver_pending_email_digests. *)

\* list_users_with_pending_notification_emails.
Begin(r) ==
    /\ stage[r] = "idle"
    /\ \E u \in Users : PendingOf(u) # {}
    /\ stage' = [stage EXCEPT ![r] = "next"]
    /\ ahead' = [ahead EXCEPT ![r] = {u \in Users : PendingOf(u) # {}}]
    /\ muted' = [muted EXCEPT ![r] = {u \in Users : ~emailOn[u]}]
    /\ overlapped' = (overlapped \/ \E q \in Deliveries : stage[q] # "idle")
    /\ UNCHANGED <<user, listed, marks, mutes, alert, mailed, toggles, mailFailures>>
    /\ UNCHANGED settings

\* The next user, in no particular order, and the user's pending alerts.
List(r, u) ==
    /\ stage[r] = "next" /\ u \in ahead[r]
    /\ ahead' = [ahead EXCEPT ![r] = @ \ {u}]
    /\ IF PendingOf(u) = {}
       THEN UNCHANGED <<stage, user, listed>>
       ELSE /\ stage' = [stage EXCEPT ![r] = "check"]
            /\ user' = [user EXCEPT ![r] = {u}]
            /\ listed' = [listed EXCEPT ![r] = PendingOf(u)]
    /\ UNCHANGED <<marks, mutes, alert, mailed, muted, toggles, mailFailures, overlapped>>
    /\ UNCHANGED settings

\* On to the next user.
Done(r) ==
    /\ stage' = [stage EXCEPT ![r] = "next"]
    /\ user' = [user EXCEPT ![r] = {}]
    /\ listed' = [listed EXCEPT ![r] = {}]
    /\ UNCHANGED ahead

\* Mutant of MayMail: the switch is not read again at delivery.
MayMailAsEmitted(u) == u \notin quiet

\* Mutant of MayMail: the switch of the type is read again as well, and users
\* who have it off are skipped.
MayMailAsTyped(u) == emailOn[u] /\ typeOn[u] /\ u \notin quiet

\* The global switch and the quiet hours, read at delivery.
MayMail(u) == emailOn[u] /\ u \notin quiet

\* E-mail is off: what is pending is made ineligible.  Quiet hours: the user
\* is left for a later delivery.
Check(r) ==
    /\ stage[r] = "check"
    /\ UNCHANGED <<marks, alert, mailed, muted, toggles, mailFailures, overlapped>>
    /\ UNCHANGED settings
    /\ \E u \in user[r] :
         \/ /\ MayMail(u)
            /\ stage' = [stage EXCEPT ![r] = "send"]
            /\ UNCHANGED <<ahead, user, listed, mutes>>
         \/ /\ ~MayMail(u) /\ emailOn[u]
            /\ Done(r)
            /\ UNCHANGED mutes
         \/ /\ ~MayMail(u) /\ ~emailOn[u]
            /\ PendingOf(u) \cap (Locked \ LockedBy(r)) = {}
            /\ mutes' = [mutes EXCEPT ![r] = @ \cup (PendingOf(u) \ marks[r])]
            /\ Done(r)

\* A digest of these alerts is out.  Bound: twice is as good as more often.
Mailed(alerts) ==
    mailed' = [n \in Alerts |->
                 IF n \in alerts /\ mailed[n] < 2 THEN mailed[n] + 1 ELSE mailed[n]]

MailFailure == mailFailures < MaxMailFailures /\ mailFailures' = mailFailures + 1

\* The mail server accepts the digest.
Send(r) ==
    /\ stage[r] = "send"
    /\ Mailed(listed[r])
    /\ stage' = [stage EXCEPT ![r] = "mark"]
    /\ UNCHANGED <<ahead, user, listed, marks, mutes, alert, muted, toggles, mailFailures,
                   overlapped>>
    /\ UNCHANGED settings

\* It does not, or the mail service is not configured: the alerts stay pending.
\* After an answer that was lost the digest may be out all the same.
SendFails(r) ==
    /\ stage[r] = "send" /\ MailFailure
    /\ \/ UNCHANGED mailed
       \/ Mailed(listed[r])
    /\ Done(r)
    /\ UNCHANGED <<marks, mutes, alert, muted, toggles, overlapped>>
    /\ UNCHANGED settings

\* mark_notification_emails_sent: UPDATE of the rows by id.
Mark(r) ==
    /\ stage[r] = "mark"
    /\ listed[r] \cap (Locked \ LockedBy(r)) = {}
    /\ marks' = [marks EXCEPT ![r] = @ \cup listed[r]]
    /\ Done(r)
    /\ UNCHANGED <<mutes, alert, mailed, muted, toggles, mailFailures, overlapped>>
    /\ UNCHANGED settings

Over(r) ==
    /\ stage' = [stage EXCEPT ![r] = "idle"]
    /\ ahead' = [ahead EXCEPT ![r] = {}]
    /\ user' = [user EXCEPT ![r] = {}]
    /\ listed' = [listed EXCEPT ![r] = {}]
    /\ marks' = [marks EXCEPT ![r] = {}]
    /\ mutes' = [mutes EXCEPT ![r] = {}]
    /\ muted' = [muted EXCEPT ![r] = {}]

\* One commit for all users, at the end of the task.
Commit(r) ==
    /\ stage[r] = "next" /\ ahead[r] = {}
    /\ alert' = [n \in Alerts |-> IF n \in marks[r] THEN "sent"
                                  ELSE IF n \in mutes[r] THEN "muted" ELSE alert[n]]
    /\ Over(r)
    /\ UNCHANGED <<mailed, toggles, mailFailures, overlapped>>
    /\ UNCHANGED settings

\* An exception or a killed worker: nothing of the run is kept.
CrashDelivery(r) ==
    /\ stage[r] # "idle" /\ MailFailure
    /\ Over(r)
    /\ UNCHANGED <<alert, mailed, toggles, overlapped>>
    /\ UNCHANGED settings

\* The rows the next statement of a delivery updates.
Wants(r) ==
    CASE stage[r] = "mark" -> listed[r]
      [] stage[r] = "check" -> UNION {PendingOf(u) : u \in {x \in user[r] : ~emailOn[x]}}
      [] OTHER -> {}

\* Two deliveries wait for each other's rows: the database ends one of them and
\* gives its rows to the statement that waits for them.
Victim(r) ==
    /\ \E q \in Deliveries \ {r} :
         /\ Wants(r) \cap LockedBy(q) # {}
         /\ Wants(q) \cap LockedBy(r) # {}
         /\ Wants(q) \cap (Locked \ (LockedBy(r) \cup LockedBy(q))) = {}
         /\ stage' = [stage EXCEPT ![r] = "idle", ![q] = "next"]
         /\ marks' = [marks EXCEPT ![r] = {},
                        ![q] = IF stage[q] = "mark" THEN @ \cup Wants(q) ELSE @]
         /\ mutes' = [mutes EXCEPT ![r] = {},
                        ![q] = IF stage[q] = "check" THEN @ \cup (Wants(q) \ marks[q]) ELSE @]
         /\ user' = [user EXCEPT ![r] = {}, ![q] = {}]
         /\ listed' = [listed EXCEPT ![r] = {}, ![q] = {}]
    /\ ahead' = [ahead EXCEPT ![r] = {}]
    /\ muted' = [muted EXCEPT ![r] = {}]
    /\ UNCHANGED <<alert, mailed, toggles, mailFailures, overlapped>>
    /\ UNCHANGED settings

Deliver(r) ==
    \/ Begin(r) \/ Check(r) \/ Send(r) \/ SendFails(r) \/ Mark(r) \/ Commit(r)
    \/ Victim(r) \/ \E u \in Users : List(r, u)

DigestNext ==
    \/ \E n \in Alerts : Draft(n) \/ Publish(n)
    \/ \E u \in Users : \/ Unsubscribe(u) \/ Subscribe(u) \/ SetQuiet(u)
                        \/ \E on \in BOOLEAN : SetType(u, on)
    \/ \E r \in Deliveries : Deliver(r) \/ CrashDelivery(r)

DigestSpec == DigestInit /\ [][DigestNext]_digestVars

\* The beat schedule starts a delivery every hour, a delivery goes on, and the
\* database serves the waiters of a row lock in order.
FairDigestSpec ==
    /\ DigestSpec
    /\ \A r \in Deliveries : WF_digestVars(Deliver(r)) /\ SF_digestVars(Check(r) \/ Mark(r))

-----------------------------------------------------------------------------
(* Properties. *)

\* Every variable stays within its type.
DigestTypeOK ==
    /\ ownerOf \in Ownerships
    /\ emailOn \in [Users -> BOOLEAN]
    /\ typeOn \in [Users -> BOOLEAN]
    /\ quiet \subseteq Users
    /\ alert \in [Alerts -> {"none", "drafted", "in_app", "pending", "muted", "sent"}]
    /\ stage \in [Deliveries -> {"idle", "next", "check", "send", "mark"}]
    /\ ahead \in [Deliveries -> SUBSET Users]
    /\ user \in [Deliveries -> SUBSET Users]
    /\ listed \in [Deliveries -> SUBSET Alerts]
    /\ marks \in [Deliveries -> SUBSET Alerts]
    /\ mutes \in [Deliveries -> SUBSET Alerts]
    /\ mailed \in [Alerts -> 0..2]
    /\ muted \in [Deliveries -> SUBSET Users]
    /\ overlapped \in BOOLEAN
    /\ toggles \in Nat
    /\ mailFailures \in Nat

\* No alert is recorded as sent that was in no mail, also when it was
\* published while the digest of its user was under way.
SentWasMailed == \A n \in Alerts : alert[n] = "sent" => mailed[n] > 0

\* A delivery that began with a user's e-mail switched off, and has not seen
\* it switched on since, mails nothing to that user, although alerts drafted
\* before the switch are published after it and stay eligible.
OptOutHolds ==
    \A r \in Deliveries : stage[r] = "send" => user[r] \cap muted[r] = {}

\* Every published alert is settled: it is marked as sent or made ineligible,
\* unless its user is in quiet hours from some time on.
PendingIsSettled ==
    \A n \in Alerts :
        alert[n] = "pending" ~> alert[n] # "pending" \/ ownerOf[n] \in quiet

\* worker/tasks.py:171, "at most one digest of pending watchlist changes", and
\* notification_service.py:301, "then mark its entries sent": no alert is in
\* two mails as long as deliveries do not overlap and none fails, whatever is
\* published or switched while they run.
MailedOnce == ~overlapped /\ mailFailures = 0 => \A n \in Alerts : mailed[n] <= 1

\* What is marked as sent is what was mailed: in one mail, not in none.
MarksMatchMails == SentWasMailed /\ MailedOnce
=============================================================================
