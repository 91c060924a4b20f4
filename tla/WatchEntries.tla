---------------------------- MODULE WatchEntries ----------------------------
(***************************************************************************)
(* What a user watches and the inbox of its notifications: entries are     *)
(* added, changed, removed and bought, refreshed by the user and by jobs,  *)
(* and each check adds a point to the history that the pages compare with  *)
(* (services/watchlist_service.py, services/notification_service.py).      *)
(*                                                                         *)
(* A refresh by the user is not atomic: it reads the entries, asks the     *)
(* providers and writes much later.  Which alerts a check raises is the    *)
(* subject of ListingWatch; here any entry may raise one.                  *)
(***************************************************************************)
EXTENDS Integers, Sequences, FiniteSets, FiniteSetsExt, Functions

CONSTANTS
    Things,             \* sets and listings that can be watched
    Listings,
    Costs,              \* prices of listings
    Refreshers,         \* requests to refresh
    Readers,            \* requests to mark one notification as read
    NoThing,
    Cooldown,           \* MANUAL_REFRESH_COOLDOWN, in hours
    MaxHour, MaxMoments, MaxNotices     \* bounds

ASSUME WatchConstants ==
    /\ Listings \subseteq Things /\ NoThing \notin Things
    /\ Costs \subseteq Nat \ {0} /\ Costs # {}
    /\ {Cooldown, MaxHour, MaxMoments, MaxNotices} \subseteq Nat

VARIABLES
    goods,          \* price and status of each listing
    entries,        \* partial function: the last known status of what is watched
    points,         \* the history of each entry, newest observed_at first
    notices,        \* notifications in the order of their creation
    inApp,          \* the user's preference
    hour, lastManual,   \* _last_manual_refresh_by_user, in memory
    refreshing,     \* the requests to refresh
    reading,        \* the notification a request found unread
    moment,         \* orders the moments checks begin at
    lastSeen, told, \* history: the price of the last check, and how much it had changed
    tangled         \* history: entries checked while a refresh was under way

watchVars == <<goods, entries, points, notices, inApp, hour, lastManual, refreshing, reading,
               moment, lastSeen, told, tangled>>
checks == <<points, lastSeen, told, tangled>>
inbox == <<notices, inApp, reading>>

Inactive == {"ended", "removed", "sold"}
Watched == DOMAIN entries
NotRefreshing == [on |-> FALSE, from |-> 0, at |-> 0, seen |-> << >>]
NotYet == -1

WatchInit ==
    /\ goods = [l \in Listings |-> [price |-> Min(Costs), status |-> "active"]]
    /\ entries = << >> /\ points = << >>
    /\ notices = << >> /\ inApp = TRUE
    /\ hour = 0 /\ lastManual = NotYet
    /\ refreshing = [r \in Refreshers |-> NotRefreshing]
    /\ reading = [q \in Readers |-> 0]
    /\ moment = 1
    /\ lastSeen = << >> /\ told = << >> /\ tangled = {}

-----------------------------------------------------------------------------
(* Checks. *)

CostOf(stock, t) == IF t \in Listings THEN stock[t].price ELSE 0
StatusOf(stock, t) == IF t \in Listings THEN stock[t].status ELSE "active"

\* list_watchlist_price_history: by observed_at, the newest first.
Ordered(history, point) ==
    LET newer == Cardinality({i \in DOMAIN history : history[i].at > point.at})
    IN  SubSeq(history, 1, newer) \o <<point>> \o SubSeq(history, newer + 1, Len(history))

Underway == {r \in Refreshers : refreshing[r].on}

\* _record_intelligence: a point for each of the entries, of what was read.  A check of a
\* refresh is observed at the moment the refresh began.
Recorded(checked, stock, at, others) ==
    /\ points' = [t \in DOMAIN entries' |->
                    IF t \notin checked THEN points[t]
                    ELSE Ordered(IF t \in Watched THEN points[t] ELSE << >>,
                                 [at |-> at, price |-> CostOf(stock[t], t)])]
    /\ told' = [t \in DOMAIN entries' |->
                    IF t \notin checked THEN told[t]
                    ELSE IF t \in Watched THEN CostOf(stock[t], t) - lastSeen[t] ELSE 0]
    /\ lastSeen' = [t \in DOMAIN entries' |->
                    IF t \in checked THEN CostOf(stock[t], t) ELSE lastSeen[t]]
    /\ tangled' = IF others = {} THEN tangled ELSE tangled \cup checked

\* Mutant of PriceChange: always against the last point.
PriceChangeSinceLast(t) == CostOf(goods, t) - points[t][1].price

\* _response: against the last point, or the one before when that says the same.
PriceChange(t) ==
    LET h == points[t]
        other == IF Len(h) > 1 /\ h[1].price = CostOf(goods, t) THEN h[2] ELSE h[1]
    IN  CostOf(goods, t) - other.price

-----------------------------------------------------------------------------
(* Entries. *)

Draw == moment < MaxMoments /\ moment' = moment + 1

\* create_watchlist_item: the unique constraint refuses what is watched already.
Watch(t) ==
    /\ t \notin Watched /\ Draw
    /\ entries' = [s \in Watched \cup {t} |-> IF s = t THEN StatusOf(goods, t) ELSE entries[s]]
    /\ Recorded({t}, [s \in {t} |-> goods], moment, Underway)
    /\ UNCHANGED <<goods, hour, lastManual, refreshing>> /\ UNCHANGED inbox

\* ON DELETE: the history goes with the entry, its notifications stay without it.
Removed(t) ==
    /\ entries' = Restrict(entries, Watched \ {t})
    /\ points' = Restrict(points, Watched \ {t})
    /\ lastSeen' = Restrict(lastSeen, Watched \ {t}) /\ told' = Restrict(told, Watched \ {t})
    /\ tangled' = tangled \ {t}
    /\ notices' = [n \in DOMAIN notices |->
                     IF notices[n].about = t THEN [notices[n] EXCEPT !.about = NoThing] ELSE notices[n]]
    /\ UNCHANGED <<goods, inApp, hour, lastManual, refreshing, reading, moment>>

Unwatch(t) == t \in Watched /\ Removed(t)

\* move_watchlist_item_to_portfolio: judged by the status of the last check.  A listing
\* has a price, for a set the user gives one.
Acquire(t) == t \in Watched /\ entries[t] \notin Inactive /\ Removed(t)

\* refresh_watchlist_items up to the providers.
BeginRefresh(r) ==
    /\ ~refreshing[r].on /\ Draw
    /\ lastManual = NotYet \/ hour - lastManual >= Cooldown
    /\ refreshing' = [refreshing EXCEPT ![r] =
                        [on |-> TRUE, from |-> hour, at |-> moment, seen |-> [t \in Watched |-> goods]]]
    /\ UNCHANGED <<goods, entries, hour, lastManual>>
    /\ UNCHANGED checks /\ UNCHANGED inbox

\* The entries are listed again: those read before still say what they said then.
EndRefresh(r) ==
    LET seen == refreshing[r].seen
        stock == [t \in Watched |-> IF t \in DOMAIN seen THEN seen[t] ELSE goods]
    IN  /\ refreshing[r].on
        /\ entries' = [t \in Watched |-> StatusOf(stock[t], t)]
        /\ Recorded(Watched, stock, refreshing[r].at, Underway \ {r})
        /\ lastManual' = refreshing[r].from
        /\ refreshing' = [refreshing EXCEPT ![r] = NotRefreshing]
        /\ UNCHANGED <<goods, hour, moment>> /\ UNCHANGED inbox

\* A request that fails is remembered if only its commit failed; a restart forgets all.
FailRefresh(r) ==
    /\ refreshing[r].on
    /\ refreshing' = [refreshing EXCEPT ![r] = NotRefreshing]
    /\ lastManual' \in {lastManual, refreshing[r].from}
    /\ UNCHANGED <<goods, entries, hour, moment>>
    /\ UNCHANGED checks /\ UNCHANGED inbox

Restart ==
    /\ lastManual # NotYet /\ lastManual' = NotYet
    /\ refreshing' = [r \in Refreshers |-> NotRefreshing]
    /\ reading' = [q \in Readers |-> 0]
    /\ UNCHANGED <<goods, entries, notices, inApp, hour, moment>> /\ UNCHANGED checks

\* capture_watchlist_intelligence, of a job.
Capture ==
    /\ Watched # {} /\ Draw
    /\ entries' = [t \in Watched |-> StatusOf(goods, t)]
    /\ Recorded(Watched, [t \in Watched |-> goods], moment, Underway)
    /\ UNCHANGED <<goods, hour, lastManual, refreshing>> /\ UNCHANGED inbox

\* A search or a crawl stores what a provider says of a listing.
Trade(l) ==
    /\ \E p \in Costs, s \in {"active", "sold"} : goods' = [goods EXCEPT ![l] = [price |-> p, status |-> s]]
    /\ goods' # goods
    /\ UNCHANGED <<entries, hour, lastManual, refreshing, moment>>
    /\ UNCHANGED checks /\ UNCHANGED inbox

Pass ==
    /\ hour < MaxHour /\ hour' = hour + 1
    /\ UNCHANGED <<goods, entries, lastManual, refreshing, moment>>
    /\ UNCHANGED checks /\ UNCHANGED inbox

-----------------------------------------------------------------------------
(* Notifications. *)

aside == <<goods, entries, points, hour, lastManual, refreshing, lastSeen, told, tangled>>

\* A job raises an alert: for the inbox, for a mail only, or none at all.
Raise(t) ==
    /\ t \in Watched /\ Len(notices) < MaxNotices
    /\ \E mail \in BOOLEAN : inApp \/ mail
    /\ notices' = Append(notices, [about |-> t, shown |-> inApp, read |-> FALSE, readAt |-> 0])
    /\ UNCHANGED <<inApp, reading, moment>> /\ UNCHANGED aside

Prefer(on) ==
    /\ inApp # on /\ inApp' = on
    /\ UNCHANGED <<notices, reading, moment>> /\ UNCHANGED aside

\* Mutant of Unread: what has been read is there again.
Listed == {n \in DOMAIN notices : notices[n].shown}

\* list_notifications with unread_only; unread_notification_count is their number.
Unread == {n \in DOMAIN notices : notices[n].shown /\ ~notices[n].read}

\* mark_read: the notification is read, then written.
Open(q, n) ==
    /\ reading[q] = 0 /\ n \in Unread
    /\ reading' = [reading EXCEPT ![q] = n]
    /\ UNCHANGED <<notices, inApp, moment>> /\ UNCHANGED aside

Marked(ns) ==
    [n \in DOMAIN notices |->
        IF n \in ns THEN [notices[n] EXCEPT !.read = TRUE, !.readAt = moment] ELSE notices[n]]

Mark(q) ==
    /\ reading[q] # 0 /\ Draw
    /\ notices' = Marked({reading[q]})
    /\ reading' = [reading EXCEPT ![q] = 0]
    /\ UNCHANGED inApp /\ UNCHANGED aside

\* mark_all_notifications_read: one UPDATE.
MarkAll ==
    /\ Unread # {} /\ Draw
    /\ notices' = Marked(Unread)
    /\ UNCHANGED <<inApp, reading>> /\ UNCHANGED aside

WatchNext ==
    \/ \E t \in Things : Watch(t) \/ Unwatch(t) \/ Acquire(t) \/ Raise(t)
    \/ \E r \in Refreshers : BeginRefresh(r) \/ EndRefresh(r) \/ FailRefresh(r)
    \/ Restart \/ Capture \/ Pass
    \/ \E l \in Listings : Trade(l)
    \/ \E on \in BOOLEAN : Prefer(on)
    \/ \E q \in Readers : Mark(q) \/ \E n \in DOMAIN notices : Open(q, n)
    \/ MarkAll

WatchSpec == WatchInit /\ [][WatchNext]_watchVars

-----------------------------------------------------------------------------
(* Properties. *)

\* The pages tell what the last check found: while the price is the one the last
\* check saw, an entry shows by how much that differed from the check before it, and
\* otherwise by how much the price has changed since, whatever was added, removed or
\* refreshed.  Checks that a refresh overlaps are left out: a refresh is observed at
\* the moment it began and may sort below a check that is older than what it saw.
ChangesAreShown ==
    \A t \in Watched \ tangled :
        PriceChange(t) =
            IF CostOf(goods, t) = lastSeen[t] THEN told[t] ELSE CostOf(goods, t) - lastSeen[t]

\* A notification outlives its entry, is never lost or unread again, and keeps the
\* moment it was read at unless another request had found it unread before; what
\* is not for the inbox is never marked.
NoticesAreKept ==
    [][\A n \in DOMAIN notices :
          /\ n \in DOMAIN notices'
          /\ \/ notices'[n].about = notices[n].about
             \/ notices'[n].about = NoThing /\ notices[n].about \notin DOMAIN entries'
          /\ notices[n].read => /\ notices'[n].read
                                /\ \/ notices'[n].readAt = notices[n].readAt
                                   \/ \E q \in Readers : reading[q] = n /\ reading'[q] # n
          /\ notices'[n].read => notices'[n].shown]_watchVars
=============================================================================
