---------------------------- MODULE ListingWatch ----------------------------
(***************************************************************************)
(* One marketplace listing that a user watches: the provider's offer, the  *)
(* stored listing, the observations refreshes record of it and the alerts  *)
(* raised from two consecutive observations.                               *)
(* services/watchlist_service.py, notification_service.py (emit),          *)
(* listing_evaluation_service.py, listing_analysis_service.py,             *)
(* worker/tasks.py and the repository functions they call.                 *)
(*                                                                         *)
(* A refresh is a transaction.  It updates the row of the watchlist item   *)
(* before it inserts its observation, so refreshes of one item write one   *)
(* after the other; the clock and the listing are read before that.        *)
(***************************************************************************)
EXTENDS Integers, FiniteSets

CONSTANTS
    Prices,         \* total prices, in steps that are material changes
    GoodPrice,      \* the score reaches BUY_DEAL_SCORE at this price and below
    Unwanted,       \* alert types the user has switched off
    Batches,        \* refreshes by a worker, which raise alerts
    Manuals,        \* refreshes by the user, which do not
    StaleAfter,     \* STALE_LISTING_DAYS
    MaxDay,         \* bound of the calendar
    MaxEvents,      \* bound: changes of the offer and the user's other requests
    MaxObs          \* bound: observations

ASSUME PricesAreNumbers == Prices \subseteq Nat \ {0} /\ GoodPrice \in Nat
ASSUME AgeIsNumber == StaleAfter \in Nat
ASSUME BoundsAreNatural == {MaxDay, MaxEvents} \subseteq Nat /\ MaxObs \in Nat \ {0}

VARIABLES
    day,
    offer,      \* what the provider would answer for the listing
    row,        \* marketplace_listings: price, status and last_seen_at
    target,     \* the item's target price, 0 for none
    obs,        \* watchlist_price_history, committed
    alerts,     \* notifications, committed
    pc,
    mine,       \* a refresh's observation, from the reads to the commit
    stale,      \* it marks the listing removed
    raised,     \* the alerts it has inserted
    ticket,     \* the next timestamp
    events

refreshes == <<pc, mine, stale, raised>>
vars == <<day, offer, row, target, obs, alerts, pc, mine, stale, raised,
          ticket, events>>

Refreshes == Batches \cup Manuals
Gone == {"ended", "removed"}
NoObs == [at |-> 0, price |-> 0, status |-> "active", target |-> 0, manual |-> FALSE]

Init ==
    /\ day = 0
    /\ \E p \in Prices : /\ offer = [price |-> p, state |-> "active"]
                         /\ row = [price |-> p, status |-> "active", seen |-> 0]
                         /\ \E t \in {0} \cup Prices :
                              /\ target = t
                              /\ obs = {[at |-> 1, price |-> p, status |-> "active",
                                         target |-> t, manual |-> FALSE]}
    /\ alerts = {}
    /\ pc = [r \in Refreshes |-> "idle"]
    /\ mine = [r \in Refreshes |-> NoObs]
    /\ stale = [r \in Refreshes |-> FALSE]
    /\ raised = [r \in Refreshes |-> {}]
    /\ ticket = 2
    /\ events = 0

-----------------------------------------------------------------------------
(* The provider and the user. *)

Event == events < MaxEvents /\ events' = events + 1

\* The seller changes the price, the listing ends, or it disappears.
Offer ==
    /\ Event /\ offer.state = "active"
    /\ \/ \E p \in Prices \ {offer.price} : offer' = [offer EXCEPT !.price = p]
       \/ \E s \in {"ended", "gone"} : offer' = [offer EXCEPT !.state = s]
    /\ UNCHANGED <<day, row, target, obs, alerts, ticket>>
    /\ UNCHANGED refreshes

Day ==
    /\ day < MaxDay /\ day' = day + 1
    /\ UNCHANGED <<offer, row, target, obs, alerts, ticket, events>>
    /\ UNCHANGED refreshes

\* No open transaction has updated the row of the listing.
Unlocked == \A r \in Refreshes : ~stale[r]

\* evaluate_listing_url: the provider is asked for this listing.  When it cannot
\* be reached the user's own description is taken.
Evaluate ==
    /\ Event /\ Unlocked
    /\ \/ /\ offer.state # "gone"
          /\ row' = [price |-> offer.price, status |-> offer.state, seen |-> day]
       \/ /\ offer.state = "gone"
          /\ row' = [row EXCEPT !.status = "removed", !.seen = day]
       \/ /\ \E p \in Prices : row' = [price |-> p, status |-> "active", seen |-> day]
    /\ UNCHANGED <<day, offer, target, obs, alerts, ticket>>
    /\ UNCHANGED refreshes

\* analyze_listing: stores the match, and that the listing was seen.
Analyze ==
    /\ Event /\ Unlocked
    /\ row' = [row EXCEPT !.seen = day]
    /\ UNCHANGED <<day, offer, target, obs, alerts, ticket>>
    /\ UNCHANGED refreshes

\* update_watchlist_item: waits for refreshes that have updated the item.
SetTarget ==
    /\ Event
    /\ \A r \in Refreshes : pc[r] # "written"
    /\ \E t \in ({0} \cup Prices) \ {target} : target' = t
    /\ UNCHANGED <<day, offer, row, obs, alerts, ticket>>
    /\ UNCHANGED refreshes

-----------------------------------------------------------------------------
(* A refresh of the listing's set, then the observation. *)

\* _mark_stale_listings.
IsStale == row.status = "active" /\ row.seen + StaleAfter < day

\* The provider's answer leaves the stored listing as it is: its id is known.
\* A manual refresh goes on when no provider answers, a job does not.
Read(r) ==
    /\ pc[r] = "idle" /\ ticket <= MaxObs
    /\ \E answers \in BOOLEAN :
         /\ r \in Batches => answers
         /\ answers /\ IsStale => Unlocked
         /\ stale' = [stale EXCEPT ![r] = answers /\ IsStale]
         /\ mine' = [mine EXCEPT ![r] =
                       [at |-> ticket, price |-> row.price,
                        status |-> IF answers /\ IsStale THEN "removed" ELSE row.status,
                        target |-> target, manual |-> r \in Manuals]]
    /\ ticket' = ticket + 1
    /\ pc' = [pc EXCEPT ![r] = "read"]
    /\ UNCHANGED <<day, offer, row, target, obs, alerts, raised, events>>

\* list_watchlist_price_history: the newest observation comes first.
Newest(seen) == CHOOSE o \in seen : \A p \in seen : p.at <= o.at

\* The price meets the target, and was above the target of then.
Reached(prev, cur) ==
    /\ cur.target # 0 /\ cur.price <= cur.target
    /\ prev.target = 0 \/ prev.price > prev.target

\* The types of alert two observations call for.
Changes(prev, cur) ==
    {t \in {"price_drop", "target_reached", "ended_listing", "deal_score"} \ Unwanted :
        \/ t = "price_drop" /\ cur.price < prev.price
        \/ t = "target_reached" /\ Reached(prev, cur)
        \/ t = "ended_listing" /\ prev.status \notin Gone /\ cur.status \in Gone
        \/ t = "deal_score" /\ cur.price <= GoodPrice /\ prev.price > GoodPrice}

\* The payload of an alert, which with its type is the dedupe key.
Payload(t, prev, cur) ==
    CASE t = "target_reached" -> <<cur.target, cur.price>>
      [] t = "ended_listing" -> <<0, IF cur.status = "ended" THEN 0 ELSE 1>>
      [] OTHER -> <<prev.price, cur.price>>

Alert(t, prev, cur) ==
    [type |-> t, payload |-> Payload(t, prev, cur), event |-> cur.at]

\* Not the same message as an earlier alert, and not of the same observation.
IsNew(a) ==
    \A b \in alerts : /\ b.type # a.type \/ b.payload # a.payload
                      /\ b.event # a.event \/ b.type # a.type

\* Mutant of Neighbours: nothing is compared by a job that has been overtaken.
NeighboursOf(r) ==
    IF \A o \in obs : o.at < mine[r].at THEN <<Newest(obs), mine[r]>>
    ELSE <<mine[r], mine[r]>>

\* The two newest observations, which need not be those of the job.
Neighbours(r) ==
    LET seen == obs \cup {mine[r]}
    IN  <<Newest(seen \ {Newest(seen)}), Newest(seen)>>

\* The item is updated, which waits for other refreshes; the observation and,
\* by a job, the alerts on the two newest ones are inserted.
Write(r) ==
    LET prev == Neighbours(r)[1]
        cur == Neighbours(r)[2]
    IN  /\ pc[r] = "read"
        /\ \A q \in Refreshes : pc[q] # "written"
        /\ pc' = [pc EXCEPT ![r] = "written"]
        /\ raised' = [raised EXCEPT ![r] =
                        IF r \in Manuals THEN {}
                        ELSE {a \in {Alert(t, prev, cur) : t \in Changes(prev, cur)} : IsNew(a)}]
        /\ UNCHANGED <<day, offer, row, target, obs, alerts, mine, stale,
                       ticket, events>>

Over(r) ==
    /\ pc' = [pc EXCEPT ![r] = "idle"]
    /\ mine' = [mine EXCEPT ![r] = NoObs]
    /\ stale' = [stale EXCEPT ![r] = FALSE]
    /\ raised' = [raised EXCEPT ![r] = {}]
    /\ UNCHANGED <<day, offer, target, ticket>>

Commit(r) ==
    /\ pc[r] = "written"
    /\ obs' = obs \cup {mine[r]}
    /\ alerts' = alerts \cup raised[r]
    /\ row' = IF stale[r] THEN [row EXCEPT !.status = "removed"] ELSE row
    /\ Over(r)
    /\ UNCHANGED events

\* An exception or a killed worker: the transaction is rolled back.
Abort(r) ==
    /\ pc[r] # "idle" /\ Event
    /\ Over(r)
    /\ UNCHANGED <<row, obs, alerts>>

Next ==
    \/ Offer \/ Day \/ Evaluate \/ Analyze \/ SetTarget
    \/ \E r \in Refreshes : Read(r) \/ Write(r) \/ Commit(r) \/ Abort(r)

Spec == Init /\ [][Next]_vars

-----------------------------------------------------------------------------
(* Properties. *)

Statuses == {"active"} \cup Gone
Observations == [at : 0..MaxObs, price : {0} \cup Prices, status : Statuses,
                 target : {0} \cup Prices, manual : BOOLEAN]
Types == {"price_drop", "target_reached", "ended_listing", "deal_score"}

AlertRows ==
    [type : Types \ Unwanted, payload : ({0} \cup Prices) \X ({0, 1} \cup Prices),
     event : 1..MaxObs]

\* Every variable stays within its type.
TypeOK ==
    /\ day \in 0..MaxDay
    /\ offer \in [price : Prices, state : {"active", "ended", "gone"}]
    /\ row \in [price : Prices, status : Statuses, seen : 0..MaxDay]
    /\ target \in {0} \cup Prices
    /\ obs \subseteq Observations
    /\ alerts \subseteq AlertRows
    /\ pc \in [Refreshes -> {"idle", "read", "written"}]
    /\ mine \in [Refreshes -> Observations]
    /\ stale \in [Refreshes -> BOOLEAN]
    /\ raised \in [Refreshes -> SUBSET AlertRows]
    /\ ticket \in 1..(MaxObs + 1)
    /\ events \in 0..MaxEvents

Before(o) == {p \in obs : p.at < o.at}

\* Every alert is about an observation that was recorded, and tells a change
\* from an earlier one, although jobs record out of the order of their times.
AlertsAreTrue ==
    \A a \in alerts : \E cur \in obs : \E prev \in Before(cur) :
        a.event = cur.at /\ a.type \in Changes(prev, cur) /\ a = Alert(a.type, prev, cur)

\* The user is never told the same twice about one item: no two alerts have
\* the same type and content, although jobs of two providers run together.
NoAlertTwice ==
    \A a, b \in alerts : a.type = b.type /\ a.payload = b.payload => a = b

\* Whatever the two newest observations show, if jobs recorded both, the user
\* has been told, now or when the same thing happened before, also when the jobs
\* recorded them in the other order: each change has an alert with its message.
NewestIsAlerted ==
    LET cur == Newest(obs)
        prev == Newest(obs \ {cur})
    IN  /\ Cardinality(obs) > 1 /\ ~cur.manual /\ ~prev.manual
        /\ \A r \in Refreshes : pc[r] = "idle"
        => \A t \in Changes(prev, cur) :
             \E a \in alerts : a.type = t /\ a.payload[2] = Payload(t, prev, cur)[2]

\* A change that two jobs in a row have observed is told to the user, what has
\* been told is not told again, and nothing is told that was not observed.
AlertedOnce == AlertsAreTrue /\ NoAlertTwice /\ NewestIsAlerted
=============================================================================
