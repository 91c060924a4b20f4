---------------------------- MODULE ListingIntake ----------------------------
(* A listing that comes in by its address (services/listing_evaluation_      *)
(* service.py): the address is read, or followed if it is short, the         *)
(* provider is asked for that one listing unless its row is recent, and the  *)
(* row is made or updated; what the user describes stands in for a provider  *)
(* that does not answer.  Requests run in one web process and interleave     *)
(* wherever they await; each has one transaction at READ COMMITTED, whose    *)
(* UPDATE writes the columns that differ from the row as it was loaded.      *)
EXTENDS Integers

CONSTANTS
    Addresses, AddressOf,   \* what is read from each address
    Blank,                  \* the listing number of an address kept short
    Amounts,                \* what sellers ask
    Descriptions,           \* what users enter: price and status
    Inquiries,              \* requests to evaluate a listing
    Window, Spacing,        \* RECENT_EVALUATION_WINDOW and the time between calls
    LastInstant, MaxTurns,    \* bounds: time, and what sellers and others do
    Nowhere

\* ebay.to, an eBay site, bricklink.com, or anywhere else.
Sites == {"short", "ebay", "bricklink", "elsewhere"}

Statuses == {"active", "sold", "ended", "removed"}

\* The rows of marketplace_listings, whoever described them.
Rows ==
    [price : Nat, status : Statuses, verified : BOOLEAN, seen : Int,
     payload : [by : {"provider", "user", "caller"}, price : Nat]]

ASSUME AddressesAreRead ==
    /\ Nowhere \notin Addresses \cup Inquiries \cup Rows
    /\ \A a \in Addresses :
           /\ AddressOf[a].site \in Sites
           /\ AddressOf[a].public \in BOOLEAN
           /\ AddressOf[a].leadsTo \in Addresses \cup {Nowhere}

ASSUME DescriptionsArePriced ==
    /\ Amounts \subseteq Nat
    /\ \A m \in Descriptions : m.price \in Nat /\ m.status \in Statuses

VARIABLES
    truth,      \* each listing as its provider has it
    listed,     \* its row, or Nowhere
    shops,      \* the marketplaces that have a row
    inquiry,    \* each request in progress
    turn,       \* who holds _provider_lock, or Nowhere
    lastAsked,  \* _provider_last_request
    instant, turns,
    mingled     \* history: listings of which two evaluations overlapped

intakeVars == <<truth, listed, shops, inquiry, turn, lastAsked, instant, turns, mingled>>

-----------------------------------------------------------------------------
(* Addresses. *)

Rejected == [provider |-> "none", number |-> Nowhere, short |-> FALSE]
Found(p, n) == [provider |-> p, number |-> n, short |-> FALSE]

\* normalize_listing_url: an address names a listing, or is one to follow.
Normal(a) ==
    LET said == AddressOf[a]
    IN  IF ~said.public \/ said.site = "elsewhere" \/ said.number = Nowhere THEN Rejected
        ELSE IF said.site = "short" THEN [provider |-> "ebay", number |-> Blank, short |-> TRUE]
        ELSE Found(said.site, said.number)

\* resolve_shortened_url with n hops left: redirects are followed while they
\* stay short.  Where an address does not redirect it is read as it stands,
\* and a short one then has a blank number.
Hops[n \in 0..4, a \in Addresses] ==
    LET next == AddressOf[a].leadsTo
    IN  IF n = 0 THEN Rejected
        ELSE IF next = Nowhere THEN Normal(a)
        ELSE IF Normal(next).short THEN Hops[n - 1, next]
        ELSE Normal(next)

\* What a request works on.  A hop that times out refuses a short address.
Resolved(a) == IF Normal(a).short THEN {Hops[4, a], Rejected} ELSE {Normal(a)}

\* The listings that addresses lead to.
Subjects ==
    {[provider |-> g.provider, number |-> g.number] :
        g \in (UNION {Resolved(a) : a \in Addresses}) \ {Rejected}}

-----------------------------------------------------------------------------
(* What a provider answers. *)

Markets == {"ebay", "bricklink"}
Unheard == {[heard |-> "timeout"], [heard |-> "failed"]}

\* A listing as it is sold, at this price.
Told(s, price) == [heard |-> "listing", price |-> price, status |-> truth[s].status]
Missing == [heard |-> "missing"]

\* _fetch_ebay: answers without a title, a price or a token have failed.
EbayAnswers(s) ==
    Unheard \cup (IF truth[s] = Nowhere THEN {Missing} ELSE {Told(s, truth[s].price)})

\* _fetch_bricklink: a record without a price is one for nothing.
BricklinkAnswers(s) ==
    Unheard \cup (IF truth[s] = Nowhere THEN {Missing}
                 ELSE {Told(s, truth[s].price), Told(s, 0)})

\* fetch, and wait_for around it.
Answers(s) == IF s.provider = "ebay" THEN EbayAnswers(s) ELSE BricklinkAnswers(s)

\* _provider_data: the answer, by whoever gave it, as columns of the row.
Provided(answer) ==
    [price |-> answer.price, status |-> answer.status,
     payload |-> [by |-> "provider", price |-> answer.price], verified |-> TRUE]

\* _manual_data with the flag forgotten, as it is set for a provider's answer.
DescribedAsProvided(manual) == [Provided(manual) EXCEPT !.payload.by = "user"]

\* _manual_data: what the user described.
Described(manual) ==
    [price |-> manual.price, status |-> manual.status,
     payload |-> [by |-> "user", price |-> manual.price], verified |-> FALSE]

-----------------------------------------------------------------------------

Idle == [at |-> "idle"]
Over == [at |-> "over"]

\* Requests whose transaction has read the row and not ended.
Underway(s) ==
    {r \in Inquiries : inquiry[r].at \in {"queued", "turn", "asking", "storing"}
                       /\ inquiry[r].subject = s}

\* The request whose transaction has inserted the row of a marketplace.
Opening(p) ==
    {r \in Inquiries : inquiry[r].at \in {"queued", "turn", "asking", "storing"}
                       /\ inquiry[r].subject.provider = p /\ inquiry[r].opens}

\* The end of r's transaction.  Those that wait to insert the marketplace it
\* has inserted fail with it as a duplicate, or go on when it is rolled back.
Ended(r, committed) ==
    [q \in Inquiries |->
        CASE q = r -> Over
          [] /\ q # r /\ inquiry[r].opens /\ inquiry[q].at = "blocked"
             /\ inquiry[q].subject.provider = inquiry[r].subject.provider ->
                 IF committed THEN Over ELSE [inquiry[q] EXCEPT !.at = "begun"]
          [] OTHER -> inquiry[q]]

Opened(r) ==
    IF inquiry[r].opens THEN shops \cup {inquiry[r].subject.provider} ELSE shops

-----------------------------------------------------------------------------
(* evaluate_listing_url. *)

IntakeInit ==
    /\ truth \in [Subjects -> {[price |-> p, status |-> "active"] : p \in Amounts}
                              \cup {Nowhere}]
    /\ \A s \in Subjects : s.number = Blank => truth[s] = Nowhere
    /\ listed = [s \in Subjects |-> Nowhere]
    /\ shops = {}
    /\ inquiry = [r \in Inquiries |-> Idle]
    /\ turn = Nowhere
    /\ lastAsked = [p \in Markets |-> -Spacing]
    /\ instant = 0 /\ turns = 0
    /\ mingled = {}

\* The address is read; its transaction begins with the first query.
Inquire(r, a, manual) ==
    /\ inquiry[r].at = "idle"
    /\ \E g \in Resolved(a) \ {Rejected} :
           inquiry' = [inquiry EXCEPT ![r] =
               [at |-> "begun", subject |-> [provider |-> g.provider, number |-> g.number],
                manual |-> manual, began |-> instant]]
    /\ UNCHANGED <<truth, listed, shops, turn, lastAsked, instant, turns, mingled>>

\* get_or_create_marketplace finds another inserting it, and waits.
Block(r) ==
    /\ inquiry[r].at = "begun" /\ Opening(inquiry[r].subject.provider) # {}
    /\ inquiry' = [inquiry EXCEPT ![r].at = "blocked"]
    /\ UNCHANGED <<truth, listed, shops, turn, lastAsked, instant, turns, mingled>>

IsRecent(s) == listed[s] # Nowhere /\ listed[s].seen >= instant - Window

\* get_existing_listing: a row seen lately is the answer, another is kept for
\* the comparison.
LoadRow(r) ==
    LET s == inquiry[r].subject
    IN  /\ inquiry[r].at = "begun" /\ Opening(s.provider) = {}
        /\ IF IsRecent(s)
           THEN inquiry' = [inquiry EXCEPT ![r] = Over] /\ UNCHANGED mingled
           ELSE /\ inquiry' = [inquiry EXCEPT ![r] =
                       [at |-> "queued", subject |-> s, manual |-> @.manual, began |-> @.began,
                        loaded |-> listed[s], opens |-> s.provider \notin shops]]
                /\ mingled' = IF Underway(s) = {} THEN mingled ELSE mingled \cup {s}
        /\ UNCHANGED <<truth, listed, shops, turn, lastAsked, instant, turns>>

\* _fetch_provider: one request at a time waits for its turn ...
TakeTurn(r) ==
    /\ inquiry[r].at = "queued" /\ turn = Nowhere
    /\ turn' = r
    /\ inquiry' = [inquiry EXCEPT ![r].at = "turn"]
    /\ UNCHANGED <<truth, listed, shops, lastAsked, instant, turns, mingled>>

\* ... until the last call to its provider is long enough ago.
AskProvider(r) ==
    LET p == inquiry[r].subject.provider
    IN  /\ turn = r
        /\ instant >= lastAsked[p] + Spacing
        /\ lastAsked' = [lastAsked EXCEPT ![p] = instant]
        /\ turn' = Nowhere
        /\ inquiry' = [inquiry EXCEPT ![r].at = "asking"]
        /\ UNCHANGED <<truth, listed, shops, instant, turns, mingled>>

\* What is to be stored after an answer; Nowhere when the request is refused.
Outcome(r, answer) ==
    LET manual == inquiry[r].manual
    IN  CASE answer.heard = "listing" -> Provided(answer)
          [] answer.heard = "missing" /\ inquiry[r].loaded # Nowhere ->
                 [status |-> "removed", verified |-> TRUE]
          [] OTHER -> IF manual = Nowhere THEN Nowhere ELSE Described(manual)

Answer(r) ==
    /\ inquiry[r].at = "asking"
    /\ \E answer \in Answers(inquiry[r].subject) :
           LET outcome == Outcome(r, answer)
           IN  inquiry' = IF outcome = Nowhere THEN Ended(r, FALSE)
                          ELSE [inquiry EXCEPT ![r] =
                              [at |-> "storing", subject |-> @.subject, began |-> @.began,
                               loaded |-> @.loaded, opens |-> @.opens, patch |-> outcome]]
    /\ UNCHANGED <<truth, listed, shops, turn, lastAsked, instant, turns, mingled>>

\* update_listing: of the new values those are written that differ from the
\* row as it was loaded; func.now() is when the transaction began.
Updated(row, loaded, patch, began) ==
    [c \in DOMAIN row |->
        IF c = "seen" THEN began
        ELSE IF c \in DOMAIN patch /\ patch[c] # loaded[c] THEN patch[c]
        ELSE row[c]]

\* create_listing: a row that was not there.
Created(patch, began) ==
    [price |-> patch.price, status |-> patch.status, payload |-> patch.payload,
     verified |-> patch.verified, seen |-> began]

\* The row is flushed and committed.  One made meanwhile is a duplicate, which
\* nothing here catches: the request fails.
StoreRow(r) ==
    LET job == inquiry[r]
        s == job.subject
        fails == job.loaded = Nowhere /\ listed[s] # Nowhere
    IN  /\ job.at = "storing"
        /\ listed' = IF fails THEN listed ELSE [listed EXCEPT ![s] =
                         IF job.loaded = Nowhere THEN Created(job.patch, job.began)
                         ELSE Updated(@, job.loaded, job.patch, job.began)]
        /\ shops' = IF fails THEN shops ELSE Opened(r)
        /\ inquiry' = Ended(r, ~fails)
        /\ UNCHANGED <<truth, turn, lastAsked, instant, turns, mingled>>

\* The commit fails.
LoseRow(r) ==
    /\ inquiry[r].at = "storing"
    /\ inquiry' = Ended(r, FALSE)
    /\ UNCHANGED <<truth, listed, shops, turn, lastAsked, instant, turns, mingled>>

-----------------------------------------------------------------------------
(* Others. *)

Turning == turns < MaxTurns /\ turns' = turns + 1

\* The seller changes the price, ends the listing, or takes it away.
SellerActs(s) ==
    /\ Turning /\ truth[s] # Nowhere
    /\ \E t \in [price : Amounts, status : {"active", "ended"}] \cup {Nowhere} :
           t # truth[s] /\ truth' = [truth EXCEPT ![s] = t]
    /\ UNCHANGED <<listed, shops, inquiry, turn, lastAsked, instant, mingled>>

\* POST /listings, listing_service.create_listing: a row as the caller has it,
\* verified unless the caller says otherwise; one that exists is a conflict.
PostListing(s) ==
    /\ Turning /\ listed[s] = Nowhere /\ Opening(s.provider) = {}
    /\ \E m \in Descriptions, v \in BOOLEAN :
           listed' = [listed EXCEPT ![s] =
               [price |-> m.price, status |-> m.status, payload |-> [by |-> "caller", price |-> m.price],
                verified |-> v, seen |-> instant]]
    /\ shops' = shops \cup {s.provider}
    /\ UNCHANGED <<truth, inquiry, turn, lastAsked, instant, mingled>>

\* analyze_listing marks the row as seen without asking the provider.
AnalyzeRow(s) ==
    /\ Turning /\ listed[s] # Nowhere
    /\ listed' = [listed EXCEPT ![s].seen = instant]
    /\ UNCHANGED <<truth, shops, inquiry, turn, lastAsked, instant, mingled>>

Pass ==
    /\ instant < LastInstant /\ instant' = instant + 1
    /\ UNCHANGED <<truth, listed, shops, inquiry, turn, lastAsked, turns, mingled>>

IntakeNext ==
    \/ \E r \in Inquiries :
           \/ \E a \in Addresses, manual \in Descriptions \cup {Nowhere} : Inquire(r, a, manual)
           \/ Block(r) \/ LoadRow(r) \/ TakeTurn(r) \/ AskProvider(r)
           \/ Answer(r) \/ StoreRow(r) \/ LoseRow(r)
    \/ \E s \in Subjects : SellerActs(s) \/ PostListing(s) \/ AnalyzeRow(s)
    \/ Pass

IntakeSpec == IntakeInit /\ [][IntakeNext]_intakeVars

-----------------------------------------------------------------------------
(* Properties. *)

\* docs/TODOs.md:615: "Store whether data is verified or manually entered."  A
\* row that counts as verified has the price its source stated and no user's
\* description, unless it has only been found removed, or two evaluations of
\* the listing overlapped.
VerifiedIsProvided ==
    \A s \in Subjects \ mingled :
        (listed[s] # Nowhere /\ listed[s].verified /\ listed[s].status # "removed") =>
            listed[s].payload.by # "user" /\ listed[s].payload.price = listed[s].price

\* A row filled by the provider is kept as removed only when the provider has
\* the listing no more.
RemovedIsGone ==
    \A s \in Subjects \ mingled :
        (listed[s] # Nowhere /\ listed[s].status = "removed" /\ listed[s].payload.by = "provider") =>
            truth[s] = Nowhere

\* What a row says of a listing it has from where it says, whoever described it
\* before, unless two evaluations of the listing overlapped.
RowsTellTheirSource == VerifiedIsProvided /\ RemovedIsGone
=============================================================================
