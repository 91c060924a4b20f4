----------------------------- MODULE DealCache -----------------------------
(***************************************************************************)
(* The search for deals: its process-wide cache, the refresh a search may  *)
(* ask for, and the throttle of refreshes.  services/deal_finder_service   *)
(* .py and the route of api/routes/deal_routes.py; the scores of single    *)
(* listings are in DealScores.                                             *)
(*                                                                         *)
(* The coroutines of one process interleave where they await.  The         *)
(* listings of a set are one version number, raised by a refresh; what a   *)
(* refresh stores is seen by its own request only until that commits,      *)
(* after the answer has been sent.                                         *)
(***************************************************************************)
EXTENDS Integers, FiniteSetsExt

CONSTANTS
    Sets,
    Universe,       \* for each universe size, the sets it covers
    Names,          \* what a filter can name: sets, in the spelling of the user
    Named,          \* the set a name finds, which is the name when spelled alike
    All,            \* the filter that names no set
    Searches,
    Asks,           \* the size and the name each search asks for
    Ttl,            \* DEAL_CACHE_TTL_SECONDS
    Throttle,       \* REFRESH_THROTTLE_SECONDS
    MaxTime, MaxVersion     \* bounds

Sizes == DOMAIN Universe

ASSUME DealConstants ==
    /\ \A n \in Sizes : Universe[n] \subseteq Sets
    /\ Named \in [Names -> Sets] /\ All \notin Names
    /\ Asks \in [Searches -> Sizes \X (Names \cup {All})]
    /\ Ttl \in Nat \ {0} /\ {Throttle, MaxTime, MaxVersion} \subseteq Nat

VARIABLES
    clock,
    stored,     \* the committed version of the listings of each set
    cache,      \* _deal_cache: entries by size and name
    refreshed,  \* _last_refresh_at by size, Never before the first
    search,     \* each search: how far it is, since when, what it has to refresh
    own,        \* the versions it has stored and not committed
    got,        \* the deals of its answer: a version for each set it covers
    stages,     \* history: the committed versions at each time
    crawls      \* history: each crawl's start, the crawls it could know of and those it overlapped

dealVars == <<clock, stored, cache, refreshed, search, own, got, stages, crawls>>

Never == -Throttle
Keys == Sizes \X (Names \cup {All})
Nothing == [s \in {} |-> 0]

SearchInit ==
    /\ clock = 0 /\ stored = [s \in Sets |-> 0]
    /\ cache = [k \in Keys |-> [at |-> -Ttl, deals |-> Nothing]]
    /\ refreshed = [n \in Sizes |-> Never]
    /\ search = [q \in Searches |-> [pc |-> "new", start |-> 0, todo |-> {}]]
    /\ own = [q \in Searches |-> Nothing] /\ got = [q \in Searches |-> Nothing]
    /\ stages = [t \in 0..MaxTime |-> stored]
    /\ crawls = [q \in Searches |-> [known |-> {}, beside |-> {}]]

At(q, pc) == search[q].pc = pc
Goto(q, pc) == search' = [search EXCEPT ![q].pc = pc]

Scope(key) == IF key[2] = All THEN Universe[key[1]] ELSE {Named[key[2]]}

\* The filter compares the set of a deal with the name as it was spelled.
Filtered(deals, name) ==
    [s \in {s \in DOMAIN deals : name \in {All, s}} |-> deals[s]]

Fresh(key, t) == t - cache[key].at < Ttl
-----------------------------------------------------------------------------
AskCached(q) ==
    /\ At(q, "new") /\ Fresh(Asks[q], clock)
    /\ search' = [search EXCEPT ![q] = [@ EXCEPT !.pc = "done", !.start = clock]]
    /\ got' = [got EXCEPT ![q] = Filtered(cache[Asks[q]].deals, Asks[q][2])]
    /\ UNCHANGED <<clock, stored, cache, refreshed, own, stages, crawls>>

AskStored(q) ==
    /\ At(q, "new") /\ ~Fresh(Asks[q], clock)
    /\ search' = [search EXCEPT ![q] = [@ EXCEPT !.pc = "read", !.start = clock]]
    /\ UNCHANGED <<clock, stored, cache, refreshed, own, got, stages, crawls>>

AskRefresh(q) ==
    /\ At(q, "new")
    /\ search' = [search EXCEPT ![q] = [pc |-> "throttle", start |-> clock,
                                        todo |-> Scope(Asks[q])]]
    /\ UNCHANGED <<clock, stored, cache, refreshed, own, got, stages, crawls>>

Size(q) == Asks[q][1]
Crawling(n) == {p \in Searches : At(p, "crawl") /\ Size(p) = n}
Crawled(n) == {p \in Searches : crawls[p].beside # {} /\ Size(p) = n} \ Crawling(n)

Spaced(q) == search[q].start - refreshed[Size(q)] >= Throttle

\* The start of a search is its time: the look at the clock comes before the
\* first await, the look at the throttle after it.
CheckThrottle(q) ==
    /\ At(q, "throttle")
    /\ IF ~Spaced(q)
       THEN Goto(q, "read") /\ UNCHANGED crawls
       ELSE /\ Goto(q, "crawl")
            /\ crawls' = [p \in Searches |->
                 IF p = q THEN [known |-> Crawled(Size(q)), beside |-> {q} \cup Crawling(Size(q))]
                 ELSE IF p \in Crawling(Size(q))
                      THEN [crawls[p] EXCEPT !.beside = @ \cup {q}] ELSE crawls[p]]
    /\ UNCHANGED <<clock, stored, cache, refreshed, own, got, stages>>

SeenBy(q, s) == IF s \in DOMAIN own[q] THEN Max({own[q][s], stored[s]}) ELSE stored[s]

\* refresh_marketplace_data of one set: new listings, none because the stored
\* ones are fresh, or a failure, which is only logged.
RefreshSet(q) == \E s \in search[q].todo :
    /\ At(q, "crawl")
    /\ search' = [search EXCEPT ![q].todo = @ \ {s}]
    /\ \/ UNCHANGED own
       \/ /\ SeenBy(q, s) < MaxVersion
          /\ own' = [own EXCEPT ![q] =
                       [x \in DOMAIN @ \cup {s} |-> IF x = s THEN SeenBy(q, s) + 1 ELSE @[x]]]
    /\ UNCHANGED <<clock, stored, cache, refreshed, got, stages, crawls>>

EndCrawl(q) ==
    /\ At(q, "crawl") /\ search[q].todo = {}
    /\ refreshed' = [refreshed EXCEPT ![Size(q)] = search[q].start]
    /\ cache' = [k \in Keys |-> IF k[1] = Size(q) THEN [at |-> -Ttl, deals |-> Nothing]
                                ELSE cache[k]]
    /\ Goto(q, "read")
    /\ UNCHANGED <<clock, stored, own, got, stages, crawls>>

\* list_active_listings_for_set_numbers, and the wait for the snapshots.
ReadListings(q) ==
    /\ At(q, "read")
    /\ got' = [got EXCEPT ![q] = [s \in Scope(Asks[q]) |-> SeenBy(q, s)]]
    /\ Goto(q, "rank")
    /\ UNCHANGED <<clock, stored, cache, refreshed, own, stages, crawls>>

StampedLate(q) == [at |-> clock, deals |-> got[q]]
Stamped(q) == [at |-> search[q].start, deals |-> got[q]]

Rank(q) ==
    /\ At(q, "rank")
    /\ cache' = [cache EXCEPT ![Asks[q]] = Stamped(q)]
    /\ got' = [got EXCEPT ![q] = Filtered(@, Asks[q][2])]
    /\ Goto(q, "answered")
    /\ UNCHANGED <<clock, stored, refreshed, own, stages, crawls>>

CommitSearch(q) ==
    /\ At(q, "answered")
    /\ stored' = [s \in Sets |-> SeenBy(q, s)]
    /\ stages' = [stages EXCEPT ![clock] = stored']
    /\ Goto(q, "done")
    /\ UNCHANGED <<clock, cache, refreshed, own, got, crawls>>

RollBackSearch(q) ==
    /\ At(q, "answered") /\ own[q] # Nothing
    /\ Goto(q, "done")
    /\ UNCHANGED <<clock, stored, cache, refreshed, own, got, stages, crawls>>

PassTime ==
    /\ clock < MaxTime
    /\ clock' = clock + 1
    /\ stages' = [stages EXCEPT ![clock + 1] = stored]
    /\ UNCHANGED <<stored, cache, refreshed, search, own, got, crawls>>

SearchNext ==
    \/ PassTime
    \/ \E q \in Searches :
        \/ AskCached(q) \/ AskStored(q) \/ AskRefresh(q)
        \/ CheckThrottle(q) \/ RefreshSet(q) \/ EndCrawl(q)
        \/ ReadListings(q) \/ Rank(q) \/ CommitSearch(q) \/ RollBackSearch(q)

SearchSpec == SearchInit /\ [][SearchNext]_dealVars
-----------------------------------------------------------------------------
\* An answer, cached or not, knows all listings that were committed the
\* lifetime of an entry before its search began: no search or refresh that runs
\* at the same time keeps older deals in the cache for longer.
AnswersAreRecent == \A q \in Searches :
    search[q].pc \in {"answered", "done"} /\ search[q].start >= Ttl =>
        \A s \in DOMAIN got[q] : got[q][s] >= stages[search[q].start - Ttl][s]

\* Refreshes of one size are spaced by the throttle, unless crawls overlapped:
\* the throttle is read before a crawl and set after it.
CrawlsAreSpaced == \A q \in Searches : \A p \in crawls[q].known :
    \/ search[q].start - search[p].start >= Throttle
    \/ \E r \in Searches \ {p} : r \in crawls[p].beside

\* What the cache and the throttle promise to searches that run side by side.
DealsAreTimely == AnswersAreRecent /\ CrawlsAreSpaced
=============================================================================
