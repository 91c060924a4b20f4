# FlipRadar: verification models

FlipRadar is a web application for people who buy and resell LEGO sets. A
FastAPI backend keeps sets, marketplace listings, prices, portfolios and
watchlists in PostgreSQL; Celery workers refresh watched sets and mail digests;
Redis holds rate-limit windows and job locks; a React client talks to the API.
This directory holds TLA+ models of the parts where requests, jobs, processes,
transactions and arithmetic interact, the TLC configurations that check them,
and TLAPS proofs.

Contents: 1 components, 2 plan, 3 conventions, 4 modules, 5 runs, 6 proofs,
7 what the code does differently from what it says, 8 what is not modelled.
`PROJECT.json` maps every definition to the source lines it stands for, and
lists the runs, the mutants that each property detects, the hazards and the
theorems. Paths below are relative to `src/backend/flipradar/` unless they
begin with `src/`.

## 1. Components

### How the parts interact

    browser client --HTTP--> routes --> services --> repositories --> PostgreSQL
         | refresh token       |           |  \--> engines (pure functions)
         v                     |           \--> provider clients --> eBay, BrickLink
    browser storage            |-- middleware --> Redis (rate limits)
                               \-- dashboard cache, deal cache, set locks
                                   (memory of one process)
    Celery beat --> queue --> workers --> services --> PostgreSQL
                                |-> Redis (job locks, hourly quota)
                                \-> mail server

One HTTP request is one database transaction: `database/session.py` opens it
before the handler and commits it after the `yield`, when the answer has
already been sent. Isolation is READ COMMITTED, no statement or lock timeout is
set, so a statement waits for a row lock or for the unique index entry of
another open transaction as long as it takes, and PostgreSQL ends one
transaction of a cycle of such waits. A failed flush rolls the whole
transaction back unless it ran in a savepoint. Workers commit explicitly. The
caches and set locks are dictionaries of one process: two web processes and the
workers do not share them.

### Inventory

| Component | State | Operations | What is hard | What makes it correct |
|---|---|---|---|---|
| Refresh-token sessions: `services/auth_service.py` | `refresh_token_sessions`, `refresh_token_blacklist` | sign in, rotate, log out, revoke one, revoke all, MFA reset, password reset | two rotations of one token; a rotation beside a revocation; a commit lost after its answer | a token is redeemed once; a revocation is final; both tables tell the same story |
| MFA challenges: `services/auth_service.py` | `mfa_challenges`, `mfa_token_blacklist` | issue, verify, fail, reset, daily clean-up | parallel guesses that read one counter; a reset beside a right answer | every guess counts; the limit holds; a challenge signs in once |
| Account tokens: `services/auth_service.py`, `services/email_service.py` | `account_tokens`, the address and flags of the user row | register, resend, change address, reset password, follow a link, ask for deletion | one link followed twice at a time; a newer link issued beside an older; an address staged while another is confirmed | a verified address was proven; a link works once; the newest one works; what is scheduled for deletion is deleted |
| Watchlist refresh jobs: `worker/tasks.py` | Celery messages, Redis job locks and hourly counters | dispatch, lock, reserve, refresh, commit, retry, release | duplicate messages, locks that expire or stay, partial failures, dead workers | no batch runs twice at once; no set is forgotten |
| Notifications: `services/notification_service.py` | `notifications`, preferences, settings | emit, deliver, unsubscribe | mail leaves before the commit; deliveries overlap | what is recorded as sent was mailed; an opt-out holds; everything is settled |
| Watched listings: `services/watchlist_service.py` | `watchlist_items`, `watchlist_price_history`, listings, the inbox in `notifications` | add, change, remove, buy, refresh, capture, alert, evaluate, analyze, read, mark all | observations are committed out of order; look-up then insert without a constraint; a refresh that reads long before it writes | alerts are true, told once, and the newest change is told; pages show what the last check found; a notice is kept as read |
| Marketplace refresh: `services/marketplace_service.py` | `marketplace_listings`, `price_snapshots`, a lock per set and process | refresh, mark stale, value the owner | locks of a process across waits in the database; savepoints | snapshots keep their evidence; one set's failure takes nothing from another; requests end |
| Portfolio dashboard cache: `services/portfolio_dashboard_cache.py` | a dictionary and locks of one process | get or load, evict, invalidate | a load that overlaps a change; locks dropped while they are held | bounded; young; shows changes; loads are shared; waiters go on |
| Portfolios and holdings: `services/portfolio_service.py` | `portfolios`, `portfolio_items`, valuations of the hour | create, rename, archive, delete, add, move, remove, import, value | count then insert; a holding added while its portfolio is deleted; row-lock cycles | holdings are never lost; a valuation counts what exists; limits hold |
| History retention: `services/*_retention.py` | `price_snapshots`, valuations, rollups | load, roll up, delete | periods that cross the cutoff; overlapping and repeated runs | nothing is deleted uncompacted, counted twice, or missing from its rollup |
| Verdicts: `domain/engines/buy_decision_engine.py`, `hold_sell_engine.py` | none (functions of a request) | analyze an offer, analyze a holding | many bands and weights added and rounded | better terms never give a worse verdict or score |
| Deal scores: `domain/engines/scoring_engine.py`, `services/listing_analysis_service.py` | the stored analysis | score, flag, decide | penalties, weights and rounding | a better listing loses nothing |
| Price valuation: `domain/engines/price_estimator.py`, `services/snapshot_builder.py` | `price_snapshots` read, an estimate made | build, group, weigh, estimate | missing and replaced metrics, outliers | the estimate lies within its evidence |
| Deal finder and saved searches: `services/deal_finder_service.py`, `services/saved_search_service.py` | a result cache and throttle clocks of a process; `saved_searches` | search, refresh, cache; create, duplicate, update, run, delete | a search that overlaps a refresh stores what it read before; a run that overlaps an edit; count then insert | answers are recent; crawls are spaced; edits survive runs |
| Rate limiting: `api/middleware.py` | fixed windows in Redis, sliding ones in each process | admit or refuse | Redis is lost and comes back, or its answer is lost | what is admitted is bounded by the quota of each counter |
| Part inventory: `services/inventory_service.py` | owned parts, adjustments, purchase orders | set a quantity, adjust, order what is missing, buy | requests that have read the same rows | what was bought stays; nothing missing is left out; complete means enough |
| Browser session client: `src/frontend/src/services/apiClient.ts`, `auth/AuthProvider.tsx` | one pair of tokens in the storage all tabs share | call, renew, sign in, sign out, reload | several requests refused at a time; two tabs; a sign-out beside a renewal | a session is not lost on the way, and a sign-out holds |
| Catalog hydration: `services/set_catalog_service.py`, `part_catalog_service.py` | `lego_sets`, parts, colors, images | search, ask the provider, upsert | several requests for one unknown set or part | images survive later refreshes |
| Analyses and explanations: `services/portfolio_analysis_service.py`, `services/llm_*` | stored analyses, windows of calls | analyze, ask the model with retries, store, delete | the market moves on while the model is asked; quotas under concurrency | an older analysis never takes over; quotas are exact |
| Portfolio files and pages: `services/portfolio_service.py` | holdings, import audits | preview, import, export, list, dashboard, summary, page of a holding | rows that repeat; missing values; one figure computed in four places | an import records its file; the pages agree |
| Portfolio analytics: `services/portfolio_analytics_service.py` | none (computed of holdings and evidence) | refresh | missing themes and values, rounded shares | nothing is counted twice |
| Price history analytics: `services/price_analytics_service.py` | snapshots and rollups (read) | observe, compact, show | a history that is compacted in parts, within a month and within a day | compaction adds nothing |
| Product matching: `domain/engines/product_matching_engine.py`, `services/listing_normalizer.py` | none (functions of a title) | match, price, find | one title with the numbers of several sets | one listing prices one set |
| Listing evaluation by address: `services/listing_evaluation_service.py`, `listing_url_ingestion.py` | the row of a listing, a lock and clocks of a process | resolve, ask, describe, store | a row read before the provider was asked; two evaluations at a time | what a row says it has from where it says |

The remaining components (the set detail page, health and observability,
provider clients, routes and schemas, configuration, frontend views, migrations
and scripts) are in `PROJECT.json` and section 8.

## 2. Plan

The order follows what a mistake would cost and how little a test would reach:
first what several actors do at once, then what successive runs do to data,
then arithmetic.

1. Done: the modules of section 4, each component with its own, mounted side by
   side in nine MC modules; the refinement of `SessionRegister` by
   `RefreshSessions`; the proofs of section 6.
2. Abstract specifications still worth stating: `Mailbox` (an alert is mailed
   and settled), implemented by `EmailDigests` where deliveries do not overlap;
   a read-through register, implemented by `DashboardCache` where loads and
   changes do not.
3. Composition: `Valuation` feeding `DealScores` and `Verdicts`, so that the
   verdict properties are stated over price rows; `WatchlistJobs` over
   `MarketplaceRefresh`.
4. Proofs: every invariant and property of steps that a passing run checks is a
   theorem of section 6. What is left is liveness, out of the provers' reach, and the
   specifications of points 2 and 3 once they are written.

Runs are kept below three minutes each with two workers; their bounds are in
section 5.

## 3. Conventions

* A database request is a record of what its transaction has written and not
  committed. `Commit` publishes it; an abort drops it. Reads see the committed
  state and the request's own writes. Statements that wait are disabled while
  another open transaction holds the row or index entry they need.
* One action is one stretch of code between two points at which others can
  act: statements for database work, `await`s for coroutines, calls for Redis.
  Reads that nothing can separate from the next write are part of its action.
* A set, listing, alert or token is a model value or a small number; texts,
  prices that are only carried along, and formatting are left out.
* History variables are marked `history` where they are declared and are read
  by properties only.
* `Max...` constants are bounds of the model, named as such where declared.
* A definition named as a "mutant of" another is a plausible mistake in the
  code that definition translates; `PROJECT.json` names the property each one
  breaks.
* The type invariants are called `TypeOK`, with a word for the component in front
  where a module is mounted or proved about beside another (`AccountsOK`,
  `DigestTypeOK`). Each is the first conjunct of an inductive invariant of section 6;
  no run spends itself on one.
* An MC module that carries several components has a variable `exercised`: a
  behaviour exercises one component and leaves the variables of the others as
  they began. This shares a run, not a state: no property relates two of them.
* A property that is a conjunction names its parts, `A == B /\ C`; a part
  speaks of the same promise from another side.

## 4. Modules

### RefreshSessions (with RefreshSessionsProofs, SessionRegister, MCRefreshSessions)

The refresh tokens of one account. `session` is the status column of
`refresh_token_sessions`, `blacklist` the reason column of the blacklist. A
request goes through `pc` from `Begin` over the statements of
`issue_session`/`rotate_refresh_token`/`revoke_*` to `Commit`; `locked`,
`entered` and `minted` are what its transaction holds. `Answer`ed tokens enter
`issued` before the commit, because the response leaves first, and a client may
present such a token while its row does not exist. `doomed` is a transaction
whose flush failed and whose exception was swallowed. `Expire` makes a token
old at any time, and `TokenLeft` bounds sign-ins so that no rotation stops for
want of a token. One account is enough, since no operation reads the rows of
another.

`SingleUse`: at most one kept rotation of a token. Nothing in the code locks
before checking; what saves it is the unique index of the blacklist, which lets
one of two insertions wait and fail. `RevokedHasNoSuccessor`: a token the user
revoked never has a kept successor. `TablesAgree` (proved, not run): both tables
give the same reason.

`SessionRegister` is what all this is for, without tables, transactions or
requests: a token is valid, promised, settled or revoked, and has at most one
heir. `Register` maps the tables to it: a successor that an answer has carried
is promised, the reason in the blacklist settles or revokes. `ImplementsRegister`
says that every statement of every request is a step of the register or none,
so that an exchange that was stored, and a revocation, are never undone.

### AccountTokens (proofs in RefreshSessionsProofs)

Links mailed to verify an address, change it or reset a password. A request
reads and judges, flushes (waiting for rows others hold) and mails, and commits;
each step may be the last. A link's age is what the cooldown and the expiry
compare with, in three values. `LinksWorkAsMailed` has three parts: a verified
address was proven by a link mailed to it, in any order and overlap; a link is
redeemed once, and only the newest of a purpose works, unless two requests of
that user and purpose were under way together (`crowded`): the code looks a
token up without a lock, and two that overlap do redeem it twice (section 7).
`ScheduledIsRemoved` is the promise of `services/auth_service.py:715`, which
nothing keeps.

### MfaChallenges (with MfaChallengesProofs)

Challenges of one account, verify requests with the row lock taken between the
two blacklist checks, the attempt counter, an MFA reset that lists sessions and
then revokes them, and the daily job that empties the blacklist.
`GuessesAreCounted`: the counter is the number of guesses answered as wrong, and
stops at the limit. `OneSignInUntilCleared`: a challenge signs in once until the
job deletes its blacklist row. `ResetVoidsChallenges`: a reset leaves no session
that one of the voided challenges opened.

### ClientTokens (proofs in MfaChallengesProofs)

Tabs of one browser over the local storage they share: requests that are
refused, join or begin the renewal of their tab and are repeated once, the
renewal's answer, sign-in, sign-out, reload, and the storage event. The server
is reduced to what `RefreshSessions` promises: it renews a pair once. `mishaps`
collects what may cost a session through no fault of the order of events: a lost
answer, a session ended elsewhere, two tabs that renew at a time, a token that
grows old while its request is repeated. `SessionIsKept` and `SignOutHolds` are
about everything else.

### WatchlistJobs (proofs in WorkerProofs)

Counts of messages for each batch and countdown, a lock with a remaining life per batch
content, the quota of the hour. `Take...` is the delivery of a message with the
three outcomes of the lock; `Reserve...`, `Refresh...`, `CommitBatch`,
`BatchRaises`, `Release` and `Retry` are `_refresh_provider_batch` and its task.
A crash loses the message, since Celery acknowledges it when it is taken.
`Tick` carries two assumptions that the code does not enforce: a run is over
before its 24-hour lock expires (`RunsFitTtl`), and no tick falls between a
run's commit and its last statement (`EndsAreShort`).

### EmailDigests (proofs in WorkerProofs)

Alerts are drafted (the switch is read) and published (the job commits) in two
steps; a delivery is one transaction over all users, mails at once and marks
rows that stay locked until its commit. Failures are mails that are refused and
tasks that raise. `MailedOnce` is conditional: without overlapping deliveries
and without failures no alert is mailed twice.

### DashboardCache (with DashboardCacheProofs)

`get_or_load` as coroutines that interleave at the lock and in the loader, the
dictionary with its insertion order (the relation `before`), eviction and expiry, `_locks` with the
queue behind each lock, and invalidation that drops entries and locks.
Portfolio changes are flushed and invalidate before they commit (`Change`,
`Commit`). `CacheIsHonest`: the cache is bounded, its answers are young, and a
user without a change that a load overlapped, or that invalidated nothing
(`raced`), sees every change committed before the request.

### HoldingLedger (proofs in DashboardCacheProofs)

The files a user imports and exports and the four pages that compute figures of
the same holdings, without overlaps, which are the subject of `Portfolios` and
`DashboardCache`. `ImportRecordsTheFile`: in every mode of merging the pieces and
the costs of a file arrive, the audit counts its rows, and an export comes back
as it was. `PagesAgree` relates list, dashboard, summary and detail page, in four
parts: `SummaryAddsUp`, `FiltersShowAll`, `PagesHaveOneOrder`, `SharesAreOfTheWhole`.

### MarketplaceRefresh (proofs in MarketDataProofs)

Requests that refresh a plan of sets, in one process or several: process lock,
freshness, fetch, savepoint with its inserts, the owner's valuation row, the
stale mark, release, and a commit after the last set. `Tolerant` requests go on
after a set that fails; `Forced` ones ignore freshness.

### ListingIntake (proofs in MarketDataProofs)

One listing that comes in by its address. `Normal` and `Hops` read an address
and follow a short one, `Answers` is what a provider may say (no answer,
missing, or the listing with the fields the clients fill in), `Outcome` the
choice between the answer, the user's description and a refusal. The row is
loaded before the provider is asked (`LoadRow`) and stored after (`StoreRow`),
column by column as the session does it. The marketplace's own row is inserted
by the first request and waited for by the others (`Block`, `Ended`).
`RowsTellTheirSource`: a verified row has the price its source stated and no
user's description, and a row of the provider counts as removed only when the
listing is gone, unless two evaluations of it overlapped (`mingled`).

### RateLimits (proofs in MarketDataProofs)

The policies of a request in their order, the fixed windows of Redis for all
processes, and the sliding ones a process keeps while it has lost Redis.
`AdmissionsAreBounded` counts what was let through within any span: the quota of the
window, that of the window before, and that of each process that counted alone.

### PartPurchases (proofs in MarketDataProofs)

Quantities, adjustments with substitutes, the checklist and the orders of one
set. A request reads, changes its copies and commits once; the commit writes the
columns that differ from what it read. `PurchasesAddUp`: what was bought stays
on record, no missing line is left out of an order, and a set is complete
exactly when every line has enough, for sets of less than 2000 parts, beyond which
one missing part rounds away.

### ListingWatch (with ListingWatchProofs)

One watched listing: what the provider offers, the stored row, refreshes by
workers (which raise alerts by comparing an observation with its neighbours) and
by the user (which do not), evaluation and analysis, which touch
`last_seen_at`. Timestamps are tickets taken before the row lock, so
observations are committed out of their order. Prices are in steps that count
as material changes. `AlertedOnce`: alerts are true, not repeated, and complete
for the two newest observations.

### WatchEntries (proofs in ListingWatchProofs)

The entries of one user, their history, the refresh by the user (which reads,
asks, and writes much later) beside the checks of jobs, and the inbox.
`ChangesAreShown`: an entry shows how the price moved at the last check, or since;
`NoticesAreKept`: a notification outlives its entry and is never unread again.

### DealCache, SavedSearches (proofs in ListingWatchProofs)

The search for deals as coroutines between their awaits: cache look-up, throttle,
crawl set by set, the read, the ranking, the commit after the answer. Listings
are a version number per set. `DealsAreTimely`: an answer, cached or not, knows
what was committed a lifetime before its search began, and crawls are spaced
unless they overlapped. Saved searches are requests that read, may wait for a
search, and commit. `SavedSearchesHold`: the limit holds for requests that do
not overlap, and a run never brings old filters back.

### CatalogHydration (proofs in ListingWatchProofs)

Look-ups of sets and parts that find nothing, hold the lock of their number, ask
BrickLink and write rows they hold until they commit. `ImagesSurvive`: no later
synchronization of a part loses its images, unless two of them overlapped.

### Portfolios (with PortfoliosProofs)

Holdings placed in portfolios, with every operation as a request: the checks
and reads are one step, then each write waits for the rows it conflicts with,
then the valuation of the hour if there is none, then the commit. A cycle of
waits ends one of its members (`Victim`). `raced` and `crowded` record
which checks were made side by side and which requests overlapped any other, so
that `AloneAllHolds` says exactly how far the code's unprotected checks carry.
`HoldingsAreKept`: no holding goes with its portfolio, and a valuation counts what
exists. The counted portfolios begin within the limit (`StartsWithinLimit`), since
every one of them has passed the check.

### PortfolioAnalytics, ListingMatching, PriceAnalytics (proofs in PortfoliosProofs)

Figures computed anew after each change of their inputs. `NothingIsCountedTwice`:
the buckets of an allocation add up to the portfolio with fields and valuations
missing. `OneSetIsPriced`: a title that names several sets prices at most one,
except through numbers the engine takes for no identifier.

In `PriceAnalytics` time is in moments, several to a day: a price may be recorded
for any of them, past or not, and a cutoff may fall on any that has passed, as the
script's does (`services/price_snapshot_retention.py:13`). `CompactionAddsNothing`:
nothing counts twice in what is shown. Every point of the series has an
observation of its own; a compaction adds no observation, and a point only when
it leaves a day in part, which then stands in a month and in raw rows (section 7);
and the latest value is the same while rows are left of a day after all that were
dropped.

### HistoryRollups (proofs in MarketDataProofs)

One table and one series. A run takes a cutoff, loads what is older, looks up
rollups, writes them, deletes what is older, commits. Two runs may overlap or
fail and start again; late observations arrive with times in the past.
`RetentionIsExact`: nothing deleted without a rollup, nothing counted twice, a day
keeps its last value.

### Verdicts (proofs in PortfoliosProofs), DealScores, Valuation (in DashboardCacheProofs), Rounding

The engines, translated to exact arithmetic: amounts are cents, scores are
scaled integers, and `Rounding` holds the two roundings the code uses. Each is
a small machine whose action changes an input and computes the answer again, so
that properties can compare two answers (`BetterTermsNeverHurt`,
`BetterListingLosesNothing`) as well as bound one (`EstimateIsSound`). A fair value of
zero is none to both engines, which then answer with a score of 40 of their own;
`BetterTermsNeverHurt` is about the others. The code uses `Decimal` in some places and binary
floats in others; the inputs of the runs stay away from the ties at which a
float would round the other way, and square roots of sample sizes are taken of
squares or to the two decimals that decide. The operators were compared with
the Python functions on every input the run enumerates, about 150,000 requests,
78,000 listings and 15,000 markets, without a difference.

### Explanations (proofs in PortfoliosProofs)

Analyses of portfolios and of single sets that ask a language model: the evidence
is read once, the model is asked in a thread with its retries, and the analysis is
stored after; the market and other requests go on meanwhile. `OlderNeverTakesOver`
and `QuotasAreExact` are about what that delay could do.

## 5. Runs

`tlc -workers 2 -config <cfg> <module>` in this directory.

| Run | Asks | Bounds, and why they are enough |
|---|---|---|
| `sessions_safety` | is a token redeemed once, is a revocation final, is the register implemented, can requests wait for each other for ever; do mailed links work as mailed | two requests over three tokens (a parent, its child, and one beside it), one mishap (`OneMishap`: a lost commit or an expiry); two requests over two links of two accounts and two addresses. The proofs lift these to any numbers |
| `mfa_safety` | do parallel guesses count and stop at the limit; is a browser's session kept and its sign-out final | three requests and two challenges against a limit of two: more guesses under way than are allowed; two tabs, one with two requests, and three pairs of tokens, up to the first mishap (`Followed`) |
| `account_deletion` | is an account scheduled for deletion removed (it is not, see 7.3) | the accounts of `sessions_safety` |
| `watchlist_jobs` | can a batch run twice at once, a set be forgotten, a lock stay | two sets give three batches, hence partial retries beside full ones; a duplicate; two failures; a lock that expires after two hours |
| `email_digests` | can mail and record differ, an opt-out fail, an alert stay pending | two alerts, of one user or of two; two deliveries; one change of settings and one failure |
| `dashboard_cache` | bound, age, visibility, shared loads, no waiter left behind; do files and pages agree | two dashboards of one user in a cache of one entry, so that they evict each other; three requests, so that two queue behind one; five files that repeat, contradict or name each other, three markets, three portfolios, five holdings, three writes |
| `market_data` | do earlier sets survive a failure; do purchases add up; is retention exact; are admissions bounded; do rows tell their source | two sets in both orders, a forced and a tolerant request, two processes, a crash, a failure, a stale listing; three requests over two lines, one of which the other's part may replace; two retention runs and one late observation over periods of two and three days, which do not align, as weeks and months do not; two calls in two processes, one outage of Redis; two evaluations of two listings by four addresses, with one event of another |
| `marketplace_refresh_ends` | does every request end (it does not, see 7.1) | two requests of one process over two sets |
| `listing_watch` | are alerts true, told once, and complete; are deals timely; do saved searches, images, shown changes and notices hold | two jobs and one manual refresh, two prices, two days, two events, four observations: enough for two observations in the wrong order with one between; three searches of two sizes, one spelled its own way; three requests on three saved searches with a limit of two; two look-ups, two parts, two images; two entries, one refresh, two readers, four moments, two notices (`Apart` keeps the checks and the inbox in behaviours of their own) |
| `portfolios` | are holdings kept, valuations current, limits held; do the figures add up, does compaction add nothing, does a listing price one set | three requests of any kind over two portfolios with a holding each, one watchlist entry; five holdings on three places; three observations over eight moments of four days, in months of three and weeks of two, given for the last moment of the first day, both of the second and one of the next month, so that a cutoff can split a day that is not the first of its month; three sets and eight listings with misleading titles |
| `history_rollups_complete` | does a rollup cover its period (it does not, see 7.2) | one run after another |
| `engines` | are the verdicts and scores monotone, is an estimate sound; do analyses and quotas hold | inputs on both sides of every threshold the bands, penalties and fences have; two analyses of three users with one retry, a quota of one per user and two per process |

Time in these runs is counted in few steps, and spans of different scale are one
or two of them: the order of events is what the properties tell apart, not the
length of a window. In `market_data` a listing counts as recently evaluated in
the step it was seen in, and two calls to a provider are a step apart.

Deadlock is checked wherever the configuration does not switch it off: a state
without a step would be a cycle of waits. The others may really stop: their
requests are made once or their events are bounded.

### Fairness

* `WatchlistJobs`: weak fairness of `Tick`, and of taking and advancing for
  each worker: time passes, and Celery workers run while there are messages.
  Crashes and failures are bounded and never required.
* `EmailDigests`: weak fairness of each delivery, since the beat schedule
  starts one every hour, and strong fairness of the statements that wait for
  rows, because PostgreSQL serves the waiters of a row in order.
* `DashboardCache`: weak fairness of each coroutine: the event loop runs what
  is ready, and asyncio locks are first come, first served, which the queue
  models.
* `MarketplaceRefresh`: weak fairness of each request and strong fairness of
  taking the lock. `RequestsEnd` fails nevertheless.
* `AccountTokens`: weak fairness of the steps of requests and of time.
  `ScheduledIsRemoved` fails nevertheless.

## 6. Proofs

Each of these modules EXTENDS the modules it is about, which are those that one run
mounts (`WorkerProofs`: those of two runs; `PortfoliosProofs` and `DashboardCacheProofs`
also have modules of `engines`). They share no variable and keep invariants
of their own. `Sums` is about operators only. The theorems hold for every value of the
constants that the named assumptions allow.

| Module | Theorem | States |
|---|---|---|
| `RefreshSessionsProofs` | `TypeCorrect` | `Spec => []TypeOK` |
| | `SingleUseHolds` | `Spec => []SingleUse` |
| | `RevocationIsFinal` | `Spec => []RevokedHasNoSuccessor` |
| | `TablesAlwaysAgree` | `Spec => []TablesAgree` |
| | `RegisterIsImplemented` | `Spec => ImplementsRegister`, the refinement of `SessionRegister` |
| | `LinksAlwaysWorkAsMailed` | `AccountsSpec => []LinksWorkAsMailed` |
| `MfaChallengesProofs` | `TypeCorrect` | `Spec => []TypeOK` |
| | `GuessesAreAlwaysCounted` | `Spec => []GuessesAreCounted` |
| | `SignsInOnce` | `Spec => []OneSignInUntilCleared` |
| | `ResetIsThorough` | `Spec => []ResetVoidsChallenges` |
| | `ClientTypeCorrect` | `ClientSpec => []ClientTypeOK` |
| | `SignOutAlwaysHolds` | `ClientSpec => []SignOutHolds` |
| | `SessionIsAlwaysKept` | `ClientSpec => SessionIsKept`, a property of steps |
| `WorkerProofs` | `TypeCorrect` | `Spec => []TypeOK` |
| | `BatchesAreAlwaysKept` | `Spec => []BatchesAreKept` |
| | `OptOutIsRespected` | `DigestSpec => []OptOutHolds` |
| | `MarksAlwaysMatchMails` | `DigestSpec => []MarksMatchMails` |
| `DashboardCacheProofs` | `CacheIsAlwaysHonest` | `Spec => []CacheIsHonest` |
| | `LoadsAreAlwaysCoalesced` | `Spec => LoadsAreCoalesced`, a property of steps |
| | `LedgerTypeCorrect` | `LedgerSpec => []LedgerTypeOK` |
| | `ImportsAlwaysRecordTheFile` | `LedgerSpec => ImportRecordsTheFile`, a property of steps |
| | `PagesAlwaysAgree` | `LedgerSpec => []PagesAgree` |
| | `BetterListingsLoseNothing` | `ScoreSpec => BetterListingLosesNothing`, a property of steps |
| | `EstimatesAreAlwaysSound` | `ValueSpec => []EstimateIsSound` |
| `MarketDataProofs` | `RetentionIsAlwaysExact` | `RollupSpec => []RetentionIsExact` |
| | `IntakeTypeCorrect` | `IntakeSpec => []IntakeTypeOK` |
| | `RowsAlwaysTellTheirSource` | `IntakeSpec => []RowsTellTheirSource` |
| | `RefreshTypeCorrect` | `Spec => []TypeOK` |
| | `LocksAreAlwaysHeld` | `Spec => []LocksAreHeld` |
| | `PricesAreAlwaysListed` | `Spec => []PricesAreListed` |
| | `EarlierSetsAlwaysSurvive` | `Spec => EarlierSetsSurvive`, a property of steps |
| | `LimitsTypeCorrect` | `LimitsSpec => []LimitsTypeOK` |
| | `AdmissionsAreAlwaysBounded` | `LimitsSpec => []AdmissionsAreBounded` |
| | `PurchaseTypeCorrect` | `PurchaseSpec => []PurchaseTypeOK` |
| | `PurchasesAlwaysAddUp` | `PurchaseSpec => []PurchasesAddUp` |
| `ListingWatchProofs` | `TypeCorrect` | `Spec => []TypeOK` |
| | `AlertsAreAlwaysRight` | `Spec => []AlertedOnce` |
| | `NoticesAreAlwaysKept` | `WatchSpec => NoticesAreKept`, a property of steps |
| | `ChangesAreAlwaysShown` | `WatchSpec => []ChangesAreShown` |
| | `SavedSearchesAlwaysHold` | `SavedSpec => []SavedSearchesHold` |
| | `DealsAreAlwaysTimely` | `SearchSpec => []DealsAreTimely` |
| | `ImagesAlwaysSurvive` | `CatalogSpec => []ImagesSurvive` |
| `PortfoliosProofs` | `PortfoliosTypeCorrect` | `Spec => []TypeOK` |
| | `HoldingsAreKeptTheorem` | `Spec => []HoldingsAreKept` |
| | `AloneAllHoldsTheorem` | `Spec => []AloneAllHolds` |
| | `OneSetIsAlwaysPriced` | `MatchingSpec => []OneSetIsPriced` |
| | `ExplanationTypeCorrect` | `ExplainSpec => []ExplainTypeOK` |
| | `QuotasAreAlwaysExact` | `ExplainSpec => QuotasAreExact`, a property of steps |
| | `OlderNeverTakesOverTheorem` | `ExplainSpec => OlderNeverTakesOver`, a property of steps |
| | `NothingIsEverCountedTwice` | `AnalyticsSpec => []NothingIsCountedTwice` |
| | `CompactionNeverAdds` | `HistorySpec => CompactionAddsNothing`, a property of steps |
| | `BetterTermsNeverHurtTheorem` | `AskSpec => BetterTermsNeverHurt`, a property of steps |
| `Sums` | `TotalByGroup` | the sums of the groups of a finite set add up to the sum of the set |

Every proof has the same shape. None of the properties is inductive, so there is
an `Inv` that is: `Init => Inv`, one lemma per action for `Inv /\ [Next]_vars =>
Inv'`, `Invariance` to combine them, and each theorem from `Inv`. Lemmas called
frames say what a step of one request leaves to the others. TLC checked each
`Inv` on the runs of section 5 before it was proved.

### What the invariants add, and why

`RefreshSessions`. `SingleUse` counts rotations that are kept, but two rotations
of one token may both be under way. `RequestInv` says what a request at each `pc`
has loaded, locked and entered; `EntriesExclusive`, that two open transactions
never hold the index entry of the same token, which is the unique constraint, and
the step everything turns on; `SuccessorsTied`, that a rotation's successor is
kept, lost, or minted by a request that holds the entry of its parent. Two kept or
pending successors of a token would be two holders of one entry, or one holder of
an entry that is committed. For the refinement, `Lineage` adds that tokens no
answer has carried have no rows, and that what a request has minted has the parent
it holds; each action is then a step of the register or leaves its four variables
as they are.

`MfaChallenges`. A guess that is being judged holds the row of its challenge
(`HolderInv`), so the counter it has read is the stored one and the blacklist it
has looked at is as it was (`RequestInv`); a reset that holds the open challenges
has listed every session they opened.

`AccountTokens`. `LinkInv`: an address that is not verified is the one its account
was registered with, and so is the one its verification links went to. `AloneInv`:
a request that is not `crowded` is the only writer of the links of its user and
purpose, so what it has read of them still holds when it writes. `PairInv`: two
requests never issue the same link, and those of one user and purpose are
crowded.

`WatchlistJobs`. `HeldInv`: the lock of a batch that a worker holds has not
expired; so no other takes it, although `Release` deletes it without asking whose
it is. `LockInv`: unless something was `harmed`, a lock that is set has a worker,
which accounts for whatever a message dropped at that lock was about. `PartsInv`
keeps `todo`, `done` and `failed` disjoint parts of the batch.

`EmailDigests`. `RunInv` places each delivery at one user, whose alerts it lists;
`MailInv`: without overlaps and failures, a mailed alert is settled or will be by
the delivery that mailed it, so a pending alert that is not among its marks has
been in no mail.

`DashboardCache`. `OrderInv`: the keys are finitely many and in a total order, so a
full cache has a first one to drop. `AgeInv`: an entry's expiry is counted from a
time before its load. `DataInv`: for a user without races, whatever is cached or
loaded is what is committed, and there is none of it while a change is open.
`LockInv`: who loads is at the head of the queue of its key's lock.

`HoldingLedger`. `LedgerInv` only adds to the types that every holding is in a portfolio
there is: so what has the folio of an import is what the import made. A file is read by
`FoldLeft`, which folds over the indices by their maximum; `FoldsExist` says that this
recursion has a solution, too, and `FileIsRead` is the induction: for any weight of
purchases that is `Additive`, one that merging two rows adds up, what has been read
weighs what the rows weigh. Pieces of a set are such a weight, and money paid; where
nothing is merged, so is being one given purchase. An export is a file by way of a
bijection from its rows to the holdings (`ExportIs`). `PagesAgree` needs no history: the
lines group the holdings (`TotalByGroup`), shares are rounded percentages of a whole
(`PercentsAddUp`), and three holdings of 39.995 % would be more than all.

`HistoryRollups`. A run deletes by its cutoff and not by what it has loaded;
`RunInv` says that the two differ only by rows that came late or that another run
has deleted since. `TableInv`: a rollup is made of deleted rows of its period.
`AloneInv`: a run without another beside it knows all the rows of its periods.

`ListingWatch`. `NewestIsAlerted` speaks of times when no job is under way.
`NewestIsTold` says it of every state; `WrittenInv`, that a job which has written
is alone and has raised exactly what is new between its observation and its
neighbour; `TimesInv`, that observations have times of their own, so that there is a
newest. Jobs record out of the order of their times: whichever of two observations
is recorded second is recorded with the first in sight, and an alert left out as
known has the same message as one that was given.

`WatchEntries`. `EntriesInv`: the history of an entry that is not `tangled` is in the
order of its moments, all before now and before every refresh under way, so that the
newest two are the last two checks. `InboxInv`: whoever is about to mark a notification has found it in
the list, and those to come are about things that exist.

`SavedSearches`. `RoomInv`: unless requests counted beside each other, one at most is
about to insert and there is room for it. `FoundInv`: a request writes over a row
it has read, and only the columns it changed.

`DealCache`. An answer can be late by the lifetime of an entry, and the entry was
read from rows at a time before. `VersionsInv` says what is behind that: an entry, and
an answer that is being ranked, know all that was committed before the time they are
stamped with (`Knows`), and commits only add. `CrawlsInv`: two crawls of a size that
overlap each have the other on record, and the throttle is not older than any crawl
that was alone; so a crawl that ends never sets it back behind such a one.

`CatalogHydration`. `JobInv`: from the time it has read the part a request holds all
the images kept of it, as long as the part is not `crowded`; `AloneInv`: such a part
has one request at most. The locks of the code are not needed for it: they are let
go of before the commit.

`ClientTokens`. `SmoothInv`, while there is no mishap: the two tokens of the storage
are of one pair, which the server renews (`Alive`) unless the user has signed out of
its session or a tab is renewing it; one tab renews at a time, and what it is answered
continues the sign-in it asked for; who signs out has named a session the user has
left, and the storage holds no other.

`Portfolios`. `KeptInv` is for the holdings. A request that has deleted a portfolio and
one that has put a holding into it are never both open (`Apart`), because each write
needs the row of the portfolio; hence every holding is in a portfolio that exists
(`Housed`). `ValuedInv`: what an uncommitted valuation cites no other request removes,
since the citation holds the row of the holding. `MadeInv` says that nobody else writes
a portfolio under construction. `LimitInv`, `DefaultInv` and `MoveInv` have one form: of
the requests under way at most one makes the check (`Lone`), and what it found still
holds when it commits, unless the check is `raced`. `CompanyInv`: a request that is not
`crowded` is alone, and finds again what it found at its start.

`ListingMatching`. `MatchedInv`: the listings a set is priced with reach the threshold
of automated pricing. A name alone gives at most 81 points, less than that, so such a
listing mentions the number of the set as a candidate; two candidates rule a title
out. The rest is arithmetic of the weights.

`Explanations`. `QuotaInv`: the hits a limiter keeps of a user stand one for one for
the calls of that user inside the window, and those of the process are all of them in
order (`StandFor`); `FirstWithin` drops the expired ones, which are the first. So the
limiter refuses exactly when the quota is used up.

`PortfolioAnalytics`. `AnalyticsInv`: the figures are those of the holdings and the
evidence. The rest is `TotalByGroup`, once for counts, once for values and once for
missing values, and `PercentsAddUp`: rounded shares of buckets add up to 100 % but for
a hundredth each.

`PriceAnalytics`. `HistoryInv`: every rollup stands at the first day of its month and
has an observation, and what is shown is computed of what is stored. A compaction
groups the rows it drops, so it makes at most one point of every day that lost a row
(`RollupsCount`, `ReplacedCounts`): the days shown after it are the days left, and the
first days of months each of which had a day of its own. Only a day left in part is in
both (`NoNewDays`), and there is at most one, since the rows dropped are those before
the cutoff (`OneDayIsSplit`). What an old rollup of the same month counted is lost,
never added to. Every point has an observation, so there are never more points
(`PointsHaveObservations`); and a day with rows left that is later than all dropped
is later than the rollups made of them, so its value is the same (`LaterIsKept`,
`LatestStays`).

`Verdicts`. `AskInv`: the answer is that of the request. A step changes one input, so
each part of a score is compared alone: the bands of the discount, of the return and of
the gain rise with what they are about, division rounds in order, a weighted sum of
parts that rise rises, and so do the verdicts and the thresholds they compare with.

`DealScores`. `ScoreInv`: the analysis and the deal are those of the listing. Quotients
rounded half up keep their order (`HalfUpInOrder`), points and penalties are sums over
the same names that are compared term by term (`PointsRise`, `FewerTakeNoMore`), and a
better field adds no penalty and no flag (`NoOtherPenalties`, `NoOtherFlags`).

`Valuation`. `ValueInv`: every market has rows that `Build` or a submission can make, and
the estimate is that of the markets. `NthIs` gives the order statistics of a finite set
of prices, from which the quartiles surround the middle (`QuartilesSurround`), the fences
keep some price (`FencesKeepSome`) and leave out one that all others disagree with
(`FencesLeaveItOut`). A mean with positive weights, rounded, is within its terms
(`ValuesAreWithin`).

`MarketplaceRefresh`. `WritesInv`: what a request has written since its savepoint is of
the set it is at, so rolling back to the savepoint takes nothing of the sets before;
`LocksAreHeld`, that a request holds the lock of the set it refreshes and no other.

`ListingIntake`. `JobInv`: the columns of the row a request has loaded are those of the
row that is stored, as long as its listing is not `mingled`; so a column the session
does not write, because it equals what was loaded, equals what is stored.

`RateLimits`. `KeyInv`: there is a place for every admission of a key among the quotas
it may have come from - that of the window Redis counts, the window before, and
every process that counted alone - and no two have the same (`Placed`). A window of the
span that slides meets at most two of the fixed ones, and a list of hits never has more
than the quota; hence the bound, by counting places.

`PartPurchases`. `RequestInv`: what a request has loaded is of the kind of its
operation, an order request has edited what it has loaded as `Refreshed` does, and it
has loaded every order there is of the lines it found missing. That a set is complete
exactly when no line lacks anything is a sum of what the lines have against a sum of
what they need (`TotalCompare`), and a percentage that is below 100.0 when one of less
than 2000 is missing.

`Sums`. `MapThenSumSet` folds over a set by picking its elements. That this recursion
has a solution is proved for finite sets (`SumsExist`), and from it that the order of
picking does not matter (`TotalRemove`); the induction is over a set of numbers or
subsets for which the statement holds (`NatSteps`, `SubsetSteps`), as no theorem with an
operator as a parameter can be used.

### What they rest on

The named assumptions of the modules: "no request", "no token" and the like are
none of the values they stand beside (`NoTokenIsNone`, `NoneIsNone`,
`NoRequestIsNone`, `NobodyIsNoRow`), tokens are integers in the order they are
minted, owners of alerts and dashboards are users, and limits, sizes and bounds are
natural numbers, positive where a limit of none makes no sense. Rows of a file that
are fine are purchases as the form of the page accepts them (`LedgerConstants`), and a
missing quote is no number. Lines of parts, places
of holdings and numbers in a title are finitely many, prices and quantities natural
numbers, and descriptions of listings carry a price, as the schema requires. Counted
portfolios begin within their limit. TLC evaluates them
on every run. `TtlExceedsDelay` (a job lock outlives the delay of a retry) is true
of the settings: 24 hours and one. The lifetime of a cached deal is positive (60
seconds): an answer stamped and read at one time would otherwise have to know of
commits of that same time. Identifiers of saved searches are finitely many, which is
a bound of the model: it lets them be counted. Days have a moment, months and weeks a day
(`PriceConstants`). Amounts are natural numbers, rates percentages, and an input that
may be missing is a number or `None` (`InputsAreSane`, `ListingsAreSane`); markets are
finitely many, and one is refreshed with at least one listing of a positive price
(`MarketsAreSane`), since `services/snapshot_builder.py` skips a group without prices.

The proofs changed the models in a few places. Guards of a `CASE` that could both
hold, in `RowAfter`, `Worth` and `Normal`, were made exclusive, as `CASE` would
choose either, and the code takes the first. A dashboard cache keeps the order of
its keys as a relation, and jobs keep messages by batch and countdown; both had
been less direct to reason about. `AccountTokens` got a type invariant. `CompleteMeansEnough` was false for
sets of 2000 parts and more, where one missing part rounds to 100.0 %, and
`BetterTermsNeverHurt` for a fair value of zero, which counts as missing. Alerts of `ListingWatch`
and requests of `CatalogHydration` are records of a declared set.

### What is only model-checked

* Liveness: `OwedIsRefreshed`, `PendingIsSettled`, `WaitersGoOn`. They need fairness and `ENABLED`, which the provers do not reach.
* The absence of deadlock, for the same reason.
* That a definition says what the code does: by the map, the mutants, and for the
  engines the comparison with the Python functions of section 4.

## 7. Where the code and what it says of itself differ

### Shown by runs

7.1 `RequestsEnd`. A request that has refreshed one set of a portfolio holds
the uncommitted valuation row of the hour. A second request of the process, for
another set of the same owner, waits in the database for that row while it holds
the lock of its set (`services/marketplace_service.py:116`); the first then
comes to that set and waits for the lock. The database sees one waiter, the
event loop another, there is no timeout. `services/portfolio_service.py:1096`
says the unique window handles concurrent refreshes.

7.2 `RollupsCoverTheirPeriods`. A week or a month that crosses the cutoff is
loaded in parts by successive runs, and each part replaces the stored rollup
(`database/repositories.py:1334`), whose raw rows are gone.
`docs/advanced-pricing-analytics.md:7` says that re-running replaces the same
rollup and is safe.

7.3 `ScheduledIsRemoved`. An account whose deletion is asked for is marked with a
time, and nothing calls `delete_users_scheduled_for_deletion`
(`database/repositories.py:564`): the beat schedule (`worker/celery_app.py:36`)
lists three other tasks. The answer (`services/auth_service.py:715`) and the mail
promise removal.

### Met while modelling

The properties in section 5 leave these runs of events out; each is written
here with the line that has it.

Sessions and MFA
* A password reset revokes no session (`services/auth_service.py:955`;
  `docs/TODOs.md:217` expects it).
* An MFA reset lists the active sessions before a rotation beside it commits,
  and misses the successor (`services/auth_service.py:640`;
  `docs/authenticator-apps.md:7`).
* Revoking all sessions swallows a failed flush, which has rolled everything
  back, and still answers that all sessions are revoked
  (`services/auth_service.py:1039`, `:1168`).
* The daily job deletes the blacklist rows of challenges that have not expired
  (`database/repositories.py:759`; `worker/tasks.py:37`): such a challenge
  signs in again.

Accounts
* Two requests that follow one link at a time both find it unused and redeem it
  twice; two that issue links at a time leave two that work
  (`services/auth_service.py:934`, `:349`).
* A confirmation that overlaps a newer request to change the address applies the
  older address and kills the newer link (`services/auth_service.py:851`).

Browser
* The tab that loses a renewal to another tab clears the session the other has
  just stored; a renewal answered after a sign-out stores its pair again; a
  sign-out with an expired access token leaves the session of the server alive;
  any failure of the request for the user, also a 500 or a lost connection, clears
  the session of all tabs; a reload during a renewal loses the new pair
  (`src/frontend/src/services/apiClient.ts:152`).

Jobs and mail
* A duplicate that arrives after the lock is released runs the batch again
  (`worker/tasks.py:101`; `:90` calls duplicates harmless).
* The quota counts calendar hours, not "each rolling hour"
  (`worker/tasks.py:52`; `:50`).
* A lock that cannot be released drops the retries of its batch as duplicates
  (`worker/tasks.py:106`).
* Two overlapping deliveries mail the same alerts, and so does one that fails
  after mailing (`services/notification_service.py:303`).

Cache
* A load that read before a change commits may store after the change
  invalidated, and hides it until it expires
  (`services/portfolio_dashboard_cache.py:35`); changes invalidate before they
  commit (`services/portfolio_service.py:424`); archiving does not invalidate
  (`:302`).
* Invalidating drops a lock that is held, so loads of one key can run together
  (`services/portfolio_dashboard_cache.py:43`; `:15`). Locks of loaders that
  raise stay (`:22`).

Deals, limits, parts, catalogs
* A search for a set spelled with spaces or in lower case finds the set, and its
  filter compares the spelling: the answer is empty
  (`services/deal_finder_service.py`).
* A slow crawl sets the clock of the throttle back when it ends.
* Duplicating a saved search whose name has more than 115 characters fails in the
  database, and running one that is deleted meanwhile ends in a 500
  (`services/saved_search_service.py`).
* Refused logins count against the quota of the client, though a comment calls the
  limits independent; the local `Retry-After` is truncated (`api/middleware.py`).
* An order marked purchased can be rewritten by an order request that read it
  before; an element that two lines may use as a substitute counts for both; with
  2000 parts and more, one missing part rounds to 100.0 %
  (`services/inventory_service.py`).
* The lock of a set is released before the commit, so the provider is asked again
  by the next request (`services/set_catalog_service.py:199` says once); two parts
  that insert the shared color "unknown" at a time fail one synchronization; the
  in-memory catalog cache is written and never read; the page of a set without
  stored prices ends in a `KeyError`.

Listings by address
* A short link that does not redirect is read as a listing without a number, and
  all such share one row (`services/listing_url_ingestion.py:92`).
* Overlapping evaluations mix the columns of their outcomes, so that a verified
  flag may stand beside a user's description; of two first evaluations one ends in
  a 500 (`services/listing_evaluation_service.py:93`).
* A listing stored under another set is returned for the set that was asked for; a
  described listing that is found removed counts as verified; a description keeps
  the provider from being asked for five minutes.

Marketplace and watched listings
* The check under the lock sees committed snapshots only: the next request
  fetches again what an open transaction has just stored
  (`services/marketplace_service.py:130`; `:112`).
* A refresh never updates the price or `last_seen_at` of a stored listing
  (`database/repositories.py:1204`, `:1239`), so a listing on sale for 90 days
  is marked removed; `analyze_listing` does set `last_seen_at` (`:1074`).
* A price drop that the user observes by a manual refresh is never told by the
  next job (`services/watchlist_service.py:204`; `docs/TODOs.md:713`).
* A seller rating of 0 counts as 50 (`services/watchlist_service.py:271`).
* Refreshing one set in the deal finder throttles the others: the clock is kept
  per universe size (`services/deal_finder_service.py`).
* The answer to a manual refresh may show the change found by the check before,
  while the list right after shows none; a manual check is observed at the moment
  it began and may sort below a check written earlier; the cooldown is remembered
  at the end of a refresh, in memory, so that overlapping refreshes pass it.
* The summary counts ended and removed entries and not sold ones; marking all as
  read marks notices that arrived since the list was loaded
  (`services/watchlist_service.py`, `services/notification_service.py`).

Portfolios
* Two requests of a new user can each make a default portfolio
  (`database/repositories.py:1563`); from then on the look-up raises. The limit
  of ten can be passed by concurrent requests (`services/portfolio_service.py:352`),
  and an entry moved twice becomes two holdings
  (`services/watchlist_service.py:351`).
* A valuation and the removal of a holding can deadlock, and the change is the
  victim (`services/portfolio_service.py:1083`; `:1096`).
* Holdings of one import share their `created_at`, so pages by offset have no fixed
  order; holdings without a value are last in the list and count as 0 on the
  dashboard, where `gain_desc` ranks them above losses; a gain of zero is in no
  filter by performance (`services/portfolio_service.py:885`).
* An export of a portfolio that is empty, has a blank name or more than 1000
  holdings cannot be imported (`docs/portfolio-csv-format.md:11` says it can); a
  change with a quantity of null fails in the database.

Retention
* A price submitted with an old time during a run is deleted uncompacted
  (`services/price_snapshot_retention.py:19`).
* The cutoff is a time of day (`services/price_snapshot_retention.py:13`), so a run
  may take the morning of a day and leave its evening. The day then stands in its
  month, whose point is that of the first of the month, and in its raw rows: the
  history shows a point more, and if it is the newest day, its mean and so the latest
  value change although rows of it are left.
* Prices recorded late into a month that was compacted replace its rollup at the next
  run; what the rollup counted before is no longer counted
  (`database/repositories.py:1334`).
* A monthly rollup of each marketplace is averaged without weights, so that
  compaction can raise the recorded high (`services/price_analytics_service.py`).

Engines and analyses
* The buy engine can say BUY with a negative estimated return; callers pass a
  data quality of 70 or 100 only, so the penalty for less than 60 never applies;
  a purchase price of 0 is treated as missing, and so is a fair value of 0, whose
  answer of 40 may be above that for a small one; withholding the cost can turn a
  loss into SELL; `_recent_fair_values` mixes conditions, markets and metrics
  into one trend (`services/recommendation_service.py:266`); the estimator
  ignores currencies; `decision_engine.decide` and `score_recommendation` are
  called by tests only.
* A title's piece count or three-digit number can be taken as the number of another
  set; BrickLink's `market_low` may exceed the fair value when a guide has no
  minimum; `find_catalog_match` is not called.
* `is_current` marks the first analysis of every page of the history, and the
  metadata of a new analysis are compared with those of no portfolio only
  (`services/portfolio_analysis_service.py`).

## 8. What is not modelled

* Text and I/O: the clients of BrickLink's catalog and eBay's search, the patterns
  of titles, prompts, mail rendering, routes and schemas, logging, metrics. Their
  outcomes appear as choices where a module calls them.
* Reads that store nothing: the page of a set, the comparison and export of
  analyses, benchmarks by theme, the inflation view, health checks.
* Configuration, migrations, deployment and operator scripts; settings are
  constants of the modules.
* Frontend views, and their cache of server answers: an answer for an earlier key
  may be shown under a later one, a reload may join a load begun before a change,
  and the cache survives a sign-out. It holds nothing the server does not.
* Inside the modelled components: prices and texts where no property is about
  them; several users where rows of users are independent; manual price overrides,
  legacy rows and currencies in `Valuation`; the stored wording of
  recommendations; performance against the cost and the age of holdings.
* In `WatchlistJobs`, publishing a retry is assumed not to fail, though Redis is the
  broker too (`worker/tasks.py:123`; `docker-compose.yml:144`): a job that cannot
  publish ends with an error, and its batch waits for the next beat. A `SET` that
  raised is assumed not to have been applied (`worker/tasks.py:94`); if it was, the
  retry finds the lock of its own batch and is dropped as a duplicate until the lock
  expires.
* In `MarketplaceRefresh`, a set whose stored listings all lack a confidence of their
  price is merged with one that got no listing (`services/marketplace_service.py:170`,
  `:441`): both end in the same error, though the first has stored its listings.
* In `ListingWatch`, the switches of the user are constant, so the early return of the
  job when watchlist notices are off (`worker/tasks.py:319`) does not occur, and the
  score of the deal is a function of the price.
* In `WatchEntries`, `Capture` reads and writes in one step: two provider jobs that
  overlap for one user (`worker/tasks.py:271`) may both compare with the same last
  check, and tell one change twice.
* In `ListingIntake`, only evaluations write the rows. A refresh of the marketplace
  also marks rows as removed that were not seen for 90 days
  (`services/marketplace_service.py:356`), so a row can count as removed by age.
* In `Explanations`, the stamp of an analysis and its evidence are taken in one step.
  The code takes `generated_at` first and reads the evidence over several awaits, so
  an analysis may know a little more than its stamp says. Two analyses with one
  stamp, whose order the database chooses, do not occur.
* Partial orders a property leaves out are named in it (`crowded`, `raced`,
  `mingled`, `tangled`, `mishaps`, `overlapped`); what the code does there is in
  section 7.
