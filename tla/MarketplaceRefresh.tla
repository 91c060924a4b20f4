------------------------- MODULE MarketplaceRefresh -------------------------
(***************************************************************************)
(* Refreshing the listings and price snapshots of LEGO sets: the lock of a *)
(* set inside one process, the providers' answers, the savepoint that      *)
(* stores them, and the transaction of the caller, which may refresh       *)
(* several sets and commits after the last.                                *)
(* services/marketplace_service.py, its callers in deal_finder_service,    *)
(* watchlist_service, worker/tasks and marketplace_routes, and             *)
(* portfolio_service.create_user_valuation_snapshot.                       *)
(*                                                                         *)
(* One user owns some of the sets; the user's valuation of this hour is    *)
(* one row.  A statement that inserts or updates a row another open        *)
(* transaction has inserted or updated waits for that transaction.         *)
(***************************************************************************)
EXTENDS Integers, Sequences, FiniteSets

CONSTANTS
    Sets, Listings, Providers,
    SetOf,          \* the set a listing offers
    ProviderOf,     \* the marketplace that lists it
    Owned,          \* the sets in the user's portfolio
    Old,            \* listings that were stored more than 90 days ago
    Requests,
    Home,           \* the process that serves a request
    Plan,           \* the sets a request refreshes, in order
    Forced,         \* requests with force=True
    Tolerant,       \* requests that go on after a set that fails
    NoRequest,
    MaxFailures,    \* bound: refreshes for which no provider answers
    MaxAging        \* bound: snapshots that grow older than the freshness window

ASSUME ListingsAreListed ==
    SetOf \in [Listings -> Sets] /\ ProviderOf \in [Listings -> Providers]
ASSUME PlansAreSets == Plan \in [Requests -> Seq(Sets)]
ASSUME NoRequestIsNone == NoRequest \notin Requests

VARIABLES
    row,        \* the stored listings
    fresh,      \* sets with a committed snapshot inside the freshness window
    priced,     \* history: the listings committed snapshots were made from
    valued,     \* the user's valuation of this hour is committed
    lock,       \* _refresh_locks of each process
    pc, left,   \* how far a request is, and the sets it has not refreshed
    got, new,   \* the listings the providers returned, those to be inserted
    tx,         \* what the request's transaction has written and not committed
    base,       \* the same at its savepoint
    failures, aging

request == <<pc, left, got, new>>
vars == <<row, fresh, priced, valued, lock, pc, left, got, new, tx, base,
          failures, aging>>

NoWrites == [rows |-> {}, marked |-> {}, snaps |-> {}, from |-> {}, valued |-> FALSE]
Processes == {Home[r] : r \in Requests}
ListedFor(s) == {l \in Listings : SetOf[l] = s}

Init ==
    /\ row = [l \in Listings |-> IF l \in Old THEN "old" ELSE "absent"]
    /\ fresh = {}
    /\ priced = {}
    /\ valued \in BOOLEAN
    /\ lock = [p \in Processes |-> [s \in Sets |-> NoRequest]]
    /\ pc = [r \in Requests |-> "next"]
    /\ left = Plan
    /\ got = [r \in Requests |-> {}]
    /\ new = [r \in Requests |-> {}]
    /\ tx = [r \in Requests |-> NoWrites]
    /\ base = [r \in Requests |-> NoWrites]
    /\ failures = 0 /\ aging = 0

-----------------------------------------------------------------------------
(* The lock of the set and the savepoint. *)

Current(r) == Head(left[r])

Unlock(r) == lock' = [lock EXCEPT ![Home[r]][Current(r)] = NoRequest]

Free(r) == lock[Home[r]][Current(r)] = NoRequest

\* A snapshot inside the freshness window that the transaction can see.
SeesFresh(r) == Current(r) \in fresh \cup tx[r].snaps

\* The lock is taken and freshness looked up again.  A fresh set is left as it
\* is, else the providers are asked.
Acquire(r) ==
    /\ pc[r] = "next" /\ left[r] # << >>
    /\ Free(r)
    /\ IF r \notin Forced /\ SeesFresh(r)
       THEN left' = [left EXCEPT ![r] = Tail(@)] /\ UNCHANGED <<pc, lock>>
       ELSE /\ lock' = [lock EXCEPT ![Home[r]][Current(r)] = r]
            /\ pc' = [pc EXCEPT ![r] = "fetch"]
            /\ UNCHANGED left
    /\ UNCHANGED <<row, fresh, priced, valued, got, new, tx, base, failures, aging>>

\* The set is over, with these writes in the transaction.
Leave(r, writes) ==
    /\ Unlock(r)
    /\ tx' = [tx EXCEPT ![r] = writes]
    /\ base' = [base EXCEPT ![r] = writes]
    /\ got' = [got EXCEPT ![r] = {}]
    /\ new' = [new EXCEPT ![r] = {}]

\* Mutant of Raise: there is no savepoint, the session is rolled back.
RaiseAll(r, writes) ==
    /\ Leave(r, NoWrites)
    /\ IF r \in Tolerant
       THEN /\ pc' = [pc EXCEPT ![r] = "next"]
            /\ left' = [left EXCEPT ![r] = Tail(@)]
       ELSE /\ pc' = [pc EXCEPT ![r] = "failed"]
            /\ left' = [left EXCEPT ![r] = << >>]

\* The refresh of the set raises with these writes kept.  A request that does
\* not catch it is rolled back.
Raise(r, writes) ==
    /\ IF r \in Tolerant
       THEN /\ Leave(r, writes)
            /\ pc' = [pc EXCEPT ![r] = "next"]
            /\ left' = [left EXCEPT ![r] = Tail(@)]
       ELSE /\ Leave(r, NoWrites)
            /\ pc' = [pc EXCEPT ![r] = "failed"]
            /\ left' = [left EXCEPT ![r] = << >>]

-----------------------------------------------------------------------------
(* _update_marketplace_data. *)

\* Some providers answer, each after at most three attempts of ten seconds;
\* the others are left out.
Fetch(r) ==
    /\ pc[r] = "fetch"
    /\ \E answering \in SUBSET Providers \ {{}} :
         got' = [got EXCEPT ![r] =
                   {l \in ListedFor(Current(r)) : ProviderOf[l] \in answering}]
    /\ pc' = [pc EXCEPT ![r] = "look"]
    /\ UNCHANGED <<row, fresh, priced, valued, lock, left, new, tx, base, failures, aging>>

\* None does.
FetchFails(r) ==
    /\ pc[r] = "fetch"
    /\ failures < MaxFailures /\ failures' = failures + 1
    /\ Raise(r, tx[r])
    /\ UNCHANGED <<row, fresh, priced, valued, aging>>

\* bulk_create_marketplace_listings looks which of the listings are stored.
Look(r) ==
    /\ pc[r] = "look"
    /\ new' = [new EXCEPT ![r] =
                 {l \in got[r] : row[l] = "absent" /\ l \notin tx[r].rows}]
    /\ pc' = [pc EXCEPT ![r] = "insert"]
    /\ UNCHANGED <<row, fresh, priced, valued, lock, left, got, tx, base, failures, aging>>

NewRows(r) == new[r]

\* The active listings of r's set that have not been seen for 90 days.
Unseen(r) == {l \in ListedFor(Current(r)) : row[l] = "old"} \ tx[r].marked

Values(r) == Current(r) \in Owned /\ got[r] # {} /\ ~valued /\ ~tx[r].valued

\* Requests whose transactions hold a row the next statement of r needs.
WaitsFor(r) ==
    {q \in Requests \ {r} :
        \/ pc[r] = "insert" /\ NewRows(r) \cap tx[q].rows # {}
        \/ pc[r] = "value" /\ Values(r) /\ tx[q].valued
        \/ pc[r] = "mark" /\ Unseen(r) \cap tx[q].marked # {}}

\* The new listings are inserted, unless one was stored since they were looked
\* up: DuplicateRecordError.
Insert(r) ==
    /\ pc[r] = "insert" /\ WaitsFor(r) = {}
    /\ IF \E l \in NewRows(r) : row[l] # "absent"
       THEN Raise(r, base[r])
       ELSE /\ tx' = [tx EXCEPT ![r].rows = @ \cup NewRows(r)]
            /\ pc' = [pc EXCEPT ![r] = "value"]
            /\ UNCHANGED <<lock, left, got, new, base>>
    /\ UNCHANGED <<row, fresh, priced, valued, failures, aging>>

\* The snapshots are inserted, and the user's valuation of this hour, if there
\* is none; a unique violation of the latter is caught.
Value(r) ==
    /\ pc[r] = "value" /\ WaitsFor(r) = {}
    /\ pc' = [pc EXCEPT ![r] = "mark"]
    /\ tx' = [tx EXCEPT ![r].snaps = IF got[r] = {} THEN @ ELSE @ \cup {Current(r)},
                        ![r].from = @ \cup got[r],
                        ![r].valued = @ \/ Values(r)]
    /\ UNCHANGED <<row, fresh, priced, valued, lock, left, got, new, base,
                   failures, aging>>

\* _mark_stale_listings, and the end of the savepoint.  Without a snapshot the
\* refresh raises after that.
Mark(r) ==
    LET writes == [tx[r] EXCEPT !.marked = @ \cup Unseen(r)]
    IN  /\ pc[r] = "mark" /\ WaitsFor(r) = {}
        /\ IF got[r] = {}
           THEN Raise(r, writes)
           ELSE /\ Leave(r, writes)
                /\ pc' = [pc EXCEPT ![r] = "next"]
                /\ left' = [left EXCEPT ![r] = Tail(@)]
        /\ UNCHANGED <<row, fresh, priced, valued, failures, aging>>

\* Statements that wait for each other in the database: one is ended with an
\* error and its savepoint rolled back.
Victim(r) ==
    /\ \E cycle \in SUBSET Requests :
         /\ r \in cycle
         /\ \A q \in cycle : /\ WaitsFor(q) \cap cycle # {}
                             /\ \E p \in cycle : q \in WaitsFor(p)
    /\ Raise(r, base[r])
    /\ UNCHANGED <<row, fresh, priced, valued, failures, aging>>

\* The end of the request: everything is committed.
Commit(r) ==
    /\ pc[r] = "next" /\ left[r] = << >>
    /\ pc' = [pc EXCEPT ![r] = "done"]
    /\ row' = [l \in Listings |-> IF l \in tx[r].marked THEN "removed"
                                  ELSE IF l \in tx[r].rows THEN "active" ELSE row[l]]
    /\ fresh' = fresh \cup tx[r].snaps
    /\ priced' = priced \cup tx[r].from
    /\ valued' = (valued \/ tx[r].valued)
    /\ tx' = [tx EXCEPT ![r] = NoWrites]
    /\ base' = [base EXCEPT ![r] = NoWrites]
    /\ UNCHANGED <<lock, left, got, new, failures, aging>>

\* A process ends: its locks are gone and its transactions rolled back.
Crash(p) ==
    LET served == {r \in Requests : Home[r] = p /\ pc[r] \notin {"done", "failed"}}
    IN  /\ served # {}
        /\ failures < MaxFailures /\ failures' = failures + 1
        /\ lock' = [lock EXCEPT ![p] = [s \in Sets |-> NoRequest]]
        /\ pc' = [r \in Requests |-> IF r \in served THEN "failed" ELSE pc[r]]
        /\ left' = [r \in Requests |-> IF r \in served THEN << >> ELSE left[r]]
        /\ got' = [r \in Requests |-> IF r \in served THEN {} ELSE got[r]]
        /\ new' = [r \in Requests |-> IF r \in served THEN {} ELSE new[r]]
        /\ tx' = [r \in Requests |-> IF r \in served THEN NoWrites ELSE tx[r]]
        /\ base' = [r \in Requests |-> IF r \in served THEN NoWrites ELSE base[r]]
        /\ UNCHANGED <<row, fresh, priced, valued, aging>>

\* The freshness window of a set's snapshot ends.
Age(s) ==
    /\ s \in fresh /\ aging < MaxAging
    /\ fresh' = fresh \ {s} /\ aging' = aging + 1
    /\ UNCHANGED <<row, priced, valued, lock, tx, base, failures>>
    /\ UNCHANGED request

Step(r) ==
    \/ Acquire(r) \/ Fetch(r) \/ FetchFails(r) \/ Look(r) \/ Insert(r) \/ Value(r)
    \/ Mark(r) \/ Victim(r) \/ Commit(r)

Next ==
    \/ \E r \in Requests : Step(r)
    \/ \E p \in Processes : Crash(p)
    \/ \E s \in Sets : Age(s)

Spec == Init /\ [][Next]_vars

\* Providers answer or time out, and the waiters of a lock of either kind are
\* served in order.
FairSpec == Spec /\ \A r \in Requests : WF_vars(Step(r)) /\ SF_vars(Acquire(r))

-----------------------------------------------------------------------------
(* Properties. *)

Writes == [rows : SUBSET Listings, marked : SUBSET Listings,
           snaps : SUBSET Sets, from : SUBSET Listings, valued : BOOLEAN]

\* Every variable stays within its type.
TypeOK ==
    /\ row \in [Listings -> {"absent", "active", "old", "removed"}]
    /\ fresh \subseteq Sets
    /\ priced \subseteq Listings
    /\ valued \in BOOLEAN
    /\ lock \in [Processes -> [Sets -> Requests \cup {NoRequest}]]
    /\ pc \in [Requests -> {"next", "fetch", "look", "insert", "value", "mark",
                            "done", "failed"}]
    /\ left \in [Requests -> Seq(Sets)]
    /\ got \in [Requests -> SUBSET Listings]
    /\ new \in [Requests -> SUBSET Listings]
    /\ tx \in [Requests -> Writes]
    /\ base \in [Requests -> Writes]
    /\ failures \in Nat /\ aging \in Nat

Refreshing(r) == pc[r] \in {"fetch", "look", "insert", "value", "mark"}

\* A set that fails takes nothing from the sets the same request refreshed
\* before: their snapshots stay in its transaction until it commits, unless
\* the request itself fails.
EarlierSetsSurvive ==
    [][\A r \in Requests :
         Refreshing(r) /\ pc'[r] # "failed"
             => tx[r].snaps \ {Current(r)} \subseteq tx'[r].snaps]_vars

\* portfolio_service.py:1096, "The unique window constraint handles concurrent
\* refreshes without failing the portfolio mutation": every request ends.  So
\* it does when no request refreshes more than one set.
RequestsEnd == \A r \in Requests : <>(pc[r] \in {"done", "failed"})
=============================================================================
