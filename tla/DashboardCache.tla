--------------------------- MODULE DashboardCache ---------------------------
(***************************************************************************)
(* The process-local cache of portfolio dashboards: get_or_load with one   *)
(* asyncio lock per key, and invalidate_user called by portfolio changes.  *)
(* services/portfolio_dashboard_cache.py, and how portfolio_service.py     *)
(* uses it.  Coroutines interleave only where the code awaits: at a lock   *)
(* that is taken and inside the loader.                                    *)
(*                                                                         *)
(* The database is its users' data as a number of committed changes.       *)
(***************************************************************************)
EXTENDS Integers, Sequences, FiniteSets

CONSTANTS
    Keys,           \* dashboards: a user, a portfolio, filters and a page
    Users,
    UserOf,         \* whose dashboard a key is
    Requests,       \* dashboard requests, each made once
    NoRequest,
    MaxEntries,     \* _MAX_ENTRIES
    Ttl,            \* _TTL
    MaxTime,        \* bound of the clock
    MaxChanges      \* bound: changes of each user's portfolios

ASSUME KeysHaveUsers == UserOf \in [Keys -> Users]
ASSUME NoRequestIsNone == NoRequest \notin Requests
ASSUME SizesArePositive == MaxEntries \in Nat \ {0} /\ Ttl \in Nat \ {0}
ASSUME BoundsAreNatural == MaxTime \in Nat /\ MaxChanges \in Nat

VARIABLES
    clock,
    data,       \* committed changes of each user's portfolios
    changing,   \* users with a change that is flushed and not committed
    cache,      \* _cache: partial function from keys to entries
    before,     \* pairs of its keys, the first inserted before the second
    lockOf,     \* _locks: the lock of a key, named after the request that made it
    queue,      \* who holds a lock, and behind it who waits, in order
    pc, key, lock, now, got,    \* the coroutine of each request
    dropped,    \* history: keys whose lock was taken out of _locks
    floor,      \* history: what was committed when the request began
    raced,      \* history: users with a change that a load overlapped, or that
                \* invalidated nothing
    age         \* history: how old the data of an answer from the cache was

coroutine == <<pc, key, lock, now, got, floor, age>>
store == <<cache, before, lockOf, dropped>>
vars == <<clock, data, changing, cache, before, lockOf, dropped, queue,
          pc, key, lock, now, got, floor, age, raced>>

Nothing == [val |-> 0, readAt |-> 0]

Init ==
    /\ clock = 0
    /\ data = [u \in Users |-> 0]
    /\ changing = {}
    /\ cache = << >> /\ before = {}
    /\ lockOf = [k \in Keys |-> NoRequest]
    /\ dropped = {}
    /\ queue = [r \in Requests |-> << >>]
    /\ pc = [r \in Requests |-> "new"]
    /\ key \in [Requests -> Keys]
    /\ lock = [r \in Requests |-> NoRequest]
    /\ now = [r \in Requests |-> 0]
    /\ got = [r \in Requests |-> Nothing]
    /\ floor = [r \in Requests |-> 0]
    /\ age = [r \in Requests |-> 0]
    /\ raced = {}

-----------------------------------------------------------------------------
(* get_or_load. *)

Cached == DOMAIN cache
Fresh(k) == k \in Cached /\ cache[k].until > clock

\* The cached entry of r's key is the answer.
Answer(r) ==
    /\ pc' = [pc EXCEPT ![r] = "done"]
    /\ got' = [got EXCEPT ![r] = [val |-> cache[key[r]].val,
                                  readAt |-> cache[key[r]].readAt]]
    /\ age' = [age EXCEPT ![r] = clock - cache[key[r]].readAt]

\* The lock is r's: now is read again and the loader starts.
Load(r) ==
    /\ pc' = [pc EXCEPT ![r] = "load"]
    /\ now' = [now EXCEPT ![r] = clock]

\* _locks.setdefault(key, asyncio.Lock())
LockFor(r) == IF lockOf[key[r]] = NoRequest THEN r ELSE lockOf[key[r]]

Start(r) ==
    LET k == key[r]
        l == LockFor(r)
    IN  /\ pc[r] = "new"
        /\ floor' = [floor EXCEPT ![r] = data[UserOf[k]]]
        /\ IF Fresh(k)
           THEN Answer(r) /\ UNCHANGED <<lock, now, lockOf, queue>>
           ELSE /\ lock' = [lock EXCEPT ![r] = l]
                /\ lockOf' = [lockOf EXCEPT ![k] = l]
                /\ queue' = [queue EXCEPT ![l] = Append(@, r)]
                /\ IF queue[l] = << >>
                   THEN Load(r)
                   ELSE pc' = [pc EXCEPT ![r] = "wait"] /\ UNCHANGED now
                /\ UNCHANGED <<got, age>>
        /\ UNCHANGED <<clock, data, changing, cache, before, dropped, key, raced>>

Release(r) == queue' = [queue EXCEPT ![lock[r]] = Tail(@)]

\* Mutant of Enter: the cache is not looked up again under the lock.
EnterAndLoad(r) ==
    /\ pc[r] = "wait" /\ Head(queue[lock[r]]) = r
    /\ Load(r) /\ UNCHANGED <<got, age, queue>>
    /\ UNCHANGED <<clock, data, changing, key, lock, floor, raced>>
    /\ UNCHANGED store

\* A waiter gets the lock and looks into the cache again.
Enter(r) ==
    /\ pc[r] = "wait" /\ Head(queue[lock[r]]) = r
    /\ IF Fresh(key[r])
       THEN Answer(r) /\ Release(r) /\ UNCHANGED now
       ELSE Load(r) /\ UNCHANGED <<got, age, queue>>
    /\ UNCHANGED <<clock, data, changing, key, lock, floor, raced>>
    /\ UNCHANGED store

\* The loader reads what is committed.
Read(r) ==
    /\ pc[r] = "load"
    /\ pc' = [pc EXCEPT ![r] = "loaded"]
    /\ got' = [got EXCEPT ![r] = [val |-> data[UserOf[key[r]]], readAt |-> clock]]
    /\ raced' = raced \cup ({UserOf[key[r]]} \cap changing)
    /\ UNCHANGED <<clock, data, changing, queue, key, lock, now, floor, age>>
    /\ UNCHANGED store

\* Mutant of Fails: the lock is kept when the loader raises.
FailsLocked(r) ==
    /\ pc[r] = "load"
    /\ pc' = [pc EXCEPT ![r] = "failed"]
    /\ UNCHANGED <<clock, data, changing, queue, key, lock, now, got, floor, age, raced>>
    /\ UNCHANGED store

\* The loader raises: the lock is released, its entry in _locks stays.
Fails(r) ==
    /\ pc[r] = "load"
    /\ pc' = [pc EXCEPT ![r] = "failed"]
    /\ Release(r)
    /\ UNCHANGED <<clock, data, changing, key, lock, now, got, floor, age, raced>>
    /\ UNCHANGED store

\* A full cache drops the expired entries, else the one inserted first.
Victims(r) ==
    LET expired == {k \in Cached : cache[k].until <= now[r]}
    IN  IF Cardinality(Cached) < MaxEntries THEN {}
        ELSE IF expired # {} THEN expired
        ELSE {k \in Cached : \A j \in Cached \ {k} : <<k, j>> \in before}

Without(gone) == {p \in before : p[1] \notin gone /\ p[2] \notin gone}

Until(r) == now[r] + Ttl

\* The result is stored, the lock released and the request answered.
Store(r) ==
    LET k == key[r]
        gone == Victims(r)
        left == Cached \ gone
        entry == [val |-> got[r].val, readAt |-> got[r].readAt, until |-> Until(r)]
    IN  /\ pc[r] = "loaded"
        /\ pc' = [pc EXCEPT ![r] = "done"]
        /\ cache' = [j \in left \cup {k} |-> IF j = k THEN entry ELSE cache[j]]
        /\ before' = Without(gone) \cup (IF k \in left THEN {} ELSE left \X {k})
        /\ lockOf' = [j \in Keys |-> IF j \in gone THEN NoRequest ELSE lockOf[j]]
        /\ dropped' = dropped \cup gone
        /\ Release(r)
        /\ UNCHANGED <<clock, data, changing, key, lock, now, got, floor, age, raced>>

-----------------------------------------------------------------------------
(* The changes of a user's portfolios, and time. *)

\* Mutant of Invalidate: the results stay.
InvalidateLocks(u) ==
    LET gone == {k \in Cached : UserOf[k] = u}
    IN  /\ lockOf' = [k \in Keys |-> IF k \in gone THEN NoRequest ELSE lockOf[k]]
        /\ dropped' = dropped \cup gone
        /\ UNCHANGED <<cache, before>>

\* invalidate_user: the cached keys of the user and their locks.
Invalidate(u) ==
    LET gone == {k \in Cached : UserOf[k] = u}
    IN  /\ cache' = [k \in Cached \ gone |-> cache[k]]
        /\ before' = Without(gone)
        /\ lockOf' = [k \in Keys |-> IF k \in gone THEN NoRequest ELSE lockOf[k]]
        /\ dropped' = dropped \cup gone

\* A load of the user has read and not yet stored.
Loaded(u) == \E r \in Requests : pc[r] = "loaded" /\ UserOf[key[r]] = u

\* A request changes the user's holdings, and invalidates; archiving a
\* portfolio does not.
Change(u) ==
    /\ u \notin changing /\ data[u] < MaxChanges
    /\ changing' = changing \cup {u}
    /\ \/ /\ Invalidate(u)
          /\ raced' = IF Loaded(u) THEN raced \cup {u} ELSE raced
       \/ UNCHANGED store /\ raced' = raced \cup {u}
    /\ UNCHANGED <<clock, data, queue>>
    /\ UNCHANGED coroutine

\* Its session commits when the request is over.
Commit(u) ==
    /\ u \in changing
    /\ changing' = changing \ {u}
    /\ data' = [data EXCEPT ![u] = @ + 1]
    /\ UNCHANGED <<clock, queue, raced>>
    /\ UNCHANGED store
    /\ UNCHANGED coroutine

Tick ==
    /\ clock < MaxTime
    /\ clock' = clock + 1
    /\ UNCHANGED <<data, changing, queue, raced>>
    /\ UNCHANGED store
    /\ UNCHANGED coroutine

Run(r) == Start(r) \/ Enter(r) \/ Read(r) \/ Fails(r) \/ Store(r)

Next ==
    \/ \E r \in Requests : Run(r)
    \/ \E u \in Users : Change(u) \/ Commit(u)
    \/ Tick

Spec == Init /\ [][Next]_vars

\* The event loop runs every coroutine that can go on.
FairSpec == Spec /\ \A r \in Requests : WF_vars(Run(r))

-----------------------------------------------------------------------------
(* Properties. *)

Entry == [val : 0..MaxChanges, readAt : 0..MaxTime, until : 0..(MaxTime + Ttl)]

\* Every variable stays within its type.
TypeOK ==
    /\ clock \in 0..MaxTime
    /\ data \in [Users -> 0..MaxChanges]
    /\ changing \subseteq Users
    /\ Cached \subseteq Keys /\ \A k \in Cached : cache[k] \in Entry
    /\ before \subseteq Cached \X Cached
    /\ lockOf \in [Keys -> Requests \cup {NoRequest}]
    /\ dropped \subseteq Keys
    /\ queue \in [Requests -> Seq(Requests)]
    /\ pc \in [Requests -> {"new", "wait", "load", "loaded", "done", "failed"}]
    /\ key \in [Requests -> Keys]
    /\ lock \in [Requests -> Requests \cup {NoRequest}]
    /\ now \in [Requests -> 0..MaxTime]
    /\ got \in [Requests -> [val : 0..MaxChanges, readAt : 0..MaxTime]]
    /\ floor \in [Requests -> 0..MaxChanges]
    /\ age \in [Requests -> Int]
    /\ raced \subseteq Users

\* The cache never holds more than its maximum, whichever entries have expired
\* by the clock the evicting request read before its load.
CacheIsBounded == Cardinality(Cached) <= MaxEntries

\* An answer from the cache was read from the database less than the time to
\* live ago, however long a load or the wait for a lock took.
CachedAnswersAreYoung == \A r \in Requests : age[r] < Ttl

\* A load of a dashboard starts only when no other load of it runs and no fresh
\* result is stored.
CoalescedLoad(r) ==
    /\ ~Fresh(key[r])
    /\ \A q \in Requests \ {r} : key[q] = key[r] => pc[q] \notin {"load", "loaded"}

\* portfolio_dashboard_cache.py:15, "Coalesce identical in-flight reads": true
\* of a dashboard until an invalidation or an eviction drops its lock, which
\* requests may hold or wait for.
LoadsAreCoalesced ==
    [][\A r \in Requests :
         pc[r] # "load" /\ pc'[r] = "load" /\ key[r] \notin dropped => CoalescedLoad(r)]_vars

\* No request waits for a lock for ever, also when loaders raise and locks
\* are dropped from _locks while others queue for them.
WaitersGoOn == \A r \in Requests : pc[r] = "wait" ~> pc[r] \in {"done", "failed"}

\* portfolio_dashboard_cache.py:40, "Ensure mutations are immediately visible
\* without waiting for the TTL": an answer shows every change that was
\* committed when its request began, unless a load of the user overlapped a
\* change, from its invalidation to its commit, or a change invalidated nothing.
MutationsAreVisible ==
    \A r \in Requests :
        pc[r] = "done" /\ UserOf[key[r]] \notin raced => got[r].val >= floor[r]

\* The cache is of bounded size and age, and hides no change.
CacheIsHonest == CacheIsBounded /\ CachedAnswersAreYoung /\ MutationsAreVisible
=============================================================================
