--------------------------- MODULE WatchlistJobs ---------------------------
(***************************************************************************)
(* The background refresh of watched sets for one provider: the daily      *)
(* dispatcher, the Celery queue with delayed retries and duplicate         *)
(* deliveries, workers that hold a Redis lock named after the content of   *)
(* their batch, the hourly quota in Redis, and the retry of what failed.   *)
(* worker/tasks.py.                                                        *)
(*                                                                         *)
(* Celery acknowledges a message when a worker takes it (task_acks_late is *)
(* off), so the batch of a worker that dies is not delivered again.  Times *)
(* are counted in ticks that remain: until a message is due, until a lock  *)
(* expires, until the hour is over.                                        *)
(***************************************************************************)
EXTENDS Integers, FiniteSetsExt

CONSTANTS
    LegoSets,       \* the watched sets
    Workers,        \* worker processes
    HourlyLimit,    \* settings.watchlist_provider_hourly_limit
    TicksPerHour,   \* RETRY_DELAY_SECONDS, and the life of a quota bucket
    LockTtl,        \* JOB_LOCK_TTL_SECONDS
    MaxDispatches,  \* bound: runs of the daily dispatcher
    MaxDuplicates,  \* bound: messages delivered twice
    MaxFailures     \* bound: failures of Redis, provider, database and workers

ASSUME LimitIsPositive == HourlyLimit \in Nat \ {0}
ASSUME HourIsPositive == TicksPerHour \in Nat \ {0}
ASSUME TtlExceedsDelay == LockTtl \in Nat /\ LockTtl > TicksPerHour
ASSUME BoundsAreNatural ==
    MaxDispatches \in Nat /\ MaxDuplicates \in Nat /\ MaxFailures \in Nat

VARIABLES
    queue,      \* how many messages there are of each batch and countdown
    lock,       \* ticks until the job lock of each batch expires; 0 is free
    quota,      \* places of this hour's bucket that are taken
    left,       \* ticks left of the hour
    pc,         \* how far each worker is
    batch,      \* the batch of its message
    todo,       \* sets of the batch it has not come to
    done,       \* sets it has refreshed, not committed yet
    failed,     \* sets it will retry
    owed,       \* history: sets dispatched and not refreshed since (TakeDuplicate)
    harmed,     \* history: a worker died or a lock could not be released
    dispatches, duplicates, failures

work == <<pc, batch, todo, done, failed>>
rate == <<quota, left>>
vars == <<queue, lock, quota, left, pc, batch, todo, done, failed,
          owed, harmed, dispatches, duplicates, failures>>

Batches == (SUBSET LegoSets) \ {{}}
Countdowns == 0..TicksPerHour
Messages == Batches \X Countdowns

Init ==
    /\ queue = [m \in Messages |-> 0]
    /\ lock = [b \in Batches |-> 0]
    /\ quota = 0 /\ left = TicksPerHour
    /\ pc = [w \in Workers |-> "idle"]
    /\ batch = [w \in Workers |-> {}]
    /\ todo = [w \in Workers |-> {}]
    /\ done = [w \in Workers |-> {}]
    /\ failed = [w \in Workers |-> {}]
    /\ owed = {}
    /\ harmed = FALSE /\ dispatches = 0 /\ duplicates = 0 /\ failures = 0

\* Something this action depends on fails, or nothing does.
Failure == failures < MaxFailures /\ failures' = failures + 1 /\ UNCHANGED harmed
Harm == failures < MaxFailures /\ failures' = failures + 1 /\ harmed' = TRUE
NoFailure == UNCHANGED <<failures, harmed>>

-----------------------------------------------------------------------------
(* The queue. *)

\* _dispatch_daily_refresh: one message with the sets that are watched now by
\* users who have not switched monitoring off.
Dispatch(b) ==
    /\ dispatches < MaxDispatches
    /\ dispatches' = dispatches + 1
    /\ queue' = [queue EXCEPT ![<<b, 0>>] = @ + 1]
    /\ owed' = owed \cup b
    /\ UNCHANGED <<lock, duplicates>>
    /\ NoFailure
    /\ UNCHANGED rate
    /\ UNCHANGED work

\* An idle worker receives a due message; the broker may keep a copy of it.
Receive(w, b, twice, afterwards) ==
    /\ pc[w] = "idle"
    /\ queue[<<b, 0>>] > 0
    /\ twice => duplicates < MaxDuplicates
    /\ duplicates' = IF twice THEN duplicates + 1 ELSE duplicates
    /\ queue' = [m \in Messages |->
                   queue[m] + afterwards[m]
                     - (IF m = <<b, 0>> /\ ~twice THEN 1 ELSE 0)]
    /\ UNCHANGED rate
    /\ UNCHANGED dispatches

Nothing == [m \in Messages |-> 0]
\* _retry_provider_batch: the sets again, one hour later.
RetryOf(b) == [Nothing EXCEPT ![<<b, TicksPerHour>>] = 1]

\* The lock cannot be asked for: the whole batch is retried.
TakeUnavailable(w, b, twice) ==
    /\ Failure
    /\ Receive(w, b, twice, RetryOf(b))
    /\ UNCHANGED <<lock, owed>>
    /\ UNCHANGED work

\* The lock is held: the message is taken for a duplicate and dropped.  It
\* asks for nothing that the holder of the lock has just committed.
TakeDuplicate(w, b, twice) ==
    /\ lock[b] > 0
    /\ Receive(w, b, twice, Nothing)
    /\ NoFailure
    /\ owed' = owed \ UNION {done[v] : v \in {u \in Workers :
                                  pc[u] = "committed" /\ batch[u] = b}}
    /\ UNCHANGED lock
    /\ UNCHANGED work

\* Mutant of TakeLocked: SET without NX.
TakeAnyway(w, b, twice) ==
    /\ Receive(w, b, twice, Nothing)
    /\ NoFailure
    /\ lock' = [lock EXCEPT ![b] = LockTtl]
    /\ pc' = [pc EXCEPT ![w] = "refreshing"]
    /\ batch' = [batch EXCEPT ![w] = b]
    /\ todo' = [todo EXCEPT ![w] = b]
    /\ UNCHANGED <<done, failed, owed>>

\* SET NX EX succeeds.
TakeLocked(w, b, twice) ==
    /\ lock[b] = 0
    /\ Receive(w, b, twice, Nothing)
    /\ NoFailure
    /\ lock' = [lock EXCEPT ![b] = LockTtl]
    /\ pc' = [pc EXCEPT ![w] = "refreshing"]
    /\ batch' = [batch EXCEPT ![w] = b]
    /\ todo' = [todo EXCEPT ![w] = b]
    /\ UNCHANGED <<done, failed, owed>>

-----------------------------------------------------------------------------
(* _refresh_provider_batch: set by set, then one commit. *)

\* _reserve_provider_refresh: INCR, compared with the limit.
Granted ==
    /\ quota < HourlyLimit
    /\ quota' = quota + 1

\* INCR goes over the limit, or Redis cannot be asked: the set is left to a
\* retry.  The counter is not followed above the limit, which it never leaves.
ReserveRefused(w, s) ==
    /\ pc[w] = "refreshing" /\ s \in todo[w]
    /\ \/ quota = HourlyLimit /\ NoFailure
       \/ Failure
    /\ todo' = [todo EXCEPT ![w] = @ \ {s}]
    /\ failed' = [failed EXCEPT ![w] = @ \cup {s}]
    /\ UNCHANGED <<queue, lock, pc, batch, done, duplicates, owed>>
    /\ UNCHANGED rate
    /\ UNCHANGED dispatches

\* A place in the quota: the provider is called.
ReserveGranted(w, s) ==
    /\ pc[w] = "refreshing" /\ s \in todo[w]
    /\ Granted /\ NoFailure
    /\ pc' = [pc EXCEPT ![w] = "calling"]
    /\ todo' = [todo EXCEPT ![w] = @ \ {s}]
    /\ UNCHANGED <<queue, lock, left, batch, done, failed, duplicates, owed>>
    /\ UNCHANGED dispatches

\* The set of the call that is under way.
Current(w) == batch[w] \ (todo[w] \cup done[w] \cup failed[w])

RefreshOk(w) ==
    /\ pc[w] = "calling" /\ NoFailure
    /\ done' = [done EXCEPT ![w] = @ \cup Current(w)]
    /\ pc' = [pc EXCEPT ![w] = "refreshing"]
    /\ UNCHANGED <<queue, lock, batch, todo, failed, duplicates, owed>>
    /\ UNCHANGED rate
    /\ UNCHANGED dispatches

RefreshFails(w) ==
    /\ pc[w] = "calling" /\ Failure
    /\ failed' = [failed EXCEPT ![w] = @ \cup Current(w)]
    /\ pc' = [pc EXCEPT ![w] = "refreshing"]
    /\ UNCHANGED <<queue, lock, batch, todo, done, duplicates, owed>>
    /\ UNCHANGED rate
    /\ UNCHANGED dispatches

\* The observations of every affected user are captured and all is committed.
CommitBatch(w) ==
    /\ pc[w] = "refreshing" /\ todo[w] = {} /\ NoFailure
    /\ pc' = [pc EXCEPT ![w] = "committed"]
    /\ owed' = owed \ done[w]
    /\ UNCHANGED <<queue, lock, batch, todo, done, failed, duplicates, dispatches>>
    /\ UNCHANGED rate

\* Capturing or the commit raises: nothing is kept, and the whole batch is
\* retried.  The retry is queued before the lock is released.
BatchRaises(w) ==
    /\ pc[w] = "refreshing" /\ todo[w] = {} /\ Failure
    /\ pc' = [pc EXCEPT ![w] = "raised"]
    /\ queue' = [queue EXCEPT ![<<batch[w], TicksPerHour>>] = @ + 1]
    /\ UNCHANGED <<lock, batch, todo, done, failed, duplicates, owed>>
    /\ UNCHANGED rate
    /\ UNCHANGED dispatches

-----------------------------------------------------------------------------
(* The end of refresh_provider_batch. *)

\* The worker's variables go; its message is gone since it was taken.
Idle(w) ==
    /\ pc' = [pc EXCEPT ![w] = "idle"]
    /\ batch' = [batch EXCEPT ![w] = {}]
    /\ todo' = [todo EXCEPT ![w] = {}]
    /\ done' = [done EXCEPT ![w] = {}]
    /\ failed' = [failed EXCEPT ![w] = {}]

\* _release_job_lock, whatever became of the run: DELETE of the key.  If
\* Redis cannot be reached, the error is logged and the key stays.
Release(w) ==
    /\ pc[w] \in {"committed", "raised"}
    /\ \/ lock' = [lock EXCEPT ![batch[w]] = 0] /\ NoFailure
       \/ Harm /\ UNCHANGED lock
    /\ \/ /\ pc[w] = "raised"
          /\ Idle(w)
       \/ /\ pc[w] = "committed"
          /\ pc' = [pc EXCEPT ![w] = "released"]
          /\ UNCHANGED <<batch, todo, done, failed>>
    /\ UNCHANGED <<queue, duplicates, owed>>
    /\ UNCHANGED rate
    /\ UNCHANGED dispatches

\* Mutant of Retry: what failed is not queued again when something succeeded.
RetryWhenAllFailed(w) ==
    /\ pc[w] = "released"
    /\ queue' = IF failed[w] # batch[w] THEN queue
                ELSE [queue EXCEPT ![<<failed[w], TicksPerHour>>] = @ + 1]
    /\ Idle(w) /\ NoFailure
    /\ UNCHANGED <<lock, duplicates, owed>>
    /\ UNCHANGED rate
    /\ UNCHANGED dispatches

\* The failed sets, if any, are queued for the next hour.
Retry(w) ==
    /\ pc[w] = "released"
    /\ queue' = IF failed[w] = {} THEN queue
                ELSE [queue EXCEPT ![<<failed[w], TicksPerHour>>] = @ + 1]
    /\ Idle(w) /\ NoFailure
    /\ UNCHANGED <<lock, duplicates, owed>>
    /\ UNCHANGED rate
    /\ UNCHANGED dispatches

\* The process dies: its transaction is rolled back, its lock stays.
Crash(w) ==
    /\ Harm /\ pc[w] # "idle"
    /\ Idle(w)
    /\ UNCHANGED <<queue, lock, duplicates, owed>>
    /\ UNCHANGED rate
    /\ UNCHANGED dispatches

-----------------------------------------------------------------------------
(* Time. *)

HoldsLock(w) == pc[w] \in {"refreshing", "calling", "committed", "raised"}

\* Assumption: a run is over before its lock, set for a day, expires.
RunsFitTtl == \A w \in Workers : HoldsLock(w) => lock[batch[w]] > 1

\* Assumption: nothing takes long between a run's commit and its last statement.
EndsAreShort ==
    \A w \in Workers : pc[w] \notin {"committed", "raised", "released"}

\* What one tick leaves of a lock.
Aged(b) == IF lock[b] = 0 THEN 0 ELSE lock[b] - 1

Tick ==
    /\ RunsFitTtl /\ EndsAreShort /\ NoFailure
    /\ lock' = [b \in Batches |-> Aged(b)]
    /\ queue' = [m \in Messages |->
                   (IF m[2] < TicksPerHour THEN queue[<<m[1], m[2] + 1>>] ELSE 0)
                   + (IF m[2] = 0 THEN queue[m] ELSE 0)]
    /\ left' = IF left = 1 THEN TicksPerHour ELSE left - 1
    /\ quota' = IF left = 1 THEN 0 ELSE quota
    /\ UNCHANGED <<duplicates, owed>>
    /\ UNCHANGED work
    /\ UNCHANGED dispatches

Take(w) ==
    \E b \in Batches, twice \in BOOLEAN :
        \/ TakeUnavailable(w, b, twice) \/ TakeDuplicate(w, b, twice)
        \/ TakeLocked(w, b, twice)

Reserve(w) ==
    \E s \in LegoSets : ReserveRefused(w, s) \/ ReserveGranted(w, s)

Advance(w) ==
    \/ Reserve(w) \/ RefreshOk(w) \/ RefreshFails(w)
    \/ CommitBatch(w) \/ BatchRaises(w) \/ Release(w) \/ Retry(w)

Next ==
    \/ \E b \in Batches : Dispatch(b)
    \/ \E w \in Workers : Take(w) \/ Advance(w) \/ Crash(w)
    \/ Tick

Spec == Init /\ [][Next]_vars

\* Workers go on and time passes; after MaxFailures nothing fails any more.
FairSpec ==
    /\ Spec
    /\ WF_vars(Tick)
    /\ \A w \in Workers : WF_vars(Take(w)) /\ WF_vars(Advance(w))

-----------------------------------------------------------------------------
(* Properties. *)

\* Every variable stays within its type.
TypeOK ==
    /\ queue \in [Messages -> Nat]
    /\ lock \in [Batches -> 0..LockTtl]
    /\ quota \in 0..HourlyLimit
    /\ left \in 1..TicksPerHour
    /\ pc \in [Workers -> {"idle", "refreshing", "calling", "committed",
                           "raised", "released"}]
    /\ batch \in [Workers -> SUBSET LegoSets]
    /\ todo \in [Workers -> SUBSET LegoSets]
    /\ done \in [Workers -> SUBSET LegoSets]
    /\ failed \in [Workers -> SUBSET LegoSets]
    /\ owed \subseteq LegoSets
    /\ dispatches \in Nat
    /\ duplicates \in Nat
    /\ failures \in Nat /\ harmed \in BOOLEAN

\* No two workers run the same batch at the same time, although messages are
\* delivered twice, batches come back as retries, workers die and leave their
\* lock to expire, and the lock is deleted without a look at its owner.
OneRunPerBatch ==
    \A v, w \in Workers :
        HoldsLock(v) /\ HoldsLock(w) /\ batch[v] = batch[w] => v = w

\* A worker accounts for s: it will refresh it or queue it again.
Pending(w, s) ==
    \/ pc[w] \in {"refreshing", "calling"} /\ s \in batch[w]
    \/ pc[w] \in {"committed", "released"} /\ s \in failed[w]

\* The set is in a message or with a worker.
Traced(s) ==
    \/ \E m \in Messages : s \in m[1] /\ queue[m] > 0
    \/ \E w \in Workers : Pending(w, s)

\* A set that was dispatched and not refreshed since is in a message or with
\* a worker: dropping a message as a duplicate never drops the last trace of
\* a set, and a partial failure retries all that failed.  (A worker that dies
\* loses its message, and a lock that stays drops the retries.)
NothingForgotten ==
    ~harmed => \A s \in owed : Traced(s)

\* A batch runs by itself and to the last of its sets.
BatchesAreKept == OneRunPerBatch /\ NothingForgotten

\* What was dispatched is refreshed in the end, if no worker dies.
OwedIsRefreshed == \A s \in LegoSets : s \in owed ~> s \notin owed \/ harmed

=============================================================================
