---------------------------- MODULE WorkerProofs ----------------------------
(***************************************************************************)
(* What the background worker does: BatchesAreKept of WatchlistJobs, for   *)
(* any sets, workers, quota, delays and bounds; OptOutHolds and            *)
(* MarksMatchMails of EmailDigests, for any users, alerts, owners,         *)
(* deliveries, and any number of changed settings and failures.            *)
(***************************************************************************)
EXTENDS WatchlistJobs, EmailDigests, TLAPS
-----------------------------------------------------------------------------
(* WatchlistJobs.  Two facts carry it.  A worker that has not released its *)
(* batch has a lock that has not expired, so the lock it would take from   *)
(* another is not free.  And as long as no worker has died and no release  *)
(* has failed, a lock that is not free has such a worker, which accounts   *)
(* for whatever a message dropped at that lock was about.                  *)

\* What a worker has of its batch: disjoint parts of it, which make it up
\* except while a set is with the provider.
PartsInv(w) ==
    /\ todo[w] \cup done[w] \cup failed[w] \subseteq batch[w]
    /\ pc[w] = "idle" => batch[w] = {}
    /\ pc[w] \in {"refreshing", "committed", "released"} =>
           batch[w] \subseteq todo[w] \cup done[w] \cup failed[w]
    /\ pc[w] \in {"committed", "released"} => todo[w] = {}

\* A batch that is held is a batch, its lock is set, and if it was raised the
\* whole of it is queued already.
HeldInv(w) ==
    /\ HoldsLock(w) => batch[w] \in Batches /\ lock[batch[w]] > 0
    /\ pc[w] = "raised" => queue[<<batch[w], TicksPerHour>>] > 0

\* Nothing but a worker, or a harm done to one, keeps a lock from being free.
LockInv ==
    ~harmed => \A b \in Batches : lock[b] > 0 =>
                   \E w \in Workers : HoldsLock(w) /\ batch[w] = b

Inv ==
    /\ TypeOK
    /\ \A w \in Workers : PartsInv(w) /\ HeldInv(w)
    /\ LockInv
    /\ OneRunPerBatch
    /\ NothingForgotten

-----------------------------------------------------------------------------
\* The countdowns are those of a message that is due and of a retry.
LEMMA Delays == 0 \in Countdowns /\ TicksPerHour \in Countdowns /\ TicksPerHour # 0
BY HourIsPositive DEF Countdowns

\* Initially nothing is dispatched, locked or under way.
LEMMA InitInv == Init => Inv
<1> SUFFICES ASSUME Init PROVE Inv
  OBVIOUS
<1> USE DEF Init
<1>1. TypeOK
  <2>1. quota \in 0..HourlyLimit /\ left \in 1..TicksPerHour /\ 0 \in 0..LockTtl
    BY LimitIsPositive, HourIsPositive, TtlExceedsDelay
  <2> QED
    BY <2>1 DEF TypeOK
<1>2. \A w \in Workers : PartsInv(w) /\ HeldInv(w)
  BY DEF PartsInv, HeldInv, HoldsLock
<1>3. LockInv /\ OneRunPerBatch /\ NothingForgotten
  BY DEF LockInv, OneRunPerBatch, NothingForgotten, HoldsLock
<1> QED
  BY <1>1, <1>2, <1>3 DEF Inv

\* A received message leaves its own place in the queue only, and what is
\* queued in its stead arrives.
LEMMA Received ==
    ASSUME TypeOK, NEW w \in Workers, NEW b \in Batches, NEW twice \in BOOLEAN,
           NEW afterwards \in [Messages -> Nat],
           Receive(w, b, twice, afterwards)
    PROVE  /\ queue' \in [Messages -> Nat]
           /\ duplicates' \in Nat
           /\ \A m \in Messages :
                  m # <<b, 0>> /\ (queue[m] > 0 \/ afterwards[m] > 0) => queue'[m] > 0
<1> DEFINE Rest(m) == queue[m] + afterwards[m] - (IF m = <<b, 0>> /\ ~twice THEN 1 ELSE 0)
<1>1. queue \in [Messages -> Nat] /\ queue[<<b, 0>>] > 0
  BY DEF Receive, TypeOK
<1>2. queue' = [m \in Messages |-> Rest(m)]
  BY DEF Receive
<1>3. \A m \in Messages :
          Rest(m) \in Nat /\ (m # <<b, 0>> => Rest(m) = queue[m] + afterwards[m])
  <2> SUFFICES ASSUME NEW m \in Messages
               PROVE  Rest(m) \in Nat /\ (m # <<b, 0>> => Rest(m) = queue[m] + afterwards[m])
    OBVIOUS
  <2>1. queue[m] \in Nat /\ afterwards[m] \in Nat
    BY <1>1
  <2>2. CASE m = <<b, 0>>
    BY <1>1, <2>1, <2>2
  <2>3. CASE m # <<b, 0>>
    BY <2>1, <2>3
  <2> QED
    BY <2>2, <2>3
<1> HIDE DEF Rest
<1>4. queue' \in [Messages -> Nat]
  BY <1>2, <1>3
<1>5. duplicates' \in Nat
  BY DEF Receive, TypeOK
<1>6. \A m \in Messages :
          m # <<b, 0>> /\ (queue[m] > 0 \/ afterwards[m] > 0) => queue'[m] > 0
  BY <1>1, <1>2, <1>3
<1> QED
  BY <1>4, <1>5, <1>6

\* One more message.
LEMMA Queued ==
    ASSUME TypeOK, NEW e \in Messages, queue' = [queue EXCEPT ![e] = @ + 1]
    PROVE  /\ queue' \in [Messages -> Nat]
           /\ queue'[e] > 0
           /\ \A m \in Messages : queue[m] > 0 => queue'[m] > 0
BY DEF TypeOK

-----------------------------------------------------------------------------
(* The queue. *)

\* A worker that waits takes no part in the properties.
LEMMA DispatchInv ==
    ASSUME Inv, NEW b \in Batches, Dispatch(b)
    PROVE  Inv'
<1> DEFINE e == <<b, 0>>
<1>1. e \in Messages
  BY Delays DEF Messages
<1>2. /\ queue' \in [Messages -> Nat]
      /\ queue'[e] > 0
      /\ \A m \in Messages : queue[m] > 0 => queue'[m] > 0
  BY <1>1, Queued DEF Dispatch, Inv
<1> USE DEF Dispatch, NoFailure, rate, work
<1>3. TypeOK'
  <2>1. b \subseteq LegoSets
    BY DEF Batches
  <2> QED
    BY <1>2, <2>1 DEF Inv, TypeOK
<1>4. \A w \in Workers : PartsInv(w)' /\ HeldInv(w)'
  BY <1>2, Delays DEF Inv, PartsInv, HeldInv, HoldsLock, Messages
<1>5. LockInv' /\ OneRunPerBatch'
  BY DEF Inv, LockInv, OneRunPerBatch, HoldsLock
<1>6. NothingForgotten'
  <2> SUFFICES ASSUME ~harmed, NEW s \in owed' PROVE Traced(s)'
    BY DEF NothingForgotten
  <2>1. CASE s \in b
    BY <1>1, <1>2, <2>1 DEF Traced
  <2>2. CASE s \notin b
    BY <1>2, <2>2 DEF Inv, NothingForgotten, Traced, Pending
  <2> QED
    BY <2>1, <2>2
<1> QED
  BY <1>3, <1>4, <1>5, <1>6 DEF Inv

\* Without Redis the message comes back.
LEMMA TakeUnavailableInv ==
    ASSUME Inv, NEW w \in Workers, NEW b \in Batches, NEW twice \in BOOLEAN,
           TakeUnavailable(w, b, twice)
    PROVE  Inv'
<1> DEFINE e == <<b, TicksPerHour>>
<1>1. e \in Messages /\ e # <<b, 0>>
  BY Delays DEF Messages
<1>2. RetryOf(b) \in [Messages -> Nat] /\ RetryOf(b)[e] > 0
  BY <1>1 DEF RetryOf, Nothing
<1>3. /\ queue' \in [Messages -> Nat]
      /\ duplicates' \in Nat
      /\ \A m \in Messages :
             m # <<b, 0>> /\ (queue[m] > 0 \/ RetryOf(b)[m] > 0) => queue'[m] > 0
  <2> TypeOK /\ Receive(w, b, twice, RetryOf(b))
    BY DEF Inv, TakeUnavailable
  <2> QED
    BY <1>2, Received
<1> USE DEF TakeUnavailable, Receive, Failure, rate, work
<1>4. TypeOK'
  BY <1>3 DEF Inv, TypeOK
<1>5. \A v \in Workers : PartsInv(v)' /\ HeldInv(v)'
  <2>1. \A v \in Workers : pc[v] = "raised" =>
            <<batch[v], TicksPerHour>> \in Messages /\ <<batch[v], TicksPerHour>> # <<b, 0>>
    BY Delays DEF Inv, HeldInv, HoldsLock, Messages
  <2> QED
    BY <1>3, <2>1 DEF Inv, PartsInv, HeldInv, HoldsLock
<1>6. LockInv' /\ OneRunPerBatch'
  BY DEF Inv, LockInv, OneRunPerBatch, HoldsLock
<1>7. NothingForgotten'
  <2> SUFFICES ASSUME ~harmed, NEW s \in owed PROVE Traced(s)'
    BY DEF NothingForgotten
  <2>1. CASE s \in b
    <3>1. queue'[e] > 0
      BY <1>1, <1>2, <1>3
    <3> QED
      BY <1>1, <2>1, <3>1 DEF Traced
  <2>2. CASE s \notin b
    <3>1. \A m \in Messages : s \in m[1] => m # <<b, 0>>
      BY <2>2
    <3> QED
      BY <1>3, <3>1 DEF Inv, NothingForgotten, Traced, Pending
  <2> QED
    BY <2>1, <2>2
<1> QED
  BY <1>4, <1>5, <1>6, <1>7 DEF Inv

\* Receiving a message that asks for no retry.
LEMMA Dropped ==
    ASSUME TypeOK, NEW w \in Workers, NEW b \in Batches, NEW twice \in BOOLEAN,
           Receive(w, b, twice, Nothing)
    PROVE  /\ queue' \in [Messages -> Nat]
           /\ duplicates' \in Nat
           /\ \A m \in Messages : m # <<b, 0>> /\ queue[m] > 0 => queue'[m] > 0
<1>1. Nothing \in [Messages -> Nat]
  BY DEF Nothing
<1> QED
  BY <1>1, Received

\* Whatever is dropped at a lock is with its holder.
LEMMA TakeDuplicateInv ==
    ASSUME Inv, NEW w \in Workers, NEW b \in Batches, NEW twice \in BOOLEAN,
           TakeDuplicate(w, b, twice)
    PROVE  Inv'
<1>1. /\ queue' \in [Messages -> Nat]
      /\ duplicates' \in Nat
      /\ \A m \in Messages : m # <<b, 0>> /\ queue[m] > 0 => queue'[m] > 0
  BY Dropped DEF Inv, TakeDuplicate
<1>2. \A v \in Workers : pc[v] = "raised" =>
          /\ <<batch[v], TicksPerHour>> \in Messages
          /\ queue'[<<batch[v], TicksPerHour>>] > 0
  BY <1>1, Delays DEF Inv, HeldInv, HoldsLock, Messages
<1> USE DEF TakeDuplicate, Receive, NoFailure, rate, work
<1>3. TypeOK'
  BY <1>1 DEF Inv, TypeOK
<1>4. \A v \in Workers : PartsInv(v)' /\ HeldInv(v)'
  BY <1>2 DEF Inv, PartsInv, HeldInv, HoldsLock
<1>5. LockInv' /\ OneRunPerBatch'
  BY DEF Inv, LockInv, OneRunPerBatch, HoldsLock
<1>6. NothingForgotten'
  <2> SUFFICES ASSUME ~harmed, NEW s \in owed' PROVE Traced(s)'
    BY DEF NothingForgotten
  <2>1. CASE s \in b
    <3>1. PICK v \in Workers : HoldsLock(v) /\ batch[v] = b
      BY DEF Inv, LockInv
    <3>2. CASE pc[v] \in {"refreshing", "calling"}
      BY <2>1, <3>1, <3>2 DEF Traced, Pending
    <3>3. CASE pc[v] = "committed"
      <4>1. s \notin done[v] /\ s \in done[v] \cup failed[v]
        BY <2>1, <3>1, <3>3 DEF Inv, PartsInv
      <4> QED
        BY <3>3, <4>1 DEF Traced, Pending
    <3>4. CASE pc[v] = "raised"
      BY <1>2, <2>1, <3>1, <3>4 DEF Traced
    <3> QED
      BY <3>1, <3>2, <3>3, <3>4 DEF HoldsLock
  <2>2. CASE s \notin b
    <3>1. \A m \in Messages : s \in m[1] => m # <<b, 0>>
      BY <2>2
    <3> QED
      BY <1>1, <3>1 DEF Inv, NothingForgotten, Traced, Pending
  <2> QED
    BY <2>1, <2>2
<1> QED
  BY <1>3, <1>4, <1>5, <1>6 DEF Inv

\* Only a lock that is free is taken, and nobody who runs has a free one.
LEMMA TakeLockedInv ==
    ASSUME Inv, NEW w \in Workers, NEW b \in Batches, NEW twice \in BOOLEAN,
           TakeLocked(w, b, twice)
    PROVE  Inv'
<1>1. /\ queue' \in [Messages -> Nat]
      /\ duplicates' \in Nat
      /\ \A m \in Messages : m # <<b, 0>> /\ queue[m] > 0 => queue'[m] > 0
  BY Dropped DEF Inv, TakeLocked
<1>2. \A v \in Workers : pc[v] = "raised" =>
          /\ <<batch[v], TicksPerHour>> \in Messages
          /\ queue'[<<batch[v], TicksPerHour>>] > 0
  BY <1>1, Delays DEF Inv, HeldInv, HoldsLock, Messages
<1>3. /\ pc' = [pc EXCEPT ![w] = "refreshing"] /\ pc[w] = "idle"
      /\ batch' = [batch EXCEPT ![w] = b] /\ todo' = [todo EXCEPT ![w] = b]
      /\ lock' = [lock EXCEPT ![b] = LockTtl] /\ lock[b] = 0 /\ LockTtl > 0
      /\ UNCHANGED <<done, failed, owed, failures, harmed, quota, left, dispatches>>
  BY TtlExceedsDelay, HourIsPositive DEF TakeLocked, Receive, NoFailure, rate
<1>4. TypeOK'
  <2>1. b \subseteq LegoSets /\ LockTtl \in 0..LockTtl
    BY TtlExceedsDelay DEF Batches
  <2> QED
    BY <1>1, <1>3, <2>1 DEF Inv, TypeOK
<1>5. \A v \in Workers : HoldsLock(v) => batch[v] # b
  <2> SUFFICES ASSUME NEW v \in Workers, HoldsLock(v) PROVE batch[v] # b
    OBVIOUS
  <2>1. lock[batch[v]] > 0
    BY DEF Inv, HeldInv
  <2> QED
    BY <1>3, <2>1
<1>6. \A v \in Workers : PartsInv(v)' /\ HeldInv(v)'
  <2> SUFFICES ASSUME NEW v \in Workers PROVE PartsInv(v)' /\ HeldInv(v)'
    OBVIOUS
  <2>1. CASE v = w
    <3>1. done[w] = {} /\ failed[w] = {}
      BY <1>3 DEF Inv, PartsInv
    <3>2. pc'[w] = "refreshing" /\ batch'[w] = b /\ todo'[w] = b /\ lock'[b] > 0
      BY <1>3 DEF Inv, TypeOK
    <3> QED
      BY <1>3, <2>1, <3>1, <3>2 DEF PartsInv, HeldInv, HoldsLock
  <2>2. CASE v # w
    <3>1. pc'[v] = pc[v] /\ batch'[v] = batch[v] /\ todo'[v] = todo[v]
      BY <1>3, <2>2 DEF Inv, TypeOK
    <3>2. HoldsLock(v) => lock'[batch[v]] = lock[batch[v]]
      BY <1>3, <1>5 DEF Inv, TypeOK, HeldInv
    <3> QED
      BY <1>2, <1>3, <3>1, <3>2 DEF Inv, PartsInv, HeldInv, HoldsLock
  <2> QED
    BY <2>1, <2>2
<1>7. LockInv'
  BY <1>3 DEF Inv, TypeOK, LockInv, HoldsLock
<1>8. OneRunPerBatch'
  BY <1>3, <1>5 DEF Inv, TypeOK, OneRunPerBatch, HoldsLock
<1>9. NothingForgotten'
  <2> SUFFICES ASSUME ~harmed, NEW s \in owed PROVE Traced(s)'
    BY <1>3 DEF NothingForgotten
  <2>1. CASE s \in b
    BY <1>3, <2>1 DEF Inv, TypeOK, Traced, Pending
  <2>2. CASE s \notin b
    <3>1. \A m \in Messages : s \in m[1] => m # <<b, 0>>
      BY <2>2
    <3>2. \A v \in Workers : Pending(v, s) => v # w /\ Pending(v, s)'
      BY <1>3 DEF Inv, TypeOK, Pending
    <3> QED
      BY <1>1, <3>1, <3>2 DEF Inv, NothingForgotten, Traced
  <2> QED
    BY <2>1, <2>2
<1> QED
  BY <1>4, <1>6, <1>7, <1>8, <1>9 DEF Inv

-----------------------------------------------------------------------------
(* The run of a batch. *)

\* A step of worker w within its run: it keeps its batch and its lock.
LEMMA Progressed ==
    ASSUME Inv, TypeOK', NEW w \in Workers,
           UNCHANGED <<queue, lock, batch>>, harmed' = harmed, owed' \subseteq owed,
           \A v \in Workers \ {w} :
               /\ pc'[v] = pc[v] /\ todo'[v] = todo[v]
               /\ done'[v] = done[v] /\ failed'[v] = failed[v],
           HoldsLock(w), HoldsLock(w)', pc'[w] # "raised", PartsInv(w)',
           \A s \in owed' : Pending(w, s) => Pending(w, s)'
    PROVE  Inv'
<1>1. \A v \in Workers : PartsInv(v)'
  BY DEF Inv, PartsInv
<1>2. \A v \in Workers : HeldInv(v)'
  BY DEF Inv, HeldInv, HoldsLock
<1>3. \A v \in Workers : HoldsLock(v)' <=> HoldsLock(v)
  BY DEF HoldsLock
<1>4. LockInv' /\ OneRunPerBatch'
  BY <1>3 DEF Inv, LockInv, OneRunPerBatch
<1>5. NothingForgotten'
  <2>1. \A v \in Workers, s \in owed' : Pending(v, s) => Pending(v, s)'
    BY DEF Pending
  <2> QED
    BY <2>1 DEF Inv, NothingForgotten, Traced
<1> QED
  BY <1>1, <1>2, <1>4, <1>5 DEF Inv

\* Without a place in the quota the set is left to a retry.
LEMMA ReserveRefusedInv ==
    ASSUME Inv, NEW w \in Workers, NEW s \in LegoSets, ReserveRefused(w, s)
    PROVE  Inv'
<1> USE DEF ReserveRefused, Failure, NoFailure, rate
<1>1. TypeOK'
  BY DEF Inv, TypeOK
<1>2. PartsInv(w)'
  BY DEF Inv, TypeOK, PartsInv
<1> QED
  BY <1>1, <1>2, Progressed DEF Inv, TypeOK, HoldsLock, Pending

\* With a place in the quota the provider is called.
LEMMA ReserveGrantedInv ==
    ASSUME Inv, NEW w \in Workers, NEW s \in LegoSets, ReserveGranted(w, s)
    PROVE  Inv'
<1> USE DEF ReserveGranted, NoFailure
<1>1. TypeOK'
  <2>1. quota' \in 0..HourlyLimit
    BY LimitIsPositive DEF Granted, Inv, TypeOK
  <2> QED
    BY <2>1 DEF Inv, TypeOK
<1>2. PartsInv(w)'
  BY DEF Inv, TypeOK, PartsInv
<1> QED
  BY <1>1, <1>2, Progressed DEF Inv, TypeOK, HoldsLock, Pending

\* A set that is refreshed is owed no more.
LEMMA RefreshOkInv ==
    ASSUME Inv, NEW w \in Workers, RefreshOk(w)
    PROVE  Inv'
<1> USE DEF RefreshOk, NoFailure, rate
<1>1. TypeOK'
  BY DEF Inv, TypeOK, Current
<1>2. PartsInv(w)'
  BY DEF Inv, TypeOK, PartsInv, Current
<1> QED
  BY <1>1, <1>2, Progressed DEF Inv, TypeOK, HoldsLock, Pending

\* A set that fails is retried.
LEMMA RefreshFailsInv ==
    ASSUME Inv, NEW w \in Workers, RefreshFails(w)
    PROVE  Inv'
<1> USE DEF RefreshFails, Failure, rate
<1>1. TypeOK'
  BY DEF Inv, TypeOK, Current
<1>2. PartsInv(w)'
  BY DEF Inv, TypeOK, PartsInv, Current
<1> QED
  BY <1>1, <1>2, Progressed DEF Inv, TypeOK, HoldsLock, Pending

\* What the commit does not refresh has failed, and stays with the worker.
LEMMA CommitBatchInv ==
    ASSUME Inv, NEW w \in Workers, CommitBatch(w)
    PROVE  Inv'
<1> USE DEF CommitBatch, NoFailure, rate
<1>1. TypeOK'
  BY DEF Inv, TypeOK
<1>2. PartsInv(w)'
  BY DEF Inv, TypeOK, PartsInv
<1>3. \A s \in owed' : Pending(w, s) => Pending(w, s)'
  BY DEF Inv, TypeOK, PartsInv, Pending
<1> QED
  BY <1>1, <1>2, <1>3, Progressed DEF Inv, TypeOK, HoldsLock

\* The batch is queued again as a whole.
LEMMA BatchRaisesInv ==
    ASSUME Inv, NEW w \in Workers, BatchRaises(w)
    PROVE  Inv'
<1> DEFINE e == <<batch[w], TicksPerHour>>
<1>1. e \in Messages
  BY Delays DEF Messages, BatchRaises, Inv, HeldInv, HoldsLock
<1>2. /\ queue' \in [Messages -> Nat]
      /\ queue'[e] > 0
      /\ \A m \in Messages : queue[m] > 0 => queue'[m] > 0
  BY <1>1, Queued DEF BatchRaises, Inv
<1>3. /\ pc' = [pc EXCEPT ![w] = "raised"] /\ pc[w] = "refreshing"
      /\ UNCHANGED <<lock, batch, todo, done, failed, owed, harmed>>
  BY DEF BatchRaises, Failure
<1>4. TypeOK'
  BY <1>2 DEF BatchRaises, Failure, rate, Inv, TypeOK
<1>5. \A v \in Workers : PartsInv(v)'
  BY <1>3 DEF Inv, TypeOK, PartsInv
<1>6. \A v \in Workers : HeldInv(v)'
  <2> SUFFICES ASSUME NEW v \in Workers PROVE HeldInv(v)'
    OBVIOUS
  <2>1. CASE v = w
    BY <1>2, <1>3, <2>1 DEF Inv, TypeOK, HeldInv, HoldsLock
  <2>2. CASE v # w
    <3>1. pc'[v] = pc[v]
      BY <1>3, <2>2 DEF Inv, TypeOK
    <3>2. pc[v] = "raised" => <<batch[v], TicksPerHour>> \in Messages
      BY Delays DEF Messages, Inv, HeldInv, HoldsLock
    <3> QED
      BY <1>2, <1>3, <3>1, <3>2 DEF Inv, HeldInv, HoldsLock
  <2> QED
    BY <2>1, <2>2
<1>7. \A v \in Workers : HoldsLock(v)' <=> HoldsLock(v)
  BY <1>3 DEF Inv, TypeOK, HoldsLock
<1>8. LockInv' /\ OneRunPerBatch'
  BY <1>3, <1>7 DEF Inv, LockInv, OneRunPerBatch
<1>9. NothingForgotten'
  <2> SUFFICES ASSUME ~harmed, NEW s \in owed PROVE Traced(s)'
    BY <1>3 DEF NothingForgotten
  <2>1. CASE s \in batch[w]
    BY <1>1, <1>2, <2>1 DEF Traced
  <2>2. CASE s \notin batch[w]
    <3>1. \A v \in Workers : Pending(v, s) => Pending(v, s)'
      BY <1>3, <2>2 DEF Inv, TypeOK, Pending
    <3> QED
      BY <1>2, <3>1 DEF Inv, NothingForgotten, Traced
  <2> QED
    BY <2>1, <2>2
<1> QED
  BY <1>4, <1>5, <1>6, <1>8, <1>9 DEF Inv

-----------------------------------------------------------------------------
(* The end of a batch. *)

\* The lock that is deleted is the worker's own: no other worker loses one.
LEMMA ReleaseInv ==
    ASSUME Inv, NEW w \in Workers, Release(w)
    PROVE  Inv'
<1>1. /\ pc[w] \in {"committed", "raised"}
      /\ pc' = [pc EXCEPT ![w] = IF pc[w] = "raised" THEN "idle" ELSE "released"]
      /\ \A v \in Workers : v # w \/ pc[w] = "committed" =>
             /\ batch'[v] = batch[v] /\ todo'[v] = todo[v]
             /\ done'[v] = done[v] /\ failed'[v] = failed[v]
      /\ UNCHANGED <<queue, owed>>
  BY DEF Release, Idle, Inv, TypeOK
<1>2. \/ lock' = [lock EXCEPT ![batch[w]] = 0] /\ harmed' = harmed
      \/ lock' = lock /\ harmed'
  BY DEF Release, NoFailure, Harm
<1>3. batch[w] \in Batches
  BY <1>1 DEF Inv, HeldInv, HoldsLock
<1>4. TypeOK'
  <2>1. /\ pc' \in [Workers -> {"idle", "refreshing", "calling", "committed",
                               "raised", "released"}]
        /\ batch' \in [Workers -> SUBSET LegoSets]
        /\ todo' \in [Workers -> SUBSET LegoSets]
        /\ done' \in [Workers -> SUBSET LegoSets]
        /\ failed' \in [Workers -> SUBSET LegoSets]
    BY DEF Release, Idle, Inv, TypeOK
  <2>2. lock' \in [Batches -> 0..LockTtl] /\ harmed' \in BOOLEAN /\ failures' \in Nat
    <3>1. 0 \in 0..LockTtl
      BY TtlExceedsDelay
    <3>2. lock' \in [Batches -> 0..LockTtl]
      BY <1>2, <3>1 DEF Inv, TypeOK
    <3>3. harmed \in BOOLEAN /\ failures \in Nat
      BY DEF Inv, TypeOK
    <3>4. NoFailure \/ Harm
      BY DEF Release
    <3>5. harmed' \in BOOLEAN
      BY <3>3, <3>4, Zenon DEF NoFailure, Harm
    <3>6. failures' \in Nat
      BY <3>3, <3>4 DEF NoFailure, Harm
    <3> QED
      BY <3>2, <3>5, <3>6
  <2> QED
    BY <2>1, <2>2 DEF Release, rate, Inv, TypeOK
<1>5. \A v \in Workers : HoldsLock(v)' <=> v # w /\ HoldsLock(v)
  BY <1>1 DEF Inv, TypeOK, HoldsLock
<1>6. \A v \in Workers : HoldsLock(v) /\ v # w =>
          batch[v] # batch[w] /\ batch'[v] = batch[v] /\ lock'[batch[v]] = lock[batch[v]]
  BY <1>1, <1>2, <1>3 DEF Inv, TypeOK, OneRunPerBatch, HeldInv, HoldsLock
<1>7. \A v \in Workers : PartsInv(v)' /\ HeldInv(v)'
  <2> SUFFICES ASSUME NEW v \in Workers PROVE PartsInv(v)' /\ HeldInv(v)'
    OBVIOUS
  <2>1. CASE v = w
    <3>1. PartsInv(w)'
      BY <1>1 DEF Release, Idle, Inv, TypeOK, PartsInv
    <3> QED
      BY <1>1, <1>5, <2>1, <3>1 DEF HeldInv, Inv, TypeOK
  <2>2. CASE v # w
    <3>1. pc'[v] = pc[v]
      BY <1>1, <2>2 DEF Inv, TypeOK
    <3> QED
      BY <1>1, <1>5, <1>6, <2>2, <3>1 DEF Inv, PartsInv, HeldInv, HoldsLock
  <2> QED
    BY <2>1, <2>2
<1>8. LockInv'
  <2> SUFFICES ASSUME ~harmed', NEW b \in Batches, lock'[b] > 0
               PROVE  \E v \in Workers : HoldsLock(v)' /\ batch'[v] = b
    BY DEF LockInv
  <2>1. ~harmed /\ lock[b] > 0 /\ b # batch[w]
    BY <1>2, <1>3 DEF Inv, TypeOK
  <2>2. PICK v \in Workers : HoldsLock(v) /\ batch[v] = b
    BY <2>1 DEF Inv, LockInv
  <2> QED
    BY <1>5, <1>6, <2>1, <2>2
<1>9. OneRunPerBatch'
  BY <1>5, <1>6 DEF Inv, OneRunPerBatch
<1>10. NothingForgotten'
  <2> SUFFICES ASSUME ~harmed', NEW s \in owed PROVE Traced(s)'
    BY <1>1 DEF NothingForgotten
  <2>1. ~harmed
    BY <1>2
  <2>2. \A v \in Workers : Pending(v, s) => Pending(v, s)'
    BY <1>1 DEF Inv, TypeOK, Pending
  <2> QED
    BY <1>1, <2>1, <2>2 DEF Inv, NothingForgotten, Traced
<1> QED
  BY <1>4, <1>7, <1>8, <1>9, <1>10 DEF Inv

\* A worker that gives its batch up, to wait for another.
LEMMA Waiting ==
    ASSUME Inv, NEW w \in Workers, Idle(w), lock' = lock
    PROVE  /\ pc' \in [Workers -> {"idle", "refreshing", "calling", "committed",
                                   "raised", "released"}]
           /\ batch' \in [Workers -> SUBSET LegoSets]
           /\ todo' \in [Workers -> SUBSET LegoSets]
           /\ done' \in [Workers -> SUBSET LegoSets]
           /\ failed' \in [Workers -> SUBSET LegoSets]
           /\ \A v \in Workers : PartsInv(v)'
           /\ \A v \in Workers : HoldsLock(v)' <=> v # w /\ HoldsLock(v)
           /\ \A v \in Workers \ {w} : pc'[v] = pc[v] /\ batch'[v] = batch[v]
           /\ \A v \in Workers, s \in LegoSets : Pending(v, s) /\ v # w => Pending(v, s)'
           /\ OneRunPerBatch'
<1>1. /\ pc' \in [Workers -> {"idle", "refreshing", "calling", "committed",
                             "raised", "released"}]
      /\ batch' \in [Workers -> SUBSET LegoSets]
      /\ todo' \in [Workers -> SUBSET LegoSets]
      /\ done' \in [Workers -> SUBSET LegoSets]
      /\ failed' \in [Workers -> SUBSET LegoSets]
  BY DEF Idle, Inv, TypeOK
<1>2. /\ pc'[w] = "idle" /\ batch'[w] = {}
      /\ todo'[w] = {} /\ done'[w] = {} /\ failed'[w] = {}
      /\ \A v \in Workers \ {w} :
             /\ pc'[v] = pc[v] /\ batch'[v] = batch[v] /\ todo'[v] = todo[v]
             /\ done'[v] = done[v] /\ failed'[v] = failed[v]
  BY DEF Idle, Inv, TypeOK
<1>3. \A v \in Workers : PartsInv(v)'
  BY <1>2 DEF Inv, PartsInv
<1>4. \A v \in Workers : HoldsLock(v)' <=> v # w /\ HoldsLock(v)
  BY <1>2 DEF HoldsLock
<1>5. \A v \in Workers, s \in LegoSets : Pending(v, s) /\ v # w => Pending(v, s)'
  BY <1>2 DEF Pending
<1>6. OneRunPerBatch'
  BY <1>2, <1>4 DEF Inv, OneRunPerBatch
<1> QED
  BY <1>1, <1>2, <1>3, <1>4, <1>5, <1>6

\* Whatever the worker still accounted for is queued again.
LEMMA RetryInv ==
    ASSUME Inv, NEW w \in Workers, Retry(w)
    PROVE  Inv'
<1> DEFINE e == <<failed[w], TicksPerHour>>
<1>1. /\ pc[w] = "released" /\ Idle(w) /\ UNCHANGED <<lock, owed, harmed>>
  BY DEF Retry, NoFailure
<1>2. failed[w] # {} => e \in Messages
  <2>1. failed[w] \in SUBSET LegoSets
    BY DEF Inv, TypeOK
  <2>2. failed[w] \in Batches \/ failed[w] = {}
    BY <2>1 DEF Batches
  <2> QED
    BY <2>2, Delays DEF Messages
<1>3. /\ queue' \in [Messages -> Nat]
      /\ failed[w] # {} => queue'[e] > 0
      /\ \A m \in Messages : queue[m] > 0 => queue'[m] > 0
  <2>1. CASE failed[w] = {}
    BY <2>1 DEF Retry, Inv, TypeOK
  <2>2. CASE failed[w] # {}
    BY <1>2, <2>2, Queued DEF Retry, Inv
  <2> QED
    BY <2>1, <2>2
<1>4. TypeOK'
  BY <1>1, <1>3, Waiting DEF Retry, NoFailure, rate, Inv, TypeOK
<1>5. \A v \in Workers : PartsInv(v)'
  BY <1>1, Waiting
<1>6. \A v \in Workers : HeldInv(v)'
  <2> SUFFICES ASSUME NEW v \in Workers, HoldsLock(v)' PROVE HeldInv(v)'
    BY DEF HeldInv, HoldsLock
  <2>1. v # w /\ HoldsLock(v) /\ pc'[v] = pc[v] /\ batch'[v] = batch[v]
    BY <1>1, Waiting
  <2>2. <<batch[v], TicksPerHour>> \in Messages
    BY <2>1, Delays DEF Inv, HeldInv, Messages
  <2> QED
    BY <1>1, <1>3, <2>1, <2>2 DEF Inv, HeldInv
<1>7. LockInv'
  <2>1. \A v \in Workers : HoldsLock(v) => HoldsLock(v)' /\ batch'[v] = batch[v]
    BY <1>1, Waiting DEF HoldsLock
  <2> QED
    BY <1>1, <2>1 DEF Inv, LockInv
<1>8. OneRunPerBatch'
  BY <1>1, Waiting
<1>9. NothingForgotten'
  <2> SUFFICES ASSUME ~harmed, NEW s \in owed PROVE Traced(s)'
    BY <1>1 DEF NothingForgotten
  <2>1. s \in LegoSets
    BY DEF Inv, TypeOK
  <2>2. CASE s \in failed[w]
    BY <1>2, <1>3, <2>2 DEF Traced
  <2>3. CASE s \notin failed[w]
    <3>1. \A v \in Workers : Pending(v, s) => Pending(v, s)'
      BY <1>1, <2>1, <2>3, Waiting DEF Pending
    <3> QED
      BY <1>3, <3>1 DEF Inv, NothingForgotten, Traced
  <2> QED
    BY <2>2, <2>3
<1> QED
  BY <1>4, <1>5, <1>6, <1>7, <1>8, <1>9 DEF Inv

\* A worker that dies leaves its lock, which keeps duplicates out as before.
LEMMA CrashInv ==
    ASSUME Inv, NEW w \in Workers, Crash(w)
    PROVE  Inv'
<1>1. Idle(w) /\ harmed' /\ UNCHANGED <<queue, lock, owed>>
  BY DEF Crash, Harm
<1>2. TypeOK'
  BY <1>1, Waiting DEF Crash, Harm, rate, Inv, TypeOK
<1>3. \A v \in Workers : PartsInv(v)'
  BY <1>1, Waiting
<1>4. \A v \in Workers : HeldInv(v)'
  <2> SUFFICES ASSUME NEW v \in Workers, HoldsLock(v)' PROVE HeldInv(v)'
    BY DEF HeldInv, HoldsLock
  <2>1. v # w /\ HoldsLock(v) /\ pc'[v] = pc[v] /\ batch'[v] = batch[v]
    BY <1>1, Waiting
  <2> QED
    BY <1>1, <2>1 DEF Inv, HeldInv
<1>5. LockInv' /\ NothingForgotten'
  BY <1>1 DEF LockInv, NothingForgotten
<1>6. OneRunPerBatch'
  BY <1>1, Waiting
<1> QED
  BY <1>2, <1>3, <1>4, <1>5, <1>6 DEF Inv

-----------------------------------------------------------------------------
(* Time. *)

\* What one tick makes of the queue: a message is not lost, only nearer.
LEMMA Nearer ==
    ASSUME Inv, Tick, NEW m \in Messages, queue[m] > 0
    PROVE  \E n \in Messages : n[1] = m[1] /\ queue'[n] > 0
<1> DEFINE Moved(n) == (IF n[2] < TicksPerHour THEN queue[<<n[1], n[2] + 1>>] ELSE 0)
                       + (IF n[2] = 0 THEN queue[n] ELSE 0)
           n == IF m[2] = 0 THEN m ELSE <<m[1], m[2] - 1>>
<1>1. queue' = [k \in Messages |-> Moved(k)]
  BY DEF Tick
<1>2. m[1] \in Batches /\ m[2] \in 0..TicksPerHour /\ m = <<m[1], m[2]>>
  BY DEF Messages, Countdowns
<1>3. n \in Messages /\ n[1] = m[1]
  BY <1>2, HourIsPositive DEF Messages, Countdowns
<1>4. Moved(n) > 0
  <2>1. CASE m[2] = 0
    <3>1. <<m[1], 1>> \in Messages
      BY <1>2, HourIsPositive DEF Messages, Countdowns
    <3>2. queue[<<m[1], 1>>] \in Nat /\ queue[m] \in Nat
      BY <3>1 DEF Inv, TypeOK
    <3>3. Moved(n) = queue[<<m[1], 1>>] + queue[m]
      BY <2>1, HourIsPositive
    <3> QED
      BY <3>2, <3>3
  <2>2. CASE m[2] # 0
    <3>1. n[2] = m[2] - 1 /\ n[2] < TicksPerHour /\ <<n[1], n[2] + 1>> = m
      BY <1>2, <2>2, HourIsPositive
    <3>2. queue[m] \in Nat /\ queue[n] \in Nat
      BY <1>3 DEF Inv, TypeOK
    <3>3. Moved(n) = queue[m] + (IF n[2] = 0 THEN queue[n] ELSE 0)
      BY <3>1
    <3> HIDE DEF Moved, n
    <3> QED
      BY <3>2, <3>3
  <2> QED
    BY <2>1, <2>2
<1> QED
  BY <1>1, <1>3, <1>4

\* No lock of a run expires, and no message but a due one stays where it is.
LEMMA TickInv ==
    ASSUME Inv, Tick
    PROVE  Inv'
<1>1. /\ UNCHANGED <<duplicates, owed, dispatches, failures, harmed>>
      /\ UNCHANGED <<pc, batch, todo, done, failed>>
      /\ lock' = [b \in Batches |-> Aged(b)]
      /\ \A w \in Workers : HoldsLock(w) => lock[batch[w]] > 1
      /\ \A w \in Workers : pc[w] # "raised"
  BY DEF Tick, NoFailure, work, RunsFitTtl, EndsAreShort
<1>2. \A b \in Batches : lock[b] \in 0..LockTtl /\ Aged(b) \in 0..LockTtl
  BY TtlExceedsDelay DEF Inv, TypeOK, Aged
<1>3. TypeOK'
  <2>1. queue' \in [Messages -> Nat]
    <3> DEFINE Moved(n) == (IF n[2] < TicksPerHour THEN queue[<<n[1], n[2] + 1>>] ELSE 0)
                           + (IF n[2] = 0 THEN queue[n] ELSE 0)
    <3>1. queue' = [m \in Messages |-> Moved(m)]
      BY DEF Tick
    <3>2. \A m \in Messages : Moved(m) \in Nat
      <4> SUFFICES ASSUME NEW m \in Messages PROVE Moved(m) \in Nat
        OBVIOUS
      <4>1. queue[m] \in Nat
        BY DEF Inv, TypeOK
      <4>2. m[2] < TicksPerHour => queue[<<m[1], m[2] + 1>>] \in Nat
        <5> SUFFICES ASSUME m[2] < TicksPerHour PROVE <<m[1], m[2] + 1>> \in Messages
          BY DEF Inv, TypeOK
        <5> QED
          BY HourIsPositive DEF Messages, Countdowns
      <4> QED
        BY <4>1, <4>2
    <3> QED
      BY <3>1, <3>2
  <2>2. lock' \in [Batches -> 0..LockTtl]
    BY <1>1, <1>2
  <2>3. quota' \in 0..HourlyLimit /\ left' \in 1..TicksPerHour
    BY LimitIsPositive, HourIsPositive DEF Tick, Inv, TypeOK
  <2> QED
    BY <1>1, <2>1, <2>2, <2>3 DEF Inv, TypeOK
<1>4. \A w \in Workers : PartsInv(w)'
  BY <1>1 DEF Inv, PartsInv
<1>5. \A w \in Workers : HeldInv(w)'
  <2> SUFFICES ASSUME NEW w \in Workers, HoldsLock(w) PROVE lock'[batch[w]] > 0
    BY <1>1 DEF Inv, HeldInv, HoldsLock
  <2>1. batch[w] \in Batches /\ lock[batch[w]] > 1
    BY <1>1 DEF Inv, HeldInv
  <2> QED
    BY <1>1, <1>2, <2>1 DEF Aged
<1>6. LockInv'
  <2>1. \A b \in Batches : lock'[b] > 0 => lock[b] > 0
    BY <1>1, <1>2 DEF Aged
  <2> QED
    BY <1>1, <2>1 DEF Inv, LockInv, HoldsLock
<1>7. OneRunPerBatch'
  BY <1>1 DEF Inv, OneRunPerBatch, HoldsLock
<1>8. NothingForgotten'
  <2> SUFFICES ASSUME ~harmed, NEW s \in owed PROVE Traced(s)'
    BY <1>1 DEF NothingForgotten
  <2>1. CASE \E w \in Workers : Pending(w, s)
    BY <1>1, <2>1 DEF Traced, Pending
  <2>2. CASE \E m \in Messages : s \in m[1] /\ queue[m] > 0
    <3>1. PICK m \in Messages : s \in m[1] /\ queue[m] > 0
      BY <2>2
    <3>2. PICK n \in Messages : n[1] = m[1] /\ queue'[n] > 0
      BY <3>1, Nearer
    <3> QED
      BY <3>1, <3>2 DEF Traced
  <2> QED
    BY <2>1, <2>2 DEF Inv, NothingForgotten, Traced
<1> QED
  BY <1>3, <1>4, <1>5, <1>6, <1>7, <1>8 DEF Inv

-----------------------------------------------------------------------------
(* The theorems. *)

\* Every step keeps the invariant.
LEMMA NextInv == Inv /\ [Next]_vars => Inv'
<1> SUFFICES ASSUME Inv, [Next]_vars PROVE Inv'
  OBVIOUS
<1>1. ASSUME NEW b \in Batches, Dispatch(b) PROVE Inv'
  BY <1>1, DispatchInv
<1>2. ASSUME NEW w \in Workers, Take(w) PROVE Inv'
  BY <1>2, TakeUnavailableInv, TakeDuplicateInv, TakeLockedInv DEF Take
<1>3. ASSUME NEW w \in Workers, Reserve(w) PROVE Inv'
  BY <1>3, ReserveRefusedInv, ReserveGrantedInv DEF Reserve
<1>4. ASSUME NEW w \in Workers, Advance(w) PROVE Inv'
  BY <1>3, <1>4, RefreshOkInv, RefreshFailsInv, CommitBatchInv, BatchRaisesInv,
     ReleaseInv, RetryInv DEF Advance
<1>5. ASSUME NEW w \in Workers, Crash(w) PROVE Inv'
  BY <1>5, CrashInv
<1>6. CASE Tick
  BY <1>6, TickInv
<1>7. CASE UNCHANGED vars
  BY <1>7 DEF vars, Inv, TypeOK, PartsInv, HeldInv, LockInv, OneRunPerBatch,
              NothingForgotten, Traced, Pending, HoldsLock
<1> QED
  BY <1>1, <1>2, <1>4, <1>5, <1>6, <1>7 DEF Next

\* The inductive invariant holds throughout.
THEOREM Invariance == Spec => []Inv
<1> QED
  BY InitInv, NextInv, PTL DEF Spec

\* Every variable of the job model keeps its type: the quota of the hour is
\* never exceeded and no lock outlives its time (_reserve_provider_refresh,
\* _acquire_job_lock).
THEOREM TypeCorrect == Spec => []TypeOK
<1>1. Inv => TypeOK
  BY DEF Inv
<1> QED
  BY <1>1, Invariance, PTL

\* No two workers run the same batch at once, and a set that was dispatched and
\* not refreshed since is in a message or with a worker, unless a worker died
\* or a lock could not be released (refresh_provider_batch).
THEOREM BatchesAreAlwaysKept == Spec => []BatchesAreKept
<1>1. Inv => BatchesAreKept
  BY DEF Inv, BatchesAreKept
<1> QED
  BY <1>1, Invariance, PTL

-----------------------------------------------------------------------------
(* EmailDigests.  A delivery that is alone and meets no failure comes to   *)
(* each user once, and what it has mailed it has marked, or is about to:   *)
(* an alert that is pending and unmarked has been in no mail.              *)

AtUser == {"check", "send", "mark"}

\* What a delivery has of its users and alerts: it is at one user, whose alerts
\* it lists, and has marked alerts of others, which it has mailed.
RunInv(r) ==
    /\ stage[r] = "idle" => ahead[r] = {} /\ marks[r] = {} /\ muted[r] = {}
    /\ stage[r] \notin AtUser => user[r] = {} /\ listed[r] = {}
    /\ stage[r] \in AtUser =>
           \E u \in Users \ ahead[r] : user[r] = {u} /\ listed[r] \subseteq Of(u)
    /\ \A n \in marks[r] : ownerOf[n] \notin ahead[r] \cup user[r] /\ mailed[n] > 0
    /\ stage[r] = "mark" => \A n \in listed[r] : mailed[n] > 0
    /\ \A u \in muted[r] : ~emailOn[u]

\* A delivery of which alert n has been in a mail and which has not committed.
Marking(r, n) == n \in marks[r] \/ (stage[r] = "mark" /\ n \in listed[r])

Undisturbed == ~overlapped /\ mailFailures = 0

\* Without failures and overlaps, a mailed alert is settled or will be by the
\* commit of the only delivery, which has not mailed what it has yet to send.
MailInv ==
    Undisturbed =>
        /\ \A q, r \in Deliveries : stage[q] # "idle" /\ stage[r] # "idle" => q = r
        /\ \A n \in Alerts : mailed[n] > 0 =>
               \/ alert[n] \in {"sent", "muted"}
               \/ \E r \in Deliveries : Marking(r, n)
        /\ \A r \in Deliveries : stage[r] \in {"check", "send"} =>
               \A n \in listed[r] : mailed[n] = 0

DigestInv ==
    /\ DigestTypeOK
    /\ \A r \in Deliveries : RunInv(r)
    /\ OptOutHolds
    /\ SentWasMailed
    /\ MailInv
    /\ MailedOnce

-----------------------------------------------------------------------------
\* Initially there is no alert and no delivery.
LEMMA DigestInitInv == DigestInit => DigestInv
<1> SUFFICES ASSUME DigestInit PROVE DigestInv
  OBVIOUS
<1> USE DEF DigestInit
<1>1. DigestTypeOK
  <2>1. emailOn \in [Users -> BOOLEAN] /\ typeOn \in [Users -> BOOLEAN] /\ overlapped \in BOOLEAN
    BY Zenon
  <2>2. mailed \in [Alerts -> 0..2] /\ toggles \in Nat /\ mailFailures \in Nat
    OBVIOUS
  <2> QED
    BY <2>1, <2>2 DEF DigestTypeOK
<1>2. \A r \in Deliveries : RunInv(r)
  BY DEF RunInv, AtUser
<1>3. OptOutHolds /\ SentWasMailed /\ MailInv /\ MailedOnce
  BY DEF OptOutHolds, SentWasMailed, MailInv, MailedOnce
<1> QED
  BY <1>1, <1>2, <1>3 DEF DigestInv

\* A delivery to which nothing happens keeps its part of the invariant,
\* whatever is mailed or switched off.
LEMMA Elsewhere ==
    ASSUME DigestInv, NEW q \in Deliveries,
           stage'[q] = stage[q], ahead'[q] = ahead[q], user'[q] = user[q], listed'[q] = listed[q],
           marks'[q] = marks[q], muted'[q] \subseteq muted[q], ownerOf' = ownerOf,
           \A n \in Alerts : mailed[n] > 0 => mailed'[n] > 0,
           \A u \in muted'[q] : ~emailOn[u] => ~emailOn'[u]
    PROVE  RunInv(q)'
<1>1. marks[q] \subseteq Alerts /\ listed[q] \subseteq Alerts
  BY DEF DigestInv, DigestTypeOK
<1>2. RunInv(q)
  BY DEF DigestInv
<1> QED
  BY <1>1, <1>2 DEF RunInv, Of

-----------------------------------------------------------------------------
(* Alerts and settings. *)

\* A step that is not a delivery's keeps the deliveries, and settles alerts at
\* most.
LEMMA OutsideInv ==
    ASSUME DigestInv, DigestTypeOK', UNCHANGED run,
           UNCHANGED <<ownerOf, mailed, overlapped, mailFailures>>,
           \A r \in Deliveries : muted'[r] \subseteq muted[r],
           \A r \in Deliveries : \A u \in muted'[r] : ~emailOn[u] => ~emailOn'[u],
           \A n \in Alerts : /\ alert'[n] = "sent" => alert[n] = "sent"
                             /\ alert[n] \in {"sent", "muted"} => alert'[n] = alert[n]
    PROVE  DigestInv'
<1> USE DEF run
<1>1. \A r \in Deliveries : RunInv(r)'
  BY Elsewhere
<1>2. OptOutHolds'
  BY DEF DigestInv, OptOutHolds
<1>3. SentWasMailed' /\ MailedOnce'
  BY DEF DigestInv, SentWasMailed, MailedOnce
<1>4. MailInv'
  BY DEF DigestInv, MailInv, Undisturbed, Marking
<1> QED
  BY <1>1, <1>2, <1>3, <1>4 DEF DigestInv

\* Alerts and switches: a delivery that has looked at a user keeps what it saw.
LEMMA DraftInv ==
    ASSUME DigestInv, NEW n \in Alerts, Draft(n) \/ Publish(n)
    PROVE  DigestInv'
<1>1. DigestTypeOK'
  BY DEF Draft, Publish, run, settings, DigestInv, DigestTypeOK
<1>2. \A m \in Alerts : /\ alert'[m] = "sent" => alert[m] = "sent"
                        /\ alert[m] \in {"sent", "muted"} => alert'[m] = alert[m]
  BY DEF Draft, Publish, DigestInv, DigestTypeOK
<1> QED
  BY <1>1, <1>2, OutsideInv DEF Draft, Publish, settings

\* Disabling what is pending settles it.
LEMMA Disabled ==
    ASSUME DigestTypeOK, NEW u \in Users, Disable(u)
    PROVE  /\ alert' \in [Alerts -> {"none", "drafted", "in_app", "pending", "muted", "sent"}]
           /\ \A n \in Alerts : /\ alert'[n] = "sent" => alert[n] = "sent"
                                /\ alert[n] \in {"sent", "muted"} => alert'[n] = alert[n]
BY DEF Disable, PendingOf, DigestTypeOK

LEMMA UnsubscribeInv ==
    ASSUME DigestInv, NEW u \in Users, Unsubscribe(u)
    PROVE  DigestInv'
<1>1. DigestTypeOK'
  BY Disabled DEF Unsubscribe, Toggle, run, DigestInv, DigestTypeOK
<1>2. \A v \in Users : ~emailOn[v] => ~emailOn'[v]
  BY DEF Unsubscribe, DigestInv, DigestTypeOK
<1>3. \A r \in Deliveries : muted'[r] \subseteq Users
  BY <1>1 DEF DigestTypeOK
<1> QED
  BY <1>1, <1>2, <1>3, Disabled, OutsideInv DEF Unsubscribe, DigestInv

LEMMA SubscribeInv ==
    ASSUME DigestInv, NEW u \in Users, Subscribe(u)
    PROVE  DigestInv'
<1>1. DigestTypeOK'
  BY DEF Subscribe, Toggle, run, DigestInv, DigestTypeOK
<1>2. \A r \in Deliveries : muted'[r] = muted[r] \ {u} /\ muted'[r] \subseteq Users
  BY DEF Subscribe, DigestInv, DigestTypeOK
<1>3. \A r \in Deliveries : \A v \in muted'[r] : ~emailOn[v] => ~emailOn'[v]
  BY <1>2 DEF Subscribe, DigestInv, DigestTypeOK
<1> QED
  BY <1>1, <1>2, <1>3, OutsideInv DEF Subscribe

LEMMA SettingsInv ==
    ASSUME DigestInv, NEW u \in Users, NEW on \in BOOLEAN, SetType(u, on) \/ SetQuiet(u)
    PROVE  DigestInv'
<1>1. /\ alert' \in [Alerts -> {"none", "drafted", "in_app", "pending", "muted", "sent"}]
      /\ \A n \in Alerts : /\ alert'[n] = "sent" => alert[n] = "sent"
                           /\ alert[n] \in {"sent", "muted"} => alert'[n] = alert[n]
  <2>1. Disable(u) \/ alert' = alert
    BY DEF SetType, SetQuiet
  <2> QED
    BY <2>1, Disabled DEF DigestInv, DigestTypeOK
<1>2. typeOn' \in [Users -> BOOLEAN]
  BY DEF SetType, SetQuiet, DigestInv, DigestTypeOK
<1>3. quiet' \subseteq Users
  BY DEF SetType, SetQuiet, DigestInv, DigestTypeOK
<1>4. toggles' \in Nat
  BY DEF SetType, SetQuiet, Toggle, DigestInv, DigestTypeOK
<1>5. UNCHANGED run /\ UNCHANGED <<ownerOf, emailOn, mailed, muted, overlapped, mailFailures>>
  BY DEF SetType, SetQuiet
<1>6. DigestTypeOK'
  BY <1>1, <1>2, <1>3, <1>4, <1>5 DEF run, DigestInv, DigestTypeOK
<1> QED
  BY <1>1, <1>5, <1>6, OutsideInv

-----------------------------------------------------------------------------
(* Deliveries. *)

\* A step of delivery r leaves the others as they are.
LEMMA DeliveriesKept ==
    ASSUME DigestInv, NEW r \in Deliveries, RunInv(r)', UNCHANGED settings,
           \A n \in Alerts : mailed[n] > 0 => mailed'[n] > 0,
           \A q \in Deliveries \ {r} :
               /\ stage'[q] = stage[q] /\ ahead'[q] = ahead[q] /\ user'[q] = user[q]
               /\ listed'[q] = listed[q] /\ marks'[q] = marks[q] /\ muted'[q] = muted[q]
    PROVE  \A q \in Deliveries : RunInv(q)'
<1>1. ASSUME NEW q \in Deliveries \ {r} PROVE RunInv(q)'
  <2>1. muted'[q] \subseteq muted[q] /\ ownerOf' = ownerOf
        /\ \A u \in muted'[q] : ~emailOn[u] => ~emailOn'[u]
    BY DEF settings
  <2> QED
    BY <2>1, Elsewhere
<1> QED
  BY <1>1

\* A delivery begins, alone or not.
LEMMA BeginInv ==
    ASSUME DigestInv, NEW r \in Deliveries, Begin(r)
    PROVE  DigestInv'
<1>1. /\ stage[r] = "idle" /\ stage' = [stage EXCEPT ![r] = "next"]
      /\ ahead' = [ahead EXCEPT ![r] = {u \in Users : PendingOf(u) # {}}]
      /\ muted' = [muted EXCEPT ![r] = {u \in Users : ~emailOn[u]}]
      /\ UNCHANGED <<user, listed, marks, mutes, alert, mailed, toggles, mailFailures>>
      /\ UNCHANGED settings
  BY DEF Begin
<1>2. overlapped' = (overlapped \/ \E q \in Deliveries : stage[q] # "idle")
  BY DEF Begin
<1>3. DigestTypeOK'
  <2>1. overlapped' \in BOOLEAN
    BY <1>2, Zenon
  <2> QED
    BY <1>1, <2>1 DEF settings, DigestInv, DigestTypeOK
<1>4. /\ stage'[r] = "next" /\ muted'[r] = {u \in Users : ~emailOn[u]}
      /\ user[r] = {} /\ listed[r] = {} /\ marks[r] = {}
      /\ \A q \in Deliveries \ {r} :
             stage'[q] = stage[q] /\ ahead'[q] = ahead[q] /\ muted'[q] = muted[q]
  BY <1>1 DEF DigestInv, DigestTypeOK, RunInv, AtUser
<1>5. RunInv(r)'
  BY <1>1, <1>4 DEF settings, RunInv, AtUser
<1>6. \A q \in Deliveries : RunInv(q)'
  BY <1>1, <1>4, <1>5, DeliveriesKept
<1>7. OptOutHolds' /\ SentWasMailed'
  BY <1>1, <1>4 DEF DigestInv, OptOutHolds, SentWasMailed
<1>8. MailInv'
  <2> SUFFICES ASSUME Undisturbed' PROVE MailInv'
    BY DEF MailInv
  <2>1. Undisturbed /\ \A q \in Deliveries : stage[q] = "idle"
    BY <1>1, <1>2 DEF Undisturbed
  <2> QED
    BY <1>1, <1>4, <2>1 DEF DigestInv, MailInv, Marking
<1>9. MailedOnce'
  BY <1>1, <1>2 DEF DigestInv, MailedOnce
<1> QED
  BY <1>3, <1>6, <1>7, <1>8, <1>9 DEF DigestInv

\* What a delivery lists of a user it has not mailed yet, if it is alone.
LEMMA ListInv ==
    ASSUME DigestInv, NEW r \in Deliveries, NEW u \in Users, List(r, u)
    PROVE  DigestInv'
<1>1. /\ stage[r] = "next" /\ u \in ahead[r] /\ ahead' = [ahead EXCEPT ![r] = @ \ {u}]
      /\ UNCHANGED <<marks, mutes, alert, mailed, muted, toggles, mailFailures, overlapped>>
      /\ UNCHANGED settings
  BY DEF List
<1>2. \/ UNCHANGED <<stage, user, listed>>
      \/ /\ stage' = [stage EXCEPT ![r] = "check"]
         /\ user' = [user EXCEPT ![r] = {u}]
         /\ listed' = [listed EXCEPT ![r] = PendingOf(u)]
  BY DEF List
<1>3. PendingOf(u) \subseteq Of(u) /\ Of(u) \subseteq Alerts
  BY DEF PendingOf, Of
<1>4. DigestTypeOK'
  BY <1>1, <1>2, <1>3 DEF settings, DigestInv, DigestTypeOK
<1>5. /\ ahead'[r] = ahead[r] \ {u}
      /\ \/ stage'[r] = "next" /\ user'[r] = {} /\ listed'[r] = {}
         \/ stage'[r] = "check" /\ user'[r] = {u} /\ listed'[r] = PendingOf(u)
      /\ \A q \in Deliveries \ {r} : /\ stage'[q] = stage[q] /\ ahead'[q] = ahead[q]
                                     /\ user'[q] = user[q] /\ listed'[q] = listed[q]
  BY <1>1, <1>2 DEF DigestInv, DigestTypeOK, RunInv, AtUser
<1>6. RunInv(r)'
  <2>1. Of(u)' = Of(u)
    BY <1>1 DEF settings, Of
  <2>2. RunInv(r)
    BY DEF DigestInv
  <2>3. stage'[r] \in AtUser =>
            \E v \in Users \ ahead'[r] : user'[r] = {v} /\ listed'[r] \subseteq Of(v)'
    BY <1>3, <1>5, <2>1 DEF AtUser
  <2>4. \A n \in marks'[r] : ownerOf'[n] \notin ahead'[r] \cup user'[r] /\ mailed'[n] > 0
    BY <1>1, <1>5, <2>2 DEF RunInv, settings
  <2> QED
    BY <1>1, <1>5, <2>2, <2>3, <2>4 DEF RunInv, AtUser, settings
<1>7. \A q \in Deliveries : RunInv(q)'
  BY <1>1, <1>5, <1>6, DeliveriesKept
<1>8. OptOutHolds'
  BY <1>1, <1>5 DEF DigestInv, OptOutHolds
<1>9. SentWasMailed' /\ MailedOnce'
  BY <1>1 DEF DigestInv, SentWasMailed, MailedOnce
<1>10. MailInv'
  <2> SUFFICES ASSUME Undisturbed PROVE MailInv'
    BY <1>1 DEF MailInv, Undisturbed
  <2>1. /\ \A q \in Deliveries : stage[q] # "idle" => q = r
        /\ \A n \in Alerts : mailed[n] > 0 =>
               alert[n] \in {"sent", "muted"} \/ \E q \in Deliveries : Marking(q, n)
    BY <1>1 DEF DigestInv, MailInv
  <2>2. \A n \in PendingOf(u) : mailed[n] = 0
    <3> SUFFICES ASSUME NEW n \in PendingOf(u), mailed[n] > 0 PROVE FALSE
      BY <1>3 DEF DigestInv, DigestTypeOK
    <3>1. n \in Alerts /\ ownerOf[n] = u /\ alert[n] = "pending"
      BY DEF PendingOf, Of
    <3>2. PICK q \in Deliveries : Marking(q, n)
      BY <2>1, <3>1
    <3>3. q = r
      <4>1. marks[q] # {} \/ stage[q] = "mark"
        BY <3>2 DEF Marking
      <4> QED
        BY <2>1, <4>1 DEF DigestInv, RunInv
    <3> QED
      BY <1>1, <3>1, <3>2, <3>3 DEF Marking, DigestInv, RunInv
  <2>3. \A q \in Deliveries, n \in Alerts : Marking(q, n) => Marking(q, n)'
    BY <1>1, <1>5 DEF Marking
  <2> QED
    BY <1>1, <1>5, <2>1, <2>2, <2>3 DEF MailInv
<1> QED
  BY <1>4, <1>7, <1>8, <1>9, <1>10 DEF DigestInv

\* What Done does to delivery r.
LEMMA IsDone ==
    ASSUME DigestInv, NEW r \in Deliveries, Done(r)
    PROVE  /\ stage' \in [Deliveries -> {"idle", "next", "check", "send", "mark"}]
           /\ user' \in [Deliveries -> SUBSET Users]
           /\ listed' \in [Deliveries -> SUBSET Alerts]
           /\ ahead' = ahead
           /\ stage'[r] = "next" /\ user'[r] = {} /\ listed'[r] = {}
           /\ \A q \in Deliveries \ {r} :
                  stage'[q] = stage[q] /\ user'[q] = user[q] /\ listed'[q] = listed[q]
BY DEF Done, DigestInv, DigestTypeOK

\* A delivery goes on to another stage at its user or leaves the user, and has
\* marked what it has mailed.
LEMMA GoesOn ==
    ASSUME DigestInv, DigestTypeOK', NEW r \in Deliveries, stage[r] \in AtUser,
           ahead' = ahead, UNCHANGED <<alert, muted, overlapped>>, UNCHANGED settings,
           mailFailures' # mailFailures => mailFailures' # 0,
           \A q \in Deliveries \ {r} :
               /\ stage'[q] = stage[q] /\ user'[q] = user[q] /\ listed'[q] = listed[q]
               /\ marks'[q] = marks[q],
           \/ stage'[r] = "next" /\ user'[r] = {} /\ listed'[r] = {}
           \/ stage'[r] \in AtUser /\ user'[r] = user[r] /\ listed'[r] = listed[r],
           marks'[r] = marks[r] \/ (stage'[r] = "next" /\ marks'[r] = marks[r] \cup listed[r]),
           \A n \in Alerts : mailed[n] > 0 => mailed'[n] > 0,
           \A n \in marks'[r] \ marks[r] : mailed'[n] > 0,
           stage'[r] = "mark" => \A n \in listed[r] : mailed'[n] > 0,
           stage'[r] = "send" => user[r] \cap muted[r] = {},
           mailFailures' = mailFailures =>
               /\ \A n \in Alerts : mailed'[n] > 0 => mailed[n] > 0 \/ Marking(r, n)'
               /\ stage'[r] \in {"check", "send"} =>
                       stage[r] \in {"check", "send"} /\ mailed' = mailed
               /\ stage[r] = "mark" => marks'[r] = marks[r] \cup listed[r],
           MailedOnce'
    PROVE  DigestInv'
<1>1. PICK u \in Users \ ahead[r] : user[r] = {u} /\ listed[r] \subseteq Of(u)
  BY DEF DigestInv, RunInv
<1>2. RunInv(r)
  BY DEF DigestInv
<1>3. RunInv(r)'
  <2>1. Of(u)' = Of(u)
    BY DEF settings, Of
  <2>2. stage'[r] \in AtUser =>
            \E v \in Users \ ahead'[r] : user'[r] = {v} /\ listed'[r] \subseteq Of(v)'
    BY <1>1, <2>1 DEF AtUser
  <2>3. \A n \in marks'[r] : ownerOf'[n] \notin ahead'[r] \cup user'[r] /\ mailed'[n] > 0
    <3> SUFFICES ASSUME NEW n \in marks'[r]
                 PROVE  ownerOf[n] \notin ahead[r] \cup user'[r] /\ mailed'[n] > 0
      BY DEF settings
    <3>1. CASE n \in marks[r]
      <4>1. n \in Alerts
        BY <3>1 DEF DigestInv, DigestTypeOK
      <4> QED
        BY <1>2, <3>1, <4>1 DEF RunInv
    <3>2. CASE n \notin marks[r]
      <4>1. n \in listed[r] /\ user'[r] = {}
        BY <3>2 DEF AtUser
      <4> QED
        BY <1>1, <3>2, <4>1 DEF Of
    <3> QED
      BY <3>1, <3>2
  <2>4. \A v \in muted'[r] : ~emailOn'[v]
    BY <1>2 DEF RunInv, settings
  <2>5. stage'[r] # "idle"
    BY DEF AtUser
  <2> QED
    BY <2>2, <2>3, <2>4, <2>5 DEF RunInv, AtUser
<1>4. \A q \in Deliveries : RunInv(q)'
  BY <1>3, DeliveriesKept
<1>5. OptOutHolds'
  <2>1. stage'[r] = "send" => user'[r] \cap muted'[r] = {}
    OBVIOUS
  <2> QED
    BY <2>1 DEF DigestInv, OptOutHolds
<1>6. SentWasMailed'
  BY DEF DigestInv, SentWasMailed
<1>7. MailInv'
  <2> SUFFICES ASSUME Undisturbed' PROVE MailInv'
    BY DEF MailInv
  <2>1. Undisturbed /\ mailFailures' = mailFailures
    BY DEF Undisturbed
  <2>2. \A q \in Deliveries : stage[q] # "idle" => q = r
    BY <2>1 DEF DigestInv, MailInv, AtUser
  <2>3. \A q \in Deliveries, n \in Alerts : Marking(q, n) => Marking(q, n)'
    BY <2>1 DEF Marking, AtUser
  <2>4. \A n \in Alerts : mailed'[n] > 0 =>
            alert'[n] \in {"sent", "muted"} \/ \E q \in Deliveries : Marking(q, n)'
    BY <2>1, <2>3 DEF DigestInv, MailInv
  <2>5. stage'[r] \in {"check", "send"} => \A n \in listed'[r] : mailed'[n] = 0
    BY <2>1 DEF DigestInv, MailInv, AtUser
  <2> QED
    BY <2>2, <2>4, <2>5 DEF MailInv
<1> QED
  BY <1>4, <1>5, <1>6, <1>7 DEF DigestInv

\* Only a user who has e-mail switched on is mailed.
LEMMA CheckInv ==
    ASSUME DigestInv, NEW r \in Deliveries, Check(r)
    PROVE  DigestInv'
<1>1. /\ stage[r] = "check" /\ UNCHANGED settings
      /\ UNCHANGED <<marks, alert, mailed, muted, toggles, mailFailures, overlapped>>
  BY DEF Check
<1>2. PICK u \in user[r] :
         \/ /\ MayMail(u)
            /\ stage' = [stage EXCEPT ![r] = "send"]
            /\ UNCHANGED <<ahead, user, listed, mutes>>
         \/ /\ Done(r)
            /\ \/ UNCHANGED mutes
               \/ mutes' = [mutes EXCEPT ![r] = @ \cup (PendingOf(u) \ marks[r])]
  BY DEF Check
<1>3. user[r] = {u} /\ RunInv(r)
  BY <1>1 DEF DigestInv, RunInv, AtUser
<1>4. /\ stage' \in [Deliveries -> {"idle", "next", "check", "send", "mark"}]
      /\ user' \in [Deliveries -> SUBSET Users]
      /\ listed' \in [Deliveries -> SUBSET Alerts]
      /\ ahead' = ahead
      /\ \/ stage'[r] = "next" /\ user'[r] = {} /\ listed'[r] = {}
         \/ stage'[r] = "send" /\ user'[r] = user[r] /\ listed'[r] = listed[r] /\ MayMail(u)
      /\ \A q \in Deliveries \ {r} :
             stage'[q] = stage[q] /\ user'[q] = user[q] /\ listed'[q] = listed[q]
  <2>1. CASE Done(r)
    BY <2>1, IsDone
  <2>2. CASE ~Done(r)
    BY <1>2, <2>2 DEF DigestInv, DigestTypeOK
  <2> QED
    BY <2>1, <2>2
<1>5. mutes' \in [Deliveries -> SUBSET Alerts]
  <2>1. PendingOf(u) \subseteq Alerts
    BY DEF PendingOf, Of
  <2> QED
    BY <1>2, <2>1 DEF DigestInv, DigestTypeOK
<1>6. DigestTypeOK'
  BY <1>1, <1>4, <1>5 DEF settings, DigestInv, DigestTypeOK
<1>7. stage'[r] = "send" => user[r] \cap muted[r] = {}
  BY <1>3, <1>4 DEF MayMail, RunInv
<1>8. MailedOnce'
  BY <1>1 DEF DigestInv, MailedOnce
<1> QED
  BY <1>1, <1>4, <1>6, <1>7, <1>8, GoesOn DEF AtUser

\* What a mail does to the history of mails.
LEMMA IsMailed ==
    ASSUME DigestTypeOK, NEW S, Mailed(S)
    PROVE  /\ mailed' \in [Alerts -> 0..2]
           /\ \A n \in Alerts : mailed[n] > 0 => mailed'[n] > 0
           /\ \A n \in Alerts \cap S : mailed'[n] > 0 /\ mailed'[n] <= mailed[n] + 1
           /\ \A n \in Alerts \ S : mailed'[n] = mailed[n]
BY DEF Mailed, DigestTypeOK

\* Nobody has mailed what a delivery that is alone has yet to send.
LEMMA SendInv ==
    ASSUME DigestInv, NEW r \in Deliveries, Send(r)
    PROVE  DigestInv'
<1>1. /\ stage[r] = "send" /\ stage' = [stage EXCEPT ![r] = "mark"] /\ Mailed(listed[r])
      /\ UNCHANGED <<ahead, user, listed, marks, mutes, alert, muted, toggles, mailFailures,
                     overlapped>>
      /\ UNCHANGED settings
  BY DEF Send
<1>2. /\ mailed' \in [Alerts -> 0..2]
      /\ \A n \in Alerts : mailed[n] > 0 => mailed'[n] > 0
      /\ \A n \in Alerts \cap listed[r] : mailed'[n] > 0 /\ mailed'[n] <= mailed[n] + 1
      /\ \A n \in Alerts \ listed[r] : mailed'[n] = mailed[n]
  BY <1>1, IsMailed DEF DigestInv
<1>3. DigestTypeOK'
  BY <1>1, <1>2 DEF settings, DigestInv, DigestTypeOK
<1>4. /\ stage'[r] = "mark" /\ \A q \in Deliveries \ {r} : stage'[q] = stage[q]
      /\ listed[r] \subseteq Alerts /\ \A q \in Deliveries : marks[q] \subseteq Alerts
  BY <1>1 DEF DigestInv, DigestTypeOK
<1>5. MailedOnce'
  <2> SUFFICES ASSUME ~overlapped, mailFailures = 0, NEW n \in Alerts PROVE mailed'[n] <= 1
    BY <1>1 DEF MailedOnce
  <2>1. CASE n \in listed[r]
    <3>1. mailed[n] = 0
      BY <1>1, <2>1 DEF DigestInv, MailInv, Undisturbed
    <3>2. mailed'[n] \in 0..2 /\ mailed'[n] <= mailed[n] + 1
      BY <1>2, <2>1
    <3> QED
      BY <3>1, <3>2
  <2>2. CASE n \notin listed[r]
    BY <1>2, <2>2 DEF DigestInv, MailedOnce
  <2> QED
    BY <2>1, <2>2
<1>6. \A n \in Alerts : mailed'[n] > 0 => mailed[n] > 0 \/ Marking(r, n)'
  BY <1>1, <1>2, <1>4 DEF Marking
<1>7. \A n \in listed[r] : mailed'[n] > 0
  BY <1>2, <1>4
<1> QED
  BY <1>1, <1>2, <1>3, <1>4, <1>5, <1>6, <1>7, GoesOn DEF AtUser

\* A failed delivery may have mailed its digest all the same.
LEMMA SendFailsInv ==
    ASSUME DigestInv, NEW r \in Deliveries, SendFails(r)
    PROVE  DigestInv'
<1>1. /\ stage[r] = "send" /\ MailFailure /\ Done(r)
      /\ mailed' = mailed \/ Mailed(listed[r])
      /\ UNCHANGED <<marks, mutes, alert, muted, toggles, overlapped>>
      /\ UNCHANGED settings
  BY DEF SendFails
<1>2. mailed' \in [Alerts -> 0..2] /\ \A n \in Alerts : mailed[n] > 0 => mailed'[n] > 0
  BY <1>1, IsMailed DEF DigestInv, DigestTypeOK
<1>3. mailFailures' \in Nat /\ mailFailures' # 0 /\ mailFailures' # mailFailures
  BY <1>1 DEF MailFailure, DigestInv, DigestTypeOK
<1>4. DigestTypeOK'
  BY <1>1, <1>2, <1>3, IsDone DEF settings, DigestInv, DigestTypeOK
<1>5. MailedOnce'
  BY <1>3 DEF MailedOnce
<1>6. /\ ahead' = ahead /\ stage'[r] = "next" /\ user'[r] = {} /\ listed'[r] = {}
      /\ \A q \in Deliveries \ {r} :
             stage'[q] = stage[q] /\ user'[q] = user[q] /\ listed'[q] = listed[q]
  BY <1>1, IsDone
<1> QED
  BY <1>1, <1>2, <1>3, <1>4, <1>5, <1>6, GoesOn DEF AtUser

\* What a delivery marks is what it mailed, and the rows stay its own.
LEMMA MarkInv ==
    ASSUME DigestInv, NEW r \in Deliveries, Mark(r)
    PROVE  DigestInv'
<1>1. /\ stage[r] = "mark" /\ Done(r)
      /\ marks' = [marks EXCEPT ![r] = @ \cup listed[r]]
      /\ UNCHANGED <<mutes, alert, mailed, muted, toggles, mailFailures, overlapped>>
      /\ UNCHANGED settings
  BY DEF Mark
<1>2. /\ marks' \in [Deliveries -> SUBSET Alerts] /\ marks'[r] = marks[r] \cup listed[r]
      /\ \A q \in Deliveries \ {r} : marks'[q] = marks[q]
  BY <1>1 DEF DigestInv, DigestTypeOK
<1>3. DigestTypeOK'
  BY <1>1, <1>2, IsDone DEF settings, DigestInv, DigestTypeOK
<1>4. /\ ahead' = ahead /\ stage'[r] = "next" /\ user'[r] = {} /\ listed'[r] = {}
      /\ \A q \in Deliveries \ {r} :
             stage'[q] = stage[q] /\ user'[q] = user[q] /\ listed'[q] = listed[q]
  BY <1>1, IsDone
<1>5. \A n \in marks'[r] \ marks[r] : mailed'[n] > 0
  BY <1>1, <1>2 DEF DigestInv, RunInv
<1>6. MailedOnce'
  BY <1>1 DEF DigestInv, MailedOnce
<1> QED
  BY <1>1, <1>2, <1>3, <1>4, <1>5, <1>6, GoesOn DEF AtUser

-----------------------------------------------------------------------------
(* The end of a delivery. *)

\* What Over does to delivery r.
LEMMA IsOver ==
    ASSUME DigestInv, NEW r \in Deliveries, Over(r), UNCHANGED settings, mailed' = mailed
    PROVE  /\ stage' \in [Deliveries -> {"idle", "next", "check", "send", "mark"}]
           /\ ahead' \in [Deliveries -> SUBSET Users]
           /\ user' \in [Deliveries -> SUBSET Users]
           /\ listed' \in [Deliveries -> SUBSET Alerts]
           /\ marks' \in [Deliveries -> SUBSET Alerts]
           /\ mutes' \in [Deliveries -> SUBSET Alerts]
           /\ muted' \in [Deliveries -> SUBSET Users]
           /\ \A q \in Deliveries : RunInv(q)'
           /\ OptOutHolds'
           /\ stage'[r] = "idle"
           /\ \A q \in Deliveries \ {r} :
                  stage'[q] = stage[q] /\ listed'[q] = listed[q] /\ marks'[q] = marks[q]
<1>1. /\ stage' \in [Deliveries -> {"idle", "next", "check", "send", "mark"}]
      /\ ahead' \in [Deliveries -> SUBSET Users]
      /\ user' \in [Deliveries -> SUBSET Users]
      /\ listed' \in [Deliveries -> SUBSET Alerts]
  BY DEF Over, DigestInv, DigestTypeOK
<1>2. /\ marks' \in [Deliveries -> SUBSET Alerts]
      /\ mutes' \in [Deliveries -> SUBSET Alerts]
      /\ muted' \in [Deliveries -> SUBSET Users]
  BY DEF Over, DigestInv, DigestTypeOK
<1>3. /\ stage'[r] = "idle" /\ ahead'[r] = {} /\ user'[r] = {} /\ listed'[r] = {}
      /\ marks'[r] = {} /\ muted'[r] = {}
  BY DEF Over, DigestInv, DigestTypeOK
<1>4. \A q \in Deliveries \ {r} :
          /\ stage'[q] = stage[q] /\ ahead'[q] = ahead[q] /\ user'[q] = user[q]
          /\ listed'[q] = listed[q] /\ marks'[q] = marks[q] /\ muted'[q] = muted[q]
  BY DEF Over, DigestInv, DigestTypeOK
<1>5. RunInv(r)'
  BY <1>3 DEF RunInv, AtUser
<1>6. \A q \in Deliveries : RunInv(q)'
  BY <1>4, <1>5, DeliveriesKept
<1>7. OptOutHolds'
  BY <1>3, <1>4 DEF DigestInv, OptOutHolds
<1> QED
  BY <1>1, <1>2, <1>3, <1>4, <1>6, <1>7

\* A commit settles what its delivery has mailed.
LEMMA CommitInv ==
    ASSUME DigestInv, NEW r \in Deliveries, Commit(r)
    PROVE  DigestInv'
<1>1. /\ stage[r] = "next" /\ Over(r) /\ UNCHANGED settings
      /\ UNCHANGED <<mailed, toggles, mailFailures, overlapped>>
      /\ alert' = [n \in Alerts |-> IF n \in marks[r] THEN "sent"
                                    ELSE IF n \in mutes[r] THEN "muted" ELSE alert[n]]
  BY DEF Commit
<1>2. alert' \in [Alerts -> {"none", "drafted", "in_app", "pending", "muted", "sent"}]
  BY <1>1 DEF DigestInv, DigestTypeOK
<1>3. DigestTypeOK'
  BY <1>1, <1>2, IsOver DEF settings, DigestInv, DigestTypeOK
<1>4. SentWasMailed'
  <2>1. \A n \in Alerts : alert'[n] = "sent" => n \in marks[r] \/ alert[n] = "sent"
    BY <1>1
  <2>2. \A n \in marks[r] : mailed[n] > 0
    BY DEF DigestInv, RunInv
  <2> QED
    BY <1>1, <2>1, <2>2 DEF DigestInv, SentWasMailed
<1>5. MailInv'
  <2> SUFFICES ASSUME Undisturbed PROVE MailInv'
    BY <1>1 DEF MailInv, Undisturbed
  <2>1. /\ stage'[r] = "idle"
        /\ \A q \in Deliveries \ {r} :
               stage'[q] = stage[q] /\ listed'[q] = listed[q] /\ marks'[q] = marks[q]
    BY <1>1, IsOver
  <2>2. \A n \in Alerts : \A q \in Deliveries \ {r} : Marking(q, n) => Marking(q, n)'
    BY <2>1 DEF Marking
  <2>3. \A n \in Alerts : alert[n] \in {"sent", "muted"} \/ Marking(r, n) =>
            alert'[n] \in {"sent", "muted"}
    BY <1>1 DEF Marking
  <2>4. \A n \in Alerts : mailed'[n] > 0 =>
            alert'[n] \in {"sent", "muted"} \/ \E q \in Deliveries : Marking(q, n)'
    BY <1>1, <2>2, <2>3 DEF DigestInv, MailInv
  <2> QED
    BY <1>1, <2>1, <2>4 DEF DigestInv, MailInv
<1>6. MailedOnce'
  BY <1>1 DEF DigestInv, MailedOnce
<1> QED
  BY <1>1, <1>3, <1>4, <1>5, <1>6, IsOver DEF DigestInv

\* A delivery that dies leaves its alerts pending; that is a failure.
LEMMA CrashDeliveryInv ==
    ASSUME DigestInv, NEW r \in Deliveries, CrashDelivery(r)
    PROVE  DigestInv'
<1>1. /\ MailFailure /\ Over(r) /\ UNCHANGED settings
      /\ UNCHANGED <<alert, mailed, toggles, overlapped>>
  BY DEF CrashDelivery
<1>2. mailFailures' \in Nat /\ mailFailures' # 0
  BY <1>1 DEF MailFailure, DigestInv, DigestTypeOK
<1>3. DigestTypeOK'
  BY <1>1, <1>2, IsOver DEF settings, DigestInv, DigestTypeOK
<1>4. SentWasMailed'
  BY <1>1 DEF DigestInv, SentWasMailed
<1>5. MailInv' /\ MailedOnce'
  BY <1>2 DEF MailInv, MailedOnce, Undisturbed
<1> QED
  BY <1>1, <1>3, <1>4, <1>5, IsOver DEF DigestInv

\* Only deliveries that overlap can wait for each other.
LEMMA VictimInv ==
    ASSUME DigestInv, NEW r \in Deliveries, Victim(r)
    PROVE  DigestInv'
<1>1. PICK q \in Deliveries \ {r} :
         /\ Wants(r) \cap LockedBy(q) # {}
         /\ Wants(q) \cap LockedBy(r) # {}
         /\ stage' = [stage EXCEPT ![r] = "idle", ![q] = "next"]
         /\ marks' = [marks EXCEPT ![r] = {},
                        ![q] = IF stage[q] = "mark" THEN @ \cup Wants(q) ELSE @]
         /\ mutes' = [mutes EXCEPT ![r] = {},
                        ![q] = IF stage[q] = "check" THEN @ \cup (Wants(q) \ marks[q]) ELSE @]
         /\ user' = [user EXCEPT ![r] = {}, ![q] = {}]
         /\ listed' = [listed EXCEPT ![r] = {}, ![q] = {}]
  BY DEF Victim
<1>2. /\ ahead' = [ahead EXCEPT ![r] = {}] /\ muted' = [muted EXCEPT ![r] = {}]
      /\ UNCHANGED <<alert, mailed, toggles, mailFailures, overlapped>>
      /\ UNCHANGED settings
  BY DEF Victim
<1>3. \A p \in {q, r} :
          /\ stage[p] \in {"mark", "check"}
          /\ stage[p] = "mark" => Wants(p) = listed[p]
          /\ Wants(p) \subseteq Alerts
  <2> SUFFICES ASSUME NEW p \in {q, r}
               PROVE  /\ stage[p] \in {"mark", "check"}
                      /\ stage[p] = "mark" => Wants(p) = listed[p]
                      /\ Wants(p) \subseteq Alerts
    OBVIOUS
  <2>1. Wants(p) # {}
    BY <1>1
  <2>2. stage[p] \in {"mark", "check"}
    BY <2>1 DEF Wants
  <2>3. CASE stage[p] = "mark"
    BY <2>3 DEF Wants, DigestInv, DigestTypeOK
  <2>4. CASE stage[p] = "check"
    BY <2>4 DEF Wants, PendingOf, Of
  <2> QED
    BY <2>2, <2>3, <2>4
<1>4. /\ stage'[r] = "idle" /\ ahead'[r] = {} /\ user'[r] = {} /\ listed'[r] = {}
      /\ marks'[r] = {} /\ muted'[r] = {}
  BY <1>1, <1>2 DEF DigestInv, DigestTypeOK
<1>5. /\ stage'[q] = "next" /\ ahead'[q] = ahead[q] /\ user'[q] = {} /\ listed'[q] = {}
      /\ marks'[q] = IF stage[q] = "mark" THEN marks[q] \cup listed[q] ELSE marks[q]
      /\ muted'[q] = muted[q]
  BY <1>1, <1>2, <1>3 DEF DigestInv, DigestTypeOK
<1>6. \A p \in Deliveries \ {q, r} :
          /\ stage'[p] = stage[p] /\ ahead'[p] = ahead[p] /\ user'[p] = user[p]
          /\ listed'[p] = listed[p] /\ marks'[p] = marks[p] /\ muted'[p] = muted[p]
  BY <1>1, <1>2 DEF DigestInv, DigestTypeOK
<1>7. DigestTypeOK'
  <2>1. /\ stage' \in [Deliveries -> {"idle", "next", "check", "send", "mark"}]
        /\ user' \in [Deliveries -> SUBSET Users]
        /\ listed' \in [Deliveries -> SUBSET Alerts]
        /\ ahead' \in [Deliveries -> SUBSET Users]
        /\ muted' \in [Deliveries -> SUBSET Users]
    BY <1>1, <1>2 DEF DigestInv, DigestTypeOK
  <2>2. marks' \in [Deliveries -> SUBSET Alerts] /\ mutes' \in [Deliveries -> SUBSET Alerts]
    BY <1>1, <1>3 DEF DigestInv, DigestTypeOK
  <2> QED
    BY <1>2, <2>1, <2>2 DEF settings, DigestInv, DigestTypeOK
<1>8. RunInv(r)'
  BY <1>4 DEF RunInv, AtUser
<1>9. RunInv(q)'
  <2>1. PICK u \in Users \ ahead[q] : user[q] = {u} /\ listed[q] \subseteq Of(u)
    BY <1>3 DEF DigestInv, RunInv, AtUser
  <2>2. RunInv(q)
    BY DEF DigestInv
  <2>3. \A n \in marks'[q] : ownerOf[n] \notin ahead[q] /\ mailed[n] > 0
    BY <1>5, <2>1, <2>2 DEF RunInv, Of
  <2> QED
    BY <1>2, <1>5, <2>2, <2>3 DEF RunInv, AtUser, settings
<1>10. \A p \in Deliveries : RunInv(p)'
  <2>1. ASSUME NEW p \in Deliveries \ {q, r} PROVE RunInv(p)'
    BY <1>2, <1>6, Elsewhere DEF settings
  <2> QED
    BY <1>8, <1>9, <2>1
<1>11. OptOutHolds'
  BY <1>4, <1>5, <1>6 DEF DigestInv, OptOutHolds
<1>12. SentWasMailed'
  BY <1>2 DEF DigestInv, SentWasMailed
<1>13. MailInv'
  BY <1>2, <1>3 DEF DigestInv, MailInv, Undisturbed
<1>14. MailedOnce'
  BY <1>2 DEF DigestInv, MailedOnce
<1> QED
  BY <1>7, <1>10, <1>11, <1>12, <1>13, <1>14 DEF DigestInv

-----------------------------------------------------------------------------
(* The theorems. *)

\* Every step keeps the invariant.
LEMMA DigestNextInv == DigestInv /\ [DigestNext]_digestVars => DigestInv'
<1> SUFFICES ASSUME DigestInv, [DigestNext]_digestVars PROVE DigestInv'
  OBVIOUS
<1>1. ASSUME NEW n \in Alerts, Draft(n) \/ Publish(n) PROVE DigestInv'
  BY <1>1, DraftInv
<1>2. ASSUME NEW u \in Users, Unsubscribe(u) \/ Subscribe(u) PROVE DigestInv'
  BY <1>2, UnsubscribeInv, SubscribeInv
<1>3. ASSUME NEW u \in Users, SetQuiet(u) \/ \E on \in BOOLEAN : SetType(u, on) PROVE DigestInv'
  BY <1>3, SettingsInv
<1>4. ASSUME NEW r \in Deliveries, Deliver(r) PROVE DigestInv'
  BY <1>4, BeginInv, ListInv, CheckInv, SendInv, SendFailsInv, MarkInv, CommitInv, VictimInv
     DEF Deliver
<1>5. ASSUME NEW r \in Deliveries, CrashDelivery(r) PROVE DigestInv'
  BY <1>5, CrashDeliveryInv
<1>6. CASE UNCHANGED digestVars
  <2>1. DigestTypeOK'
    BY <1>6 DEF digestVars, DigestInv, DigestTypeOK
  <2> QED
    BY <1>6, <2>1, OutsideInv DEF digestVars, run, DigestInv, DigestTypeOK
<1> QED
  BY <1>1, <1>2, <1>3, <1>4, <1>5, <1>6 DEF DigestNext

\* The inductive invariant holds throughout.
THEOREM DigestInvariance == DigestSpec => []DigestInv
<1> QED
  BY DigestInitInv, DigestNextInv, PTL DEF DigestSpec

\* A delivery that began with a user's e-mail switched off, and has not seen it
\* switched on since, does not come to send that user a digest
\* (deliver_pending_email_digests).
THEOREM OptOutIsRespected == DigestSpec => []OptOutHolds
<1>1. DigestInv => OptOutHolds
  BY DEF DigestInv
<1> QED
  BY <1>1, DigestInvariance, PTL

\* An alert that is marked as sent was in a mail, and in one only as long as
\* deliveries do not overlap and none fails (mark_notification_emails_sent).
THEOREM MarksAlwaysMatchMails == DigestSpec => []MarksMatchMails
<1>1. DigestInv => MarksMatchMails
  BY DEF DigestInv, MarksMatchMails
<1> QED
  BY <1>1, DigestInvariance, PTL
=============================================================================
