------------------------ MODULE DashboardCacheProofs ------------------------
(***************************************************************************)
(* CacheIsHonest and LoadsAreCoalesced of DashboardCache, for any          *)
(* dashboards, users, requests, size, time to live and clock.              *)
(*                                                                         *)
(* Three arguments, one for each hazard of the cache.  Its keys are in the *)
(* order they were inserted, so a full cache has a first one to drop.  An  *)
(* entry expires by the time read before its load, so no answer from the   *)
(* cache is older than the time to live.  And while a user has no change   *)
(* that a load overlapped, what is loaded or cached is what is committed,  *)
(* and nothing of it is left while a change waits for its commit.          *)
(*                                                                         *)
(* Then PagesAgree and ImportRecordsTheFile of HoldingLedger, for any      *)
(* purchases, markets, files and portfolios.  What is read of a file is    *)
(* weighed: for every weight that merging rows leaves as it is, the rows   *)
(* read so far weigh what the file up to there weighs.  What the pages say *)
(* follows from the lemmas about sums.                                     *)
(*                                                                         *)
(* Last, BetterListingLosesNothing of DealScores, part of the score by     *)
(* part, and EstimateIsSound of Valuation: order statistics of the prices, *)
(* the fences around their quartiles and a weighted mean.                  *)
(***************************************************************************)
EXTENDS DashboardCache, HoldingLedger, Sums, DealScores, Valuation, FiniteSetTheorems,
        SequenceTheorems, TLAPS, WellFoundedInduction

\* The keys of the cache are finitely many and in an order.
OrderInv ==
    /\ IsFiniteSet(Cached)
    /\ \A j, k \in Cached : j # k => <<j, k>> \in before \/ <<k, j>> \in before
    /\ \A i, j, k \in Cached :
           <<i, j>> \in before /\ <<j, k>> \in before => <<i, k>> \in before

\* An entry expires within the time to live of its data, and a load reads no
\* earlier than the time it counts from.
AgeInv ==
    /\ \A k \in Cached : cache[k].until <= cache[k].readAt + Ttl
    /\ \A r \in Requests : now[r] <= clock
    /\ \A r \in Requests : pc[r] = "loaded" => now[r] <= got[r].readAt

\* What a user has in the cache or in a load is what is committed, and there is
\* nothing of it while a change is not.  The number of changes is bounded.
DataInv ==
    /\ \A k \in Cached : UserOf[k] \notin raced =>
           UserOf[k] \notin changing /\ cache[k].val = data[UserOf[k]]
    /\ \A r \in Requests : pc[r] = "loaded" /\ UserOf[key[r]] \notin raced =>
           UserOf[key[r]] \notin changing /\ got[r].val = data[UserOf[key[r]]]
    /\ \A r \in Requests : floor[r] <= data[UserOf[key[r]]]
    /\ \A u \in changing : data[u] < MaxChanges

\* x is in the queue s.
Among(x, s) == \E i \in 1..Len(s) : s[i] = x

\* Who loads is at the head of its lock, which is the one its key has had from
\* the beginning unless it was dropped.
LockInv(r) ==
    /\ pc[r] \in {"wait", "load", "loaded"} =>
           /\ lock[r] \in Requests /\ Among(r, queue[lock[r]])
           /\ key[r] \notin dropped => lock[r] = lockOf[key[r]]
    /\ pc[r] \in {"load", "loaded"} =>
           Head(queue[lock[r]]) = r

Inv ==
    /\ TypeOK
    /\ OrderInv
    /\ AgeInv
    /\ DataInv
    /\ \A r \in Requests : LockInv(r)
    /\ CacheIsHonest

-----------------------------------------------------------------------------
(* Queues and orders. *)

\* A queue that is not empty has a head, and one that has a member is not empty.
LEMMA HeadOf ==
    ASSUME NEW S, NEW s \in Seq(S), NEW x, Among(x, s)
    PROVE  s # << >> /\ Head(s) = s[1] /\ Len(s) \in Nat \ {0}
BY DEF Among

\* Joining a queue takes nobody out of it, and puts nobody in front.
LEMMA Joined ==
    ASSUME NEW S, NEW s \in Seq(S), NEW e \in S
    PROVE  /\ Append(s, e) \in Seq(S) /\ Among(e, Append(s, e))
           /\ \A x : Among(x, s) => Among(x, Append(s, e))
           /\ Head(Append(s, e)) = IF s = << >> THEN e ELSE Head(s)
<1>1. /\ Append(s, e) \in Seq(S)
      /\ Len(Append(s, e)) = Len(s) + 1 /\ Len(s) \in Nat
      /\ Append(s, e)[Len(s) + 1] = e
      /\ \A i \in 1..Len(s) : Append(s, e)[i] = s[i]
  OBVIOUS
<1>2. Among(e, Append(s, e))
  BY <1>1 DEF Among
<1>3. \A x : Among(x, s) => Among(x, Append(s, e))
  BY <1>1 DEF Among
<1>4. Head(Append(s, e)) = IF s = << >> THEN e ELSE Head(s)
  BY <1>1
<1> QED
  BY <1>1, <1>2, <1>3, <1>4

\* Only its head leaves a queue.
LEMMA Left ==
    ASSUME NEW S, NEW s \in Seq(S), s # << >>
    PROVE  /\ Tail(s) \in Seq(S)
           /\ \A x : Among(x, s) /\ x # Head(s) => Among(x, Tail(s))
<1>1. /\ Tail(s) \in Seq(S) /\ Len(Tail(s)) = Len(s) - 1 /\ Len(s) \in Nat
      /\ \A i \in 1..Len(s) - 1 : Tail(s)[i] = s[i + 1]
      /\ Head(s) = s[1]
  OBVIOUS
<1>2. ASSUME NEW x, Among(x, s), x # Head(s) PROVE Among(x, Tail(s))
  <2>1. PICK i \in 1..Len(s) : s[i] = x
    BY <1>2 DEF Among
  <2>2. i # 1
    BY <1>1, <1>2, <2>1
  <2>3. i - 1 \in 1..Len(Tail(s)) /\ Tail(s)[i - 1] = x
    BY <1>1, <2>1, <2>2
  <2> QED
    BY <2>3 DEF Among
<1> QED
  BY <1>1, <1>2

\* A finite set in an order has a first element.
LEMMA FirstExists ==
    ASSUME NEW S, IsFiniteSet(S), S # {}, NEW R,
           \A x, y \in S : x # y => <<x, y>> \in R \/ <<y, x>> \in R,
           \A x, y, z \in S : <<x, y>> \in R /\ <<y, z>> \in R => <<x, z>> \in R
    PROVE  \E x \in S : \A y \in S \ {x} : <<x, y>> \in R
<1> DEFINE First(T) == {x \in T : \A y \in T \ {x} : <<x, y>> \in R}
           Bad == {T \in SUBSET S : T # {} /\ First(T) = {}}
           Sizes == {Cardinality(T) : T \in Bad}
<1> SUFFICES ASSUME S \in Bad PROVE FALSE
  OBVIOUS
<1>1. \A T \in SUBSET S : IsFiniteSet(T) /\ Cardinality(T) \in Nat
  BY FS_Subset, FS_CardinalityType
<1>2. Sizes \subseteq Nat /\ Sizes # {}
  BY <1>1
<1>3. PICK m \in Sizes : \A n \in Sizes : <<n, m>> \notin OpToRel(<, Nat)
  BY <1>2, NatLessThanWellFounded, WFMin
<1>4. \A n \in Sizes : ~(n < m)
  BY <1>2, <1>3 DEF OpToRel
<1>5. PICK T \in Bad : m = Cardinality(T)
  OBVIOUS
<1>6. PICK x \in T : TRUE
  OBVIOUS
<1>7. Cardinality(T \ {x}) = m - 1 /\ m \in Nat
  BY <1>1, <1>5, FS_RemoveElement
<1>8. T \ {x} \notin Bad
  <2>1. m - 1 < m
    BY <1>7
  <2>2. T \ {x} \in Bad => Cardinality(T \ {x}) \in Sizes
    OBVIOUS
  <2> HIDE DEF Sizes, Bad
  <2> QED
    BY <1>4, <1>7, <2>1, <2>2
<1>9. CASE T \ {x} = {}
  <2>1. x \in First(T)
    BY <1>9
  <2> QED
    BY <2>1
<1>10. CASE T \ {x} # {}
  <2>1. PICK f \in T \ {x} : \A y \in (T \ {x}) \ {f} : <<f, y>> \in R
    <3>1. T \ {x} \in SUBSET S
      OBVIOUS
    <3>2. First(T \ {x}) # {}
      <4> HIDE DEF First
      <4> QED
        BY <1>8, <1>10, <3>1
    <3> QED
      BY <3>2
  <2>2. CASE <<x, f>> \in R
    <3>1. x \in First(T)
      BY <2>1, <2>2
    <3> QED
      BY <3>1
  <2>3. CASE <<f, x>> \in R
    <3>1. f \in First(T)
      BY <2>1, <2>3
    <3> QED
      BY <3>1
  <2> QED
    BY <2>1, <2>2, <2>3
<1> QED
  BY <1>9, <1>10

-----------------------------------------------------------------------------
\* Initially nothing is cached and no request has begun.
LEMMA InitInv == Init => Inv
<1> SUFFICES ASSUME Init PROVE Inv
  OBVIOUS
<1> USE DEF Init
<1>1. Cached = {}
  BY DEF Cached
<1>2. TypeOK
  <2>1. 0 \in 0..MaxTime /\ 0 \in 0..MaxChanges
    BY BoundsAreNatural
  <2>2. queue \in [Requests -> Seq(Requests)]
    OBVIOUS
  <2>3. got \in [Requests -> [val : 0..MaxChanges, readAt : 0..MaxTime]]
    BY <2>1 DEF Nothing
  <2> QED
    BY <1>1, <2>1, <2>2, <2>3 DEF TypeOK
<1>3. OrderInv
  BY <1>1, FS_EmptySet DEF OrderInv
<1>4. AgeInv
  BY <1>1 DEF AgeInv
<1>5. DataInv
  BY <1>1, KeysHaveUsers DEF DataInv
<1>6. \A r \in Requests : LockInv(r)
  BY DEF LockInv
<1>7. CacheIsHonest
  <2>1. CacheIsBounded
    BY <1>1, FS_EmptySet, SizesArePositive DEF CacheIsBounded
  <2>2. CachedAnswersAreYoung
    BY SizesArePositive DEF CachedAnswersAreYoung
  <2>3. MutationsAreVisible
    BY DEF MutationsAreVisible
  <2> QED
    BY <2>1, <2>2, <2>3 DEF CacheIsHonest
<1> QED
  BY <1>2, <1>3, <1>4, <1>5, <1>6, <1>7 DEF Inv

-----------------------------------------------------------------------------
(* The locks. *)

\* The next in the queue gets what the head of it releases.
LEMMA Released ==
    ASSUME Inv, NEW r \in Requests, pc[r] \in {"wait", "load", "loaded"},
           Head(queue[lock[r]]) = r, Release(r)
    PROVE  /\ queue' \in [Requests -> Seq(Requests)]
           /\ \A q \in Requests \ {r} :
                  /\ pc[q] \in {"wait", "load", "loaded"} => Among(q, queue'[lock[q]])
                  /\ pc[q] \in {"load", "loaded"} => Head(queue'[lock[q]]) = q
<1>1. lock[r] \in Requests /\ queue \in [Requests -> Seq(Requests)]
  BY DEF Inv, TypeOK, LockInv
<1>2. queue[lock[r]] # << >>
  BY <1>1, HeadOf DEF Inv, LockInv
<1>3. /\ Tail(queue[lock[r]]) \in Seq(Requests)
      /\ \A x : Among(x, queue[lock[r]]) /\ x # r => Among(x, Tail(queue[lock[r]]))
  BY <1>1, <1>2, Left
<1>4. /\ queue' \in [Requests -> Seq(Requests)]
      /\ queue'[lock[r]] = Tail(queue[lock[r]])
      /\ \A l \in Requests \ {lock[r]} : queue'[l] = queue[l]
  BY <1>1, <1>3 DEF Release
<1>5. ASSUME NEW q \in Requests \ {r}
      PROVE  /\ pc[q] \in {"wait", "load", "loaded"} => Among(q, queue'[lock[q]])
             /\ pc[q] \in {"load", "loaded"} => Head(queue'[lock[q]]) = q
  <2>1. LockInv(q)
    BY DEF Inv
  <2>2. CASE lock[q] = lock[r]
    BY <1>3, <1>4, <2>1, <2>2 DEF LockInv
  <2>3. CASE lock[q] # lock[r]
    BY <1>4, <2>1, <2>3 DEF LockInv
  <2> QED
    BY <2>2, <2>3
<1> QED
  BY <1>4, <1>5

\* A request that is over releases its lock and no other.
LEMMA LocksAfterRelease ==
    ASSUME Inv, NEW r \in Requests, pc[r] \in {"wait", "load", "loaded"},
           Head(queue[lock[r]]) = r, Release(r), pc'[r] \in {"done", "failed"},
           UNCHANGED <<lock, key>>, dropped \subseteq dropped',
           \A k \in Keys \ dropped' : lockOf'[k] = lockOf[k],
           \A q \in Requests \ {r} : pc'[q] = pc[q]
    PROVE  \A q \in Requests : LockInv(q)'
<1>1. ASSUME NEW q \in Requests \ {r} PROVE LockInv(q)'
  <2>1. LockInv(q) /\ key[q] \in Keys
    BY DEF Inv, TypeOK
  <2> QED
    BY <2>1, Released DEF LockInv
<1>2. LockInv(r)'
  BY DEF LockInv
<1> QED
  BY <1>1, <1>2

-----------------------------------------------------------------------------
(* Requests. *)

\* What changes neither the cache nor the data keeps what is in the cache.
LEMMA CacheKept ==
    ASSUME Inv, UNCHANGED <<cache, before>>
    PROVE  OrderInv' /\ CacheIsBounded' /\ Cached' = Cached
BY DEF Inv, OrderInv, CacheIsHonest, CacheIsBounded, Cached

\* A fresh entry is the answer: it is young, and shows what was committed when
\* the request began.
LEMMA AnswerInv ==
    ASSUME Inv, NEW r \in Requests, Fresh(key[r]), Answer(r),
           UNCHANGED <<clock, data, changing, key, now, raced>>, UNCHANGED store,
           \A q \in Requests \ {r} : floor'[q] = floor[q] /\ lock'[q] = lock[q],
           floor' \in [Requests -> 0..MaxChanges], floor'[r] <= data[UserOf[key[r]]],
           lock' \in [Requests -> Requests \cup {NoRequest}],
           queue' \in [Requests -> Seq(Requests)],
           \A q \in Requests : LockInv(q)'
    PROVE  Inv'
<1> DEFINE k == key[r]
           u == UserOf[key[r]]
<1>1. k \in Cached /\ clock < cache[k].until /\ cache[k] \in Entry /\ u \in Users
  BY KeysHaveUsers DEF Fresh, Inv, TypeOK
<1>2. /\ cache[k].val \in 0..MaxChanges /\ cache[k].readAt \in 0..MaxTime
      /\ cache[k].until \in 0..(MaxTime + Ttl) /\ clock \in 0..MaxTime
  BY <1>1 DEF Entry, Inv, TypeOK
<1>3. /\ pc' = [pc EXCEPT ![r] = "done"]
      /\ got' = [got EXCEPT ![r] = [val |-> cache[k].val, readAt |-> cache[k].readAt]]
      /\ age' = [age EXCEPT ![r] = clock - cache[k].readAt]
  BY DEF Answer
<1>4. /\ pc'[r] = "done" /\ got'[r].val = cache[k].val /\ age'[r] = clock - cache[k].readAt
      /\ \A q \in Requests \ {r} :
             pc'[q] = pc[q] /\ got'[q] = got[q] /\ age'[q] = age[q]
  BY <1>3 DEF Inv, TypeOK
<1>5. TypeOK'
  <2>1. [val |-> cache[k].val, readAt |-> cache[k].readAt]
            \in [val : 0..MaxChanges, readAt : 0..MaxTime]
    BY <1>2
  <2>2. got' \in [Requests -> [val : 0..MaxChanges, readAt : 0..MaxTime]]
    BY <1>3, <2>1 DEF Inv, TypeOK
  <2>3. pc' \in [Requests -> {"new", "wait", "load", "loaded", "done", "failed"}]
    BY <1>3 DEF Inv, TypeOK
  <2>4. clock - cache[k].readAt \in Int
    BY <1>2, BoundsAreNatural
  <2>5. age' \in [Requests -> Int]
    BY <1>3, <2>4 DEF Inv, TypeOK
  <2> QED
    BY <2>2, <2>3, <2>5 DEF store, Cached, Inv, TypeOK
<1>6. OrderInv' /\ CacheIsBounded'
  BY CacheKept DEF store
<1>7. AgeInv'
  BY <1>4 DEF Inv, AgeInv, Cached, store
<1>8. DataInv'
  <2>1. \A q \in Requests : floor'[q] <= data[UserOf[key[q]]]
    BY DEF Inv, DataInv
  <2>2. \A q \in Requests : pc'[q] = "loaded" => pc[q] = "loaded" /\ got'[q] = got[q]
    BY <1>4
  <2> QED
    BY <2>1, <2>2 DEF Inv, DataInv, Cached, store
<1>9. CachedAnswersAreYoung'
  <2>1. age'[r] < Ttl
    <3>1. cache[k].until <= cache[k].readAt + Ttl
      BY <1>1 DEF Inv, AgeInv
    <3>2. \A time, until, at, ttl \in Int :
              time < until /\ until <= at + ttl => time - at < ttl
      OBVIOUS
    <3>3. clock \in Int /\ cache[k].until \in Int /\ cache[k].readAt \in Int /\ Ttl \in Int
      BY <1>2, BoundsAreNatural, SizesArePositive
    <3>4. clock - cache[k].readAt < Ttl
      BY <1>1, <3>1, <3>2, <3>3
    <3> QED
      BY <1>4, <3>4
  <2> QED
    BY <1>4, <2>1 DEF Inv, CacheIsHonest, CachedAnswersAreYoung
<1>10. MutationsAreVisible'
  <2>1. u \notin raced => got'[r].val >= floor'[r]
    <3>1. u \notin raced => cache[k].val = data[u]
      BY <1>1 DEF Inv, DataInv
    <3>2. floor'[r] \in Int /\ data[u] \in Int
      BY <1>1 DEF Inv, TypeOK
    <3> QED
      BY <1>4, <3>1, <3>2
  <2> QED
    BY <1>4, <2>1 DEF Inv, CacheIsHonest, MutationsAreVisible
<1> QED
  BY <1>5, <1>6, <1>7, <1>8, <1>9, <1>10 DEF Inv, CacheIsHonest

\* A request that waits or loads keeps the cache as it is.
LEMMA QuietInv ==
    ASSUME Inv, TypeOK', NEW r \in Requests, UNCHANGED <<clock, data, changing, key>>,
           UNCHANGED <<cache, before>>, age' = age, raced \subseteq raced',
           pc'[r] # "done", now'[r] <= clock,
           pc'[r] = "loaded" => /\ now'[r] <= got'[r].readAt
                                /\ UserOf[key[r]] \notin raced' =>
                                       /\ UserOf[key[r]] \notin changing
                                       /\ got'[r].val = data[UserOf[key[r]]],
           floor'[r] <= data[UserOf[key[r]]],
           \A q \in Requests \ {r} : /\ pc'[q] = pc[q] /\ now'[q] = now[q]
                                     /\ got'[q] = got[q] /\ floor'[q] = floor[q],
           \A q \in Requests : LockInv(q)'
    PROVE  Inv'
<1>1. OrderInv' /\ CacheIsBounded' /\ Cached' = Cached
  BY CacheKept
<1>2. AgeInv'
  BY <1>1 DEF Inv, AgeInv
<1>3. DataInv'
  BY <1>1 DEF Inv, DataInv
<1>4. CachedAnswersAreYoung' /\ MutationsAreVisible'
  BY DEF Inv, CacheIsHonest, CachedAnswersAreYoung, MutationsAreVisible
<1> QED
  BY <1>1, <1>2, <1>3, <1>4 DEF Inv, CacheIsHonest

\* A new request asks for the lock of its key, and loads if it is free.
LEMMA StartInv ==
    ASSUME Inv, NEW r \in Requests, Start(r)
    PROVE  Inv'
<1> DEFINE k == key[r]
           l == LockFor(r)
<1>1. /\ pc[r] = "new" /\ floor' = [floor EXCEPT ![r] = data[UserOf[k]]]
      /\ UNCHANGED <<clock, data, changing, cache, before, dropped, key, raced>>
  BY DEF Start
<1>2. k \in Keys /\ data[UserOf[k]] \in 0..MaxChanges
  BY KeysHaveUsers DEF Inv, TypeOK
<1>3. /\ floor' \in [Requests -> 0..MaxChanges] /\ floor'[r] = data[UserOf[k]]
      /\ floor'[r] <= data[UserOf[k]]
      /\ \A q \in Requests \ {r} : floor'[q] = floor[q]
  BY <1>1, <1>2 DEF Inv, TypeOK
<1>4. CASE Fresh(k)
  <2>1. Answer(r) /\ UNCHANGED <<lock, now, lockOf, queue>>
    BY <1>4 DEF Start
  <2>2. \A q \in Requests : LockInv(q)'
    <3>1. pc' = [pc EXCEPT ![r] = "done"]
      BY <2>1 DEF Answer
    <3> QED
      BY <1>1, <2>1, <3>1 DEF Inv, TypeOK, LockInv
  <2> QED
    BY <1>1, <1>3, <1>4, <2>1, <2>2, AnswerInv DEF store, Inv, TypeOK
<1>5. CASE ~Fresh(k)
  <2>1. /\ lock' = [lock EXCEPT ![r] = l] /\ lockOf' = [lockOf EXCEPT ![k] = l]
        /\ queue' = [queue EXCEPT ![l] = Append(@, r)]
        /\ IF queue[l] = << >> THEN Load(r)
           ELSE pc' = [pc EXCEPT ![r] = "wait"] /\ UNCHANGED now
        /\ UNCHANGED <<got, age>>
    BY <1>5 DEF Start
  <2>2. l \in Requests /\ (lockOf[k] # NoRequest => l = lockOf[k])
    BY <1>2 DEF LockFor, Inv, TypeOK
  <2>3. /\ Append(queue[l], r) \in Seq(Requests) /\ Among(r, Append(queue[l], r))
        /\ \A x : Among(x, queue[l]) => Among(x, Append(queue[l], r))
        /\ Head(Append(queue[l], r)) = IF queue[l] = << >> THEN r ELSE Head(queue[l])
    BY <2>2, Joined DEF Inv, TypeOK
  <2>4. /\ queue' \in [Requests -> Seq(Requests)]
        /\ queue'[l] = Append(queue[l], r)
        /\ \A m \in Requests \ {l} : queue'[m] = queue[m]
        /\ lock'[r] = l /\ \A q \in Requests \ {r} : lock'[q] = lock[q]
        /\ lockOf'[k] = l /\ \A j \in Keys \ {k} : lockOf'[j] = lockOf[j]
    BY <1>2, <2>1, <2>2, <2>3 DEF Inv, TypeOK
  <2>5. /\ pc' \in [Requests -> {"new", "wait", "load", "loaded", "done", "failed"}]
        /\ pc'[r] = IF queue[l] = << >> THEN "load" ELSE "wait"
        /\ \A q \in Requests \ {r} : pc'[q] = pc[q] /\ now'[q] = now[q]
        /\ now' \in [Requests -> 0..MaxTime] /\ now'[r] <= clock
    <3>1. CASE queue[l] = << >>
      <4>1. pc' = [pc EXCEPT ![r] = "load"] /\ now' = [now EXCEPT ![r] = clock]
        BY <2>1, <3>1 DEF Load
      <4>2. clock \in 0..MaxTime
        BY DEF Inv, TypeOK
      <4>3. clock <= clock
        BY <4>2, BoundsAreNatural
      <4> QED
        BY <3>1, <4>1, <4>2, <4>3 DEF Inv, TypeOK
    <3>2. CASE queue[l] # << >>
      <4>1. pc' = [pc EXCEPT ![r] = "wait"] /\ now' = now
        BY <2>1, <3>2
      <4> QED
        BY <3>2, <4>1 DEF Inv, TypeOK, AgeInv
    <3> QED
      BY <3>1, <3>2
  <2>6. TypeOK'
    <3>1. lockOf' \in [Keys -> Requests \cup {NoRequest}]
          /\ lock' \in [Requests -> Requests \cup {NoRequest}]
      BY <1>2, <2>1, <2>2 DEF Inv, TypeOK
    <3> QED
      BY <1>1, <1>3, <2>1, <2>4, <2>5, <3>1 DEF Inv, TypeOK, Cached
  <2>7. LockInv(r)'
    BY <1>1, <2>2, <2>3, <2>4, <2>5 DEF LockInv
  <2>8. ASSUME NEW q \in Requests \ {r} PROVE LockInv(q)'
    <3>1. LockInv(q) /\ key[q] \in Keys
      BY DEF Inv, TypeOK
    <3>2. pc[q] \in {"wait", "load", "loaded"} => Among(q, queue'[lock[q]])
      BY <2>3, <2>4, <3>1 DEF LockInv
    <3>3. pc[q] \in {"load", "loaded"} => Head(queue'[lock[q]]) = q
      <4> SUFFICES ASSUME pc[q] \in {"load", "loaded"} PROVE Head(queue'[lock[q]]) = q
        OBVIOUS
      <4>1. /\ lock[q] \in Requests /\ queue[lock[q]] # << >>
            /\ Head(queue[lock[q]]) = q
        BY <3>1, HeadOf, SMTT(30) DEF LockInv, Inv, TypeOK
      <4> QED
        BY <2>3, <2>4, <4>1
    <3>4. pc[q] \in {"wait", "load", "loaded"} /\ key[q] \notin dropped =>
              lock[q] = lockOf'[key[q]]
      <4>1. CASE key[q] = k
        <5> SUFFICES ASSUME pc[q] \in {"wait", "load", "loaded"}, key[q] \notin dropped
                     PROVE  lock[q] = lockOf'[key[q]]
          OBVIOUS
        <5>1. lock[q] \in Requests /\ lock[q] = lockOf[k]
          BY <3>1, <4>1 DEF LockInv
        <5>2. lockOf[k] # NoRequest
          BY <5>1, NoRequestIsNone
        <5> QED
          BY <2>2, <2>4, <4>1, <5>1, <5>2
      <4>2. CASE key[q] # k
        BY <2>4, <3>1, <4>2 DEF LockInv
      <4> QED
        BY <4>1, <4>2
    <3> QED
      BY <1>1, <2>4, <2>5, <3>1, <3>2, <3>3, <3>4 DEF LockInv
  <2> QED
    BY <1>1, <1>3, <2>1, <2>5, <2>6, <2>7, <2>8, QuietInv
<1> QED
  BY <1>4, <1>5

\* A waiter answers from the cache and releases the lock, or loads.
LEMMA EnterInv ==
    ASSUME Inv, NEW r \in Requests, Enter(r)
    PROVE  Inv'
<1>1. /\ pc[r] = "wait" /\ Head(queue[lock[r]]) = r
      /\ UNCHANGED <<clock, data, changing, key, lock, floor, raced>>
      /\ UNCHANGED store
  BY DEF Enter
<1>2. CASE Fresh(key[r])
  <2>1. Answer(r) /\ Release(r) /\ UNCHANGED now
    BY <1>2 DEF Enter
  <2>2. pc'[r] = "done" /\ \A q \in Requests \ {r} : pc'[q] = pc[q]
    BY <2>1 DEF Answer, Inv, TypeOK
  <2>3. queue' \in [Requests -> Seq(Requests)]
    BY <1>1, <2>1, Released
  <2>4. \A q \in Requests : LockInv(q)'
    BY <1>1, <2>1, <2>2, LocksAfterRelease DEF store
  <2> QED
    BY <1>1, <1>2, <2>1, <2>3, <2>4, AnswerInv DEF Inv, TypeOK, DataInv
<1>3. CASE ~Fresh(key[r])
  <2>1. /\ pc' = [pc EXCEPT ![r] = "load"] /\ now' = [now EXCEPT ![r] = clock]
        /\ UNCHANGED <<got, age, queue>>
    BY <1>3 DEF Enter, Load
  <2>2. /\ pc'[r] = "load" /\ now'[r] = clock /\ clock \in 0..MaxTime /\ clock <= clock
        /\ \A q \in Requests \ {r} : pc'[q] = pc[q] /\ now'[q] = now[q]
    BY <2>1, BoundsAreNatural DEF Inv, TypeOK
  <2>3. TypeOK'
    BY <1>1, <2>1, <2>2 DEF store, Cached, Inv, TypeOK
  <2>4. \A q \in Requests : LockInv(q)'
    BY <1>1, <2>1, <2>2 DEF store, Inv, LockInv
  <2>5. floor'[r] <= data[UserOf[key[r]]]
    BY <1>1 DEF Inv, DataInv
  <2> QED
    BY <1>1, <2>1, <2>2, <2>3, <2>4, <2>5, QuietInv DEF store
<1> QED
  BY <1>2, <1>3

\* A load reads what is committed, or is raced.
LEMMA ReadInv ==
    ASSUME Inv, NEW r \in Requests, Read(r)
    PROVE  Inv'
<1> DEFINE u == UserOf[key[r]]
           read == [val |-> data[u], readAt |-> clock]
<1>1. /\ pc[r] = "load" /\ pc' = [pc EXCEPT ![r] = "loaded"]
      /\ got' = [got EXCEPT ![r] = read]
      /\ raced' = raced \cup ({u} \cap changing)
      /\ UNCHANGED <<clock, data, changing, queue, key, lock, now, floor, age>>
      /\ UNCHANGED store
  BY DEF Read
<1>2. u \in Users /\ data[u] \in 0..MaxChanges /\ clock \in 0..MaxTime
  BY KeysHaveUsers DEF Inv, TypeOK
<1>3. read \in [val : 0..MaxChanges, readAt : 0..MaxTime]
  BY <1>2
<1>4. TypeOK'
  <2>1. got' \in [Requests -> [val : 0..MaxChanges, readAt : 0..MaxTime]]
    BY <1>1, <1>3 DEF Inv, TypeOK
  <2>2. pc' \in [Requests -> {"new", "wait", "load", "loaded", "done", "failed"}]
        /\ raced' \subseteq Users
    BY <1>1, <1>2 DEF Inv, TypeOK
  <2> QED
    BY <1>1, <2>1, <2>2 DEF store, Cached, Inv, TypeOK
<1>5. /\ pc'[r] = "loaded" /\ got'[r].val = data[u] /\ got'[r].readAt = clock
      /\ \A q \in Requests \ {r} : pc'[q] = pc[q] /\ got'[q] = got[q]
  BY <1>1 DEF Inv, TypeOK
<1>6. now[r] <= clock /\ floor[r] <= data[u]
  BY DEF Inv, AgeInv, DataInv
<1>7. \A q \in Requests : LockInv(q)'
  BY <1>1, <1>5 DEF store, Inv, LockInv
<1> QED
  BY <1>1, <1>4, <1>5, <1>6, <1>7, QuietInv DEF store

\* A load that raises releases its lock.
LEMMA FailsInv ==
    ASSUME Inv, NEW r \in Requests, Fails(r)
    PROVE  Inv'
<1>1. /\ pc[r] = "load" /\ pc' = [pc EXCEPT ![r] = "failed"] /\ Release(r)
      /\ UNCHANGED <<clock, data, changing, key, lock, now, got, floor, age, raced>>
      /\ UNCHANGED store
  BY DEF Fails
<1>2. pc'[r] = "failed" /\ \A q \in Requests \ {r} : pc'[q] = pc[q]
  BY <1>1 DEF Inv, TypeOK
<1>3. Head(queue[lock[r]]) = r
  BY <1>1 DEF Inv, LockInv
<1>4. queue' \in [Requests -> Seq(Requests)]
  BY <1>1, <1>3, Released
<1>5. TypeOK'
  BY <1>1, <1>4 DEF store, Cached, Inv, TypeOK
<1>6. \A q \in Requests : LockInv(q)'
  BY <1>1, <1>2, <1>3, LocksAfterRelease DEF store
<1>7. now[r] <= clock /\ floor[r] <= data[UserOf[key[r]]]
  BY DEF Inv, AgeInv, DataInv
<1> QED
  BY <1>1, <1>2, <1>5, <1>6, <1>7, QuietInv DEF store

-----------------------------------------------------------------------------
(* The cache changes. *)

\* Taking keys out of the cache keeps the order of the others.
LEMMA CacheAfterTaking ==
    ASSUME Inv, NEW gone \in SUBSET Cached, Cached' = Cached \ gone,
           before' = Without(gone)
    PROVE  OrderInv' /\ CacheIsBounded' /\ before' \subseteq Cached' \X Cached'
<1>1. IsFiniteSet(Cached) /\ Cardinality(Cached) <= MaxEntries
  BY DEF Inv, OrderInv, CacheIsHonest, CacheIsBounded
<1>2. IsFiniteSet(Cached') /\ Cardinality(Cached') <= Cardinality(Cached)
  BY <1>1, FS_Subset
<1>3. Cardinality(Cached) \in Nat /\ Cardinality(Cached') \in Nat
  BY <1>1, <1>2, FS_CardinalityType
<1>4. CacheIsBounded'
  BY <1>1, <1>2, <1>3, SizesArePositive DEF CacheIsBounded
<1>5. \A j, k \in Cached' : <<j, k>> \in before' <=> <<j, k>> \in before
  BY DEF Without
<1>6. before' \subseteq Cached' \X Cached'
  BY DEF Without, Inv, TypeOK
<1>7. OrderInv'
  BY <1>2, <1>5 DEF Inv, OrderInv
<1> QED
  BY <1>4, <1>6, <1>7

\* A full cache makes room: some entry has expired, or one is the first.
LEMMA VictimsMakeRoom ==
    ASSUME Inv, NEW r \in Requests
    PROVE  /\ Victims(r) \subseteq Cached /\ IsFiniteSet(Cached \ Victims(r))
           /\ Cardinality(Cached \ Victims(r)) <= MaxEntries - 1
<1> DEFINE expired == {k \in Cached : cache[k].until <= now[r]}
           first == {k \in Cached : \A j \in Cached \ {k} : <<k, j>> \in before}
           left == Cached \ Victims(r)
<1>1. /\ IsFiniteSet(Cached) /\ Cardinality(Cached) <= MaxEntries
      /\ Cardinality(Cached) \in Nat
  BY FS_CardinalityType DEF Inv, OrderInv, CacheIsHonest, CacheIsBounded
<1>2. Victims(r) \subseteq Cached
  BY DEF Victims
<1>3. IsFiniteSet(left) /\ Cardinality(left) \in Nat
  BY <1>1, FS_Subset, FS_CardinalityType
<1>4. CASE Cardinality(Cached) < MaxEntries
  <2>1. left = Cached
    BY <1>4 DEF Victims
  <2> QED
    BY <1>1, <1>2, <1>3, <1>4, <2>1, SizesArePositive
<1>5. CASE ~(Cardinality(Cached) < MaxEntries)
  <2>1. Cached # {}
    BY <1>1, <1>5, FS_EmptySet, SizesArePositive
  <2>2. first # {}
    <3>1. \E x \in Cached : \A y \in Cached \ {x} : <<x, y>> \in before
      BY <1>1, <2>1, FirstExists DEF Inv, OrderInv
    <3> QED
      BY <3>1
  <2>3. Victims(r) = IF expired # {} THEN expired ELSE first
    BY <1>5 DEF Victims
  <2>4. PICK v \in Cached : v \in Victims(r)
    <3> HIDE DEF expired, first
    <3> QED
      BY <1>2, <2>2, <2>3
  <2>5. /\ IsFiniteSet(Cached \ {v}) /\ Cardinality(Cached \ {v}) = Cardinality(Cached) - 1
        /\ Cardinality(left) <= Cardinality(Cached \ {v})
    <3>1. IsFiniteSet(Cached \ {v}) /\ Cardinality(Cached \ {v}) = Cardinality(Cached) - 1
      BY <1>1, FS_RemoveElement
    <3>2. left \subseteq Cached \ {v}
      BY <2>4
    <3> QED
      BY <3>1, <3>2, FS_Subset
  <2> QED
    BY <1>1, <1>2, <1>3, <1>5, <2>5, SizesArePositive
<1> QED
  BY <1>4, <1>5

\* Storing a result keeps the cache bounded and in order: what is new is last.
LEMMA CacheAfterStore ==
    ASSUME Inv, NEW r \in Requests, Store(r)
    PROVE  /\ Cached' = (Cached \ Victims(r)) \cup {key[r]}
           /\ OrderInv' /\ CacheIsBounded' /\ before' \subseteq Cached' \X Cached'
<1> DEFINE k == key[r]
           left == Cached \ Victims(r)
<1>1. /\ Cached' = left \cup {k}
      /\ before' = Without(Victims(r)) \cup (IF k \in left THEN {} ELSE left \X {k})
  BY DEF Store, Cached
<1>2. IsFiniteSet(left) /\ Cardinality(left) <= MaxEntries - 1 /\ Cardinality(left) \in Nat
  BY VictimsMakeRoom, FS_CardinalityType
<1>3. IsFiniteSet(Cached') /\ Cardinality(Cached') <= Cardinality(left) + 1
  <2>1. IsFiniteSet(left \cup {k})
        /\ Cardinality(left \cup {k}) = IF k \in left THEN Cardinality(left)
                                        ELSE Cardinality(left) + 1
    BY <1>2, FS_AddElement
  <2> QED
    BY <1>1, <1>2, <2>1
<1>4. CacheIsBounded'
  <2>1. Cardinality(Cached') \in Nat
    BY <1>3, FS_CardinalityType
  <2> QED
    BY <1>2, <1>3, <2>1, SizesArePositive DEF CacheIsBounded
<1>5. /\ \A i, j \in left : <<i, j>> \in before' <=> <<i, j>> \in before
      /\ \A i \in left : k \notin left => <<i, k>> \in before' /\ <<k, i>> \notin before'
      /\ k \notin left => <<k, k>> \notin before'
  <2>1. \A i, j \in left : <<i, j>> \in Without(Victims(r)) <=> <<i, j>> \in before
    BY DEF Without
  <2>2. \A i \in Cached \cup {k} :
            k \notin left => <<k, i>> \notin Without(Victims(r))
    BY DEF Without, Inv, TypeOK
  <2>3. CASE k \in left
    BY <1>1, <2>1, <2>3
  <2>4. CASE k \notin left
    <3>1. before' = Without(Victims(r)) \cup (left \X {k})
      BY <1>1, <2>4
    <3>2. \A i, j : <<i, j>> \in left \X {k} <=> i \in left /\ j = k
      OBVIOUS
    <3>3. \A i, j : <<i, j>> \in before' <=>
              <<i, j>> \in Without(Victims(r)) \/ (i \in left /\ j = k)
      BY <3>1, <3>2
    <3>4. \A i \in left : i \in Cached
      OBVIOUS
    <3> HIDE DEF left
    <3> QED
      BY <2>1, <2>2, <2>4, <3>3, <3>4
  <2> QED
    BY <2>3, <2>4
<1>6. before' \subseteq Cached' \X Cached'
  <2>1. Without(Victims(r)) \subseteq left \X left
    BY DEF Without, Inv, TypeOK
  <2> HIDE DEF left
  <2> QED
    BY <1>1, <2>1
<1>7. OrderInv'
  <2>1. /\ \A i, j \in left : i # j => <<i, j>> \in before \/ <<j, i>> \in before
        /\ \A h, i, j \in left :
               <<h, i>> \in before /\ <<i, j>> \in before => <<h, j>> \in before
    BY DEF Inv, OrderInv
  <2> HIDE DEF left
  <2>2. ASSUME NEW i \in Cached', NEW j \in Cached', i # j
        PROVE  <<i, j>> \in before' \/ <<j, i>> \in before'
    <3>1. CASE i \in left /\ j \in left
      BY <1>5, <2>1, <2>2, <3>1
    <3>2. CASE i \notin left \/ j \notin left
      BY <1>1, <1>5, <2>2, <3>2
    <3> QED
      BY <3>1, <3>2
  <2>3. ASSUME NEW h \in Cached', NEW i \in Cached', NEW j \in Cached',
               <<h, i>> \in before', <<i, j>> \in before'
        PROVE  <<h, j>> \in before'
    <3>1. h \in left /\ i \in left
      BY <1>1, <1>5, <2>3
    <3>2. CASE j \in left
      BY <1>5, <2>1, <2>3, <3>1, <3>2
    <3>3. CASE j \notin left
      BY <1>1, <1>5, <3>1, <3>3
    <3> QED
      BY <3>2, <3>3
  <2> QED
    BY <1>3, <2>2, <2>3 DEF OrderInv
<1> QED
  BY <1>1, <1>4, <1>6, <1>7

\* A load's result is stored with the time it counts from, and shows what is
\* committed unless it is raced.
LEMMA StoreInv ==
    ASSUME Inv, NEW r \in Requests, Store(r)
    PROVE  Inv'
<1> DEFINE k == key[r]
           u == UserOf[k]
           left == Cached \ Victims(r)
           entry == [val |-> got[r].val, readAt |-> got[r].readAt, until |-> Until(r)]
<1>1. /\ pc[r] = "loaded" /\ pc' = [pc EXCEPT ![r] = "done"]
      /\ cache' = [j \in left \cup {k} |-> IF j = k THEN entry ELSE cache[j]]
      /\ lockOf' = [j \in Keys |-> IF j \in Victims(r) THEN NoRequest ELSE lockOf[j]]
      /\ dropped' = dropped \cup Victims(r)
      /\ Release(r)
      /\ UNCHANGED <<clock, data, changing, key, lock, now, got, floor, age, raced>>
  BY DEF Store
<1>2. /\ Cached' = left \cup {k} /\ OrderInv' /\ CacheIsBounded'
      /\ before' \subseteq Cached' \X Cached'
  BY CacheAfterStore
<1>3. k \in Keys /\ u \in Users /\ Victims(r) \subseteq Keys
  BY KeysHaveUsers DEF Inv, TypeOK, Victims
<1>4. /\ got[r].val \in 0..MaxChanges /\ got[r].readAt \in 0..MaxTime
      /\ now[r] \in 0..MaxTime /\ now[r] <= got[r].readAt
  BY <1>1 DEF Inv, TypeOK, AgeInv
<1>5. entry.until <= entry.readAt + Ttl /\ entry.until \in 0..(MaxTime + Ttl)
  BY <1>4, BoundsAreNatural, SizesArePositive DEF Until
<1>6. /\ cache'[k] = entry
      /\ \A j \in Cached' : j # k => j \in Cached /\ cache'[j] = cache[j]
  BY <1>1, <1>2
<1>7. pc'[r] = "done" /\ \A q \in Requests \ {r} : pc'[q] = pc[q]
  BY <1>1 DEF Inv, TypeOK
<1>8. Head(queue[lock[r]]) = r
  BY <1>1 DEF Inv, LockInv
<1>9. TypeOK'
  <2>1. queue' \in [Requests -> Seq(Requests)]
    BY <1>1, <1>8, Released
  <2>2. entry \in Entry
    BY <1>4, <1>5 DEF Entry
  <2>3. Cached' \subseteq Keys /\ \A j \in Cached' : cache'[j] \in Entry'
    <3>1. Entry' = Entry
      BY DEF Entry
    <3>2. Cached \subseteq Keys /\ \A j \in Cached : cache[j] \in Entry
      BY DEF Inv, TypeOK
    <3>3. \A j \in Cached' : cache'[j] \in Entry
      BY <1>6, <2>2, <3>2
    <3> QED
      BY <1>2, <1>3, <3>1, <3>2, <3>3
  <2>4. /\ pc' \in [Requests -> {"new", "wait", "load", "loaded", "done", "failed"}]
        /\ lockOf' \in [Keys -> Requests \cup {NoRequest}]
        /\ dropped' \subseteq Keys
    BY <1>1, <1>3 DEF Inv, TypeOK
  <2> QED
    BY <1>1, <1>2, <2>1, <2>3, <2>4 DEF Inv, TypeOK
<1>10. AgeInv'
  BY <1>1, <1>5, <1>6, <1>7 DEF Inv, AgeInv
<1>11. u \notin raced => u \notin changing /\ got[r].val = data[u]
  BY <1>1 DEF Inv, DataInv
<1>12. DataInv'
  <2>1. \A j \in Cached' : UserOf[j] \notin raced' =>
            UserOf[j] \notin changing' /\ cache'[j].val = data'[UserOf[j]]
    BY <1>1, <1>6, <1>11 DEF Inv, DataInv
  <2>2. \A q \in Requests : pc'[q] = "loaded" => q # r /\ pc[q] = "loaded"
    BY <1>7
  <2> QED
    BY <1>1, <2>1, <2>2 DEF Inv, DataInv
<1>13. \A q \in Requests : LockInv(q)'
  <2>1. \A j \in Keys \ dropped' : lockOf'[j] = lockOf[j]
    BY <1>1
  <2> QED
    BY <1>1, <1>7, <1>8, <2>1, LocksAfterRelease
<1>14. CachedAnswersAreYoung' /\ MutationsAreVisible'
  <2>1. CachedAnswersAreYoung'
    BY <1>1 DEF Inv, CacheIsHonest, CachedAnswersAreYoung
  <2>2. u \notin raced => got[r].val >= floor[r]
    <3>1. floor[r] <= data[u]
      BY DEF Inv, DataInv
    <3>2. floor[r] \in Int /\ data[u] \in Int
      BY <1>3 DEF Inv, TypeOK
    <3> QED
      BY <1>11, <3>1, <3>2
  <2>3. MutationsAreVisible'
    BY <1>1, <1>7, <2>2 DEF Inv, CacheIsHonest, MutationsAreVisible
  <2> QED
    BY <2>1, <2>3
<1> QED
  BY <1>2, <1>9, <1>10, <1>12, <1>13, <1>14 DEF Inv, CacheIsHonest

\* An invalidation takes the user's entries and their locks away.
LEMMA InvalidateInv ==
    ASSUME Inv, NEW u \in Users, Invalidate(u), UNCHANGED queue, UNCHANGED coroutine
    PROVE  /\ \A k \in Cached' : k \in Cached /\ UserOf[k] # u /\ cache'[k] = cache[k]
           /\ OrderInv' /\ CacheIsBounded' /\ before' \subseteq Cached' \X Cached'
           /\ lockOf' \in [Keys -> Requests \cup {NoRequest}] /\ dropped' \subseteq Keys
           /\ \A q \in Requests : LockInv(q)'
<1> DEFINE gone == {k \in Cached : UserOf[k] = u}
<1>1. /\ cache' = [k \in Cached \ gone |-> cache[k]]
      /\ before' = Without(gone)
      /\ lockOf' = [k \in Keys |-> IF k \in gone THEN NoRequest ELSE lockOf[k]]
      /\ dropped' = dropped \cup gone
  BY DEF Invalidate
<1>2. Cached' = Cached \ gone
  BY <1>1 DEF Cached
<1>3. OrderInv' /\ CacheIsBounded' /\ before' \subseteq Cached' \X Cached'
  BY <1>1, <1>2, CacheAfterTaking
<1>4. \A k \in Cached' : k \in Cached /\ UserOf[k] # u /\ cache'[k] = cache[k]
  BY <1>1, <1>2
<1>5. lockOf' \in [Keys -> Requests \cup {NoRequest}] /\ dropped' \subseteq Keys
  BY <1>1 DEF Inv, TypeOK
<1>6. \A k \in Keys \ dropped' : lockOf'[k] = lockOf[k]
  BY <1>1
<1>7. ASSUME NEW q \in Requests PROVE LockInv(q)'
  <2>1. LockInv(q) /\ key[q] \in Keys
    BY DEF Inv, TypeOK
  <2> QED
    BY <1>1, <1>6, <2>1 DEF LockInv, coroutine
<1> QED
  BY <1>3, <1>4, <1>5, <1>7

\* What changes nothing but the data and the clock keeps the cache and the
\* locks.
LEMMA StoreKept ==
    ASSUME Inv, UNCHANGED store, UNCHANGED queue, UNCHANGED coroutine
    PROVE  /\ Cached' = Cached /\ OrderInv' /\ CacheIsBounded'
           /\ \A q \in Requests : LockInv(q)'
<1>1. OrderInv' /\ CacheIsBounded' /\ Cached' = Cached
  BY CacheKept DEF store
<1>2. \A q \in Requests : LockInv(q)'
  BY DEF store, coroutine, Inv, LockInv
<1> QED
  BY <1>1, <1>2

\* A change that waits for its commit has invalidated, or is raced.
LEMMA ChangeInv ==
    ASSUME Inv, NEW u \in Users, Change(u)
    PROVE  Inv'
<1>1. /\ changing' = changing \cup {u}
      /\ UNCHANGED <<clock, data, queue>> /\ UNCHANGED coroutine
      /\ UNCHANGED <<pc, key, lock, now, got, floor, age>>
  BY DEF Change, coroutine
<1>2. raced \subseteq raced' /\ raced' \subseteq raced \cup {u}
  BY DEF Change
<1>3. /\ CachedAnswersAreYoung' /\ MutationsAreVisible'
      /\ \A q \in Requests : now'[q] <= clock'
      /\ \A q \in Requests : pc'[q] = "loaded" => now'[q] <= got'[q].readAt
      /\ \A q \in Requests : floor'[q] <= data'[UserOf[key'[q]]]
  BY <1>1, <1>2 DEF Inv, AgeInv, DataInv, CacheIsHonest, CachedAnswersAreYoung,
                    MutationsAreVisible
<1>4. \A q \in Requests : pc[q] = "loaded" /\ UserOf[key[q]] = u => u \in raced'
  BY DEF Change, Loaded
<1>5. \A q \in Requests : pc'[q] = "loaded" /\ UserOf[key'[q]] \notin raced' =>
          /\ UserOf[key'[q]] \notin changing'
          /\ got'[q].val = data'[UserOf[key'[q]]]
  BY <1>1, <1>2, <1>4 DEF Inv, DataInv
<1>6. /\ OrderInv' /\ CacheIsBounded' /\ before' \subseteq Cached' \X Cached'
      /\ lockOf' \in [Keys -> Requests \cup {NoRequest}] /\ dropped' \subseteq Keys
      /\ \A q \in Requests : LockInv(q)'
      /\ \A k \in Cached' : k \in Cached /\ cache'[k] = cache[k]
      /\ \A k \in Cached' : UserOf[k] = u => u \in raced'
  <2>1. CASE Invalidate(u)
    BY <1>1, <2>1, InvalidateInv
  <2>2. CASE UNCHANGED store /\ raced' = raced \cup {u}
    <3>1. /\ Cached' = Cached /\ OrderInv' /\ CacheIsBounded'
          /\ \A q \in Requests : LockInv(q)'
      BY <1>1, <2>2, StoreKept
    <3> QED
      BY <2>2, <3>1 DEF store, Inv, TypeOK
  <2> QED
    BY <2>1, <2>2 DEF Change
<1>7. TypeOK'
  <2>1. Cached' \subseteq Keys /\ \A k \in Cached' : cache'[k] \in Entry'
    BY <1>6 DEF Entry, Inv, TypeOK
  <2>2. changing' \subseteq Users /\ raced' \subseteq Users
    BY <1>1, <1>2 DEF Inv, TypeOK
  <2> QED
    BY <1>1, <1>6, <2>1, <2>2 DEF Inv, TypeOK
<1>8. AgeInv'
  BY <1>1, <1>3, <1>6 DEF Inv, AgeInv
<1>9. data[u] < MaxChanges
  BY DEF Change
<1>10. DataInv'
  <2>1. \A k \in Cached' : UserOf[k] \notin raced' =>
            UserOf[k] \notin changing' /\ cache'[k].val = data'[UserOf[k]]
    BY <1>1, <1>2, <1>6 DEF Inv, DataInv
  <2>2. \A v \in changing' : data'[v] < MaxChanges
    BY <1>1, <1>9 DEF Inv, DataInv
  <2> QED
    BY <1>3, <1>5, <2>1, <2>2 DEF DataInv
<1> QED
  BY <1>3, <1>6, <1>7, <1>8, <1>10 DEF Inv, CacheIsHonest

\* A commit changes data that nothing cached or loaded shows, unless it is raced.
LEMMA CommitInv ==
    ASSUME Inv, NEW u \in Users, Commit(u)
    PROVE  Inv'
<1>1. /\ u \in changing /\ changing' = changing \ {u}
      /\ data' = [data EXCEPT ![u] = @ + 1]
      /\ UNCHANGED <<clock, queue, raced>> /\ UNCHANGED store /\ UNCHANGED coroutine
      /\ UNCHANGED <<cache, before, lockOf, dropped>>
      /\ UNCHANGED <<pc, key, lock, now, got, floor, age>>
  BY DEF Commit, store, coroutine
<1>2. /\ Cached' = Cached /\ OrderInv' /\ CacheIsBounded'
      /\ \A q \in Requests : LockInv(q)'
  BY <1>1, StoreKept
<1>3. data[u] \in Nat /\ data[u] < MaxChanges
  BY <1>1, BoundsAreNatural DEF Inv, TypeOK, DataInv
<1>4. /\ data' \in [Users -> 0..MaxChanges] /\ data'[u] = data[u] + 1
      /\ \A v \in Users \ {u} : data'[v] = data[v]
  <2>1. data[u] + 1 \in 0..MaxChanges
    BY <1>3, BoundsAreNatural
  <2> QED
    BY <1>1, <2>1 DEF Inv, TypeOK
<1>5. TypeOK'
  <2>1. Cached' \subseteq Keys /\ \A k \in Cached' : cache'[k] \in Entry'
    BY <1>1, <1>2 DEF Entry, Inv, TypeOK
  <2>2. changing' \subseteq Users
    BY <1>1 DEF Inv, TypeOK
  <2> QED
    BY <1>1, <1>2, <1>4, <2>1, <2>2 DEF Inv, TypeOK
<1>6. AgeInv'
  BY <1>1, <1>2 DEF Inv, AgeInv
<1>7. \A v \in Users : data[v] \in Nat /\ data'[v] \in Nat /\ data[v] <= data'[v]
  <2>1. \A v \in Users : data[v] \in Nat
    BY BoundsAreNatural DEF Inv, TypeOK
  <2> QED
    BY <1>3, <1>4, <2>1
<1>8. DataInv'
  <2>1. \A k \in Cached' : UserOf[k] \notin raced' =>
            UserOf[k] \notin changing' /\ cache'[k].val = data'[UserOf[k]]
    BY <1>1, <1>2, <1>4, KeysHaveUsers DEF Inv, TypeOK, DataInv
  <2>2. \A q \in Requests : pc'[q] = "loaded" /\ UserOf[key'[q]] \notin raced' =>
            /\ UserOf[key'[q]] \notin changing'
            /\ got'[q].val = data'[UserOf[key'[q]]]
    BY <1>1, <1>4, KeysHaveUsers DEF Inv, TypeOK, DataInv
  <2>3. \A q \in Requests : floor'[q] <= data'[UserOf[key'[q]]]
    <3>1. ASSUME NEW q \in Requests PROVE floor[q] <= data'[UserOf[key[q]]]
      <4>1. floor[q] \in Int /\ floor[q] <= data[UserOf[key[q]]]
            /\ UserOf[key[q]] \in Users
        BY KeysHaveUsers DEF Inv, TypeOK, DataInv
      <4> QED
        BY <1>7, <4>1
    <3> QED
      BY <1>1, <3>1
  <2>4. \A v \in changing' : data'[v] < MaxChanges
    BY <1>1, <1>4 DEF Inv, TypeOK, DataInv
  <2> QED
    BY <2>1, <2>2, <2>3, <2>4 DEF DataInv
<1>9. CachedAnswersAreYoung' /\ MutationsAreVisible'
  BY <1>1 DEF Inv, CacheIsHonest, CachedAnswersAreYoung, MutationsAreVisible
<1> QED
  BY <1>2, <1>5, <1>6, <1>8, <1>9 DEF Inv, CacheIsHonest

\* Time passes.
LEMMA TickInv ==
    ASSUME Inv, Tick
    PROVE  Inv'
<1>1. /\ clock < MaxTime /\ clock' = clock + 1
      /\ UNCHANGED <<data, changing, queue, raced>>
      /\ UNCHANGED store /\ UNCHANGED coroutine
      /\ UNCHANGED <<cache, before, lockOf, dropped>>
      /\ UNCHANGED <<pc, key, lock, now, got, floor, age>>
  BY DEF Tick, store, coroutine
<1>2. /\ Cached' = Cached /\ OrderInv' /\ CacheIsBounded'
      /\ \A q \in Requests : LockInv(q)'
  BY <1>1, StoreKept
<1>3. clock' \in 0..MaxTime /\ clock \in Int /\ clock <= clock'
  <2>1. clock \in 0..MaxTime
    BY DEF Inv, TypeOK
  <2> QED
    BY <1>1, <2>1, BoundsAreNatural
<1>4. TypeOK'
  <2>1. Cached' \subseteq Keys /\ \A k \in Cached' : cache'[k] \in Entry'
    BY <1>1, <1>2 DEF Entry, Inv, TypeOK
  <2> QED
    BY <1>1, <1>2, <1>3, <2>1 DEF Inv, TypeOK
<1>5. AgeInv'
  <2>1. ASSUME NEW q \in Requests PROVE now[q] <= clock'
    <3>1. now[q] \in 0..MaxTime /\ now[q] <= clock
      BY DEF Inv, TypeOK, AgeInv
    <3> QED
      BY <1>3, <3>1, BoundsAreNatural
  <2> QED
    BY <1>1, <1>2, <2>1 DEF Inv, AgeInv
<1>6. DataInv'
  BY <1>1, <1>2 DEF Inv, DataInv
<1>7. CachedAnswersAreYoung' /\ MutationsAreVisible'
  BY <1>1 DEF Inv, CacheIsHonest, CachedAnswersAreYoung, MutationsAreVisible
<1> QED
  BY <1>2, <1>4, <1>5, <1>6, <1>7 DEF Inv, CacheIsHonest

-----------------------------------------------------------------------------
(* Theorems. *)

\* Every step keeps the invariant.
LEMMA NextInv == Inv /\ [Next]_vars => Inv'
<1> SUFFICES ASSUME Inv, [Next]_vars PROVE Inv'
  OBVIOUS
<1>1. ASSUME NEW r \in Requests, Run(r) PROVE Inv'
  BY <1>1, StartInv, EnterInv, ReadInv, FailsInv, StoreInv DEF Run
<1>2. ASSUME NEW u \in Users, Change(u) \/ Commit(u) PROVE Inv'
  BY <1>2, ChangeInv, CommitInv
<1>3. CASE Tick
  BY <1>3, TickInv
<1>4. CASE UNCHANGED vars
  <2>1. /\ UNCHANGED <<clock, data, changing, cache, before, lockOf, dropped, queue,
                       pc, key, lock, now, got, floor, age, raced>>
        /\ UNCHANGED store /\ UNCHANGED coroutine
    BY <1>4 DEF vars, store, coroutine
  <2>2. /\ Cached' = Cached /\ OrderInv' /\ CacheIsBounded'
        /\ \A q \in Requests : LockInv(q)'
    BY <2>1, StoreKept
  <2>3. TypeOK'
    BY <2>1, <2>2 DEF Inv, TypeOK, Entry
  <2> QED
    BY <2>1, <2>2, <2>3 DEF Inv, AgeInv, DataInv, CacheIsHonest,
                            CachedAnswersAreYoung, MutationsAreVisible
<1> QED
  BY <1>1, <1>2, <1>3, <1>4 DEF Next

\* The invariant holds in every behaviour.
THEOREM Invariance == Spec => []Inv
<1>1. Init => Inv
  BY InitInv
<1>2. Inv /\ [Next]_vars => Inv'
  BY NextInv
<1> QED
  BY <1>1, <1>2, PTL DEF Spec

\* portfolio_dashboard_cache.py: the cache is bounded by _MAX_ENTRIES, answers
\* from it are younger than _TTL, and no answer hides a change that was
\* committed when its request began, but for the loads that a change raced.
THEOREM CacheIsAlwaysHonest == Spec => []CacheIsHonest
<1>1. Inv => CacheIsHonest
  BY DEF Inv
<1> QED
  BY <1>1, Invariance, PTL

\* A step starts the load of one request, of a key that is not fresh.
LEMMA LoadStarts ==
    ASSUME Inv, [Next]_vars, NEW r \in Requests, pc[r] # "load", pc'[r] = "load"
    PROVE  ~Fresh(key[r]) /\ (Start(r) \/ Enter(r))
<1>1. \A q \in Requests : Run(q) => \A p \in Requests \ {q} : pc'[p] = pc[p]
  BY SMTT(30) DEF Run, Start, Enter, Read, Fails, Store, Answer, Load, Inv, TypeOK
<1>2. \A u \in Users : Change(u) \/ Commit(u) => pc' = pc
  BY DEF Change, Commit, coroutine
<1>3. Tick \/ UNCHANGED vars => pc' = pc
  BY DEF Tick, coroutine, vars
<1>4. Run(r)
  BY <1>1, <1>2, <1>3 DEF Next
<1>5. Read(r) \/ Fails(r) \/ Store(r) => pc'[r] \in {"loaded", "failed", "done"}
  BY DEF Read, Fails, Store, Inv, TypeOK
<1>6. Start(r) \/ Enter(r)
  BY <1>4, <1>5 DEF Run
<1>7. Fresh(key[r]) => pc'[r] = "done"
  BY <1>6 DEF Start, Enter, Answer, Inv, TypeOK
<1> QED
  BY <1>6, <1>7

\* Who loads is alone at the head of the lock that its key still has.
LEMMA CoalescedInv ==
    ASSUME Inv, [Next]_vars, NEW r \in Requests, pc[r] # "load", pc'[r] = "load",
           key[r] \notin dropped
    PROVE  CoalescedLoad(r)
<1>1. ~Fresh(key[r]) /\ (Start(r) \/ Enter(r))
  BY LoadStarts
<1>2. ASSUME NEW q \in Requests \ {r}, key[q] = key[r], pc[q] \in {"load", "loaded"}
      PROVE  FALSE
  <2>1. /\ lock[q] \in Requests /\ lock[q] = lockOf[key[r]]
        /\ Among(q, queue[lock[q]]) /\ Head(queue[lock[q]]) = q
    BY <1>2 DEF Inv, LockInv
  <2>2. queue[lock[q]] # << >>
    BY <2>1, HeadOf DEF Inv, TypeOK
  <2>3. CASE Start(r)
    <3>1. LockFor(r) = lock[q]
      BY <2>1, NoRequestIsNone DEF LockFor
    <3>2. pc' = [pc EXCEPT ![r] = "wait"]
      BY <1>1, <2>2, <2>3, <3>1 DEF Start
    <3> QED
      BY <3>2 DEF Inv, TypeOK
  <2>4. CASE Enter(r)
    <3>1. pc[r] = "wait" /\ Head(queue[lock[r]]) = r
      BY <2>4 DEF Enter
    <3>2. lock[r] = lockOf[key[r]]
      BY <3>1 DEF Inv, LockInv
    <3> QED
      BY <2>1, <3>1, <3>2
  <2> QED
    BY <1>1, <2>3, <2>4
<1> QED
  BY <1>1, <1>2 DEF CoalescedLoad

\* portfolio_dashboard_cache.py:15, "Coalesce identical in-flight reads": of a
\* dashboard whose lock was not dropped one load runs at a time.
THEOREM LoadsAreAlwaysCoalesced == Spec => LoadsAreCoalesced
<1>1. Inv /\ [Next]_vars =>
          [\A r \in Requests :
               pc[r] # "load" /\ pc'[r] = "load" /\ key[r] \notin dropped =>
                   CoalescedLoad(r)]_vars
  BY CoalescedInv
<1> QED
  BY <1>1, Invariance, PTL DEF Spec, LoadsAreCoalesced


-----------------------------------------------------------------------------
(* HoldingLedger.  A file is read row by row, and what has been read of it   *)
(* weighs what its rows weigh.  FoldLeft takes the greatest index of a set   *)
(* of rows, reads the others first, and then the row there.                  *)

\* A fold over S that takes c[s] of a set s.
Folds(it, c, G, base, S) ==
    it = [s \in SUBSET S |-> IF s = {} THEN base ELSE G[<<c[s], it[s \ {c[s]}]>>]]

\* Up to a size.
FoldsTo(it, c, G, base, S, n) ==
    \A s \in SUBSET S :
        Cardinality(s) <= n => it[s] = IF s = {} THEN base ELSE G[<<c[s], it[s \ {c[s]}]>>]

\* That recursion has a solution.
LEMMA FoldsExist ==
    ASSUME NEW S, IsFiniteSet(S), NEW G, NEW base,
           NEW c, \A s \in SUBSET S : s # {} => c[s] \in s
    PROVE  \E it : Folds(it, c, G, base, S)
<1> DEFINE sizes == {n \in Nat : \E it : FoldsTo(it, c, G, base, S, n)}
<1>1. \A s \in SUBSET S :
          /\ IsFiniteSet(s) /\ Cardinality(s) \in Nat /\ Cardinality(s) <= Cardinality(S)
          /\ (s # {} => /\ s \ {c[s]} \in SUBSET S
                        /\ Cardinality(s \ {c[s]}) = Cardinality(s) - 1)
  <2> SUFFICES ASSUME NEW s \in SUBSET S
               PROVE  /\ IsFiniteSet(s) /\ Cardinality(s) \in Nat
                      /\ Cardinality(s) <= Cardinality(S)
                      /\ (s # {} => /\ s \ {c[s]} \in SUBSET S
                                    /\ Cardinality(s \ {c[s]}) = Cardinality(s) - 1)
    OBVIOUS
  <2>1. IsFiniteSet(s) /\ Cardinality(s) \in Nat /\ Cardinality(s) <= Cardinality(S)
    BY FS_Subset, FS_CardinalityType
  <2>2. s # {} => c[s] \in s
    OBVIOUS
  <2> QED
    BY <2>1, <2>2, FS_RemoveElement
<1>2. 0 \in sizes
  <2>1. \A s \in SUBSET S : Cardinality(s) <= 0 => s = {}
    <3> SUFFICES ASSUME NEW s \in SUBSET S, Cardinality(s) <= 0 PROVE s = {}
      OBVIOUS
    <3>1. IsFiniteSet(s) /\ Cardinality(s) \in Nat
      BY <1>1
    <3>2. \A n \in Nat : n <= 0 => n = 0
      OBVIOUS
    <3>3. Cardinality(s) = 0
      BY <3>1, <3>2
    <3> QED
      BY <3>1, <3>3, FS_EmptySet
  <2>2. FoldsTo([s \in SUBSET S |-> base], c, G, base, S, 0)
    BY <2>1 DEF FoldsTo
  <2> QED
    BY <2>2
<1>3. ASSUME NEW n \in Nat, n \in sizes PROVE n + 1 \in sizes
  <2>1. PICK it : FoldsTo(it, c, G, base, S, n)
    BY <1>3
  <2> DEFINE next == [s \in SUBSET S |-> IF s = {} THEN base ELSE G[<<c[s], it[s \ {c[s]}]>>]]
  <2>2. \A s \in SUBSET S : Cardinality(s) <= n => next[s] = it[s]
    BY <2>1 DEF FoldsTo
  <2>3. ASSUME NEW s \in SUBSET S, Cardinality(s) <= n + 1
        PROVE  next[s] = IF s = {} THEN base ELSE G[<<c[s], next[s \ {c[s]}]>>]
    <3>1. CASE s = {}
      BY <3>1
    <3>2. CASE s # {}
      <4>1. s \ {c[s]} \in SUBSET S /\ Cardinality(s \ {c[s]}) <= n
        <5>1. Cardinality(s) \in Nat /\ Cardinality(s) <= n + 1
          BY <1>1, <2>3
        <5>2. s \ {c[s]} \in SUBSET S /\ Cardinality(s \ {c[s]}) = Cardinality(s) - 1
          BY <1>1, <3>2
        <5> QED
          BY <5>1, <5>2
      <4>2. next[s \ {c[s]}] = it[s \ {c[s]}]
        BY <2>2, <4>1
      <4>3. next[s] = G[<<c[s], it[s \ {c[s]}]>>]
        BY <3>2
      <4> HIDE DEF next
      <4> QED
        BY <3>2, <4>2, <4>3
    <3> QED
      BY <3>1, <3>2
  <2>4. FoldsTo(next, c, G, base, S, n + 1)
    <3> HIDE DEF next
    <3> QED
      BY <2>3 DEF FoldsTo
  <2> QED
    BY <2>4
<1>4. Cardinality(S) \in sizes
  <2> HIDE DEF sizes
  <2>1. sizes \in SUBSET Nat
    BY DEF sizes
  <2>2. sizes = Nat
    BY <1>2, <1>3, <2>1, NatSteps
  <2> QED
    BY <1>1, <2>2
<1>5. PICK it : FoldsTo(it, c, G, base, S, Cardinality(S))
  BY <1>4
<1> DEFINE whole == [s \in SUBSET S |-> it[s]]
<1>6. \A s \in SUBSET S : it[s] = IF s = {} THEN base ELSE G[<<c[s], it[s \ {c[s]}]>>]
  BY <1>1, <1>5 DEF FoldsTo
<1>7. \A s \in SUBSET S :
          whole[s] = IF s = {} THEN base ELSE G[<<c[s], whole[s \ {c[s]}]>>]
  <2> SUFFICES ASSUME NEW s \in SUBSET S
               PROVE  whole[s] = IF s = {} THEN base ELSE G[<<c[s], whole[s \ {c[s]}]>>]
    OBVIOUS
  <2>1. whole[s] = it[s] /\ (s # {} => whole[s \ {c[s]}] = it[s \ {c[s]}])
    BY <1>1
  <2> HIDE DEF whole
  <2> QED
    BY <1>6, <2>1
<1>8. Folds(whole, c, G, base, S)
  <2>1. whole = [s \in SUBSET S |-> whole[s]]
    OBVIOUS
  <2> HIDE DEF whole
  <2> QED
    BY <1>7, <2>1 DEF Folds
<1> QED
  BY <1>8

-----------------------------------------------------------------------------
(* The rows of a file. *)

Drafts == [rows : Seq(Things), merged : Nat, refused : BOOLEAN]

IsFile(file) ==
    /\ Len(file) \in Nat /\ DOMAIN file = 1..Len(file)
    /\ \A i \in DOMAIN file :
           /\ file[i].folio \in Names
           /\ file[i].fine /\ file[i].number \in Numbers => Purchase(file[i]) \in Things

\* A row becomes one more purchase, or is merged with one that is there.
Appends(soFar, next, row) ==
    /\ ~soFar.refused /\ Purchase(row) \in Things
    /\ next.rows = Append(soFar.rows, Purchase(row)) /\ next.merged = soFar.merged

More(bought, row) == [bought EXCEPT !.quantity = @ + row.quantity]

MergesAt(soFar, next, row, k) ==
    /\ k \in DOMAIN soFar.rows /\ SamePurchase(soFar.rows[k], Purchase(row))
    /\ next.rows = [soFar.rows EXCEPT ![k] = More(soFar.rows[k], row)]

Merges(soFar, next, row) ==
    /\ ~soFar.refused /\ Purchase(row) \in Things
    /\ \E k \in DOMAIN soFar.rows : MergesAt(soFar, next, row, k)
    /\ next.merged = soFar.merged + 1

\* More of a purchase is one.
LEMMA MoreIsThing ==
    ASSUME NEW bought \in Things, NEW row, row.quantity \in Nat \ {0}
    PROVE  More(bought, row) \in Things
<1>1. PICK q \in Nat \ {0} : q = row.quantity
  OBVIOUS
<1>2. bought.quantity \in Nat \ {0}
  BY DEF Things
<1>3. bought.quantity + q \in Nat \ {0}
  BY <1>2
<1>4. More(bought, row) = [bought EXCEPT !.quantity = bought.quantity + q]
  BY <1>1 DEF More
<1> QED
  BY <1>3, <1>4 DEF Things

\* A row is refused, appended or merged.
LEMMA ParsedRow ==
    ASSUME NEW soFar \in Drafts, NEW row, NEW file, NEW mode,
           row.fine /\ row.number \in Numbers => Purchase(row) \in Things,
           NEW next, next = ParseRow(file, mode, soFar, row)
    PROVE  /\ next \in Drafts
           /\ \/ next.refused
              \/ Appends(soFar, next, row)
              \/ mode = "merge" /\ Merges(soFar, next, row)
<1> DEFINE earlier == {i \in DOMAIN soFar.rows : SamePurchase(soFar.rows[i], Purchase(row))}
           bad == \/ soFar.refused
                  \/ ~row.fine \/ row.folio # file[1].folio \/ row.number \notin Numbers
                  \/ mode = "reject" /\ earlier # {}
<1>1. CASE bad
  <2>1. next = [soFar EXCEPT !.refused = TRUE]
    BY <1>1 DEF ParseRow
  <2> QED
    BY <2>1 DEF Drafts
<1>2. CASE ~bad /\ mode = "merge" /\ earlier # {}
  <2> DEFINE k == Min(earlier)
  <2>1. next = [soFar EXCEPT !.rows[k].quantity = soFar.rows[k].quantity + row.quantity,
                             !.merged = soFar.merged + 1]
    BY <1>2 DEF ParseRow
  <2>2. k \in earlier
    <3>1. soFar.rows \in Seq(Things)
      BY DEF Drafts
    <3>2. IsFiniteSet(1..Len(soFar.rows)) /\ DOMAIN soFar.rows = 1..Len(soFar.rows)
      BY <3>1, FS_Interval
    <3>3. IsFiniteSet(earlier) /\ earlier \subseteq Nat
      BY <3>2, FS_Subset
    <3> HIDE DEF earlier
    <3> QED
      BY <1>2, <3>3, GreatestIsIn
  <2>3. Purchase(row) \in Things
    BY <1>2
  <2>4. row.quantity \in Nat \ {0}
    BY <2>3 DEF Purchase, Things
  <2>5. k \in DOMAIN soFar.rows /\ SamePurchase(soFar.rows[k], Purchase(row))
    BY <2>2
  <2> HIDE DEF k, earlier
  <2>6. soFar.rows[k] \in Things /\ soFar.rows \in Seq(Things)
    BY <2>5 DEF Drafts
  <2>7. More(soFar.rows[k], row) \in Things
    BY <2>4, <2>6, MoreIsThing
  <2>8. next = [soFar EXCEPT !.rows = [soFar.rows EXCEPT ![k] = More(soFar.rows[k], row)],
                             !.merged = soFar.merged + 1]
    BY <2>1 DEF More
  <2>9. [soFar.rows EXCEPT ![k] = More(soFar.rows[k], row)] \in Seq(Things)
    BY <2>5, <2>6, <2>7
  <2>10. next \in Drafts /\ next.merged = soFar.merged + 1
         /\ next.rows = [soFar.rows EXCEPT ![k] = More(soFar.rows[k], row)]
    <3>1. PICK rows \in Seq(Things) : rows = [soFar.rows EXCEPT ![k] = More(soFar.rows[k], row)]
      BY <2>9
    <3>2. next = [soFar EXCEPT !.rows = rows, !.merged = soFar.merged + 1]
      BY <2>8, <3>1
    <3>3. soFar.merged + 1 \in Nat
      BY DEF Drafts
    <3>4. next \in Drafts /\ next.merged = soFar.merged + 1 /\ next.rows = rows
      BY <3>2, <3>3 DEF Drafts
    <3> QED
      BY <3>1, <3>4
  <2>11. MergesAt(soFar, next, row, k)
    BY <2>5, <2>10 DEF MergesAt
  <2>12. ~soFar.refused
    BY <1>2
  <2> QED
    BY <1>2, <2>3, <2>5, <2>10, <2>11, <2>12 DEF Merges
<1>3. CASE ~bad /\ ~(mode = "merge" /\ earlier # {})
  <2>1. next = [soFar EXCEPT !.rows = Append(@, Purchase(row))]
    BY <1>3 DEF ParseRow
  <2>2. Purchase(row) \in Things /\ ~soFar.refused
    BY <1>3
  <2>3. Append(soFar.rows, Purchase(row)) \in Seq(Things)
    BY <2>2 DEF Drafts
  <2> QED
    BY <2>1, <2>2, <2>3 DEF Drafts, Appends
<1> QED
  BY <1>1, <1>2, <1>3

Unread(file) == [rows |-> <<>>, merged |-> 0, refused |-> file = <<>>]

\* What has been read of each set of rows of a file.
Parses(it, file, mode) ==
    it = [s \in SUBSET DOMAIN file |->
             IF s = {} THEN Unread(file) ELSE ParseRow(file, mode, it[s \ {Max(s)}], file[Max(s)])]

\* The greatest index of a set of rows is in it.
LEMMA LastRow ==
    ASSUME NEW file, IsFile(file)
    PROVE  /\ IsFiniteSet(DOMAIN file) /\ DOMAIN file \subseteq Nat
           /\ \A s \in SUBSET DOMAIN file : s # {} => Max(s) \in s
<1>1. IsFiniteSet(DOMAIN file) /\ DOMAIN file \subseteq Nat
  BY FS_Interval DEF IsFile
<1>2. ASSUME NEW s \in SUBSET DOMAIN file, s # {} PROVE Max(s) \in s
  <2>1. IsFiniteSet(s) /\ s \subseteq Nat
    BY <1>1, FS_Subset
  <2> QED
    BY <1>2, <2>1, GreatestIsIn
<1> QED
  BY <1>1, <1>2

\* Nothing is a draft.
LEMMA UnreadIsDraft == \A file : Unread(file) \in Drafts
<1>1. << >> \in Seq(Things)
  OBVIOUS
<1> QED
  BY <1>1 DEF Unread, Drafts

\* What has been read is a draft.
LEMMA ParsesType ==
    ASSUME NEW file, IsFile(file), NEW mode, NEW it, Parses(it, file, mode)
    PROVE  \A s \in SUBSET DOMAIN file : it[s] \in Drafts
<1> DEFINE D == DOMAIN file
           T == {s \in SUBSET D : it[s] \in Drafts}
<1>1. {} \in T
  BY UnreadIsDraft DEF Parses
<1>2. ASSUME NEW s \in SUBSET D, s # {}, \A x \in s : s \ {x} \in T
      PROVE  s \in T
  <2>1. Max(s) \in s
    BY <1>2, LastRow
  <2>2. it[s \ {Max(s)}] \in Drafts
    BY <1>2, <2>1
  <2>3. it[s] = ParseRow(file, mode, it[s \ {Max(s)}], file[Max(s)])
    BY <1>2 DEF Parses
  <2>4. LET row == file[Max(s)] IN row.fine /\ row.number \in Numbers => Purchase(row) \in Things
    BY <2>1 DEF IsFile
  <2>5. it[s] \in Drafts
    BY <2>2, <2>3, <2>4, ParsedRow
  <2> QED
    BY <2>5
<1>3. IsFiniteSet(D)
  BY LastRow
<1> HIDE DEF D
<1>4. {} \in T /\ \A s \in SUBSET D : s # {} /\ (\A x \in s : s \ {x} \in T) => s \in T
  BY <1>1, <1>2
<1>5. SUBSET D \subseteq T
  <2> HIDE DEF T
  <2> QED
    BY <1>3, <1>4, SubsetSteps
<1> QED
  BY <1>5 DEF D

\* A file is read as FoldLeft reads it.
LEMMA ParsedIs ==
    ASSUME NEW file, IsFile(file), NEW mode
    PROVE  \E it : Parses(it, file, mode) /\ Parsed(file, mode) = it[DOMAIN file]
<1> DEFINE D == DOMAIN file
           c == [s \in SUBSET D |-> Max(s)]
           G == [x \in D \X Drafts |-> ParseRow(file, mode, x[2], file[x[1]])]
           rec(it) == it = [s \in SUBSET D |-> IF s = {} THEN Unread(file)
                                ELSE ParseRow(file, mode, it[s \ {Max(s)}], file[Max(s)])]
<1>1. IsFiniteSet(D) /\ \A s \in SUBSET D : s # {} => Max(s) \in s
  BY LastRow
<1>2. \A s \in SUBSET D : s # {} => c[s] \in s
  BY <1>1
<1>3. PICK it : Folds(it, c, G, Unread(file), D)
  <2> HIDE DEF c, G, D
  <2> QED
    BY <1>1, <1>2, FoldsExist
<1>4. \A i \in D : file[i].fine /\ file[i].number \in Numbers => Purchase(file[i]) \in Things
  BY DEF IsFile
<1>5. \A s \in SUBSET D : it[s] \in Drafts
  <2> DEFINE T == {s \in SUBSET D : it[s] \in Drafts}
  <2>1. {} \in T
    BY <1>3, UnreadIsDraft DEF Folds
  <2>2. ASSUME NEW s \in SUBSET D, s # {}, \A x \in s : s \ {x} \in T
        PROVE  s \in T
    <3>1. PICK m \in s : m = Max(s)
      BY <1>1, <2>2
    <3>2. it[s \ {m}] \in Drafts
      BY <2>2, <3>1
    <3>3. it[s] = G[<<m, it[s \ {m}]>>]
      BY <1>3, <2>2, <3>1 DEF Folds
    <3>4. it[s] = ParseRow(file, mode, it[s \ {m}], file[m])
      BY <3>2, <3>3
    <3>5. it[s] \in Drafts
      BY <1>4, <3>2, <3>4, ParsedRow
    <3> QED
      BY <3>5
  <2>3. SUBSET D \subseteq T
    <3> HIDE DEF T, D
    <3> QED
      BY <1>1, <2>1, <2>2, SubsetSteps
  <2> QED
    BY <2>3
<1>6. rec(it)
  <2>1. ASSUME NEW s \in SUBSET D, s # {}
        PROVE  it[s] = ParseRow(file, mode, it[s \ {Max(s)}], file[Max(s)])
    <3>1. PICK m \in s : m = Max(s)
      BY <1>1, <2>1
    <3>2. it[s] = G[<<m, it[s \ {m}]>>]
      BY <1>3, <2>1, <3>1 DEF Folds
    <3>3. it[s \ {m}] \in Drafts
      BY <1>5
    <3> QED
      BY <3>1, <3>2, <3>3
  <2>2. it[{}] = Unread(file)
    BY <1>3 DEF Folds
  <2>3. it = [s \in SUBSET D |-> it[s]]
    BY <1>3 DEF Folds
  <2> HIDE DEF D
  <2> QED
    BY <2>1, <2>2, <2>3
<1>7. Parsed(file, mode) = (CHOOSE i : rec(i))[D]
  BY DEF Parsed, FoldLeft, MapThenFoldSet, Unread
<1>8. rec(CHOOSE i : rec(i))
  <2> HIDE DEF rec
  <2> QED
    BY <1>6
<1> QED
  BY <1>7, <1>8 DEF Parses

-----------------------------------------------------------------------------
(* What the rows of a file weigh, for any weight of purchases. *)

Additive(W) ==
    \A p, q \in Things : SamePurchase(p, q) => W[More(p, q)] = W[p] + W[q]

OfRows(W, rows) == [i \in DOMAIN rows |-> W[rows[i]]]
OfFile(W, file) == [i \in DOMAIN file |-> W[Purchase(file[i])]]
RowWeight(W, rows) == Total(OfRows(W, rows), DOMAIN rows)

\* Rows are finitely many, and what they weigh is an integer.
LEMMA RowsWeigh ==
    ASSUME NEW W, Terms(W, Things), NEW rows \in Seq(Things)
    PROVE  /\ DOMAIN rows = 1..Len(rows) /\ Len(rows) \in Nat /\ IsFiniteSet(DOMAIN rows)
           /\ Terms(OfRows(W, rows), DOMAIN rows) /\ RowWeight(W, rows) \in Int
<1>1. DOMAIN rows = 1..Len(rows) /\ Len(rows) \in Nat
  OBVIOUS
<1>2. IsFiniteSet(DOMAIN rows)
  BY <1>1, FS_Interval
<1>3. Terms(OfRows(W, rows), DOMAIN rows)
  BY DEF Terms, OfRows
<1> QED
  BY <1>1, <1>2, <1>3, TotalType DEF RowWeight

\* One more row adds what it weighs.
LEMMA AppendedWeight ==
    ASSUME NEW W, Terms(W, Things), NEW rows \in Seq(Things), NEW p \in Things
    PROVE  RowWeight(W, Append(rows, p)) = RowWeight(W, rows) + W[p]
<1> DEFINE more == Append(rows, p)
           n == Len(rows) + 1
<1>1. more \in Seq(Things) /\ Len(more) = n /\ n \in Nat
      /\ more[n] = p /\ \A i \in 1..Len(rows) : more[i] = rows[i]
  OBVIOUS
<1>2. DOMAIN rows = 1..Len(rows) /\ Len(rows) \in Nat /\ RowWeight(W, rows) \in Int
  BY RowsWeigh
<1> HIDE DEF more
<1>3. /\ DOMAIN more = 1..n /\ IsFiniteSet(DOMAIN more)
      /\ Terms(OfRows(W, more), DOMAIN more)
  BY <1>1, RowsWeigh
<1>4. n \in DOMAIN more /\ DOMAIN more \ {n} = DOMAIN rows
  BY <1>1, <1>2, <1>3
<1>5. RowWeight(W, more) = OfRows(W, more)[n] + Total(OfRows(W, more), DOMAIN rows)
  <2>1. Total(OfRows(W, more), DOMAIN more)
            = OfRows(W, more)[n] + Total(OfRows(W, more), DOMAIN more \ {n})
    BY <1>3, <1>4, TotalRemove
  <2> QED
    BY <1>4, <2>1 DEF RowWeight
<1>6. OfRows(W, more)[n] = W[p] /\ W[p] \in Int
  BY <1>1, <1>4 DEF OfRows, Terms
<1>7. Total(OfRows(W, more), DOMAIN rows) = RowWeight(W, rows)
  <2>1. \A i \in DOMAIN rows : OfRows(W, more)[i] = OfRows(W, rows)[i]
    BY <1>1, <1>2, <1>4 DEF OfRows
  <2>2. IsFiniteSet(DOMAIN rows)
    BY RowsWeigh
  <2> QED
    BY <2>1, <2>2, TotalEqual DEF RowWeight
<1>8. RowWeight(W, more) = W[p] + RowWeight(W, rows)
  BY <1>5, <1>6, <1>7
<1> QED
  BY <1>2, <1>6, <1>8 DEF more

\* So does a row that is merged with one like it.
LEMMA MergedWeight ==
    ASSUME NEW W, Terms(W, Things), Additive(W), NEW rows \in Seq(Things), NEW q \in Things,
           NEW k \in DOMAIN rows, SamePurchase(rows[k], q)
    PROVE  RowWeight(W, [rows EXCEPT ![k] = More(rows[k], q)]) = RowWeight(W, rows) + W[q]
<1>1. /\ DOMAIN rows = 1..Len(rows) /\ IsFiniteSet(DOMAIN rows)
      /\ Terms(OfRows(W, rows), DOMAIN rows) /\ RowWeight(W, rows) \in Int
  BY RowsWeigh
<1>2. PICK p \in Things : p = rows[k]
  BY <1>1
<1>3. q.quantity \in Nat \ {0}
  BY DEF Things
<1>4. PICK m \in Things : m = More(p, q)
  BY <1>2, <1>3, MoreIsThing
<1>5. W[m] = W[p] + W[q] /\ W[m] \in Int /\ W[p] \in Int /\ W[q] \in Int
  BY <1>2, <1>4 DEF Additive, Terms
<1>6. PICK new \in Seq(Things) : new = [rows EXCEPT ![k] = m]
  <2>1. [rows EXCEPT ![k] = m] \in Seq(Things)
    BY <1>4
  <2> QED
    BY <2>1
<1>7. DOMAIN new = DOMAIN rows /\ new[k] = m /\ \A i \in DOMAIN rows \ {k} : new[i] = rows[i]
  BY <1>6
<1>8. Terms(OfRows(W, new), DOMAIN rows)
  BY <1>7, RowsWeigh
<1>9. Total(OfRows(W, new), DOMAIN rows)
          = OfRows(W, new)[k] + Total(OfRows(W, new), DOMAIN rows \ {k})
  BY <1>1, <1>8, TotalRemove
<1>10. Total(OfRows(W, rows), DOMAIN rows)
           = OfRows(W, rows)[k] + Total(OfRows(W, rows), DOMAIN rows \ {k})
  BY <1>1, TotalRemove
<1>11. IsFiniteSet(DOMAIN rows \ {k})
  BY <1>1, FS_Subset
<1>12. \A i \in DOMAIN rows \ {k} : OfRows(W, new)[i] = OfRows(W, rows)[i]
  BY <1>7 DEF OfRows
<1>13. PICK rest : /\ rest = Total(OfRows(W, new), DOMAIN rows \ {k})
                   /\ rest = Total(OfRows(W, rows), DOMAIN rows \ {k})
  BY <1>11, <1>12, TotalEqual
<1>14. rest \in Int
  <2>1. Terms(OfRows(W, rows), DOMAIN rows \ {k})
    BY <1>1 DEF Terms
  <2> QED
    BY <1>11, <1>13, <2>1, TotalType
<1>15. OfRows(W, new)[k] = W[m] /\ OfRows(W, rows)[k] = W[p]
  BY <1>2, <1>7 DEF OfRows
<1>16. RowWeight(W, new) = W[m] + rest /\ RowWeight(W, rows) = W[p] + rest
  BY <1>7, <1>9, <1>10, <1>13, <1>15 DEF RowWeight
<1>17. RowWeight(W, new) = RowWeight(W, rows) + W[q]
  BY <1>5, <1>14, <1>16
<1> QED
  BY <1>2, <1>4, <1>6, <1>17

\* What has been read of a set of rows weighs what they weigh.
ReadsAll(it, file, W, s) ==
    ~it[s].refused =>
        /\ \A i \in s : Purchase(file[i]) \in Things
        /\ Len(it[s].rows) + it[s].merged = Cardinality(s)
        /\ RowWeight(W, it[s].rows) = Total(OfFile(W, file), s)

\* One row.
LEMMA ReadsOneMore ==
    ASSUME NEW file, IsFile(file), NEW mode, NEW it, Parses(it, file, mode),
           NEW W, Terms(W, Things), mode # "merge" \/ Additive(W),
           NEW s \in SUBSET DOMAIN file, NEW m \in s, m = Max(s),
           ReadsAll(it, file, W, s \ {m})
    PROVE  ReadsAll(it, file, W, s)
<1> SUFFICES ASSUME ~it[s].refused
             PROVE  /\ \A i \in s : Purchase(file[i]) \in Things
                    /\ Len(it[s].rows) + it[s].merged = Cardinality(s)
                    /\ RowWeight(W, it[s].rows) = Total(OfFile(W, file), s)
  BY DEF ReadsAll
<1>1. PICK soFar \in Drafts : soFar = it[s \ {m}]
  BY ParsesType
<1>2. PICK after \in Drafts : after = it[s]
  BY ParsesType
<1>3. PICK row : row = file[m]
  OBVIOUS
<1>4. after = ParseRow(file, mode, soFar, row)
  BY <1>1, <1>2, <1>3 DEF Parses
<1>5. row.fine /\ row.number \in Numbers => Purchase(row) \in Things
  BY <1>3 DEF IsFile
<1>6. ~after.refused
  BY <1>2
<1>7. Appends(soFar, after, row) \/ (mode = "merge" /\ Merges(soFar, after, row))
  BY <1>4, <1>5, <1>6, ParsedRow
<1>8. PICK q \in Things : q = Purchase(row)
  BY <1>7 DEF Appends, Merges
<1>9. /\ \A i \in s \ {m} : Purchase(file[i]) \in Things
      /\ Len(soFar.rows) + soFar.merged = Cardinality(s \ {m})
      /\ RowWeight(W, soFar.rows) = Total(OfFile(W, file), s \ {m})
  BY <1>1, <1>7 DEF ReadsAll, Appends, Merges
<1>10. \A i \in s : Purchase(file[i]) \in Things
  BY <1>3, <1>8, <1>9
<1>11. PICK rows \in Seq(Things) : rows = soFar.rows
  BY DEF Drafts
<1>12. soFar.merged \in Nat /\ Len(rows) \in Nat /\ W[q] \in Int
  BY DEF Drafts, Terms
<1>13. /\ Len(after.rows) + after.merged = Len(rows) + soFar.merged + 1
       /\ RowWeight(W, after.rows) = RowWeight(W, rows) + W[q]
  <2>1. CASE Appends(soFar, after, row)
    <3>1. after.rows = Append(rows, q) /\ after.merged = soFar.merged
      BY <1>8, <1>11, <2>1 DEF Appends
    <3>2. Len(Append(rows, q)) = Len(rows) + 1
      OBVIOUS
    <3>3. RowWeight(W, Append(rows, q)) = RowWeight(W, rows) + W[q]
      BY AppendedWeight
    <3>4. RowWeight(W, after.rows) = RowWeight(W, rows) + W[q]
      BY <3>1, <3>3
    <3>5. Len(after.rows) = Len(rows) + 1
      BY <3>1, <3>2
    <3> QED
      <4>1. PICK n \in Nat, b \in Nat : n = Len(rows) /\ b = soFar.merged
        BY <1>12
      <4>2. Len(after.rows) + after.merged = (n + 1) + b
        BY <3>1, <3>5, <4>1
      <4>3. (n + 1) + b = n + b + 1
        OBVIOUS
      <4> QED
        BY <3>4, <4>1, <4>2, <4>3
  <2>2. CASE mode = "merge" /\ Merges(soFar, after, row)
    <3>1. PICK k \in DOMAIN rows : MergesAt(soFar, after, row, k)
      BY <1>11, <2>2 DEF Merges
    <3>2. SamePurchase(rows[k], q) /\ after.merged = soFar.merged + 1
      BY <1>8, <1>11, <2>2, <3>1 DEF MergesAt, Merges
    <3>3. More(rows[k], row) = More(rows[k], q)
      BY <1>8 DEF More, Purchase
    <3>4. after.rows = [rows EXCEPT ![k] = More(rows[k], q)]
      BY <1>11, <3>1, <3>3 DEF MergesAt
    <3>5. Len(after.rows) = Len(rows)
      BY <3>4
    <3>6. RowWeight(W, after.rows) = RowWeight(W, rows) + W[q]
      BY <2>2, <3>2, <3>4, MergedWeight
    <3> QED
      BY <1>12, <3>2, <3>5, <3>6
  <2> QED
    BY <1>7, <2>1, <2>2
<1>14. IsFiniteSet(s) /\ Cardinality(s) \in Nat /\ Cardinality(s \ {m}) = Cardinality(s) - 1
  BY LastRow, FS_Subset, FS_CardinalityType, FS_RemoveElement
<1>15. Terms(OfFile(W, file), s)
  BY <1>10 DEF Terms, OfFile
<1>16. Total(OfFile(W, file), s) = OfFile(W, file)[m] + Total(OfFile(W, file), s \ {m})
  BY <1>14, <1>15, TotalRemove
<1>17. OfFile(W, file)[m] = W[q]
  BY <1>3, <1>8 DEF OfFile
<1>18. RowWeight(W, rows) \in Int
  BY RowsWeigh
<1>19. RowWeight(W, after.rows) = Total(OfFile(W, file), s)
  BY <1>9, <1>11, <1>12, <1>13, <1>16, <1>17, <1>18
<1>20. Len(after.rows) + after.merged = Cardinality(s)
  BY <1>9, <1>11, <1>12, <1>13, <1>14
<1> QED
  BY <1>2, <1>10, <1>19, <1>20

\* A file that is not refused is read to its end.
LEMMA FileIsRead ==
    ASSUME NEW file, IsFile(file), NEW mode, NEW parsed, parsed = Parsed(file, mode),
           ~parsed.refused, NEW W, Terms(W, Things), mode # "merge" \/ Additive(W)
    PROVE  /\ file # <<>> /\ parsed \in Drafts
           /\ \A i \in DOMAIN file : Purchase(file[i]) \in Things
           /\ Len(parsed.rows) + parsed.merged = Len(file)
           /\ RowWeight(W, parsed.rows) = Total(OfFile(W, file), DOMAIN file)
<1>1. PICK it : Parses(it, file, mode) /\ parsed = it[DOMAIN file]
  BY ParsedIs
<1> DEFINE D == DOMAIN file
           T == {s \in SUBSET D : ReadsAll(it, file, W, s)}
<1>2. {} \in T
  <2>1. it[{}] = Unread(file)
    BY <1>1 DEF Parses
  <2>2. << >> \in Seq(Things) /\ Len(<< >>) = 0 /\ DOMAIN << >> = {}
    OBVIOUS
  <2>3. RowWeight(W, << >>) = 0
    BY <2>2, TotalOfNone DEF RowWeight
  <2>4. Total(OfFile(W, file), {}) = 0 /\ Cardinality({}) = 0
    BY TotalOfNone, FS_EmptySet
  <2>5. it[{}].rows = << >> /\ it[{}].merged = 0
    BY <2>1 DEF Unread
  <2>6. ReadsAll(it, file, W, {})
    BY <2>2, <2>3, <2>4, <2>5 DEF ReadsAll
  <2> QED
    BY <2>6
<1>3. ASSUME NEW s \in SUBSET D, s # {}, \A x \in s : s \ {x} \in T
      PROVE  s \in T
  <2>1. PICK m \in s : m = Max(s)
    BY <1>3, LastRow
  <2>2. ReadsAll(it, file, W, s \ {m})
    BY <1>3
  <2>3. ReadsAll(it, file, W, s)
    BY <1>1, <2>1, <2>2, ReadsOneMore
  <2> QED
    BY <2>3
<1>4. IsFiniteSet(D)
  BY LastRow
<1>5. SUBSET D \subseteq T
  <2> HIDE DEF T, D
  <2> QED
    BY <1>2, <1>3, <1>4, SubsetSteps
<1>6. ReadsAll(it, file, W, D)
  BY <1>5
<1>7. file # <<>>
  <2> SUFFICES ASSUME file = <<>> PROVE FALSE
    OBVIOUS
  <2>1. D = {}
    OBVIOUS
  <2>2. parsed = Unread(file)
    BY <1>1, <2>1 DEF Parses
  <2>3. Unread(file).refused = TRUE
    BY DEF Unread
  <2> QED
    BY <2>2, <2>3
<1>8. parsed \in Drafts
  BY <1>1, ParsesType
<1>9. Cardinality(D) = Len(file)
  BY FS_Interval DEF IsFile
<1> QED
  BY <1>1, <1>6, <1>7, <1>8, <1>9 DEF ReadsAll

-----------------------------------------------------------------------------
(* What is held. *)

Holdings == [id : Nat, folio : Nat, at : Nat, bought : Things]

LedgerTypeOK ==
    /\ folios \in Seq(Names)
    /\ book \subseteq Holdings /\ IsFiniteSet(book)
    /\ quotes \in Quotes /\ writes \in Nat
    /\ imported.mode \in Modes \cup {"none", "refused"} /\ imported.folio \in Nat

\* Every holding is in a portfolio there is.
LedgerInv == LedgerTypeOK /\ \A h \in book : h.folio \in 1..Len(folios)

HeldIn(folio) == {h \in book : h.folio = folio}

\* An export has a row for each holding.
LEMMA ExportIs ==
    ASSUME LedgerInv, NEW folio \in DOMAIN folios
    PROVE  /\ IsFile(ExportOf(folio))
           /\ \E held : /\ held \in Bijection(DOMAIN ExportOf(folio), HeldIn(folio))
                        /\ \A i \in DOMAIN ExportOf(folio) :
                               Purchase(ExportOf(folio)[i]) = held[i].bought
<1> DEFINE S == HeldIn(folio)
           n == Cardinality(S)
           held == SetToSeq(S)
           file == ExportOf(folio)
<1>1. S \in SUBSET book /\ book \subseteq Holdings /\ IsFiniteSet(book)
  BY DEF LedgerInv, LedgerTypeOK, HeldIn
<1>2. IsFiniteSet(S) /\ n \in Nat /\ ExistsBijection(1..n, S)
  BY <1>1, FS_Subset, FS_CardinalityType
<1>3. \E f \in [1..n -> S] : IsInjective(f)
  BY <1>2 DEF ExistsBijection, Bijection, Injection
<1>4. held \in [1..n -> S] /\ IsInjective(held)
  BY <1>3 DEF SetToSeq
<1>5. held \in Bijection(1..n, S)
  <2>1. held \in Injection(1..n, S)
    BY <1>4 DEF Injection
  <2>2. Cardinality(1..n) = n
    BY <1>2, FS_Interval
  <2> HIDE DEF held, S, n
  <2>3. held \in Surjection(1..n, S)
    <3>1. Cardinality(1..n) = Cardinality(S)
      BY <2>2 DEF n
    <3> QED
      BY <1>2, <2>1, <3>1, FS_Injection
  <2> QED
    BY <2>1, <2>3 DEF Bijection
<1>6. file = [i \in 1..n |->
          [folio |-> folios[folio], fine |-> TRUE, number |-> held[i].bought.number,
           condition |-> held[i].bought.condition, quantity |-> held[i].bought.quantity,
           price |-> held[i].bought.price, note |-> held[i].bought.note]]
  BY <1>4 DEF ExportOf, HeldIn
<1> HIDE DEF file, held, n, S
<1>7. DOMAIN file = 1..n
  BY <1>6
<1>8. ASSUME NEW i \in 1..n
      PROVE  /\ file[i].folio \in Names
             /\ Purchase(file[i]) = held[i].bought /\ Purchase(file[i]) \in Things
  <2>1. held[i] \in Holdings
    BY <1>1, <1>4
  <2>2. PICK bought \in Things : bought = held[i].bought
    BY <2>1 DEF Holdings
  <2>3. file[i].folio \in Names
    BY <1>6 DEF LedgerInv, LedgerTypeOK
  <2>4. bought = [number |-> bought.number, condition |-> bought.condition,
                  quantity |-> bought.quantity, price |-> bought.price, note |-> bought.note]
    BY DEF Things
  <2>5. Purchase(file[i]) = bought
    BY <1>6, <2>2, <2>4 DEF Purchase
  <2> QED
    BY <2>2, <2>3, <2>5
<1>9. Len(file) = n
  <2>1. file \in Seq({file[i] : i \in 1..n})
    <3>1. file \in [1..n -> {file[i] : i \in 1..n}]
      BY <1>6
    <3> QED
      BY <1>2, <3>1, SeqDef
  <2>2. Len(file) \in Nat /\ DOMAIN file = 1..Len(file)
    BY <2>1
  <2> QED
    BY <1>2, <1>7, <2>2
<1>10. IsFile(file)
  BY <1>2, <1>7, <1>8, <1>9 DEF IsFile
<1> QED
  BY <1>5, <1>7, <1>8, <1>10 DEF file, S

\* Files at hand are files.
LEMMA FilesAreFiles == ASSUME LedgerInv PROVE \A file \in FilesAtHand : IsFile(file)
<1>1. \A file \in CsvFiles : IsFile(file)
  BY LedgerConstants DEF IsFile
<1>2. \A folio \in DOMAIN folios : IsFile(ExportOf(folio))
  BY ExportIs
<1> QED
  BY <1>1, <1>2 DEF FilesAtHand

\* The next id is a number greater than all.
LEMMA NextIsNew ==
    ASSUME LedgerInv
    PROVE  NextId \in Nat /\ \A h \in book : NextId > h.id
<1> DEFINE ids == {h.id : h \in book}
           idOf == [h \in book |-> h.id]
<1>1. book \subseteq Holdings /\ IsFiniteSet(book)
  BY DEF LedgerInv, LedgerTypeOK
<1>2. IsFiniteSet(ids) /\ ids \subseteq Nat
  <2>1. idOf \in Surjection(book, ids)
    BY DEF Surjection
  <2>2. ids \subseteq Nat
    BY <1>1 DEF Holdings
  <2> HIDE DEF ids, idOf
  <2> QED
    BY <1>1, <2>1, <2>2, FS_Surjection
<1>3. IsFiniteSet({0} \cup ids) /\ {0} \cup ids \subseteq Nat /\ {0} \cup ids # {}
  <2> HIDE DEF ids
  <2>1. IsFiniteSet({0})
    BY FS_Singleton
  <2>2. IsFiniteSet({0} \cup ids)
    BY <1>2, <2>1, FS_Union
  <2> QED
    BY <1>2, <2>2
<1>4. PICK m : m = Max({0} \cup ids)
  OBVIOUS
<1>5. m \in Nat /\ \A y \in {0} \cup ids : m >= y
  <2> HIDE DEF ids
  <2>1. /\ Max({0} \cup ids) \in {0} \cup ids
        /\ \A y \in {0} \cup ids : Max({0} \cup ids) >= y
    BY <1>3, GreatestIsIn
  <2> QED
    BY <1>3, <1>4, <2>1
<1>6. NextId = 1 + m
  BY <1>4 DEF NextId
<1>7. \A h \in book : h.id \in ids /\ h.id \in Nat
  BY <1>1 DEF Holdings
<1> HIDE DEF ids
<1> QED
  BY <1>5, <1>6, <1>7

\* The holdings that an import makes of rows.
Made(rows, id, folio, at) ==
    {[id |-> id + i, folio |-> folio, at |-> at, bought |-> rows[i]] : i \in DOMAIN rows}
MadeOf(rows, id, folio, at) ==
    [i \in DOMAIN rows |-> [id |-> id + i, folio |-> folio, at |-> at, bought |-> rows[i]]]

\* One for each row.
LEMMA MadeOnce ==
    ASSUME NEW rows \in Seq(Things), NEW id \in Nat, NEW folio \in Nat, NEW at \in Nat
    PROVE  /\ Made(rows, id, folio, at) \subseteq Holdings
           /\ IsFiniteSet(Made(rows, id, folio, at)) /\ IsFiniteSet(DOMAIN rows)
           /\ MadeOf(rows, id, folio, at) \in Bijection(DOMAIN rows, Made(rows, id, folio, at))
<1> DEFINE f == MadeOf(rows, id, folio, at)
           new == Made(rows, id, folio, at)
<1>1. DOMAIN rows = 1..Len(rows) /\ Len(rows) \in Nat
  OBVIOUS
<1>2. IsFiniteSet(DOMAIN rows)
  BY <1>1, FS_Interval
<1>3. \A i \in DOMAIN rows : rows[i] \in Things /\ id + i \in Nat
  BY <1>1
<1>4. f \in [DOMAIN rows -> new] /\ \A h \in new : \E i \in DOMAIN rows : f[i] = h
  BY DEF Made, MadeOf
<1>5. f \in Surjection(DOMAIN rows, new)
  BY <1>4 DEF Surjection
<1>6. ASSUME NEW i \in DOMAIN rows, NEW j \in DOMAIN rows, f[i] = f[j] PROVE i = j
  <2>1. f[i].id = id + i /\ f[j].id = id + j
    BY DEF MadeOf
  <2>2. i \in Nat /\ j \in Nat /\ id + i = id + j
    BY <1>1, <1>6, <2>1
  <2> QED
    BY <2>2
<1>7. f \in Injection(DOMAIN rows, new)
  <2>1. DOMAIN f = DOMAIN rows
    BY <1>4
  <2> HIDE DEF f, new
  <2> QED
    BY <1>4, <1>6, <2>1 DEF Injection, IsInjective
<1>8. new \subseteq Holdings
  BY <1>3 DEF Made, Holdings
<1> HIDE DEF f, new
<1>9. IsFiniteSet(new)
  BY <1>2, <1>5, FS_Surjection
<1> QED
  BY <1>2, <1>5, <1>7, <1>8, <1>9 DEF Bijection, f, new

\* Initially nothing is held.
LEMMA LedgerInitInv == LedgerInit => LedgerInv
<1> SUFFICES ASSUME LedgerInit PROVE LedgerInv
  OBVIOUS
<1>1. folios \in Seq(Names)
  BY LedgerConstants DEF LedgerInit
<1>2. book = {} /\ IsFiniteSet(book)
  BY FS_EmptySet DEF LedgerInit
<1>3. imported.mode = "none" /\ imported.folio = 0
  BY DEF LedgerInit, NoImport
<1>4. quotes \in Quotes /\ writes = 0
  BY DEF LedgerInit
<1> QED
  BY <1>1, <1>2, <1>3, <1>4 DEF LedgerInv, LedgerTypeOK

\* What an import makes of a file.
LEMMA ImportStep ==
    ASSUME LedgerInv, NEW file \in FilesAtHand, NEW mode \in Modes, ImportFile(file, mode),
           NEW parsed, parsed = Parsed(file, mode)
    PROVE  /\ IsFile(file) /\ parsed \in Drafts /\ ~parsed.refused /\ file # <<>>
           /\ folios' = Append(folios, file[1].folio) /\ file[1].folio \in Names
           /\ book' = book \cup Made(parsed.rows, NextId, Len(folios) + 1, writes)
           /\ imported' = [file |-> file, mode |-> mode, folio |-> Len(folios) + 1,
                           audit |-> <<Len(parsed.rows) + parsed.merged, Len(parsed.rows),
                                       parsed.merged>>]
           /\ writes' = writes + 1 /\ quotes' = quotes
<1>1. IsFile(file)
  BY FilesAreFiles
<1>2. ~parsed.refused
  BY DEF ImportFile
<1> DEFINE W == [p \in Things |-> 0]
<1>3. Terms(W, Things) /\ Additive(W)
  <2>1. Terms(W, Things)
    BY DEF Terms
  <2>2. ASSUME NEW p \in Things, NEW q \in Things PROVE W[More(p, q)] = W[p] + W[q]
    <3>1. q.quantity \in Nat \ {0}
      BY DEF Things
    <3>2. More(p, q) \in Things
      BY <3>1, MoreIsThing
    <3> QED
      BY <3>2
  <2> HIDE DEF W
  <2> QED
    BY <2>1, <2>2 DEF Additive
<1>4. file # <<>> /\ parsed \in Drafts
  <2> HIDE DEF W
  <2> QED
    BY <1>1, <1>2, <1>3, FileIsRead
<1>5. 1 \in DOMAIN file
  <2>1. Len(file) # 0
    <3> SUFFICES ASSUME Len(file) = 0 PROVE FALSE
      OBVIOUS
    <3>1. DOMAIN file = {}
      BY <1>1 DEF IsFile
    <3> QED
      BY <1>4, <3>1, <1>2 DEF IsFile, ImportFile
  <2> QED
    BY <1>1, <2>1 DEF IsFile
<1>6. file[1].folio \in Names
  BY <1>1, <1>5 DEF IsFile
<1> QED
  BY <1>1, <1>2, <1>4, <1>6 DEF ImportFile, Made

\* Every step keeps it.
LEMMA LedgerStepInv == LedgerInv /\ [LedgerNext]_ledgerVars => LedgerInv'
<1> SUFFICES ASSUME LedgerInv, [LedgerNext]_ledgerVars PROVE LedgerInv'
  OBVIOUS
<1>1. /\ folios \in Seq(Names) /\ book \subseteq Holdings /\ IsFiniteSet(book)
      /\ quotes \in Quotes /\ writes \in Nat /\ Len(folios) \in Nat
      /\ DOMAIN folios = 1..Len(folios)
      /\ imported.mode \in Modes \cup {"none", "refused"} /\ imported.folio \in Nat
      /\ \A h \in book : h.folio \in 1..Len(folios)
  BY DEF LedgerInv, LedgerTypeOK
<1>2. NextId \in Nat
  BY NextIsNew
<1>3. Purchases \subseteq Things
  BY LedgerConstants
<1>4. CASE UNCHANGED ledgerVars
  BY <1>1, <1>4 DEF LedgerInv, LedgerTypeOK, ledgerVars
<1>5. ASSUME NEW folio \in DOMAIN folios, NEW bought \in Purchases, BuyOne(folio, bought)
      PROVE  LedgerInv'
  <2>1. PICK h \in Holdings : /\ h.folio = folio
                              /\ h = [id |-> NextId, folio |-> folio, at |-> writes,
                                       bought |-> bought]
    <3>1. folio \in Nat /\ bought \in Things
      BY <1>1, <1>3
    <3>2. [id |-> NextId, folio |-> folio, at |-> writes, bought |-> bought] \in Holdings
      BY <1>1, <1>2, <3>1 DEF Holdings
    <3>3. [id |-> NextId, folio |-> folio, at |-> writes, bought |-> bought].folio = folio
      OBVIOUS
    <3> QED
      BY <3>2, <3>3
  <2>2. book' = book \cup {h} /\ UNCHANGED <<folios, quotes, imported>> /\ writes' = writes + 1
    BY <1>5, <2>1 DEF BuyOne
  <2>3. IsFiniteSet(book \cup {h})
    BY <1>1, FS_AddElement
  <2> QED
    BY <1>1, <2>1, <2>2, <2>3 DEF LedgerInv, LedgerTypeOK
<1>6. ASSUME NEW h \in book, NEW bought \in Purchases, Amend(h, bought) PROVE LedgerInv'
  <2>1. PICK g \in Holdings : g = [h EXCEPT !.bought = bought] /\ g.folio = h.folio
    <3>1. PICK thing \in Things : thing = bought
      BY <1>3
    <3>2. h \in Holdings
      BY <1>1
    <3>3. [h EXCEPT !.bought = thing] \in Holdings /\ [h EXCEPT !.bought = thing].folio = h.folio
      BY <3>2 DEF Holdings
    <3> QED
      BY <3>1, <3>3
  <2>2. /\ book' = (book \ {h}) \cup {g} /\ UNCHANGED <<folios, quotes, imported>>
        /\ writes' = writes + 1
    BY <1>6, <2>1 DEF Amend
  <2>3. IsFiniteSet((book \ {h}) \cup {g})
    BY <1>1, FS_AddElement, FS_RemoveElement
  <2>4. g.folio \in 1..Len(folios)
    BY <1>1, <2>1
  <2>5. book' \subseteq Holdings /\ \A x \in book' : x.folio \in 1..Len(folios)
    BY <1>1, <2>1, <2>2, <2>4
  <2> QED
    BY <1>1, <2>2, <2>3, <2>5 DEF LedgerInv, LedgerTypeOK
<1>7. ASSUME NEW h \in book, Discard(h) PROVE LedgerInv'
  <2>1. IsFiniteSet(book \ {h})
    BY <1>1, FS_RemoveElement
  <2> QED
    BY <1>1, <1>7, <2>1 DEF LedgerInv, LedgerTypeOK, Discard
<1>8. ASSUME NEW file \in FilesAtHand, NEW mode \in Modes, ImportFile(file, mode)
      PROVE  LedgerInv'
  <2>1. PICK parsed : parsed = Parsed(file, mode)
    OBVIOUS
  <2>2. PICK id \in Nat, new \in Nat, rows \in Seq(Things) :
            id = NextId /\ new = Len(folios) + 1 /\ rows = parsed.rows
    <3>1. parsed \in Drafts
      BY <1>8, <2>1, ImportStep
    <3> QED
      BY <1>1, <1>2, <3>1 DEF Drafts
  <2>3. PICK made : made = Made(rows, id, new, writes)
    OBVIOUS
  <2>4. /\ folios' = Append(folios, file[1].folio) /\ file[1].folio \in Names
        /\ book' = book \cup made
        /\ imported'.mode = mode /\ imported'.folio = new
        /\ writes' = writes + 1 /\ quotes' = quotes
    BY <1>8, <2>1, <2>2, <2>3, ImportStep
  <2>5. made \subseteq Holdings /\ IsFiniteSet(made)
    BY <1>1, <2>2, <2>3, MadeOnce
  <2>6. \A h \in made : h.folio = new
    BY <2>3 DEF Made
  <2>7. IsFiniteSet(book \cup made)
    BY <1>1, <2>5, FS_Union
  <2>8. folios' \in Seq(Names) /\ Len(folios') = Len(folios) + 1
    BY <1>1, <2>4
  <2>9. \A h \in book' : h.folio \in 1..Len(folios')
    BY <1>1, <2>2, <2>4, <2>6, <2>8
  <2>10. writes' \in Nat
    BY <1>1, <2>4
  <2> QED
    BY <1>1, <2>2, <2>4, <2>5, <2>7, <2>8, <2>9, <2>10 DEF LedgerInv, LedgerTypeOK
<1>9. ASSUME NEW file \in FilesAtHand, NEW mode \in Modes, Refuse(file, mode)
      PROVE  LedgerInv'
  <2>1. imported'.mode = "refused" /\ imported'.folio = 0
    BY <1>9 DEF Refuse
  <2> QED
    BY <1>1, <1>9, <2>1 DEF Refuse, LedgerInv, LedgerTypeOK
<1>10. ASSUME NEW shop \in Quotes, Reprice(shop) PROVE LedgerInv'
  BY <1>1, <1>10 DEF Reprice, LedgerInv, LedgerTypeOK
<1> QED
  BY <1>4, <1>5, <1>6, <1>7, <1>8, <1>9, <1>10 DEF LedgerNext

\* The invariant holds in every state.
LEMMA LedgerInvariance == LedgerSpec => []LedgerInv
  BY LedgerInitInv, LedgerStepInv, PTL DEF LedgerSpec

\* Holdings, portfolios and imports keep their types, and every holding is in a
\* portfolio there is.
THEOREM LedgerTypeCorrect == LedgerSpec => []LedgerTypeOK
<1>1. LedgerInv => LedgerTypeOK
  BY DEF LedgerInv
<1> QED
  BY <1>1, LedgerInvariance, PTL

-----------------------------------------------------------------------------
(* What an import makes of a file weighs what the file does. *)

\* Renaming the elements of a set leaves its sum as it is.
LEMMA TotalRenamed ==
    ASSUME NEW I, IsFiniteSet(I), NEW S, IsFiniteSet(S), NEW f \in Bijection(I, S),
           NEW F, Terms(F, S), NEW G, \A i \in I : G[i] = F[f[i]]
    PROVE  Total(G, I) = Total(F, S)
<1>1. f \in [I -> S] /\ IsInjective(f) /\ \A x \in S : \E i \in I : f[i] = x
  BY DEF Bijection, Injection, Surjection
<1>2. Terms(G, I)
  BY <1>1 DEF Terms
<1>3. Total(GroupSums(G, I, f, S), S) = Total(G, I)
  BY <1>1, <1>2, TotalByGroup
<1>4. ASSUME NEW x \in S PROVE GroupSums(G, I, f, S)[x] = F[x]
  <2>1. PICK i \in I : f[i] = x
    BY <1>1
  <2>2. {j \in I : f[j] = x} = {i}
    BY <1>1, <2>1 DEF IsInjective
  <2>3. IsFiniteSet({i}) /\ Terms(G, {i})
    BY <1>2, FS_Singleton DEF Terms
  <2>4. Total(G, {i}) = G[i] + Total(G, {i} \ {i})
    BY <2>3, TotalRemove
  <2>5. {i} \ {i} = {} /\ G[i] \in Int /\ G[i] = F[x]
    BY <1>2, <2>1 DEF Terms
  <2>6. Total(G, {i}) = F[x]
    BY <2>4, <2>5, TotalOfNone
  <2> QED
    BY <2>2, <2>6 DEF GroupSums
<1>5. Total(GroupSums(G, I, f, S), S) = Total(F, S)
  BY <1>4, TotalEqual
<1> QED
  BY <1>3, <1>5

\* The sum over a part is the sum of terms that are zero elsewhere.
LEMMA TotalOfPart ==
    ASSUME NEW S, IsFiniteSet(S), NEW part \in SUBSET S, NEW F, Terms(F, part),
           NEW G, \A x \in S : G[x] = IF x \in part THEN F[x] ELSE 0
    PROVE  Total(F, part) = Total(G, S)
<1> DEFINE rest == S \ part
<1>1. /\ IsFiniteSet(part) /\ IsFiniteSet(rest) /\ part \cap rest = {}
      /\ part \cup rest = S
  BY FS_Subset
<1>2. Terms(G, S) /\ Terms(G, rest)
  BY DEF Terms
<1>3. Total(G, S) = Total(G, part) + Total(G, rest)
  <2> HIDE DEF rest
  <2>1. Terms(G, part \cup rest)
    BY <1>1, <1>2
  <2> QED
    BY <1>1, <2>1, TotalOfBoth
<1>4. Total(G, part) = Total(F, part)
  BY <1>1, TotalEqual
<1>5. Total(G, rest) = 0
  <2>1. \A x \in rest : G[x] = 0 * G[x]
    BY <1>2 DEF Terms
  <2> HIDE DEF rest
  <2>2. Total(G, rest) = 0 * Total(G, rest) /\ Total(G, rest) \in Int
    BY <1>1, <1>2, <2>1, TotalTimes, TotalType
  <2> QED
    BY <2>2
<1>6. Total(F, part) \in Int
  BY <1>1, TotalType
<1> QED
  BY <1>3, <1>4, <1>5, <1>6

\* A part is counted by ones.
LEMMA CountOfPart ==
    ASSUME NEW S, IsFiniteSet(S), NEW part \in SUBSET S,
           NEW G, \A x \in S : G[x] = IF x \in part THEN 1 ELSE 0
    PROVE  Total(G, S) = Cardinality(part)
<1> DEFINE Ones == [x \in part |-> 1]
<1>1. Terms(Ones, part) /\ \A x \in part : Ones[x] = 1
  BY DEF Terms
<1>2. \A x \in S : G[x] = IF x \in part THEN Ones[x] ELSE 0
  OBVIOUS
<1> HIDE DEF Ones
<1>3. Total(Ones, part) = Total(G, S)
  BY <1>1, <1>2, TotalOfPart
<1>4. IsFiniteSet(part)
  BY FS_Subset
<1>5. Total(Ones, part) = Cardinality(part)
  BY <1>1, <1>4, TotalOfOnes
<1> QED
  BY <1>3, <1>5

\* What has been paid for holdings is a sum.
LEMMA SummedCost ==
    ASSUME NEW S, IsFiniteSet(S), NEW F, \A h \in S : F[h] = Cost(h)
    PROVE  Summed(Cost, S) = Total(F, S)
<1> DEFINE rec(it) == it = [s \in SUBSET S |-> IF s = {} THEN 0
               ELSE Cost(CHOOSE x \in s : TRUE) + it[s \ {CHOOSE x \in s : TRUE}]]
<1>1. ASSUME NEW it PROVE rec(it) <=> Adds(it, F, S)
  <2>1. \A s \in SUBSET S : s # {} => F[Pick(s)] = Cost(Pick(s))
    BY PickedIsIn
  <2> QED
    BY <2>1 DEF Adds, Pick
<1>2. Adds(CHOOSE i : rec(i), F, S)
  <2> HIDE DEF rec
  <2>1. PICK it : rec(it)
    BY <1>1, SumsExist
  <2>2. rec(CHOOSE i : rec(i))
    BY <2>1
  <2> QED
    BY <1>1, <2>2
<1>3. Summed(Cost, S) = (CHOOSE i : rec(i))[S]
  BY DEF Summed, MapThenSumSet, MapThenFoldSet
<1> QED
  BY <1>2, <1>3, TotalIs

\* So is how much is held.
LEMMA SummedQuantity ==
    ASSUME NEW S, IsFiniteSet(S), NEW F, \A h \in S : F[h] = h.bought.quantity
    PROVE  Summed(LAMBDA h : h.bought.quantity, S) = Total(F, S)
<1> DEFINE term(h) == h.bought.quantity
           rec(it) == it = [s \in SUBSET S |-> IF s = {} THEN 0
               ELSE term(CHOOSE x \in s : TRUE) + it[s \ {CHOOSE x \in s : TRUE}]]
<1>1. PICK it : Adds(it, F, S)
  BY SumsExist
<1>2. \A h \in S : F[h] = term(h)
  OBVIOUS
<1>3. Summed(LAMBDA h : h.bought.quantity, S)
          = (CHOOSE i : rec(i))[S]
  BY DEF Summed, MapThenSumSet, MapThenFoldSet
<1>0. \A s \in SUBSET S :
          s # {} => F[CHOOSE x \in s : TRUE] = term(CHOOSE x \in s : TRUE)
  <2> HIDE DEF term
  <2> QED
    BY <1>2, PickedIsIn DEF Pick
<1> HIDE DEF term
<1>4. rec(it)
  BY <1>0, <1>1 DEF Adds, Pick
<1>5. PICK sums : rec(sums) /\ sums = CHOOSE i : rec(i)
  <2> HIDE DEF rec
  <2> QED
    BY <1>4
<1>6. rec(sums)
  <2> HIDE DEF rec
  <2> QED
    BY <1>5
<1>7. Adds(sums, F, S)
  BY <1>0, <1>6 DEF Adds, Pick
<1> QED
  BY <1>3, <1>5, <1>7, TotalIs

\* And what a file says has been paid,
LEMMA SummedPrices ==
    ASSUME NEW file, IsFiniteSet(DOMAIN file),
           NEW F, \A i \in DOMAIN file : F[i] = file[i].quantity * file[i].price
    PROVE  PaidIn(file) = Total(F, DOMAIN file)
<1> DEFINE S == DOMAIN file
           term(i) == file[i].quantity * file[i].price
           rec(it) == it = [s \in SUBSET S |-> IF s = {} THEN 0
               ELSE term(CHOOSE x \in s : TRUE) + it[s \ {CHOOSE x \in s : TRUE}]]
<1>1. PICK it : Adds(it, F, S)
  BY SumsExist
<1>2. \A i \in S : F[i] = term(i)
  OBVIOUS
<1>3. PaidIn(file) = (CHOOSE i : rec(i))[S]
  BY DEF PaidIn, MapThenSumSet, MapThenFoldSet
<1>0. \A s \in SUBSET S :
          s # {} => F[CHOOSE x \in s : TRUE] = term(CHOOSE x \in s : TRUE)
  <2> HIDE DEF term
  <2> QED
    BY <1>2, PickedIsIn DEF Pick
<1> HIDE DEF term
<1>4. rec(it)
  BY <1>0, <1>1 DEF Adds, Pick
<1>5. PICK sums : rec(sums) /\ sums = CHOOSE i : rec(i)
  <2> HIDE DEF rec
  <2> QED
    BY <1>4
<1>6. rec(sums)
  <2> HIDE DEF rec
  <2> QED
    BY <1>5
<1>7. Adds(sums, F, S)
  BY <1>0, <1>6 DEF Adds, Pick
<1> QED
  BY <1>3, <1>5, <1>7, TotalIs

\* or how much of a set.
LEMMA SummedNumbers ==
    ASSUME NEW file, IsFiniteSet(DOMAIN file), NEW n,
           NEW F, \A i \in DOMAIN file :
                      F[i] = IF file[i].number = n THEN file[i].quantity ELSE 0
    PROVE  PiecesIn(file, n) = Total(F, DOMAIN file)
<1> DEFINE S == DOMAIN file
           term(i) == IF file[i].number = n THEN file[i].quantity ELSE 0
           rec(it) == it = [s \in SUBSET S |-> IF s = {} THEN 0
               ELSE term(CHOOSE x \in s : TRUE) + it[s \ {CHOOSE x \in s : TRUE}]]
<1>1. PICK it : Adds(it, F, S)
  BY SumsExist
<1>2. \A i \in S : F[i] = term(i)
  OBVIOUS
<1>3. PiecesIn(file, n) = (CHOOSE i : rec(i))[S]
  BY DEF PiecesIn, MapThenSumSet, MapThenFoldSet
<1>0. \A s \in SUBSET S :
          s # {} => F[CHOOSE x \in s : TRUE] = term(CHOOSE x \in s : TRUE)
  <2> HIDE DEF term
  <2> QED
    BY <1>2, PickedIsIn DEF Pick
<1> HIDE DEF term
<1>4. rec(it)
  BY <1>0, <1>1 DEF Adds, Pick
<1>5. PICK sums : rec(sums) /\ sums = CHOOSE i : rec(i)
  <2> HIDE DEF rec
  <2> QED
    BY <1>4
<1>6. rec(sums)
  <2> HIDE DEF rec
  <2> QED
    BY <1>5
<1>7. Adds(sums, F, S)
  BY <1>0, <1>6 DEF Adds, Pick
<1> QED
  BY <1>3, <1>5, <1>7, TotalIs

\* The holdings made of rows weigh what the rows weigh.
LEMMA MadeWeighs ==
    ASSUME NEW rows \in Seq(Things), NEW id \in Nat, NEW folio \in Nat, NEW at \in Nat,
           NEW made, made = Made(rows, id, folio, at),
           NEW W, Terms(W, Things), NEW F, \A h \in made : F[h] = W[h.bought]
    PROVE  Total(F, made) = RowWeight(W, rows)
<1> DEFINE f == MadeOf(rows, id, folio, at)
<1>1. /\ made \subseteq Holdings /\ IsFiniteSet(made) /\ IsFiniteSet(DOMAIN rows)
      /\ f \in Bijection(DOMAIN rows, made)
  BY MadeOnce
<1>2. Terms(F, made)
  <2>1. \A h \in made : h.bought \in Things
    BY <1>1 DEF Holdings
  <2> QED
    BY <2>1 DEF Terms
<1>3. ASSUME NEW i \in DOMAIN rows PROVE OfRows(W, rows)[i] = F[f[i]]
  <2>1. f[i] \in made /\ f[i].bought = rows[i]
    BY DEF Made, MadeOf
  <2> QED
    BY <2>1 DEF OfRows
<1> HIDE DEF f
<1>4. Total(OfRows(W, rows), DOMAIN rows) = Total(F, made)
  BY <1>1, <1>2, <1>3, TotalRenamed
<1> QED
  BY <1>4 DEF RowWeight

\* Weights of purchases.
OfNumber(n) == [p \in Things |-> IF p.number = n THEN p.quantity ELSE 0]
OfMoney == [p \in Things |-> p.quantity * p.price]
OfThing(b) == [p \in Things |-> IF p = b THEN 1 ELSE 0]

\* More of a set that is the same is as much more,
LEMMA NumbersAdd == \A n : Terms(OfNumber(n), Things) /\ Additive(OfNumber(n))
<1> SUFFICES ASSUME NEW n PROVE Terms(OfNumber(n), Things) /\ Additive(OfNumber(n))
  OBVIOUS
<1>1. Terms(OfNumber(n), Things)
  BY DEF Terms, OfNumber, Things
<1>2. ASSUME NEW p \in Things, NEW q \in Things, SamePurchase(p, q)
      PROVE  OfNumber(n)[More(p, q)] = OfNumber(n)[p] + OfNumber(n)[q]
  <2>1. p.number = q.number
    <3>1. /\ [p EXCEPT !.quantity = 0].number = p.number
          /\ [q EXCEPT !.quantity = 0].number = q.number
      BY DEF Things
    <3> QED
      BY <1>2, <3>1 DEF SamePurchase
  <2>2. p.quantity \in Nat \ {0} /\ q.quantity \in Nat \ {0}
    BY DEF Things
  <2>3. PICK m \in Things : m = More(p, q)
    BY <2>2, MoreIsThing
  <2>4. m.quantity = p.quantity + q.quantity /\ m.number = p.number
    BY <2>3 DEF More, Things
  <2> QED
    BY <2>1, <2>2, <2>3, <2>4 DEF OfNumber
<1> QED
  BY <1>1, <1>2 DEF Additive

\* and more that is paid at the same price.
LEMMA MoneyAdds == Terms(OfMoney, Things) /\ Additive(OfMoney)
<1>1. ASSUME NEW p \in Things
      PROVE  p.quantity \in Nat /\ p.price \in Nat /\ OfMoney[p] = p.quantity * p.price
  BY DEF Things, OfMoney
<1>2. \A a, b \in Nat : a * b \in Int
  OBVIOUS
<1>3. Terms(OfMoney, Things)
  BY <1>1, <1>2 DEF Terms
<1>4. ASSUME NEW p \in Things, NEW q \in Things, SamePurchase(p, q)
      PROVE  OfMoney[More(p, q)] = OfMoney[p] + OfMoney[q]
  <2>1. p.price = q.price
    <3>1. [p EXCEPT !.quantity = 0].price = p.price /\ [q EXCEPT !.quantity = 0].price = q.price
      BY DEF Things
    <3> QED
      BY <1>4, <3>1 DEF SamePurchase
  <2>2. q.quantity \in Nat \ {0}
    BY DEF Things
  <2>3. PICK m \in Things : m = More(p, q)
    BY <2>2, MoreIsThing
  <2>4. m.quantity = p.quantity + q.quantity /\ m.price = p.price
    BY <2>3 DEF More, Things
  <2>5. PICK a \in Nat, b \in Nat, c \in Nat : a = p.quantity /\ b = q.quantity /\ c = p.price
    BY <1>1
  <2>6. (a + b) * c = a * c + b * c
    OBVIOUS
  <2>7. OfMoney[m] = (a + b) * c /\ OfMoney[p] = a * c /\ OfMoney[q] = b * c
    BY <1>1, <2>1, <2>4, <2>5
  <2> QED
    BY <2>3, <2>6, <2>7
<1> QED
  BY <1>3, <1>4 DEF Additive

\* A count of purchases is a sum.
LEMMA ThingsAreCounted == \A b : Terms(OfThing(b), Things)
  BY DEF Terms, OfThing

\* The pieces of each set.
LEMMA PiecesAreRecorded ==
    ASSUME NEW file, IsFile(file), \A i \in DOMAIN file : Purchase(file[i]) \in Things,
           NEW rows \in Seq(Things),
           NEW id \in Nat, NEW folio \in Nat, NEW at \in Nat,
           NEW made, made = Made(rows, id, folio, at), NEW n,
           RowWeight(OfNumber(n), rows) = Total(OfFile(OfNumber(n), file), DOMAIN file)
    PROVE  Pieces(made, n) = PiecesIn(file, n)
<1> DEFINE part == {h \in made : h.bought.number = n}
           Q == [h \in part |-> h.bought.quantity]
           F == [h \in made |-> OfNumber(n)[h.bought]]
           G == OfFile(OfNumber(n), file)
<1>1. made \subseteq Holdings /\ IsFiniteSet(made)
  BY MadeOnce
<1>2. \A h \in made : h.bought \in Things /\ h.bought.quantity \in Nat
  BY <1>1 DEF Holdings, Things
<1>3. IsFiniteSet(part) /\ Terms(Q, part) /\ \A h \in part : Q[h] = h.bought.quantity
  BY <1>1, <1>2, FS_Subset DEF Terms
<1>4. \A h \in made : F[h] = IF h \in part THEN Q[h] ELSE 0
  BY <1>2 DEF OfNumber
<1>5. \A i \in DOMAIN file : G[i] = IF file[i].number = n THEN file[i].quantity ELSE 0
  BY DEF OfFile, OfNumber, Purchase
<1>6. \A h \in made : F[h] = OfNumber(n)[h.bought]
  OBVIOUS
<1>7. part \in SUBSET made
  OBVIOUS
<1> HIDE DEF part, Q, F
<1>8. Pieces(made, n) = Total(Q, part)
  BY <1>3, SummedQuantity DEF Pieces, part
<1>9. Total(Q, part) = Total(F, made)
  BY <1>1, <1>3, <1>4, <1>7, TotalOfPart
<1>10. Total(F, made) = RowWeight(OfNumber(n), rows)
  BY <1>6, MadeWeighs, NumbersAdd
<1>11. IsFiniteSet(DOMAIN file)
  BY LastRow
<1>12. PiecesIn(file, n) = Total(G, DOMAIN file)
  <2> HIDE DEF G
  <2> QED
    BY <1>5, <1>11, SummedNumbers
<1> QED
  BY <1>8, <1>9, <1>10, <1>12

\* What was paid.
LEMMA MoneyIsRecorded ==
    ASSUME NEW file, IsFile(file), \A i \in DOMAIN file : Purchase(file[i]) \in Things,
           NEW rows \in Seq(Things),
           NEW id \in Nat, NEW folio \in Nat, NEW at \in Nat,
           NEW made, made = Made(rows, id, folio, at),
           RowWeight(OfMoney, rows) = Total(OfFile(OfMoney, file), DOMAIN file)
    PROVE  Summed(Cost, made) = PaidIn(file)
<1> DEFINE F == [h \in made |-> OfMoney[h.bought]]
           G == OfFile(OfMoney, file)
<1>1. made \subseteq Holdings /\ IsFiniteSet(made)
  BY MadeOnce
<1>2. \A h \in made : F[h] = Cost(h) /\ F[h] = OfMoney[h.bought]
  <2>1. \A h \in made : h.bought \in Things
    BY <1>1 DEF Holdings
  <2> QED
    BY <2>1 DEF OfMoney, Cost
<1>3. \A i \in DOMAIN file : G[i] = file[i].quantity * file[i].price
  <2>1. \A i \in DOMAIN file : /\ G[i] = OfMoney[Purchase(file[i])]
                               /\ Purchase(file[i]).quantity = file[i].quantity
                               /\ Purchase(file[i]).price = file[i].price
    BY DEF OfFile, Purchase
  <2>2. \A p \in Things : OfMoney[p] = p.quantity * p.price
    BY DEF OfMoney
  <2> HIDE DEF G
  <2> QED
    BY <2>1, <2>2
<1>4. IsFiniteSet(DOMAIN file)
  BY LastRow
<1> HIDE DEF F, G
<1>5. Summed(Cost, made) = Total(F, made)
  BY <1>1, <1>2, SummedCost
<1>6. Total(F, made) = RowWeight(OfMoney, rows)
  BY <1>2, MadeWeighs, MoneyAdds
<1>7. PaidIn(file) = Total(G, DOMAIN file)
  BY <1>3, <1>4, SummedPrices
<1> QED
  BY <1>5, <1>6, <1>7 DEF G

\* What comes back from an export.
LEMMA ExportsComeBack ==
    ASSUME LedgerInv, NEW from \in DOMAIN folios, NEW file, file = ExportOf(from),
           NEW rows \in Seq(Things), NEW id \in Nat, NEW folio \in Nat, NEW at \in Nat,
           NEW made, made = Made(rows, id, folio, at), NEW b,
           RowWeight(OfThing(b), rows) = Total(OfFile(OfThing(b), file), DOMAIN file)
    PROVE  Cardinality({h \in made : h.bought = b})
               = Cardinality({h \in book : h.folio = from /\ h.bought = b})
<1> DEFINE F == [h \in made |-> OfThing(b)[h.bought]]
           old == HeldIn(from)
           E == [h \in old |-> OfThing(b)[h.bought]]
           G == OfFile(OfThing(b), file)
<1>1. made \subseteq Holdings /\ IsFiniteSet(made)
  BY MadeOnce
<1>2. old \subseteq Holdings /\ IsFiniteSet(old)
  BY FS_Subset DEF LedgerInv, LedgerTypeOK, HeldIn
<1>3. \A h \in Holdings : h.bought \in Things
  BY DEF Holdings
<1>4. \A h \in made : /\ F[h] = OfThing(b)[h.bought]
                      /\ F[h] = IF h \in {g \in made : g.bought = b} THEN 1 ELSE 0
  BY <1>1, <1>3 DEF OfThing
<1>5. \A h \in old : E[h] = IF h \in {g \in old : g.bought = b} THEN 1 ELSE 0
  BY <1>2, <1>3 DEF OfThing
<1>6. Terms(E, old)
  BY <1>5 DEF Terms
<1>7. PICK held \in Bijection(DOMAIN file, old) :
          \A i \in DOMAIN file : Purchase(file[i]) = held[i].bought
  BY ExportIs
<1>8. \A i \in DOMAIN file : G[i] = E[held[i]]
  <2>1. held \in [DOMAIN file -> old]
    BY <1>7 DEF Bijection, Injection
  <2> QED
    BY <1>7, <2>1 DEF OfFile
<1>9. IsFiniteSet(DOMAIN file)
  BY ExportIs, LastRow
<1> HIDE DEF F, E, G, old
<1>10. Total(F, made) = Cardinality({h \in made : h.bought = b})
  BY <1>1, <1>4, CountOfPart
<1>11. Total(E, old) = Cardinality({h \in old : h.bought = b})
  BY <1>2, <1>5, CountOfPart
<1>12. Total(F, made) = RowWeight(OfThing(b), rows)
  BY <1>4, MadeWeighs, ThingsAreCounted
<1>13. Total(G, DOMAIN file) = Total(E, old)
  BY <1>2, <1>6, <1>7, <1>8, <1>9, TotalRenamed
<1>14. {h \in old : h.bought = b} = {h \in book : h.folio = from /\ h.bought = b}
  BY DEF old, HeldIn
<1> QED
  BY <1>10, <1>11, <1>12, <1>13, <1>14 DEF G

\* What an import says of its file is so.
LEMMA ImportIsRecorded ==
    ASSUME LedgerInv, NEW file \in FilesAtHand, NEW mode \in Modes, ImportFile(file, mode)
    PROVE  FileIsRecorded
<1>1. PICK parsed : parsed = Parsed(file, mode)
  OBVIOUS
<1>2. /\ IsFile(file) /\ parsed \in Drafts /\ ~parsed.refused
      /\ folios' = Append(folios, file[1].folio)
      /\ book' = book \cup Made(parsed.rows, NextId, Len(folios) + 1, writes)
      /\ imported' = [file |-> file, mode |-> mode, folio |-> Len(folios) + 1,
                      audit |-> <<Len(parsed.rows) + parsed.merged, Len(parsed.rows),
                                  parsed.merged>>]
  BY <1>1, ImportStep
<1>3. /\ folios \in Seq(Names) /\ Len(folios) \in Nat /\ writes \in Nat
      /\ \A h \in book : h.folio \in 1..Len(folios)
  BY DEF LedgerInv, LedgerTypeOK
<1>4. PICK rows \in Seq(Things), id \in Nat, folio \in Nat, at \in Nat :
          rows = parsed.rows /\ id = NextId /\ folio = Len(folios) + 1 /\ at = writes
  <2>1. parsed.rows \in Seq(Things) /\ NextId \in Nat
    BY <1>2, NextIsNew DEF Drafts
  <2>2. Len(folios) + 1 \in Nat /\ writes \in Nat
    BY <1>3
  <2> QED
    BY <2>1, <2>2
<1>5. PICK made : made = Made(rows, id, folio, at)
  OBVIOUS
<1>6. PICK after : after = book'
  OBVIOUS
<1>7. \A h \in made : h.folio = folio
  BY <1>5 DEF Made
<1>8. \A h \in book : h.folio # folio
  BY <1>3, <1>4
<1>9. after = book \cup made
  BY <1>2, <1>4, <1>5, <1>6
<1>10. Len(folios') = folio
  BY <1>2, <1>3, <1>4
<1>11. {h \in after : h.folio = folio} = made /\ after \ made = book
  BY <1>7, <1>8, <1>9
<1>12. /\ \A i \in DOMAIN file : Purchase(file[i]) \in Things
       /\ Len(rows) + parsed.merged = Len(file)
  <2>1. Terms(OfNumber(0), Things) /\ Additive(OfNumber(0))
    BY NumbersAdd
  <2> QED
    BY <1>1, <1>2, <1>4, <2>1, FileIsRead
<1>13. \A n \in Numbers : Pieces(made, n) = PiecesIn(file, n)
  <2> SUFFICES ASSUME NEW n \in Numbers PROVE Pieces(made, n) = PiecesIn(file, n)
    OBVIOUS
  <2>1. Terms(OfNumber(n), Things) /\ Additive(OfNumber(n))
    BY NumbersAdd
  <2>2. RowWeight(OfNumber(n), rows) = Total(OfFile(OfNumber(n), file), DOMAIN file)
    BY <1>1, <1>2, <1>4, <2>1, FileIsRead
  <2>3. made = Made(rows, id, folio, at) /\ IsFile(file)
    BY <1>2, <1>5
  <2>4. \A i \in DOMAIN file : Purchase(file[i]) \in Things
    BY <1>12
  <2> QED
    BY <2>2, <2>3, <2>4, PiecesAreRecorded
<1>14. Summed(Cost, made) = PaidIn(file)
  <2>1. RowWeight(OfMoney, rows) = Total(OfFile(OfMoney, file), DOMAIN file)
    BY <1>1, <1>2, <1>4, MoneyAdds, FileIsRead
  <2> QED
    BY <1>2, <1>5, <1>12, <2>1, MoneyIsRecorded
<1>15. ASSUME NEW from \in DOMAIN folios, file = ExportOf(from), mode # "merge",
              NEW b \in Purchases
       PROVE  Cardinality({h \in made : h.bought = b})
                  = Cardinality({h \in book : h.folio = from /\ h.bought = b})
  <2>1. RowWeight(OfThing(b), rows) = Total(OfFile(OfThing(b), file), DOMAIN file)
    BY <1>1, <1>2, <1>4, <1>15, ThingsAreCounted, FileIsRead
  <2> QED
    BY <1>5, <1>15, <2>1, ExportsComeBack
<1>16. imported'.file = file /\ imported'.mode = mode /\ imported'.audit[1] = Len(file)
  BY <1>2, <1>4, <1>12
<1>17. {h \in book' : h.folio = Len(folios')} = made /\ book' \ made = book
  BY <1>6, <1>10, <1>11
<1>18. \A from \in DOMAIN folios :
           imported'.file = ExportOf(from) /\ imported'.mode # "merge" =>
               \A b \in Purchases :
                   Cardinality({h \in made : h.bought = b})
                       = Cardinality({h \in book : h.folio = from /\ h.bought = b})
  BY <1>15, <1>16
<1>19. /\ \A n \in Numbers : Pieces(made, n) = PiecesIn(imported'.file, n)
       /\ Summed(Cost, made) = PaidIn(imported'.file)
       /\ imported'.audit[1] = Len(imported'.file)
  BY <1>13, <1>14, <1>16
<1> QED
  BY <1>17, <1>18, <1>19, Zenon DEF FileIsRecorded

\* An import records what the file says, whatever is in it.
THEOREM ImportsAlwaysRecordTheFile == LedgerSpec => ImportRecordsTheFile
<1>1. LedgerInv /\ [LedgerNext]_ledgerVars => [folios' # folios => FileIsRecorded]_ledgerVars
  <2> SUFFICES ASSUME LedgerInv, LedgerNext, folios' # folios PROVE FileIsRecorded
    BY DEF ledgerVars
  <2>1. PICK file \in FilesAtHand, mode \in Modes : ImportFile(file, mode)
    BY DEF LedgerNext, BuyOne, Amend, Discard, Refuse, Reprice
  <2> QED
    BY <2>1, ImportIsRecorded
<1> QED
  BY <1>1, LedgerInvariance, PTL DEF LedgerSpec, ImportRecordsTheFile

-----------------------------------------------------------------------------
(* What the pages say of what is held. *)

\* What a holding cost is a number, and what it is worth and brought, if it has a value.
LEMMA ValuesType ==
    ASSUME LedgerInv
    PROVE  /\ IsFiniteSet(book) /\ IsFiniteSet(Valued(book)) /\ Valued(book) \in SUBSET book
           /\ \A h \in book : Cost(h) \in Nat
           /\ \A h \in Valued(book) : /\ HasValue(h) /\ Worth(h) \in Nat /\ Gain(h) \in Int
                                      /\ Worth(h) = Gain(h) + Cost(h)
<1>1. book \subseteq Holdings /\ IsFiniteSet(book) /\ quotes \in Quotes
  BY DEF LedgerInv, LedgerTypeOK
<1>2. Valued(book) \in SUBSET book /\ IsFiniteSet(Valued(book))
  BY <1>1, FS_Subset DEF Valued
<1>3. \A a, b \in Nat : a * b \in Nat
  OBVIOUS
<1>4. ASSUME NEW h \in book
      PROVE  h.bought.quantity \in Nat /\ h.bought.price \in Nat /\ Cost(h) \in Nat
  <2>1. h.bought \in Things
    BY <1>1 DEF Holdings
  <2>2. h.bought.quantity \in Nat /\ h.bought.price \in Nat
    BY <2>1 DEF Things
  <2> QED
    BY <1>3, <2>2 DEF Cost
<1>5. ASSUME NEW h \in Valued(book)
      PROVE  /\ HasValue(h) /\ Worth(h) \in Nat /\ Gain(h) \in Int
             /\ Worth(h) = Gain(h) + Cost(h)
  <2>1. h \in book /\ HasValue(h)
    BY DEF Valued
  <2>2. h.bought.number \in Numbers /\ h.bought.condition \in Conditions
    <3>1. h.bought \in Things
      BY <1>1, <2>1 DEF Holdings
    <3> QED
      BY <3>1 DEF Things
  <2>3. ClassOf(h.bought.condition) \in {"new", "used_complete", "any"}
    BY <2>2 DEF ClassOf, Conditions
  <2>4. UnitValue(h) \in Nat
    BY <1>1, <2>1, <2>2, <2>3, LedgerConstants DEF UnitValue, HasValue
  <2>5. Worth(h) \in Nat
    BY <1>3, <1>4, <2>1, <2>4 DEF Worth
  <2>6. Gain(h) = Worth(h) - Cost(h)
    BY DEF Gain
  <2>7. Cost(h) \in Nat
    BY <1>4, <2>1
  <2> HIDE DEF Valued
  <2> QED
    BY <2>1, <2>5, <2>6, <2>7
<1> QED
  BY <1>1, <1>2, <1>4, <1>5

\* Worth adds up,
LEMMA SummedWorth ==
    ASSUME NEW S, IsFiniteSet(S), NEW F, \A h \in S : F[h] = Worth(h)
    PROVE  Summed(Worth, S) = Total(F, S)
<1> DEFINE rec(it) == it = [s \in SUBSET S |-> IF s = {} THEN 0
               ELSE Worth(CHOOSE x \in s : TRUE) + it[s \ {CHOOSE x \in s : TRUE}]]
<1>1. ASSUME NEW it PROVE rec(it) <=> Adds(it, F, S)
  <2>1. \A s \in SUBSET S : s # {} => F[Pick(s)] = Worth(Pick(s))
    BY PickedIsIn
  <2> QED
    BY <2>1 DEF Adds, Pick
<1>2. Adds(CHOOSE i : rec(i), F, S)
  <2> HIDE DEF rec
  <2>1. PICK it : rec(it)
    BY <1>1, SumsExist
  <2>2. rec(CHOOSE i : rec(i))
    BY <2>1
  <2> QED
    BY <1>1, <2>2
<1>3. Summed(Worth, S) = (CHOOSE i : rec(i))[S]
  BY DEF Summed, MapThenSumSet, MapThenFoldSet
<1> QED
  BY <1>2, <1>3, TotalIs

\* and gains do,
LEMMA SummedGain ==
    ASSUME NEW S, IsFiniteSet(S), NEW F, \A h \in S : F[h] = Gain(h)
    PROVE  Summed(Gain, S) = Total(F, S)
<1> DEFINE rec(it) == it = [s \in SUBSET S |-> IF s = {} THEN 0
               ELSE Gain(CHOOSE x \in s : TRUE) + it[s \ {CHOOSE x \in s : TRUE}]]
<1>1. ASSUME NEW it PROVE rec(it) <=> Adds(it, F, S)
  <2>1. \A s \in SUBSET S : s # {} => F[Pick(s)] = Gain(Pick(s))
    BY PickedIsIn
  <2> QED
    BY <2>1 DEF Adds, Pick
<1>2. Adds(CHOOSE i : rec(i), F, S)
  <2> HIDE DEF rec
  <2>1. PICK it : rec(it)
    BY <1>1, SumsExist
  <2>2. rec(CHOOSE i : rec(i))
    BY <2>1
  <2> QED
    BY <1>1, <2>2
<1>3. Summed(Gain, S) = (CHOOSE i : rec(i))[S]
  BY DEF Summed, MapThenSumSet, MapThenFoldSet
<1> QED
  BY <1>2, <1>3, TotalIs

\* and shares.
LEMMA SummedShare ==
    ASSUME NEW S, IsFiniteSet(S), NEW F, \A h \in S : F[h] = Share(h, book)
    PROVE  SharesOf(S) = Total(F, S)
<1> DEFINE term(h) == Share(h, book)
           rec(it) == it = [s \in SUBSET S |-> IF s = {} THEN 0
               ELSE term(CHOOSE x \in s : TRUE) + it[s \ {CHOOSE x \in s : TRUE}]]
<1>1. PICK it : Adds(it, F, S)
  BY SumsExist
<1>2. \A h \in S : F[h] = term(h)
  OBVIOUS
<1>3. SharesOf(S) = (CHOOSE i : rec(i))[S]
  BY DEF SharesOf, Summed, MapThenSumSet, MapThenFoldSet
<1>0. \A s \in SUBSET S :
          s # {} => F[CHOOSE x \in s : TRUE] = term(CHOOSE x \in s : TRUE)
  <2> HIDE DEF term
  <2> QED
    BY <1>2, PickedIsIn DEF Pick
<1> HIDE DEF term
<1>4. rec(it)
  BY <1>0, <1>1 DEF Adds, Pick
<1>5. PICK sums : rec(sums) /\ sums = CHOOSE i : rec(i)
  <2> HIDE DEF rec
  <2> QED
    BY <1>4
<1>6. rec(sums)
  <2> HIDE DEF rec
  <2> QED
    BY <1>5
<1>7. Adds(sums, F, S)
  BY <1>0, <1>6 DEF Adds, Pick
<1> QED
  BY <1>3, <1>5, <1>7, TotalIs

\* The fields of the lines of holdings.
CostsOf(S) == [h \in S |-> Cost(h)]
WorthsOf(S) == [h \in S |-> Worth(h)]
GainsOf(S) == [h \in S |-> Gain(h)]
InLine(S, k) == {h \in S : LineOf(h) = k}
LinesOf(S) == [h \in S |-> LineOf(h)]

\* Every field is a sum over a group of holdings.
LEMMA LineIs ==
    ASSUME LedgerInv, NEW K, K = {LineOf(h) : h \in book}
    PROVE  /\ DOMAIN Lines(book) = K /\ IsFiniteSet(K)
           /\ \A k \in K :
                 /\ Lines(book)[k].cost = Total(CostsOf(book), InLine(book, k))
                 /\ Lines(book)[k].worth =
                        Total(WorthsOf(Valued(book)), InLine(Valued(book), k))
                 /\ Lines(book)[k].gain =
                        Total(GainsOf(Valued(book)), InLine(Valued(book), k))
<1>1. IsFiniteSet(book)
  BY ValuesType
<1>2. DOMAIN Lines(book) = K
  BY DEF Lines
<1>3. IsFiniteSet(K)
  <2>1. LinesOf(book) \in Surjection(book, K)
    BY DEF Surjection, LinesOf
  <2> QED
    BY <1>1, <2>1, FS_Surjection
<1>4. ASSUME NEW k \in K
      PROVE  /\ Lines(book)[k].cost = Total(CostsOf(book), InLine(book, k))
             /\ Lines(book)[k].worth =
                    Total(WorthsOf(Valued(book)), InLine(Valued(book), k))
             /\ Lines(book)[k].gain =
                    Total(GainsOf(Valued(book)), InLine(Valued(book), k))
  <2> DEFINE group == InLine(book, k)
             part == InLine(Valued(book), k)
  <2>1. Valued(group) = part
    BY DEF Valued, InLine
  <2>2. IsFiniteSet(group) /\ IsFiniteSet(part)
    <3>1. group \in SUBSET book /\ part \in SUBSET book
      BY DEF Valued, InLine
    <3> HIDE DEF group, part
    <3> QED
      BY <1>1, <3>1, FS_Subset
  <2>3. /\ Lines(book)[k].cost = Summed(Cost, group)
        /\ Lines(book)[k].worth = Summed(Worth, Valued(group))
        /\ Lines(book)[k].gain = Summed(Gain, Valued(group))
    BY DEF Lines, InLine
  <2>4. /\ \A h \in group : CostsOf(book)[h] = Cost(h)
        /\ \A h \in part : WorthsOf(Valued(book))[h] = Worth(h)
        /\ \A h \in part : GainsOf(Valued(book))[h] = Gain(h)
    BY DEF CostsOf, WorthsOf, GainsOf, InLine
  <2> HIDE DEF group, part
  <2>5. Summed(Cost, group) = Total(CostsOf(book), group)
    BY <2>2, <2>4, SummedCost
  <2>6. Summed(Worth, part) = Total(WorthsOf(Valued(book)), part)
    BY <2>2, <2>4, SummedWorth
  <2>7. Summed(Gain, part) = Total(GainsOf(Valued(book)), part)
    BY <2>2, <2>4, SummedGain
  <2>8. Lines(book)[k].cost = Total(CostsOf(book), group)
    BY <2>3, <2>5
  <2>9. Lines(book)[k].worth = Total(WorthsOf(Valued(book)), part)
    BY <2>1, <2>3, <2>6
  <2>10. Lines(book)[k].gain = Total(GainsOf(Valued(book)), part)
    BY <2>1, <2>3, <2>7
  <2> QED
    BY <2>8, <2>9, <2>10 DEF group, part
<1> QED
  BY <1>2, <1>3, <1>4

\* The sums over the lines are those over what they are of.
LEMMA LinesAddUp ==
    ASSUME LedgerInv, NEW S \in SUBSET book, NEW F, Terms(F, S), NEW field,
           NEW K, K = {LineOf(h) : h \in book},
           \A k \in K : Lines(book)[k][field] = Total(F, InLine(S, k))
    PROVE  OfLines(field) = Total(F, S)
<1> DEFINE G == GroupSums(F, S, LinesOf(book), K)
<1>1. IsFiniteSet(S) /\ DOMAIN Lines(book) = K /\ IsFiniteSet(K)
  BY ValuesType, LineIs, FS_Subset
<1>2. \A h \in S : LinesOf(book)[h] = LineOf(h) /\ LineOf(h) \in K
  BY DEF LinesOf
<1>3. \A k \in K : InLine(S, k) = {h \in S : LinesOf(book)[h] = k}
  BY <1>2 DEF InLine
<1>4. \A k \in K : G[k] = Lines(book)[k][field]
  BY <1>3 DEF GroupSums
<1>5. Total(G, K) = Total(F, S)
  <2> HIDE DEF G
  <2>1. \A h \in S : LinesOf(book)[h] \in K
    BY <1>2
  <2> QED
    BY <1>1, <2>1, TotalByGroup DEF G
<1> HIDE DEF G
<1>6. FieldSum(Lines(book), field) = Total(G, K)
  <2>1. /\ IsFiniteSet(DOMAIN Lines(book))
        /\ \A k \in DOMAIN Lines(book) : G[k] = Lines(book)[k][field]
    BY <1>1, <1>4
  <2>2. FieldSum(Lines(book), field) = Total(G, DOMAIN Lines(book))
    BY <2>1, FieldSums
  <2> QED
    BY <1>1, <2>2
<1>7. OfLines(field) = FieldSum(Lines(book), field)
  BY DEF OfLines, FieldSum, Summed
<1> QED
  BY <1>5, <1>6, <1>7

\* The totals are sums.
LEMMA TotalsAre ==
    ASSUME LedgerInv
    PROVE  /\ Terms(CostsOf(book), book)
           /\ \A h \in Valued(book) : WorthsOf(Valued(book))[h] \in Nat
           /\ Terms(WorthsOf(Valued(book)), Valued(book))
           /\ Terms(GainsOf(Valued(book)), Valued(book))
           /\ Totals(book).cost = Total(CostsOf(book), book)
           /\ Totals(book).worth = Total(WorthsOf(Valued(book)), Valued(book))
           /\ Totals(book).worth \in Nat
           /\ Totals(book).gain = Total(GainsOf(Valued(book)), Valued(book))
           /\ Summed(Gain, Valued(book)) = Total(GainsOf(Valued(book)), Valued(book))
<1>1. PICK valued : valued = Valued(book)
  OBVIOUS
<1> DEFINE C == CostsOf(valued)
           W == WorthsOf(valued)
           G == GainsOf(valued)
<1>2. IsFiniteSet(book) /\ IsFiniteSet(valued) /\ valued \in SUBSET book
  BY <1>1, ValuesType
<1>3. /\ Terms(CostsOf(book), book) /\ Terms(C, valued) /\ Terms(W, valued) /\ Terms(G, valued)
      /\ \A h \in valued : W[h] \in Nat
  BY <1>1, ValuesType DEF Terms, CostsOf, WorthsOf, GainsOf
<1>4. \A h \in valued : W[h] = G[h] + C[h]
  BY <1>1, ValuesType DEF CostsOf, WorthsOf, GainsOf
<1>5. /\ \A h \in book : CostsOf(book)[h] = Cost(h)
      /\ \A h \in valued : C[h] = Cost(h) /\ W[h] = Worth(h) /\ G[h] = Gain(h)
  BY DEF CostsOf, WorthsOf, GainsOf
<1> HIDE DEF C, W, G
<1>6. Total(W, valued) = Total(G, valued) + Total(C, valued)
  BY <1>2, <1>3, <1>4, TotalPlus
<1>7. Summed(Cost, book) = Total(CostsOf(book), book)
  BY <1>2, <1>5, SummedCost
<1>8. Summed(Cost, valued) = Total(C, valued)
  BY <1>2, <1>5, SummedCost
<1>9. Summed(Worth, valued) = Total(W, valued)
  BY <1>2, <1>5, SummedWorth
<1>10. Summed(Gain, valued) = Total(G, valued)
  BY <1>2, <1>5, SummedGain
<1>11. /\ Totals(book).cost = Summed(Cost, book) /\ Totals(book).worth = Summed(Worth, valued)
       /\ Totals(book).gain = Summed(Worth, valued) - Summed(Cost, valued)
  BY <1>1 DEF Totals
<1>12. Total(G, valued) \in Int /\ Total(C, valued) \in Int /\ Total(W, valued) \in Nat
  BY <1>2, <1>3, TotalType, TotalOfNaturals
<1>13. Totals(book).gain = Total(G, valued)
  BY <1>6, <1>8, <1>9, <1>11, <1>12
<1>14. /\ Totals(book).cost = Total(CostsOf(book), book)
       /\ Totals(book).worth = Total(W, valued) /\ Totals(book).worth \in Nat
  BY <1>7, <1>9, <1>11, <1>12
<1> QED
  BY <1>1, <1>3, <1>10, <1>13, <1>14 DEF W, G

\* The summary adds up whatever is held.
LEMMA SummaryIsRight == LedgerInv => SummaryAddsUp
<1> SUFFICES ASSUME LedgerInv PROVE SummaryAddsUp
  OBVIOUS
<1>1. PICK K : K = {LineOf(h) : h \in book}
  OBVIOUS
<1>2. Valued(book) \in SUBSET book
  BY ValuesType
<1>3. OfLines("cost") = Total(CostsOf(book), book)
  <2>1. PICK F, S : F = CostsOf(book) /\ S = book
    OBVIOUS
  <2>2. Terms(F, S) /\ S \in SUBSET book
    BY <1>2, <2>1, TotalsAre
  <2>3. \A k \in K : Lines(book)[k]["cost"] = Total(F, InLine(S, k))
    BY <1>1, <2>1, LineIs
  <2>4. OfLines("cost") = Total(F, S)
    BY <1>1, <2>2, <2>3, LinesAddUp
  <2> QED
    BY <2>1, <2>4
<1>4. OfLines("worth") = Total(WorthsOf(Valued(book)), Valued(book))
  <2>1. PICK F, S : F = WorthsOf(Valued(book)) /\ S = Valued(book)
    OBVIOUS
  <2>2. Terms(F, S) /\ S \in SUBSET book
    BY <1>2, <2>1, TotalsAre
  <2>3. \A k \in K : Lines(book)[k]["worth"] = Total(F, InLine(S, k))
    BY <1>1, <2>1, LineIs
  <2>4. OfLines("worth") = Total(F, S)
    BY <1>1, <2>2, <2>3, LinesAddUp
  <2> QED
    BY <2>1, <2>4
<1>5. OfLines("gain") = Total(GainsOf(Valued(book)), Valued(book))
  <2>1. PICK F, S : F = GainsOf(Valued(book)) /\ S = Valued(book)
    OBVIOUS
  <2>2. Terms(F, S) /\ S \in SUBSET book
    BY <1>2, <2>1, TotalsAre
  <2>3. \A k \in K : Lines(book)[k]["gain"] = Total(F, InLine(S, k))
    BY <1>1, <2>1, LineIs
  <2>4. OfLines("gain") = Total(F, S)
    BY <1>1, <2>2, <2>3, LinesAddUp
  <2> QED
    BY <2>1, <2>4
<1> QED
  BY <1>3, <1>4, <1>5, TotalsAre DEF SummaryAddsUp

\* A filter by performance leaves none out.
LEMMA FiltersAreRight == LedgerInv => FiltersShowAll
<1> SUFFICES ASSUME LedgerInv, NEW h \in book
             PROVE  Cardinality({p \in Performances \ {"any"} : Performs(h, p)})
                        = IF HasValue(h) /\ Gain(h) = 0 THEN 0 ELSE 1
  BY DEF FiltersShowAll
<1> DEFINE shown == {p \in Performances \ {"any"} : Performs(h, p)}
<1>1. Performances \ {"any"} = {"gain", "loss", "unvalued"}
  BY DEF Performances
<1>2. /\ Performs(h, "gain") <=> HasValue(h) /\ Gain(h) > 0
      /\ Performs(h, "loss") <=> HasValue(h) /\ Gain(h) < 0
      /\ Performs(h, "unvalued") <=> ~HasValue(h)
  BY DEF Performs
<1>3. HasValue(h) => Gain(h) \in Int
  BY ValuesType DEF Valued
<1>4. shown = IF ~HasValue(h) THEN {"unvalued"}
              ELSE IF Gain(h) > 0 THEN {"gain"}
              ELSE IF Gain(h) < 0 THEN {"loss"} ELSE {}
  BY <1>1, <1>2, <1>3
<1>5. \A p : Cardinality({p}) = 1
  BY FS_Singleton
<1>6. Cardinality({}) = 0
  BY FS_EmptySet
<1> HIDE DEF shown
<1>7. Cardinality(shown) = IF HasValue(h) /\ Gain(h) = 0 THEN 0 ELSE 1
  BY <1>3, <1>4, <1>5, <1>6
<1> QED
  BY <1>7 DEF shown

\* The list and the dashboard have one order of what has a value.
LEMMA OrdersAreRight == PagesHaveOneOrder
<1> SUFFICES ASSUME NEW g \in Valued(book), NEW h \in Valued(book), NEW order \in Orders
             PROVE  ListedBefore(g, h, order) <=> ShownBefore(g, h, order)
  BY DEF PagesHaveOneOrder
<1>1. HasValue(g) = TRUE /\ HasValue(h) = TRUE
  BY DEF Valued, HasValue
<1> QED
  BY <1>1 DEF ListedBefore, ShownBefore

\* Rounded quotients grow with what is divided.
LEMMA HalfUpGrows ==
    ASSUME NEW n \in Nat, NEW m \in Nat, n <= m, NEW d \in Nat \ {0}
    PROVE  HalfUp(n, d) \in Nat /\ HalfUp(m, d) \in Nat /\ HalfUp(n, d) <= HalfUp(m, d)
<1>1. PICK a \in Nat, c \in Nat, b \in Nat \ {0} : a = 2 * n + d /\ c = 2 * m + d /\ b = 2 * d
  OBVIOUS
<1>2. HalfUp(n, d) = a \div b /\ HalfUp(m, d) = c \div b /\ a <= c
  BY <1>1 DEF HalfUp
<1>3. a \div b \in Nat /\ b * (a \div b) <= a
  OBVIOUS
<1>4. c \div b \in Nat /\ c < b * (c \div b) + b
  OBVIOUS
<1>5. PICK p \in Nat, q \in Nat : p = a \div b /\ q = c \div b
  BY <1>3, <1>4
<1>6. ASSUME p > q PROVE FALSE
  <2>1. PICK r \in Nat : p = q + 1 + r
    <3>1. p - q - 1 \in Nat /\ p = q + 1 + (p - q - 1)
      BY <1>6
    <3> QED
      BY <3>1
  <2>2. b * p = b * q + b + b * r
    BY <2>1
  <2>3. b * r \in Nat /\ b * q \in Nat /\ b * p \in Nat
    OBVIOUS
  <2> QED
    BY <1>2, <1>3, <1>4, <1>5, <2>2, <2>3
<1> QED
  BY <1>2, <1>5, <1>6

\* What a share is.
LEMMA ShareIs ==
    ASSUME LedgerInv, NEW whole, whole = Totals(book).worth, NEW h \in book
    PROVE  Share(h, book) = IF h \in Valued(book) /\ whole > 0
                            THEN HalfUp(10000 * Worth(h), whole) ELSE NoQuote
  BY DEF Share, Percentage, Valued

\* A share that is large is one of much.
LEMMA LargeShare ==
    ASSUME NEW w \in Nat, NEW whole \in Nat \ {0}, HalfUp(10000 * w, whole) >= 4000
    PROVE  7999 * whole <= 20000 * w
<1>1. PICK p \in Nat : p = HalfUp(10000 * w, whole)
  BY PercentIsNear
<1>2. 2 * (whole * p) <= 20000 * w + whole
  BY <1>1, PercentIsNear
<1>3. PICK r \in Nat : p = 4000 + r
  <2>1. p - 4000 \in Nat /\ p = 4000 + (p - 4000)
    BY <1>1
  <2> QED
    BY <2>1
<1>4. whole * p = 4000 * whole + whole * r
  BY <1>3
<1>5. whole * r \in Nat
  OBVIOUS
<1> QED
  BY <1>2, <1>4, <1>5

\* There are not three holdings of two fifths.
LEMMA TwoAreLarge ==
    ASSUME NEW V, IsFiniteSet(V), NEW F, \A h \in V : F[h] \in Nat,
           NEW whole \in Nat \ {0}, whole = Total(F, V),
           NEW H \in SUBSET V, \A h \in H : 7999 * whole <= 20000 * F[h]
    PROVE  Cardinality(H) <= 2
<1> DEFINE rest == V \ H
           Ones == [h \in H |-> 1]
           Low == [h \in H |-> (7999 * whole) * Ones[h]]
           High == [h \in H |-> 20000 * F[h]]
<1>1. /\ IsFiniteSet(H) /\ IsFiniteSet(rest) /\ H \cap rest = {} /\ H \cup rest = V
      /\ Cardinality(H) \in Nat
  BY FS_Subset, FS_CardinalityType
<1>2. Terms(F, V) /\ Terms(F, H) /\ \A h \in rest : F[h] \in Nat
  BY DEF Terms
<1>3. Total(F, V) = Total(F, H) + Total(F, rest)
  <2> HIDE DEF rest
  <2>1. Terms(F, H \cup rest)
    BY <1>1, <1>2
  <2> QED
    BY <1>1, <2>1, TotalOfBoth
<1>4. Total(F, rest) \in Nat /\ Total(F, H) \in Int
  <2> HIDE DEF rest
  <2> QED
    BY <1>1, <1>2, TotalOfNaturals, TotalType
<1>5. PICK k \in Int : k = 7999 * whole
  OBVIOUS
<1>6. /\ \A h \in H : Ones[h] = 1 /\ Low[h] = k * Ones[h] /\ High[h] = 20000 * F[h]
      /\ Terms(Ones, H) /\ Terms(Low, H) /\ Terms(High, H)
      /\ \A h \in H : Low[h] <= High[h]
  BY <1>2, <1>5 DEF Terms
<1> HIDE DEF rest, Ones, Low, High
<1>7. Total(Ones, H) = Cardinality(H)
  BY <1>1, <1>6, TotalOfOnes
<1>8. Total(Low, H) = k * Total(Ones, H)
  BY <1>1, <1>6, TotalTimes
<1>9. Total(High, H) = 20000 * Total(F, H)
  BY <1>1, <1>2, <1>6, TotalTimes
<1>10. Total(Low, H) <= Total(High, H)
  BY <1>1, <1>6, TotalCompare DEF Compares
<1>11. PICK c \in Nat, t \in Int : c = Cardinality(H) /\ t = Total(F, H)
  BY <1>1, <1>4
<1>12. k * c <= 20000 * t /\ t <= whole
  BY <1>3, <1>4, <1>7, <1>8, <1>9, <1>10, <1>11
<1>13. ASSUME c > 2 PROVE FALSE
  <2>1. PICK r \in Nat : c = 3 + r
    <3>1. c - 3 \in Nat /\ c = 3 + (c - 3)
      BY <1>13
    <3> QED
      BY <3>1
  <2>2. k * c = 3 * k + k * r
    BY <2>1
  <2>3. k * r \in Nat
    BY <1>5
  <2> QED
    BY <1>5, <1>12, <2>2, <2>3
<1> QED
  BY <1>11, <1>13

\* The shares are those of the whole.
LEMMA SharesAreRight == LedgerInv => SharesAreOfTheWhole
<1> SUFFICES ASSUME LedgerInv PROVE SharesAreOfTheWhole
  OBVIOUS
<1>1. PICK valued, whole : valued = Valued(book) /\ whole = Totals(book).worth
  OBVIOUS
<1>2. PICK F : F = WorthsOf(valued)
  OBVIOUS
<1>3. /\ IsFiniteSet(book) /\ IsFiniteSet(valued) /\ valued \in SUBSET book
      /\ \A h \in valued : F[h] = Worth(h) /\ F[h] \in Nat
      /\ whole \in Nat /\ whole = Total(F, valued)
  BY <1>1, <1>2, ValuesType, TotalsAre DEF WorthsOf
<1>4. \A h \in valued : whole > 0 => Share(h, book) = HalfUp(10000 * F[h], whole)
  BY <1>1, <1>3, ShareIs
<1>5. Cardinality({h \in book : RiskOf(h, book) = "high"}) <= 2
  <2>0. PICK H : H = {h \in book : RiskOf(h, book) = "high"}
    OBVIOUS
  <2>1. \A h \in H : h \in book /\ Share(h, book) # NoQuote /\ Share(h, book) >= 4000
    BY <2>0 DEF RiskOf
  <2>2. \A h \in H : h \in valued /\ whole > 0
    BY <1>1, <2>1, ShareIs
  <2>3. CASE whole > 0
    <3>1. \A h \in H : 7999 * whole <= 20000 * F[h]
      <4> SUFFICES ASSUME NEW h \in H PROVE 7999 * whole <= 20000 * F[h]
        OBVIOUS
      <4>1. F[h] \in Nat /\ whole \in Nat \ {0} /\ HalfUp(10000 * F[h], whole) >= 4000
        BY <1>3, <1>4, <2>1, <2>2, <2>3
      <4> QED
        BY <4>1, LargeShare
    <3>2. H \in SUBSET valued /\ whole \in Nat \ {0}
      BY <1>3, <2>2, <2>3
    <3>3. Cardinality(H) <= 2
      BY <1>3, <3>1, <3>2, TwoAreLarge
    <3> QED
      BY <2>0, <3>3
  <2>4. CASE ~(whole > 0)
    <3>1. H = {}
      BY <2>2, <2>4
    <3>2. Cardinality(H) <= 2
      BY <3>1, FS_EmptySet
    <3> QED
      BY <2>0, <3>2
  <2> QED
    BY <2>3, <2>4
<1>6. ASSUME whole > 0
      PROVE  SharesOf(valued) - 10000 \in -Cardinality(valued)..Cardinality(valued)
  <2> DEFINE P == [h \in valued |-> Share(h, book)]
  <2>1. \A h \in valued : P[h] = Share(h, book) /\ P[h] = HalfUp(10000 * F[h], whole)
    BY <1>4, <1>6
  <2> HIDE DEF P
  <2>2. SharesOf(valued) = Total(P, valued)
    BY <1>3, <2>1, SummedShare
  <2>3. whole \in Nat \ {0}
    BY <1>3, <1>6
  <2>4. Total(P, valued) - 10000 \in -Cardinality(valued)..Cardinality(valued)
    BY <1>3, <2>1, <2>3, PercentsAddUp
  <2> QED
    BY <2>2, <2>4
<1>7. ASSUME whole > 0, NEW g \in valued, NEW h \in valued, Share(g, book) > Share(h, book)
      PROVE  PlaceOf(g, book) < PlaceOf(h, book)
  <2>1. F[g] > F[h]
    <3> SUFFICES ASSUME ~(F[g] > F[h]) PROVE FALSE
      OBVIOUS
    <3>1. PICK n \in Nat, m \in Nat : n = 10000 * F[g] /\ m = 10000 * F[h]
      BY <1>3
    <3>2. n <= m /\ whole \in Nat \ {0}
      BY <1>3, <1>7, <3>1
    <3>3. HalfUp(n, whole) \in Nat /\ HalfUp(m, whole) \in Nat
          /\ HalfUp(n, whole) <= HalfUp(m, whole)
      BY <3>2, HalfUpGrows
    <3> QED
      BY <1>4, <1>7, <3>1, <3>3
  <2>2. PICK A, B : /\ A = {y \in book : HasValue(y) /\ Worth(y) > Worth(g)}
                    /\ B = {y \in book : HasValue(y) /\ Worth(y) > Worth(h)}
    OBVIOUS
  <2>3. A \subseteq B /\ B \in SUBSET book
    <3>1. \A y \in book : HasValue(y) => Worth(y) \in Nat
      BY <1>1, <1>3 DEF Valued
    <3> QED
      BY <1>3, <2>1, <2>2, <3>1
  <2>4. g \in B /\ g \notin A
    BY <1>1, <1>3, <2>1, <2>2 DEF Valued
  <2>5. IsFiniteSet(B) /\ A # B
    BY <1>3, <2>3, <2>4, FS_Subset
  <2>6. Cardinality(A) < Cardinality(B) /\ Cardinality(A) \in Nat /\ Cardinality(B) \in Nat
    <3>1. /\ IsFiniteSet(A) /\ Cardinality(A) <= Cardinality(B)
          /\ Cardinality(A) = Cardinality(B) => A = B
      BY <2>3, <2>5, FS_Subset
    <3>2. Cardinality(A) \in Nat /\ Cardinality(B) \in Nat
      BY <2>5, <3>1, FS_CardinalityType
    <3> QED
      BY <2>5, <3>1, <3>2
  <2>7. PlaceOf(g, book) = 1 + Cardinality(A) /\ PlaceOf(h, book) = 1 + Cardinality(B)
    BY <2>2 DEF PlaceOf
  <2> QED
    BY <2>6, <2>7
<1> QED
  BY <1>1, <1>5, <1>6, <1>7 DEF SharesAreOfTheWhole

\* The pages agree whatever is held.
THEOREM PagesAlwaysAgree == LedgerSpec => []PagesAgree
<1>1. LedgerInv => PagesAgree
  BY SummaryIsRight, FiltersAreRight, OrdersAreRight, SharesAreRight DEF PagesAgree
<1> QED
  BY <1>1, LedgerInvariance, PTL


-----------------------------------------------------------------------------
(* DealScores: what a better listing does to its scores.                   *)

\* A quotient, by the products around it.
LEMMA QuotientIs ==
    ASSUME NEW a \in Nat, NEW b \in Nat \ {0}
    PROVE  a \div b \in Nat /\ b * (a \div b) <= a /\ a < b * (a \div b) + b
OBVIOUS

\* A rounded quotient, by the products around it.
LEMMA HalfUpIs ==
    ASSUME NEW n \in Int, NEW d \in Nat \ {0}, NEW q, q = HalfUp(n, d)
    PROVE  /\ q \in Int
           /\ n >= 0 => 2 * (d * q) <= 2 * n + d /\ 2 * n + d < 2 * (d * q) + 2 * d /\ q >= 0
           /\ n < 0 => 2 * (d * q) < 2 * n + d /\ 2 * n + d <= 2 * (d * q) + 2 * d /\ q <= 0
<1> PICK b \in Nat \ {0} : b = 2 * d
  OBVIOUS
<1>1. CASE n >= 0
  <2> PICK a \in Nat : a = 2 * n + d
    BY <1>1
  <2>1. a \div b \in Nat /\ b * (a \div b) <= a /\ a < b * (a \div b) + b
    BY QuotientIs
  <2>2. q = a \div b
    BY <1>1 DEF HalfUp
  <2>3. b * q = 2 * (d * q)
    <3>1. q \in Nat
      BY <2>1, <2>2
    <3> QED
      BY <3>1
  <2> QED
    BY <1>1, <2>1, <2>2, <2>3
<1>2. CASE n < 0
  <2> PICK a \in Nat : a = d - 2 * n
    BY <1>2
  <2> PICK p : p = a \div b
    OBVIOUS
  <2>1. p \in Nat /\ b * p <= a /\ a < b * p + b
    BY QuotientIs
  <2>2. q = -p
    BY <1>2 DEF HalfUp
  <2>3. b * p = 2 * (d * p) /\ d * q = -(d * p) /\ d * p \in Nat
    BY <2>1, <2>2
  <2> PICK z \in Nat : z = d * p
    BY <2>3
  <2>4. 2 * z <= d - 2 * n /\ d - 2 * n < 2 * z + 2 * d /\ d * q = -z
    BY <2>1, <2>3
  <2> QED
    BY <1>2, <2>1, <2>2, <2>4
<1> QED
  BY <1>1, <1>2

\* Rounding keeps the order of quotients.
LEMMA HalfUpInOrder ==
    ASSUME NEW n \in Int, NEW d \in Nat \ {0}, NEW m \in Int, NEW e \in Nat \ {0},
           n * e <= m * d
    PROVE  /\ HalfUp(n, d) \in Int /\ HalfUp(m, e) \in Int
           /\ HalfUp(n, d) <= HalfUp(m, e)
<1> PICK q : q = HalfUp(n, d)
  OBVIOUS
<1> PICK p : p = HalfUp(m, e)
  OBVIOUS
<1>1. /\ q \in Int
      /\ n >= 0 => 2 * (d * q) <= 2 * n + d /\ 2 * n + d < 2 * (d * q) + 2 * d /\ q >= 0
      /\ n < 0 => 2 * (d * q) < 2 * n + d /\ 2 * n + d <= 2 * (d * q) + 2 * d /\ q <= 0
  BY HalfUpIs
<1>2. /\ p \in Int
      /\ m >= 0 => 2 * (e * p) <= 2 * m + e /\ 2 * m + e < 2 * (e * p) + 2 * e /\ p >= 0
      /\ m < 0 => 2 * (e * p) < 2 * m + e /\ 2 * m + e <= 2 * (e * p) + 2 * e /\ p <= 0
  BY HalfUpIs
<1> SUFFICES ASSUME q > p PROVE FALSE
  BY <1>1, <1>2
<1>3. CASE n < 0 /\ m >= 0
  BY <1>1, <1>2, <1>3
<1>4. n >= 0 => m >= 0
  <2> SUFFICES ASSUME n >= 0, m < 0 PROVE FALSE
    OBVIOUS
  <2>1. n * e >= 0 /\ m * d < 0
    <3>1. n \in Nat /\ -m \in Nat \ {0}
      OBVIOUS
    <3>2. n * e \in Nat /\ (-m) * d \in Nat \ {0} /\ m * d = -((-m) * d)
      BY <3>1
    <3> QED
      BY <3>2
  <2> PICK x \in Int, y \in Int : x = n * e /\ y = m * d
    OBVIOUS
  <2> QED
    BY <2>1
<1> PICK x \in Int, y \in Int : x = n * e /\ y = m * d
  OBVIOUS
<1> PICK u \in Int : u = d * q
  BY <1>1
<1> PICK v \in Int : v = e * p
  BY <1>2
\* Both bounds, times the other divisor.
<1>5. e * u >= d * v + d * e
  <2>1. q - p - 1 \in Nat
    BY <1>1, <1>2
  <2> PICK k \in Nat : k = q - p - 1
    BY <2>1
  <2>2. q = p + 1 + k /\ p \in Int /\ q \in Int
    BY <1>1, <1>2
  <2>3. e * (d * (p + 1 + k)) = d * (e * p) + d * e + (d * e) * k
    BY <2>2
  <2>4. (d * e) * k \in Nat
    OBVIOUS
  <2>5. e * u = d * v + d * e + (d * e) * k
    BY <2>2, <2>3
  <2> PICK z \in Nat : z = (d * e) * k
    BY <2>4
  <2> PICK i \in Int, j \in Int, l \in Int : i = e * u /\ j = d * v /\ l = d * e
    OBVIOUS
  <2>6. i = j + l + z
    BY <2>5
  <2> QED
    BY <2>6
<1> PICK i \in Int, j \in Int, l \in Int : i = e * u /\ j = d * v /\ l = d * e
  OBVIOUS
<1>6. i >= j + l /\ x <= y
  BY <1>5
<1>7. CASE n >= 0 /\ m >= 0
  <2>1. 2 * i <= 2 * x + l
    <3>1. 2 * n + d - 2 * u \in Nat
      BY <1>1, <1>7
    <3>2. e * (2 * n + d - 2 * u) \in Nat
      BY <3>1
    <3>3. e * (2 * n + d - 2 * u) = 2 * (n * e) + d * e - 2 * (e * u)
      OBVIOUS
    <3> QED
      BY <3>2, <3>3
  <2>2. 2 * y + l < 2 * j + 2 * l
    <3>1. 2 * v + 2 * e - 2 * m - e \in Nat \ {0}
      BY <1>2, <1>7
    <3>2. d * (2 * v + 2 * e - 2 * m - e) \in Nat \ {0}
      BY <3>1
    <3>3. d * (2 * v + 2 * e - 2 * m - e) = 2 * (d * v) + 2 * (d * e) - 2 * (m * d) - d * e
      OBVIOUS
    <3> QED
      BY <3>2, <3>3
  <2> QED
    BY <1>6, <2>1, <2>2
<1>8. CASE n < 0 /\ m < 0
  <2>1. 2 * i < 2 * x + l
    <3>1. 2 * n + d - 2 * u \in Nat \ {0}
      BY <1>1, <1>8
    <3>2. e * (2 * n + d - 2 * u) \in Nat \ {0}
      BY <3>1
    <3>3. e * (2 * n + d - 2 * u) = 2 * (n * e) + d * e - 2 * (e * u)
      OBVIOUS
    <3> QED
      BY <3>2, <3>3
  <2>2. 2 * y + l <= 2 * j + 2 * l
    <3>1. 2 * v + 2 * e - 2 * m - e \in Nat
      BY <1>2, <1>8
    <3>2. d * (2 * v + 2 * e - 2 * m - e) \in Nat
      BY <3>1
    <3>3. d * (2 * v + 2 * e - 2 * m - e) = 2 * (d * v) + 2 * (d * e) - 2 * (m * d) - d * e
      OBVIOUS
    <3> QED
      BY <3>2, <3>3
  <2> QED
    BY <1>6, <2>1, <2>2
<1> QED
  BY <1>3, <1>4, <1>7, <1>8

-----------------------------------------------------------------------------
(* The sums of a score. *)

PointSum(parts) == MapThenSumSet(LAMBDA name : Component(parts, name), DOMAIN Weights)

ConfidenceSum(parts) ==
    MapThenSumSet(LAMBDA name : parts[name] * ConfidenceWeights[name], DOMAIN ConfidenceWeights)

\* The weights have finitely many names.
LEMMA NamesAreFinite ==
    /\ IsFiniteSet(DOMAIN Weights)
    /\ IsFiniteSet(DOMAIN ConfidenceWeights)
<1> PICK a : a = {"match", "valuation", "seller"}
  OBVIOUS
<1> PICK b : b = {"shop", "state", "quality"}
  OBVIOUS
<1>1. IsFiniteSet(a) /\ IsFiniteSet(b) /\ IsFiniteSet({"value"})
  <2>1. /\ a = {"match"} \cup {"valuation"} \cup {"seller"}
        /\ b = {"shop"} \cup {"state"} \cup {"quality"}
    OBVIOUS
  <2>2. IsFiniteSet({"match"}) /\ IsFiniteSet({"shop"}) /\ IsFiniteSet({"value"})
    BY FS_Singleton
  <2>3. IsFiniteSet({"match"} \cup {"valuation"}) /\ IsFiniteSet({"shop"} \cup {"state"})
    BY <2>2, FS_AddElement
  <2>4. IsFiniteSet(a) /\ IsFiniteSet(b)
    BY <2>1, <2>3, FS_AddElement
  <2> QED
    BY <2>2, <2>4
<1>2. IsFiniteSet(a \cup b)
  BY <1>1, FS_Union
<1>3. IsFiniteSet((a \cup b) \cup {"value"})
  BY <1>2, FS_AddElement
<1>4. DOMAIN Weights = (a \cup b) \cup {"value"} /\ DOMAIN ConfidenceWeights = a \cup b
  BY DEF Weights, ConfidenceWeights
<1> QED
  BY <1>2, <1>3, <1>4

\* The points of a score are a sum over the names of its weights.
LEMMA PointsAre ==
    ASSUME NEW parts, NEW F,
           \A n \in DOMAIN Weights : F[n] = Component(parts, n)
    PROVE  PointSum(parts) = Total(F, DOMAIN Weights)
<1> DEFINE rec(it) == it = [s \in SUBSET DOMAIN Weights |-> IF s = {} THEN 0
               ELSE Component(parts, CHOOSE x \in s : TRUE)
                    + it[s \ {CHOOSE x \in s : TRUE}]]
<1>0. IsFiniteSet(DOMAIN Weights)
  BY NamesAreFinite
<1>1. PICK it : Adds(it, F, DOMAIN Weights)
  BY <1>0, SumsExist
<1>2. rec(it)
  <2>1. \A s \in SUBSET DOMAIN Weights : s # {} => F[Pick(s)] = Component(parts, Pick(s))
    BY PickedIsIn
  <2> QED
    BY <1>1, <2>1 DEF Adds, Pick
<1>3. PointSum(parts) = (CHOOSE i : rec(i))[DOMAIN Weights]
  BY DEF PointSum, MapThenSumSet, MapThenFoldSet
<1>4. PICK sums : sums = (CHOOSE i : rec(i)) /\ rec(sums)
  <2> HIDE DEF rec
  <2>1. rec(CHOOSE i : rec(i))
    BY <1>2
  <2> QED
    BY <2>1
<1>5. Adds(sums, F, DOMAIN Weights)
  <2>1. rec(sums)
    BY <1>4
  <2>2. \A s \in SUBSET DOMAIN Weights : s # {} => F[Pick(s)] = Component(parts, Pick(s))
    BY PickedIsIn
  <2> QED
    BY <2>1, <2>2 DEF Adds, Pick
<1> QED
  BY <1>0, <1>3, <1>4, <1>5, TotalIs

\* So are those of its confidence.
LEMMA ConfidencePointsAre ==
    ASSUME NEW parts, NEW F,
           \A n \in DOMAIN ConfidenceWeights : F[n] = parts[n] * ConfidenceWeights[n]
    PROVE  ConfidenceSum(parts) = Total(F, DOMAIN ConfidenceWeights)
<1> DEFINE rec(it) == it = [s \in SUBSET DOMAIN ConfidenceWeights |-> IF s = {} THEN 0
               ELSE parts[CHOOSE x \in s : TRUE] * ConfidenceWeights[CHOOSE x \in s : TRUE]
                    + it[s \ {CHOOSE x \in s : TRUE}]]
<1>0. IsFiniteSet(DOMAIN ConfidenceWeights)
  BY NamesAreFinite
<1>1. PICK it : Adds(it, F, DOMAIN ConfidenceWeights)
  BY <1>0, SumsExist
<1>2. rec(it)
  <2>1. \A s \in SUBSET DOMAIN ConfidenceWeights :
            s # {} => F[Pick(s)] = parts[Pick(s)] * ConfidenceWeights[Pick(s)]
    BY PickedIsIn
  <2> QED
    BY <1>1, <2>1 DEF Adds, Pick
<1>3. ConfidenceSum(parts) = (CHOOSE i : rec(i))[DOMAIN ConfidenceWeights]
  BY DEF ConfidenceSum, MapThenSumSet, MapThenFoldSet
<1>4. PICK sums : sums = (CHOOSE i : rec(i)) /\ rec(sums)
  <2> HIDE DEF rec
  <2>1. rec(CHOOSE i : rec(i))
    BY <1>2
  <2> QED
    BY <2>1
<1>5. Adds(sums, F, DOMAIN ConfidenceWeights)
  <2>1. rec(sums)
    BY <1>4
  <2>2. \A s \in SUBSET DOMAIN ConfidenceWeights :
            s # {} => F[Pick(s)] = parts[Pick(s)] * ConfidenceWeights[Pick(s)]
    BY PickedIsIn
  <2> QED
    BY <2>1, <2>2 DEF Adds, Pick
<1> QED
  BY <1>0, <1>3, <1>4, <1>5, TotalIs

\* So is what the penalties take.
LEMMA PenaltiesAre ==
    ASSUME NEW P, IsFiniteSet(P), NEW F,
           \A n \in P : F[n] = n[2]
    PROVE  PenaltyTotal(P) = Total(F, P)
<1> DEFINE rec(it) == it = [s \in SUBSET P |-> IF s = {} THEN 0
               ELSE (CHOOSE x \in s : TRUE)[2]
                    + it[s \ {CHOOSE x \in s : TRUE}]]
<1>1. ASSUME NEW it PROVE rec(it) <=> Adds(it, F, P)
  <2>1. \A s \in SUBSET P : s # {} => F[Pick(s)] = Pick(s)[2]
    BY PickedIsIn
  <2> QED
    BY <2>1 DEF Adds, Pick
<1>2. Adds(CHOOSE i : rec(i), F, P)
  <2> HIDE DEF rec
  <2>1. PICK it : rec(it)
    BY <1>1, SumsExist
  <2>2. rec(CHOOSE i : rec(i))
    BY <2>1
  <2> QED
    BY <1>1, <2>2
<1>3. PenaltyTotal(P) = (CHOOSE i : rec(i))[P]
  BY DEF PenaltyTotal, MapThenSumSet, MapThenFoldSet
<1> QED
  BY <1>2, <1>3, TotalIs

-----------------------------------------------------------------------------
(* The parts of a score. *)

NoLess(n, m) == n \in Int /\ m \in Int /\ n <= m

\* Cutting off at both ends keeps the order.
LEMMA CutInOrder ==
    ASSUME NEW n, NEW m, NoLess(n, m), NEW low \in Int, NEW high \in Int, low <= high
    PROVE  NoLess(Between(low, n, high), Between(low, m, high))
BY DEF NoLess, Between

\* A quotient by ten, a hundred or a thousand rises with what is divided.
LEMMA TenthsInOrder ==
    ASSUME NEW n, NEW m, NoLess(n, m), NEW d \in {10, 100, 1000}
    PROVE  NoLess(HalfUp(n, d), HalfUp(m, d))
<1>1. n \in Int /\ m \in Int /\ n * d <= m * d /\ d \in Nat \ {0}
  BY DEF NoLess
<1> QED
  BY <1>1, HalfUpInOrder DEF NoLess

\* So does the score.
LEMMA ScoresInOrder ==
    ASSUME NEW n, NEW m, NoLess(n, m), NEW d \in {10, 100, 1000}
    PROVE  NoLess(ToScore(n, d), ToScore(m, d))
<1>1. NoLess(HalfUp(n, d), HalfUp(m, d))
  BY TenthsInOrder
<1>2. 0 \in Int /\ 100 \in Int /\ 0 <= 100
  OBVIOUS
<1> QED
  BY <1>1, <1>2, CutInOrder DEF ToScore

\* A cheaper offer of a set worth more is worth more.
LEMMA ValueInOrder ==
    ASSUME NEW c \in Nat, NEW v \in Nat \ {0}, NEW b \in Nat, NEW u \in Nat \ {0},
           b <= c, v <= u
    PROVE  NoLess(ValueScore(c, v), ValueScore(b, u))
<1> PICK n \in Int : n = 1000 * (v - c)
  OBVIOUS
<1> PICK m \in Int : m = 1000 * (u - b)
  OBVIOUS
<1>1. n * u <= m * v
  <2> PICK k \in Nat : k = c - b
    OBVIOUS
  <2> PICK l \in Nat : l = u - v
    OBVIOUS
  <2>1. c = b + k /\ u = v + l
    OBVIOUS
  <2>2. n * (v + l) = 1000 * (v * v + v * l - (b * v + b * l) - (k * v + k * l))
    BY <2>1
  <2>3. m * v = 1000 * (v * v + v * l - b * v)
    BY <2>1
  <2>4. b * l \in Nat /\ k * v \in Nat /\ k * l \in Nat
    OBVIOUS
  <2> PICK x \in Int, y \in Int, z \in Nat, w \in Nat, g \in Nat, h \in Int :
             /\ x = v * v /\ y = v * l /\ z = b * l /\ w = k * v /\ g = k * l
             /\ h = b * v
    BY <2>4
  <2>5. n * u = 1000 * (x + y - (h + z) - (w + g)) /\ m * v = 1000 * (x + y - h)
    BY <2>1, <2>2, <2>3
  <2> PICK i \in Int, j \in Int : i = n * u /\ j = m * v
    OBVIOUS
  <2>6. i <= j
    BY <2>5
  <2> QED
    BY <2>6
<1>2. NoLess(HalfUp(n, v), HalfUp(m, u))
  BY <1>1, HalfUpInOrder DEF NoLess
<1> PICK p : p = HalfUp(n, v)
  OBVIOUS
<1> PICK q : q = HalfUp(m, u)
  OBVIOUS
<1>3. NoLess(2 * (p + 250), 2 * (q + 250))
  BY <1>2 DEF NoLess
<1>4. 0 \in Int /\ 1000 \in Int /\ 0 <= 1000
  OBVIOUS
<1>5. NoLess(Between(0, 2 * (p + 250), 1000), Between(0, 2 * (q + 250), 1000))
  BY <1>3, <1>4, CutInOrder
<1>6. ValueScore(c, v) = Between(0, 2 * (p + 250), 1000)
      /\ ValueScore(b, u) = Between(0, 2 * (q + 250), 1000)
  BY DEF ValueScore
<1> QED
  BY <1>5, <1>6

\* Parts none of which is lower than its counterpart.
PartsRise(names, parts, more) == \A name \in names : NoLess(parts[name], more[name])

\* What is added for them is no less.
LEMMA PointsRise ==
    ASSUME NEW parts, NEW more, PartsRise(DOMAIN Weights, parts, more)
    PROVE  NoLess(PointSum(parts), PointSum(more))
<1> DEFINE F == [name \in DOMAIN Weights |-> Component(parts, name)]
           G == [name \in DOMAIN Weights |-> Component(more, name)]
<1>1. PointSum(parts) = Total(F, DOMAIN Weights) /\ PointSum(more) = Total(G, DOMAIN Weights)
  <2>1. \A n \in DOMAIN Weights : F[n] = Component(parts, n) /\ G[n] = Component(more, n)
    OBVIOUS
  <2> HIDE DEF F, G
  <2> QED
    BY <2>1, PointsAre
<1>2. \A name \in DOMAIN Weights : NoLess(F[name], G[name])
  <2> SUFFICES ASSUME NEW name \in DOMAIN Weights
               PROVE  NoLess(Component(parts, name), Component(more, name))
    OBVIOUS
  <2>1. NoLess(parts[name], more[name])
    BY DEF PartsRise
  <2>2. Weights[name] \in {30, 15, 10}
    BY DEF Weights
  <2> PICK n, m : n = parts[name] /\ m = more[name]
    OBVIOUS
  <2>3. NoLess(n * Weights[name], m * Weights[name])
    BY <2>1, <2>2 DEF NoLess
  <2> QED
    BY <2>3, TenthsInOrder DEF Component
<1> HIDE DEF F, G
<1>3. /\ Terms(F, DOMAIN Weights) /\ Terms(G, DOMAIN Weights)
      /\ \A name \in DOMAIN Weights : F[name] <= G[name]
  BY <1>2 DEF Terms, NoLess
<1>4. /\ Total(F, DOMAIN Weights) \in Int /\ Total(G, DOMAIN Weights) \in Int
      /\ Compares(F, G, DOMAIN Weights)
  BY <1>3, NamesAreFinite, TotalType, TotalCompare
<1> QED
  BY <1>1, <1>4 DEF Compares, NoLess

\* Nor is what is added for the confidence.
LEMMA ConfidencePointsRise ==
    ASSUME NEW parts, NEW more, PartsRise(DOMAIN ConfidenceWeights, parts, more)
    PROVE  NoLess(ConfidenceSum(parts), ConfidenceSum(more))
<1> DEFINE names == DOMAIN ConfidenceWeights
           F == [name \in names |-> parts[name] * ConfidenceWeights[name]]
           G == [name \in names |-> more[name] * ConfidenceWeights[name]]
<1>1. ConfidenceSum(parts) = Total(F, names) /\ ConfidenceSum(more) = Total(G, names)
  <2>1. \A n \in names : /\ F[n] = parts[n] * ConfidenceWeights[n]
                         /\ G[n] = more[n] * ConfidenceWeights[n]
    OBVIOUS
  <2> HIDE DEF F, G
  <2> QED
    BY <2>1, ConfidencePointsAre
<1>2. \A name \in names : NoLess(F[name], G[name])
  <2> SUFFICES ASSUME NEW name \in names
               PROVE  NoLess(parts[name] * ConfidenceWeights[name],
                             more[name] * ConfidenceWeights[name])
    OBVIOUS
  <2>1. NoLess(parts[name], more[name])
    BY DEF PartsRise
  <2>2. ConfidenceWeights[name] \in {25, 15, 10}
    BY DEF ConfidenceWeights
  <2> PICK n, m : n = parts[name] /\ m = more[name]
    OBVIOUS
  <2>3. NoLess(n * ConfidenceWeights[name], m * ConfidenceWeights[name])
    BY <2>1, <2>2 DEF NoLess
  <2> QED
    BY <2>3
<1> HIDE DEF F, G
<1>3. Terms(F, names) /\ Terms(G, names) /\ \A name \in names : F[name] <= G[name]
  BY <1>2 DEF Terms, NoLess
<1>4. IsFiniteSet(names)
  BY NamesAreFinite
<1> HIDE DEF names
<1>5. Total(F, names) \in Int /\ Total(G, names) \in Int /\ Compares(F, G, names)
  BY <1>3, <1>4, TotalType, TotalCompare
<1> QED
  BY <1>1, <1>5 DEF Compares, NoLess

\* The penalties there are.
AllPenalties ==
    {<<"unclear", 10>>, <<"incomplete", 15>>, <<"suspicious", 25>>, <<"low quality", 10>>}

\* They are finitely many, and take points.
LEMMA PenaltiesTake ==
    IsFiniteSet(AllPenalties) /\ \A p \in AllPenalties : p[2] \in Nat
<1>1. AllPenalties = {<<"unclear", 10>>} \cup {<<"incomplete", 15>>}
                     \cup {<<"suspicious", 25>>} \cup {<<"low quality", 10>>}
  BY DEF AllPenalties
<1>2. IsFiniteSet({<<"unclear", 10>>} \cup {<<"incomplete", 15>>})
  <2>1. IsFiniteSet({<<"unclear", 10>>})
    BY FS_Singleton
  <2> QED
    BY <2>1, FS_AddElement
<1>3. IsFiniteSet({<<"unclear", 10>>} \cup {<<"incomplete", 15>>} \cup {<<"suspicious", 25>>})
  BY <1>2, FS_AddElement
<1>4. IsFiniteSet(AllPenalties)
  BY <1>1, <1>3, FS_AddElement
<1>5. \A p \in AllPenalties : p[2] \in Nat
  <2> SUFFICES ASSUME NEW p \in AllPenalties PROVE p[2] \in Nat
    OBVIOUS
  <2>1. \/ p = <<"unclear", 10>> \/ p = <<"incomplete", 15>>
        \/ p = <<"suspicious", 25>> \/ p = <<"low quality", 10>>
    BY DEF AllPenalties
  <2>2. CASE p = <<"unclear", 10>>
    <3>1. p[2] = 10
      BY <2>2
    <3> QED
      BY <3>1
  <2>3. CASE p = <<"incomplete", 15>>
    <3>1. p[2] = 15
      BY <2>3
    <3> QED
      BY <3>1
  <2>4. CASE p = <<"suspicious", 25>>
    <3>1. p[2] = 25
      BY <2>4
    <3> QED
      BY <3>1
  <2>5. CASE p = <<"low quality", 10>>
    <3>1. p[2] = 10
      BY <2>5
    <3> QED
      BY <3>1
  <2> QED
    BY <2>1, <2>2, <2>3, <2>4, <2>5
<1> QED
  BY <1>4, <1>5

\* Fewer penalties take no more.
LEMMA FewerTakeNoMore ==
    ASSUME NEW P, NEW Q, P \subseteq Q, Q \subseteq AllPenalties
    PROVE  NoLess(PenaltyTotal(P), PenaltyTotal(Q))
<1> DEFINE F == [p \in Q |-> p[2]]
<1>1. IsFiniteSet(Q) /\ IsFiniteSet(P) /\ IsFiniteSet(Q \ P)
  BY PenaltiesTake, FS_Subset
<1>2. \A p \in Q : F[p] = p[2] /\ F[p] \in Nat
  BY PenaltiesTake
<1> HIDE DEF F
<1>3. PenaltyTotal(P) = Total(F, P) /\ PenaltyTotal(Q) = Total(F, Q)
  BY <1>1, <1>2, PenaltiesAre
<1> PICK rest : rest = Q \ P
  OBVIOUS
<1>4. P \cup rest = Q /\ P \cap rest = {}
  OBVIOUS
<1>5. Terms(F, P \cup rest)
  BY <1>2, <1>4 DEF Terms
<1>6. Total(F, P \cup rest) = Total(F, P) + Total(F, rest)
  BY <1>1, <1>4, <1>5, TotalOfBoth
<1>7. Total(F, P) \in Nat /\ Total(F, rest) \in Nat
  BY <1>1, <1>2, TotalOfNaturals
<1> QED
  BY <1>3, <1>4, <1>6, <1>7 DEF NoLess

-----------------------------------------------------------------------------
(* Listings. *)

\* A listing in the range of the data.
Listed(l) ==
    l \in [cost: Nat, value: (Nat \ {0}) \cup {Unknown}, samples: Nat, match: 0..100,
           rating: (0..100) \cup {Unknown}, shop: {"bricklink", "ebay"},
           condition: {"new", "used", "unknown"}, complete: BOOLEAN \cup {Unknown},
           flagged: BOOLEAN, doubted: BOOLEAN, excluded: BOOLEAN]

Wear(c) == [new |-> 2, used |-> 1, unknown |-> 0][c]
Whole(v) == IF v = Unknown THEN 1 ELSE IF v THEN 2 ELSE 0

\* A listing that is as good in all respects.
NoWorseListing(s, r) ==
    /\ s.cost <= r.cost /\ s.samples >= r.samples /\ s.match >= r.match
    /\ s.value = Unknown <=> r.value = Unknown
    /\ r.value # Unknown => s.value >= r.value
    /\ s.rating = Unknown <=> r.rating = Unknown
    /\ r.rating # Unknown => s.rating >= r.rating
    /\ s.shop = r.shop
    /\ Wear(s.condition) >= Wear(r.condition)
    /\ Whole(s.complete) >= Whole(r.complete)
    /\ s.flagged => r.flagged
    /\ s.doubted => r.doubted
    /\ s.excluded => r.excluded

\* The score of its state is no lower.
LEMMA StateRises ==
    ASSUME NEW r, NEW s, Listed(r), Listed(s), NoWorseListing(s, r)
    PROVE  NoLess(Evidence(r).state, Evidence(s).state)
<1> DEFINE worth(c) == [new |-> 1000, used |-> 800, unknown |-> 500][c]
           filled(v) == IF v = Unknown THEN 500 ELSE IF v THEN 1000 ELSE 0
<1>1. NoLess(worth(r.condition), worth(s.condition))
  <2>1. r.condition \in {"new", "used", "unknown"} /\ s.condition \in {"new", "used", "unknown"}
        /\ Wear(s.condition) >= Wear(r.condition)
    BY DEF Listed, NoWorseListing
  <2> QED
    BY <2>1 DEF Wear, NoLess
<1>2. NoLess(filled(r.complete), filled(s.complete))
  <2>1. r.complete \in BOOLEAN \cup {Unknown} /\ s.complete \in BOOLEAN \cup {Unknown}
        /\ Whole(s.complete) >= Whole(r.complete)
    BY DEF Listed, NoWorseListing
  <2> QED
    BY <2>1 DEF Whole, NoLess
<1> PICK c, d : c = worth(r.condition) /\ d = worth(s.condition)
  OBVIOUS
<1> PICK e, f : e = filled(r.complete) /\ f = filled(s.complete)
  OBVIOUS
<1>3. NoLess(70 * c + 30 * e, 70 * d + 30 * f)
  <2>1. NoLess(c, d) /\ NoLess(e, f)
    BY <1>1, <1>2
  <2> QED
    BY <2>1 DEF NoLess
<1>4. NoLess(HalfUp(70 * c + 30 * e, 100), HalfUp(70 * d + 30 * f, 100))
  BY <1>3, TenthsInOrder
<1>5. /\ Evidence(r).state = HalfUp(70 * c + 30 * e, 100)
      /\ Evidence(s).state = HalfUp(70 * d + 30 * f, 100)
  BY DEF Evidence, StateScore
<1> QED
  BY <1>4, <1>5

\* Nor is any other part of the evidence.
LEMMA EvidenceRises ==
    ASSUME NEW r, NEW s, Listed(r), Listed(s), NoWorseListing(s, r)
    PROVE  PartsRise(DOMAIN ConfidenceWeights, Evidence(r), Evidence(s))
<1>1. NoLess(Evidence(r).match, Evidence(s).match)
  <2>1. \A n \in 0..100 : n \in Int
    OBVIOUS
  <2>2. r.match \in Int /\ s.match \in Int /\ r.match <= s.match
    BY <2>1 DEF Listed, NoWorseListing
  <2>3. Evidence(r).match = 10 * r.match /\ Evidence(s).match = 10 * s.match
    BY DEF Evidence
  <2> QED
    BY <2>2, <2>3 DEF NoLess
<1>2. NoLess(Evidence(r).valuation, Evidence(s).valuation)
  <2>1. r.samples \in Nat /\ s.samples \in Nat /\ r.samples <= s.samples
    BY DEF Listed, NoWorseListing
  <2> PICK n, m : n = 10 * (40 + 6 * r.samples) /\ m = 10 * (40 + 6 * s.samples)
    OBVIOUS
  <2>2. NoLess(n, m)
    BY <2>1 DEF NoLess
  <2>3. 0 \in Int /\ 1000 \in Int /\ 0 <= 1000
    OBVIOUS
  <2>4. NoLess(Between(0, n, 1000), Between(0, m, 1000))
    BY <2>2, <2>3, CutInOrder
  <2>5. /\ Evidence(r).valuation = Between(0, n, 1000)
        /\ Evidence(s).valuation = Between(0, m, 1000)
    BY DEF Evidence
  <2> QED
    BY <2>4, <2>5
<1>3. NoLess(Evidence(r).seller, Evidence(s).seller)
  <2>1. \A n \in 0..100 : n \in Int
    OBVIOUS
  <2>2. /\ r.rating \in Int \cup {Unknown} /\ s.rating \in Int \cup {Unknown}
        /\ s.rating = Unknown <=> r.rating = Unknown
        /\ r.rating # Unknown => s.rating >= r.rating
    BY <2>1 DEF Listed, NoWorseListing
  <2>3. /\ Evidence(r).seller = 10 * (IF r.rating = Unknown THEN 50 ELSE r.rating)
        /\ Evidence(s).seller = 10 * (IF s.rating = Unknown THEN 50 ELSE s.rating)
    BY DEF Evidence
  <2> QED
    BY <2>2, <2>3 DEF NoLess
<1>4. NoLess(Evidence(r).shop, Evidence(s).shop)
  BY DEF NoLess, Evidence, NoWorseListing
<1>5. NoLess(Evidence(r).quality, Evidence(s).quality)
  <2>1. s.flagged => r.flagged
    BY DEF NoWorseListing
  <2> QED
    BY <2>1 DEF NoLess, Evidence
<1>6. NoLess(Evidence(r).state, Evidence(s).state)
  BY StateRises
<1>7. DOMAIN ConfidenceWeights = {"match", "valuation", "seller", "shop", "state", "quality"}
  BY DEF ConfidenceWeights
<1> QED
  BY <1>1, <1>2, <1>3, <1>4, <1>5, <1>6, <1>7 DEF PartsRise

\* What the analysis and the search take off for a listing.
PenaltiesOf(l, suspicious) ==
    Penalties(l.condition = "unknown", l.complete, suspicious, Evidence(l).quality)

\* A listing as good has no other penalties and risk flags.
LEMMA NoOtherPenalties ==
    ASSUME NEW r, NEW s, Listed(r), Listed(s), NoWorseListing(s, r),
           NEW doubt \in BOOLEAN, NEW less \in BOOLEAN, less => doubt
    PROVE  PenaltiesOf(s, less) \subseteq PenaltiesOf(r, doubt)
           /\ PenaltiesOf(r, doubt) \subseteq AllPenalties
<1>1. s.condition = "unknown" => r.condition = "unknown"
  <2>1. r.condition \in {"new", "used", "unknown"} /\ s.condition \in {"new", "used", "unknown"}
        /\ Wear(s.condition) >= Wear(r.condition)
    BY DEF Listed, NoWorseListing
  <2> QED
    BY <2>1 DEF Wear
<1>2. s.complete = FALSE => r.complete = FALSE
  <2>1. r.complete \in BOOLEAN \cup {Unknown} /\ s.complete \in BOOLEAN \cup {Unknown}
        /\ Whole(s.complete) >= Whole(r.complete)
    BY DEF Listed, NoWorseListing
  <2>2. Unknown \notin BOOLEAN
    BY ListingsAreSane
  <2> QED
    BY <2>1, <2>2 DEF Whole
<1>3. ~(Evidence(s).quality < 600)
  <2>1. Evidence(s).quality = IF s.flagged THEN 700 ELSE 1000
    BY DEF Evidence
  <2> QED
    BY <2>1
<1>4. \A p : p \in PenaltiesOf(s, less) => p \in PenaltiesOf(r, doubt)
  BY <1>1, <1>2, <1>3 DEF PenaltiesOf, Penalties
<1>5. \A p : p \in PenaltiesOf(r, doubt) => p \in AllPenalties
  BY DEF PenaltiesOf, Penalties, AllPenalties
<1> QED
  BY <1>4, <1>5

\* Nor other risk flags.
LEMMA NoOtherFlags ==
    ASSUME NEW r, NEW s, Listed(r), Listed(s), NoWorseListing(s, r)
    PROVE  RiskFlags(s) # {} => RiskFlags(r) # {}
<1>1. s.condition = "unknown" => r.condition = "unknown"
  <2>1. r.condition \in {"new", "used", "unknown"} /\ s.condition \in {"new", "used", "unknown"}
        /\ Wear(s.condition) >= Wear(r.condition)
    BY DEF Listed, NoWorseListing
  <2> QED
    BY <2>1 DEF Wear
<1>2. s.complete = FALSE => r.complete = FALSE
  <2>1. r.complete \in BOOLEAN \cup {Unknown} /\ s.complete \in BOOLEAN \cup {Unknown}
        /\ Whole(s.complete) >= Whole(r.complete)
    BY DEF Listed, NoWorseListing
  <2>2. Unknown \notin BOOLEAN
    BY ListingsAreSane
  <2> QED
    BY <2>1, <2>2 DEF Whole
<1>3. (IF s.rating = Unknown THEN TRUE ELSE s.rating < 80)
      => (IF r.rating = Unknown THEN TRUE ELSE r.rating < 80)
  <2>1. \A n \in 0..100 : n \in Int
    OBVIOUS
  <2>2. /\ r.rating \in Int \cup {Unknown} /\ s.rating \in Int \cup {Unknown}
        /\ s.rating = Unknown <=> r.rating = Unknown
        /\ r.rating # Unknown => s.rating >= r.rating
    BY <2>1 DEF Listed, NoWorseListing
  <2> QED
    BY <2>2
<1>4. /\ s.value = Unknown => r.value = Unknown
      /\ s.doubted => r.doubted
      /\ s.excluded => r.excluded
  BY DEF NoWorseListing
<1>5. RiskFlags(s) \subseteq RiskFlags(r)
  BY <1>1, <1>2, <1>3, <1>4 DEF RiskFlags
<1> QED
  BY <1>5

\* The parts of a listing's score.
PartsOf(l) ==
    [name \in DOMAIN Weights |->
        IF name = "value" THEN ValueScore(l.cost, l.value) ELSE Evidence(l)[name]]

\* None of them is lower for a listing as good.
LEMMA PartsOfListingRise ==
    ASSUME NEW r, NEW s, Listed(r), Listed(s), NoWorseListing(s, r), r.value # Unknown
    PROVE  PartsRise(DOMAIN Weights, PartsOf(r), PartsOf(s))
<1>1. NoLess(ValueScore(r.cost, r.value), ValueScore(s.cost, s.value))
  <2>1. /\ r.cost \in Nat /\ s.cost \in Nat /\ s.cost <= r.cost
        /\ r.value \in Nat \ {0} /\ s.value \in Nat \ {0} /\ r.value <= s.value
    BY DEF Listed, NoWorseListing
  <2> QED
    BY <2>1, ValueInOrder
<1>2. PartsRise(DOMAIN ConfidenceWeights, Evidence(r), Evidence(s))
  BY EvidenceRises
<1>3. ASSUME NEW name \in DOMAIN Weights
      PROVE  NoLess(PartsOf(r)[name], PartsOf(s)[name])
  <2>1. CASE name = "value"
    BY <1>1, <2>1 DEF PartsOf
  <2>2. CASE name # "value"
    <3>1. name \in DOMAIN ConfidenceWeights
      BY <2>2 DEF Weights, ConfidenceWeights
    <3>2. NoLess(Evidence(r)[name], Evidence(s)[name])
      BY <1>2, <3>1 DEF PartsRise
    <3>3. PartsOf(r)[name] = Evidence(r)[name] /\ PartsOf(s)[name] = Evidence(s)[name]
      BY <2>2 DEF PartsOf
    <3> QED
      BY <3>2, <3>3
  <2> QED
    BY <2>1, <2>2
<1> QED
  BY <1>3 DEF PartsRise

\* What is judged of a listing.
LEMMA JudgedIs ==
    ASSUME NEW l, NEW doubt, NEW lost, lost = PenaltyTotal(PenaltiesOf(l, doubt))
    PROVE  /\ Judged(l, doubt).confidence
              = ToScore(ConfidenceSum(Evidence(l)) - 1000 * lost, 1000)
           /\ Judged(l, doubt).score
              = IF l.value = Unknown THEN Unknown
                ELSE ToScore(PointSum(PartsOf(l)) - 10 * lost, 10)
<1>1. Judged(l, doubt).confidence = ConfidenceScore(Evidence(l), lost)
  BY DEF Judged, ScoreDeal, PenaltiesOf
<1>2. Judged(l, doubt).score = IF l.value = Unknown THEN Unknown
                               ELSE OverallScore(PartsOf(l), lost)
  BY DEF Judged, ScoreDeal, PenaltiesOf, PartsOf
<1>3. ConfidenceScore(Evidence(l), lost)
      = ToScore(ConfidenceSum(Evidence(l)) - 1000 * lost, 1000)
  BY DEF ConfidenceScore, ConfidenceSum
<1>4. OverallScore(PartsOf(l), lost) = ToScore(PointSum(PartsOf(l)) - 10 * lost, 10)
  BY DEF OverallScore, PointSum
<1> QED
  BY <1>1, <1>2, <1>3, <1>4

\* A listing as good is judged no lower, if it is as little suspected.
LEMMA JudgedRises ==
    ASSUME NEW r, NEW s, Listed(r), Listed(s), NoWorseListing(s, r),
           NEW doubt \in BOOLEAN, NEW less \in BOOLEAN, less => doubt
    PROVE  /\ NoLess(Judged(r, doubt).confidence, Judged(s, less).confidence)
           /\ r.value # Unknown => NoLess(Judged(r, doubt).score, Judged(s, less).score)
           /\ r.value = Unknown => Judged(r, doubt).score = Unknown
<1> PICK lost : lost = PenaltyTotal(PenaltiesOf(r, doubt))
  OBVIOUS
<1> PICK taken : taken = PenaltyTotal(PenaltiesOf(s, less))
  OBVIOUS
<1>1. NoLess(taken, lost)
  BY NoOtherPenalties, FewerTakeNoMore
<1>2. NoLess(Judged(r, doubt).confidence, Judged(s, less).confidence)
  <2> PICK n, m : n = ConfidenceSum(Evidence(r)) /\ m = ConfidenceSum(Evidence(s))
    OBVIOUS
  <2>1. NoLess(n, m)
    BY EvidenceRises, ConfidencePointsRise
  <2>2. NoLess(n - 1000 * lost, m - 1000 * taken)
    BY <1>1, <2>1 DEF NoLess
  <2>3. NoLess(ToScore(n - 1000 * lost, 1000), ToScore(m - 1000 * taken, 1000))
    BY <2>2, ScoresInOrder
  <2> QED
    BY <2>3, JudgedIs
<1>3. ASSUME r.value # Unknown
      PROVE  NoLess(Judged(r, doubt).score, Judged(s, less).score)
  <2> PICK n, m : n = PointSum(PartsOf(r)) /\ m = PointSum(PartsOf(s))
    OBVIOUS
  <2>1. NoLess(n, m)
    BY <1>3, PartsOfListingRise, PointsRise
  <2>2. NoLess(n - 10 * lost, m - 10 * taken)
    BY <1>1, <2>1 DEF NoLess
  <2>3. NoLess(ToScore(n - 10 * lost, 10), ToScore(m - 10 * taken, 10))
    BY <2>2, ScoresInOrder
  <2>4. s.value # Unknown
    BY <1>3 DEF NoWorseListing
  <2> QED
    BY <1>3, <2>3, <2>4, JudgedIs
<1>4. r.value = Unknown => Judged(r, doubt).score = Unknown
  BY JudgedIs
<1> QED
  BY <1>2, <1>3, <1>4

-----------------------------------------------------------------------------
(* Steps. *)

\* The analysis and the score of the search are those of the listing.
ScoreInv ==
    /\ listing \in Listings
    /\ analysis = Analyze(listing)
    /\ found = Find(listing)

\* The data are in that range.
LEMMA ListingsAreListed == \A l \in Listings : Listed(l)
<1> SUFFICES ASSUME NEW l \in Listings PROVE Listed(l)
  OBVIOUS
<1>1. Costs \subseteq Nat /\ Samples \subseteq Nat /\ Values \subseteq Nat \ {0}
      /\ Matches \subseteq 0..100 /\ Ratings \subseteq 0..100
  BY ListingsAreSane
<1> QED
  BY <1>1 DEF Listings, Listed

\* One field of the listing changes.
OneField(field, value) ==
    /\ field \in DOMAIN listing
    /\ listing' = [listing EXCEPT ![field] = value]
    /\ analysis' = Analyze(listing')
    /\ found' = Find(listing')

\* Every step is of that kind, and stays in the range.
LEMMA FieldsChange ==
    ASSUME listing \in Listings, ScoreNext
    PROVE  listing' \in Listings /\ \E field, value : OneField(field, value)
<1>0. DOMAIN listing = {"cost", "value", "samples", "match", "rating", "shop", "condition",
                        "complete", "flagged", "doubted", "excluded"}
  BY DEF Listings
<1>1. CASE Relist
  <2>1. ASSUME NEW v \in Costs, Seen("cost", v)
        PROVE  listing' \in Listings /\ OneField("cost", v)
    BY <1>0, <2>1 DEF Seen, OneField, Listings
  <2>2. ASSUME NEW v \in Matches, Seen("match", v)
        PROVE  listing' \in Listings /\ OneField("match", v)
    BY <1>0, <2>2 DEF Seen, OneField, Listings
  <2>3. ASSUME NEW v \in Ratings \cup {Unknown}, Seen("rating", v)
        PROVE  listing' \in Listings /\ OneField("rating", v)
    BY <1>0, <2>3 DEF Seen, OneField, Listings
  <2>4. ASSUME NEW v \in {"new", "used", "unknown"}, Seen("condition", v)
        PROVE  listing' \in Listings /\ OneField("condition", v)
    BY <1>0, <2>4 DEF Seen, OneField, Listings
  <2>5. ASSUME NEW v \in BOOLEAN \cup {Unknown}, Seen("complete", v)
        PROVE  listing' \in Listings /\ OneField("complete", v)
    BY <1>0, <2>5 DEF Seen, OneField, Listings
  <2> QED
    BY <1>1, <2>1, <2>2, <2>3, <2>4, <2>5 DEF Relist
<1>2. CASE Revalue
  <2>1. ASSUME NEW v \in Values \cup {Unknown}, Seen("value", v)
        PROVE  listing' \in Listings /\ OneField("value", v)
    BY <1>0, <2>1 DEF Seen, OneField, Listings
  <2>2. ASSUME NEW v \in Samples, Seen("samples", v)
        PROVE  listing' \in Listings /\ OneField("samples", v)
    BY <1>0, <2>2 DEF Seen, OneField, Listings
  <2> QED
    BY <1>2, <2>1, <2>2 DEF Revalue
<1>3. CASE Redoubt
  <2>1. ASSUME NEW f \in {"flagged", "doubted", "excluded"}, Seen(f, ~listing[f])
        PROVE  listing' \in Listings /\ OneField(f, ~listing[f])
    <3>1. CASE f = "flagged"
      BY <1>0, <2>1, <3>1 DEF Seen, OneField, Listings
    <3>2. CASE f = "doubted"
      BY <1>0, <2>1, <3>2 DEF Seen, OneField, Listings
    <3>3. CASE f = "excluded"
      BY <1>0, <2>1, <3>3 DEF Seen, OneField, Listings
    <3> QED
      BY <2>1, <3>1, <3>2, <3>3
  <2> QED
    BY <1>3, <2>1 DEF Redoubt
<1> QED
  BY <1>1, <1>2, <1>3 DEF ScoreNext

\* Whether it has changed or not.
SameField(s, r, name) == s[name] = r[name]

\* A listing is as good as one that it has all fields but one of, if that is no worse.
LEMMA BetterFieldIsNoWorse ==
    ASSUME NEW r, NEW s, Listed(r), Listed(s), NEW field \in DOMAIN r \ {"shop"}, NEW value,
           s = [r EXCEPT ![field] = value],
           ~(field \in {"value", "rating"} /\ Unknown \in {r[field], s[field]}),
           Standing(field, s[field]) > Standing(field, r[field])
    PROVE  NoWorseListing(s, r)
<1>1. DOMAIN r = {"cost", "value", "samples", "match", "rating", "shop", "condition",
                  "complete", "flagged", "doubted", "excluded"}
  BY DEF Listed
<1>2. \A name \in DOMAIN r : name # field => SameField(s, r, name)
  BY DEF SameField
<1>3. \A n \in 0..100 : n \in Int
  OBVIOUS
<1>4. /\ r.cost \in Nat /\ r.samples \in Nat /\ r.match \in Int
      /\ r.value \in Nat \cup {Unknown} /\ r.rating \in Int \cup {Unknown}
      /\ s.cost \in Nat /\ s.samples \in Nat /\ s.match \in Int
      /\ s.value \in Nat \cup {Unknown} /\ s.rating \in Int \cup {Unknown}
  BY <1>3 DEF Listed
<1>5. field = "cost" \/ s.cost = r.cost
  BY <1>1, <1>2 DEF SameField
<1>6. field = "samples" \/ s.samples = r.samples
  BY <1>1, <1>2 DEF SameField
<1>7. field = "match" \/ s.match = r.match
  BY <1>1, <1>2 DEF SameField
<1>8. field = "value" \/ s.value = r.value
  BY <1>1, <1>2 DEF SameField
<1>9. field = "rating" \/ s.rating = r.rating
  BY <1>1, <1>2 DEF SameField
<1>10. s.shop = r.shop
  BY <1>1, <1>2 DEF SameField
<1>11. field = "condition" \/ s.condition = r.condition
  BY <1>1, <1>2 DEF SameField
<1>12. field = "complete" \/ s.complete = r.complete
  BY <1>1, <1>2 DEF SameField
<1>13. \A f \in {"flagged", "doubted", "excluded"} : field = f \/ s[f] = r[f]
  BY <1>1, <1>2 DEF SameField
<1>14. s.cost <= r.cost
  <2>1. CASE field = "cost"
    <3>1. -s.cost > -r.cost
      BY <2>1 DEF Standing
    <3> QED
      BY <1>4, <3>1
  <2> QED
    BY <1>4, <1>5, <2>1
<1>15. s.samples >= r.samples
  <2>1. CASE field = "samples"
    BY <1>4, <2>1 DEF Standing
  <2> QED
    BY <1>4, <1>6, <2>1
<1>16. s.match >= r.match
  <2>1. CASE field = "match"
    BY <1>4, <2>1 DEF Standing
  <2> QED
    BY <1>4, <1>7, <2>1
<1>17. /\ s.value = Unknown <=> r.value = Unknown
       /\ r.value # Unknown => s.value >= r.value
  <2>1. CASE field = "value"
    <3>1. s.value > r.value
      BY <2>1 DEF Standing
    <3> QED
      BY <1>4, <2>1, <3>1
  <2> QED
    BY <1>4, <1>8, <2>1
<1>18. /\ s.rating = Unknown <=> r.rating = Unknown
       /\ r.rating # Unknown => s.rating >= r.rating
  <2>1. CASE field = "rating"
    <3>1. s.rating > r.rating
      BY <2>1 DEF Standing
    <3> QED
      BY <1>4, <2>1, <3>1
  <2> QED
    BY <1>4, <1>9, <2>1
<1>19. Wear(s.condition) >= Wear(r.condition)
  <2>1. r.condition \in {"new", "used", "unknown"} /\ s.condition \in {"new", "used", "unknown"}
    BY DEF Listed
  <2>2. Wear(s.condition) \in Int /\ Wear(r.condition) \in Int
    BY <2>1 DEF Wear
  <2>3. CASE field = "condition"
    <3>1. Wear(s.condition) > Wear(r.condition)
      BY <2>3 DEF Standing, Wear
    <3> QED
      BY <2>2, <3>1
  <2> QED
    BY <1>11, <2>2, <2>3
<1>20. Whole(s.complete) >= Whole(r.complete)
  <2>1. Whole(s.complete) \in Int /\ Whole(r.complete) \in Int
    BY DEF Whole
  <2>2. CASE field = "complete"
    <3>1. Whole(s.complete) > Whole(r.complete)
      BY <2>2 DEF Standing, Whole
    <3> QED
      BY <2>1, <3>1
  <2> QED
    BY <1>12, <2>1, <2>2
<1>21. ASSUME NEW f \in {"flagged", "doubted", "excluded"}, s[f] PROVE r[f]
  <2>1. CASE field = f
    <3>1. (IF s[f] THEN 0 ELSE 1) > (IF r[f] THEN 0 ELSE 1)
      BY <2>1 DEF Standing
    <3> QED
      BY <1>21, <3>1
  <2> QED
    BY <1>13, <1>21, <2>1
<1>22. (s.flagged => r.flagged) /\ (s.doubted => r.doubted) /\ (s.excluded => r.excluded)
  BY <1>21
<1> QED
  BY <1>10, <1>14, <1>15, <1>16, <1>17, <1>18, <1>19, <1>20, <1>22 DEF NoWorseListing

\* The analysis of a listing as good is no worse.
LEMMA AnalysesRise ==
    ASSUME NEW r, NEW s, Listed(r), Listed(s), NoWorseListing(s, r)
    PROVE  /\ Analyze(s).scored.confidence >= Analyze(r).scored.confidence
           /\ Analyze(r).scored.score # Unknown
              => Analyze(s).scored.score >= Analyze(r).scored.score
           /\ Analyze(r).decision = "buy" => Analyze(s).decision = "buy"
<1> PICK doubt \in BOOLEAN : doubt = (RiskFlags(r) # {})
  OBVIOUS
<1> PICK less \in BOOLEAN : less = (RiskFlags(s) # {})
  OBVIOUS
<1>1. less => doubt
  BY NoOtherFlags
<1> PICK old, new : old = Judged(r, doubt) /\ new = Judged(s, less)
  OBVIOUS
<1>2. /\ NoLess(old.confidence, new.confidence)
      /\ r.value # Unknown => NoLess(old.score, new.score)
      /\ r.value = Unknown => old.score = Unknown
  BY <1>1, JudgedRises
<1>3. /\ Analyze(r) = [scored |-> old, decision |-> Decision(old, r.match, r.value)]
      /\ Analyze(s) = [scored |-> new, decision |-> Decision(new, s.match, s.value)]
  BY DEF Analyze
<1>4. Decision(old, r.match, r.value) = "buy" => Decision(new, s.match, s.value) = "buy"
  <2>1. \A n \in 0..100 : n \in Int
    OBVIOUS
  <2>2. r.match \in Int /\ s.match \in Int /\ r.match <= s.match
        /\ (s.value = Unknown <=> r.value = Unknown)
    BY <2>1 DEF Listed, NoWorseListing
  <2> QED
    BY <1>2, <2>2 DEF Decision, NoLess
<1> QED
  BY <1>2, <1>3, <1>4 DEF NoLess

\* Its score among the deals is no lower.
LEMMA FindsRise ==
    ASSUME NEW r, NEW s, Listed(r), Listed(s), NoWorseListing(s, r), Find(r) # Unknown
    PROVE  Find(s) >= Find(r)
<1>1. Eligible(r) /\ Find(r) = Judged(r, FALSE).score
  BY DEF Find
<1>2. Eligible(s)
  <2>1. \A n \in 0..100 : n \in Int
    OBVIOUS
  <2>2. r.match \in Int /\ s.match \in Int /\ r.match <= s.match
        /\ (s.value = Unknown <=> r.value = Unknown) /\ (s.excluded => r.excluded)
    BY <2>1 DEF Listed, NoWorseListing
  <2> QED
    BY <1>1, <2>2 DEF Eligible
<1>3. NoLess(Judged(r, FALSE).score, Judged(s, FALSE).score)
  BY <1>1, JudgedRises DEF Eligible
<1> QED
  BY <1>1, <1>2, <1>3 DEF Find, NoLess

\* A step that makes a listing better.
LEMMA BetterLosesNothing ==
    ASSUME ScoreInv, ScoreInv', NEW changed, NEW value, OneField(changed, value),
           NEW field \in DOMAIN listing \ {"shop"}, Better(field)
    PROVE  LosesNothing
<1> PICK r, s : r = listing /\ s = listing'
  OBVIOUS
<1>1. Listed(r) /\ Listed(s)
  BY ListingsAreListed DEF ScoreInv
<1>2. s = [r EXCEPT ![changed] = value] /\ changed = field
  BY DEF OneField, Better
<1>3. NoWorseListing(s, r)
  <2>1. /\ ~(field \in {"value", "rating"} /\ Unknown \in {r[field], s[field]})
        /\ Standing(field, s[field]) > Standing(field, r[field])
    BY DEF Better, Comparable
  <2>2. field \in DOMAIN r \ {"shop"} /\ s = [r EXCEPT ![field] = value]
    BY <1>2
  <2> QED
    BY <1>1, <2>1, <2>2, BetterFieldIsNoWorse
<1>4. /\ analysis = Analyze(r) /\ analysis' = Analyze(s)
      /\ found = Find(r) /\ found' = Find(s)
  BY DEF ScoreInv, OneField
<1> QED
  BY <1>1, <1>3, <1>4, AnalysesRise, FindsRise DEF LosesNothing

\* A listing that has become cheaper, better matched, better rated, more complete or less
\* doubtful loses no point of its score or its confidence and stays a buy.
THEOREM BetterListingsLoseNothing == ScoreSpec => BetterListingLosesNothing
<1>1. ScoreInit => ScoreInv
  BY DEF ScoreInit, ScoreInv
<1>2. ScoreInv /\ [ScoreNext]_scoreVars => ScoreInv'
  <2> SUFFICES ASSUME ScoreInv, [ScoreNext]_scoreVars PROVE ScoreInv'
    OBVIOUS
  <2>1. CASE ScoreNext
    <3>1. listing' \in Listings /\ \E field, value : OneField(field, value)
      BY <2>1, FieldsChange DEF ScoreInv
    <3> QED
      BY <3>1 DEF ScoreInv, OneField
  <2>2. CASE UNCHANGED scoreVars
    BY <2>2 DEF ScoreInv, scoreVars
  <2> QED
    BY <2>1, <2>2
<1>3. ScoreInv /\ ScoreInv' /\ [ScoreNext]_scoreVars
      => [\A field \in DOMAIN listing \ {"shop"} : Better(field) => LosesNothing]_scoreVars
  <2> SUFFICES ASSUME ScoreInv, ScoreInv', ScoreNext,
                      NEW field \in DOMAIN listing \ {"shop"}, Better(field)
               PROVE  LosesNothing
    OBVIOUS
  <2>1. PICK changed, value : OneField(changed, value)
    BY FieldsChange DEF ScoreInv
  <2> QED
    BY <2>1, BetterLosesNothing
<1> QED
  BY <1>1, <1>2, <1>3, PTL DEF ScoreSpec, BetterListingLosesNothing


-----------------------------------------------------------------------------
(* Valuation: order statistics of prices.                                  *)

\* Prices of finitely many things, and of one at least.
Priced(prices) ==
    /\ IsFiniteSet(DOMAIN prices) /\ DOMAIN prices # {}
    /\ \A i \in DOMAIN prices : prices[i] \in Nat

Below(prices, p) == {i \in DOMAIN prices : prices[i] < p}
UpTo(prices, p) == {i \in DOMAIN prices : prices[i] <= p}

\* What a function takes a finite set to is finite.
LEMMA ImagesAreFinite ==
    ASSUME NEW S, IsFiniteSet(S), NEW f, DOMAIN f = S
    PROVE  IsFiniteSet({f[x] : x \in S})
<1> DEFINE T == {f[x] : x \in S}
           g == [x \in S |-> f[x]]
<1>1. g \in Surjection(S, T)
  BY DEF Surjection
<1> QED
  BY <1>1, FS_Surjection

\* They are counted by natural numbers, and parts of them are smaller.
LEMMA PartsAreCounted ==
    ASSUME NEW prices, Priced(prices)
    PROVE  /\ Count(prices) \in Nat \ {0}
           /\ \A s \in SUBSET DOMAIN prices :
                  /\ IsFiniteSet(s) /\ Cardinality(s) \in Nat
                  /\ \A t \in SUBSET s : Cardinality(t) <= Cardinality(s)
<1>1. IsFiniteSet(DOMAIN prices)
  BY DEF Priced
<1>2. Cardinality(DOMAIN prices) \in Nat /\ Cardinality(DOMAIN prices) # 0
  BY <1>1, FS_CardinalityType, FS_EmptySet DEF Priced
<1>3. ASSUME NEW s \in SUBSET DOMAIN prices
      PROVE  /\ IsFiniteSet(s) /\ Cardinality(s) \in Nat
             /\ \A t \in SUBSET s : Cardinality(t) <= Cardinality(s)
  <2>1. IsFiniteSet(s) /\ Cardinality(s) \in Nat
    BY <1>1, FS_Subset, FS_CardinalityType
  <2> QED
    BY <2>1, FS_Subset
<1> QED
  BY <1>2, <1>3 DEF Count

\* There is a k-th lowest price.
LEMMA NthIs ==
    ASSUME NEW prices, Priced(prices), NEW k \in 1..Count(prices)
    PROVE  /\ \E i \in DOMAIN prices : Nth(prices, k) = prices[i]
           /\ Cardinality(Below(prices, Nth(prices, k))) < k
           /\ Cardinality(UpTo(prices, Nth(prices, k))) >= k
<1> DEFINE all == {prices[i] : i \in DOMAIN prices}
           enough == {p \in all : Cardinality(UpTo(prices, p)) >= k}
<1>0. k \in Nat /\ k >= 1 /\ k <= Count(prices) /\ Count(prices) \in Nat
  BY PartsAreCounted
<1>1. IsFiniteSet(all) /\ all \subseteq Nat /\ all # {}
  BY ImagesAreFinite DEF Priced
<1>2. \A p \in all : UpTo(prices, p) \in SUBSET DOMAIN prices
                     /\ Below(prices, p) \in SUBSET DOMAIN prices
  BY DEF UpTo, Below
<1>3. Max(all) \in enough
  <2> HIDE DEF all
  <2> PICK top : top = Max(all)
    OBVIOUS
  <2>1. top \in all /\ \A q \in all : top >= q
    BY <1>1, GreatestIsIn
  <2>2. UpTo(prices, top) = DOMAIN prices
    <3>1. \A i \in DOMAIN prices : prices[i] \in all
      BY DEF all
    <3> QED
      BY <2>1, <3>1 DEF UpTo
  <2> QED
    BY <1>0, <2>1, <2>2 DEF Count
<1>4. IsFiniteSet(enough) /\ enough \subseteq Nat /\ enough # {}
  BY <1>1, <1>3, FS_Subset
<1>5. PICK p \in enough : \A q \in enough : p <= q
  <2> HIDE DEF enough
  <2> QED
    BY <1>4, GreatestIsIn
<1>6. Cardinality(Below(prices, p)) < k
  <2> DEFINE lower == {q \in all : q < p}
  <2>1. CASE lower = {}
    <3>1. Below(prices, p) = {}
      BY <2>1 DEF Below
    <3> QED
      BY <1>0, <3>1, FS_EmptySet
  <2>2. CASE lower # {}
    <3>1. IsFiniteSet(lower) /\ lower \subseteq Nat
      BY <1>1, FS_Subset
    <3>2. PICK q \in lower : \A r \in lower : q >= r
      <4> HIDE DEF lower
      <4> QED
        BY <2>2, <3>1, GreatestIsIn
    <3>3. Below(prices, p) = UpTo(prices, q)
      <4>1. p \in Nat /\ q \in Nat /\ q < p
        BY <1>1
      <4>2. ASSUME NEW i \in DOMAIN prices
            PROVE  prices[i] < p <=> prices[i] <= q
        <5>1. prices[i] \in all /\ prices[i] \in Nat
          BY <1>1
        <5>2. prices[i] < p => prices[i] <= q
          BY <3>2, <5>1
        <5> QED
          BY <4>1, <5>1, <5>2
      <4> QED
        BY <4>2 DEF Below, UpTo
    <3>4. q \notin enough
      <4>1. p \in Nat /\ q \in Nat /\ q < p
        BY <1>1
      <4> QED
        BY <1>5, <4>1
    <3>5. q \in all /\ Cardinality(UpTo(prices, q)) \in Nat
      BY <1>2, PartsAreCounted
    <3>6. ~(Cardinality(UpTo(prices, q)) >= k)
      BY <3>4, <3>5
    <3> QED
      BY <1>0, <3>3, <3>5, <3>6
  <2> QED
    BY <2>1, <2>2
<1>7. p \in Range(prices)
  BY DEF Range
<1>8. \E x \in Range(prices) : /\ Cardinality({i \in DOMAIN prices : prices[i] < x}) < k
                               /\ Cardinality({i \in DOMAIN prices : prices[i] <= x}) >= k
  BY <1>6, <1>7 DEF Below, UpTo
<1>9. /\ Nth(prices, k) \in Range(prices)
      /\ Cardinality({i \in DOMAIN prices : prices[i] < Nth(prices, k)}) < k
      /\ Cardinality({i \in DOMAIN prices : prices[i] <= Nth(prices, k)}) >= k
  BY <1>8 DEF Nth
<1> QED
  BY <1>9 DEF Range, Below, UpTo

\* Later ones are no lower.
LEMMA NthInOrder ==
    ASSUME NEW prices, Priced(prices), NEW j \in 1..Count(prices), NEW k \in 1..Count(prices),
           j <= k
    PROVE  Nth(prices, j) \in Nat /\ Nth(prices, k) \in Nat /\ Nth(prices, j) <= Nth(prices, k)
<1> PICK p : p = Nth(prices, j)
  OBVIOUS
<1> PICK q : q = Nth(prices, k)
  OBVIOUS
<1>1. (\E i \in DOMAIN prices : p = prices[i]) /\ Cardinality(Below(prices, p)) < j
  BY NthIs
<1>2. (\E i \in DOMAIN prices : q = prices[i]) /\ Cardinality(UpTo(prices, q)) >= k
  BY NthIs
<1>3. p \in Nat /\ q \in Nat
  BY <1>1, <1>2 DEF Priced
<1> SUFFICES ASSUME q < p PROVE FALSE
  BY <1>3
<1>4. /\ UpTo(prices, q) \in SUBSET Below(prices, p)
      /\ Below(prices, p) \in SUBSET DOMAIN prices
      /\ UpTo(prices, q) \in SUBSET DOMAIN prices
  BY <1>3 DEF UpTo, Below, Priced
<1>5. /\ Cardinality(UpTo(prices, q)) <= Cardinality(Below(prices, p))
      /\ Cardinality(UpTo(prices, q)) \in Nat /\ Cardinality(Below(prices, p)) \in Nat
  BY <1>4, PartsAreCounted
<1>6. j \in Int /\ k \in Int
  BY PartsAreCounted
<1> QED
  BY <1>1, <1>2, <1>5, <1>6

\* The positions of a quartile are positions of prices.
LEMMA PositionsExist ==
    ASSUME NEW n \in Nat, NEW a \in Nat, a <= 3 * (n - 1)
    PROVE  /\ a \div 4 \in Nat /\ a % 4 \in {0, 1, 2, 3} /\ a = 4 * (a \div 4) + (a % 4)
           /\ 1 + (a \div 4) \in 1..n /\ (a % 4 # 0 => 2 + (a \div 4) \in 1..n)
OBVIOUS

\* A quartile is between two neighbouring prices.
LEMMA QuartileIs ==
    ASSUME NEW prices, Priced(prices), NEW k \in {1, 3}, NEW at, at = k * (Count(prices) - 1)
    PROVE  LET low == Nth(prices, 1 + (at \div 4))
               next == Nth(prices, 2 + (at \div 4))
           IN  /\ low \in Nat /\ Quartile(prices, k) \in Nat
               /\ at % 4 = 0 => Quartile(prices, k) = 4 * low
               /\ at % 4 # 0 => /\ next \in Nat /\ low <= next
                                /\ Quartile(prices, k)
                                   = (4 - (at % 4)) * low + (at % 4) * next
<1> PICK n \in Nat \ {0} : n = Count(prices)
  BY PartsAreCounted
<1>1. at \in Nat /\ at <= 3 * (n - 1)
  <2>1. CASE k = 1
    BY <2>1
  <2>2. CASE k = 3
    BY <2>2
  <2> QED
    BY <2>1, <2>2
<1> PICK d : d = at \div 4
  OBVIOUS
<1> PICK part : part = at % 4
  OBVIOUS
<1>2. /\ d \in Nat /\ part \in {0, 1, 2, 3} /\ at = 4 * d + part
      /\ 1 + d \in 1..n /\ (part # 0 => 2 + d \in 1..n)
  <2>1. n \in Nat
    OBVIOUS
  <2> QED
    BY <1>1, <2>1, PositionsExist
<1> PICK low : low = Nth(prices, 1 + d)
  OBVIOUS
<1> PICK next : next = Nth(prices, 2 + d)
  OBVIOUS
<1>3. low \in Nat
  BY <1>2, NthInOrder
<1>4. ASSUME part # 0
      PROVE  next \in Nat /\ low <= next
  <2>1. 1 + d \in 1..n /\ 2 + d \in 1..n /\ 1 + d <= 2 + d
    BY <1>2, <1>4
  <2> QED
    BY <2>1, NthInOrder
<1>5. Quartile(prices, k) = IF part = 0 THEN 4 * low ELSE (4 - part) * low + part * next
  BY DEF Quartile
<1>6. Quartile(prices, k) \in Nat
  <2>1. part \in {0, 1, 2, 3}
    BY <1>2
  <2>2. CASE part = 0
    BY <1>3, <1>5, <2>2
  <2>3. CASE part \in {1, 2, 3}
    BY <1>3, <1>4, <1>5, <2>3
  <2> QED
    BY <2>1, <2>2, <2>3
<1> QED
  BY <1>2, <1>3, <1>4, <1>5, <1>6

\* The quartiles are on both sides of the middle of four and more prices.
LEMMA QuartilesSurround ==
    ASSUME NEW prices, Priced(prices), Count(prices) >= 4
    PROVE  LET middle == Nth(prices, 1 + (Count(prices) \div 2))
           IN  /\ middle \in Nat
               /\ \E i \in DOMAIN prices : middle = prices[i]
               /\ Quartile(prices, 1) \in Nat /\ Quartile(prices, 3) \in Nat
               /\ Quartile(prices, 1) <= 4 * middle /\ 4 * middle <= Quartile(prices, 3)
<1> PICK n \in Nat : n = Count(prices)
  BY PartsAreCounted
<1> PICK h \in Nat : h = 1 + (n \div 2)
  OBVIOUS
<1>1. n >= 4 /\ h \in 1..n
  OBVIOUS
<1> PICK middle : middle = Nth(prices, h)
  OBVIOUS
<1>2. middle \in Nat /\ \E i \in DOMAIN prices : middle = prices[i]
  BY <1>1, NthIs DEF Priced
<1>3. Quartile(prices, 1) \in Nat /\ Quartile(prices, 1) <= 4 * middle
  <2> PICK at \in Nat : at = 1 * (Count(prices) - 1)
    BY <1>1
  <2> PICK d \in Nat : d = at \div 4
    OBVIOUS
  <2> PICK part \in {0, 1, 2, 3} : part = at % 4
    OBVIOUS
  <2>1. at = n - 1 /\ at = 4 * d + part
    OBVIOUS
  <2> PICK low : low = Nth(prices, 1 + d)
    OBVIOUS
  <2> PICK next : next = Nth(prices, 2 + d)
    OBVIOUS
  <2>2. /\ low \in Nat /\ Quartile(prices, 1) \in Nat
        /\ part = 0 => Quartile(prices, 1) = 4 * low
        /\ part # 0 => /\ next \in Nat /\ low <= next
                       /\ Quartile(prices, 1) = (4 - part) * low + part * next
    BY QuartileIs
  <2>3. CASE part = 0
    <3>1. 1 + d \in 1..n /\ 1 + d <= h
      BY <1>1, <2>1
    <3>2. low <= middle
      BY <1>1, <3>1, NthInOrder
    <3> QED
      BY <1>2, <2>2, <2>3, <3>2
  <2>4. CASE part # 0
    <3>1. 2 + d \in 1..n /\ 2 + d <= h
      BY <1>1, <2>1, <2>4
    <3>2. next <= middle
      BY <1>1, <3>1, NthInOrder
    <3>3. part \in {1, 2, 3}
      BY <2>4
    <3> QED
      BY <1>2, <2>2, <3>2, <3>3
  <2> QED
    BY <2>3, <2>4
<1>4. Quartile(prices, 3) \in Nat /\ 4 * middle <= Quartile(prices, 3)
  <2> PICK at \in Nat : at = 3 * (Count(prices) - 1)
    BY <1>1
  <2> PICK d \in Nat : d = at \div 4
    OBVIOUS
  <2> PICK part \in {0, 1, 2, 3} : part = at % 4
    OBVIOUS
  <2>1. at = 3 * (n - 1) /\ at = 4 * d + part
    OBVIOUS
  <2> PICK low : low = Nth(prices, 1 + d)
    OBVIOUS
  <2> PICK next : next = Nth(prices, 2 + d)
    OBVIOUS
  <2>2. /\ low \in Nat /\ Quartile(prices, 3) \in Nat
        /\ part = 0 => Quartile(prices, 3) = 4 * low
        /\ part # 0 => /\ next \in Nat /\ low <= next
                       /\ Quartile(prices, 3) = (4 - part) * low + part * next
    BY QuartileIs
  <2>3. 1 + d \in 1..n /\ h <= 1 + d
    BY <1>1, <2>1
  <2>4. middle <= low
    BY <1>1, <2>3, NthInOrder
  <2>5. part = 0 \/ part \in {1, 2, 3}
    OBVIOUS
  <2> QED
    BY <1>2, <2>2, <2>4, <2>5
<1> QED
  BY <1>2, <1>3, <1>4

\* The fences keep some of the prices.
LEMMA FencesKeepSome ==
    ASSUME NEW prices, Priced(prices)
    PROVE  Fenced(prices) \subseteq DOMAIN prices /\ Fenced(prices) # {}
<1> PICK q1, q3 : q1 = Quartile(prices, 1) /\ q3 = Quartile(prices, 3)
  OBVIOUS
<1>1. Count(prices) \in Nat
  BY PartsAreCounted
<1>2. CASE Count(prices) < 4
  BY <1>2 DEF Fenced, MinSample, Priced
<1>3. CASE Count(prices) >= 4
  <2>1. PICK i \in DOMAIN prices : /\ q1 \in Nat /\ q3 \in Nat
                                   /\ q1 <= 4 * prices[i] /\ 4 * prices[i] <= q3
    BY <1>3, QuartilesSurround
  <2>2. prices[i] \in Nat
    BY DEF Priced
  <2>3. /\ 8 * prices[i] >= 2 * q1 - 3 * (q3 - q1)
        /\ 8 * prices[i] <= 2 * q3 + 3 * (q3 - q1)
    BY <2>1, <2>2
  <2>4. ~(Count(prices) < MinSample)
    BY <1>1, <1>3 DEF MinSample
  <2>5. Fenced(prices) = {j \in DOMAIN prices :
                             /\ 8 * prices[j] >= 2 * q1 - 3 * (q3 - q1)
                             /\ 8 * prices[j] <= 2 * q3 + 3 * (q3 - q1)}
    BY <2>4 DEF Fenced
  <2> QED
    BY <2>3, <2>5
<1> QED
  BY <1>1, <1>2, <1>3

\* Prices in a range.
Ranges(prices, low, high) ==
    low \in Nat /\ high \in Nat /\ \A i \in DOMAIN prices : low <= prices[i] /\ prices[i] <= high

\* Their rounded median is in that range.
LEMMA MediansAreWithin ==
    ASSUME NEW prices, Priced(prices), NEW low, NEW high, Ranges(prices, low, high)
    PROVE  /\ HalfUp(TwiceMedian(prices), 2) \in Nat
           /\ low <= HalfUp(TwiceMedian(prices), 2) /\ HalfUp(TwiceMedian(prices), 2) <= high
<1> PICK n \in Nat \ {0} : n = Count(prices)
  BY PartsAreCounted
<1>1. (n + 1) \div 2 \in 1..n /\ 1 + (n \div 2) \in 1..n
  OBVIOUS
<1> PICK a : a = Nth(prices, (n + 1) \div 2)
  OBVIOUS
<1> PICK b : b = Nth(prices, 1 + (n \div 2))
  OBVIOUS
<1>2. (\E i \in DOMAIN prices : a = prices[i]) /\ (\E i \in DOMAIN prices : b = prices[i])
  BY <1>1, NthIs
<1>3. a \in Nat /\ b \in Nat /\ low <= a /\ low <= b /\ a <= high /\ b <= high
  BY <1>2 DEF Priced, Ranges
<1> PICK x \in Nat : x = a + b
  BY <1>3
<1>4. TwiceMedian(prices) = x /\ 2 * low <= x /\ x <= 2 * high /\ low \in Nat /\ high \in Nat
  BY <1>3 DEF TwiceMedian, Ranges
<1>5. HalfUp(x, 2) = (2 * x + 2) \div 4
  BY DEF HalfUp
<1> QED
  BY <1>4, <1>5

-----------------------------------------------------------------------------
(* Weighted means of observations. *)

ValueSum(obs) == MapThenSumSet(LAMBDA o : o.price * Weight(o), obs)
WeightSum(obs) == MapThenSumSet(Weight, obs)

\* What the observations add to the value is a sum over them.
LEMMA ValuesAre ==
    ASSUME NEW obs, IsFiniteSet(obs), NEW F,
           \A n \in obs : F[n] = n.price * Weight(n)
    PROVE  ValueSum(obs) = Total(F, obs)
<1> DEFINE rec(it) == it = [s \in SUBSET obs |-> IF s = {} THEN 0
               ELSE (CHOOSE x \in s : TRUE).price * Weight((CHOOSE x \in s : TRUE))
                    + it[s \ {CHOOSE x \in s : TRUE}]]
<1>0. IsFiniteSet(obs)
  OBVIOUS
<1>1. PICK it : Adds(it, F, obs)
  BY <1>0, SumsExist
<1>2. rec(it)
  <2>1. \A s \in SUBSET obs : s # {} => F[Pick(s)] = Pick(s).price * Weight(Pick(s))
    BY PickedIsIn
  <2> QED
    BY <1>1, <2>1 DEF Adds, Pick
<1>3. ValueSum(obs) = (CHOOSE i : rec(i))[obs]
  BY DEF ValueSum, MapThenSumSet, MapThenFoldSet
<1>4. PICK sums : sums = (CHOOSE i : rec(i)) /\ rec(sums)
  <2> HIDE DEF rec
  <2>1. rec(CHOOSE i : rec(i))
    BY <1>2
  <2> QED
    BY <2>1
<1>5. Adds(sums, F, obs)
  <2>1. rec(sums)
    BY <1>4
  <2>2. \A s \in SUBSET obs : s # {} => F[Pick(s)] = Pick(s).price * Weight(Pick(s))
    BY PickedIsIn
  <2> QED
    BY <2>1, <2>2 DEF Adds, Pick
<1> QED
  BY <1>0, <1>3, <1>4, <1>5, TotalIs

\* So are their weights.
LEMMA WeightsAre ==
    ASSUME NEW obs, IsFiniteSet(obs), NEW F,
           \A n \in obs : F[n] = Weight(n)
    PROVE  WeightSum(obs) = Total(F, obs)
<1> DEFINE rec(it) == it = [s \in SUBSET obs |-> IF s = {} THEN 0
               ELSE Weight(CHOOSE x \in s : TRUE)
                    + it[s \ {CHOOSE x \in s : TRUE}]]
<1>0. IsFiniteSet(obs)
  OBVIOUS
<1>1. PICK it : Adds(it, F, obs)
  BY <1>0, SumsExist
<1>2. rec(it)
  <2>1. \A s \in SUBSET obs : s # {} => F[Pick(s)] = Weight(Pick(s))
    BY PickedIsIn
  <2> QED
    BY <1>1, <2>1 DEF Adds, Pick
<1>3. WeightSum(obs) = (CHOOSE i : rec(i))[obs]
  BY DEF WeightSum, MapThenSumSet, MapThenFoldSet
<1>4. PICK sums : sums = (CHOOSE i : rec(i)) /\ rec(sums)
  <2> HIDE DEF rec
  <2>1. rec(CHOOSE i : rec(i))
    BY <1>2
  <2> QED
    BY <2>1
<1>5. Adds(sums, F, obs)
  <2>1. rec(sums)
    BY <1>4
  <2>2. \A s \in SUBSET obs : s # {} => F[Pick(s)] = Weight(Pick(s))
    BY PickedIsIn
  <2> QED
    BY <2>1, <2>2 DEF Adds, Pick
<1> QED
  BY <1>0, <1>3, <1>4, <1>5, TotalIs

RootOf(r, n) == r * r <= 10000 * n /\ (r + 1) * (r + 1) > 10000 * n
Squares == 1..100
Roots == 100..1000

\* Square roots are found among the numbers searched.
LEMMA RootsAreFound == \A n \in Squares : Root[n] \in Roots
<1> SUFFICES ASSUME NEW n \in Squares PROVE Root[n] \in Roots
  OBVIOUS
<1>1. n \in Nat /\ 1 <= n /\ n <= 100
  BY DEF Squares
<1> DEFINE less == {r \in Roots : r * r <= 10000 * n}
<1>2. IsFiniteSet(less) /\ less \subseteq Nat
  <2>1. \A r \in less : r \in Nat /\ r <= 1000
    BY DEF Roots
  <2> HIDE DEF less
  <2> PICK m \in Nat : m = 1000
    OBVIOUS
  <2>2. less \in SUBSET Nat /\ \A r \in less : r <= m
    BY <2>1
  <2> QED
    BY <2>2, FS_BoundedSetOfNaturals
<1>3. 100 \in less
  BY <1>1 DEF Roots
<1>4. PICK r \in less : \A q \in less : r >= q
  <2> HIDE DEF less
  <2>1. less # {}
    BY <1>3
  <2> QED
    BY <1>2, <2>1, GreatestIsIn
<1>5. (r + 1) * (r + 1) > 10000 * n
  <2>1. CASE r = 1000
    <3>1. (r + 1) * (r + 1) = 1002001
      BY <2>1
    <3> QED
      BY <1>1, <3>1
  <2>2. CASE r # 1000
    <3>1. r \in Nat /\ r + 1 \in Roots /\ ~(r >= r + 1)
      BY <2>2 DEF Roots
    <3>2. r + 1 \notin less
      BY <1>4, <3>1
    <3>3. ~((r + 1) * (r + 1) <= 10000 * n)
      BY <3>1, <3>2
    <3>4. (r + 1) * (r + 1) \in Nat /\ 10000 * n \in Nat
      BY <1>1, <3>1
    <3> QED
      BY <3>3, <3>4
  <2> QED
    BY <2>1, <2>2
<1>6. \E q \in Roots : RootOf(q, n)
  BY <1>5 DEF RootOf
<1>7. Root = [m \in Squares |-> CHOOSE q \in Roots : RootOf(q, m)]
  BY DEF Root, Squares, Roots, RootOf
<1>8. Root[n] = CHOOSE q \in Roots : RootOf(q, n)
  BY <1>7
<1> HIDE DEF less
<1> QED
  BY <1>6, <1>8

\* An observation in the range of the data: its price lies between its bounds.
Observed(o) ==
    /\ o.price \in Nat /\ o.low \in Nat /\ o.high \in Nat
    /\ o.low <= o.price /\ o.price <= o.high
    /\ o.samples \in Nat /\ o.sold \in Nat /\ o.active \in Nat

\* It has a weight.
LEMMA ObservationsWeigh ==
    ASSUME NEW o, Observed(o)
    PROVE  Weight(o) \in Nat \ {0}
<1>1. MarketplaceWeight(o.of[1]) \in Nat \ {0}
  BY DEF MarketplaceWeight
<1>2. Root[Between(1, o.samples, 100)] \in Nat \ {0}
  <2>1. Between(1, o.samples, 100) \in Squares
    BY DEF Observed, Between, Squares
  <2>2. Root[Between(1, o.samples, 100)] \in Roots
    BY <2>1, RootsAreFound
  <2>3. Roots \subseteq Nat \ {0}
    BY DEF Roots
  <2> QED
    BY <2>2, <2>3
<1>3. EvidenceWeight(o) \in Nat \ {0}
  <2> PICK s \in Nat, a \in Nat : s = o.sold /\ a = o.active
    BY DEF Observed
  <2>1. CASE s + a = 0
    BY <2>1 DEF EvidenceWeight
  <2>2. CASE s + a # 0
    <3> PICK n \in Nat : n = 30 * s + 20 * a
      OBVIOUS
    <3> PICK d \in Nat \ {0} : d = s + a
      BY <2>2
    <3> PICK q : q = n \div d
      OBVIOUS
    <3>1. q \in Nat /\ n < d * q + d
      BY QuotientIs
    <3>2. q # 0
      <4> SUFFICES ASSUME q = 0 PROVE FALSE
        OBVIOUS
      <4>1. d * q = 0
        OBVIOUS
      <4>2. n >= d
        OBVIOUS
      <4> QED
        BY <3>1, <4>1, <4>2
    <3>3. EvidenceWeight(o) = q
      BY <2>2 DEF EvidenceWeight
    <3> QED
      BY <3>1, <3>2, <3>3
  <2> QED
    BY <2>1, <2>2
<1> PICK a \in Nat \ {0}, b \in Nat \ {0}, c \in Nat \ {0} :
           /\ a = MarketplaceWeight(o.of[1]) /\ b = Root[Between(1, o.samples, 100)]
           /\ c = EvidenceWeight(o)
  BY <1>1, <1>2, <1>3
<1>4. a * b \in Nat \ {0}
  OBVIOUS
<1>5. a * b * c \in Nat \ {0}
  BY <1>4
<1> QED
  BY <1>5 DEF Weight

\* Products are in the order of a factor.
LEMMA MultiplesInOrder ==
    ASSUME NEW a \in Nat, NEW b \in Nat, a <= b, NEW k \in Nat
    PROVE  a * k \in Nat /\ b * k \in Nat /\ a * k <= b * k
<1> PICK d \in Nat : b = a + d
  OBVIOUS
<1>1. (a + d) * k = a * k + d * k /\ a * k \in Nat /\ d * k \in Nat
  OBVIOUS
<1> QED
  BY <1>1

\* The value is between the prices.
LEMMA ValuesAreWithin ==
    ASSUME NEW obs, IsFiniteSet(obs), obs # {}, NEW low \in Nat, NEW high \in Nat,
           \A o \in obs : Observed(o) /\ low <= o.price /\ o.price <= high
    PROVE  Expected(obs) \in Int /\ low <= Expected(obs) /\ Expected(obs) <= high
<1> DEFINE F == [o \in obs |-> o.price * Weight(o)]
           W == [o \in obs |-> Weight(o)]
           L == [o \in obs |-> low * W[o]]
           H == [o \in obs |-> high * W[o]]
<1>1. \A o \in obs : F[o] = o.price * Weight(o) /\ W[o] = Weight(o)
  OBVIOUS
<1>2. \A o \in obs : L[o] = low * W[o] /\ H[o] = high * W[o]
  OBVIOUS
<1>3. \A o \in obs : W[o] \in Nat \ {0} /\ o.price \in Nat
  BY ObservationsWeigh DEF Observed
<1> HIDE DEF F, W, L, H
<1>4. ValueSum(obs) = Total(F, obs) /\ WeightSum(obs) = Total(W, obs)
  BY <1>1, ValuesAre, WeightsAre
<1>5. ASSUME NEW o \in obs
      PROVE  L[o] \in Nat /\ F[o] \in Nat /\ H[o] \in Nat /\ L[o] <= F[o] /\ F[o] <= H[o]
  <2> PICK k \in Nat : k = W[o]
    BY <1>3
  <2> PICK p \in Nat : p = o.price
    BY <1>3
  <2>1. low <= p /\ p <= high
    OBVIOUS
  <2>2. /\ low * k \in Nat /\ p * k \in Nat /\ high * k \in Nat
        /\ low * k <= p * k /\ p * k <= high * k
    BY <2>1, MultiplesInOrder
  <2>3. L[o] = low * k /\ F[o] = p * k /\ H[o] = high * k
    BY <1>1, <1>2
  <2> QED
    BY <2>2, <2>3
<1>6. Terms(L, obs) /\ Terms(F, obs) /\ Terms(H, obs) /\ Terms(W, obs)
  BY <1>3, <1>5 DEF Terms
<1>7. Total(L, obs) <= Total(F, obs) /\ Total(F, obs) <= Total(H, obs)
  BY <1>5, <1>6, TotalCompare DEF Compares
<1>8. Total(L, obs) = low * Total(W, obs) /\ Total(H, obs) = high * Total(W, obs)
  <2>1. low \in Int /\ high \in Int
    OBVIOUS
  <2> QED
    BY <1>2, <1>6, <2>1, TotalTimes
<1>9. Total(W, obs) \in Nat \ {0}
  <2>1. Total(W, obs) \in Nat /\ (Total(W, obs) = 0 => \A o \in obs : W[o] = 0)
    BY <1>3, TotalOfNaturals
  <2> QED
    BY <1>3, <2>1
<1>10. Total(F, obs) \in Int
  BY <1>6, TotalType
<1> PICK x \in Int : x = Total(F, obs)
  BY <1>10
<1> PICK t \in Nat \ {0} : t = Total(W, obs)
  BY <1>9
<1>11. low * t <= x * 1 /\ x * 1 <= high * t
  BY <1>7, <1>8
<1>12. HalfUp(low, 1) <= HalfUp(x, t) /\ HalfUp(x, t) <= HalfUp(high, 1) /\ HalfUp(x, t) \in Int
  <2>1. low \in Int /\ high \in Int /\ 1 \in Nat \ {0}
    OBVIOUS
  <2> QED
    BY <1>11, <2>1, HalfUpInOrder
<1>13. HalfUp(low, 1) = low /\ HalfUp(high, 1) = high
  BY DEF HalfUp
<1>14. Expected(obs) = HalfUp(x, t)
  BY <1>4 DEF Expected, ValueSum, WeightSum
<1> QED
  BY <1>12, <1>13, <1>14

-----------------------------------------------------------------------------
(* Rows and observations. *)

Fields == {"fair_market_value", "median", "average", "low", "high", "samples", "sold", "active"}

\* The rows of a refresh: the median is the fair value, and between the bounds.
Built(b) ==
    /\ DOMAIN b = Fields
    /\ b.fair_market_value \in Nat /\ b.low \in Nat /\ b.high \in Nat
    /\ b.median = b.fair_market_value
    /\ b.low <= b.fair_market_value /\ b.fair_market_value <= b.high
    /\ b.samples \in Nat /\ b.sold \in Nat /\ b.active \in Nat

\* What is left of them, or a submitted row.
Grouped(group) ==
    /\ group.samples \in Nat /\ group.sold \in Nat /\ group.active \in Nat
    /\ Representative(group) # NoRow
       => LET price == Representative(group)
          IN  /\ price \in Nat
              /\ OrPrice(group.low, price) \in Nat /\ OrPrice(group.high, price) \in Nat
              /\ OrPrice(group.low, price) <= price /\ price <= OrPrice(group.high, price)

\* A batch is built so.
LEMMA BatchesAreBuilt ==
    ASSUME NEW batch \in Batches
    PROVE  Built(Build(batch))
<1> DEFINE all == [i \in DOMAIN batch |-> batch[i].price]
           kept == Fenced(all)
           prices == [i \in kept |-> batch[i].price]
           sold == {i \in kept : batch[i].sold}
<1>1. IsFiniteSet(DOMAIN batch) /\ DOMAIN batch # {}
      /\ \A i \in DOMAIN batch : batch[i].price \in Nat
  BY MarketsAreSane
<1>2. Priced(all) /\ DOMAIN all = DOMAIN batch
  BY <1>1 DEF Priced
<1>3. kept \subseteq DOMAIN batch /\ kept # {}
  <2> HIDE DEF all
  <2> QED
    BY <1>2, FencesKeepSome
<1> HIDE DEF kept
<1>4. IsFiniteSet(kept)
  BY <1>1, <1>3, FS_Subset
<1>5. Priced(prices) /\ DOMAIN prices = kept
  BY <1>1, <1>3, <1>4 DEF Priced
<1> HIDE DEF prices, all
<1> PICK low, high : low = Min(Range(prices)) /\ high = Max(Range(prices))
  OBVIOUS
<1>6. /\ Ranges(prices, low, high)
      /\ \E i \in kept : low = prices[i]
      /\ \E i \in kept : high = prices[i]
  <2> PICK R : R = Range(prices)
    OBVIOUS
  <2>1. R = {prices[i] : i \in kept}
    BY <1>5 DEF Range
  <2>2. IsFiniteSet(R) /\ R # {} /\ R \subseteq Nat
    <3>1. IsFiniteSet({prices[i] : i \in kept})
      BY <1>4, <1>5, ImagesAreFinite
    <3> QED
      BY <1>3, <1>5, <2>1, <3>1 DEF Priced
  <2>3. low \in R /\ high \in R /\ \A p \in R : low <= p /\ p <= high
    <3>1. low \in R /\ high \in R /\ \A p \in R : low <= p /\ high >= p
      BY <2>2, GreatestIsIn
    <3>2. \A p \in R : p \in Nat
      BY <2>2
    <3> QED
      BY <3>1, <3>2
  <2> QED
    BY <1>5, <2>1, <2>2, <2>3 DEF Ranges
<1> PICK middle : middle = HalfUp(TwiceMedian(prices), 2)
  OBVIOUS
<1>7. middle \in Nat /\ low <= middle /\ middle <= high /\ low \in Nat /\ high \in Nat
  BY <1>5, <1>6, MediansAreWithin DEF Ranges
<1>8. /\ Cardinality(kept) \in Nat /\ Cardinality(sold) \in Nat
      /\ Cardinality(kept) - Cardinality(sold) \in Nat
  <2>1. sold \in SUBSET kept
    OBVIOUS
  <2> HIDE DEF sold
  <2>2. /\ Cardinality(kept) \in Nat /\ Cardinality(sold) \in Nat
        /\ Cardinality(sold) <= Cardinality(kept)
    BY <1>4, <2>1, FS_Subset, FS_CardinalityType
  <2> QED
    BY <2>2
<1> PICK average : average = HalfUp(MapThenSumSet(LAMBDA i : prices[i], kept), Cardinality(kept))
  OBVIOUS
<1>9. Build(batch) = [fair_market_value |-> middle, median |-> middle, average |-> average,
                      low |-> low, high |-> high, samples |-> Cardinality(kept),
                      sold |-> Cardinality(sold),
                      active |-> Cardinality(kept) - Cardinality(sold)]
  BY DEF Build, kept, prices, all
<1> QED
  BY <1>7, <1>8, <1>9 DEF Built, Fields

\* Some of those rows.
LEMMA BuiltIsGrouped ==
    ASSUME NEW b, Built(b)
    PROVE  Grouped(b) /\ \A m \in Metrics : Grouped([b EXCEPT ![m] = NoRow])
<1>1. NoRow \notin Nat
  BY MarketsAreSane
<1>2. Grouped(b)
  BY <1>1 DEF Built, Grouped, Representative, OrPrice
<1>3. ASSUME NEW m \in Metrics
      PROVE  Grouped([b EXCEPT ![m] = NoRow])
  <2> PICK g : g = [b EXCEPT ![m] = NoRow]
    OBVIOUS
  <2>1. m \in Fields /\ \A f \in Fields : g[f] = IF f = m THEN NoRow ELSE b[f]
    BY DEF Built, Metrics, Fields
  <2>2. g.samples = b.samples /\ g.sold = b.sold /\ g.active = b.active
    BY <2>1 DEF Metrics, Fields
  <2>3. /\ g.fair_market_value = IF m = "fair_market_value" THEN NoRow ELSE b.fair_market_value
        /\ g.median = IF m = "median" THEN NoRow ELSE b.median
        /\ g.low = IF m = "low" THEN NoRow ELSE b.low
        /\ g.high = IF m = "high" THEN NoRow ELSE b.high
    BY <2>1 DEF Fields
  <2>4. Representative(g) = b.fair_market_value
    BY <1>1, <2>3 DEF Built, Representative
  <2>5. /\ OrPrice(g.low, b.fair_market_value) \in Nat
        /\ OrPrice(g.low, b.fair_market_value) <= b.fair_market_value
    BY <2>3 DEF Built, OrPrice
  <2>6. /\ OrPrice(g.high, b.fair_market_value) \in Nat
        /\ b.fair_market_value <= OrPrice(g.high, b.fair_market_value)
    BY <2>3 DEF Built, OrPrice
  <2> QED
    BY <2>2, <2>4, <2>5, <2>6 DEF Built, Grouped
<1> QED
  BY <1>2, <1>3

\* A submitted row.
LEMMA SubmissionIsGrouped ==
    ASSUME NEW row \in Submissions
    PROVE  Grouped([Blank(row.samples) EXCEPT ![row.metric] = row.value])
<1>1. NoRow \notin Nat /\ row \in [metric: Metrics, value: Nat, samples: Nat]
  BY MarketsAreSane
<1> PICK g : g = [Blank(row.samples) EXCEPT ![row.metric] = row.value]
  OBVIOUS
<1>2. row.metric \in Metrics /\ row.value \in Nat /\ row.samples \in Nat
  BY <1>1
<1>3. /\ g.fair_market_value = IF row.metric = "fair_market_value" THEN row.value ELSE NoRow
      /\ g.median = IF row.metric = "median" THEN row.value ELSE NoRow
      /\ g.average = IF row.metric = "average" THEN row.value ELSE NoRow
      /\ g.low = IF row.metric = "low" THEN row.value ELSE NoRow
      /\ g.high = IF row.metric = "high" THEN row.value ELSE NoRow
  BY DEF Blank
<1>4. g.samples = row.samples /\ g.sold = 0 /\ g.active = 0
  BY <1>2 DEF Blank, Metrics
<1>5. CASE row.metric \in {"low", "high"}
  BY <1>2, <1>3, <1>4, <1>5 DEF Grouped, Representative
<1>6. CASE row.metric \notin {"low", "high"}
  <2>1. Representative(g) = row.value
    BY <1>1, <1>2, <1>3, <1>6 DEF Representative, Metrics
  <2>2. OrPrice(g.low, row.value) = row.value /\ OrPrice(g.high, row.value) = row.value
    BY <1>3, <1>6 DEF OrPrice
  <2> QED
    BY <1>2, <1>4, <2>1, <2>2 DEF Grouped
<1> QED
  BY <1>5, <1>6

\* What is stored of a market.
OfMarket(e) ==
    /\ DOMAIN e = {"built", "row"}
    /\ e.built # NoRow => Built(e.built)
    /\ e.row # NoRow => e.row \in Submissions

Stored(m) == DOMAIN m = Shops /\ \A s \in Shops : OfMarket(m[s])

\* The groups of a market are at most two, and in the range of the data.
LEMMA GroupsAre ==
    ASSUME NEW m, Stored(m), NEW shop \in Shops
    PROVE  IsFiniteSet(Groups(m, shop)) /\ \A g \in Groups(m, shop) : Grouped(g[3])
<1> PICK built, row : built = m[shop].built /\ row = m[shop].row
  OBVIOUS
<1>1. (built # NoRow => Built(built)) /\ (row # NoRow => row \in Submissions)
  BY DEF Stored, OfMarket
<1> PICK rows : rows = IF row = NoRow THEN built ELSE [built EXCEPT ![row.metric] = NoRow]
  OBVIOUS
<1> PICK sent : sent = [Blank(row.samples) EXCEPT ![row.metric] = row.value]
  OBVIOUS
<1> PICK a : a = IF built = NoRow THEN {} ELSE {<<shop, "built", rows>>}
  OBVIOUS
<1> PICK b : b = IF row = NoRow THEN {} ELSE {<<shop, "row", sent>>}
  OBVIOUS
<1>2. Groups(m, shop) = a \cup b
  BY DEF Groups
<1>3. IsFiniteSet(a) /\ IsFiniteSet(b)
  BY FS_EmptySet, FS_Singleton
<1>4. ASSUME NEW g \in a PROVE Grouped(g[3])
  <2>1. built # NoRow /\ g = <<shop, "built", rows>>
    BY <1>4
  <2>2. g[3] = rows
    BY <2>1
  <2>3. Grouped(rows)
    <3>1. CASE row = NoRow
      BY <1>1, <2>1, <3>1, BuiltIsGrouped
    <3>2. CASE row # NoRow
      <4>1. row \in [metric: Metrics, value: Nat, samples: Nat]
        BY <1>1, <3>2, MarketsAreSane
      <4>2. row.metric \in Metrics
        BY <4>1
      <4> QED
        BY <1>1, <2>1, <3>2, <4>2, BuiltIsGrouped
    <3> QED
      BY <3>1, <3>2
  <2> QED
    BY <2>2, <2>3
<1>5. ASSUME NEW g \in b PROVE Grouped(g[3])
  <2>1. row # NoRow /\ g = <<shop, "row", sent>>
    BY <1>5
  <2>2. g[3] = sent
    BY <2>1
  <2>3. Grouped(sent)
    BY <1>1, <2>1, SubmissionIsGrouped
  <2> QED
    BY <2>2, <2>3
<1>6. IsFiniteSet(a \cup b)
  BY <1>3, FS_Union
<1> QED
  BY <1>2, <1>4, <1>5, <1>6

\* There are finitely many observations, in the range of the data.
LEMMA ObservationsAre ==
    ASSUME NEW m, Stored(m)
    PROVE  IsFiniteSet(Observations(m)) /\ \A o \in Observations(m) : Observed(o)
<1> DEFINE families == {Groups(m, s) : s \in Shops}
           known == {g \in UNION families : Representative(g[3]) # NoRow}
<1>1. IsFiniteSet(Shops)
  <2>1. IsFiniteSet(OtherShops)
    BY MarketsAreSane
  <2>2. IsFiniteSet(OtherShops \cup {Bricklink})
    BY <2>1, FS_AddElement
  <2>3. IsFiniteSet((OtherShops \cup {Bricklink}) \cup {Ebay})
    BY <2>2, FS_AddElement
  <2>4. Shops = (OtherShops \cup {Bricklink}) \cup {Ebay}
    BY DEF Shops
  <2> QED
    BY <2>3, <2>4
<1>2. IsFiniteSet(families)
  <2> DEFINE f == [s \in Shops |-> Groups(m, s)]
  <2>1. IsFiniteSet({f[s] : s \in Shops})
    <3>1. DOMAIN f = Shops
      OBVIOUS
    <3> HIDE DEF f
    <3> QED
      BY <1>1, <3>1, ImagesAreFinite
  <2>2. families = {f[s] : s \in Shops}
    OBVIOUS
  <2> QED
    BY <2>1, <2>2
<1>3. IsFiniteSet(UNION families)
  <2>1. \A F \in families : IsFiniteSet(F)
    BY GroupsAre
  <2> HIDE DEF families
  <2> QED
    BY <1>2, <2>1, FS_UNION
<1>4. IsFiniteSet(known)
  <2>1. known \subseteq UNION families
    OBVIOUS
  <2> HIDE DEF known, families
  <2> QED
    BY <1>3, <2>1, FS_Subset
<1>5. \A g \in known : Grouped(g[3]) /\ Representative(g[3]) # NoRow
  BY GroupsAre
<1>6. Observations(m) = {Observation(g) : g \in known}
  BY DEF Observations
<1> HIDE DEF known
<1>7. IsFiniteSet({Observation(g) : g \in known})
  <2> DEFINE f == [g \in known |-> Observation(g)]
  <2>1. IsFiniteSet({f[g] : g \in known})
    <3>1. DOMAIN f = known
      OBVIOUS
    <3> HIDE DEF f
    <3> QED
      BY <1>4, <3>1, ImagesAreFinite
  <2>2. {Observation(g) : g \in known} = {f[g] : g \in known}
    OBVIOUS
  <2> QED
    BY <2>1, <2>2
<1>8. ASSUME NEW g \in known PROVE Observed(Observation(g))
  <2> PICK group, price : group = g[3] /\ price = Representative(g[3])
    OBVIOUS
  <2>1. /\ Observation(g).price = price
        /\ Observation(g).low = OrPrice(group.low, price)
        /\ Observation(g).high = OrPrice(group.high, price)
        /\ Observation(g).samples = group.samples
        /\ Observation(g).sold = group.sold /\ Observation(g).active = group.active
    BY DEF Observation
  <2>2. /\ group.samples \in Nat /\ group.sold \in Nat /\ group.active \in Nat
        /\ price \in Nat
        /\ OrPrice(group.low, price) \in Nat /\ OrPrice(group.high, price) \in Nat
        /\ OrPrice(group.low, price) <= price /\ price <= OrPrice(group.high, price)
    BY <1>5 DEF Grouped
  <2> QED
    BY <2>1, <2>2 DEF Observed
<1> QED
  BY <1>6, <1>7, <1>8

\* Those that are used are some of them.
LEMMA SomeAreUsed ==
    ASSUME NEW obs, IsFiniteSet(obs), obs # {}, \A o \in obs : Observed(o)
    PROVE  /\ Priced(PricesOf(obs)) /\ DOMAIN PricesOf(obs) = obs
           /\ \A o \in obs : PricesOf(obs)[o] = o.price
           /\ Used(obs) \subseteq obs /\ Used(obs) # {} /\ IsFiniteSet(Used(obs))
<1> PICK prices : prices = PricesOf(obs)
  OBVIOUS
<1>1. Priced(prices) /\ DOMAIN prices = obs /\ \A o \in obs : prices[o] = o.price
  BY DEF PricesOf, Priced, Observed
<1>2. Fenced(prices) \subseteq obs /\ Fenced(prices) # {}
  BY <1>1, FencesKeepSome
<1>3. IsFiniteSet(Fenced(prices))
  BY <1>2, FS_Subset
<1> QED
  BY <1>1, <1>2, <1>3 DEF Used

\* The bounds of a summary are those of all that is used.
LEMMA SummariesAreBounded ==
    ASSUME NEW obs, IsFiniteSet(obs), obs # {}, \A o \in obs : Observed(o)
    PROVE  /\ Summary(obs).low <= Summary(obs).expected
           /\ Summary(obs).expected <= Summary(obs).high
           /\ Summary(obs).low <= Summary(obs).median
           /\ Summary(obs).median <= Summary(obs).high
<1> DEFINE lows == {o.low : o \in obs}
           highs == {o.high : o \in obs}
           fl == [o \in obs |-> o.low]
           fh == [o \in obs |-> o.high]
<1>1. IsFiniteSet(lows) /\ IsFiniteSet(highs)
  <2>1. IsFiniteSet({fl[o] : o \in obs})
    <3>1. DOMAIN fl = obs
      OBVIOUS
    <3> HIDE DEF fl
    <3> QED
      BY <3>1, ImagesAreFinite
  <2>2. IsFiniteSet({fh[o] : o \in obs})
    <3>1. DOMAIN fh = obs
      OBVIOUS
    <3> HIDE DEF fh
    <3> QED
      BY <3>1, ImagesAreFinite
  <2>3. lows = {fl[o] : o \in obs} /\ highs = {fh[o] : o \in obs}
    OBVIOUS
  <2> QED
    BY <2>1, <2>2, <2>3
<1>2. lows # {} /\ highs # {} /\ lows \subseteq Nat /\ highs \subseteq Nat
  BY DEF Observed
<1> PICK low, high : low = Min(lows) /\ high = Max(highs)
  OBVIOUS
<1>3. /\ low \in Nat /\ high \in Nat
      /\ \A x \in lows : low <= x
      /\ \A x \in highs : high >= x
  <2> HIDE DEF lows, highs
  <2> QED
    BY <1>1, <1>2, GreatestIsIn
<1>4. ASSUME NEW o \in obs PROVE low <= o.price /\ o.price <= high
  <2>1. o.low \in Nat /\ o.high \in Nat /\ o.price \in Nat /\ o.low <= o.price /\ o.price <= o.high
    BY DEF Observed
  <2>2. low <= o.low /\ high >= o.high
    BY <1>3
  <2> QED
    BY <1>3, <2>1, <2>2
<1>5. low <= Expected(obs) /\ Expected(obs) <= high
  BY <1>3, <1>4, ValuesAreWithin
<1>6. Priced(PricesOf(obs)) /\ Ranges(PricesOf(obs), low, high)
  <2>1. /\ Priced(PricesOf(obs)) /\ DOMAIN PricesOf(obs) = obs
        /\ \A o \in obs : PricesOf(obs)[o] = o.price
    BY SomeAreUsed
  <2> QED
    BY <1>3, <1>4, <2>1 DEF Ranges
<1> PICK middle : middle = HalfUp(TwiceMedian(PricesOf(obs)), 2)
  OBVIOUS
<1>7. low <= middle /\ middle <= high
  BY <1>6, MediansAreWithin
<1>8. /\ Summary(obs).low = low /\ Summary(obs).high = high
      /\ Summary(obs).expected = Expected(obs) /\ Summary(obs).median = middle
  BY DEF Summary
<1> QED
  BY <1>5, <1>7, <1>8

-----------------------------------------------------------------------------
(* The outlier. *)

\* All have one price but one.
Alone(prices, odd, v) ==
    /\ odd \in DOMAIN prices /\ v \in Nat /\ prices[odd] # v
    /\ \A i \in DOMAIN prices \ {odd} : prices[i] = v

\* The lowest price is the odd one, or the highest, and no other.
LEMMA NthOfAlone ==
    ASSUME NEW prices, Priced(prices), NEW odd, NEW v, Alone(prices, odd, v),
           NEW k \in 1..Count(prices)
    PROVE  /\ prices[odd] < v => Nth(prices, k) = IF k = 1 THEN prices[odd] ELSE v
           /\ prices[odd] > v => Nth(prices, k) = IF k = Count(prices) THEN prices[odd] ELSE v
<1> PICK n \in Nat \ {0} : n = Count(prices)
  BY PartsAreCounted
<1> PICK p : p = Nth(prices, k)
  OBVIOUS
<1> PICK x : x = prices[odd]
  OBVIOUS
<1> PICK rest : rest = DOMAIN prices \ {odd}
  OBVIOUS
<1>1. x \in Nat /\ v \in Nat /\ x # v
  BY DEF Alone, Priced
<1>2. /\ \E i \in DOMAIN prices : p = prices[i]
      /\ Cardinality(Below(prices, p)) < k /\ Cardinality(UpTo(prices, p)) >= k
  BY NthIs
<1>3. p = x \/ p = v
  BY <1>2 DEF Alone
<1>4. Cardinality({odd}) = 1
  BY FS_Singleton
<1>5. Cardinality(rest) = n - 1
  BY FS_RemoveElement DEF Alone, Priced, Count
<1>6. k \in Nat /\ k >= 1 /\ k <= n
  OBVIOUS
<1>7. ASSUME x < v
      PROVE  p = IF k = 1 THEN x ELSE v
  <2>1. UpTo(prices, x) = {odd} /\ Below(prices, v) = {odd}
    BY <1>1, <1>7 DEF UpTo, Below, Alone
  <2>2. p = x => k = 1
    BY <1>2, <1>4, <1>6, <2>1
  <2>3. p = v => k # 1
    BY <1>2, <1>4, <1>6, <2>1
  <2> QED
    BY <1>3, <2>2, <2>3
<1>8. ASSUME x > v
      PROVE  p = IF k = n THEN x ELSE v
  <2>1. Below(prices, x) = rest /\ UpTo(prices, v) = rest
    BY <1>1, <1>8 DEF UpTo, Below, Alone
  <2> PICK c : c = Cardinality(rest)
    OBVIOUS
  <2>2. c = n - 1 /\ (p = x => c < k) /\ (p = v => c >= k)
    BY <1>2, <1>5, <2>1
  <2>3. p = x => k = n
    BY <1>6, <2>2
  <2>4. p = v => k # n
    BY <1>6, <2>2
  <2> QED
    BY <1>3, <2>3, <2>4
<1> QED
  BY <1>7, <1>8

\* Of five and more prices, the upper quartile is not of the highest.
LEMMA UpperPositions ==
    ASSUME NEW n \in Nat, n >= 5, NEW a \in Nat, a = 3 * (n - 1)
    PROVE  /\ 1 + (a \div 4) < n /\ (a % 4 # 0 => 2 + (a \div 4) < n)
           /\ a \div 4 >= 1
OBVIOUS

\* The quartiles are the price of the others, unless there are three of them.
LEMMA QuartilesOfAlone ==
    ASSUME NEW prices, Priced(prices), Count(prices) >= 4,
           NEW odd, NEW v, Alone(prices, odd, v), NEW x, x = prices[odd]
    PROVE  /\ x < v => /\ Quartile(prices, 3) = 4 * v
                       /\ Quartile(prices, 1) = IF Count(prices) = 4 THEN x + 3 * v ELSE 4 * v
           /\ x > v => /\ Quartile(prices, 1) = 4 * v
                       /\ Quartile(prices, 3) = IF Count(prices) = 4 THEN 3 * v + x ELSE 4 * v
<1> PICK n \in Nat : n = Count(prices)
  BY PartsAreCounted
<1>0. n >= 4 /\ x \in Nat /\ v \in Nat
  BY DEF Alone, Priced
<1>1. \A i \in 1..n : /\ x < v => Nth(prices, i) = IF i = 1 THEN x ELSE v
                      /\ x > v => Nth(prices, i) = IF i = n THEN x ELSE v
  BY NthOfAlone
<1>2. /\ x < v => Quartile(prices, 1) = IF n = 4 THEN x + 3 * v ELSE 4 * v
      /\ x > v => Quartile(prices, 1) = 4 * v
  <2> PICK at \in Nat : at = 1 * (Count(prices) - 1)
    BY <1>0
  <2> PICK d : d = at \div 4
    OBVIOUS
  <2> PICK part : part = at % 4
    OBVIOUS
  <2>1. /\ d \in Nat /\ part \in {0, 1, 2, 3} /\ at = 4 * d + part
        /\ 1 + d \in 1..n /\ (part # 0 => 2 + d \in 1..n)
    <3>1. at <= 3 * (n - 1)
      BY <1>0
    <3> QED
      BY <3>1, PositionsExist
  <2> PICK low : low = Nth(prices, 1 + d)
    OBVIOUS
  <2> PICK next : next = Nth(prices, 2 + d)
    OBVIOUS
  <2>2. /\ part = 0 => Quartile(prices, 1) = 4 * low
        /\ part # 0 => Quartile(prices, 1) = (4 - part) * low + part * next
    BY QuartileIs
  <2>3. at = n - 1
    OBVIOUS
  <2>4. CASE n = 4
    <3>1. d = 0 /\ part = 3
      BY <2>1, <2>3, <2>4
    <3>2. low = Nth(prices, 1) /\ next = Nth(prices, 2)
      BY <3>1
    <3>3. /\ x < v => low = x /\ next = v
          /\ x > v => low = v /\ next = v
      BY <1>0, <1>1, <2>4, <3>2
    <3> QED
      BY <1>0, <2>2, <2>4, <3>1, <3>3
  <2>5. CASE n # 4
    <3>1. d >= 1 /\ 1 + d # n /\ 1 + d # 1 /\ 2 + d # 1 /\ (part # 0 => 2 + d # n)
      BY <1>0, <2>1, <2>3, <2>5
    <3>2. x # v => low = v /\ (part # 0 => next = v)
      BY <1>0, <1>1, <2>1, <3>1
    <3>3. part = 0 \/ part \in {1, 2, 3}
      BY <2>1
    <3> QED
      BY <1>0, <2>2, <2>5, <3>2, <3>3
  <2> QED
    BY <2>4, <2>5
<1>3. /\ x < v => Quartile(prices, 3) = 4 * v
      /\ x > v => Quartile(prices, 3) = IF n = 4 THEN 3 * v + x ELSE 4 * v
  <2> PICK at \in Nat : at = 3 * (Count(prices) - 1)
    BY <1>0
  <2> PICK d : d = at \div 4
    OBVIOUS
  <2> PICK part : part = at % 4
    OBVIOUS
  <2>1. /\ d \in Nat /\ part \in {0, 1, 2, 3} /\ at = 4 * d + part
        /\ 1 + d \in 1..n /\ (part # 0 => 2 + d \in 1..n)
    <3>1. at <= 3 * (n - 1)
      BY <1>0
    <3> QED
      BY <3>1, PositionsExist
  <2> PICK low : low = Nth(prices, 1 + d)
    OBVIOUS
  <2> PICK next : next = Nth(prices, 2 + d)
    OBVIOUS
  <2>2. /\ part = 0 => Quartile(prices, 3) = 4 * low
        /\ part # 0 => Quartile(prices, 3) = (4 - part) * low + part * next
    BY QuartileIs
  <2>3. at = 3 * (n - 1)
    OBVIOUS
  <2>4. CASE n = 4
    <3>1. d = 2 /\ part = 1
      BY <2>1, <2>3, <2>4
    <3>2. low = Nth(prices, 3) /\ next = Nth(prices, 4)
      BY <3>1
    <3>3. /\ x < v => low = v /\ next = v
          /\ x > v => low = v /\ next = x
      BY <1>0, <1>1, <2>4, <3>2
    <3> QED
      BY <1>0, <2>2, <2>4, <3>1, <3>3
  <2>5. CASE n # 4
    <3>0. n >= 5
      BY <1>0, <2>5
    <3>1. d >= 1 /\ 1 + d < n /\ (part # 0 => 2 + d < n)
      BY <2>3, <3>0, UpperPositions
    <3>2. x # v => low = v /\ (part # 0 => next = v)
      <4>1. 1 + d # 1 /\ 2 + d # 1 /\ 1 + d # n /\ (part # 0 => 2 + d # n)
        BY <2>1, <3>1
      <4>2. x # v => low = v
        <5>1. x # v => x < v \/ x > v
          BY <1>0
        <5> QED
          BY <1>1, <2>1, <4>1, <5>1
      <4>3. x # v /\ part # 0 => next = v
        <5>1. x # v => x < v \/ x > v
          BY <1>0
        <5> QED
          BY <1>1, <2>1, <4>1, <5>1
      <4> QED
        BY <4>2, <4>3
    <3>3. part = 0 \/ part \in {1, 2, 3}
      BY <2>1
    <3> QED
      BY <1>0, <2>2, <2>5, <3>2, <3>3
  <2> QED
    BY <2>4, <2>5
<1> QED
  BY <1>2, <1>3

\* So the fences leave it out.
LEMMA FencesLeaveItOut ==
    ASSUME NEW prices, Priced(prices), Count(prices) >= 4, NEW odd, NEW v, Alone(prices, odd, v)
    PROVE  odd \notin Fenced(prices)
<1> PICK x : x = prices[odd]
  OBVIOUS
<1> PICK q1, q3 : q1 = Quartile(prices, 1) /\ q3 = Quartile(prices, 3)
  OBVIOUS
<1> PICK n \in Nat : n = Count(prices)
  BY PartsAreCounted
<1>1. x \in Nat /\ v \in Nat /\ x # v
  BY DEF Alone, Priced
<1>2. /\ x < v => q3 = 4 * v /\ q1 = IF n = 4 THEN x + 3 * v ELSE 4 * v
      /\ x > v => q1 = 4 * v /\ q3 = IF n = 4 THEN 3 * v + x ELSE 4 * v
  BY QuartilesOfAlone
<1>3. ~(/\ 8 * x >= 2 * q1 - 3 * (q3 - q1)
        /\ 8 * x <= 2 * q3 + 3 * (q3 - q1))
  BY <1>1, <1>2
<1>4. ~(Count(prices) < MinSample)
  BY DEF MinSample
<1>5. Fenced(prices) = {i \in DOMAIN prices :
                           /\ 8 * prices[i] >= 2 * q1 - 3 * (q3 - q1)
                           /\ 8 * prices[i] <= 2 * q3 + 3 * (q3 - q1)}
  BY <1>4 DEF Fenced
<1> QED
  BY <1>3, <1>5

-----------------------------------------------------------------------------
(* Steps. *)

\* The estimate is that of what is stored.
ValueInv == Stored(market) /\ estimate = EstimateFairValue(market)

\* An estimate of rows in the range of the data is sound.
LEMMA EstimatesAreSound ==
    ASSUME ValueInv
    PROVE  EstimateIsSound
<1> PICK obs : obs = Observations(market)
  OBVIOUS
<1> PICK used : used = Used(obs)
  OBVIOUS
<1>1. IsFiniteSet(obs) /\ \A o \in obs : Observed(o)
  BY ObservationsAre DEF ValueInv
<1>2. estimate = IF obs = {} THEN EmptyEstimate ELSE Summary(used)
  BY DEF ValueInv, EstimateFairValue
<1>3. CASE obs = {}
  <2>1. estimate.low = 0 /\ estimate.expected = 0 /\ estimate.high = 0 /\ estimate.median = 0
    BY <1>2, <1>3 DEF EmptyEstimate
  <2>2. EstimateWithinBounds
    BY <2>1 DEF EstimateWithinBounds
  <2>3. OneOutlierIsHarmless
    BY <1>3 DEF OneOutlierIsHarmless
  <2> QED
    BY <2>2, <2>3 DEF EstimateIsSound
<1>4. CASE obs # {}
  <2>1. /\ Priced(PricesOf(obs)) /\ DOMAIN PricesOf(obs) = obs
        /\ \A o \in obs : PricesOf(obs)[o] = o.price
        /\ used \subseteq obs /\ used # {} /\ IsFiniteSet(used)
    BY <1>1, <1>4, SomeAreUsed
  <2>2. \A o \in used : Observed(o)
    BY <1>1, <2>1
  <2>3. estimate = Summary(used)
    BY <1>2, <1>4
  <2>4. EstimateWithinBounds
    <3>1. /\ Summary(used).low <= Summary(used).expected
          /\ Summary(used).expected <= Summary(used).high
          /\ Summary(used).low <= Summary(used).median
          /\ Summary(used).median <= Summary(used).high
      BY <2>1, <2>2, SummariesAreBounded
    <3> QED
      BY <2>3, <3>1 DEF EstimateWithinBounds
  <2>5. ASSUME NEW odd \in obs, NEW others, others = {o.price : o \in obs \ {odd}},
               Cardinality(obs) >= 4, Cardinality(others) = 1, odd.price \notin others
        PROVE  estimate.expected \in others
    <3>1. IsFiniteSet(others)
      <4> DEFINE rest == obs \ {odd}
                 f == [o \in rest |-> o.price]
      <4>1. IsFiniteSet(rest)
        BY <1>1, FS_Subset
      <4>2. IsFiniteSet({f[o] : o \in rest})
        <5>1. DOMAIN f = rest
          OBVIOUS
        <5> HIDE DEF f, rest
        <5> QED
          BY <4>1, <5>1, ImagesAreFinite
      <4>3. others = {f[o] : o \in rest}
        BY <2>5
      <4> QED
        BY <4>2, <4>3
    <3>2. PICK v : others = {v}
      BY <2>5, <3>1, FS_Singleton
    <3>3. \A o \in obs \ {odd} : o.price = v
      BY <2>5, <3>2
    <3>4. v \in Nat /\ odd.price # v
      <4>1. \E o \in obs \ {odd} : o.price = v
        BY <2>5, <3>2
      <4> QED
        BY <1>1, <2>5, <3>2, <4>1 DEF Observed
    <3>5. Alone(PricesOf(obs), odd, v)
      BY <2>1, <3>3, <3>4 DEF Alone
    <3>6. odd \notin used
      <4>1. Count(PricesOf(obs)) >= 4
        BY <2>1, <2>5 DEF Count
      <4> QED
        BY <2>1, <3>5, <4>1, FencesLeaveItOut DEF Used
    <3>7. \A o \in used : Observed(o) /\ v <= o.price /\ o.price <= v
      BY <2>1, <2>2, <3>3, <3>4, <3>6
    <3>8. Expected(used) \in Int /\ v <= Expected(used) /\ Expected(used) <= v
      BY <2>1, <3>4, <3>7, ValuesAreWithin
    <3>9. Expected(used) = v
      BY <3>4, <3>8
    <3>10. estimate.expected = Expected(used)
      BY <2>3 DEF Summary
    <3> QED
      BY <3>2, <3>9, <3>10
  <2>6. OneOutlierIsHarmless
    BY <2>5 DEF OneOutlierIsHarmless
  <2> QED
    BY <2>4, <2>6 DEF EstimateIsSound
<1> QED
  BY <1>3, <1>4

\* What is stored stays in the range of the data.
LEMMA StoredStays ==
    ASSUME Stored(market), ValueNext
    PROVE  Stored(market') /\ estimate' = EstimateFairValue(market')
<1>1. ASSUME NEW s \in Shops, NEW b \in Batches, Refresh(s, b)
      PROVE  Stored(market') /\ estimate' = EstimateFairValue(market')
  <2>1. Built(Build(b))
    BY BatchesAreBuilt
  <2> PICK e : e = [built |-> Build(b), row |-> NoRow]
    OBVIOUS
  <2>2. OfMarket(e)
    BY <2>1 DEF OfMarket
  <2>3. market' = [market EXCEPT ![s] = e] /\ estimate' = EstimateFairValue(market')
    BY <1>1 DEF Refresh
  <2> QED
    BY <2>2, <2>3 DEF Stored
<1>2. ASSUME NEW s \in Shops, NEW r \in Submissions, Submit(s, r)
      PROVE  Stored(market') /\ estimate' = EstimateFairValue(market')
  <2> PICK e : e = [market[s] EXCEPT !.row = r]
    OBVIOUS
  <2>1. OfMarket(market[s])
    BY DEF Stored
  <2>2. DOMAIN e = {"built", "row"} /\ e.built = market[s].built /\ e.row = r
    BY <2>1 DEF OfMarket
  <2>3. OfMarket(e)
    BY <2>1, <2>2 DEF OfMarket
  <2>4. market' = [market EXCEPT ![s] = e] /\ estimate' = EstimateFairValue(market')
    BY <1>2 DEF Submit
  <2> QED
    BY <2>3, <2>4 DEF Stored
<1>3. ASSUME NEW s \in Shops, Expire(s)
      PROVE  Stored(market') /\ estimate' = EstimateFairValue(market')
  <2> PICK e : e = IF market[s].built = NoRow THEN [market[s] EXCEPT !.row = NoRow]
                   ELSE [market[s] EXCEPT !.built = NoRow]
    OBVIOUS
  <2>1. OfMarket(market[s])
    BY DEF Stored
  <2>2. /\ DOMAIN e = {"built", "row"}
        /\ e.built \in {NoRow, market[s].built} /\ e.row \in {NoRow, market[s].row}
    BY <2>1 DEF OfMarket
  <2>3. OfMarket(e)
    BY <2>1, <2>2 DEF OfMarket
  <2>4. market' = [market EXCEPT ![s] = e] /\ estimate' = EstimateFairValue(market')
    BY <1>3 DEF Expire
  <2> QED
    BY <2>3, <2>4 DEF Stored
<1>4. Bricklink \in Shops /\ Ebay \in Shops
  BY DEF Shops
<1> QED
  BY <1>1, <1>2, <1>3, <1>4 DEF ValueNext

\* The value and the median lie within the bounds of the estimate, and one observation that
\* disagrees with all others, of four and more, has no part in the value.
THEOREM EstimatesAreAlwaysSound == ValueSpec => []EstimateIsSound
<1>1. ValueInit => ValueInv
  <2> SUFFICES ASSUME ValueInit PROVE ValueInv
    OBVIOUS
  <2>1. DOMAIN market = Shops /\ \A s \in Shops : market[s] = [built |-> NoRow, row |-> NoRow]
    BY DEF ValueInit
  <2>2. Stored(market)
    BY <2>1 DEF Stored, OfMarket
  <2> QED
    BY <2>2 DEF ValueInit, ValueInv
<1>2. ValueInv /\ [ValueNext]_valueVars => ValueInv'
  <2>1. CASE UNCHANGED valueVars
    BY <2>1 DEF ValueInv, valueVars, Stored, EstimateFairValue, Observations, Groups
  <2>2. CASE ValueNext
    BY <2>2, StoredStays DEF ValueInv
  <2> QED
    BY <2>1, <2>2
<1> QED
  BY <1>1, <1>2, EstimatesAreSound, PTL DEF ValueSpec
=============================================================================
