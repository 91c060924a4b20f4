------------------------- MODULE ListingWatchProofs -------------------------
(***************************************************************************)
(* What the components that MCListingWatch checks promise, for any values  *)
(* of their constants: AlertedOnce of ListingWatch, NoticesAreKept and     *)
(* ChangesAreShown of WatchEntries, SavedSearchesHold, DealsAreTimely of   *)
(* DealCache and ImagesSurvive of CatalogHydration.  The components share  *)
(* no variable, and each has its invariant and its part of the module.     *)
(***************************************************************************)
EXTENDS ListingWatch, WatchEntries, SavedSearches, DealCache, CatalogHydration,
    TLAPS, FiniteSetTheorems, WellFoundedInduction

-----------------------------------------------------------------------------
(* ListingWatch.  Observations are recorded out of the order of their times, *)
(* but one after the other, and each job compares the two that are the       *)
(* newest when it records its own.  Whichever of two observations is         *)
(* recorded second is recorded with the other in sight; and what a job       *)
(* leaves out has been told with the same content.                           *)

\* The alerts a refresh inserts when it writes its observation.
Told(r) ==
    IF r \in Manuals THEN {}
    ELSE {a \in {Alert(t, Neighbours(r)[1], Neighbours(r)[2]) :
                     t \in Changes(Neighbours(r)[1], Neighbours(r)[2])} : IsNew(a)}

\* Times are given once: to one observation or one refresh under way.
TimesInv ==
    /\ \A o \in obs : o.at < ticket
    /\ \A o, p \in obs : o.at = p.at => o = p
    /\ \A r \in Refreshes : pc[r] # "idle" =>
           /\ mine[r].at < ticket
           /\ \A o \in obs : o.at # mine[r].at
           /\ \A q \in Refreshes \ {r} : pc[q] # "idle" => mine[q].at # mine[r].at

\* The refresh that has written is alone, and has raised what it has to tell.
WrittenInv(r) ==
    /\ pc[r] = "written" => \A q \in Refreshes \ {r} : pc[q] # "written"
    /\ raised[r] = IF pc[r] = "written" THEN Told(r) ELSE {}
    /\ pc[r] # "idle" => mine[r].manual = (r \in Manuals)

\* The two newest observations of several.
Latest(seen) == Newest(seen)
Second(seen) == Newest(seen \ {Newest(seen)})

\* NewestIsAlerted at any time, also while a refresh is under way.
NewestIsTold ==
    obs \ {Latest(obs)} # {} /\ ~Latest(obs).manual /\ ~Second(obs).manual =>
        \A t \in Changes(Second(obs), Latest(obs)) :
            \E a \in alerts :
                a.type = t /\ a.payload[2] = Payload(t, Second(obs), Latest(obs))[2]

Inv ==
    /\ TypeOK
    /\ IsFiniteSet(obs) /\ obs # {}
    /\ TimesInv
    /\ \A r \in Refreshes : WrittenInv(r)
    /\ AlertsAreTrue
    /\ NoAlertTwice
    /\ NewestIsTold

-----------------------------------------------------------------------------
(* The newest of some observations. *)

\* Times are bounded, so some observations have a newest one.
LEMMA NewestExists ==
    ASSUME NEW S, S \subseteq Observations, S # {}
    PROVE  Newest(S) \in S /\ \A p \in S : p.at <= Newest(S).at
<1> DEFINE Left == {MaxObs - o.at : o \in S}
<1>1. \A o \in S : o.at \in 0..MaxObs
  BY DEF Observations
<1>2. Left \subseteq Nat /\ Left # {}
  BY <1>1, BoundsAreNatural
<1>3. PICK m \in Left : \A n \in Left : <<n, m>> \notin OpToRel(<, Nat)
  BY <1>2, NatLessThanWellFounded, WFMin
<1>4. \A n \in Left : ~(n < m)
  BY <1>2, <1>3 DEF OpToRel
<1>5. PICK o \in S : m = MaxObs - o.at
  OBVIOUS
<1>6. \A p \in S : p.at <= o.at
  <2> SUFFICES ASSUME NEW p \in S PROVE p.at <= o.at
    OBVIOUS
  <2>1. ~(MaxObs - p.at < m)
    BY <1>4
  <2> QED
    BY <1>1, <1>5, <2>1, BoundsAreNatural
<1> HIDE DEF Left
<1> QED
  BY <1>6 DEF Newest

\* Times are given once, so there is no other.
LEMMA NewestIs ==
    ASSUME NEW S, S \subseteq Observations, NEW o \in S, \A p \in S : p.at <= o.at,
           \A p, q \in S : p.at = q.at => p = q
    PROVE  Newest(S) = o
<1>1. Newest(S) \in S /\ o.at <= Newest(S).at /\ Newest(S).at <= o.at
  BY NewestExists
<1>2. Newest(S).at \in Int /\ o.at \in Int
  BY <1>1 DEF Observations
<1> QED
  BY <1>1, <1>2

\* The two newest of several observations.
LEMMA TwoNewest ==
    ASSUME NEW S, S \subseteq Observations, \A p, q \in S : p.at = q.at => p = q,
           S # {}, S \ {Latest(S)} # {}
    PROVE  /\ Latest(S) \in S /\ Second(S) \in S \ {Latest(S)}
           /\ Second(S).at < Latest(S).at
           /\ \A p \in S : p.at <= Latest(S).at
           /\ \A p \in S \ {Latest(S)} : p.at <= Second(S).at
<1>1. Latest(S) \in S /\ \A p \in S : p.at <= Latest(S).at
  BY NewestExists DEF Latest
<1>2. /\ Second(S) \in S \ {Latest(S)}
      /\ \A p \in S \ {Latest(S)} : p.at <= Second(S).at
  BY NewestExists DEF Second, Latest
<1>3. Second(S).at \in Int /\ Latest(S).at \in Int
  BY <1>1, <1>2 DEF Observations
<1>4. Second(S).at # Latest(S).at
  BY <1>1, <1>2
<1> QED
  BY <1>1, <1>2, <1>3, <1>4

\* An observation that is not among the two newest does not change them.
LEMMA OlderIsIgnored ==
    ASSUME NEW S, NEW m, S \cup {m} \subseteq Observations, S # {},
           \A p, q \in S \cup {m} : p.at = q.at => p = q,
           S \cup {m} # {Latest(S \cup {m})},
           m # Latest(S \cup {m}), m # Second(S \cup {m})
    PROVE  /\ Latest(S) = Latest(S \cup {m}) /\ Second(S) = Second(S \cup {m})
           /\ S \ {Latest(S)} # {}
<1> DEFINE T == S \cup {m}
<1>1. T \ {Latest(T)} # {} /\ T # {}
  OBVIOUS
<1>2. /\ Latest(T) \in T /\ Second(T) \in T \ {Latest(T)}
      /\ \A p \in T : p.at <= Latest(T).at
      /\ \A p \in T \ {Latest(T)} : p.at <= Second(T).at
  BY <1>1, TwoNewest
<1>3. Latest(S) = Latest(T)
  BY <1>2, NewestIs DEF Latest
<1>4. Second(T) \in S \ {Latest(S)} /\ \A p \in S \ {Latest(S)} : p.at <= Second(T).at
  BY <1>2, <1>3
<1>5. Newest(S \ {Latest(S)}) = Second(T)
  <2> DEFINE R == S \ {Latest(S)}
  <2>1. R \subseteq Observations /\ \A p, q \in R : p.at = q.at => p = q
    OBVIOUS
  <2>2. Second(T) \in R /\ \A p \in R : p.at <= Second(T).at
    BY <1>4
  <2> HIDE DEF R
  <2>3. Newest(R) = Second(T)
    BY <2>1, <2>2, NewestIs
  <2> QED
    BY <2>3 DEF R
<1> QED
  BY <1>3, <1>4, <1>5 DEF Second, Latest

\* An alert on two observations has the type of one, and its event is the later.
LEMMA AlertTyped ==
    ASSUME NEW prev \in Observations, NEW cur \in Observations, prev.at < cur.at,
           NEW t \in Changes(prev, cur)
    PROVE  Alert(t, prev, cur) \in AlertRows
<1> DEFINE a == Alert(t, prev, cur)
<1>1. a = [type |-> t, payload |-> Payload(t, prev, cur), event |-> cur.at]
  BY DEF Alert
<1>2. t \in Types \ Unwanted
  BY DEF Changes, Types
<1>3. cur.at \in 1..MaxObs
  BY BoundsAreNatural DEF Observations
<1>4. Payload(t, prev, cur) \in ({0} \cup Prices) \X ({0, 1} \cup Prices)
  BY <1>2 DEF Payload, Observations, Types
<1> HIDE DEF a
<1> QED
  BY <1>1, <1>2, <1>3, <1>4 DEF AlertRows, a

-----------------------------------------------------------------------------
(* The steps. *)

\* What has been observed is in order.
LEMMA Observed ==
    ASSUME Inv
    PROVE  /\ obs \subseteq Observations
           /\ \A r \in Refreshes : mine[r] \in Observations
           /\ \A o \in obs : o.at \in 0..MaxObs
           /\ \A r \in Refreshes : mine[r].at \in 0..MaxObs
BY DEF Inv, TypeOK, Observations

\* Initially there is one observation, and no alert.
LEMMA InitInv == Init => Inv
<1> SUFFICES ASSUME Init PROVE Inv
  OBVIOUS
<1>1. PICK p \in Prices, t \in {0} \cup Prices :
          /\ offer = [price |-> p, state |-> "active"]
          /\ row = [price |-> p, status |-> "active", seen |-> 0]
          /\ target = t
          /\ obs = {[at |-> 1, price |-> p, status |-> "active",
                     target |-> t, manual |-> FALSE]}
  BY DEF Init
<1> DEFINE o == [at |-> 1, price |-> p, status |-> "active",
                 target |-> t, manual |-> FALSE]
<1>2. o \in Observations /\ o.at = 1 /\ obs = {o} /\ NoObs \in Observations
  <2>1. NoObs \in Observations
    BY BoundsAreNatural DEF NoObs, Observations, Statuses
  <2>2. o \in Observations
    BY BoundsAreNatural DEF Observations, Statuses
  <2> QED
    BY <1>1, <2>1, <2>2
<1>3. /\ day = 0 /\ alerts = {} /\ ticket = 2 /\ events = 0
      /\ pc = [r \in Refreshes |-> "idle"] /\ mine = [r \in Refreshes |-> NoObs]
      /\ stale = [r \in Refreshes |-> FALSE] /\ raised = [r \in Refreshes |-> {}]
  BY DEF Init
<1> HIDE DEF o
<1>4. TypeOK
  <2>1. offer \in [price : Prices, state : {"active", "ended", "gone"}]
    BY <1>1
  <2>2. row \in [price : Prices, status : Statuses, seen : 0..MaxDay]
    BY <1>1, BoundsAreNatural DEF Statuses
  <2>3. stale \in [Refreshes -> BOOLEAN]
    BY <1>3
  <2>4. 2 \in 1..(MaxObs + 1) /\ 0 \in 0..MaxDay /\ 0 \in 0..MaxEvents
    BY BoundsAreNatural
  <2> QED
    BY <1>1, <1>2, <1>3, <2>1, <2>2, <2>3, <2>4 DEF TypeOK
<1>5. IsFiniteSet(obs) /\ obs # {}
  BY <1>2, FS_Singleton
<1>6. TimesInv
  BY <1>2, <1>3 DEF TimesInv
<1>7. \A r \in Refreshes : WrittenInv(r)
  BY <1>3 DEF WrittenInv
<1>8. Latest(obs) = o
  BY <1>2, NewestExists DEF Latest
<1> QED
  BY <1>2, <1>3, <1>4, <1>5, <1>6, <1>7, <1>8
  DEF Inv, AlertsAreTrue, NoAlertTwice, NewestIsTold

\* What a refresh has to tell depends on what has been observed and told.
LEMMA ToldKept ==
    ASSUME NEW r, UNCHANGED <<obs, alerts>>, mine'[r] = mine[r]
    PROVE  Told(r)' = Told(r)
<1>1. Neighbours(r)' = Neighbours(r)
  BY DEF Neighbours
<1>2. \A a : IsNew(a)' = IsNew(a)
  BY DEF IsNew
<1> QED
  BY <1>1, <1>2 DEF Told

\* The invariant depends on nothing else.
LEMMA QuietInv ==
    ASSUME Inv, TypeOK', UNCHANGED <<obs, alerts, pc, mine, raised>>, ticket' = ticket
    PROVE  Inv'
<1>1. ASSUME NEW r \in Refreshes PROVE WrittenInv(r)'
  <2>1. Told(r)' = Told(r)
    BY ToldKept
  <2> QED
    BY <2>1 DEF Inv, WrittenInv
<1>2. TimesInv'
  BY DEF Inv, TimesInv
<1>3. AlertsAreTrue' /\ NoAlertTwice' /\ NewestIsTold'
  BY DEF Inv, AlertsAreTrue, Before, NoAlertTwice, NewestIsTold
<1> QED
  BY <1>1, <1>2, <1>3 DEF Inv

\* The provider and the user.
LEMMA OutsideInv ==
    ASSUME Inv, Offer \/ Day \/ Evaluate \/ Analyze \/ SetTarget
    PROVE  Inv'
<1> USE DEF refreshes
<1>1. CASE Offer
  <2>1. offer' \in [price : Prices, state : {"active", "ended", "gone"}]
    BY <1>1 DEF Offer, Inv, TypeOK
  <2>2. events' \in 0..MaxEvents
    BY <1>1, BoundsAreNatural DEF Offer, Event, Inv, TypeOK
  <2>3. TypeOK'
    BY <1>1, <2>1, <2>2 DEF Offer, Inv, TypeOK
  <2> QED
    BY <1>1, <2>3, QuietInv DEF Offer
<1>2. CASE Day
  <2>1. day' \in 0..MaxDay
    BY <1>2, BoundsAreNatural DEF Day, Inv, TypeOK
  <2>2. TypeOK'
    BY <1>2, <2>1 DEF Day, Inv, TypeOK
  <2> QED
    BY <1>2, <2>2, QuietInv DEF Day
<1>3. CASE Evaluate
  <2>1. row' \in [price : Prices, status : Statuses, seen : 0..MaxDay]
    <3>1. offer.price \in Prices /\ offer.state \in {"active", "ended", "gone"}
      BY DEF Inv, TypeOK
    <3>2. CASE offer.state # "gone"
               /\ row' = [price |-> offer.price, status |-> offer.state, seen |-> day]
      BY <3>1, <3>2 DEF Inv, TypeOK, Statuses, Gone
    <3>3. CASE row' = [row EXCEPT !.status = "removed", !.seen = day]
      BY <3>3 DEF Inv, TypeOK, Statuses, Gone
    <3>4. CASE \E p \in Prices : row' = [price |-> p, status |-> "active", seen |-> day]
      BY <3>4 DEF Inv, TypeOK, Statuses, Gone
    <3> QED
      BY <1>3, <3>2, <3>3, <3>4 DEF Evaluate
  <2>2. events' \in 0..MaxEvents
    BY <1>3, BoundsAreNatural DEF Evaluate, Event, Inv, TypeOK
  <2>3. TypeOK'
    BY <1>3, <2>1, <2>2 DEF Evaluate, Inv, TypeOK
  <2> QED
    BY <1>3, <2>3, QuietInv DEF Evaluate
<1>4. CASE Analyze
  <2>1. row' \in [price : Prices, status : Statuses, seen : 0..MaxDay]
    BY <1>4 DEF Analyze, Inv, TypeOK
  <2>2. events' \in 0..MaxEvents
    BY <1>4, BoundsAreNatural DEF Analyze, Event, Inv, TypeOK
  <2>3. TypeOK'
    BY <1>4, <2>1, <2>2 DEF Analyze, Inv, TypeOK
  <2> QED
    BY <1>4, <2>3, QuietInv DEF Analyze
<1>5. CASE SetTarget
  <2>1. target' \in {0} \cup Prices
    BY <1>5 DEF SetTarget
  <2>2. events' \in 0..MaxEvents
    BY <1>5, BoundsAreNatural DEF SetTarget, Event, Inv, TypeOK
  <2>3. TypeOK'
    BY <1>5, <2>1, <2>2 DEF SetTarget, Inv, TypeOK
  <2> QED
    BY <1>5, <2>3, QuietInv DEF SetTarget
<1> QED
  BY <1>1, <1>2, <1>3, <1>4, <1>5

\* A refresh takes a time that is new.
LEMMA ReadInv ==
    ASSUME Inv, NEW r \in Refreshes, Read(r)
    PROVE  Inv'
<1>1. /\ pc[r] = "idle" /\ ticket <= MaxObs /\ ticket' = ticket + 1
      /\ pc' = [pc EXCEPT ![r] = "read"]
      /\ UNCHANGED <<day, offer, row, target, obs, alerts, raised, events>>
  BY DEF Read
<1>2. PICK answers \in BOOLEAN :
          /\ stale' = [stale EXCEPT ![r] = answers /\ IsStale]
          /\ mine' = [mine EXCEPT ![r] =
                        [at |-> ticket, price |-> row.price,
                         status |-> IF answers /\ IsStale THEN "removed" ELSE row.status,
                         target |-> target, manual |-> r \in Manuals]]
  BY DEF Read
<1> DEFINE o == [at |-> ticket, price |-> row.price,
                 status |-> IF answers /\ IsStale THEN "removed" ELSE row.status,
                 target |-> target, manual |-> r \in Manuals]
<1>3. ticket \in 1..MaxObs /\ ticket' \in 1..(MaxObs + 1)
  BY <1>1, BoundsAreNatural DEF Inv, TypeOK
<1>4. o \in Observations
  <2>1. (r \in Manuals) \in BOOLEAN
    OBVIOUS
  <2>2. row.price \in Prices /\ row.status \in Statuses /\ target \in {0} \cup Prices
    BY DEF Inv, TypeOK
  <2>3. (IF answers /\ IsStale THEN "removed" ELSE row.status) \in Statuses
    BY <2>2 DEF Statuses, Gone
  <2> QED
    BY <1>3, <2>1, <2>2, <2>3 DEF Observations
<1>5. /\ o.at = ticket /\ o.manual = (r \in Manuals)
      /\ mine' = [mine EXCEPT ![r] = o]
  BY <1>2
<1> HIDE DEF o
<1>6. /\ pc'[r] = "read" /\ mine'[r] = o
      /\ \A q \in Refreshes \ {r} : pc'[q] = pc[q] /\ mine'[q] = mine[q]
  BY <1>1, <1>5 DEF Inv, TypeOK
<1>7. TypeOK'
  <2>1. (answers /\ IsStale) \in BOOLEAN
    BY Zenon
  <2>2. stale' \in [Refreshes -> BOOLEAN]
    BY <1>2, <2>1 DEF Inv, TypeOK
  <2>3. mine' \in [Refreshes -> Observations]
    BY <1>4, <1>5 DEF Inv, TypeOK
  <2>4. pc' \in [Refreshes -> {"idle", "read", "written"}]
    BY <1>1 DEF Inv, TypeOK
  <2> QED
    BY <1>1, <1>3, <2>2, <2>3, <2>4 DEF Inv, TypeOK
<1>8. TimesInv'
  <2>1. \A p \in obs : p.at < ticket /\ p.at \in Int
    BY Observed DEF Inv, TimesInv
  <2>2. \A q \in Refreshes : pc[q] # "idle" => mine[q].at < ticket /\ mine[q].at \in Int
    BY Observed DEF Inv, TimesInv
  <2>3. \A p \in obs' : p.at < ticket'
    BY <1>1, <1>3, <2>1
  <2>4. ASSUME NEW q \in Refreshes, pc'[q] # "idle"
        PROVE  /\ mine'[q].at < ticket' /\ \A p \in obs' : p.at # mine'[q].at
    <3>1. CASE q = r
      BY <1>1, <1>3, <1>5, <1>6, <2>1, <3>1
    <3>2. CASE q # r
      BY <1>1, <1>3, <1>6, <2>2, <2>4, <3>2 DEF Inv, TimesInv
    <3> QED
      BY <3>1, <3>2
  <2>5. ASSUME NEW q \in Refreshes, NEW p \in Refreshes \ {q}, pc'[q] # "idle", pc'[p] # "idle"
        PROVE  mine'[p].at # mine'[q].at
    <3>1. CASE q # r /\ p # r
      BY <1>6, <2>5, <3>1 DEF Inv, TimesInv
    <3>2. CASE q = r \/ p = r
      BY <1>3, <1>5, <1>6, <2>2, <2>5, <3>2
    <3> QED
      BY <3>1, <3>2
  <2> QED
    BY <1>1, <2>3, <2>4, <2>5 DEF Inv, TimesInv
<1>9. ASSUME NEW q \in Refreshes PROVE WrittenInv(q)'
  <2>1. CASE q = r
    BY <1>1, <1>5, <1>6, <2>1 DEF Inv, WrittenInv
  <2>2. CASE q # r
    <3>1. Told(q)' = Told(q)
      BY <1>1, <1>6, <2>2, ToldKept
    <3> QED
      BY <1>1, <1>6, <2>2, <3>1 DEF Inv, WrittenInv
  <2> QED
    BY <2>1, <2>2
<1> QED
  BY <1>1, <1>7, <1>8, <1>9
  DEF Inv, AlertsAreTrue, Before, NoAlertTwice, NewestIsTold

\* What a job has to tell is of two observations it sees, the newest ones.
LEMMA NeighboursOrdered ==
    ASSUME Inv, NEW r \in Refreshes, pc[r] # "idle"
    PROVE  LET T == obs \cup {mine[r]}
           IN  /\ T \subseteq Observations /\ T # {} /\ T \ {Latest(T)} # {}
               /\ \A p, q \in T : p.at = q.at => p = q
               /\ Neighbours(r) = <<Second(T), Latest(T)>>
               /\ Latest(T) \in T /\ Second(T) \in T /\ Second(T).at < Latest(T).at
<1> DEFINE T == obs \cup {mine[r]}
<1>1. T \subseteq Observations /\ T # {}
  BY Observed
<1>2. \A p, q \in T : p.at = q.at => p = q
  BY DEF Inv, TimesInv
<1>3. T \ {Latest(T)} # {}
  <2>1. PICK p \in obs : TRUE
    BY DEF Inv
  <2>2. p # mine[r]
    BY <2>1 DEF Inv, TimesInv
  <2> QED
    BY <2>1, <2>2
<1>4. Neighbours(r) = <<Second(T), Latest(T)>>
  BY DEF Neighbours, Second, Latest
<1> HIDE DEF T
<1>5. Latest(T) \in T /\ Second(T) \in T /\ Second(T).at < Latest(T).at
  BY <1>1, <1>2, <1>3, TwoNewest
<1> QED
  BY <1>1, <1>2, <1>3, <1>4, <1>5 DEF T

\* Its alerts are true of them, are alerts, and are told by no other.
LEMMA ToldIsTrue ==
    ASSUME Inv, NEW r \in Refreshes, pc[r] # "idle", NEW a \in Told(r)
    PROVE  /\ a \in AlertRows /\ IsNew(a)
           /\ a = Alert(a.type, Neighbours(r)[1], Neighbours(r)[2])
           /\ a.type \in Changes(Neighbours(r)[1], Neighbours(r)[2])
           /\ a.event = Neighbours(r)[2].at
<1> DEFINE prev == Neighbours(r)[1]
           cur == Neighbours(r)[2]
<1>1. prev \in Observations /\ cur \in Observations /\ prev.at < cur.at
  <2> DEFINE T == obs \cup {mine[r]}
  <2>1. /\ T \subseteq Observations /\ Neighbours(r) = <<Second(T), Latest(T)>>
        /\ Latest(T) \in T /\ Second(T) \in T /\ Second(T).at < Latest(T).at
    BY NeighboursOrdered
  <2> HIDE DEF T
  <2> QED
    BY <2>1
<1> HIDE DEF prev, cur
<1>2. IsNew(a) /\ \E t \in Changes(prev, cur) : a = Alert(t, prev, cur)
  BY DEF Told, prev, cur
<1>3. PICK t \in Changes(prev, cur) : a = Alert(t, prev, cur)
  BY <1>2
<1>4. a.type = t /\ a.event = cur.at
  BY <1>3 DEF Alert
<1>5. a \in AlertRows
  BY <1>1, <1>3, AlertTyped
<1> QED
  BY <1>2, <1>3, <1>4, <1>5 DEF prev, cur

\* A refresh writes when no other has, and raises what it has to tell.
LEMMA WriteInv ==
    ASSUME Inv, NEW r \in Refreshes, Write(r)
    PROVE  Inv'
<1>1. /\ pc[r] = "read" /\ \A q \in Refreshes : pc[q] # "written"
      /\ pc' = [pc EXCEPT ![r] = "written"]
      /\ raised' = [raised EXCEPT ![r] = Told(r)]
      /\ UNCHANGED <<day, offer, row, target, obs, alerts, mine, stale, ticket, events>>
  BY DEF Write, Told
<1>2. /\ pc'[r] = "written"
      /\ \A q \in Refreshes \ {r} : pc'[q] = pc[q]
  BY <1>1 DEF Inv, TypeOK
<1>3. \A q \in Refreshes : raised'[q] = IF q = r THEN Told(r) ELSE {}
  BY <1>1 DEF Inv, WrittenInv, TypeOK
<1>4. TypeOK'
  <2>1. pc' \in [Refreshes -> {"idle", "read", "written"}]
    BY <1>1 DEF Inv, TypeOK
  <2>2. Told(r) \subseteq AlertRows
    BY <1>1, ToldIsTrue
  <2>3. raised' \in [Refreshes -> SUBSET AlertRows]
    BY <1>1, <2>2 DEF Inv, TypeOK
  <2> QED
    BY <1>1, <2>1, <2>3 DEF Inv, TypeOK
<1>5. TimesInv'
  BY <1>1, <1>2 DEF Inv, TimesInv
<1>6. ASSUME NEW q \in Refreshes PROVE WrittenInv(q)'
  <2>1. Told(q)' = Told(q)
    BY <1>1, ToldKept
  <2> QED
    BY <1>1, <1>2, <1>3, <2>1 DEF Inv, WrittenInv
<1> QED
  BY <1>1, <1>4, <1>5, <1>6
  DEF Inv, AlertsAreTrue, Before, NoAlertTwice, NewestIsTold

\* The end of a refresh leaves the others as they are.
LEMMA OverKept ==
    ASSUME Inv, NEW r \in Refreshes, Over(r)
    PROVE  /\ pc'[r] = "idle" /\ raised'[r] = {}
           /\ \A q \in Refreshes \ {r} :
                  pc'[q] = pc[q] /\ mine'[q] = mine[q] /\ raised'[q] = raised[q]
           /\ UNCHANGED <<day, offer, target, ticket>>
           /\ pc' \in [Refreshes -> {"idle", "read", "written"}]
           /\ mine' \in [Refreshes -> Observations]
           /\ stale' \in [Refreshes -> BOOLEAN]
           /\ raised' \in [Refreshes -> SUBSET AlertRows]
<1>1. NoObs \in Observations
  BY BoundsAreNatural DEF NoObs, Observations, Statuses
<1>2. raised'[r] = {} /\ \A q \in Refreshes \ {r} : raised'[q] = raised[q]
  BY DEF Over, Inv, WrittenInv, TypeOK
<1> QED
  BY <1>1, <1>2 DEF Over, Inv, TypeOK

\* A refresh that fails leaves nothing.
LEMMA AbortInv ==
    ASSUME Inv, NEW r \in Refreshes, Abort(r)
    PROVE  Inv'
<1>1. /\ Over(r) /\ UNCHANGED <<row, obs, alerts>> /\ events' \in 0..MaxEvents
  BY BoundsAreNatural DEF Abort, Event, Inv, TypeOK
<1>2. TypeOK'
  BY <1>1, OverKept DEF Inv, TypeOK
<1>3. TimesInv'
  <2>1. \A q \in Refreshes : pc'[q] # "idle" =>
            q # r /\ pc'[q] = pc[q] /\ mine'[q] = mine[q]
    BY <1>1, OverKept
  <2>2. ticket' = ticket
    BY <1>1, OverKept
  <2> QED
    BY <1>1, <2>1, <2>2 DEF Inv, TimesInv
<1>4. ASSUME NEW q \in Refreshes PROVE WrittenInv(q)'
  <2>1. CASE q = r
    BY <1>1, <2>1, OverKept DEF WrittenInv
  <2>2. CASE q # r
    <3>1. /\ pc'[q] = pc[q] /\ mine'[q] = mine[q] /\ raised'[q] = raised[q]
          /\ Told(q)' = Told(q)
      BY <1>1, <2>2, OverKept, ToldKept
    <3>2. pc'[q] = "written" => \A p \in Refreshes \ {q} : pc'[p] # "written"
      BY <1>1, <2>2, <3>1, OverKept DEF Inv, WrittenInv
    <3> QED
      BY <3>1, <3>2 DEF Inv, WrittenInv
  <2> QED
    BY <2>1, <2>2
<1> QED
  BY <1>1, <1>2, <1>3, <1>4
  DEF Inv, AlertsAreTrue, Before, NoAlertTwice, NewestIsTold

\* What a job has not to tell again has been told with the same content.
LEMMA KnownIsTold ==
    ASSUME Inv, NEW r \in Refreshes \ Manuals, pc[r] = "written",
           NEW t \in Changes(Neighbours(r)[1], Neighbours(r)[2])
    PROVE  \E a \in alerts \cup Told(r) :
               /\ a.type = t
               /\ a.payload[2] = Payload(t, Neighbours(r)[1], Neighbours(r)[2])[2]
<1> DEFINE prev == Neighbours(r)[1]
           cur == Neighbours(r)[2]
           change == Alert(t, prev, cur)
<1>1. change.type = t /\ change.payload = Payload(t, prev, cur) /\ change.event = cur.at
  BY DEF Alert
<1>2. CASE IsNew(change)
  <2>1. change \in Told(r)
    BY <1>2 DEF Told
  <2> QED
    BY <1>1, <2>1
<1>3. CASE ~IsNew(change)
  <2>1. PICK b \in alerts : b.type = t /\ (b.payload = change.payload \/ b.event = cur.at)
    BY <1>1, <1>3 DEF IsNew
  <2>2. CASE b.payload = change.payload
    BY <1>1, <2>1, <2>2
  <2>3. CASE b.event = cur.at
    <3>1. PICK c \in obs : \E p \in Before(c) :
              b.event = c.at /\ b.type \in Changes(p, c) /\ b = Alert(b.type, p, c)
      BY <2>1 DEF Inv, AlertsAreTrue
    <3>2. c = cur
      <4> DEFINE T == obs \cup {mine[r]}
      <4>1. /\ Neighbours(r) = <<Second(T), Latest(T)>> /\ Latest(T) \in T
            /\ \A x, y \in T : x.at = y.at => x = y
        BY NeighboursOrdered
      <4>2. cur = Latest(T) /\ c \in T
        BY <4>1
      <4> HIDE DEF T
      <4> QED
        BY <2>3, <3>1, <4>1, <4>2
    <3>3. PICK p \in Before(c) : b.payload = Payload(t, p, cur)
      BY <2>1, <3>1, <3>2 DEF Alert
    <3>4. Payload(t, p, cur)[2] = Payload(t, prev, cur)[2]
      BY DEF Payload
    <3> QED
      BY <2>1, <3>3, <3>4
  <2> QED
    BY <2>1, <2>2, <2>3
<1> QED
  BY <1>2, <1>3

\* The observation and its alerts are recorded together.
LEMMA CommitInv ==
    ASSUME Inv, NEW r \in Refreshes, Commit(r)
    PROVE  Inv'
<1> DEFINE T == obs \cup {mine[r]}
<1>1. /\ pc[r] = "written" /\ Over(r) /\ events' = events
      /\ obs' = T /\ alerts' = alerts \cup raised[r]
      /\ row' = IF stale[r] THEN [row EXCEPT !.status = "removed"] ELSE row
  BY DEF Commit
<1>2. /\ T \subseteq Observations /\ T # {} /\ T \ {Latest(T)} # {}
      /\ \A p, q \in T : p.at = q.at => p = q
      /\ Neighbours(r) = <<Second(T), Latest(T)>>
      /\ Latest(T) \in T /\ Second(T) \in T /\ Second(T).at < Latest(T).at
  BY <1>1, NeighboursOrdered
<1>3. raised[r] = Told(r)
  BY <1>1 DEF Inv, WrittenInv
<1> HIDE DEF T
<1>4. \A a \in Told(r) :
          /\ a \in AlertRows /\ IsNew(a)
          /\ a = Alert(a.type, Second(T), Latest(T))
          /\ a.type \in Changes(Second(T), Latest(T))
          /\ a.event = Latest(T).at
  BY <1>1, <1>2, ToldIsTrue
<1>5. TypeOK'
  <2>1. row' \in [price : Prices, status : Statuses, seen : 0..MaxDay]
    BY <1>1 DEF Inv, TypeOK, Statuses, Gone
  <2>2. alerts' \subseteq AlertRows
    BY <1>1, <1>3, <1>4 DEF Inv, TypeOK
  <2> QED
    BY <1>1, <1>2, <2>1, <2>2, OverKept DEF Inv, TypeOK
<1>6. IsFiniteSet(obs') /\ obs' # {}
  BY <1>1, <1>2, FS_AddElement DEF Inv, T
<1>7. TimesInv'
  <2>1. \A q \in Refreshes : pc'[q] # "idle" =>
            q # r /\ pc'[q] = pc[q] /\ mine'[q] = mine[q]
    BY <1>1, OverKept
  <2>2. ticket' = ticket
    BY <1>1, OverKept
  <2>3. /\ \A o \in T : o.at < ticket
        /\ \A q \in Refreshes \ {r} : pc[q] # "idle" => \A o \in T : o.at # mine[q].at
    BY <1>1 DEF Inv, TimesInv, T
  <2> QED
    BY <1>1, <1>2, <2>1, <2>2, <2>3 DEF Inv, TimesInv
<1>8. ASSUME NEW q \in Refreshes PROVE WrittenInv(q)'
  <2>1. CASE q = r
    BY <1>1, <2>1, OverKept DEF WrittenInv
  <2>2. CASE q # r
    <3>1. /\ pc[q] # "written" /\ pc'[q] = pc[q]
          /\ mine'[q] = mine[q] /\ raised'[q] = raised[q]
      BY <1>1, <2>2, OverKept DEF Inv, WrittenInv
    <3> QED
      BY <3>1 DEF Inv, WrittenInv
  <2> QED
    BY <2>1, <2>2
<1>9. AlertsAreTrue'
  <2> SUFFICES ASSUME NEW a \in alerts'
               PROVE  \E cur \in obs' : \E prev \in Before(cur)' :
                          /\ a.event = cur.at /\ a.type \in Changes(prev, cur)
                          /\ a = Alert(a.type, prev, cur)
    BY DEF AlertsAreTrue
  <2>1. CASE a \in alerts
    <3>1. PICK cur \in obs : \E prev \in Before(cur) :
              /\ a.event = cur.at /\ a.type \in Changes(prev, cur)
              /\ a = Alert(a.type, prev, cur)
      BY <2>1 DEF Inv, AlertsAreTrue
    <3>2. cur \in obs' /\ Before(cur) \subseteq Before(cur)'
      BY <1>1 DEF Before, T
    <3> QED
      BY <3>1, <3>2
  <2>2. CASE a \in Told(r)
    <3>1. PICK cur \in T, prev \in T : cur = Latest(T) /\ prev = Second(T)
      BY <1>2
    <3>2. cur \in obs' /\ prev \in Before(cur)'
      BY <1>1, <1>2, <3>1 DEF Before
    <3>3. /\ a.event = cur.at /\ a.type \in Changes(prev, cur)
          /\ a = Alert(a.type, prev, cur)
      BY <1>4, <2>2, <3>1
    <3> QED
      BY <3>2, <3>3
  <2> QED
    BY <1>1, <1>3, <2>1, <2>2
<1>10. NoAlertTwice'
  <2> SUFFICES ASSUME NEW a \in alerts', NEW b \in alerts',
                      a.type = b.type, a.payload = b.payload
               PROVE  a = b
    BY DEF NoAlertTwice
  <2>1. CASE a \in alerts /\ b \in alerts
    BY <2>1 DEF Inv, NoAlertTwice
  <2>2. CASE (a \in Told(r) /\ b \in alerts) \/ (a \in alerts /\ b \in Told(r))
    BY <1>4, <2>2 DEF IsNew
  <2>3. CASE a \in Told(r) /\ b \in Told(r)
    BY <1>4, <2>3
  <2> QED
    BY <1>1, <1>3, <2>1, <2>2, <2>3
<1>11. NewestIsTold'
  <2> SUFFICES ASSUME ~Latest(T).manual, ~Second(T).manual,
                      NEW t \in Changes(Second(T), Latest(T))
               PROVE  \E a \in alerts' : /\ a.type = t
                          /\ a.payload[2] = Payload(t, Second(T), Latest(T))[2]
    BY <1>1 DEF NewestIsTold
  <2>1. CASE r \notin Manuals
    BY <1>1, <1>2, <1>3, <2>1, KnownIsTold
  <2>2. CASE r \in Manuals
    <3>1. mine[r].manual = TRUE
      BY <1>1, <2>2 DEF Inv, WrittenInv
    <3>2. mine[r] # Latest(T) /\ mine[r] # Second(T)
      BY <3>1
    <3>3. /\ Latest(obs) = Latest(T) /\ Second(obs) = Second(T)
          /\ obs \ {Latest(obs)} # {}
      BY <1>2, <3>2, OlderIsIgnored DEF T, Inv
    <3> QED
      BY <1>1, <3>3 DEF Inv, NewestIsTold
  <2> QED
    BY <2>1, <2>2
<1> QED
  BY <1>5, <1>6, <1>7, <1>8, <1>9, <1>10, <1>11 DEF Inv

\* Inv is kept by every step.
LEMMA Invariance == Spec => []Inv
<1>1. ASSUME Inv, [Next]_vars PROVE Inv'
  <2>1. CASE Offer \/ Day \/ Evaluate \/ Analyze \/ SetTarget
    BY <1>1, <2>1, OutsideInv
  <2>2. CASE \E r \in Refreshes : Read(r)
    BY <1>1, <2>2, ReadInv
  <2>3. CASE \E r \in Refreshes : Write(r)
    BY <1>1, <2>3, WriteInv
  <2>4. CASE \E r \in Refreshes : Commit(r)
    BY <1>1, <2>4, CommitInv
  <2>5. CASE \E r \in Refreshes : Abort(r)
    BY <1>1, <2>5, AbortInv
  <2>6. CASE UNCHANGED vars
    <3>1. TypeOK'
      BY <1>1, <2>6 DEF vars, Inv, TypeOK
    <3> QED
      BY <1>1, <2>6, <3>1, QuietInv DEF vars
  <2> QED
    BY <1>1, <2>1, <2>2, <2>3, <2>4, <2>5, <2>6 DEF Next
<1> QED
  BY <1>1, InitInv, PTL DEF Spec

\* Every variable of the watched listing keeps its type.
THEOREM TypeCorrect == Spec => []TypeOK
<1>1. Inv => TypeOK
  BY DEF Inv
<1> QED
  BY <1>1, Invariance, PTL

\* Alerts are true, none is given twice, and what the two newest observations
\* show has been told, whatever the order in which refreshes record theirs.
THEOREM AlertsAreAlwaysRight == Spec => []AlertedOnce
<1>1. Inv => AlertedOnce
  <2> SUFFICES ASSUME Inv PROVE AlertedOnce
    OBVIOUS
  <2>1. Cardinality(obs) > 1 => obs \ {Newest(obs)} # {}
    <3>1. ASSUME obs = {Newest(obs)} PROVE Cardinality(obs) = 1
      BY <3>1, FS_Singleton
    <3> QED
      BY <3>1 DEF Inv
  <2>2. NewestIsAlerted
    BY <2>1 DEF Inv, NewestIsTold, NewestIsAlerted, Latest, Second
  <2> QED
    BY <2>2 DEF Inv, AlertedOnce
<1> QED
  BY <1>1, Invariance, PTL

-----------------------------------------------------------------------------
(* WatchEntries: the inbox. *)

\* Notifications in the order of their creation; what is read, or about to be,
\* is one for the inbox.
NoticeRows ==
    [about : Things \cup {NoThing}, shown : BOOLEAN, read : BOOLEAN, readAt : Nat]

InboxInv ==
    /\ notices \in Seq(NoticeRows)
    /\ inApp \in BOOLEAN /\ moment \in Nat
    /\ reading \in [Readers -> Nat]
    /\ \A n \in DOMAIN notices : notices[n].read => notices[n].shown
    /\ \A q \in Readers : reading[q] # 0 =>
           reading[q] \in DOMAIN notices /\ notices[reading[q]].shown

\* What NoticesAreKept says of one notification.
NoticeKept(n) ==
    /\ n \in DOMAIN notices'
    /\ \/ notices'[n].about = notices[n].about
       \/ notices'[n].about = NoThing /\ notices[n].about \notin DOMAIN entries'
    /\ notices[n].read => /\ notices'[n].read
                          /\ \/ notices'[n].readAt = notices[n].readAt
                             \/ \E q \in Readers : reading[q] = n /\ reading'[q] # n
    /\ notices'[n].read => notices'[n].shown

\* Initially the inbox is empty.
LEMMA InboxInit == WatchInit => InboxInv
<1> SUFFICES ASSUME WatchInit PROVE InboxInv
  OBVIOUS
<1>1. notices = << >> /\ DOMAIN notices = {} /\ notices \in Seq(NoticeRows)
  BY DEF WatchInit
<1>2. inApp = TRUE /\ moment = 1 /\ reading = [q \in Readers |-> 0]
  BY DEF WatchInit
<1> QED
  BY <1>1, <1>2 DEF InboxInv

\* What is not about the inbox keeps it.
LEMMA InboxQuiet ==
    ASSUME InboxInv, UNCHANGED <<notices, inApp>>, moment' \in Nat,
           reading' = reading \/ reading' = [q \in Readers |-> 0]
    PROVE  InboxInv' /\ \A n \in DOMAIN notices : NoticeKept(n)
BY DEF InboxInv, NoticeKept

\* A removed entry leaves its notifications without it.
LEMMA InboxRemoved ==
    ASSUME InboxInv, NEW t \in Things, Removed(t)
    PROVE  InboxInv' /\ \A n \in DOMAIN notices : NoticeKept(n)
<1>1. /\ notices' = [n \in DOMAIN notices |->
                       IF notices[n].about = t THEN [notices[n] EXCEPT !.about = NoThing]
                       ELSE notices[n]]
      /\ UNCHANGED <<inApp, reading, moment>>
  BY DEF Removed
<1>2. t \notin DOMAIN entries'
  BY DEF Removed, Restrict
<1>3. \A n \in DOMAIN notices : notices[n] \in NoticeRows
  BY DEF InboxInv
<1>4. ASSUME NEW n \in DOMAIN notices
      PROVE  /\ notices'[n] \in NoticeRows
             /\ notices'[n].read = notices[n].read /\ notices'[n].shown = notices[n].shown
             /\ notices'[n].readAt = notices[n].readAt
             /\ notices'[n].about = IF notices[n].about = t THEN NoThing ELSE notices[n].about
  BY <1>1, <1>3 DEF NoticeRows
<1>5. DOMAIN notices' = DOMAIN notices /\ notices' \in Seq(NoticeRows)
  <2>1. DOMAIN notices = 1..Len(notices) /\ Len(notices) \in Nat
    BY DEF InboxInv
  <2> QED
    BY <1>1, <1>4, <2>1
<1> QED
  BY <1>1, <1>2, <1>4, <1>5 DEF InboxInv, NoticeKept

\* A new notification is not read.
LEMMA InboxRaised ==
    ASSUME InboxInv, NEW t \in Things, Raise(t)
    PROVE  InboxInv' /\ \A n \in DOMAIN notices : NoticeKept(n)
<1> DEFINE notice == [about |-> t, shown |-> inApp, read |-> FALSE, readAt |-> 0]
<1>1. notices' = Append(notices, notice) /\ UNCHANGED <<inApp, reading, moment>>
  BY DEF Raise
<1>2. notice \in NoticeRows /\ ~notice.read
  BY DEF InboxInv, NoticeRows
<1> HIDE DEF notice
<1>3. /\ notices' \in Seq(NoticeRows) /\ Len(notices') = Len(notices) + 1
      /\ \A n \in 1..Len(notices) : notices'[n] = notices[n]
      /\ notices'[Len(notices) + 1] = notice
      /\ Len(notices) \in Nat /\ DOMAIN notices = 1..Len(notices)
      /\ DOMAIN notices' = 1..(Len(notices) + 1)
  BY <1>1, <1>2 DEF InboxInv
<1>4. \A n \in DOMAIN notices : NoticeKept(n)
  BY <1>3 DEF InboxInv, NoticeKept
<1> QED
  BY <1>1, <1>2, <1>3, <1>4 DEF InboxInv

\* Those for the inbox can be marked as read.
LEMMA InboxMarked ==
    ASSUME InboxInv, NEW ns, notices' = Marked(ns),
           \A n \in ns \cap DOMAIN notices : notices[n].shown,
           inApp' = inApp, moment' \in Nat,
           reading' \in [Readers -> Nat], \A q \in Readers : reading'[q] \in {0, reading[q]},
           \A n \in ns \cap DOMAIN notices : notices[n].read =>
               \E q \in Readers : reading[q] = n /\ reading'[q] # n
    PROVE  InboxInv' /\ \A n \in DOMAIN notices : NoticeKept(n)
<1>1. \A n \in DOMAIN notices : notices[n] \in NoticeRows
  BY DEF InboxInv
<1>2. ASSUME NEW n \in DOMAIN notices
      PROVE  /\ notices'[n] \in NoticeRows
             /\ notices'[n].about = notices[n].about /\ notices'[n].shown = notices[n].shown
             /\ n \in ns => notices'[n].read
             /\ n \notin ns => notices'[n] = notices[n]
  <2>1. notices'[n] = IF n \in ns THEN [notices[n] EXCEPT !.read = TRUE, !.readAt = moment]
                      ELSE notices[n]
    BY DEF Marked
  <2>2. notices[n] \in NoticeRows /\ moment \in Nat
    BY <1>1 DEF InboxInv
  <2>3. CASE n \in ns
    <3>1. notices'[n] = [about |-> notices[n].about, shown |-> notices[n].shown,
                         read |-> TRUE, readAt |-> moment]
      BY <2>1, <2>2, <2>3 DEF NoticeRows
    <3>2. /\ notices[n].about \in Things \cup {NoThing}
          /\ notices[n].shown \in BOOLEAN
      BY <2>2 DEF NoticeRows
    <3> QED
      BY <2>2, <2>3, <3>1, <3>2 DEF NoticeRows
  <2>4. CASE n \notin ns
    BY <2>1, <2>2, <2>4
  <2> QED
    BY <2>3, <2>4
<1>3. DOMAIN notices' = DOMAIN notices /\ notices' \in Seq(NoticeRows)
  <2>1. DOMAIN notices = 1..Len(notices) /\ Len(notices) \in Nat
    BY DEF InboxInv
  <2>2. /\ DOMAIN notices' = DOMAIN notices
        /\ notices' = [n \in DOMAIN notices |-> notices'[n]]
    BY DEF Marked
  <2> QED
    BY <1>2, <2>1, <2>2
<1>4. \A n \in DOMAIN notices : NoticeKept(n)
  BY <1>2, <1>3 DEF InboxInv, NoticeKept
<1> QED
  BY <1>2, <1>3, <1>4 DEF InboxInv

\* Every step of the entries and the inbox.
LEMMA InboxStep ==
    ASSUME InboxInv, [WatchNext]_watchVars
    PROVE  InboxInv' /\ \A n \in DOMAIN notices : NoticeKept(n)
<1> USE DEF inbox, checks, aside
<1>1. moment + 1 \in Nat /\ moment \in Nat
  BY DEF InboxInv
<1>2. CASE \E t \in Things : Watch(t)
  BY <1>1, <1>2, InboxQuiet DEF Watch, Draw
<1>3. CASE \E t \in Things : Unwatch(t) \/ Acquire(t)
  BY <1>3, InboxRemoved DEF Unwatch, Acquire
<1>4. CASE \E t \in Things : Raise(t)
  BY <1>4, InboxRaised
<1>5. CASE \E r \in Refreshers : BeginRefresh(r) \/ EndRefresh(r) \/ FailRefresh(r)
  BY <1>1, <1>5, InboxQuiet DEF BeginRefresh, EndRefresh, FailRefresh, Draw
<1>6. CASE Restart
  BY <1>1, <1>6, InboxQuiet DEF Restart
<1>7. CASE Capture \/ Pass
  BY <1>1, <1>7, InboxQuiet DEF Capture, Draw, Pass
<1>8. CASE \E l \in Listings : Trade(l)
  BY <1>1, <1>8, InboxQuiet DEF Trade
<1>9. CASE \E on \in BOOLEAN : Prefer(on)
  BY <1>9 DEF Prefer, InboxInv, NoticeKept
<1>10. CASE \E q \in Readers : Mark(q)
  <2>1. PICK q \in Readers : Mark(q)
    BY <1>10
  <2>2. /\ notices' = Marked({reading[q]}) /\ reading' = [reading EXCEPT ![q] = 0]
        /\ reading[q] # 0 /\ inApp' = inApp /\ moment' \in Nat
    BY <1>1, <2>1 DEF Mark, Draw
  <2>3. /\ reading' \in [Readers -> Nat] /\ reading'[q] = 0
        /\ \A p \in Readers : reading'[p] \in {0, reading[p]}
    BY <2>2 DEF InboxInv
  <2>4. reading[q] \in DOMAIN notices /\ notices[reading[q]].shown
    BY <2>2 DEF InboxInv
  <2> QED
    BY <2>2, <2>3, <2>4, InboxMarked
<1>11. CASE \E q \in Readers : \E n \in DOMAIN notices : Open(q, n)
  <2>1. PICK q \in Readers, n \in DOMAIN notices : Open(q, n)
    BY <1>11
  <2>2. /\ reading' = [reading EXCEPT ![q] = n] /\ UNCHANGED <<notices, inApp, moment>>
        /\ notices[n].shown /\ reading[q] = 0
    BY <2>1 DEF Open, Unread
  <2>3. n \in Nat
    BY DEF InboxInv
  <2>4. /\ reading' \in [Readers -> Nat]
        /\ \A p \in Readers : reading'[p] = IF p = q THEN n ELSE reading[p]
    BY <2>2, <2>3 DEF InboxInv
  <2> QED
    BY <2>2, <2>4 DEF InboxInv, NoticeKept
<1>12. CASE MarkAll
  <2>1. /\ notices' = Marked(Unread) /\ inApp' = inApp /\ reading' = reading /\ moment' \in Nat
    BY <1>1, <1>12 DEF MarkAll, Draw
  <2>2. \A n \in Unread : notices[n].shown /\ ~notices[n].read
    BY DEF Unread
  <2>3. reading' \in [Readers -> Nat] /\ \A p \in Readers : reading'[p] \in {0, reading[p]}
    BY <2>1 DEF InboxInv
  <2> QED
    BY <2>1, <2>2, <2>3, InboxMarked
<1>13. CASE UNCHANGED watchVars
  BY <1>1, <1>13, InboxQuiet DEF watchVars
<1> QED
  BY <1>2, <1>3, <1>4, <1>5, <1>6, <1>7, <1>8, <1>9, <1>10, <1>11, <1>12, <1>13 DEF WatchNext

\* No step loses a notification, makes it unread again, gives it another entry or
\* moment but as NoticesAreKept says, or marks one that is not for the inbox.
THEOREM NoticesAreAlwaysKept == WatchSpec => NoticesAreKept
<1>1. InboxInv /\ [WatchNext]_watchVars =>
          /\ InboxInv'
          /\ [\A n \in DOMAIN notices : NoticeKept(n)]_watchVars
  BY InboxStep
<1>2. WatchSpec => [][\A n \in DOMAIN notices : NoticeKept(n)]_watchVars
  BY <1>1, InboxInit, PTL DEF WatchSpec
<1> QED
  BY <1>2 DEF NoticesAreKept, NoticeKept

-----------------------------------------------------------------------------
(* WatchEntries: the history.  A check that no refresh overlaps is observed  *)
(* later than whatever is in the history of its entry, so its point comes    *)
(* first, and what it is compared with is the point of the check before.     *)

Stocks == [Listings -> [price : Int, status : {"active", "ended", "removed", "sold"}]]
HistoryPoints == [at : Int, price : Int]

\* Every variable the history depends on stays within its type.
EntriesTypeOK ==
    /\ goods \in Stocks
    /\ moment \in Int /\ DOMAIN refreshing = Refreshers
    /\ \A r \in Refreshers :
           refreshing[r].on =>
               /\ refreshing[r].at \in Int /\ refreshing[r].at < moment
               /\ \A t \in DOMAIN refreshing[r].seen : refreshing[r].seen[t] \in Stocks

\* What is known of an entry by the last check of it.
LastChecked(history, price, change) ==
    /\ history \in Seq(HistoryPoints) /\ Len(history) >= 1
    /\ price = history[1].price
    /\ change = IF Len(history) > 1 THEN price - history[2].price ELSE 0

\* All points of a history are older than a moment.
OlderThan(history, at) == \A i \in 1..Len(history) : history[i].at < at

EntryInv(t) ==
    /\ LastChecked(points[t], lastSeen[t], told[t])
    /\ OlderThan(points[t], moment)
    /\ \A r \in Refreshers : refreshing[r].on => OlderThan(points[t], refreshing[r].at)

EntriesInv ==
    /\ EntriesTypeOK
    /\ \A t \in Watched \ tangled : EntryInv(t)

-----------------------------------------------------------------------------
\* The moments of a history are numbers.
LEMMA PointTimes ==
    ASSUME NEW history \in Seq(HistoryPoints)
    PROVE  \A i \in 1..Len(history) : history[i].at \in Int
<1> SUFFICES ASSUME NEW i \in 1..Len(history) PROVE history[i].at \in Int
  OBVIOUS
<1>1. history[i] \in HistoryPoints
  OBVIOUS
<1> QED
  BY <1>1 DEF HistoryPoints

\* A point newer than its history comes first.
LEMMA NewerIsFirst ==
    ASSUME NEW history \in Seq(HistoryPoints), NEW point \in HistoryPoints,
           OlderThan(history, point.at)
    PROVE  Ordered(history, point) = <<point>> \o history
<1>1. {i \in DOMAIN history : history[i].at > point.at} = {}
  <2> SUFFICES ASSUME NEW i \in DOMAIN history, history[i].at > point.at PROVE FALSE
    OBVIOUS
  <2>1. i \in 1..Len(history) /\ history[i] \in HistoryPoints
    OBVIOUS
  <2> QED
    BY <2>1 DEF OlderThan, HistoryPoints
<1>2. Cardinality({i \in DOMAIN history : history[i].at > point.at}) = 0
  BY <1>1, FS_EmptySet
<1>3. SubSeq(history, 1, 0) = << >> /\ SubSeq(history, 1, Len(history)) = history
  OBVIOUS
<1>4. Ordered(history, point) =
          SubSeq(history, 1, 0) \o <<point>> \o SubSeq(history, 0 + 1, Len(history))
  BY <1>2, Zenon DEF Ordered
<1>5. 0 + 1 = 1 /\ << >> \o <<point>> = <<point>>
  OBVIOUS
<1> QED
  BY <1>3, <1>4, <1>5

\* What a check adds to the history of an entry.
LEMMA CheckedPoint ==
    ASSUME NEW history \in Seq(HistoryPoints), NEW at \in Int, NEW cost \in Int,
           OlderThan(history, at), NEW later \in Int, at < later
    PROVE  LET longer == Ordered(history, [at |-> at, price |-> cost])
           IN  /\ longer \in Seq(HistoryPoints) /\ Len(longer) = Len(history) + 1
               /\ longer[1].price = cost
               /\ Len(history) > 0 => longer[2] = history[1]
               /\ OlderThan(longer, later)
<1> DEFINE point == [at |-> at, price |-> cost]
           longer == <<point>> \o history
<1>1. point \in HistoryPoints /\ point.at = at /\ point.price = cost
  BY DEF HistoryPoints
<1>2. Ordered(history, point) = longer
  BY <1>1, NewerIsFirst
<1> HIDE DEF point
<1>3. longer \in Seq(HistoryPoints) /\ Len(longer) = Len(history) + 1 /\ longer[1] = point
  BY <1>1
<1>4. \A i \in 1..Len(history) : longer[i + 1] = history[i]
  BY <1>1
<1> HIDE DEF longer
<1>5. ASSUME NEW i \in 1..Len(longer) PROVE longer[i].at < later
  <2>1. CASE i = 1
    BY <1>1, <1>3, <2>1
  <2>2. CASE i # 1
    <3>1. i - 1 \in 1..Len(history) /\ (i - 1) + 1 = i
      BY <1>3, <2>2
    <3>2. longer[i] = history[i - 1]
      BY <1>4, <3>1
    <3>3. history[i - 1].at < at /\ history[i - 1] \in HistoryPoints
      BY <3>1 DEF OlderThan
    <3> QED
      BY <3>2, <3>3 DEF HistoryPoints
  <2> QED
    BY <2>1, <2>2
<1>6. Len(history) > 0 => longer[2] = history[1]
  BY <1>4
<1> QED
  BY <1>1, <1>2, <1>3, <1>5, <1>6 DEF OlderThan, point

\* A check of an entry that no refresh overlaps.
LEMMA CheckedEntry ==
    ASSUME NEW history \in Seq(HistoryPoints), NEW at \in Int, NEW cost \in Int,
           OlderThan(history, at), NEW later \in Int, at < later,
           NEW last, Len(history) > 0 => last = history[1].price
    PROVE  LET longer == Ordered(history, [at |-> at, price |-> cost])
           IN  /\ LastChecked(longer, cost, IF Len(history) > 0 THEN cost - last ELSE 0)
               /\ OlderThan(longer, later)
  BY CheckedPoint DEF LastChecked

\* The least price is a price.
LEMMA LeastCost == Min(Costs) \in Costs
<1>1. PICK m \in Costs : \A n \in Costs : <<n, m>> \notin OpToRel(<, Nat)
  <2>1. Costs \subseteq Nat /\ Costs # {}
    BY WatchConstants
  <2> QED
    BY <2>1, NatLessThanWellFounded, WFMin
<1>2. ASSUME NEW n \in Costs PROVE m <= n
  <2>1. m \in Nat /\ n \in Nat
    BY WatchConstants
  <2>2. ~(n < m)
    BY <1>1, <2>1 DEF OpToRel
  <2> QED
    BY <2>1, <2>2
<1> QED
  BY <1>2 DEF Min

\* What a listing costs is a number.
LEMMA CostIsNumber ==
    ASSUME NEW stock \in Stocks, NEW t
    PROVE  CostOf(stock, t) \in Int
  BY DEF CostOf, Stocks

\* Initially nothing is watched.
LEMMA EntriesInit == WatchInit => EntriesInv
<1> SUFFICES ASSUME WatchInit PROVE EntriesInv
  OBVIOUS
<1>1. goods \in Stocks
  <2>1. Min(Costs) \in Int
    BY LeastCost, WatchConstants
  <2> QED
    BY <2>1 DEF WatchInit, Stocks
<1>2. \A r \in Refreshers : ~refreshing[r].on
  BY DEF WatchInit, NotRefreshing
<1>3. Watched = {}
  BY DEF WatchInit, Watched
<1> QED
  BY <1>1, <1>2, <1>3 DEF WatchInit, EntriesInv, EntriesTypeOK

\* A step that checks nothing.
LEMMA NothingChecked ==
    ASSUME EntriesInv, goods' \in Stocks, moment' \in Int, moment <= moment',
           Watched' \subseteq Watched, \A t \in Watched' \ tangled' : t \notin tangled,
           \A t \in Watched' : UNCHANGED <<points[t], lastSeen[t], told[t]>>,
           DOMAIN refreshing' = Refreshers,
           \A r \in Refreshers :
               \/ UNCHANGED refreshing[r]
               \/ ~refreshing'[r].on
               \/ /\ refreshing'[r].at = moment /\ moment < moment'
                  /\ \A t \in DOMAIN refreshing'[r].seen : refreshing'[r].seen[t] \in Stocks
    PROVE  EntriesInv'
<1>1. EntriesTypeOK'
  BY DEF EntriesInv, EntriesTypeOK
<1>2. ASSUME NEW t \in Watched' \ tangled' PROVE EntryInv(t)'
  <2>1. t \in Watched \ tangled /\ EntryInv(t) /\ UNCHANGED <<points[t], lastSeen[t], told[t]>>
    BY DEF EntriesInv
  <2>2. \A i \in 1..Len(points[t]) : points[t][i].at \in Int
    BY <2>1, PointTimes DEF EntryInv, LastChecked
  <2>3. OlderThan(points'[t], moment')
    BY <2>1, <2>2 DEF EntryInv, OlderThan, EntriesInv, EntriesTypeOK
  <2> QED
    BY <2>1, <2>3 DEF EntryInv
<1> QED
  BY <1>1, <1>2 DEF EntriesInv

\* A step that checks some entries, at a moment no history has reached.
LEMMA SomeChecked ==
    ASSUME EntriesInv, NEW checked, NEW stock, NEW at \in Int, NEW others,
           Recorded(checked, stock, at, others),
           checked \subseteq DOMAIN entries', DOMAIN entries' \subseteq Watched \cup checked,
           \A t \in checked : stock[t] \in Stocks,
           \A t \in Watched \ tangled : others = {} => OlderThan(points[t], at),
           at < moment', UNCHANGED goods, moment' \in Int, moment <= moment',
           DOMAIN refreshing' = Refreshers,
           \A r \in Refreshers : refreshing'[r].on =>
               UNCHANGED refreshing[r] /\ r \in others
    PROVE  EntriesInv'
<1>1. EntriesTypeOK'
  BY DEF EntriesInv, EntriesTypeOK
<1>2. ASSUME NEW t \in Watched' \ tangled' PROVE EntryInv(t)'
  <2>0. t \in DOMAIN entries' /\ t \notin tangled'
    BY DEF Watched
  <2>1. CASE t \notin checked
    <3>1. t \in Watched \ tangled /\ UNCHANGED <<points[t], lastSeen[t], told[t]>>
      BY <2>0, <2>1 DEF Recorded
    <3>2. EntryInv(t)
      BY <3>1 DEF EntriesInv
    <3>3. \A i \in 1..Len(points[t]) : points[t][i].at \in Int
      BY <3>2, PointTimes DEF EntryInv, LastChecked
    <3>4. OlderThan(points'[t], moment')
      BY <3>1, <3>2, <3>3 DEF EntryInv, OlderThan, EntriesInv, EntriesTypeOK
    <3> QED
      BY <3>1, <3>2, <3>4 DEF EntryInv
  <2>2. CASE t \in checked
    <3> DEFINE history == IF t \in Watched THEN points[t] ELSE << >>
               cost == CostOf(stock[t], t)
    <3>1. others = {} /\ t \notin tangled
      BY <2>0, <2>2 DEF Recorded
    <3>2. /\ points'[t] = Ordered(history, [at |-> at, price |-> cost])
          /\ told'[t] = IF t \in Watched THEN cost - lastSeen[t] ELSE 0
          /\ lastSeen'[t] = cost
      BY <2>0, <2>2 DEF Recorded
    <3>3. cost \in Int
      BY <2>2, CostIsNumber
    <3>4. /\ history \in Seq(HistoryPoints) /\ OlderThan(history, at)
          /\ Len(history) > 0 <=> t \in Watched
          /\ Len(history) > 0 => lastSeen[t] = history[1].price
      BY <3>1 DEF EntriesInv, EntryInv, LastChecked, OlderThan
    <3> HIDE DEF history, cost
    <3>5. /\ LastChecked(points'[t], cost, IF Len(history) > 0 THEN cost - lastSeen[t] ELSE 0)
          /\ OlderThan(points'[t], moment')
      BY <3>2, <3>3, <3>4, CheckedEntry
    <3>6. \A r \in Refreshers : ~refreshing'[r].on
      BY <3>1
    <3> QED
      BY <3>2, <3>4, <3>5, <3>6 DEF EntryInv
  <2> QED
    BY <2>1, <2>2
<1> QED
  BY <1>1, <1>2 DEF EntriesInv

\* What is watched is checked when it is added.
LEMMA WatchKeeps ==
    ASSUME EntriesInv, NEW t \in Things, Watch(t)
    PROVE  EntriesInv'
<1>1. moment \in Int /\ moment' = moment + 1 /\ goods \in Stocks
  BY DEF Watch, Draw, EntriesInv, EntriesTypeOK
<1>2. DOMAIN entries' = Watched \cup {t}
  BY DEF Watch
<1>3. Recorded({t}, [s \in {t} |-> goods], moment, Underway)
  BY DEF Watch
<1>4. \A s \in {t} : [u \in {t} |-> goods][s] \in Stocks
  BY <1>1
<1>5. \A s \in Watched \ tangled : OlderThan(points[s], moment)
  BY DEF EntriesInv, EntryInv
<1>6. \A r \in Refreshers : refreshing'[r].on => UNCHANGED refreshing[r] /\ r \in Underway
  BY DEF Watch, Underway
<1>7. UNCHANGED goods /\ DOMAIN refreshing' = Refreshers
  BY DEF Watch, EntriesInv, EntriesTypeOK
<1> QED
  BY <1>1, <1>2, <1>3, <1>4, <1>5, <1>6, <1>7, SomeChecked

\* What is not watched any more is forgotten.
LEMMA RemovedKeeps ==
    ASSUME EntriesInv, NEW t \in Watched, Removed(t)
    PROVE  EntriesInv'
<1>1. /\ goods' \in Stocks /\ moment' \in Int /\ moment <= moment'
  BY DEF Removed, EntriesInv, EntriesTypeOK
<1>2. Watched' = Watched \ {t}
  BY DEF Removed, Restrict, Watched
<1>3. \A s \in Watched' : UNCHANGED <<points[s], lastSeen[s], told[s]>>
  BY <1>2 DEF Removed, Restrict
<1>4. \A s \in Watched' \ tangled' : s \notin tangled
  BY <1>2 DEF Removed
<1>5. DOMAIN refreshing' = Refreshers /\ \A r \in Refreshers : UNCHANGED refreshing[r]
  BY DEF Removed, EntriesInv, EntriesTypeOK
<1> QED
  BY <1>1, <1>2, <1>3, <1>4, <1>5, NothingChecked

\* A refresh begins at a moment no history has reached.
LEMMA BeginRefreshKeeps ==
    ASSUME EntriesInv, NEW r \in Refreshers, BeginRefresh(r)
    PROVE  EntriesInv'
<1>1. /\ goods' \in Stocks /\ moment \in Int /\ moment' = moment + 1
      /\ UNCHANGED <<entries, points, lastSeen, told, tangled>>
  BY DEF BeginRefresh, Draw, checks, EntriesInv, EntriesTypeOK
<1>2. refreshing' = [refreshing EXCEPT ![r] =
          [on |-> TRUE, from |-> hour, at |-> moment, seen |-> [t \in Watched |-> goods]]]
  BY DEF BeginRefresh
<1>3. ASSUME NEW q \in Refreshers
      PROVE  \/ UNCHANGED refreshing[q]
             \/ ~refreshing'[q].on
             \/ /\ refreshing'[q].at = moment /\ moment < moment'
                /\ \A t \in DOMAIN refreshing'[q].seen : refreshing'[q].seen[t] \in Stocks
  <2>1. CASE q = r /\ r \in DOMAIN refreshing
    <3>1. /\ refreshing'[q].at = moment
          /\ refreshing'[q].seen = [t \in Watched |-> goods]
      BY <1>2, <2>1
    <3> QED
      BY <1>1, <3>1 DEF EntriesInv, EntriesTypeOK
  <2>2. CASE q # r \/ r \notin DOMAIN refreshing
    BY <1>2, <2>2
  <2> QED
    BY <2>1, <2>2
<1>4. Watched' = Watched /\ DOMAIN refreshing' = Refreshers
  BY <1>1, <1>2 DEF Watched, EntriesInv, EntriesTypeOK
<1> QED
  BY <1>1, <1>3, <1>4, NothingChecked

\* A refresh that ends checks what is watched, as it was when it began.
LEMMA EndRefreshKeeps ==
    ASSUME EntriesInv, NEW r \in Refreshers, EndRefresh(r)
    PROVE  EntriesInv'
<1> DEFINE seen == refreshing[r].seen
           stock == [t \in Watched |-> IF t \in DOMAIN seen THEN seen[t] ELSE goods]
           at == refreshing[r].at
           others == Underway \ {r}
<1>1. /\ refreshing[r].on /\ DOMAIN entries' = Watched
      /\ Recorded(Watched, stock, at, others)
      /\ UNCHANGED <<goods, moment>>
  BY DEF EndRefresh
<1>2. /\ at \in Int /\ at < moment /\ moment \in Int /\ goods \in Stocks
      /\ \A t \in DOMAIN seen : seen[t] \in Stocks
  BY <1>1 DEF EntriesInv, EntriesTypeOK
<1>3. \A t \in Watched : stock[t] \in Stocks
  BY <1>2
<1>4. \A t \in Watched \ tangled : OlderThan(points[t], at)
  BY <1>1 DEF EntriesInv, EntryInv
<1>5. ASSUME NEW q \in Refreshers, refreshing'[q].on
      PROVE  UNCHANGED refreshing[q] /\ q \in others
  <2>1. refreshing' = [refreshing EXCEPT ![r] = NotRefreshing] /\ ~NotRefreshing.on
    BY DEF EndRefresh, NotRefreshing
  <2>2. CASE q # r
    BY <1>5, <2>1, <2>2 DEF Underway
  <2>3. CASE q = r
    BY <1>5, <2>1, <2>3 DEF EntriesInv, EntriesTypeOK
  <2> QED
    BY <2>2, <2>3
<1>6. DOMAIN refreshing' = Refreshers
  BY DEF EndRefresh, EntriesInv, EntriesTypeOK
<1> HIDE DEF stock, at, others
<1> QED
  BY <1>1, <1>2, <1>3, <1>4, <1>5, <1>6, SomeChecked

\* A job checks all entries.
LEMMA CaptureKeeps ==
    ASSUME EntriesInv, Capture
    PROVE  EntriesInv'
<1> DEFINE stock == [t \in Watched |-> goods]
<1>1. /\ moment \in Int /\ moment' = moment + 1 /\ goods \in Stocks
      /\ DOMAIN entries' = Watched /\ UNCHANGED <<goods, refreshing>>
      /\ Recorded(Watched, stock, moment, Underway)
  BY DEF Capture, Draw, EntriesInv, EntriesTypeOK
<1>2. \A t \in Watched : stock[t] \in Stocks
  BY <1>1
<1>3. \A t \in Watched \ tangled : OlderThan(points[t], moment)
  BY DEF EntriesInv, EntryInv
<1>4. /\ DOMAIN refreshing' = Refreshers
      /\ \A r \in Refreshers : refreshing'[r].on => UNCHANGED refreshing[r] /\ r \in Underway
  BY <1>1 DEF Underway, EntriesInv, EntriesTypeOK
<1> HIDE DEF stock
<1> QED
  BY <1>1, <1>2, <1>3, <1>4, SomeChecked

\* Time, trade and the inbox check nothing, and a refresh that fails has not.
LEMMA OutsideKeeps ==
    ASSUME EntriesInv, UNCHANGED <<entries, points, lastSeen, told, tangled>>,
           goods' \in Stocks, moment' \in Int, moment <= moment',
           DOMAIN refreshing' = Refreshers,
           \A r \in Refreshers : UNCHANGED refreshing[r] \/ ~refreshing'[r].on
    PROVE  EntriesInv'
<1>1. Watched' = Watched
  BY DEF Watched
<1> QED
  BY <1>1, NothingChecked

\* Every step keeps the invariant.
LEMMA EntriesStep == EntriesInv /\ [WatchNext]_watchVars => EntriesInv'
<1> SUFFICES ASSUME EntriesInv, [WatchNext]_watchVars PROVE EntriesInv'
  OBVIOUS
<1>1. goods \in Stocks /\ moment \in Int /\ DOMAIN refreshing = Refreshers
  BY DEF EntriesInv, EntriesTypeOK
<1>2. CASE UNCHANGED watchVars
  BY <1>1, <1>2, OutsideKeeps DEF watchVars
<1>3. CASE \E t \in Things : Watch(t) \/ Unwatch(t) \/ Acquire(t)
  BY <1>3, WatchKeeps, RemovedKeeps DEF Unwatch, Acquire
<1>4. CASE \E r \in Refreshers : BeginRefresh(r) \/ EndRefresh(r)
  BY <1>4, BeginRefreshKeeps, EndRefreshKeeps
<1>5. CASE \E r \in Refreshers : FailRefresh(r)
  <2>1. PICK r \in Refreshers : FailRefresh(r)
    BY <1>5
  <2>2. /\ DOMAIN refreshing' = Refreshers
        /\ \A q \in Refreshers : UNCHANGED refreshing[q] \/ ~refreshing'[q].on
    BY <1>1, <2>1 DEF FailRefresh, NotRefreshing
  <2> QED
    BY <1>1, <2>1, <2>2, OutsideKeeps DEF FailRefresh, checks
<1>6. CASE Restart
  <2>1. /\ DOMAIN refreshing' = Refreshers
        /\ \A q \in Refreshers : ~refreshing'[q].on
    BY <1>6 DEF Restart, NotRefreshing
  <2> QED
    BY <1>1, <1>6, <2>1, OutsideKeeps DEF Restart, checks
<1>7. CASE Capture
  BY <1>7, CaptureKeeps
<1>8. CASE Pass
  BY <1>1, <1>8, OutsideKeeps DEF Pass, checks
<1>9. CASE \E l \in Listings : Trade(l)
  <2>1. PICK l \in Listings, p \in Costs, s \in {"active", "sold"} :
            goods' = [goods EXCEPT ![l] = [price |-> p, status |-> s]]
    BY <1>9 DEF Trade
  <2>2. p \in Int
    BY WatchConstants
  <2>3. goods' \in Stocks
    BY <1>1, <2>1, <2>2 DEF Stocks
  <2>4. UNCHANGED <<entries, points, lastSeen, told, tangled, refreshing, moment>>
    BY <1>9 DEF Trade, checks
  <2> QED
    BY <1>1, <2>3, <2>4, OutsideKeeps
<1>10. CASE \E t \in Things : Raise(t)
  BY <1>1, <1>10, OutsideKeeps DEF Raise, aside
<1>11. CASE \E on \in BOOLEAN : Prefer(on)
  BY <1>1, <1>11, OutsideKeeps DEF Prefer, aside
<1>12. CASE \E q \in Readers : Mark(q) \/ \E n \in DOMAIN notices : Open(q, n)
  BY <1>1, <1>12, OutsideKeeps DEF Mark, Open, Draw, aside
<1>13. CASE MarkAll
  BY <1>1, <1>13, OutsideKeeps DEF MarkAll, Draw, aside
<1> QED
  BY <1>2, <1>3, <1>4, <1>5, <1>6, <1>7, <1>8, <1>9, <1>10, <1>11, <1>12, <1>13 DEF WatchNext

\* The pages show what the last check found: by how much the price differed from the
\* check before it, or has changed since (_response of watchlist_service.py), for
\* entries whose checks no refresh overlaps.
THEOREM ChangesAreAlwaysShown == WatchSpec => []ChangesAreShown
<1>1. EntriesInv => ChangesAreShown
  <2> SUFFICES ASSUME EntriesInv, NEW t \in Watched \ tangled
               PROVE  PriceChange(t) =
                          IF CostOf(goods, t) = lastSeen[t] THEN told[t]
                          ELSE CostOf(goods, t) - lastSeen[t]
    BY DEF ChangesAreShown
  <2> DEFINE h == points[t]
             cost == CostOf(goods, t)
  <2>1. /\ h \in Seq(HistoryPoints) /\ Len(h) >= 1
        /\ lastSeen[t] = h[1].price
        /\ told[t] = IF Len(h) > 1 THEN lastSeen[t] - h[2].price ELSE 0
    BY DEF EntriesInv, EntryInv, LastChecked
  <2>2. cost \in Int
    BY CostIsNumber DEF EntriesInv, EntriesTypeOK
  <2>3. PriceChange(t) =
            IF Len(h) > 1 /\ h[1].price = cost THEN cost - h[2].price ELSE cost - h[1].price
    BY DEF PriceChange
  <2> HIDE DEF h, cost
  <2>4. CASE cost = lastSeen[t]
    <3>1. cost - cost = 0
      BY <2>2
    <3> QED
      BY <2>1, <2>3, <2>4, <3>1 DEF cost
  <2>5. CASE cost # lastSeen[t]
    BY <2>1, <2>3, <2>5 DEF cost
  <2> QED
    BY <2>4, <2>5
<1> QED
  BY <1>1, EntriesInit, EntriesStep, PTL DEF WatchSpec

-----------------------------------------------------------------------------
(* SavedSearches: the limit, and the edits that meet a run. *)

SearchRows == [filters : Filters, room : Int, results : {0, 1}]
RequestKinds == {"none", "create", "duplicate", "update", "run", "delete"}
RequestSteps == {"new", "found", "insert", "done", "refused", "failed"}

SavedOK ==
    /\ saved \in [SearchIds -> SearchRows \cup {Missing}]
    /\ client \in [Clients -> [kind : RequestKinds, pc : RequestSteps,
                               at : SearchIds \cup {Missing}]]
    /\ read \in [Clients -> SearchRows \cup {Missing}]
    /\ new \in [Clients -> SearchRows \cup {Missing}]
    /\ edit \in [SearchIds -> Filters \cup {Missing}]
    /\ crowd \in BOOLEAN

\* What a request has found, or is about to insert, is a row.
FoundInv(c) ==
    /\ client[c].pc = "found" => client[c].at \in SearchIds /\ read[c] \in SearchRows
    /\ client[c].pc = "insert" => new[c] \in SearchRows

\* Unless requests counted beside each other, one at most is about to insert,
\* and there is room for its search.
RoomInv ==
    ~crowd =>
        /\ Cardinality(Present) <= SavedLimit
        /\ \A c, d \in Inserting : c = d
        /\ Inserting # {} => Cardinality(Present) < SavedLimit

SavedInv ==
    /\ SavedOK
    /\ \A c \in Clients : FoundInv(c)
    /\ RoomInv
    /\ EditsSurviveRuns

\* The saved searches can be counted.
LEMMA PresentCounted ==
    ASSUME NEW S, S \subseteq SearchIds
    PROVE  IsFiniteSet(S) /\ Cardinality(S) \in Nat
BY SavedLimitIsNatural, FS_Subset, FS_CardinalityType

\* Only the columns a request has changed are written.
LEMMA MergedRow ==
    ASSUME NEW record \in SearchRows, NEW was \in SearchRows, NEW wanted \in SearchRows
    PROVE  /\ Merged(record, was, wanted) \in SearchRows
           /\ Merged(record, was, wanted).filters =
                  IF wanted.filters = was.filters THEN record.filters ELSE wanted.filters
<1> DEFINE m == Merged(record, was, wanted)
<1>1. DOMAIN record = {"filters", "room", "results"}
  BY DEF SearchRows
<1>2. m = [filters |-> IF wanted.filters = was.filters THEN record.filters ELSE wanted.filters,
           room |-> IF wanted.room = was.room THEN record.room ELSE wanted.room,
           results |-> IF wanted.results = was.results THEN record.results ELSE wanted.results]
  BY <1>1 DEF Merged
<1>3. /\ record.filters \in Filters /\ record.room \in Int /\ record.results \in {0, 1}
      /\ wanted.filters \in Filters /\ wanted.room \in Int /\ wanted.results \in {0, 1}
  BY DEF SearchRows
<1> HIDE DEF m
<1> QED
  BY <1>2, <1>3 DEF SearchRows, m

\* Whatever is saved at first is within the limit.
LEMMA SavedInitInv == SavedInit => SavedInv
<1> SUFFICES ASSUME SavedInit PROVE SavedInv
  OBVIOUS
<1> USE DEF SavedInit
<1>1. saved \in [SearchIds -> SearchRows \cup {Missing}]
  <2>1. SavedRow \subseteq SearchRows
    BY SavedLimitIsNatural DEF SavedRow, SearchRows
  <2> QED
    BY <2>1
<1>2. edit \in [SearchIds -> Filters \cup {Missing}] /\ EditsSurviveRuns
  BY DEF EditsSurviveRuns, Present, SavedRow
<1>3. SavedOK
  <2>1. client \in [Clients -> [kind : RequestKinds, pc : RequestSteps,
                                at : SearchIds \cup {Missing}]]
    BY DEF RequestKinds, RequestSteps
  <2> QED
    BY <1>1, <1>2, <2>1 DEF SavedOK
<1>4. \A c \in Clients : client[c].pc = "new"
  OBVIOUS
<1> QED
  BY <1>2, <1>3, <1>4 DEF SavedInv, FoundInv, RoomInv, Inserting

\* A request that goes on leaves the others where they are.
LEMMA FinishTyped ==
    ASSUME SavedOK, NEW c \in Clients, NEW p \in RequestSteps \ {"found", "insert"}, Finish(c, p)
    PROVE  /\ client' \in [Clients -> [kind : RequestKinds, pc : RequestSteps,
                                       at : SearchIds \cup {Missing}]]
           /\ client'[c].pc = p
           /\ \A d \in Clients \ {c} : client'[d] = client[d]
           /\ Inserting' = Inserting \ {c}
<1>1. client' = [client EXCEPT ![c] = [client[c] EXCEPT !.pc = p]]
  BY DEF Finish
<1>2. [client[c] EXCEPT !.pc = p] \in
          [kind : RequestKinds, pc : RequestSteps, at : SearchIds \cup {Missing}]
  BY DEF SavedOK
<1>3. [client[c] EXCEPT !.pc = p].pc = p
  BY DEF SavedOK
<1>4. /\ client'[c].pc = p
      /\ \A d \in Clients \ {c} : client'[d] = client[d]
  BY <1>1, <1>3 DEF SavedOK
<1> QED
  BY <1>1, <1>2, <1>4 DEF SavedOK, Inserting

\* A request counts, and inserts if there is room.
LEMMA CountInv ==
    ASSUME SavedInv, NEW c \in Clients, NEW kind \in RequestKinds, NEW record \in SearchRows,
           Count(c, kind, record), UNCHANGED <<saved, read, edit>>
    PROVE  SavedInv'
<1> DEFINE j == [kind |-> kind, pc |-> IF Full THEN "refused" ELSE "insert", at |-> Missing]
<1>1. /\ client' = [client EXCEPT ![c] = j] /\ new' = [new EXCEPT ![c] = record]
      /\ crowd' = (crowd \/ Inserting \ {c} # {})
  BY DEF Count
<1>2. /\ j \in [kind : RequestKinds, pc : RequestSteps, at : SearchIds \cup {Missing}]
      /\ j.pc = IF Full THEN "refused" ELSE "insert"
  BY DEF RequestSteps
<1> HIDE DEF j
<1>3. /\ client'[c] = j /\ \A d \in Clients \ {c} : client'[d] = client[d]
      /\ new'[c] = record /\ \A d \in Clients \ {c} : new'[d] = new[d]
  BY <1>1 DEF SavedInv, SavedOK
<1>4. crowd' \in BOOLEAN
  BY <1>1
<1>5. SavedOK'
  BY <1>1, <1>2, <1>4 DEF SavedInv, SavedOK
<1>6. \A d \in Clients : FoundInv(d)'
  BY <1>2, <1>3 DEF SavedInv, FoundInv
<1>7. RoomInv'
  <2> SUFFICES ASSUME ~crowd'
               PROVE  RoomInv'
    BY DEF RoomInv
  <2>1. ~crowd /\ Inserting \ {c} = {}
    BY <1>1 DEF SavedInv, SavedOK
  <2>2. Present' = Present
    BY DEF Present
  <2>3. \A d \in Inserting' : d = c
    BY <1>3, <2>1 DEF Inserting
  <2>4. Inserting' # {} => ~Full
    BY <1>2, <1>3, <2>3 DEF Inserting
  <2>5. Cardinality(Present) \in Nat /\ SavedLimit \in Nat
    BY SavedLimitIsNatural, PresentCounted DEF Present
  <2> QED
    BY <2>1, <2>2, <2>3, <2>4, <2>5 DEF RoomInv, SavedInv, Full
<1> QED
  BY <1>5, <1>6, <1>7 DEF SavedInv, EditsSurviveRuns, Present

\* Who creates or duplicates a search counts first, and finds the limit reached or room for one.
LEMMA CreateSavedInv ==
    ASSUME SavedInv, NEW c \in Clients, CreateSaved(c)
    PROVE  SavedInv'
<1>1. PICK f \in Filters, n \in Rooms :
          /\ Count(c, "create", [filters |-> f, room |-> n, results |-> 0])
          /\ UNCHANGED <<saved, read, edit>>
  BY DEF CreateSaved
<1>2. [filters |-> f, room |-> n, results |-> 0] \in SearchRows
  BY SavedLimitIsNatural DEF SearchRows
<1> QED
  BY <1>1, <1>2, CountInv DEF RequestKinds

\* A copy counts as a new search does.
LEMMA DuplicateSavedInv ==
    ASSUME SavedInv, NEW c \in Clients, DuplicateSaved(c)
    PROVE  SavedInv'
<1>1. read[c] \in SearchRows
  BY DEF DuplicateSaved, SavedInv, FoundInv
<1>2. [read[c] EXCEPT !.room = @ - 1, !.results = 0] \in SearchRows
  <2>1. [read[c] EXCEPT !.room = @ - 1] \in SearchRows
    BY <1>1 DEF SearchRows
  <2>2. \A record \in SearchRows : [record EXCEPT !.results = 0] \in SearchRows
    BY DEF SearchRows
  <2> QED
    BY <1>1, <2>1, <2>2 DEF SearchRows
<1> QED
  BY <1>2, CountInv DEF DuplicateSaved, RequestKinds

\* What a request finds is a row; the rest stays.
LEMMA OwnedSearchInv ==
    ASSUME SavedInv, NEW c \in Clients, NEW kind \in {"duplicate", "update", "run", "delete"},
           OwnedSearch(c, kind)
    PROVE  SavedInv'
<1>1. PICK i \in SearchIds :
          /\ read' = [read EXCEPT ![c] = saved[i]]
          /\ client' = [client EXCEPT ![c] =
                          [kind |-> kind, at |-> i,
                           pc |-> IF saved[i] = Missing THEN "refused" ELSE "found"]]
          /\ UNCHANGED <<saved, new, edit, crowd>>
  BY DEF OwnedSearch
<1> DEFINE j == [kind |-> kind, at |-> i,
                 pc |-> IF saved[i] = Missing THEN "refused" ELSE "found"]
<1>2. /\ j \in [kind : RequestKinds, pc : RequestSteps, at : SearchIds \cup {Missing}]
      /\ j.pc = IF saved[i] = Missing THEN "refused" ELSE "found"
      /\ j.at = i
  BY DEF RequestSteps, RequestKinds
<1>3. client' = [client EXCEPT ![c] = j]
  BY <1>1
<1> HIDE DEF j
<1>4. /\ client'[c] = j /\ \A d \in Clients \ {c} : client'[d] = client[d]
      /\ read'[c] = saved[i] /\ \A d \in Clients \ {c} : read'[d] = read[d]
  BY <1>1, <1>3 DEF SavedInv, SavedOK
<1>5. saved[i] \in SearchRows \cup {Missing}
  BY DEF SavedInv, SavedOK
<1>6. SavedOK'
  BY <1>1, <1>2, <1>3, <1>5 DEF SavedInv, SavedOK
<1>7. \A d \in Clients : FoundInv(d)'
  BY <1>1, <1>2, <1>4, <1>5 DEF SavedInv, FoundInv
<1>8. RoomInv'
  <2>1. Inserting' \subseteq Inserting /\ Present' = Present
    BY <1>1, <1>2, <1>4 DEF Inserting, Present
  <2> QED
    BY <1>1, <2>1 DEF SavedInv, RoomInv
<1> QED
  BY <1>1, <1>6, <1>7, <1>8 DEF SavedInv, EditsSurviveRuns, Present

\* The search that is inserted takes the room there was.
LEMMA InsertSavedInv ==
    ASSUME SavedInv, NEW c \in Clients, InsertSaved(c)
    PROVE  SavedInv'
<1>1. client[c].pc = "insert" /\ UNCHANGED <<read, new, crowd>>
  BY DEF InsertSaved
<1>2. new[c] \in SearchRows /\ c \in Inserting
  BY <1>1 DEF SavedInv, FoundInv, Inserting
<1>3. CASE new[c].room < 0 /\ Finish(c, "failed") /\ UNCHANGED <<saved, edit>>
  <2>1. /\ client' \in [Clients -> [kind : RequestKinds, pc : RequestSteps,
                                    at : SearchIds \cup {Missing}]]
        /\ client'[c].pc = "failed" /\ Inserting' = Inserting \ {c}
        /\ \A d \in Clients \ {c} : client'[d] = client[d]
    BY <1>3, FinishTyped DEF SavedInv, RequestSteps
  <2>2. SavedOK' /\ \A d \in Clients : FoundInv(d)'
    BY <1>1, <1>3, <2>1 DEF SavedInv, SavedOK, FoundInv
  <2>3. RoomInv' /\ EditsSurviveRuns'
    BY <1>1, <1>3, <2>1 DEF SavedInv, RoomInv, EditsSurviveRuns, Present
  <2> QED
    BY <2>2, <2>3 DEF SavedInv
<1>4. CASE /\ \E i \in SearchIds \ Present :
                 /\ saved' = [saved EXCEPT ![i] = new[c]]
                 /\ edit' = [edit EXCEPT ![i] = new[c].filters]
           /\ Finish(c, "done")
  <2>1. PICK i \in SearchIds \ Present :
            /\ saved' = [saved EXCEPT ![i] = new[c]]
            /\ edit' = [edit EXCEPT ![i] = new[c].filters]
    BY <1>4
  <2>2. /\ client' \in [Clients -> [kind : RequestKinds, pc : RequestSteps,
                                    at : SearchIds \cup {Missing}]]
        /\ client'[c].pc = "done" /\ Inserting' = Inserting \ {c}
        /\ \A d \in Clients \ {c} : client'[d] = client[d]
    BY <1>4, FinishTyped DEF SavedInv, RequestSteps
  <2>3. new[c].filters \in Filters
    BY <1>2 DEF SearchRows
  <2>4. SavedOK'
    BY <1>1, <1>2, <2>1, <2>2, <2>3 DEF SavedInv, SavedOK
  <2>5. \A d \in Clients : FoundInv(d)'
    BY <1>1, <2>2 DEF SavedInv, FoundInv
  <2>6. /\ saved'[i] = new[c] /\ edit'[i] = new[c].filters
        /\ \A k \in SearchIds \ {i} : saved'[k] = saved[k] /\ edit'[k] = edit[k]
    BY <2>1 DEF SavedInv, SavedOK
  <2>7. EditsSurviveRuns'
    BY <2>6 DEF SavedInv, EditsSurviveRuns, Present
  <2>8. RoomInv'
    <3> SUFFICES ASSUME ~crowd PROVE RoomInv'
      BY <1>1 DEF RoomInv
    <3>1. Inserting' = {} /\ Cardinality(Present) < SavedLimit
      BY <1>2, <2>2 DEF SavedInv, RoomInv
    <3>2. Present' \subseteq Present \cup {i}
      BY <2>6 DEF Present
    <3>3. /\ IsFiniteSet(Present) /\ Cardinality(Present) \in Nat
          /\ Cardinality(Present \cup {i}) = Cardinality(Present) + 1
      BY <2>1, PresentCounted, FS_AddElement DEF Present
    <3>4. /\ Cardinality(Present') <= Cardinality(Present \cup {i})
          /\ Cardinality(Present') \in Nat
      <4>1. IsFiniteSet(Present \cup {i}) /\ Present' \subseteq SearchIds
        BY <3>3, FS_AddElement DEF Present
      <4> QED
        BY <3>2, <4>1, FS_Subset, PresentCounted
    <3> QED
      BY <3>1, <3>3, <3>4, SavedLimitIsNatural DEF RoomInv
  <2> QED
    BY <2>4, <2>5, <2>7, <2>8 DEF SavedInv
<1> QED
  BY <1>3, <1>4 DEF InsertSaved

\* What an update or a run writes: a row, its filters those there were or those
\* the request changed them to.
LEMMA SaveRowKept ==
    ASSUME SavedInv, NEW c \in Clients, NEW wanted \in SearchRows, SaveRow(c, wanted)
    PROVE  LET i == client[c].at
           IN  /\ i \in SearchIds /\ read[c] \in SearchRows
               /\ saved' \in [SearchIds -> SearchRows \cup {Missing}]
               /\ UNCHANGED <<read, new, crowd>> /\ Inserting' = Inserting
               /\ \A k \in SearchIds : saved'[k] # Missing => saved[k] # Missing
               /\ \A k \in SearchIds \ {i} : saved'[k] = saved[k]
               /\ saved[i] = Missing => saved'[i] = Missing
               /\ saved'[i] # Missing => saved'[i].filters =
                      IF wanted.filters = read[c].filters THEN saved[i].filters
                      ELSE wanted.filters
               /\ client' \in [Clients -> [kind : RequestKinds, pc : RequestSteps,
                                           at : SearchIds \cup {Missing}]]
               /\ client'[c].pc \in {"done", "failed"}
               /\ \A d \in Clients \ {c} : client'[d] = client[d]
<1> DEFINE i == client[c].at
<1>1. client[c].pc = "found" /\ UNCHANGED <<read, new, crowd>>
  BY DEF SaveRow
<1>2. i \in SearchIds /\ read[c] \in SearchRows
  BY <1>1 DEF SavedInv, FoundInv
<1>3. c \notin Inserting
  BY <1>1 DEF Inserting
<1>4. /\ IF saved[i] = Missing THEN Finish(c, "failed") /\ UNCHANGED saved
         ELSE /\ saved' = [saved EXCEPT ![i] = Merged(saved[i], read[c], wanted)]
              /\ Finish(c, "done")
  BY DEF SaveRow
<1>5. /\ client' \in [Clients -> [kind : RequestKinds, pc : RequestSteps,
                                  at : SearchIds \cup {Missing}]]
      /\ client'[c].pc \in {"done", "failed"}
      /\ \A d \in Clients \ {c} : client'[d] = client[d]
      /\ Inserting' = Inserting
  BY <1>3, <1>4, FinishTyped DEF SavedInv, RequestSteps
<1> HIDE DEF i
<1>6. CASE saved[i] = Missing
  BY <1>1, <1>2, <1>4, <1>5, <1>6 DEF SavedInv, SavedOK, i
<1>7. CASE saved[i] # Missing
  <2>1. saved[i] \in SearchRows
    BY <1>2, <1>7 DEF SavedInv, SavedOK
  <2> DEFINE m == Merged(saved[i], read[c], wanted)
  <2>2. /\ m \in SearchRows
        /\ m.filters = IF wanted.filters = read[c].filters THEN saved[i].filters
                       ELSE wanted.filters
    BY <1>2, <2>1, MergedRow
  <2>3. saved' = [saved EXCEPT ![i] = m]
    BY <1>4, <1>7
  <2> HIDE DEF m
  <2>4. saved'[i] = m /\ \A k \in SearchIds \ {i} : saved'[k] = saved[k]
    BY <1>2, <2>3 DEF SavedInv, SavedOK
  <2>5. saved' \in [SearchIds -> SearchRows \cup {Missing}]
    BY <2>2, <2>3 DEF SavedInv, SavedOK
  <2> QED
    BY <1>1, <1>2, <1>5, <1>7, <2>2, <2>4, <2>5 DEF i
<1> QED
  BY <1>6, <1>7

\* An update or a run keeps the invariant if the last edit is recorded as such.
LEMMA SavingInv ==
    ASSUME SavedInv, NEW c \in Clients, NEW wanted \in SearchRows, SaveRow(c, wanted),
           edit' \in [SearchIds -> Filters \cup {Missing}],
           \A k \in SearchIds \ {client[c].at} : edit'[k] = edit[k],
           saved'[client[c].at] # Missing => edit'[client[c].at] =
               IF wanted.filters = read[c].filters THEN edit[client[c].at]
               ELSE wanted.filters
    PROVE  SavedInv'
<1> DEFINE i == client[c].at
<1>1. /\ i \in SearchIds
      /\ saved' \in [SearchIds -> SearchRows \cup {Missing}]
      /\ UNCHANGED <<read, new, crowd>> /\ Inserting' = Inserting
      /\ \A k \in SearchIds : saved'[k] # Missing => saved[k] # Missing
      /\ \A k \in SearchIds \ {i} : saved'[k] = saved[k]
      /\ saved'[i] # Missing => saved'[i].filters =
             IF wanted.filters = read[c].filters THEN saved[i].filters ELSE wanted.filters
      /\ client' \in [Clients -> [kind : RequestKinds, pc : RequestSteps,
                                  at : SearchIds \cup {Missing}]]
      /\ client'[c].pc \in {"done", "failed"}
      /\ \A d \in Clients \ {c} : client'[d] = client[d]
  BY SaveRowKept
<1> HIDE DEF i
<1>2. SavedOK'
  BY <1>1 DEF SavedInv, SavedOK
<1>3. \A d \in Clients : FoundInv(d)'
  BY <1>1 DEF SavedInv, FoundInv
<1>4. EditsSurviveRuns'
  <2> SUFFICES ASSUME NEW k \in Present' PROVE saved'[k].filters = edit'[k]
    BY DEF EditsSurviveRuns
  <2>1. k \in SearchIds /\ saved'[k] # Missing /\ saved[k] # Missing
    BY <1>1 DEF Present
  <2>2. saved[k].filters = edit[k]
    BY <2>1 DEF SavedInv, EditsSurviveRuns, Present
  <2> QED
    BY <1>1, <2>1, <2>2 DEF i
<1>5. RoomInv'
  <2>1. Present' \subseteq Present /\ Present \subseteq SearchIds
    BY <1>1 DEF Present
  <2>2. /\ Cardinality(Present') <= Cardinality(Present)
        /\ Cardinality(Present') \in Nat /\ Cardinality(Present) \in Nat
    BY <2>1, PresentCounted, FS_Subset
  <2> QED
    BY <1>1, <2>2, SavedLimitIsNatural DEF SavedInv, RoomInv
<1> QED
  BY <1>2, <1>3, <1>4, <1>5 DEF SavedInv

\* An update writes the columns it changes over what is there by then.
LEMMA UpdateSavedInv ==
    ASSUME SavedInv, NEW c \in Clients, UpdateSaved(c)
    PROVE  SavedInv'
<1>1. PICK f \in Filters, n \in Rooms :
          /\ SaveRow(c, [read[c] EXCEPT !.filters = f, !.room = n])
          /\ edit' = IF f = read[c].filters \/ saved'[client[c].at] = Missing THEN edit
                     ELSE [edit EXCEPT ![client[c].at] = f]
  BY DEF UpdateSaved
<1>2. client[c].at \in SearchIds /\ read[c] \in SearchRows
  BY <1>1 DEF SaveRow, SavedInv, FoundInv
<1> DEFINE wanted == [read[c] EXCEPT !.filters = f, !.room = n]
<1>3. wanted \in SearchRows /\ wanted.filters = f
  <2>1. [read[c] EXCEPT !.filters = f] \in SearchRows /\ [read[c] EXCEPT !.filters = f].filters = f
    BY <1>2 DEF SearchRows
  <2>2. \A record \in SearchRows : /\ [record EXCEPT !.room = n] \in SearchRows
                                /\ [record EXCEPT !.room = n].filters = record.filters
    BY SavedLimitIsNatural DEF SearchRows
  <2>3. wanted = [[read[c] EXCEPT !.filters = f] EXCEPT !.room = n]
    OBVIOUS
  <2> QED
    BY <2>1, <2>2, <2>3
<1>4. SaveRow(c, wanted)
  BY <1>1
<1> HIDE DEF wanted
<1>5. edit' \in [SearchIds -> Filters \cup {Missing}]
  BY <1>1, <1>2 DEF SavedInv, SavedOK
<1>6. /\ \A k \in SearchIds \ {client[c].at} : edit'[k] = edit[k]
      /\ saved'[client[c].at] # Missing => edit'[client[c].at] =
             IF wanted.filters = read[c].filters THEN edit[client[c].at] ELSE wanted.filters
  BY <1>1, <1>2, <1>3 DEF SavedInv, SavedOK
<1> QED
  BY <1>3, <1>4, <1>5, <1>6, SavingInv

\* A run writes the filters it has read, which Merged leaves out.
LEMMA RunSavedInv ==
    ASSUME SavedInv, NEW c \in Clients, RunSaved(c)
    PROVE  SavedInv'
<1>1. PICK found \in 0..1 :
          SaveRow(c, [read[c] EXCEPT !.results = found]) /\ edit' = edit
  BY DEF RunSaved
<1>2. client[c].at \in SearchIds /\ read[c] \in SearchRows
  BY <1>1 DEF SaveRow, SavedInv, FoundInv
<1> DEFINE wanted == [read[c] EXCEPT !.results = found]
<1>3. wanted \in SearchRows /\ wanted.filters = read[c].filters
  BY <1>2 DEF SearchRows
<1>4. SaveRow(c, wanted)
  BY <1>1
<1> HIDE DEF wanted
<1> QED
  BY <1>1, <1>3, <1>4, SavingInv DEF SavedInv, SavedOK

\* A search that is deleted makes room.
LEMMA DeleteSavedInv ==
    ASSUME SavedInv, NEW c \in Clients, DeleteSaved(c)
    PROVE  SavedInv'
<1> DEFINE i == client[c].at
<1>1. /\ client[c].pc = "found" /\ UNCHANGED <<read, new, crowd>>
      /\ saved' = [saved EXCEPT ![i] = Missing]
      /\ edit' = [edit EXCEPT ![i] = Missing]
      /\ Finish(c, "done")
  BY DEF DeleteSaved
<1>2. i \in SearchIds /\ c \notin Inserting
  BY <1>1 DEF SavedInv, FoundInv, Inserting
<1>3. /\ client' \in [Clients -> [kind : RequestKinds, pc : RequestSteps,
                                  at : SearchIds \cup {Missing}]]
      /\ client'[c].pc = "done" /\ Inserting' = Inserting \ {c}
      /\ \A d \in Clients \ {c} : client'[d] = client[d]
  BY <1>1, FinishTyped DEF SavedInv, RequestSteps
<1> HIDE DEF i
<1>4. /\ saved'[i] = Missing
      /\ \A k \in SearchIds \ {i} : saved'[k] = saved[k] /\ edit'[k] = edit[k]
  BY <1>1, <1>2 DEF SavedInv, SavedOK
<1>5. SavedOK'
  BY <1>1, <1>3 DEF SavedInv, SavedOK
<1>6. \A d \in Clients : FoundInv(d)'
  BY <1>1, <1>3 DEF SavedInv, FoundInv
<1>7. EditsSurviveRuns'
  BY <1>4 DEF SavedInv, EditsSurviveRuns, Present
<1>8. RoomInv'
  <2>1. Present' \subseteq Present /\ Present \subseteq SearchIds
    BY <1>4 DEF Present
  <2>2. /\ Cardinality(Present') <= Cardinality(Present)
        /\ Cardinality(Present') \in Nat /\ Cardinality(Present) \in Nat
    BY <2>1, PresentCounted, FS_Subset
  <2> QED
    BY <1>1, <1>2, <1>3, <2>2, SavedLimitIsNatural DEF SavedInv, RoomInv
<1> QED
  BY <1>5, <1>6, <1>7, <1>8 DEF SavedInv

\* SavedInv is kept by every step.
LEMMA SavedInvariance == SavedSpec => []SavedInv
<1>1. ASSUME SavedInv, [SavedNext]_savedVars PROVE SavedInv'
  <2>1. CASE \E c \in Clients : CreateSaved(c) \/ DuplicateSaved(c) \/ InsertSaved(c)
    BY <1>1, <2>1, CreateSavedInv, DuplicateSavedInv, InsertSavedInv
  <2>2. CASE \E c \in Clients : \E kind \in {"duplicate", "update", "run", "delete"} :
                 OwnedSearch(c, kind)
    BY <1>1, <2>2, OwnedSearchInv
  <2>3. CASE \E c \in Clients : UpdateSaved(c) \/ RunSaved(c) \/ DeleteSaved(c)
    BY <1>1, <2>3, UpdateSavedInv, RunSavedInv, DeleteSavedInv
  <2>4. CASE UNCHANGED savedVars
    BY <1>1, <2>4 DEF savedVars, SavedInv, SavedOK, FoundInv, RoomInv, EditsSurviveRuns,
       Present, Inserting
  <2> QED
    BY <1>1, <2>1, <2>2, <2>3, <2>4 DEF SavedNext
<1> QED
  BY <1>1, SavedInitInv, PTL DEF SavedSpec

\* The limit is kept unless requests counted beside each other, and the filters of a
\* search are those the user gave it last, whatever runs and edits overlap.
THEOREM SavedSearchesAlwaysHold == SavedSpec => []SavedSearchesHold
<1>1. SavedInv => SavedSearchesHold
  <2> SUFFICES ASSUME SavedInv PROVE SavedSearchesHold
    OBVIOUS
  <2>1. Cardinality(Present) \in Nat /\ SavedLimit \in Nat
    BY SavedLimitIsNatural, PresentCounted DEF Present
  <2> QED
    BY <2>1 DEF SavedInv, RoomInv, SavedSearchesHold, SavedLimitHoldsAlone
<1> QED
  BY <1>1, SavedInvariance, PTL

-----------------------------------------------------------------------------
(* DealCache: what an answer knows, and who crawls beside whom. *)

\* Deals are a version for each of some sets.
Deals == UNION {[D -> Nat] : D \in SUBSET Sets}
SearchSteps == {"new", "throttle", "crawl", "read", "rank", "answered", "done"}

DealsOK ==
    /\ clock \in 0..MaxTime
    /\ stored \in [Sets -> Nat]
    /\ cache \in [Keys -> [at : Int, deals : Deals]]
    /\ refreshed \in [Sizes -> Int]
    /\ search \in [Searches -> [pc : SearchSteps, start : 0..MaxTime, todo : SUBSET Sets]]
    /\ own \in [Searches -> Deals] /\ got \in [Searches -> Deals]
    /\ stages \in [0..MaxTime -> [Sets -> Nat]]
    /\ crawls \in [Searches -> [known : SUBSET Searches, beside : SUBSET Searches]]

\* The deals d are no older than what was committed at any time before t.
Knows(past, d, t) == \A u \in 0..(t - 1) : \A s \in DOMAIN d : d[s] >= past[u][s]

\* Versions only grow, what was committed stays on record, and what a search
\* reads or finds in the cache knows all that was committed before its time.
VersionsInv ==
    /\ \A t \in 0..clock : \A s \in Sets : stages[t][s] <= stored[s]
    /\ \A k \in Keys : cache[k].at <= clock /\ Knows(stages, cache[k].deals, cache[k].at)
    /\ \A q \in Searches : search[q].start <= clock
    /\ \A q \in Searches : At(q, "rank") => Knows(stages, got[q], search[q].start)

\* Who crawls is on record, and of two crawls of one size that overlap each has the
\* other.  A crawl that is over is known to those that began after it, and the
\* throttle counts from it, or from a later one, unless it overlapped another.
CrawlsInv ==
    /\ \A q \in Searches :
           /\ search[q].pc \in {"new", "throttle"} => crawls[q].beside = {} /\ crawls[q].known = {}
           /\ At(q, "crawl") => q \in crawls[q].beside
           /\ \A p \in crawls[q].known : search[p].pc \notin {"new", "throttle", "crawl"}
    /\ \A n \in Sizes : \A q, r \in Crawling(n) : r \in crawls[q].beside
    /\ \A n \in Sizes : \A r \in Crawling(n) : \A p \in Crawled(n) :
           p \in crawls[r].known \/ r \in crawls[p].beside
    /\ \A n \in Sizes : \A p \in Crawled(n) :
           crawls[p].beside \subseteq {p} => refreshed[n] >= search[p].start

DealsInv ==
    /\ DealsOK
    /\ VersionsInv
    /\ CrawlsInv
    /\ DealsAreTimely

-----------------------------------------------------------------------------
\* What searches ask for is known by its size.
LEMMA Asked ==
    ASSUME NEW q \in Searches
    PROVE  Asks[q] \in Keys /\ Size(q) \in Sizes /\ Scope(Asks[q]) \subseteq Sets
BY DealConstants DEF Keys, Size, Scope

\* Deals have a version for each set they name.
LEMMA DealsAre ==
    ASSUME NEW d \in Deals
    PROVE  DOMAIN d \subseteq Sets /\ \A s \in DOMAIN d : d[s] \in Nat
BY DEF Deals

\* A filter leaves out deals and changes none.
LEMMA FilteredDeals ==
    ASSUME NEW d \in Deals, NEW name
    PROVE  /\ Filtered(d, name) \in Deals
           /\ DOMAIN Filtered(d, name) \subseteq DOMAIN d
           /\ \A s \in DOMAIN Filtered(d, name) : Filtered(d, name)[s] = d[s]
<1> DEFINE D == {s \in DOMAIN d : name \in {All, s}}
<1>1. D \in SUBSET Sets /\ \A s \in D : d[s] \in Nat
  BY DealsAre
<1>2. Filtered(d, name) = [s \in D |-> d[s]]
  BY DEF Filtered
<1> HIDE DEF D
<1>3. Filtered(d, name) \in [D -> Nat]
  BY <1>1, <1>2
<1>4. Filtered(d, name) \in Deals
  BY <1>1, <1>3 DEF Deals
<1> QED
  BY <1>2, <1>4 DEF D

\* A search sees at least what is committed.
LEMMA SeenGrows ==
    ASSUME DealsOK, NEW q \in Searches, NEW s \in Sets
    PROVE  SeenBy(q, s) \in Nat /\ SeenBy(q, s) >= stored[s]
<1>1. stored[s] \in Nat
  BY DEF DealsOK
<1>2. CASE s \in DOMAIN own[q]
  <2>1. own[q][s] \in Nat
    BY <1>2, DealsAre DEF DealsOK
  <2>2. \A a, b \in Nat : Max({a, b}) \in Nat /\ Max({a, b}) >= b
    BY DEF Max
  <2> QED
    BY <1>1, <1>2, <2>1, <2>2 DEF SeenBy
<1>3. CASE s \notin DOMAIN own[q]
  BY <1>1, <1>3 DEF SeenBy
<1> QED
  BY <1>2, <1>3

\* What was committed before is not changed by later commits.
LEMMA KnowsKept ==
    ASSUME NEW past, NEW later, NEW now \in Int, \A u \in 0..(now - 1) : later[u] = past[u],
           NEW d, NEW t \in Int, t <= now, Knows(past, d, t)
    PROVE  Knows(later, d, t)
BY DEF Knows

\* Who reads what is committed knows what was.
LEMMA ReadKnows ==
    ASSUME DealsOK, VersionsInv, NEW d \in Deals, NEW t \in Int, t <= clock,
           \A s \in DOMAIN d : d[s] >= stored[s]
    PROVE  Knows(stages, d, t)
<1> SUFFICES ASSUME NEW u \in 0..(t - 1), NEW s \in DOMAIN d
             PROVE  d[s] >= stages[u][s]
  BY DEF Knows
<1>1. s \in Sets /\ d[s] \in Nat /\ d[s] >= stored[s]
  BY DealsAre
<1>2. u \in 0..clock /\ u \in 0..MaxTime
  BY DealConstants DEF DealsOK
<1>3. stages[u][s] <= stored[s]
  BY <1>1, <1>2 DEF VersionsInv
<1>4. stages[u] \in [Sets -> Nat] /\ stored[s] \in Nat
  BY <1>1, <1>2 DEF DealsOK
<1> QED
  BY <1>1, <1>3, <1>4

\* An answer that knows all before its search is recent.
LEMMA KnownIsRecent ==
    ASSUME NEW past, NEW d, NEW t \in Int, t >= Ttl, Knows(past, d, t), NEW s \in DOMAIN d
    PROVE  d[s] >= past[t - Ttl][s]
<1>1. t - Ttl \in 0..(t - 1)
  BY DealConstants
<1> QED
  BY <1>1 DEF Knows

\* A search that goes on keeps its start and what it has to refresh.
LEMMA GotoTyped ==
    ASSUME DealsOK, NEW q \in Searches, NEW step \in SearchSteps, Goto(q, step)
    PROVE  /\ search' \in [Searches -> [pc : SearchSteps, start : 0..MaxTime, todo : SUBSET Sets]]
           /\ search'[q].pc = step /\ search'[q].start = search[q].start
           /\ search'[q].todo = search[q].todo
           /\ \A p \in Searches \ {q} : search'[p] = search[p]
<1>1. search' = [search EXCEPT ![q] = [search[q] EXCEPT !.pc = step]]
  BY DEF Goto
<1> DEFINE j == [search[q] EXCEPT !.pc = step]
<1>0. search[q] \in [pc : SearchSteps, start : 0..MaxTime, todo : SUBSET Sets]
  BY DEF DealsOK
<1>2. /\ j \in [pc : SearchSteps, start : 0..MaxTime, todo : SUBSET Sets]
      /\ j.pc = step /\ j.start = search[q].start /\ j.todo = search[q].todo
  BY <1>0
<1>3. search' = [search EXCEPT ![q] = j]
  BY <1>1
<1> HIDE DEF j
<1> QED
  BY <1>2, <1>3 DEF DealsOK

\* A search that looks at the clock keeps what it has to refresh.
LEMMA StartTyped ==
    ASSUME DealsOK, NEW q \in Searches, NEW step \in SearchSteps,
           search' = [search EXCEPT ![q] = [search[q] EXCEPT !.pc = step, !.start = clock]]
    PROVE  /\ search' \in [Searches -> [pc : SearchSteps, start : 0..MaxTime, todo : SUBSET Sets]]
           /\ search'[q].pc = step /\ search'[q].start = clock
           /\ \A p \in Searches \ {q} : search'[p] = search[p]
<1> DEFINE j == [search[q] EXCEPT !.pc = step, !.start = clock]
<1>0. clock \in 0..MaxTime /\ search[q] \in [pc : SearchSteps, start : 0..MaxTime, todo : SUBSET Sets]
  BY DEF DealsOK
<1>1. /\ j \in [pc : SearchSteps, start : 0..MaxTime, todo : SUBSET Sets]
      /\ j.pc = step /\ j.start = clock
  BY <1>0
<1>2. search' = [search EXCEPT ![q] = j]
  OBVIOUS
<1> HIDE DEF j
<1> QED
  BY <1>1, <1>2 DEF DealsOK

\* Nobody has asked, and the cache is empty.
LEMMA DealsInit == SearchInit => DealsInv
<1> SUFFICES ASSUME SearchInit PROVE DealsInv
  OBVIOUS
<1> USE DEF SearchInit
<1>1. Nothing \in Deals /\ DOMAIN Nothing = {}
  <2>1. Nothing \in [{} -> Nat] /\ {} \in SUBSET Sets
    BY DEF Nothing
  <2> QED
    BY <2>1 DEF Deals, Nothing
<1>2. /\ 0 \in 0..MaxTime /\ -Ttl \in Int /\ -Ttl <= 0 /\ Never \in Int
  BY DealConstants DEF Never
<1>3. DealsOK
  <2>1. cache \in [Keys -> [at : Int, deals : Deals]]
    BY <1>1, <1>2
  <2>2. search \in [Searches -> [pc : SearchSteps, start : 0..MaxTime, todo : SUBSET Sets]]
    BY <1>2 DEF SearchSteps
  <2>3. /\ stored \in [Sets -> Nat]
        /\ crawls \in [Searches -> [known : SUBSET Searches, beside : SUBSET Searches]]
    OBVIOUS
  <2>4. stages \in [0..MaxTime -> [Sets -> Nat]]
    BY <2>3
  <2> QED
    BY <1>1, <1>2, <2>1, <2>2, <2>3, <2>4 DEF DealsOK
<1>4. VersionsInv
  <2>1. \A k \in Keys : cache[k].at <= clock /\ Knows(stages, cache[k].deals, cache[k].at)
    BY <1>1, <1>2 DEF Knows
  <2>2. \A t \in 0..clock : \A s \in Sets : stages[t][s] <= stored[s]
    BY <1>2
  <2>3. \A q \in Searches : search[q].start <= clock /\ ~At(q, "rank")
    BY DEF At
  <2> QED
    BY <2>1, <2>2, <2>3 DEF VersionsInv
<1>5. CrawlsInv
  BY DEF CrawlsInv, Crawling, Crawled, At
<1>6. DealsAreTimely
  BY DEF DealsAreTimely, AnswersAreRecent, CrawlsAreSpaced
<1> QED
  BY <1>3, <1>4, <1>5, <1>6 DEF DealsInv

-----------------------------------------------------------------------------
(* Steps that begin or end no crawl. *)

\* A search that moves on and neither begins nor ends a crawl keeps what is said of crawls.
LEMMA CrawlsQuiet ==
    ASSUME DealsInv, NEW q \in Searches, UNCHANGED <<crawls, refreshed>>,
           \A p \in Searches \ {q} : search'[p].pc = search[p].pc
                                     /\ search'[p].start = search[p].start,
           search[q].pc # "new" => search'[q].start = search[q].start,
           (search[q].pc = "crawl") <=> (search'[q].pc = "crawl"),
           search'[q].pc \in {"new", "throttle"} => search[q].pc \in {"new", "throttle"}
    PROVE  CrawlsInv' /\ CrawlsAreSpaced'
<1>1. \A n \in Sizes : Crawling(n)' = Crawling(n) /\ Crawled(n)' = Crawled(n)
  BY DEF Crawling, Crawled, At, Size
<1>2. \A p \in Searches : \A r \in crawls[p].known \cup {p} :
          crawls[p].known # {} => r \in Searches /\ search'[r].start = search[r].start
  <2>1. \A p \in Searches : crawls[p].known \subseteq Searches
    BY DEF DealsInv, DealsOK
  <2> QED
    BY <2>1 DEF DealsInv, CrawlsInv
<1>3. CrawlsAreSpaced'
  BY <1>2 DEF DealsInv, DealsAreTimely, CrawlsAreSpaced
<1>4. \A n \in Sizes : \A p \in Crawled(n) :
          p \in Searches /\ search'[p].start = search[p].start
  BY DEF Crawled, DealsInv, CrawlsInv
<1>5. ASSUME NEW p \in Searches
      PROVE  /\ search'[p].pc \in {"new", "throttle"} =>
                    crawls[p].beside = {} /\ crawls[p].known = {}
             /\ At(p, "crawl")' => p \in crawls[p].beside
             /\ \A r \in crawls[p].known : search'[r].pc \notin {"new", "throttle", "crawl"}
  <2>1. crawls[p].known \subseteq Searches
    BY DEF DealsInv, DealsOK
  <2> QED
    BY <2>1 DEF DealsInv, CrawlsInv, At
<1> QED
  BY <1>1, <1>3, <1>4, <1>5 DEF DealsInv, CrawlsInv

\* A search whose deals and time are as they were answers as it did.
LEMMA AnswersKept ==
    ASSUME DealsInv, UNCHANGED stages, NEW q \in Searches,
           \A p \in Searches \ {q} : got'[p] = got[p] /\ search'[p].pc = search[p].pc
                                     /\ search'[p].start = search[p].start,
           search'[q].pc \in {"answered", "done"} /\ search'[q].start >= Ttl =>
               \A s \in DOMAIN got'[q] : got'[q][s] >= stages[search'[q].start - Ttl][s]
    PROVE  AnswersAreRecent'
BY DEF AnswersAreRecent, DealsInv, DealsAreTimely

\* An entry that is young enough is an answer.
LEMMA AskCachedInv ==
    ASSUME DealsInv, NEW q \in Searches, AskCached(q)
    PROVE  DealsInv'
<1> DEFINE k == Asks[q]
           d == Filtered(cache[k].deals, k[2])
<1>1. /\ search[q].pc = "new" /\ clock - cache[k].at < Ttl
      /\ search' = [search EXCEPT ![q] = [search[q] EXCEPT !.pc = "done", !.start = clock]]
      /\ got' = [got EXCEPT ![q] = d]
      /\ UNCHANGED <<clock, stored, cache, refreshed, own, stages, crawls>>
  BY DEF AskCached, At, Fresh
<1>2. k \in Keys
  BY Asked
<1>3. cache[k].at \in Int /\ cache[k].deals \in Deals
  BY <1>2 DEF DealsInv, DealsOK
<1>4. /\ d \in Deals /\ DOMAIN d \subseteq DOMAIN cache[k].deals
      /\ \A s \in DOMAIN d : d[s] = cache[k].deals[s]
  BY <1>3, FilteredDeals
<1> HIDE DEF d, k
<1>5. /\ search' \in [Searches -> [pc : SearchSteps, start : 0..MaxTime, todo : SUBSET Sets]]
      /\ search'[q].pc = "done" /\ search'[q].start = clock
      /\ \A p \in Searches \ {q} : search'[p] = search[p]
  BY <1>1, StartTyped DEF DealsInv, DealsOK, SearchSteps
<1>6. /\ search'[q].pc = "done" /\ search'[q].start = clock /\ got'[q] = d
      /\ \A p \in Searches \ {q} : search'[p] = search[p] /\ got'[p] = got[p]
  BY <1>1, <1>5 DEF DealsInv, DealsOK
<1>7. DealsOK'
  BY <1>1, <1>4, <1>5 DEF DealsInv, DealsOK
<1>8. VersionsInv'
  BY <1>1, <1>6, <1>7 DEF DealsInv, DealsOK, VersionsInv, At
<1>9. CrawlsInv' /\ CrawlsAreSpaced'
  BY <1>1, <1>6, CrawlsQuiet
<1>10. AnswersAreRecent'
  <2>1. ASSUME clock >= Ttl, NEW s \in DOMAIN d
        PROVE  d[s] >= stages[clock - Ttl][s]
    <3>1. Knows(stages, cache[k].deals, cache[k].at)
      BY <1>2 DEF DealsInv, VersionsInv
    <3>2. clock - Ttl \in 0..(cache[k].at - 1)
      BY <1>1, <1>3, <2>1, DealConstants DEF DealsInv, DealsOK
    <3> QED
      BY <1>4, <2>1, <3>1, <3>2 DEF Knows
  <2> QED
    BY <1>1, <1>6, <2>1, AnswersKept
<1> QED
  BY <1>7, <1>8, <1>9, <1>10 DEF DealsInv, DealsAreTimely

\* A search begins, with what it has to refresh.
LEMMA AskInv ==
    ASSUME DealsInv, NEW q \in Searches, AskStored(q) \/ AskRefresh(q)
    PROVE  DealsInv'
<1>1. /\ search[q].pc = "new"
      /\ UNCHANGED <<clock, stored, cache, refreshed, own, got, stages, crawls>>
  BY DEF AskStored, AskRefresh, At
<1>2. /\ search' \in [Searches -> [pc : SearchSteps, start : 0..MaxTime, todo : SUBSET Sets]]
      /\ search'[q].pc \in {"read", "throttle"} /\ search'[q].start = clock
      /\ \A p \in Searches \ {q} : search'[p] = search[p]
  <2>1. CASE AskStored(q)
    BY <2>1, StartTyped DEF AskStored, DealsInv, DealsOK, SearchSteps
  <2>2. CASE AskRefresh(q)
    <3> DEFINE j == [pc |-> "throttle", start |-> clock, todo |-> Scope(Asks[q])]
    <3>1. j \in [pc : SearchSteps, start : 0..MaxTime, todo : SUBSET Sets]
      BY Asked DEF DealsInv, DealsOK, SearchSteps
    <3>2. j.pc = "throttle" /\ j.start = clock /\ search' = [search EXCEPT ![q] = j]
      BY <2>2 DEF AskRefresh
    <3> HIDE DEF j
    <3> QED
      BY <3>1, <3>2 DEF DealsInv, DealsOK
  <2> QED
    BY <2>1, <2>2
<1>3. DealsOK'
  BY <1>1, <1>2 DEF DealsInv, DealsOK
<1>4. VersionsInv'
  <2>1. \A p \in Searches : /\ search'[p].start <= clock
                            /\ search'[p].pc = "rank" => search'[p] = search[p]
    BY <1>2 DEF DealsInv, DealsOK, VersionsInv
  <2> QED
    BY <1>1, <2>1 DEF DealsInv, VersionsInv, At
<1>5. CrawlsInv' /\ CrawlsAreSpaced'
  BY <1>1, <1>2, CrawlsQuiet
<1>6. AnswersAreRecent'
  BY <1>1, <1>2, AnswersKept
<1> QED
  BY <1>3, <1>4, <1>5, <1>6 DEF DealsInv, DealsAreTimely

\* One set more is refreshed, or not.
LEMMA RefreshSetInv ==
    ASSUME DealsInv, NEW q \in Searches, RefreshSet(q)
    PROVE  DealsInv'
<1>1. PICK s \in search[q].todo :
          /\ At(q, "crawl")
          /\ search' = [search EXCEPT ![q].todo = search[q].todo \ {s}]
          /\ \/ UNCHANGED own
             \/ own' = [own EXCEPT ![q] =
                           [x \in DOMAIN own[q] \cup {s} |->
                               IF x = s THEN SeenBy(q, s) + 1 ELSE own[q][x]]]
          /\ UNCHANGED <<clock, stored, cache, refreshed, got, stages, crawls>>
  BY DEF RefreshSet
<1>2. s \in Sets /\ own[q] \in Deals
  BY DEF DealsInv, DealsOK
<1>3. own' \in [Searches -> Deals]
  <2> DEFINE D == DOMAIN own[q] \cup {s}
             more == [x \in D |-> IF x = s THEN SeenBy(q, s) + 1 ELSE own[q][x]]
  <2>1. D \in SUBSET Sets /\ SeenBy(q, s) + 1 \in Nat
    BY <1>2, DealsAre, SeenGrows DEF DealsInv
  <2>2. \A x \in D : x # s => own[q][x] \in Nat
    BY <1>2, DealsAre
  <2>3. more \in [D -> Nat]
    BY <2>1, <2>2
  <2>4. more \in Deals
    BY <2>1, <2>3 DEF Deals
  <2>5. own' = own \/ own' = [own EXCEPT ![q] = more]
    BY <1>1
  <2> HIDE DEF more
  <2> QED
    BY <2>4, <2>5 DEF DealsInv, DealsOK
<1> DEFINE j == [search[q] EXCEPT !.todo = search[q].todo \ {s}]
<1>4. /\ j \in [pc : SearchSteps, start : 0..MaxTime, todo : SUBSET Sets]
      /\ j.pc = search[q].pc /\ j.start = search[q].start
  <2>1. search[q] \in [pc : SearchSteps, start : 0..MaxTime, todo : SUBSET Sets]
    BY DEF DealsInv, DealsOK
  <2> QED
    BY <2>1
<1>5. search' = [search EXCEPT ![q] = j]
  BY <1>1
<1> HIDE DEF j
<1>6. /\ search' \in [Searches -> [pc : SearchSteps, start : 0..MaxTime, todo : SUBSET Sets]]
      /\ \A p \in Searches : search'[p].pc = search[p].pc /\ search'[p].start = search[p].start
  BY <1>4, <1>5 DEF DealsInv, DealsOK
<1>7. DealsOK'
  BY <1>1, <1>3, <1>6 DEF DealsInv, DealsOK
<1>8. VersionsInv'
  BY <1>1, <1>6 DEF DealsInv, VersionsInv, At
<1>9. CrawlsInv' /\ CrawlsAreSpaced'
  BY <1>1, <1>6, CrawlsQuiet
<1>10. AnswersAreRecent'
  BY <1>1, <1>6 DEF AnswersAreRecent, DealsInv, DealsAreTimely
<1> QED
  BY <1>7, <1>8, <1>9, <1>10 DEF DealsInv, DealsAreTimely

\* What is read is committed, or newer.
LEMMA ReadListingsInv ==
    ASSUME DealsInv, NEW q \in Searches, ReadListings(q)
    PROVE  DealsInv'
<1> DEFINE d == [s \in Scope(Asks[q]) |-> SeenBy(q, s)]
<1>1. /\ search[q].pc = "read" /\ got' = [got EXCEPT ![q] = d] /\ Goto(q, "rank")
      /\ UNCHANGED <<clock, stored, cache, refreshed, own, stages, crawls>>
  BY DEF ReadListings, At
<1>2. d \in Deals /\ \A s \in DOMAIN d : d[s] >= stored[s]
  <2>1. Scope(Asks[q]) \in SUBSET Sets
    BY Asked
  <2>2. \A s \in Scope(Asks[q]) : SeenBy(q, s) \in Nat /\ SeenBy(q, s) >= stored[s]
    BY <2>1, SeenGrows DEF DealsInv
  <2>3. d \in [Scope(Asks[q]) -> Nat]
    BY <2>2
  <2> QED
    BY <2>1, <2>2, <2>3 DEF Deals
<1> HIDE DEF d
<1>3. /\ search' \in [Searches -> [pc : SearchSteps, start : 0..MaxTime, todo : SUBSET Sets]]
      /\ search'[q].pc = "rank" /\ search'[q].start = search[q].start
      /\ \A p \in Searches \ {q} : search'[p] = search[p]
  BY <1>1, GotoTyped DEF DealsInv, SearchSteps
<1>4. got'[q] = d /\ \A p \in Searches \ {q} : got'[p] = got[p]
  BY <1>1 DEF DealsInv, DealsOK
<1>5. DealsOK'
  BY <1>1, <1>2, <1>3 DEF DealsInv, DealsOK
<1>6. Knows(stages, d, search[q].start)
  <2>1. search[q].start \in Int /\ search[q].start <= clock
    BY DEF DealsInv, DealsOK, VersionsInv
  <2> QED
    BY <1>2, <2>1, ReadKnows DEF DealsInv
<1>7. VersionsInv'
  <2>1. \A p \in Searches : search'[p].start <= clock
    BY <1>3 DEF DealsInv, VersionsInv
  <2>2. \A p \in Searches : At(p, "rank")' => Knows(stages, got'[p], search'[p].start)
    BY <1>3, <1>4, <1>6 DEF DealsInv, VersionsInv, At
  <2> QED
    BY <1>1, <2>1, <2>2 DEF DealsInv, VersionsInv
<1>8. CrawlsInv' /\ CrawlsAreSpaced'
  BY <1>1, <1>3, CrawlsQuiet
<1>9. AnswersAreRecent'
  BY <1>1, <1>3, <1>4, AnswersKept
<1> QED
  BY <1>5, <1>7, <1>8, <1>9 DEF DealsInv, DealsAreTimely

\* What is ranked goes to the cache and, filtered, to the user.
LEMMA RankInv ==
    ASSUME DealsInv, NEW q \in Searches, Rank(q)
    PROVE  DealsInv'
<1> DEFINE d == Filtered(got[q], Asks[q][2])
           entry == [at |-> search[q].start, deals |-> got[q]]
<1>1. /\ search[q].pc = "rank" /\ Goto(q, "answered")
      /\ cache' = [cache EXCEPT ![Asks[q]] = entry]
      /\ got' = [got EXCEPT ![q] = d]
      /\ UNCHANGED <<clock, stored, refreshed, own, stages, crawls>>
  BY DEF Rank, At, Stamped
<1>2. /\ got[q] \in Deals /\ search[q].start \in Int /\ search[q].start <= clock
      /\ Knows(stages, got[q], search[q].start)
  BY <1>1 DEF DealsInv, DealsOK, VersionsInv, At
<1>3. /\ d \in Deals /\ DOMAIN d \subseteq DOMAIN got[q]
      /\ \A s \in DOMAIN d : d[s] = got[q][s]
  BY <1>2, FilteredDeals
<1>4. entry \in [at : Int, deals : Deals] /\ entry.at = search[q].start /\ entry.deals = got[q]
  BY <1>2
<1> HIDE DEF d, entry
<1>5. /\ search' \in [Searches -> [pc : SearchSteps, start : 0..MaxTime, todo : SUBSET Sets]]
      /\ search'[q].pc = "answered" /\ search'[q].start = search[q].start
      /\ \A p \in Searches \ {q} : search'[p] = search[p]
  BY <1>1, GotoTyped DEF DealsInv, SearchSteps
<1>6. got'[q] = d /\ \A p \in Searches \ {q} : got'[p] = got[p]
  BY <1>1 DEF DealsInv, DealsOK
<1>7. DealsOK'
  BY <1>1, <1>3, <1>4, <1>5 DEF DealsInv, DealsOK
<1>8. VersionsInv'
  <2>1. \A p \in Searches : search'[p].start <= clock
    BY <1>5 DEF DealsInv, VersionsInv
  <2>2. \A p \in Searches : At(p, "rank")' => Knows(stages, got'[p], search'[p].start)
    BY <1>5, <1>6 DEF DealsInv, VersionsInv, At
  <2>3. \A k \in Keys : cache'[k] = entry \/ cache'[k] = cache[k]
    BY <1>1 DEF DealsInv, DealsOK
  <2>4. \A k \in Keys : cache'[k].at <= clock /\ Knows(stages, cache'[k].deals, cache'[k].at)
    BY <1>2, <1>4, <2>3 DEF DealsInv, VersionsInv
  <2> QED
    BY <1>1, <2>1, <2>2, <2>4 DEF DealsInv, VersionsInv
<1>9. CrawlsInv' /\ CrawlsAreSpaced'
  BY <1>1, <1>5, CrawlsQuiet
<1>10. AnswersAreRecent'
  <2>1. ASSUME search[q].start >= Ttl, NEW s \in DOMAIN d
        PROVE  d[s] >= stages[search[q].start - Ttl][s]
    BY <1>2, <1>3, <2>1, KnownIsRecent
  <2> QED
    BY <1>1, <1>5, <1>6, <2>1, AnswersKept
<1> QED
  BY <1>7, <1>8, <1>9, <1>10 DEF DealsInv, DealsAreTimely

\* What is rolled back was not seen by others.
LEMMA RollBackInv ==
    ASSUME DealsInv, NEW q \in Searches, RollBackSearch(q)
    PROVE  DealsInv'
<1>1. /\ search[q].pc = "answered" /\ Goto(q, "done")
      /\ UNCHANGED <<clock, stored, cache, refreshed, own, got, stages, crawls>>
  BY DEF RollBackSearch, At
<1>2. /\ search' \in [Searches -> [pc : SearchSteps, start : 0..MaxTime, todo : SUBSET Sets]]
      /\ search'[q].pc = "done" /\ search'[q].start = search[q].start
      /\ \A p \in Searches \ {q} : search'[p] = search[p]
  BY <1>1, GotoTyped DEF DealsInv, SearchSteps
<1>3. DealsOK'
  BY <1>1, <1>2 DEF DealsInv, DealsOK
<1>4. VersionsInv'
  BY <1>1, <1>2 DEF DealsInv, VersionsInv, At
<1>5. CrawlsInv' /\ CrawlsAreSpaced'
  BY <1>1, <1>2, CrawlsQuiet
<1>6. AnswersAreRecent'
  BY <1>1, <1>2 DEF AnswersAreRecent, DealsInv, DealsAreTimely
<1> QED
  BY <1>3, <1>4, <1>5, <1>6 DEF DealsInv, DealsAreTimely

-----------------------------------------------------------------------------
(* Crawls begin and end. *)

\* A search begins to crawl.
LEMMA BeginCrawlInv ==
    ASSUME DealsInv, NEW q \in Searches, CheckThrottle(q), Spaced(q)
    PROVE  DealsInv'
<1> DEFINE n == Size(q)
           C == Crawling(n)
           D == Crawled(n)
<1>1. /\ search[q].pc = "throttle" /\ Goto(q, "crawl")
      /\ UNCHANGED <<clock, stored, cache, refreshed, own, got, stages>>
      /\ search[q].start - refreshed[n] >= Throttle
      /\ crawls' = [p \in Searches |->
             IF p = q THEN [known |-> D, beside |-> {q} \cup C]
             ELSE IF p \in C THEN [crawls[p] EXCEPT !.beside = crawls[p].beside \cup {q}]
             ELSE crawls[p]]
  BY DEF CheckThrottle, At, Spaced
<1>2. /\ search' \in [Searches -> [pc : SearchSteps, start : 0..MaxTime, todo : SUBSET Sets]]
      /\ search'[q].pc = "crawl" /\ search'[q].start = search[q].start
      /\ \A p \in Searches \ {q} : search'[p] = search[p]
  BY <1>1, GotoTyped DEF DealsInv, SearchSteps
<1>3. /\ n \in Sizes /\ C \subseteq Searches /\ D \subseteq Searches
      /\ q \notin C /\ q \notin D
      /\ \A p \in C : search[p].pc = "crawl" /\ Size(p) = n
      /\ \A p \in D : Size(p) = n /\ crawls[p].beside # {}
                      /\ search[p].pc \notin {"new", "throttle", "crawl"}
  BY <1>1, Asked DEF Crawling, Crawled, At, DealsInv, CrawlsInv
<1>4. /\ crawls' \in [Searches -> [known : SUBSET Searches, beside : SUBSET Searches]]
      /\ crawls'[q].known = D /\ crawls'[q].beside = {q} \cup C
      /\ \A p \in C : crawls'[p].known = crawls[p].known
                      /\ crawls'[p].beside = crawls[p].beside \cup {q}
      /\ \A p \in Searches \ ({q} \cup C) : crawls'[p] = crawls[p]
  <2> HIDE DEF C, D
  <2>1. \A p \in Searches : crawls[p] \in [known : SUBSET Searches, beside : SUBSET Searches]
    BY DEF DealsInv, DealsOK
  <2> QED
    BY <1>1, <1>3, <2>1
<1>5. /\ Crawling(n)' = C \cup {q} /\ Crawled(n)' = D
      /\ \A m \in Sizes \ {n} : Crawling(m)' = Crawling(m) /\ Crawled(m)' = Crawled(m)
  <2>1. /\ Crawling(n)' = C \cup {q}
        /\ \A m \in Sizes \ {n} : Crawling(m)' = Crawling(m)
    BY <1>2 DEF Crawling, At, Size
  <2>2. \A p \in Searches : crawls'[p].beside # {} <=> (crawls[p].beside # {} \/ p = q)
    <3>1. \A p \in C : p \in crawls[p].beside
      BY <1>3 DEF DealsInv, CrawlsInv, At
    <3> HIDE DEF C, D
    <3> QED
      BY <1>3, <1>4, <3>1
  <2>3. \A m \in Sizes \ {n} : Size(q) # m
    OBVIOUS
  <2>4. crawls[q].beside = {}
    BY <1>1 DEF DealsInv, CrawlsInv
  <2> QED
    BY <2>1, <2>2, <2>3, <2>4 DEF Crawled, Size
<1> HIDE DEF C, D
<1>6. DealsOK'
  BY <1>1, <1>2, <1>4 DEF DealsInv, DealsOK
<1>7. VersionsInv'
  BY <1>1, <1>2 DEF DealsInv, VersionsInv, At
<1>8. \A p \in Searches : crawls'[p].known = IF p = q THEN D ELSE crawls[p].known
  BY <1>3, <1>4
<1>9. \A p \in Searches : crawls[p].beside \subseteq crawls'[p].beside
  BY <1>1, <1>3, <1>4 DEF DealsInv, CrawlsInv
<1>10. CrawlsInv'
  <2>1. ASSUME NEW p \in Searches
        PROVE  /\ search'[p].pc \in {"new", "throttle"} =>
                      crawls'[p].beside = {} /\ crawls'[p].known = {}
               /\ search'[p].pc = "crawl" => p \in crawls'[p].beside
               /\ \A r \in crawls'[p].known : search'[r].pc \notin {"new", "throttle", "crawl"}
    <3>1. search'[p].pc \in {"new", "throttle"} => p \notin {q} \cup C
      BY <1>2, <1>3
    <3>2. crawls[p].known \subseteq Searches
      BY DEF DealsInv, DealsOK
    <3>3. \A r \in crawls[p].known : r # q /\ search[r].pc \notin {"new", "throttle", "crawl"}
      BY <1>1, <3>2 DEF DealsInv, CrawlsInv
    <3>4. \A r \in crawls'[p].known : search'[r].pc \notin {"new", "throttle", "crawl"}
      BY <1>2, <1>3, <1>8, <3>2, <3>3
    <3>5. search'[p].pc = "crawl" => p \in crawls'[p].beside
      BY <1>2, <1>4, <1>9 DEF DealsInv, CrawlsInv, At
    <3>6. search'[p].pc \in {"new", "throttle"} =>
                      crawls'[p].beside = {} /\ crawls'[p].known = {}
      BY <1>2, <1>4, <3>1 DEF DealsInv, CrawlsInv
    <3> QED
      BY <3>4, <3>5, <3>6
  <2>2. ASSUME NEW m \in Sizes, NEW p \in Crawling(m)', NEW r \in Crawling(m)'
        PROVE  r \in crawls'[p].beside
    <3>1. CASE m # n
      <4>1. p \in Crawling(m) /\ r \in Crawling(m) /\ p \in Searches
        BY <1>5, <2>2, <3>1 DEF Crawling
      <4> QED
        BY <1>9, <4>1 DEF DealsInv, CrawlsInv
    <3>2. CASE m = n
      <4>1. p \in C \cup {q} /\ r \in C \cup {q}
        BY <1>5, <2>2, <3>2
      <4>2. CASE p \in C /\ r \in C
        BY <1>3, <1>9, <4>2 DEF C, DealsInv, CrawlsInv
      <4> QED
        BY <1>4, <4>1, <4>2
    <3> QED
      BY <3>1, <3>2
  <2>3. ASSUME NEW m \in Sizes, NEW r \in Crawling(m)', NEW p \in Crawled(m)'
        PROVE  p \in crawls'[r].known \/ r \in crawls'[p].beside
    <3>1. CASE m = n /\ r = q
      BY <1>4, <1>5, <2>3, <3>1
    <3>2. CASE ~(m = n /\ r = q)
      <4>1. r \in Crawling(m) /\ p \in Crawled(m) /\ r # q
        BY <1>1, <1>5, <2>3, <3>2 DEF C, D, Crawling, At
      <4>2. p \in Searches /\ r \in Searches
        BY <4>1 DEF Crawling, Crawled
      <4>3. p \in crawls[r].known \/ r \in crawls[p].beside
        BY <4>1 DEF DealsInv, CrawlsInv
      <4> QED
        BY <1>8, <1>9, <4>1, <4>2, <4>3
    <3> QED
      BY <3>1, <3>2
  <2>4. ASSUME NEW m \in Sizes, NEW p \in Crawled(m)', crawls'[p].beside \subseteq {p}
        PROVE  refreshed'[m] >= search'[p].start
    <3>1. p \in Crawled(m) /\ p \in Searches
      BY <1>5, <2>4 DEF D, Crawled
    <3>2. refreshed[m] >= search[p].start
      BY <1>9, <2>4, <3>1 DEF DealsInv, CrawlsInv
    <3> QED
      BY <1>1, <1>2, <3>1, <3>2
  <2> QED
    BY <2>1, <2>2, <2>3, <2>4 DEF CrawlsInv, At
<1>11. CrawlsAreSpaced'
  <2> SUFFICES ASSUME NEW r \in Searches, NEW p \in crawls'[r].known,
                      ~(\E x \in Searches \ {p} : x \in crawls'[p].beside)
               PROVE  search'[r].start - search'[p].start >= Throttle
    BY DEF CrawlsAreSpaced
  <2>1. p \in Searches /\ search'[r].start = search[r].start /\ search'[p].start = search[p].start
    BY <1>2, <1>6 DEF DealsOK
  <2>2. ~(\E x \in Searches \ {p} : x \in crawls[p].beside)
    BY <1>9, <2>1
  <2>3. CASE r # q
    BY <1>8, <2>1, <2>2, <2>3 DEF DealsInv, DealsAreTimely, CrawlsAreSpaced
  <2>4. CASE r = q
    <3>1. p \in D
      BY <1>8, <2>4
    <3>2. crawls[p].beside \subseteq {p}
      BY <2>1, <2>2 DEF DealsInv, DealsOK
    <3>3. refreshed[n] >= search[p].start
      BY <1>3, <3>1, <3>2 DEF D, DealsInv, CrawlsInv
    <3>4. refreshed[n] \in Int /\ search[p].start \in Int /\ search[q].start \in Int
      BY <1>3, <2>1 DEF DealsInv, DealsOK
    <3> QED
      BY <1>1, <2>1, <2>4, <3>3, <3>4, DealConstants
  <2> QED
    BY <2>3, <2>4
<1>12. AnswersAreRecent'
  BY <1>1, <1>2, AnswersKept
<1> QED
  BY <1>6, <1>7, <1>10, <1>11, <1>12 DEF DealsInv, DealsAreTimely

\* A search that comes too early reads what is stored.
LEMMA ThrottledInv ==
    ASSUME DealsInv, NEW q \in Searches, CheckThrottle(q), ~Spaced(q)
    PROVE  DealsInv'
<1>1. /\ search[q].pc = "throttle" /\ Goto(q, "read")
      /\ UNCHANGED <<clock, stored, cache, refreshed, own, got, stages, crawls>>
  BY DEF CheckThrottle, At
<1>2. /\ search' \in [Searches -> [pc : SearchSteps, start : 0..MaxTime, todo : SUBSET Sets]]
      /\ search'[q].pc = "read" /\ search'[q].start = search[q].start
      /\ \A p \in Searches \ {q} : search'[p] = search[p]
  BY <1>1, GotoTyped DEF DealsInv, SearchSteps
<1>3. DealsOK'
  BY <1>1, <1>2 DEF DealsInv, DealsOK
<1>4. VersionsInv'
  BY <1>1, <1>2 DEF DealsInv, VersionsInv, At
<1>5. CrawlsInv' /\ CrawlsAreSpaced'
  BY <1>1, <1>2, CrawlsQuiet
<1>6. AnswersAreRecent'
  BY <1>1, <1>2, AnswersKept
<1> QED
  BY <1>3, <1>4, <1>5, <1>6 DEF DealsInv, DealsAreTimely

\* A crawl that ends sets the throttle and empties the cache of its size.
LEMMA EndCrawlInv ==
    ASSUME DealsInv, NEW q \in Searches, EndCrawl(q)
    PROVE  DealsInv'
<1> DEFINE n == Size(q)
           C == Crawling(n)
           D == Crawled(n)
           none == [at |-> -Ttl, deals |-> Nothing]
<1>1. /\ search[q].pc = "crawl" /\ Goto(q, "read")
      /\ refreshed' = [refreshed EXCEPT ![n] = search[q].start]
      /\ cache' = [k \in Keys |-> IF k[1] = n THEN none ELSE cache[k]]
      /\ UNCHANGED <<clock, stored, own, got, stages, crawls>>
  BY DEF EndCrawl, At
<1>2. /\ search' \in [Searches -> [pc : SearchSteps, start : 0..MaxTime, todo : SUBSET Sets]]
      /\ search'[q].pc = "read" /\ search'[q].start = search[q].start
      /\ \A p \in Searches \ {q} : search'[p] = search[p]
  BY <1>1, GotoTyped DEF DealsInv, SearchSteps
<1>3. none \in [at : Int, deals : Deals] /\ none.at <= clock /\ Knows(stages, none.deals, none.at)
  <2>1. Nothing \in [{} -> Nat] /\ {} \in SUBSET Sets /\ DOMAIN Nothing = {}
    BY DEF Nothing
  <2>2. Nothing \in Deals
    BY <2>1 DEF Deals
  <2> QED
    BY <2>1, <2>2, DealConstants DEF Knows, DealsInv, DealsOK
<1> HIDE DEF none
<1>4. /\ n \in Sizes /\ q \in C /\ C \subseteq Searches /\ D \subseteq Searches
      /\ q \in crawls[q].beside
  BY <1>1, Asked DEF Crawling, Crawled, At, DealsInv, CrawlsInv
<1>5. /\ Crawling(n)' = C \ {q} /\ Crawled(n)' = D \cup {q}
      /\ \A m \in Sizes \ {n} : Crawling(m)' = Crawling(m) /\ Crawled(m)' = Crawled(m)
  <2>1. /\ Crawling(n)' = C \ {q}
        /\ \A m \in Sizes \ {n} : Crawling(m)' = Crawling(m)
    BY <1>2 DEF Crawling, At, Size
  <2> QED
    BY <1>1, <1>4, <2>1 DEF Crawled, Size
<1> HIDE DEF C, D
<1>6. /\ refreshed' \in [Sizes -> Int] /\ refreshed'[n] = search[q].start
      /\ \A m \in Sizes \ {n} : refreshed'[m] = refreshed[m]
  <2>1. search[q].start \in Int
    BY DEF DealsInv, DealsOK
  <2> QED
    BY <1>1, <1>4, <2>1 DEF DealsInv, DealsOK
<1>7. \A p \in Searches : search'[p].start = search[p].start
  BY <1>2
<1>8. DealsOK'
  <2>1. cache' \in [Keys -> [at : Int, deals : Deals]]
    BY <1>1, <1>3 DEF DealsInv, DealsOK
  <2> QED
    BY <1>1, <1>2, <1>6, <2>1 DEF DealsInv, DealsOK
<1>9. VersionsInv'
  <2>1. \A k \in Keys : cache'[k] = none \/ cache'[k] = cache[k]
    BY <1>1
  <2>2. \A k \in Keys : cache'[k].at <= clock /\ Knows(stages, cache'[k].deals, cache'[k].at)
    BY <1>3, <2>1 DEF DealsInv, VersionsInv
  <2> QED
    BY <1>1, <1>2, <2>2 DEF DealsInv, VersionsInv, At
\* The throttle only moves on: a crawl that was alone is known to this one.
<1>10. ASSUME NEW p \in D, crawls[p].beside \subseteq {p}
       PROVE  search[q].start >= search[p].start
  <2>1. p \in Searches /\ p # q
    BY <1>1, <1>4 DEF D, Crawled, Crawling, At
  <2>2. p \in crawls[q].known
    BY <1>4, <1>10, <2>1 DEF C, D, DealsInv, CrawlsInv
  <2>3. search[q].start - search[p].start >= Throttle
    BY <1>10, <2>1, <2>2 DEF DealsInv, DealsAreTimely, CrawlsAreSpaced
  <2> QED
    BY <2>1, <2>3, DealConstants DEF DealsInv, DealsOK
<1>11. CrawlsInv'
  <2>1. ASSUME NEW p \in Searches
        PROVE  /\ search'[p].pc \in {"new", "throttle"} =>
                      crawls[p].beside = {} /\ crawls[p].known = {}
               /\ search'[p].pc = "crawl" => p \in crawls[p].beside
               /\ \A r \in crawls[p].known : search'[r].pc \notin {"new", "throttle", "crawl"}
    <3>1. crawls[p].known \subseteq Searches
      BY DEF DealsInv, DealsOK
    <3> QED
      BY <1>2, <3>1 DEF DealsInv, CrawlsInv, At
  <2>2. ASSUME NEW m \in Sizes, NEW p \in Crawling(m)', NEW r \in Crawling(m)'
        PROVE  r \in crawls[p].beside
    BY <1>5, <2>2 DEF C, DealsInv, CrawlsInv
  <2>3. ASSUME NEW m \in Sizes, NEW r \in Crawling(m)', NEW p \in Crawled(m)'
        PROVE  p \in crawls[r].known \/ r \in crawls[p].beside
    <3>1. CASE m = n /\ p = q
      BY <1>4, <1>5, <2>3, <3>1 DEF C, DealsInv, CrawlsInv
    <3>2. CASE ~(m = n /\ p = q)
      BY <1>5, <2>3, <3>2 DEF C, D, DealsInv, CrawlsInv
    <3> QED
      BY <3>1, <3>2
  <2>4. ASSUME NEW m \in Sizes, NEW p \in Crawled(m)', crawls[p].beside \subseteq {p}
        PROVE  refreshed'[m] >= search'[p].start
    <3>1. p \in Searches
      BY <1>4, <1>5, <2>4 DEF Crawled
    <3>2. search[p].start \in Int
      BY <3>1 DEF DealsInv, DealsOK
    <3>3. CASE m = n
      BY <1>5, <1>6, <1>7, <1>10, <2>4, <3>1, <3>2, <3>3
    <3>4. CASE m # n
      BY <1>5, <1>6, <1>7, <2>4, <3>1, <3>4 DEF DealsInv, CrawlsInv
    <3> QED
      BY <3>3, <3>4
  <2> QED
    BY <1>1, <2>1, <2>2, <2>3, <2>4 DEF CrawlsInv, At
<1>12. CrawlsAreSpaced'
  <2>1. \A p \in Searches : crawls[p].known \subseteq Searches
    BY DEF DealsInv, DealsOK
  <2> QED
    BY <1>1, <1>7, <2>1 DEF DealsInv, DealsAreTimely, CrawlsAreSpaced
<1>13. AnswersAreRecent'
  BY <1>1, <1>2, AnswersKept
<1> QED
  BY <1>8, <1>9, <1>11, <1>12, <1>13 DEF DealsInv, DealsAreTimely

-----------------------------------------------------------------------------
(* The steps that change what is committed, and the theorem. *)

\* Later versions that leave the past alone keep what answers and entries know.
LEMMA PastKept ==
    ASSUME DealsInv, clock' \in Int, clock' >= clock, UNCHANGED <<cache, got>>,
           \A u \in 0..(clock - 1) : stages'[u] = stages[u],
           \A p \in Searches : /\ search'[p].start = search[p].start
                               /\ search'[p].pc # search[p].pc => search'[p].pc = "done"
                                                                  /\ search[p].pc = "answered"
    PROVE  /\ \A k \in Keys : cache'[k].at <= clock'
                              /\ Knows(stages', cache'[k].deals, cache'[k].at)
           /\ \A p \in Searches : search'[p].start <= clock'
           /\ \A p \in Searches : At(p, "rank")' => Knows(stages', got'[p], search'[p].start)
           /\ AnswersAreRecent'
<1>1. clock \in Int
  BY DEF DealsInv, DealsOK
<1>2. ASSUME NEW k \in Keys
      PROVE  cache'[k].at <= clock' /\ Knows(stages', cache'[k].deals, cache'[k].at)
  <2>1. cache[k].at \in Int /\ cache[k].at <= clock /\ Knows(stages, cache[k].deals, cache[k].at)
    BY DEF DealsInv, DealsOK, VersionsInv
  <2> QED
    BY <1>1, <2>1, KnowsKept
<1>3. ASSUME NEW p \in Searches
      PROVE  /\ search[p].start \in Int /\ search[p].start <= clock
             /\ search'[p].start <= clock'
             /\ At(p, "rank")' => Knows(stages', got'[p], search'[p].start)
  <2>1. search[p].start \in Int /\ search[p].start <= clock
    BY DEF DealsInv, DealsOK, VersionsInv
  <2>2. search'[p].start = search[p].start /\ got'[p] = got[p]
    OBVIOUS
  <2>3. At(p, "rank")' => Knows(stages', got'[p], search'[p].start)
    <3>1. At(p, "rank")' => At(p, "rank")
      BY DEF At
    <3>2. At(p, "rank") => Knows(stages, got[p], search[p].start)
      BY DEF DealsInv, VersionsInv
    <3>3. At(p, "rank") => Knows(stages', got[p], search[p].start)
      BY <1>1, <2>1, <3>2, KnowsKept
    <3> QED
      BY <2>2, <3>1, <3>3
  <2> QED
    BY <1>1, <2>1, <2>2, <2>3
<1>4. AnswersAreRecent'
  <2> SUFFICES ASSUME NEW p \in Searches,
                      search'[p].pc \in {"answered", "done"}, search'[p].start >= Ttl,
                      NEW s \in DOMAIN got'[p]
               PROVE  got'[p][s] >= stages'[search'[p].start - Ttl][s]
    BY DEF AnswersAreRecent
  <2>1. search[p].pc \in {"answered", "done"} /\ search[p].start >= Ttl /\ s \in DOMAIN got[p]
    OBVIOUS
  <2>2. got[p][s] >= stages[search[p].start - Ttl][s]
    BY <2>1 DEF DealsInv, DealsAreTimely, AnswersAreRecent
  <2>3. search[p].start - Ttl \in 0..(clock - 1)
    BY <1>1, <1>3, <2>1, DealConstants
  <2> QED
    BY <2>2, <2>3
<1> QED
  BY <1>2, <1>3, <1>4

\* What a search has stored is seen by all from now on.
LEMMA CommitSearchInv ==
    ASSUME DealsInv, NEW q \in Searches, CommitSearch(q)
    PROVE  DealsInv'
<1>1. /\ search[q].pc = "answered" /\ Goto(q, "done")
      /\ stored' = [s \in Sets |-> SeenBy(q, s)]
      /\ stages' = [stages EXCEPT ![clock] = stored']
      /\ UNCHANGED <<clock, cache, refreshed, own, got, crawls>>
  BY DEF CommitSearch, At
<1>2. /\ search' \in [Searches -> [pc : SearchSteps, start : 0..MaxTime, todo : SUBSET Sets]]
      /\ search'[q].pc = "done" /\ search'[q].start = search[q].start
      /\ \A p \in Searches \ {q} : search'[p] = search[p]
  BY <1>1, GotoTyped DEF DealsInv, SearchSteps
<1>3. stored' \in [Sets -> Nat] /\ \A s \in Sets : stored'[s] >= stored[s]
  <2>1. \A s \in Sets : SeenBy(q, s) \in Nat /\ SeenBy(q, s) >= stored[s]
    BY SeenGrows DEF DealsInv
  <2> QED
    BY <1>1, <2>1
<1>4. /\ clock \in 0..MaxTime /\ stages' \in [0..MaxTime -> [Sets -> Nat]]
      /\ stages'[clock] = stored'
      /\ \A u \in 0..MaxTime \ {clock} : stages'[u] = stages[u]
  BY <1>1, <1>3 DEF DealsInv, DealsOK
<1>5. DealsOK'
  BY <1>1, <1>2, <1>3, <1>4 DEF DealsInv, DealsOK
<1>6. \A t \in 0..clock : \A s \in Sets : stages'[t][s] <= stored'[s]
  <2> SUFFICES ASSUME NEW t \in 0..clock, NEW s \in Sets
               PROVE  stages'[t][s] <= stored'[s]
    OBVIOUS
  <2>1. /\ stored[s] \in Nat /\ stored'[s] \in Nat /\ stored'[s] >= stored[s]
        /\ t \in 0..MaxTime
    BY <1>3, <1>4, DealConstants DEF DealsInv, DealsOK
  <2>2. stages[t][s] \in Nat /\ stages[t][s] <= stored[s]
    BY <2>1 DEF DealsInv, DealsOK, VersionsInv
  <2>3. stages'[t] = stored' \/ stages'[t] = stages[t]
    BY <1>4, <2>1
  <2> QED
    BY <2>1, <2>2, <2>3
<1>7. /\ \A k \in Keys : cache'[k].at <= clock' /\ Knows(stages', cache'[k].deals, cache'[k].at)
      /\ \A p \in Searches : search'[p].start <= clock'
      /\ \A p \in Searches : At(p, "rank")' => Knows(stages', got'[p], search'[p].start)
      /\ AnswersAreRecent'
  <2>1. \A u \in 0..(clock - 1) : stages'[u] = stages[u]
    BY <1>4, DealConstants
  <2>2. clock' \in Int /\ clock' >= clock
    BY <1>1, <1>4
  <2> QED
    BY <1>1, <1>2, <2>1, <2>2, PastKept
<1>8. VersionsInv'
  BY <1>1, <1>6, <1>7 DEF VersionsInv
<1>9. CrawlsInv' /\ CrawlsAreSpaced'
  BY <1>1, <1>2, CrawlsQuiet
<1> QED
  BY <1>5, <1>7, <1>8, <1>9 DEF DealsInv, DealsAreTimely

\* What is committed now is the past of later searches.
LEMMA PassTimeInv ==
    ASSUME DealsInv, PassTime
    PROVE  DealsInv'
<1>1. /\ clock \in 0..MaxTime /\ clock < MaxTime /\ clock' = clock + 1
      /\ clock' \in 0..MaxTime
      /\ stages' = [stages EXCEPT ![clock + 1] = stored]
      /\ UNCHANGED <<stored, cache, refreshed, search, own, got, crawls>>
  BY DealConstants DEF PassTime, DealsInv, DealsOK
<1>2. /\ stages' \in [0..MaxTime -> [Sets -> Nat]]
      /\ stages'[clock + 1] = stored
      /\ \A u \in 0..MaxTime \ {clock + 1} : stages'[u] = stages[u]
  BY <1>1 DEF DealsInv, DealsOK
<1>3. DealsOK'
  BY <1>1, <1>2 DEF DealsInv, DealsOK
<1>4. \A t \in 0..clock' : \A s \in Sets : stages'[t][s] <= stored'[s]
  <2> SUFFICES ASSUME NEW t \in 0..(clock + 1), NEW s \in Sets
               PROVE  stages'[t][s] <= stored[s]
    BY <1>1
  <2>1. stored[s] \in Nat
    BY DEF DealsInv, DealsOK
  <2>2. CASE t = clock + 1
    BY <1>2, <2>1, <2>2
  <2>3. CASE t # clock + 1
    <3>1. t \in 0..clock /\ t \in 0..MaxTime
      BY <1>1, <2>3, DealConstants
    <3> QED
      BY <1>2, <2>3, <3>1 DEF DealsInv, VersionsInv
  <2> QED
    BY <2>2, <2>3
<1>5. /\ \A k \in Keys : cache'[k].at <= clock' /\ Knows(stages', cache'[k].deals, cache'[k].at)
      /\ \A p \in Searches : search'[p].start <= clock'
      /\ \A p \in Searches : At(p, "rank")' => Knows(stages', got'[p], search'[p].start)
      /\ AnswersAreRecent'
  <2>1. \A u \in 0..(clock - 1) : stages'[u] = stages[u]
    BY <1>1, <1>2, DealConstants
  <2>2. clock' \in Int /\ clock' >= clock
    BY <1>1
  <2> QED
    BY <1>1, <2>1, <2>2, PastKept
<1>6. VersionsInv'
  BY <1>4, <1>5 DEF VersionsInv
<1>7. CrawlsInv' /\ CrawlsAreSpaced'
  <2>1. \A n \in Sizes : Crawling(n)' = Crawling(n) /\ Crawled(n)' = Crawled(n)
    BY <1>1 DEF Crawling, Crawled, At, Size
  <2> QED
    BY <1>1, <2>1 DEF DealsInv, CrawlsInv, At, DealsAreTimely, CrawlsAreSpaced
<1> QED
  BY <1>3, <1>5, <1>6, <1>7 DEF DealsInv, DealsAreTimely

\* DealsInv is kept by every step.
LEMMA DealsStep == DealsInv /\ [SearchNext]_dealVars => DealsInv'
<1> SUFFICES ASSUME DealsInv, [SearchNext]_dealVars PROVE DealsInv'
  OBVIOUS
<1>1. CASE PassTime
  BY <1>1, PassTimeInv
<1>2. ASSUME NEW q \in Searches,
             \/ AskCached(q) \/ AskStored(q) \/ AskRefresh(q)
             \/ CheckThrottle(q) \/ RefreshSet(q) \/ EndCrawl(q)
             \/ ReadListings(q) \/ Rank(q) \/ CommitSearch(q) \/ RollBackSearch(q)
      PROVE  DealsInv'
  <2>1. CASE AskCached(q)
    BY <2>1, AskCachedInv
  <2>2. CASE AskStored(q) \/ AskRefresh(q)
    BY <2>2, AskInv
  <2>3. CASE CheckThrottle(q)
    BY <2>3, BeginCrawlInv, ThrottledInv
  <2>4. CASE RefreshSet(q)
    BY <2>4, RefreshSetInv
  <2>5. CASE EndCrawl(q)
    BY <2>5, EndCrawlInv
  <2>6. CASE ReadListings(q)
    BY <2>6, ReadListingsInv
  <2>7. CASE Rank(q)
    BY <2>7, RankInv
  <2>8. CASE CommitSearch(q)
    BY <2>8, CommitSearchInv
  <2>9. CASE RollBackSearch(q)
    BY <2>9, RollBackInv
  <2> QED
    BY <1>2, <2>1, <2>2, <2>3, <2>4, <2>5, <2>6, <2>7, <2>8, <2>9
<1>3. CASE UNCHANGED dealVars
  <2>1. \A n \in Sizes : Crawling(n)' = Crawling(n) /\ Crawled(n)' = Crawled(n)
    BY <1>3 DEF dealVars, Crawling, Crawled, At, Size
  <2>2. CrawlsInv' /\ DealsAreTimely'
    BY <1>3, <2>1 DEF dealVars, DealsInv, CrawlsInv, At, DealsAreTimely, AnswersAreRecent,
                      CrawlsAreSpaced
  <2> QED
    BY <1>3, <2>2 DEF dealVars, DealsInv, DealsOK, VersionsInv, At
<1> QED
  BY <1>1, <1>2, <1>3 DEF SearchNext

\* A search answers with what was committed a lifetime of the cache before it began,
\* or later, and refreshes of one size are spaced by the throttle unless crawls
\* overlapped, for all sets, universes, filters, searches, lifetimes and throttles:
\* DealFinderService.find_deals and _refresh_universe.
THEOREM DealsAreAlwaysTimely == SearchSpec => []DealsAreTimely
<1>1. DealsInv => DealsAreTimely
  BY DEF DealsInv
<1> QED
  BY DealsInit, DealsStep, <1>1, PTL DEF SearchSpec

-----------------------------------------------------------------------------
(* CatalogHydration: the images of a part, read under way and written later. *)

\* What is left of the rows of a part, but for none.
Left(m) ==
    {RowsOf(m), <<<<"color", "unknown">>, <<"part", m>>>>, <<<<"part", m>>>>}

Rows ==
    {"set", "category", "color", "part"}
        \X (Numbers \cup Molds \cup {"unknown"} \cup {CategoryOf[m] : m \in Molds})

Jobs ==
    [kind : {"hydrate", "create", "sync"}, key : Numbers \cup Molds,
     quality : {"partial", "complete", "none"}, step : {"ask", "write", "read", "flush", "commit"},
     held : SUBSET Rows, todo : {<<>>} \cup UNION {Left(m) : m \in Molds}, read : BOOLEAN,
     inserts : SUBSET Rows, pictures : SUBSET Pictures]

CatalogOK ==
    /\ pictures \in [Molds -> SUBSET Pictures] /\ given \in [Molds -> SUBSET Pictures]
    /\ crowdedPart \subseteq Molds
    /\ lookup \in [Lookups -> Jobs \cup {NoLookup}]

HasRead(job) ==
    \/ job.step = "commit"
    \/ job.step = "flush" /\ Len(job.todo) = 1

\* A request for a part goes through its rows, and from the time it has read the
\* part it holds all the images kept of it.
JobInv(job, kept, crowded) ==
    /\ job.kind = "sync" <=> job.key \in Molds
    /\ job.step \in {"read", "flush"} => job.kind = "sync" /\ job.todo \in Left(job.key)
    /\ job.kind = "sync" /\ job.key \notin crowded /\ HasRead(job) =>
           kept[job.key] \subseteq job.pictures

\* A part that is not crowded has one request at most.
AloneInv ==
    \A q, r \in Running : lookup[q].key = lookup[r].key
                          /\ lookup[q].key \in Molds \ crowdedPart => q = r

CatalogInv ==
    /\ CatalogOK
    /\ \A r \in Running : JobInv(lookup[r], pictures, crowdedPart)
    /\ AloneInv
    /\ ImagesSurvive

-----------------------------------------------------------------------------
\* The rows that are left are of the part, which comes last.
LEMMA LeftIs ==
    ASSUME NEW m \in Molds, NEW todo \in Left(m)
    PROVE  /\ Head(todo) \in Rows
           /\ Tail(todo) \in {<<>>} \cup Left(m)
           /\ Len(todo) # 1 => Tail(todo) \in Left(m) /\ ~IsPart(Head(todo))
           /\ Len(todo) = 1 => IsPart(Head(todo)) /\ Head(todo)[2] = m
<1>1. CASE todo = <<<<"category", CategoryOf[m]>>, <<"color", "unknown">>, <<"part", m>>>>
  BY <1>1 DEF Left, RowsOf, Rows, IsPart
<1>2. CASE todo = <<<<"color", "unknown">>, <<"part", m>>>>
  BY <1>2 DEF Left, RowsOf, Rows, IsPart
<1>3. CASE todo = <<<<"part", m>>>>
  BY <1>3 DEF Left, RowsOf, Rows, IsPart
<1> QED
  BY <1>1, <1>2, <1>3 DEF Left, RowsOf

\* No request is under way at first.
LEMMA CatalogInitInv == CatalogInit => CatalogInv
BY DEF CatalogInit, CatalogInv, CatalogOK, Running, AloneInv, ImagesSurvive

\* One request moves, and no image is written.
LEMMA CatalogQuiet ==
    ASSUME CatalogInv, UNCHANGED <<pictures, given>>,
           crowdedPart \subseteq crowdedPart', crowdedPart' \subseteq Molds,
           NEW r \in Lookups, NEW j \in Jobs \cup {NoLookup},
           lookup' = [lookup EXCEPT ![r] = j],
           j # NoLookup =>
               /\ JobInv(j, pictures, crowdedPart')
               /\ \/ r \in Running /\ j.key = lookup[r].key
                  \/ j.key \notin Molds \ crowdedPart'
                  \/ \A q \in Running : lookup[q].key # j.key
    PROVE  CatalogInv'
<1>1. /\ lookup' \in [Lookups -> Jobs \cup {NoLookup}] /\ lookup'[r] = j
      /\ \A q \in Lookups \ {r} : lookup'[q] = lookup[q]
  BY DEF CatalogInv, CatalogOK
<1>2. /\ \A q \in Running' : q # r => q \in Running
      /\ \A q \in Running' : q \in Lookups
      /\ r \in Running' => j # NoLookup
  BY <1>1 DEF Running
<1>3. CatalogOK'
  BY <1>1 DEF CatalogInv, CatalogOK
<1>4. \A q \in Running' : JobInv(lookup'[q], pictures', crowdedPart')
  <2> SUFFICES ASSUME NEW q \in Running'
               PROVE  JobInv(lookup'[q], pictures, crowdedPart')
    OBVIOUS
  <2>1. CASE q = r
    BY <1>1, <1>2, <2>1
  <2>2. CASE q # r
    <3>1. JobInv(lookup[q], pictures, crowdedPart) /\ lookup'[q] = lookup[q]
      BY <1>1, <1>2, <2>2 DEF CatalogInv
    <3> QED
      BY <3>1 DEF JobInv
  <2> QED
    BY <2>1, <2>2
<1>5. AloneInv'
  BY <1>1, <1>2 DEF CatalogInv, AloneInv
<1>6. ImagesSurvive'
  BY DEF CatalogInv, ImagesSurvive
<1> QED
  BY <1>3, <1>4, <1>5, <1>6 DEF CatalogInv

\* A request under way is a record.
LEMMA JobOf ==
    ASSUME CatalogInv, NEW r \in Running
    PROVE  r \in Lookups /\ lookup[r] \in Jobs /\ JobInv(lookup[r], pictures, crowdedPart)
BY DEF CatalogInv, CatalogOK, Running

\* A request may end, or fail, at any time.
LEMMA EndKeeps ==
    ASSUME CatalogInv, NEW r \in Lookups, End(r), UNCHANGED <<pictures, crowdedPart, given>>
    PROVE  CatalogInv'
<1>1. crowdedPart \subseteq Molds
  BY DEF CatalogInv, CatalogOK
<1> QED
  BY <1>1, CatalogQuiet DEF End

\* A request that begins takes nothing with it.
LEMMA StartKeeps ==
    ASSUME CatalogInv, NEW r \in Lookups, NEW kind \in {"hydrate", "create", "sync"},
           NEW key \in Numbers \cup Molds, NEW quality \in {"partial", "complete", "none"},
           Start(r, kind, key, quality), kind = "sync" <=> key \in Molds,
           crowdedPart \subseteq crowdedPart', crowdedPart' \subseteq Molds,
           key \notin Molds \ crowdedPart' \/ \A q \in Running : lookup[q].key # key
    PROVE  CatalogInv'
<1> DEFINE j == [kind |-> kind, key |-> key, quality |-> quality, step |-> "ask", held |-> {},
                 todo |-> <<>>, read |-> FALSE, inserts |-> {}, pictures |-> {}]
<1>1. lookup' = [lookup EXCEPT ![r] = j] /\ UNCHANGED <<pictures, given>>
  BY DEF Start
<1>2. j \in Jobs /\ j.kind = kind /\ j.key = key /\ j.step = "ask"
  BY DEF Jobs
<1> HIDE DEF j
<1>3. JobInv(j, pictures, crowdedPart')
  BY <1>2 DEF JobInv, HasRead
<1> QED
  BY <1>1, <1>2, <1>3, CatalogQuiet

\* A request for a set is about no part.
LEMMA SearchSetKeeps ==
    ASSUME CatalogInv, NEW r \in Lookups, NEW n \in Numbers,
           SearchSet(r, n) \/ \E q \in {"partial", "complete"} : CreateSet(r, n, q)
    PROVE  CatalogInv'
<1>1. PICK kind \in {"hydrate", "create"}, q \in {"partial", "complete"} :
          Start(r, kind, n, q) /\ UNCHANGED crowdedPart
  BY DEF SearchSet, CreateSet
<1>2. n \notin Molds /\ crowdedPart \subseteq Molds
  BY CatalogConstants DEF CatalogInv, CatalogOK
<1> QED
  BY <1>1, <1>2, StartKeeps

\* A second request for a part makes it crowded.
LEMMA StartSyncKeeps ==
    ASSUME CatalogInv, NEW r \in Lookups, NEW m \in Molds, SearchPart(r, m) \/ RequestSync(r, m)
    PROVE  CatalogInv'
<1>1. /\ Start(r, "sync", m, "none")
      /\ crowdedPart' = crowdedPart \cup (IF Syncing(m) THEN {m} ELSE {})
  BY DEF SearchPart, RequestSync, StartSync
<1>2. crowdedPart \subseteq crowdedPart' /\ crowdedPart' \subseteq Molds
  BY <1>1 DEF CatalogInv, CatalogOK
<1>3. m \notin Molds \ crowdedPart' \/ \A q \in Running : lookup[q].key # m
  BY <1>1 DEF Syncing
<1> QED
  BY <1>1, <1>2, <1>3, StartKeeps

\* A request for a set that goes on is still one.
LEMMA SetGoesOn ==
    ASSUME CatalogInv, NEW r \in Running, lookup[r].kind # "sync", NEW j \in Jobs,
           j.kind = lookup[r].kind, j.key = lookup[r].key, j.step \notin {"read", "flush"},
           lookup' = [lookup EXCEPT ![r] = j], UNCHANGED <<pictures, crowdedPart, given>>
    PROVE  CatalogInv'
<1>1. r \in Lookups /\ JobInv(j, pictures, crowdedPart) /\ crowdedPart \subseteq Molds
  BY JobOf DEF JobInv, CatalogInv, CatalogOK
<1> QED
  BY <1>1, CatalogQuiet

\* Requests for sets touch no image.
LEMMA SetSteps ==
    ASSUME CatalogInv, NEW r \in Lookups, NEW usable \in BOOLEAN,
           AskForSet(r, usable) \/ UpsertSet(r) \/ InsertSet(r)
    PROVE  CatalogInv'
<1> DEFINE piece == <<"set", lookup[r].key>>
           written == [lookup[r] EXCEPT !.step = "commit", !.held = {piece}]
           asked == [lookup[r] EXCEPT !.step = "write"]
<1>1. /\ r \in Running /\ lookup[r].kind \in {"hydrate", "create"}
      /\ UNCHANGED <<pictures, crowdedPart, given>>
      /\ \/ End(r)
         \/ lookup' = [lookup EXCEPT ![r] = written]
         \/ lookup' = [lookup EXCEPT ![r] = asked]
  BY DEF AskForSet, UpsertSet, InsertSet, Stands
<1>2. piece \in Rows
  BY <1>1, JobOf DEF Jobs, Rows
<1> HIDE DEF piece
<1>3. lookup[r] \in Jobs
  BY <1>1, JobOf
<1>4. /\ written \in Jobs /\ written.kind = lookup[r].kind /\ written.key = lookup[r].key
      /\ written.step = "commit"
  BY <1>2, <1>3 DEF Jobs
<1>5. /\ asked \in Jobs /\ asked.kind = lookup[r].kind /\ asked.key = lookup[r].key
      /\ asked.step = "write"
  BY <1>3 DEF Jobs
<1> HIDE DEF written, asked
<1> QED
  BY <1>1, <1>4, <1>5, EndKeeps, SetGoesOn

-----------------------------------------------------------------------------
\* A request for a part that goes on, with the images it has read.
LEMMA PartGoesOn ==
    ASSUME CatalogInv, NEW r \in Running, NEW j \in Jobs,
           j.kind = lookup[r].kind, j.key = lookup[r].key,
           JobInv(j, pictures, crowdedPart),
           lookup' = [lookup EXCEPT ![r] = j], UNCHANGED <<pictures, crowdedPart, given>>
    PROVE  CatalogInv'
<1>1. r \in Lookups /\ crowdedPart \subseteq Molds
  BY JobOf DEF CatalogInv, CatalogOK
<1> QED
  BY <1>1, CatalogQuiet

\* The provider knows no part, or the rows of one.
LEMMA AskForPartKeeps ==
    ASSUME CatalogInv, NEW r \in Lookups, NEW usable \in BOOLEAN, NEW images \in Answers,
           AskForPart(r, usable, images)
    PROVE  CatalogInv'
<1> DEFINE m == lookup[r].key
           j == [lookup[r] EXCEPT !.step = "read", !.todo = RowsOf(m), !.pictures = images]
<1>1. /\ r \in Running /\ lookup[r].kind = "sync"
      /\ UNCHANGED <<pictures, crowdedPart, given>>
      /\ End(r) \/ lookup' = [lookup EXCEPT ![r] = j]
  BY DEF AskForPart, Stands
<1>2. m \in Molds /\ RowsOf(m) \in Left(m) /\ images \in SUBSET Pictures
  BY <1>1, JobOf DEF JobInv, Left, Answers
<1>3. lookup[r] \in Jobs
  BY <1>1, JobOf
<1>4. RowsOf(m) \in {<<>>} \cup UNION {Left(x) : x \in Molds}
  BY <1>2
<1> DEFINE rows == RowsOf(m)
<1> HIDE DEF m, rows
<1>5. /\ j \in Jobs /\ j.kind = lookup[r].kind /\ j.key = lookup[r].key /\ j.step = "read"
      /\ j.todo = rows
  BY <1>2, <1>3, <1>4 DEF Jobs, rows
<1> HIDE DEF j
<1>6. JobInv(j, pictures, crowdedPart)
  BY <1>1, <1>2, <1>5 DEF JobInv, HasRead, m, rows
<1> QED
  BY <1>1, <1>5, <1>6, EndKeeps, PartGoesOn

\* Who reads a part takes over its images.
LEMMA ReadRowKeeps ==
    ASSUME CatalogInv, NEW r \in Lookups, ReadRow(r)
    PROVE  CatalogInv'
<1> DEFINE piece == Head(lookup[r].todo)
           images == IF IsPart(piece) THEN pictures[piece[2]] \cup lookup[r].pictures
                     ELSE lookup[r].pictures
           there == piece \in shelf
           m == lookup[r].key
           j == [lookup[r] EXCEPT !.step = "flush", !.read = there, !.pictures = images]
<1>1. /\ r \in Running /\ lookup[r].step = "read"
      /\ UNCHANGED <<pictures, crowdedPart, given>>
      /\ lookup' = [lookup EXCEPT ![r] = j]
  BY DEF ReadRow, Stands, WithImages
<1>2. lookup[r] \in Jobs /\ JobInv(lookup[r], pictures, crowdedPart)
  BY <1>1, JobOf
<1>3. lookup[r].kind = "sync" /\ m \in Molds /\ lookup[r].todo \in Left(m)
  BY <1>1, <1>2 DEF JobInv
<1>4. /\ images \in SUBSET Pictures
      /\ Len(lookup[r].todo) = 1 => pictures[m] \subseteq images
  <2>1. pictures[m] \subseteq Pictures /\ lookup[r].pictures \subseteq Pictures
    BY <1>2, <1>3 DEF CatalogInv, CatalogOK, Jobs
  <2>2. IsPart(piece) <=> Len(lookup[r].todo) = 1
    BY <1>3, LeftIs
  <2>3. IsPart(piece) => piece[2] = m
    BY <1>3, <2>2, LeftIs
  <2> HIDE DEF piece, m
  <2> QED
    BY <2>1, <2>2, <2>3
<1>5. there \in BOOLEAN
  OBVIOUS
<1> HIDE DEF piece, images, there, m
<1>6. /\ j \in Jobs /\ j.kind = lookup[r].kind /\ j.key = lookup[r].key /\ j.step = "flush"
      /\ j.todo = lookup[r].todo /\ j.pictures = images
  BY <1>2, <1>4, <1>5 DEF Jobs
<1> HIDE DEF j
<1>7. JobInv(j, pictures, crowdedPart)
  BY <1>2, <1>3, <1>4, <1>6 DEF JobInv, HasRead, m
<1> QED
  BY <1>1, <1>6, <1>7, PartGoesOn

\* The row of the part comes last: what is flushed after it is to commit.
LEMMA FlushRowKeeps ==
    ASSUME CatalogInv, NEW r \in Lookups, FlushRow(r)
    PROVE  CatalogInv'
<1> DEFINE piece == Head(lookup[r].todo)
           m == lookup[r].key
           last == Len(lookup[r].todo) = 1
           next == IF last THEN "commit" ELSE "read"
           added == IF lookup[r].read THEN lookup[r].inserts ELSE lookup[r].inserts \cup {piece}
           j == [lookup[r] EXCEPT !.step = next, !.held = lookup[r].held \cup {piece},
                                  !.todo = Tail(lookup[r].todo), !.inserts = added]
<1>1. /\ r \in Running /\ lookup[r].step = "flush"
      /\ UNCHANGED <<pictures, crowdedPart, given>>
      /\ End(r) \/ lookup' = [lookup EXCEPT ![r] = j]
  BY DEF FlushRow, Stands
<1>2. lookup[r] \in Jobs /\ JobInv(lookup[r], pictures, crowdedPart)
  BY <1>1, JobOf
<1>3. lookup[r].kind = "sync" /\ m \in Molds /\ lookup[r].todo \in Left(m)
  BY <1>1, <1>2 DEF JobInv
<1>4. /\ piece \in Rows /\ Tail(lookup[r].todo) \in {<<>>} \cup Left(m)
      /\ ~last => Tail(lookup[r].todo) \in Left(m)
  BY <1>3, LeftIs
<1>5. Tail(lookup[r].todo) \in {<<>>} \cup UNION {Left(x) : x \in Molds}
  BY <1>3, <1>4
<1>6. added \in SUBSET Rows /\ lookup[r].held \cup {piece} \in SUBSET Rows
  BY <1>2, <1>4 DEF Jobs
<1>7. next \in {"commit", "read"} /\ (next = "commit" <=> last)
  OBVIOUS
<1> DEFINE rest == Tail(lookup[r].todo)
<1> HIDE DEF piece, added, next, rest
<1>8. /\ j \in Jobs /\ j.kind = lookup[r].kind /\ j.key = lookup[r].key /\ j.step = next
      /\ j.todo = rest /\ j.pictures = lookup[r].pictures
  BY <1>2, <1>5, <1>6, <1>7 DEF Jobs, rest
<1> HIDE DEF j
<1>9. JobInv(j, pictures, crowdedPart)
  BY <1>1, <1>2, <1>3, <1>4, <1>7, <1>8 DEF JobInv, HasRead, rest
<1> QED
  BY <1>1, <1>8, <1>9, EndKeeps, PartGoesOn

\* What a synchronization writes has all the images that are kept and given.
LEMMA CommitLookupKeeps ==
    ASSUME CatalogInv, NEW r \in Lookups, CommitLookup(r)
    PROVE  CatalogInv'
<1> DEFINE m == lookup[r].key
           images == lookup[r].pictures
<1>1. r \in Running /\ lookup[r].step = "commit" /\ End(r) /\ UNCHANGED crowdedPart
  BY DEF CommitLookup, Stands
<1>2. lookup[r] \in Jobs /\ JobInv(lookup[r], pictures, crowdedPart)
  BY <1>1, JobOf
<1>3. CASE lookup[r].kind # "sync"
  BY <1>1, <1>3, EndKeeps DEF CommitLookup
<1>4. CASE lookup[r].kind = "sync"
  <2>1. /\ pictures' = [pictures EXCEPT ![m] = images]
        /\ given' = [given EXCEPT ![m] = given[m] \cup images]
        /\ lookup' = [lookup EXCEPT ![r] = NoLookup]
    BY <1>1, <1>4 DEF CommitLookup, End
  <2>2. /\ m \in Molds /\ images \subseteq Pictures
        /\ m \notin crowdedPart => pictures[m] \subseteq images
    BY <1>1, <1>2, <1>4 DEF JobInv, HasRead, Jobs
  <2> HIDE DEF images
  <2>3. CatalogOK'
    <3>1. given[m] \cup images \in SUBSET Pictures
      BY <2>2 DEF CatalogInv, CatalogOK
    <3> HIDE DEF m
    <3> QED
      BY <1>1, <2>1, <2>2, <3>1 DEF CatalogInv, CatalogOK
  <2>4. \A q \in Running' : q \in Running /\ q # r /\ lookup'[q] = lookup[q]
    BY <1>1, <2>1 DEF Running, CatalogInv, CatalogOK
  <2>5. \A q \in Running' : JobInv(lookup'[q], pictures', crowdedPart')
    <3> SUFFICES ASSUME NEW q \in Running'
                 PROVE  JobInv(lookup[q], pictures', crowdedPart)
      BY <1>1, <2>4
    <3>1. q \in Running /\ q # r /\ JobInv(lookup[q], pictures, crowdedPart)
      BY <2>4 DEF CatalogInv
    <3>2. lookup[q].key \in Molds \ crowdedPart => lookup[q].key # m
      BY <1>1, <2>2, <3>1 DEF CatalogInv, AloneInv
    <3>3. lookup[q].key \in Molds \ crowdedPart => pictures'[lookup[q].key] = pictures[lookup[q].key]
      BY <2>1, <3>2 DEF CatalogInv, CatalogOK
    <3> QED
      BY <3>1, <3>3 DEF JobInv
  <2>6. AloneInv'
    BY <1>1, <2>4 DEF CatalogInv, AloneInv
  <2>7. ImagesSurvive'
    <3> SUFFICES ASSUME NEW p \in Molds, p \notin crowdedPart
                 PROVE  given'[p] \subseteq pictures'[p]
      BY <1>1 DEF ImagesSurvive
    <3>1. given[p] \subseteq pictures[p]
      BY DEF CatalogInv, ImagesSurvive
    <3>2. CASE p = m
      BY <2>1, <2>2, <3>1, <3>2 DEF CatalogInv, CatalogOK
    <3>3. CASE p # m
      BY <2>1, <3>1, <3>3 DEF CatalogInv, CatalogOK
    <3> QED
      BY <3>2, <3>3
  <2> QED
    BY <2>3, <2>5, <2>6, <2>7 DEF CatalogInv
<1> QED
  BY <1>3, <1>4

\* CatalogInv is kept by every step.
LEMMA CatalogInvariance == CatalogSpec => []CatalogInv
<1>1. ASSUME CatalogInv, [CatalogNext]_catalogVars PROVE CatalogInv'
  <2>1. CASE CatalogNext
    <3>1. PICK r \in Lookups :
            \/ \E n \in Numbers :
                   SearchSet(r, n) \/ \E q \in {"partial", "complete"} : CreateSet(r, n, q)
            \/ \E m \in Molds : SearchPart(r, m) \/ RequestSync(r, m)
            \/ \E usable \in BOOLEAN :
                   AskForSet(r, usable) \/ \E images \in Answers : AskForPart(r, usable, images)
            \/ UpsertSet(r) \/ InsertSet(r)
            \/ ReadRow(r) \/ FlushRow(r)
            \/ CommitLookup(r) \/ LoseLookup(r)
      BY <2>1 DEF CatalogNext
    <3>2. ASSUME NEW n \in Numbers,
                 SearchSet(r, n) \/ \E q \in {"partial", "complete"} : CreateSet(r, n, q)
          PROVE  CatalogInv'
      BY <1>1, <3>2, SearchSetKeeps
    <3>3. ASSUME NEW m \in Molds, SearchPart(r, m) \/ RequestSync(r, m)
          PROVE  CatalogInv'
      BY <1>1, <3>3, StartSyncKeeps
    <3>4. ASSUME NEW usable \in BOOLEAN, AskForSet(r, usable) \/ UpsertSet(r) \/ InsertSet(r)
          PROVE  CatalogInv'
      BY <1>1, <3>4, SetSteps
    <3>5. ASSUME NEW usable \in BOOLEAN, NEW images \in Answers, AskForPart(r, usable, images)
          PROVE  CatalogInv'
      BY <1>1, <3>5, AskForPartKeeps
    <3>6. CASE ReadRow(r) \/ FlushRow(r) \/ CommitLookup(r)
      BY <1>1, <3>6, ReadRowKeeps, FlushRowKeeps, CommitLookupKeeps
    <3>7. CASE LoseLookup(r)
      BY <1>1, <3>7, EndKeeps DEF LoseLookup
    <3> QED
      BY <3>1, <3>2, <3>3, <3>4, <3>5, <3>6, <3>7
  <2>2. CASE UNCHANGED catalogVars
    BY <1>1, <2>2 DEF catalogVars, CatalogInv, CatalogOK, Running, AloneInv, ImagesSurvive
  <2> QED
    BY <1>1, <2>1, <2>2
<1> QED
  BY <1>1, CatalogInitInv, PTL DEF CatalogSpec

\* Images of a part outlast every refresh of it that is not crossed by another, for
\* any parts, pictures and number of requests: _merge_catalog_values.
THEOREM ImagesAlwaysSurvive == CatalogSpec => []ImagesSurvive
<1>1. CatalogInv => ImagesSurvive
  BY DEF CatalogInv
<1> QED
  BY <1>1, CatalogInvariance, PTL
=============================================================================
