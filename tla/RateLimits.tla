----------------------------- MODULE RateLimits -----------------------------
(***************************************************************************)
(* The limits every public request passes before its endpoint runs:        *)
(* api/middleware.py.                                                      *)
(*                                                                         *)
(* A request is held to its policies one after the other, and awaits an    *)
(* answer of Redis for each.  Redis counts by fixed windows, for all       *)
(* processes; a process that gets no answer counts by itself for a while,  *)
(* by sliding windows.                                                     *)
(***************************************************************************)
EXTENDS Integers, Sequences, FiniteSets, FiniteSetsExt

CONSTANTS
    Servers,        \* the processes that answer requests
    Calls,          \* requests that may be under way together
    ServerOf,       \* the process of each
    Clients,        \* addresses of clients
    Proxies,        \* addresses of trusted proxies
    Bearers,        \* access tokens, NoCall where there is none
    Quota, Span,    \* of each policy: max_requests, window_seconds
    LlmConfigured,  \* whether a language model is configured
    Pause,          \* how long a process leaves Redis alone after an error
    Routes,         \* the routes that are asked for
    MaxClock,       \* bound: the last moment
    MaxOutages,     \* bound: calls of Redis that fail
    NoCall          \* no request, no access token

\* One route of each shape: the routes that are exempt, that only the default
\* policy covers, and those with policies of their own, in their order.
PoliciesOf ==
    [health |-> <<>>,
     plain |-> <<"api-client">>,
     login |-> <<"api-client", "auth-login">>,
     refresh |-> <<"api-client", "auth-refresh">>,
     analyze |-> <<"api-client", "analysis", "llm-global">>,
     portfolio |-> <<"api-client", "portfolio-analysis", "llm-global">>]

Scope ==
    [p \in {"api-client", "auth-login", "auth-refresh", "analysis", "portfolio-analysis",
            "llm-global"} |->
        CASE p = "llm-global" -> "global"
          [] p \in {"auth-refresh", "portfolio-analysis"} -> "credential"
          [] OTHER -> "client"]

Policies == DOMAIN Scope

ASSUME LimitsConstants ==
    /\ \A p \in Policies : Quota[p] \in Nat \ {0} /\ Span[p] \in Nat \ {0}
    /\ Routes \subseteq DOMAIN PoliciesOf
    /\ IsFiniteSet(Servers) /\ ServerOf \in [Calls -> Servers]
    /\ Pause \in Nat

Identities == Clients \cup Proxies \cup (Bearers \ {NoCall}) \cup {"global"}
LimitKeys == Policies \X Identities

VARIABLES
    moment,
    shared,         \* Redis: count of each key, and when it expires
    hits,           \* _hits of each process
    quietUntil,     \* _unavailable_until of each process
    call,           \* the requests under way
    outages,        \* how many calls of Redis have failed
    passed          \* history: when each key was let through

limitVars == <<moment, shared, hits, quietUntil, call, outages, passed>>

Unused == [count |-> 0, ends |-> 0]

LimitsInit ==
    /\ moment = 0
    /\ shared = [k \in LimitKeys |-> Unused]
    /\ hits = [s \in Servers |-> [k \in LimitKeys |-> <<>>]]
    /\ quietUntil = [s \in Servers |-> 0]
    /\ call = [c \in Calls |-> NoCall]
    /\ outages = 0
    /\ passed = [k \in LimitKeys |-> <<>>]

-----------------------------------------------------------------------------
(* Who is counted. *)

\* TrustedProxyClientIpResolver.resolve: the header is read only from a trusted
\* peer; from the right, the first address that is no proxy is the client.
ClientOf(peer, header) ==
    LET chain == Append(header, peer)
        outside == {i \in 1..Len(chain) : chain[i] \notin Proxies}
    IN  IF peer \notin Proxies \/ outside = {} THEN peer
        ELSE chain[Max(outside)]

\* What a request arrives with: directly, or through one proxy or two, each of
\* which appends the peer it has seen.
Arrivals(c) ==
    {[peer |-> c, header |-> <<>>]}
        \cup {[peer |-> x, header |-> h] : x \in Proxies, h \in {<<c>>} \cup {<<c, y>> : y \in Proxies}}

\* _identity.
Identity(p, client, bearer) ==
    CASE Scope[p] = "global" -> "global"
      [] Scope[p] = "credential" /\ bearer # NoCall -> bearer
      [] OTHER -> client

\* The policy of the language model, the last of a route, is skipped unless one is
\* configured.
Applied(route) ==
    LET all == PoliciesOf[route] IN
    IF all # <<>> /\ all[Len(all)] = "llm-global" /\ ~LlmConfigured
    THEN SubSeq(all, 1, Len(all) - 1)
    ELSE all

\* What a request is counted by, one key after the other.
CountedBy(route, client, bearer) ==
    [i \in DOMAIN Applied(route) |->
        <<Applied(route)[i], Identity(Applied(route)[i], client, bearer)>>]

Waiting(c) == call[c] # NoCall
Key(c) == Head(call[c].keys)

\* A request that no policy covers is answered at once.
Arrive(c, route, arrival, bearer) ==
    LET keys == CountedBy(route, ClientOf(arrival.peer, arrival.header), bearer) IN
    /\ ~Waiting(c)
    /\ call' = [call EXCEPT ![c] =
            IF keys = <<>> THEN NoCall
            ELSE [keys |-> keys, failed |-> FALSE]]
    /\ UNCHANGED <<moment, shared, hits, quietUntil, outages, passed>>

-----------------------------------------------------------------------------
(* How it is counted. *)

\* Mutant of Spent: one request too many.
SpentLate(k) == shared[k].count > Quota[k[1]]

Spent(k) == shared[k].count >= Quota[k[1]]

\* The script of Redis: the first request of a window gives it its end.
Raised(k) ==
    IF shared[k].count = 0 THEN [count |-> 1, ends |-> moment + Span[k[1]]]
    ELSE [shared[k] EXCEPT !.count = @ + 1]

AsksRedis(c) ==
    Waiting(c) /\ ~call[c].failed /\ moment >= quietUntil[ServerOf[c]]

\* On to the next policy, or to the endpoint.
LetThrough(c) ==
    /\ call' = [call EXCEPT ![c] =
            IF Len(call[c].keys) = 1 THEN NoCall
            ELSE [keys |-> Tail(call[c].keys), failed |-> FALSE]]
    /\ passed' = [passed EXCEPT ![Key(c)] = Append(@, moment)]

\* 429.  What earlier policies have counted stays counted.
TurnAway(c) == call' = [call EXCEPT ![c] = NoCall] /\ UNCHANGED passed

CountShared(k) == shared' = IF Spent(k) THEN shared ELSE [shared EXCEPT ![k] = Raised(k)]

ReserveShared(c) ==
    /\ AsksRedis(c)
    /\ CountShared(Key(c))
    /\ IF Spent(Key(c)) THEN TurnAway(c) ELSE LetThrough(c)
    /\ UNCHANGED <<moment, hits, quietUntil, outages>>

\* Redis is not reached, or it has counted and its answer is lost.
LoseRedis(c, answerLost) ==
    LET k == Key(c) IN
    /\ AsksRedis(c) /\ outages < MaxOutages
    /\ IF answerLost /\ ~Spent(k)
       THEN CountShared(k)
       ELSE UNCHANGED shared
    /\ call' = [call EXCEPT ![c].failed = TRUE]
    /\ outages' = outages + 1
    /\ UNCHANGED <<moment, hits, quietUntil, passed>>

\* The first of the moments within the span of a key that ends at a time.
FirstRecent(k, moments, now) ==
    CHOOSE i \in 1..(Len(moments) + 1) :
        /\ \A j \in 1..(i - 1) : moments[j] <= now - Span[k[1]]
        /\ i \in DOMAIN moments => moments[i] > now - Span[k[1]]

Recent(k, moments, now) == SubSeq(moments, FirstRecent(k, moments, now), Len(moments))

\* _ProcessLocalFixedWindowLimiter.reserve, once Redis has failed or while the
\* process leaves it alone.
ReserveLocally(c) ==
    LET s == ServerOf[c]  k == Key(c)  refused == Len(hits[s][k]) >= Quota[k[1]] IN
    /\ Waiting(c) /\ ~AsksRedis(c)
    /\ quietUntil' = IF call[c].failed THEN [quietUntil EXCEPT ![s] = moment + Pause]
                     ELSE quietUntil
    /\ hits' = [hits EXCEPT ![s][k] = IF refused THEN @ ELSE Append(@, moment)]
    /\ IF refused THEN TurnAway(c) ELSE LetThrough(c)
    /\ UNCHANGED <<moment, shared, outages>>

\* Redis drops the keys that expire; what is too old to count any more is
\* forgotten here at once, by a process when it next counts that key.
LimitsTick ==
    LET now == moment + 1 IN
    /\ moment < MaxClock
    /\ moment' = now
    /\ shared' = [k \in LimitKeys |-> IF shared[k].ends = now THEN Unused ELSE shared[k]]
    /\ hits' = [s \in Servers |-> [k \in LimitKeys |-> Recent(k, hits[s][k], now)]]
    /\ quietUntil' = [s \in Servers |-> IF quietUntil[s] = now THEN 0 ELSE quietUntil[s]]
    /\ passed' = [k \in LimitKeys |-> Recent(k, passed[k], now)]
    /\ UNCHANGED <<call, outages>>

LimitsNext ==
    \/ \E c \in Calls :
           \/ \E route \in Routes, sender \in Clients, bearer \in Bearers :
                  \E arrival \in Arrivals(sender) : Arrive(c, route, arrival, bearer)
           \/ ReserveShared(c) \/ ReserveLocally(c)
           \/ \E answerLost \in BOOLEAN : LoseRedis(c, answerLost)
    \/ LimitsTick

LimitsSpec == LimitsInit /\ [][LimitsNext]_limitVars

-----------------------------------------------------------------------------
(* Properties. *)

\* However requests interleave between the processes, within the span of a
\* policy no one is let through more than twice its quota: at the end of one
\* window and the beginning of the next.  Each process that has lost Redis adds
\* at most its own quota ("a bounded process-local fallback for availability").
AdmissionsAreBounded ==
    \A k \in LimitKeys :
        LET alone == {s \in Servers : hits[s][k] # <<>>} IN
        Len(passed[k]) <= (2 + Cardinality(alone)) * Quota[k[1]]
=============================================================================
