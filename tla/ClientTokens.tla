---------------------------- MODULE ClientTokens ----------------------------
(***************************************************************************)
(* The session of a browser: frontend/src/services/apiClient.ts and        *)
(* auth/AuthProvider.tsx.  The tabs of a browser share the pair of tokens  *)
(* in the local storage; each renews it for itself when a request is       *)
(* refused, with one renewal at a time for all its requests.               *)
(*                                                                         *)
(* The server is what RefreshSessions makes of it: it renews a pair once,  *)
(* and accepts an access token until it expires.                           *)
(***************************************************************************)
EXTENDS Integers, Sequences, FiniteSets

CONSTANTS
    Tabs,
    Calls(_),       \* requests a tab may have under way
    Profile,        \* the one that loads the user of the session
    Absent,
    MaxPair         \* bound: pairs of tokens

ASSUME ClientConstants ==
    /\ \A t \in Tabs : Profile \in Calls(t)
    /\ MaxPair \in Nat /\ Absent \notin Nat

VARIABLES
    store,          \* the local storage: the access and the refresh token
    live,           \* refresh tokens the server will renew
    fresh,          \* access tokens it accepts
    signIn,         \* of each pair so far, the sign-in it goes back to
    page,           \* of each tab: [signedIn, expired]
    calls,          \* of each tab and call: [phase, token]
    renewal,        \* of each tab: [phase, token, reply], the refreshPromise
    leaving,        \* of each tab: [phase, access, refresh], a sign-out under way
    left,           \* sign-ins the user has signed out of
    mishaps         \* what has happened that may cost a session

clientVars == <<store, live, fresh, signIn, page, calls, renewal, leaving, left, mishaps>>

serverVars == <<live, fresh, signIn>>
historyOfClient == <<left, mishaps>>

Pairs == 1..Len(signIn)
Pair(n) == [access |-> n, refresh |-> n]
NoPair == Pair(Absent)
Idle == [phase |-> "idle", token |-> Absent]
NoRenewal == [phase |-> "none", token |-> Absent, reply |-> Absent]
Staying == [phase |-> "none", access |-> Absent, refresh |-> Absent]
Expired == [signedIn |-> FALSE, expired |-> TRUE]

Renewing == {t \in Tabs : renewal[t].phase # "none"}
Mishap(what, if) == mishaps' = IF if THEN mishaps \cup {what} ELSE mishaps

-----------------------------------------------------------------------------
(* The server. *)

Issue(login) ==
    /\ Len(signIn) < MaxPair
    /\ signIn' = Append(signIn, login)
    /\ live' = live \cup {Len(signIn')}
    /\ fresh' = fresh \cup {Len(signIn')}

\* An access token grows old.  A request is repeated once: a token that is too old
\* by then is a mishap.
AccessExpires(n) ==
    /\ n \in fresh
    /\ fresh' = fresh \ {n}
    /\ Mishap("slow", \E t \in Tabs :
                  \/ renewal[t].reply = n
                  \/ \E c \in Calls(t) : calls[t][c] = [phase |-> "retried", token |-> n])
    /\ UNCHANGED <<store, live, signIn, page, calls, renewal, leaving, left>>

\* A change of the password, an ended session, the end of its days.
EndedElsewhere(n) ==
    /\ n \in live
    /\ live' = live \ {n}
    /\ mishaps' = mishaps \cup {"ended"}
    /\ UNCHANGED <<store, fresh, signIn, page, calls, renewal, leaving, left>>

-----------------------------------------------------------------------------
(* Requests. *)

Begin(t, c) ==
    /\ calls[t][c] = Idle
    /\ c = Profile => store.access # Absent
    /\ calls' = [calls EXCEPT ![t][c] = [phase |-> "sent", token |-> store.access]]
    /\ UNCHANGED <<store, serverVars, page, renewal, leaving, historyOfClient>>

Refused(call) == call.token \notin fresh

\* refreshUser: what becomes of the tab when the user could not be loaded.
AfterProfile(t) == store' = NoPair /\ page' = [page EXCEPT ![t] = Expired]

Accepted(t, c) ==
    /\ calls[t][c].phase \in {"sent", "retried"} /\ ~Refused(calls[t][c])
    /\ calls' = [calls EXCEPT ![t][c] = Idle]
    /\ page' = [page EXCEPT ![t] = IF c = Profile THEN [signedIn |-> TRUE, expired |-> FALSE] ELSE @]
    /\ UNCHANGED <<store, serverVars, renewal, leaving, historyOfClient>>

\* A request ends in an error: no answer, or refused again.
Fails(t, c) ==
    LET call == calls[t][c] IN
    /\ call.phase \in {"sent", "retried"}
    /\ \/ Mishap("lost", TRUE)
       \/ call.phase = "retried" /\ Refused(call) /\ UNCHANGED mishaps
    /\ calls' = [calls EXCEPT ![t][c] = Idle]
    /\ IF c = Profile THEN AfterProfile(t) ELSE UNCHANGED <<store, page>>
    /\ UNCHANGED <<serverVars, renewal, leaving, left>>

\* Mutant of Joins: every refused request renews the pair for itself.
JoinsNever(t) == FALSE

\* refreshAccessToken joins the renewal under way.
Joins(t) == renewal[t].phase # "none"

\* The first 401: the request waits for a new pair.
RefusedOnce(t, c) ==
    /\ calls[t][c].phase = "sent" /\ Refused(calls[t][c])
    /\ IF store.refresh = Absent
       THEN /\ store' = NoPair
            /\ page' = [page EXCEPT ![t] = Expired]
            /\ calls' = [calls EXCEPT ![t][c] = Idle]
            /\ UNCHANGED <<renewal, mishaps>>
       ELSE /\ calls' = [calls EXCEPT ![t][c] = [phase |-> "waiting", token |-> Absent]]
            /\ IF Joins(t) THEN UNCHANGED <<renewal, mishaps>>
               ELSE /\ renewal' = [renewal EXCEPT ![t] =
                           [phase |-> "asked", token |-> store.refresh, reply |-> Absent]]
                    /\ Mishap("contended", Renewing \ {t} # {})
            /\ UNCHANGED <<store, page>>
    /\ UNCHANGED <<serverVars, leaving, left>>

-----------------------------------------------------------------------------
(* Renewals. *)

\* /auth/refresh: the token is exchanged once.
Renew(t) ==
    /\ renewal[t].phase = "asked"
    /\ IF renewal[t].token \in live
       THEN /\ Len(signIn) < MaxPair
            /\ signIn' = Append(signIn, signIn[renewal[t].token])
            /\ live' = (live \ {renewal[t].token}) \cup {Len(signIn')}
            /\ fresh' = fresh \cup {Len(signIn')}
            /\ renewal' = [renewal EXCEPT ![t].phase = "answered", ![t].reply = Len(signIn')]
       ELSE renewal' = [renewal EXCEPT ![t].phase = "answered"] /\ UNCHANGED serverVars
    /\ UNCHANGED <<store, page, calls, leaving, historyOfClient>>

\* The request or its answer is lost on the way.
RenewalLost(t) ==
    /\ renewal[t].phase # "none"
    /\ renewal' = [renewal EXCEPT ![t].phase = "answered", ![t].reply = Absent]
    /\ Mishap("lost", TRUE)
    /\ UNCHANGED <<store, serverVars, page, calls, leaving, left>>

\* The answer arrives: the pair is stored, or the session dropped, and what waited
\* is sent again or fails.
Renewed(t) ==
    LET reply == renewal[t].reply
        After(call) ==
            IF call.phase # "waiting" THEN call
            ELSE IF reply = Absent THEN Idle ELSE [phase |-> "retried", token |-> reply]
    IN  /\ renewal[t].phase = "answered"
        /\ store' = Pair(reply)
        /\ calls' = [calls EXCEPT ![t] = [c \in Calls(t) |-> After(@[c])]]
        /\ page' = [page EXCEPT ![t] = IF reply = Absent THEN Expired ELSE @]
        /\ renewal' = [renewal EXCEPT ![t] = NoRenewal]
        /\ UNCHANGED <<serverVars, leaving, historyOfClient>>

-----------------------------------------------------------------------------
(* Signing in and out, and loading the page anew. *)

SignIn(t) ==
    /\ ~page[t].signedIn
    /\ Issue(1 + Cardinality({signIn[n] : n \in Pairs}))
    /\ store' = Pair(Len(signIn'))
    /\ page' = [page EXCEPT ![t] = [signedIn |-> TRUE, expired |-> FALSE]]
    /\ Mishap("contended", Renewing # {} \/ \E u \in Tabs : leaving[u] # Staying)
    /\ UNCHANGED <<calls, renewal, leaving, left>>

\* The user of the session in the storage asks to end it.
SignOut(t) ==
    /\ leaving[t] = Staying /\ page[t].signedIn
    /\ leaving' = [leaving EXCEPT ![t] =
           [phase |-> IF store.access = Absent THEN "answered" ELSE "asked",
            access |-> store.access, refresh |-> store.refresh]]
    /\ left' = IF store.access = Absent THEN left ELSE left \cup {signIn[store.access]}
    /\ Mishap("contended", Renewing # {})
    /\ UNCHANGED <<store, serverVars, page, calls, renewal>>

\* /auth/logout ends the session, if its access token is still accepted.
SignOutHandled(t) ==
    /\ leaving[t].phase = "asked"
    /\ leaving' = [leaving EXCEPT ![t].phase = "answered"]
    /\ \/ live' = IF leaving[t].access \in fresh THEN live \ {leaving[t].refresh} ELSE live
       \/ UNCHANGED live
    /\ UNCHANGED <<store, fresh, signIn, page, calls, renewal, historyOfClient>>

\* Mutant of Emptied: only the access token is removed.
EmptiedInPart == [store EXCEPT !.access = Absent]

\* clearAuthSession.
Emptied == NoPair

\* Whatever the answer was, the storage is emptied.
SignedOut(t) ==
    /\ leaving[t].phase = "answered"
    /\ store' = Emptied
    /\ page' = [page EXCEPT ![t] = [signedIn |-> FALSE, expired |-> FALSE]]
    /\ leaving' = [leaving EXCEPT ![t] = Staying]
    /\ Mishap("contended", Renewing # {})
    /\ UNCHANGED <<serverVars, calls, renewal, left>>

\* The page starts from the storage; what it has asked for is forgotten.
Reload(t) ==
    LET here == store.access # Absent IN
    /\ page' = [page EXCEPT ![t] = [signedIn |-> here, expired |-> FALSE]]
    /\ calls' = [calls EXCEPT ![t] =
           [c \in Calls(t) |-> IF here /\ c = Profile
                            THEN [phase |-> "sent", token |-> store.access] ELSE Idle]]
    /\ renewal' = [renewal EXCEPT ![t] = NoRenewal]
    /\ leaving' = [leaving EXCEPT ![t] = Staying]
    /\ Mishap("lost", t \in Renewing \/ leaving[t] # Staying)
    /\ UNCHANGED <<store, serverVars, left>>

ClientInit ==
    /\ store = NoPair
    /\ live = {} /\ fresh = {} /\ signIn = <<>>
    /\ page = [t \in Tabs |-> [signedIn |-> FALSE, expired |-> FALSE]]
    /\ calls = [t \in Tabs |-> [c \in Calls(t) |-> Idle]]
    /\ renewal = [t \in Tabs |-> NoRenewal]
    /\ leaving = [t \in Tabs |-> Staying]
    /\ left = {} /\ mishaps = {}

ClientNext ==
    \/ \E n \in Pairs : AccessExpires(n) \/ EndedElsewhere(n)
    \/ \E t \in Tabs :
          \/ \E c \in Calls(t) : Begin(t, c) \/ Accepted(t, c) \/ Fails(t, c) \/ RefusedOnce(t, c)
          \/ Renew(t) \/ RenewalLost(t) \/ Renewed(t)
          \/ SignIn(t) \/ SignOut(t) \/ SignOutHandled(t) \/ SignedOut(t) \/ Reload(t)

ClientSpec == ClientInit /\ [][ClientNext]_clientVars

-----------------------------------------------------------------------------
(* Properties. *)

\* A session is not lost on the way: without a mishap (an answer that got lost, a
\* session ended elsewhere, two tabs that renew at a time, a token that grew old
\* while its request was repeated) the storage is emptied only for a user who signs
\* out, however many requests are refused in whatever order.
SessionIsKept ==
    [][store.refresh # Absent /\ store'.refresh = Absent /\ mishaps' = {}
           => signIn[store.refresh] \in left]_clientVars

\* A sign-out holds: without a mishap no pair of a session the user has signed out
\* of is found in the storage once a tab has emptied it, even though the server may
\* not have ended the session.
SignOutHolds ==
    /\ mishaps = {}
    /\ \A t \in Tabs : leaving[t] = Staying
    => store.refresh = Absent \/ signIn[store.refresh] \notin left
=============================================================================
