---------------------------- MODULE Explanations ----------------------------
(***************************************************************************)
(* Analyses of portfolios and what a language model says about them:       *)
(* services/portfolio_analysis_service.py, llm_portfolio_analysis_service  *)
(* .py and llm_recommendation_service.py, whose quota and retries the      *)
(* explanation of a single set shares.                                     *)
(*                                                                         *)
(* The deterministic part is read once, at the start of a request.  The    *)
(* model is then asked in a thread, for as long as its retries last, and   *)
(* only after that the analysis is stored: the market and other requests   *)
(* of the same user go on in the meantime.                                 *)
(***************************************************************************)
EXTENDS Integers, Sequences, FiniteSets

CONSTANTS
    Investors,      \* users
    Owners,         \* bound: those of them who analyze their portfolios; the
                    \* others have single sets explained
    Positions,      \* the holdings, those of each user alike
    Folders,        \* portfolios: sets of positions
    Analysts,       \* requests that may be under way together
    MaxRetries,     \* max_retries
    PerInvestor, PerProcess,  \* user_rate_limit, global_rate_limit
    QuotaSpan,      \* rate_limit_window_seconds
    MaxHour,        \* bound: the last moment
    MaxStamp,       \* bound: analyses that are begun
    NoTask          \* no request, no narrative

ASSUME ExplanationConstants ==
    /\ MaxRetries \in Nat /\ {PerInvestor, PerProcess, QuotaSpan} \subseteq Nat \ {0}
    /\ Owners \subseteq Investors
    /\ \A f \in Folders : f \subseteq Positions
    /\ MaxStamp \in Nat

\* The analysis of all holdings has no portfolio_id.
Scopes == Folders \cup {Positions}

VARIABLES
    hour,
    signals,        \* the label the rules give to each position now
    processHits,    \* _global_hits of the limiter both services share
    investorHits,   \* _user_hits
    task,           \* the requests
    analyses,       \* rows of portfolio_analyses
    stamp,          \* how many analyses were begun
    narrated        \* history: whom the model was asked for, within the window

explainVars ==
    <<hour, signals, processHits, investorHits, task, analyses, stamp, narrated>>

\* Two of the four labels of the rules.  Each has one priority.
Labels == {"consider_selling", "hold"}

\* A request that is under way.
Tasks ==
    [user : Investors, scope : Scopes \cup {NoTask}, at : Nat,
     items : UNION {[some -> Labels] : some \in SUBSET Positions}, tries : 0..MaxRetries,
     step : {"acquire", "call"}]

ASSUME NoTaskIsNone == NoTask \notin Tasks

ExplainInit ==
    /\ hour = 0
    /\ signals \in [Positions -> Labels]
    /\ processHits = <<>>
    /\ investorHits = [u \in Investors |-> <<>>]
    /\ task = [c \in Analysts |-> NoTask]
    /\ analyses = {}
    /\ stamp = 0
    /\ narrated = <<>>

Stands(c, step) == task[c] # NoTask /\ task[c].step = step

\* create_portfolio_analysis, at the end of the request; an explanation of a set
\* only answers.  Why there is no narrative (disabled, rate_limited, timed_out,
\* invalid_response, failed) makes no difference to what follows.
Store(c, t, status, narrative) ==
    /\ task' = [task EXCEPT ![c] = NoTask]
    /\ analyses' = IF t.scope = NoTask THEN analyses
                   ELSE analyses \cup
                       {[user |-> t.user, scope |-> t.scope, at |-> t.at, items |-> t.items,
                         order |-> Cardinality(analyses), status |-> status,
                         narrative |-> narrative, deleted |-> FALSE]}

-----------------------------------------------------------------------------
(* The deterministic part. *)

\* refresh_portfolio_analytics, and _item_recommendation of each holding.
Labelled(scope) == [p \in scope |-> signals[p]]

Begun(u, scope) ==
    [user |-> u, scope |-> scope, at |-> stamp, items |-> Labelled(scope), tries |-> 0,
     step |-> "acquire"]

\* The model is asked if it is configured; otherwise the analysis is stored
\* without, as it is when the client of the model cannot be created.
BeginAnalysis(c, u, scope) ==
    /\ task[c] = NoTask /\ stamp < MaxStamp
    /\ stamp' = stamp + 1
    /\ task' = [task EXCEPT ![c] = Begun(u, scope)]
    /\ UNCHANGED <<hour, signals, processHits, investorHits, analyses, narrated>>

AnalyzeAlone(c, u, scope) ==
    /\ task[c] = NoTask /\ stamp < MaxStamp
    /\ stamp' = stamp + 1
    /\ Store(c, Begun(u, scope), "unavailable", NoTask)
    /\ UNCHANGED <<hour, signals, processHits, investorHits, narrated>>

\* analyze_set has saved its recommendation when it asks; here it only takes part
\* in the quota.
ExplainSet(c, u) ==
    /\ task[c] = NoTask
    /\ task' = [task EXCEPT ![c] =
            [user |-> u, scope |-> NoTask, at |-> MaxStamp, items |-> <<>>, tries |-> 0,
             step |-> "acquire"]]
    /\ UNCHANGED <<hour, signals, processHits, investorHits, analyses, stamp, narrated>>

-----------------------------------------------------------------------------
(* The quota, under a lock. *)

Room(u) == Len(processHits) < PerProcess /\ Len(investorHits[u]) < PerInvestor

\* Mutant of ProcessCounts: the hit is counted before the quota of the user.
ProcessCountsFirst(u) == Len(processHits) < PerProcess

\* Whether a call is counted for the process.
ProcessCounts(u) == Room(u)

Acquire(c) ==
    LET u == task[c].user IN
    /\ Stands(c, "acquire")
    /\ processHits' = IF ProcessCounts(u) THEN Append(processHits, hour) ELSE processHits
    /\ IF Room(u)
       THEN /\ investorHits' = [investorHits EXCEPT ![u] = Append(@, hour)]
            /\ narrated' = Append(narrated, [user |-> u, at |-> hour])
            /\ task' = [task EXCEPT ![c].step = "call"]
            /\ UNCHANGED analyses
       ELSE Store(c, task[c], "unavailable", NoTask) /\ UNCHANGED <<investorHits, narrated>>
    /\ UNCHANGED <<hour, signals, stamp>>

-----------------------------------------------------------------------------
(* The model. *)

\* What it may say: any label about any holding, or nothing.
Replies == UNION {[some -> Labels] : some \in SUBSET Positions}

\* generate_portfolio_narrative keeps a reply only if it repeats the labels it was
\* given, each with its priority.
Grounded(c, reply) ==
    \A p \in DOMAIN reply : p \in DOMAIN task[c].items /\ reply[p] = task[c].items[p]

Retry(c) ==
    IF task[c].tries = MaxRetries THEN Store(c, task[c], "unavailable", NoTask)
    ELSE task' = [task EXCEPT ![c].tries = @ + 1] /\ UNCHANGED analyses

\* One attempt that brings nothing.  A timeout and an error are retried, an answer
\* of the wrong shape and any other exception are not.
AttemptInVain(c, retried) ==
    /\ Stands(c, "call")
    /\ IF retried THEN Retry(c) ELSE Store(c, task[c], "unavailable", NoTask)
    /\ UNCHANGED <<hour, signals, processHits, investorHits, stamp, narrated>>

AttemptAnswered(c, reply) ==
    /\ Stands(c, "call")
    /\ IF Grounded(c, reply) THEN Store(c, task[c], "available", reply)
       ELSE Store(c, task[c], "unavailable", NoTask)
    /\ UNCHANGED <<hour, signals, processHits, investorHits, stamp, narrated>>

\* The request dies: nothing is stored, the quota is spent.
LoseTask(c) ==
    /\ Stands(c, "call")
    /\ task' = [task EXCEPT ![c] = NoTask]
    /\ UNCHANGED <<hour, signals, processHits, investorHits, analyses, stamp, narrated>>

-----------------------------------------------------------------------------
(* The history. *)

\* remove_portfolio_analysis.
RemoveAnalysis(a) ==
    /\ ~a.deleted
    /\ analyses' = (analyses \ {a}) \cup {[a EXCEPT !.deleted = TRUE]}
    /\ UNCHANGED <<hour, signals, processHits, investorHits, task, stamp, narrated>>

\* list_portfolio_analyses.
Listed(u, scope) == {a \in analyses : a.user = u /\ a.scope = scope /\ ~a.deleted}

\* Mutant of Above: by the time a row was stored.
AboveByStorage(a, b) == a.order > b.order

\* By the time of the evidence.
Above(a, b) == a.at > b.at

\* The first of the list, which is shown as the current one.
Newest(u, scope) ==
    {a \in Listed(u, scope) : \A b \in Listed(u, scope) \ {a} : Above(a, b)}

-----------------------------------------------------------------------------
MoveMarket(p) ==
    /\ signals' = [signals EXCEPT ![p] = CHOOSE l \in Labels : l # @]
    /\ UNCHANGED <<hour, processHits, investorHits, task, analyses, stamp, narrated>>

\* The first of the times within the window when the next hour has come.
FirstWithin(times) ==
    CHOOSE i \in 1..(Len(times) + 1) :
        /\ \A j \in 1..(i - 1) : times[j] <= hour + 1 - QuotaSpan
        /\ i \in DOMAIN times => times[i] > hour + 1 - QuotaSpan

\* What has left the window is forgotten here, by the limiter at its next call.
Recently(hits) == SubSeq(hits, FirstWithin(hits), Len(hits))

Moments(calls) == [i \in DOMAIN calls |-> calls[i].at]

HourPasses ==
    /\ hour < MaxHour
    /\ hour' = hour + 1
    /\ processHits' = Recently(processHits)
    /\ investorHits' = [u \in Investors |-> Recently(investorHits[u])]
    /\ narrated' = SubSeq(narrated, FirstWithin(Moments(narrated)), Len(narrated))
    /\ UNCHANGED <<signals, task, analyses, stamp>>

ExplainNext ==
    \/ \E c \in Analysts :
           \/ \E u \in Owners, scope \in Scopes :
                  \/ BeginAnalysis(c, u, scope)
                  \/ AnalyzeAlone(c, u, scope)
           \/ \E u \in Investors \ Owners : ExplainSet(c, u)
           \/ Acquire(c)
           \/ \E retried \in BOOLEAN : AttemptInVain(c, retried)
           \/ \E reply \in Replies : AttemptAnswered(c, reply)
           \/ LoseTask(c)
    \/ \E a \in analyses : RemoveAnalysis(a)
    \/ \E p \in Positions : MoveMarket(p)
    \/ HourPasses

ExplainSpec == ExplainInit /\ [][ExplainNext]_explainVars

-----------------------------------------------------------------------------
(* Properties. *)

\* An analysis that was slow to be told does not take the place of one with later
\* evidence: another one becomes current only with later evidence, or when the
\* current one is deleted.
OlderNeverTakesOver ==
    [][\A u \in Investors, scope \in Scopes :
           \A a \in Newest(u, scope), b \in Newest(u, scope)' :
               b.at < a.at => \E d \in analyses' : d.at = a.at /\ d.deleted]_explainVars

\* The calls within the window.
Lately == {i \in DOMAIN narrated : narrated[i].at > hour - QuotaSpan}

\* A user is refused only if the user, or all users, have had their share of the
\* window, and never gets more: calls that were refused take nothing from anyone.
QuotasAreExact ==
    [][\A c \in Analysts : Stands(c, "acquire") /\ task'[c] # task[c] =>
           LET mine == {i \in Lately : narrated[i].user = task[c].user}
           IN  Stands(c, "call")' <=>
                   Cardinality(mine) < PerInvestor /\ Cardinality(Lately) < PerProcess]_explainVars
=============================================================================
