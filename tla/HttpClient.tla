----------------------------- MODULE HttpClient -----------------------------
(***************************************************************************)
(* The HTTP client of crates/mtw-http: the attempt loop of client.rs and   *)
(* the stages of its response pipeline that retry, refuse or remember.     *)
(* Several tasks share one client, and with it the circuit breaker of the  *)
(* one host they talk to, the refresh counter and the cache.  A stage is   *)
(* one step unless it awaits, or touches the cache twice.                  *)
(***************************************************************************)
EXTENDS Naturals, FiniteSets

CONSTANTS Tasks,         \* the tasks that use the client, one call at a time
          Keys,          \* what a call asks for: the method and URL
          Pipelines,     \* the sets of stages a client may be built with
          Statuses,      \* what the server may answer in this instance
          MaxRetries,    \* max_retries of the client
          RetryMax,      \* max_retries of the retry stage
          Threshold,     \* failure_threshold
          HalfOpenMax,   \* half_open_max_requests
          MaxRefreshes,  \* max_refresh_attempts
          MaxEntries,    \* max_entries of the cache
          MaxFailures,   \* bound: failures counted before the server recovers
          None

\* The stages in question and their priorities; timeout, metrics and the
\* parsing stages only enrich the response.
Priority == [breaker |-> 2, auth |-> 5, status |-> 10, rate_limit |-> 12,
             retry |-> 15, cache |-> 30]

\* 200, 200 with no-store, 304, 401, 404, 429 and 503.
AllStatuses == {"ok", "no_store", "unchanged", "unauthorized", "missing", "limited", "failing"}

ASSUME HttpAssumption ==
    /\ Pipelines \subseteq SUBSET DOMAIN Priority
    /\ Statuses \subseteq AllStatuses
    /\ {MaxRetries, RetryMax, Threshold, HalfOpenMax, MaxRefreshes, MaxEntries,
        MaxFailures} \subseteq Nat
    /\ IsFiniteSet(Tasks) /\ IsFiniteSet(Keys)
    /\ None \notin Keys \cup AllStatuses

VARIABLES
    stages,     \* the stages of this client's pipeline
    at,         \* where the call of each task is
    attempt,    \* context.attempt
    response,   \* the response in the pipeline
    key,        \* what the call asks for
    outcome,    \* how the latest call of each task ended
    circuit,    \* the breaker's state ...
    failures,   \* ... its failure_count ...
    probes,     \* ... its half_open_requests ...
    cooled,     \* ... and whether recovery_timeout has passed since a failure
    refreshes,  \* refresh_count
    cache,      \* the keys that are cached
    victim,     \* the entry a task is about to remove
    overlapped  \* history: two calls were making room and storing at once

breakerVars == <<circuit, failures, probes, cooled>>
cacheVars == <<cache, victim, overlapped>>
vars == <<stages, at, attempt, response, key, outcome, breakerVars, refreshes, cacheVars>>

Outcomes == {"none", "returned", "cached", "no connection", "exhausted", "breaker open",
             "refused", "not refreshed", "bad status"}

TypeOK ==
    /\ stages \in Pipelines
    /\ at \in [Tasks -> stages \cup {"idle", "sending", "refreshing", "waiting",
                                    "expiring", "picking", "removing", "storing"}]
    /\ attempt \in [Tasks -> 0..(MaxRetries + 1)]
    /\ response \in [Tasks -> AllStatuses \cup {None}]
    /\ key \in [Tasks -> Keys \cup {None}]
    /\ outcome \in [Tasks -> Outcomes]
    /\ circuit \in {"Closed", "Open", "HalfOpen"}
    /\ failures \in Nat
    /\ probes \in 0..HalfOpenMax
    /\ cooled \in BOOLEAN
    /\ refreshes \in 0..MaxRefreshes
    /\ cache \subseteq Keys
    /\ victim \in [Tasks -> Keys \cup {None}]
    /\ overlapped \in BOOLEAN

Init ==
    /\ stages \in Pipelines
    /\ at = [t \in Tasks |-> "idle"]
    /\ attempt = [t \in Tasks |-> 0]
    /\ response = [t \in Tasks |-> None]
    /\ key = [t \in Tasks |-> None]
    /\ outcome = [t \in Tasks |-> "none"]
    /\ circuit = "Closed" /\ failures = 0 /\ probes = 0 /\ cooled = FALSE
    /\ refreshes = 0
    /\ cache = {} /\ victim = [t \in Tasks |-> None] /\ overlapped = FALSE

-----------------------------------------------------------------------------
(* The attempt loop.                                                       *)

\* The call returns, and its context and response are gone.
Finish(t, how) ==
    /\ at' = [at EXCEPT ![t] = "idle"]
    /\ outcome' = [outcome EXCEPT ![t] = how]
    /\ attempt' = [attempt EXCEPT ![t] = 0]
    /\ response' = [response EXCEPT ![t] = None]
    /\ key' = [key EXCEPT ![t] = None]

\* The installed stages that run after priority p, lowest first.
Later(p) == {s \in stages : Priority[s] > p}
FirstOf(S) == CHOOSE s \in S : \A u \in S : Priority[s] <= Priority[u]

GoOn(t, p) ==
    IF Later(p) = {} THEN Finish(t, "returned")
    ELSE /\ at' = [at EXCEPT ![t] = FirstOf(Later(p))]
         /\ UNCHANGED <<attempt, response, key, outcome>>

\* A stage hands the response on.
Continue(t) == GoOn(t, Priority[at[t]])

\* Faults: the attempt is not counted; one attempt too many is made.
AgainUncounted(t) ==
    /\ at' = [at EXCEPT ![t] = "sending"]
    /\ UNCHANGED <<attempt, response, key, outcome>>
AgainOnceMore(t) ==
    IF attempt[t] > MaxRetries + 1 THEN Finish(t, "exhausted")
    ELSE /\ at' = [at EXCEPT ![t] = "sending"]
         /\ attempt' = [attempt EXCEPT ![t] = @ + 1]
         /\ UNCHANGED <<response, key, outcome>>

\* A stage asks for a retry: the loop counts it and gives up beyond the limit.
Again(t) ==
    IF attempt[t] >= MaxRetries + 1 THEN Finish(t, "exhausted")
    ELSE /\ at' = [at EXCEPT ![t] = "sending"]
         /\ attempt' = [attempt EXCEPT ![t] = @ + 1]
         /\ UNCHANGED <<response, key, outcome>>

Call(t) ==
    /\ at[t] = "idle"
    /\ \E k \in Keys : key' = [key EXCEPT ![t] = k]
    /\ at' = [at EXCEPT ![t] = "sending"]
    /\ attempt' = [attempt EXCEPT ![t] = 1]
    /\ outcome' = [outcome EXCEPT ![t] = "none"]
    /\ UNCHANGED <<stages, response, breakerVars, refreshes, cacheVars>>

\* The request fails without a response, or the server answers it.
SendFails(t) ==
    /\ at[t] = "sending"
    /\ Finish(t, "no connection")
    /\ UNCHANGED <<stages, breakerVars, refreshes, cacheVars>>

Respond(t, status) ==
    /\ at[t] = "sending"
    /\ status = "failing" => failures < MaxFailures
    /\ IF stages = {} THEN Finish(t, "returned")
       ELSE /\ at' = [at EXCEPT ![t] = FirstOf(stages)]
            /\ response' = [response EXCEPT ![t] = status]
            /\ UNCHANGED <<attempt, key, outcome>>
    /\ UNCHANGED <<stages, breakerVars, refreshes, cacheVars>>

-----------------------------------------------------------------------------
(* circuit_breaker: every response of the host, under one lock.            *)

\* The state after an Open circuit that has cooled became HalfOpen.
Reopens == circuit = "Open" /\ cooled
Entered == IF Reopens THEN "HalfOpen" ELSE circuit
Probes == IF Reopens THEN 0 ELSE probes

Refusing == Entered = "Open" \/ (Entered = "HalfOpen" /\ Probes >= HalfOpenMax)

BreakerRefuses(t) ==
    /\ at[t] = "breaker" /\ Refusing
    /\ circuit' = Entered /\ probes' = Probes
    /\ Finish(t, "breaker open")
    /\ UNCHANGED <<stages, failures, cooled, refreshes, cacheVars>>

\* Fault: a probe that fails leaves the circuit half open.
FailureCountedOnce(t) ==
    /\ at[t] = "breaker" /\ ~Refusing /\ response[t] = "failing"
    /\ probes' = IF Entered = "HalfOpen" THEN Probes + 1 ELSE Probes
    /\ failures' = failures + 1
    /\ cooled' = FALSE
    /\ circuit' = IF failures + 1 = Threshold THEN "Open" ELSE Entered
    /\ Continue(t)
    /\ UNCHANGED <<stages, refreshes, cacheVars>>

BreakerCountsFailure(t) ==
    /\ at[t] = "breaker" /\ ~Refusing /\ response[t] = "failing"
    /\ probes' = IF Entered = "HalfOpen" THEN Probes + 1 ELSE Probes
    /\ failures' = failures + 1
    /\ cooled' = FALSE
    /\ circuit' = IF failures + 1 >= Threshold THEN "Open" ELSE Entered
    /\ Continue(t)
    /\ UNCHANGED <<stages, refreshes, cacheVars>>

BreakerSeesSuccess(t) ==
    /\ at[t] = "breaker" /\ ~Refusing /\ response[t] # "failing"
    /\ probes' = IF Entered = "HalfOpen" THEN Probes + 1 ELSE Probes
    /\ failures' = 0
    /\ circuit' = IF Entered = "HalfOpen" THEN "Closed" ELSE Entered
    /\ Continue(t)
    /\ UNCHANGED <<stages, cooled, refreshes, cacheVars>>

\* recovery_timeout passes.
CoolDown ==
    /\ circuit = "Open" /\ ~cooled
    /\ cooled' = TRUE
    /\ UNCHANGED <<stages, at, attempt, response, key, outcome, circuit, failures, probes,
                   refreshes, cacheVars>>

-----------------------------------------------------------------------------
(* auth_refresh: the counter is locked only while it is read and written.  *)

AuthPasses(t) ==
    /\ at[t] = "auth" /\ response[t] # "unauthorized"
    /\ refreshes' = 0
    /\ Continue(t)
    /\ UNCHANGED <<stages, breakerVars, cacheVars>>

AuthRefuses(t) ==
    /\ at[t] = "auth" /\ response[t] = "unauthorized" /\ refreshes >= MaxRefreshes
    /\ Finish(t, "refused")
    /\ UNCHANGED <<stages, breakerVars, refreshes, cacheVars>>

AuthStarts(t) ==
    /\ at[t] = "auth" /\ response[t] = "unauthorized" /\ refreshes < MaxRefreshes
    /\ refreshes' = refreshes + 1
    /\ at' = [at EXCEPT ![t] = "refreshing"]
    /\ UNCHANGED <<stages, attempt, response, key, outcome, breakerVars, cacheVars>>

\* refresh_fn() returns: a new token, or an error that ends the call.
RefreshEnds(t) ==
    /\ at[t] = "refreshing"
    /\ Again(t) \/ Finish(t, "not refreshed")
    /\ UNCHANGED <<stages, breakerVars, refreshes, cacheVars>>

-----------------------------------------------------------------------------
(* status_check, rate_limit, retry: each looks at the same attempt count.  *)

Retryable(t) == response[t] \in {"limited", "failing"}

\* Fault: the last attempt is retried too.
StatusRetriesOnceMore(t) ==
    /\ at[t] = "status" /\ Retryable(t) /\ attempt[t] <= MaxRetries + 1
    /\ Again(t)
    /\ UNCHANGED <<stages, breakerVars, refreshes, cacheVars>>

StatusRetries(t) ==
    /\ at[t] = "status" /\ Retryable(t) /\ attempt[t] <= MaxRetries
    /\ Again(t)
    /\ UNCHANGED <<stages, breakerVars, refreshes, cacheVars>>

StatusFails(t) ==
    /\ at[t] = "status"
    /\ response[t] \in {"unauthorized", "missing"} \/ (Retryable(t) /\ attempt[t] > MaxRetries)
    /\ Finish(t, "bad status")
    /\ UNCHANGED <<stages, breakerVars, refreshes, cacheVars>>

StatusPasses(t) ==
    /\ at[t] = "status" /\ response[t] \in {"ok", "no_store", "unchanged"}
    /\ Continue(t)
    /\ UNCHANGED <<stages, breakerVars, refreshes, cacheVars>>

\* Both stages sleep before they ask for the retry.
Waits(t) ==
    \/ at[t] = "rate_limit" /\ response[t] = "limited" /\ attempt[t] <= MaxRetries
    \/ at[t] = "retry" /\ Retryable(t) /\ attempt[t] <= RetryMax

StartWait(t) ==
    /\ Waits(t)
    /\ at' = [at EXCEPT ![t] = "waiting"]
    /\ UNCHANGED <<stages, attempt, response, key, outcome, breakerVars, refreshes, cacheVars>>

NoWait(t) ==
    /\ at[t] \in {"rate_limit", "retry"} /\ ~Waits(t)
    /\ Continue(t)
    /\ UNCHANGED <<stages, breakerVars, refreshes, cacheVars>>

EndWait(t) ==
    /\ at[t] = "waiting"
    /\ Again(t)
    /\ UNCHANGED <<stages, breakerVars, refreshes, cacheVars>>

-----------------------------------------------------------------------------
(* cache: the shared map is counted, swept, searched for an entry to drop  *)
(* and added to, each in a step of its own.                                *)

CacheHit(t) ==
    /\ at[t] = "cache" /\ response[t] = "unchanged" /\ key[t] \in cache
    /\ Finish(t, "cached")
    /\ UNCHANGED <<stages, breakerVars, refreshes, cacheVars>>

CachePasses(t) ==
    /\ at[t] = "cache" /\ response[t] # "ok"
    /\ response[t] = "unchanged" => key[t] \notin cache
    /\ Continue(t)
    /\ UNCHANGED <<stages, breakerVars, refreshes, cacheVars>>

\* From the count of the entries to the insertion.
Caching == {t \in Tasks : at[t] \in {"expiring", "picking", "removing", "storing"}}

Step(t, place) ==
    /\ at' = [at EXCEPT ![t] = place]
    /\ UNCHANGED <<stages, attempt, response, key, outcome, breakerVars, refreshes>>

CacheChecks(t) ==
    /\ at[t] = "cache" /\ response[t] = "ok"
    /\ overlapped' = (overlapped \/ Caching # {})
    /\ Step(t, IF Cardinality(cache) >= MaxEntries THEN "expiring" ELSE "storing")
    /\ UNCHANGED <<cache, victim>>

\* The entries that have expired go, whichever they are.
CacheExpires(t) ==
    /\ at[t] = "expiring"
    /\ cache' \in SUBSET cache
    /\ Step(t, IF Cardinality(cache') >= MaxEntries THEN "picking" ELSE "storing")
    /\ UNCHANGED <<victim, overlapped>>

\* Fault: what has not expired stays.
CachePicksNone(t) ==
    /\ at[t] = "picking"
    /\ Step(t, "storing")
    /\ UNCHANGED <<cache, victim, overlapped>>

\* Some entry is the first one found.
CachePicks(t) ==
    /\ at[t] = "picking"
    /\ IF cache = {} THEN Step(t, "storing") /\ UNCHANGED victim
       ELSE /\ \E k \in cache : victim' = [victim EXCEPT ![t] = k]
            /\ Step(t, "removing")
    /\ UNCHANGED <<cache, overlapped>>

CacheRemoves(t) ==
    /\ at[t] = "removing"
    /\ cache' = cache \ {victim[t]}
    /\ victim' = [victim EXCEPT ![t] = None]
    /\ Step(t, "storing")
    /\ UNCHANGED overlapped

CacheStores(t) ==
    /\ at[t] = "storing"
    /\ cache' = cache \cup {key[t]}
    /\ GoOn(t, Priority.cache)
    /\ UNCHANGED <<stages, breakerVars, refreshes, victim, overlapped>>

-----------------------------------------------------------------------------
Stage(t) ==
    \/ BreakerRefuses(t) \/ BreakerCountsFailure(t) \/ BreakerSeesSuccess(t)
    \/ AuthPasses(t) \/ AuthRefuses(t) \/ AuthStarts(t) \/ RefreshEnds(t)
    \/ StatusRetries(t) \/ StatusFails(t) \/ StatusPasses(t)
    \/ StartWait(t) \/ NoWait(t) \/ EndWait(t)
    \/ CacheHit(t) \/ CachePasses(t) \/ CacheChecks(t) \/ CacheExpires(t)
    \/ CachePicks(t) \/ CacheRemoves(t) \/ CacheStores(t)

Answer(t) == SendFails(t) \/ \E status \in Statuses : Respond(t, status)

Next ==
    \/ \E t \in Tasks : Call(t) \/ Answer(t) \/ Stage(t)
    \/ CoolDown

\* Stages run, sleeps end, refresh_fn returns; a request is answered or fails,
\* as one with a timeout does.
Fairness == \A t \in Tasks : WF_vars(Stage(t)) /\ WF_vars(Answer(t))

Spec == Init /\ [][Next]_vars
FairSpec == Spec /\ Fairness

-----------------------------------------------------------------------------
(* What the client promises.                                               *)

\* Whatever order the responses of concurrent calls come in, the breaker is
\* open exactly when the failures since the last success reach the threshold,
\* and no half-open circuit is left behind that only refuses: each probe
\* decides at once.
BreakerCounts ==
    /\ circuit # "HalfOpen"
    /\ circuit = "Open" <=> failures >= Threshold

\* The cache exceeds max_entries only after two calls were making room and
\* storing at once: they count the same room twice, or pick the same entry.
CacheOverflowsOnlyTogether == Cardinality(cache) > MaxEntries => overlapped

\* The stages that retry a bad status never waste the last attempt: the caller
\* learns the status.  "max retries exceeded" comes only of a token that was
\* refused, or of a retry stage that allows more retries than the client.
GivesUpOnRefusedTokens ==
    [][\A t \in Tasks :
          outcome[t] # "exhausted" /\ outcome'[t] = "exhausted"
              => response[t] = "unauthorized" \/ RetryMax > MaxRetries]_vars

\* However the stages take turns in asking for retries, every call ends.
EveryCallEnds == \A t \in Tasks : at[t] # "idle" ~> at[t] = "idle"

\* The pipeline guide: "Refresh OAuth2 token on 401 and retry".  A call is not
\* refused while the refresh that may succeed is still under way.
RefreshedOn401 ==
    [][\A t \in Tasks :
          outcome[t] # "refused" /\ outcome'[t] = "refused"
              => ~\E u \in Tasks : at[u] = "refreshing"]_vars
=============================================================================
