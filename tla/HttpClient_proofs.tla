-------------------------- MODULE HttpClient_proofs --------------------------
(* Theorems about HttpClient, for any number of tasks, keys and retries, and
   for every choice of stages. *)
EXTENDS HttpClient, TLAPS, FiniteSetTheorems

Gap == {"expiring", "picking", "removing", "storing"}
Places == stages \cup {"idle", "sending", "refreshing", "waiting"} \cup Gap

\* The part of the state that belongs to the calls; a call under way knows what
\* it asks for.
KeysKnown == \A t \in Tasks : at[t] # "idle" => key[t] \in Keys

CallsOK ==
  /\ KeysKnown
  /\ stages \in Pipelines
  /\ at \in [Tasks -> Places]
  /\ attempt \in [Tasks -> 0..(MaxRetries + 1)]
  /\ response \in [Tasks -> AllStatuses \cup {None}]
  /\ key \in [Tasks -> Keys \cup {None}]
  /\ outcome \in [Tasks -> Outcomes]

\* The part the calls share.
SharedOK ==
  /\ circuit \in {"Closed", "Open", "HalfOpen"}
  /\ failures \in Nat /\ probes \in 0..HalfOpenMax /\ cooled \in BOOLEAN
  /\ refreshes \in 0..MaxRefreshes
  /\ cache \subseteq Keys /\ victim \in [Tasks -> Keys \cup {None}]
  /\ overlapped \in BOOLEAN

\* The two parts together are what TypeOK asks for.
LEMMA Parts == CallsOK /\ SharedOK => TypeOK
  BY DEF TypeOK, CallsOK, SharedOK, Places, Gap

\* Of the installed stages there is one with the lowest priority.
LEMMA FirstStage ==
  ASSUME NEW S, S \subseteq DOMAIN Priority, S # {}
  PROVE  FirstOf(S) \in S
  <1> DEFINE Least(s) == \A u \in S : Priority[s] <= Priority[u]
  <1>0. \A u \in S : u \in {"breaker", "auth", "status", "rate_limit", "retry", "cache"}
    BY DEF Priority
  <1>1. CASE "breaker" \in S  BY <1>0, <1>1 DEF Priority, FirstOf
  <1>2. CASE "breaker" \notin S /\ "auth" \in S  BY <1>0, <1>2 DEF Priority, FirstOf
  <1>3. CASE S \cap {"breaker", "auth"} = {} /\ "status" \in S
    BY <1>0, <1>3 DEF Priority, FirstOf
  <1>4. CASE S \cap {"breaker", "auth", "status"} = {} /\ "rate_limit" \in S
    BY <1>0, <1>4 DEF Priority, FirstOf
  <1>5. CASE S \cap {"breaker", "auth", "status", "rate_limit"} = {} /\ "retry" \in S
    BY <1>0, <1>5 DEF Priority, FirstOf
  <1>6. CASE S \subseteq {"cache"}  BY <1>6 DEF Priority, FirstOf
  <1> QED  BY <1>0, <1>1, <1>2, <1>3, <1>4, <1>5, <1>6

\* The other calls stay where they are.
OthersStay(t) == \A u \in Tasks \ {t} : at'[u] = at[u]

LEMMA FinishMoves ==
  ASSUME CallsOK, NEW t \in Tasks, NEW how \in Outcomes, Finish(t, how), stages' = stages
  PROVE  CallsOK' /\ at'[t] = "idle" /\ OthersStay(t)
  <1>1. Places' = Places  BY DEF Places
  <1>2. at' = [at EXCEPT ![t] = "idle"] /\ at \in [Tasks -> Places] /\ "idle" \in Places
    BY DEF CallsOK, Finish, Places
  <1>3. at' \in [Tasks -> Places] /\ at'[t] = "idle" /\ OthersStay(t)
    BY <1>2 DEF OthersStay
  <1>4. outcome' \in [Tasks -> Outcomes]  BY DEF CallsOK, Finish
  <1>5. attempt' \in [Tasks -> 0..(MaxRetries + 1)]
    <2>1. 0 \in 0..(MaxRetries + 1)  BY HttpAssumption
    <2> QED  BY <2>1 DEF CallsOK, Finish
  <1>6. response' \in [Tasks -> AllStatuses \cup {None}] /\ key' \in [Tasks -> Keys \cup {None}]
    BY DEF CallsOK, Finish
  <1>7. KeysKnown'
    <2>1. \A u \in Tasks \ {t} : key'[u] = key[u]  BY DEF Finish, CallsOK
    <2> QED  BY <1>3, <2>1 DEF CallsOK, KeysKnown, OthersStay
  <1> QED  BY <1>1, <1>3, <1>4, <1>5, <1>6, <1>7 DEF CallsOK

\* Where a call may stay or go without touching anything else of its own.
LEMMA JumpMoves ==
  ASSUME CallsOK, NEW t \in Tasks, NEW p \in Places, at[t] # "idle", at' = [at EXCEPT ![t] = p],
         UNCHANGED <<stages, attempt, response, key, outcome>>
  PROVE  CallsOK' /\ at'[t] = p /\ OthersStay(t)
  <1>1. Places' = Places  BY DEF Places
  <1>2. at' \in [Tasks -> Places] /\ at'[t] = p /\ OthersStay(t)
    BY DEF CallsOK, OthersStay
  <1>3. KeysKnown'  BY <1>2 DEF CallsOK, KeysKnown, OthersStay
  <1> QED  BY <1>1, <1>2, <1>3 DEF CallsOK

\* A retry leads to the next attempt or to the end of the call.
LEMMA AgainMoves ==
  ASSUME CallsOK, NEW t \in Tasks, at[t] # "idle", Again(t), stages' = stages
  PROVE  CallsOK' /\ at'[t] \in {"idle", "sending"} /\ OthersStay(t)
  <1>1. CASE attempt[t] >= MaxRetries + 1
    <2>1. Finish(t, "exhausted") /\ "exhausted" \in Outcomes
      BY <1>1 DEF Again, Outcomes
    <2> QED  BY <2>1, FinishMoves
  <1>2. CASE ~(attempt[t] >= MaxRetries + 1)
    <2>1. /\ at' = [at EXCEPT ![t] = "sending"]
          /\ attempt' = [attempt EXCEPT ![t] = @ + 1] /\ attempt[t] + 1 \in 0..(MaxRetries + 1)
          /\ UNCHANGED <<stages, response, key, outcome>>
      BY <1>2, HttpAssumption DEF Again, CallsOK
    <2>2. attempt' \in [Tasks -> 0..(MaxRetries + 1)]  BY <2>1 DEF CallsOK
    <2>3. Places' = Places /\ "sending" \in Places  BY <2>1 DEF Places
    <2>4. at' \in [Tasks -> Places] /\ at'[t] = "sending" /\ OthersStay(t)
      BY <2>1, <2>3 DEF CallsOK, OthersStay
    <2>5. KeysKnown'  BY <2>1, <2>4 DEF CallsOK, KeysKnown, OthersStay
    <2> QED  BY <2>1, <2>2, <2>3, <2>4, <2>5 DEF CallsOK
  <1> QED  BY <1>1, <1>2

\* A response goes on to a stage of the pipeline or back to the caller.
LEMMA GoOnMoves ==
  ASSUME CallsOK, NEW t \in Tasks, NEW p, at[t] # "idle", GoOn(t, p), stages' = stages
  PROVE  CallsOK' /\ at'[t] \in stages \cup {"idle"} /\ OthersStay(t)
  <1>1. CASE Later(p) = {}
    <2>1. Finish(t, "returned") /\ "returned" \in Outcomes
      BY <1>1 DEF GoOn, Outcomes
    <2> QED  BY <2>1, FinishMoves
  <1>2. CASE Later(p) # {}
    <2>1. Later(p) \subseteq stages /\ stages \subseteq DOMAIN Priority
      BY HttpAssumption DEF Later, CallsOK
    <2>2. FirstOf(Later(p)) \in stages  BY <1>2, <2>1, FirstStage
    <2>3. /\ FirstOf(Later(p)) \in Places /\ at' = [at EXCEPT ![t] = FirstOf(Later(p))]
          /\ UNCHANGED <<stages, attempt, response, key, outcome>>
      BY <1>2, <2>2 DEF GoOn, Places
    <2> QED  BY <2>2, <2>3, JumpMoves
  <1> QED  BY <1>1, <1>2
-----------------------------------------------------------------------------
(* Type correctness.                                                       *)

\* The breaker's step of one response: the call goes on or ends, and the
\* counters stay within their bounds.
LEMMA BreakerMoves ==
  ASSUME CallsOK, SharedOK, NEW t \in Tasks,
         BreakerRefuses(t) \/ BreakerCountsFailure(t) \/ BreakerSeesSuccess(t)
  PROVE  CallsOK' /\ SharedOK' /\ at'[t] \in stages \cup {"idle"} /\ OthersStay(t)
  <1>1. Probes \in 0..HalfOpenMax /\ Entered \in {"Closed", "Open", "HalfOpen"}
    BY HttpAssumption DEF Probes, Entered, SharedOK
  <1>2. CASE BreakerRefuses(t)
    <2>0. /\ circuit' \in {"Closed", "Open", "HalfOpen"} /\ failures' \in Nat
          /\ probes' \in 0..HalfOpenMax /\ refreshes' \in 0..MaxRefreshes /\ cache' \subseteq Keys
          /\ victim' \in [Tasks -> Keys \cup {None}]
      BY <1>1, <1>2 DEF BreakerRefuses, SharedOK, cacheVars
    <2>1. SharedOK'
      <3>1. cooled' \in BOOLEAN /\ overlapped' \in BOOLEAN
        BY <1>2, Zenon DEF BreakerRefuses, SharedOK, cacheVars
      <3> QED  BY <2>0, <3>1 DEF SharedOK
    <2>2. "breaker open" \in Outcomes  BY DEF Outcomes
    <2> QED  BY <1>2, <2>1, <2>2, FinishMoves DEF BreakerRefuses
  <1>3. ~Refusing => (IF Entered = "HalfOpen" THEN Probes + 1 ELSE Probes) \in 0..HalfOpenMax
    BY <1>1, HttpAssumption DEF Refusing
  <1>4. CASE BreakerCountsFailure(t)
    <2>0. /\ circuit' \in {"Closed", "Open", "HalfOpen"} /\ failures' \in Nat
          /\ probes' \in 0..HalfOpenMax /\ refreshes' \in 0..MaxRefreshes /\ cache' \subseteq Keys
          /\ victim' \in [Tasks -> Keys \cup {None}]
      BY <1>1, <1>3, <1>4 DEF BreakerCountsFailure, SharedOK, cacheVars
    <2>1. SharedOK'
      <3>1. cooled' \in BOOLEAN /\ overlapped' \in BOOLEAN
        BY <1>4, Zenon DEF BreakerCountsFailure, SharedOK, cacheVars
      <3> QED  BY <2>0, <3>1 DEF SharedOK
    <2> QED  BY <1>4, <2>1, GoOnMoves DEF BreakerCountsFailure, Continue
  <1>5. CASE BreakerSeesSuccess(t)
    <2>0. /\ circuit' \in {"Closed", "Open", "HalfOpen"} /\ failures' \in Nat
          /\ probes' \in 0..HalfOpenMax /\ refreshes' \in 0..MaxRefreshes /\ cache' \subseteq Keys
          /\ victim' \in [Tasks -> Keys \cup {None}]
      BY <1>1, <1>3, <1>5 DEF BreakerSeesSuccess, SharedOK, cacheVars
    <2>1. SharedOK'
      <3>1. cooled' \in BOOLEAN /\ overlapped' \in BOOLEAN
        BY <1>5, Zenon DEF BreakerSeesSuccess, SharedOK, cacheVars
      <3> QED  BY <2>0, <3>1 DEF SharedOK
    <2> QED  BY <1>5, <2>1, GoOnMoves DEF BreakerSeesSuccess, Continue
  <1> QED  BY <1>2, <1>4, <1>5

\* The steps of the loop and of the stages that leave the cache alone.
QuietStep(t) ==
  \/ Call(t) \/ Answer(t)
  \/ BreakerRefuses(t) \/ BreakerCountsFailure(t) \/ BreakerSeesSuccess(t)
  \/ AuthPasses(t) \/ AuthRefuses(t) \/ AuthStarts(t) \/ RefreshEnds(t)
  \/ StatusRetries(t) \/ StatusFails(t) \/ StatusPasses(t)
  \/ StartWait(t) \/ NoWait(t) \/ EndWait(t)
  \/ CacheHit(t) \/ CachePasses(t)

\* Such a step keeps the types, moves no other call, and neither enters nor
\* leaves the gap between making room in the cache and storing.
LEMMA QuietMoves ==
  ASSUME CallsOK, SharedOK, NEW t \in Tasks, QuietStep(t)
  PROVE  /\ CallsOK' /\ SharedOK' /\ OthersStay(t)
         /\ at[t] \notin Gap /\ at'[t] \notin Gap /\ UNCHANGED cacheVars
  <1> DEFINE Result == /\ CallsOK' /\ OthersStay(t)
                       /\ at'[t] \in stages \cup {"idle", "sending", "refreshing", "waiting"}
             Same == circuit' = circuit /\ failures' = failures /\ probes' = probes
                     /\ cooled' = cooled
                     /\ cache' = cache /\ victim' = victim /\ overlapped' = overlapped
             Outside == {"idle", "sending", "refreshing", "waiting", "breaker", "auth",
                         "status", "rate_limit", "retry", "cache"}
             Fine == /\ CallsOK' /\ SharedOK' /\ OthersStay(t)
                     /\ at[t] \notin Gap /\ at'[t] \notin Gap /\ UNCHANGED cacheVars
  <1>0. \A s \in stages \cup Outside : s \notin Gap
    BY HttpAssumption DEF CallsOK, Priority, Gap
  <1>1. ASSUME Same, refreshes' \in 0..MaxRefreshes PROVE SharedOK' /\ UNCHANGED cacheVars
    <2>1. cooled' \in BOOLEAN /\ overlapped' \in BOOLEAN  BY <1>1, Zenon DEF SharedOK
    <2> QED  BY <1>1, <2>1 DEF SharedOK, cacheVars
  <1>2. refreshes' = refreshes => refreshes' \in 0..MaxRefreshes  BY DEF SharedOK
  <1>3. ASSUME NEW how \in Outcomes, Finish(t, how), stages' = stages PROVE Result
    BY <1>3, FinishMoves
  <1>4. ASSUME at[t] # "idle", Again(t), stages' = stages PROVE Result
    BY <1>4, AgainMoves
  <1>5. ASSUME NEW p, at[t] # "idle", GoOn(t, p), stages' = stages PROVE Result
    BY <1>5, GoOnMoves
  <1>6. ASSUME at[t] # "idle", Continue(t), stages' = stages PROVE Result
    BY <1>5, <1>6 DEF Continue
  <1>7. ASSUME NEW p \in {"refreshing", "waiting"}, at[t] # "idle", at' = [at EXCEPT ![t] = p],
               UNCHANGED <<stages, attempt, response, key, outcome>>
        PROVE  Result
    BY <1>7, JumpMoves DEF Places
  <1>b. ASSUME Same, refreshes' \in 0..MaxRefreshes, Result, at[t] \in Outside PROVE Fine
    <2>1. at[t] \notin Gap /\ at'[t] \notin Gap  BY <1>0, <1>b
    <2> QED  BY <1>1, <1>b, <2>1
  <1>a. {"no connection", "returned", "refused", "not refreshed", "bad status", "cached"}
           \subseteq Outcomes
    BY DEF Outcomes
  <1>8. CASE Call(t)
    <2>1. PICK k \in Keys : key' = [key EXCEPT ![t] = k]  BY <1>8 DEF Call
    <2>2. key' \in [Tasks -> Keys \cup {None}]  BY <2>1 DEF CallsOK
    <2>3. attempt' \in [Tasks -> 0..(MaxRetries + 1)]
      <3>1. 1 \in 0..(MaxRetries + 1)  BY HttpAssumption
      <3> QED  BY <1>8, <3>1 DEF Call, CallsOK
    <2>4. outcome' \in [Tasks -> Outcomes]
      <3>1. "none" \in Outcomes  BY DEF Outcomes
      <3> QED  BY <1>8, <3>1 DEF Call, CallsOK
    <2>5. stages' = stages /\ Places' = Places /\ response' = response
      BY <1>8 DEF Call, Places
    <2>6. at' \in [Tasks -> Places] /\ at'[t] = "sending" /\ OthersStay(t) /\ at[t] = "idle"
      <3>1. "sending" \in Places  BY DEF Places
      <3> QED  BY <1>8, <3>1 DEF Call, CallsOK, OthersStay
    <2>9. KeysKnown'  BY <2>1, <2>6 DEF CallsOK, KeysKnown, OthersStay
    <2>7. CallsOK'  BY <2>2, <2>3, <2>4, <2>5, <2>6, <2>9 DEF CallsOK
    <2>8. Same /\ refreshes' = refreshes  BY <1>8 DEF Call, breakerVars, cacheVars
    <2> QED  BY <1>0, <1>1, <1>2, <1>b, <2>6, <2>7, <2>8
  <1>9. CASE SendFails(t)
    <2>1. Same /\ refreshes' = refreshes /\ at[t] = "sending"  BY <1>9 DEF SendFails, breakerVars, cacheVars
    <2>2. Result  BY <1>3, <1>9, <1>a DEF SendFails
    <2>9. at[t] \in Outside  BY <2>1
    <2> QED  BY <1>2, <1>b, <2>1, <2>2, <2>9
  <1>10. ASSUME NEW status \in Statuses, Respond(t, status) PROVE Fine
    <2>1. Same /\ refreshes' = refreshes /\ at[t] = "sending" /\ stages' = stages
      BY <1>10 DEF Respond, breakerVars, cacheVars
    <2>2. CASE stages = {}
      <3>1. Finish(t, "returned")  BY <1>10, <2>2 DEF Respond
      <3>2. Result  BY <1>3, <1>a, <2>1, <3>1
      <3> QED  BY <1>2, <1>b, <2>1, <3>2
    <2>3. CASE stages # {}
      <3>1. stages \subseteq DOMAIN Priority  BY HttpAssumption DEF CallsOK
      <3>2. FirstOf(stages) \in stages  BY <2>3, <3>1, FirstStage
      <3>3. at' = [at EXCEPT ![t] = FirstOf(stages)] /\ response' = [response EXCEPT ![t] = status]
            /\ UNCHANGED <<attempt, key, outcome>>
        BY <1>10, <2>3 DEF Respond
      <3>4. Places' = Places /\ stages \subseteq Places  BY <2>1 DEF Places
      <3>5. at' \in [Tasks -> Places] /\ at'[t] \in stages /\ OthersStay(t)
        BY <3>2, <3>3, <3>4 DEF CallsOK, OthersStay
      <3>6. response' \in [Tasks -> AllStatuses \cup {None}]
        BY <3>3, HttpAssumption DEF CallsOK
      <3>7. KeysKnown'  BY <2>1, <3>3, <3>5 DEF CallsOK, KeysKnown, OthersStay
      <3>8. CallsOK'  BY <2>1, <3>3, <3>4, <3>5, <3>6, <3>7 DEF CallsOK
      <3>9. Result  BY <2>1, <3>5, <3>8
      <3> QED  BY <1>2, <1>b, <2>1, <3>9
    <2> QED  BY <2>2, <2>3
  <1>11. CASE BreakerRefuses(t) \/ BreakerCountsFailure(t) \/ BreakerSeesSuccess(t)
    <2>1. at[t] = "breaker" /\ UNCHANGED cacheVars
      BY <1>11 DEF BreakerRefuses, BreakerCountsFailure, BreakerSeesSuccess
    <2>2. CallsOK' /\ SharedOK' /\ at'[t] \in stages \cup {"idle"} /\ OthersStay(t)
      BY <1>11, BreakerMoves
    <2> QED  BY <1>0, <2>1, <2>2
  <1>12. CASE AuthPasses(t)
    <2>1. Same /\ refreshes' = 0 /\ at[t] = "auth" /\ stages' = stages /\ Continue(t)
      BY <1>12 DEF AuthPasses, breakerVars, cacheVars
    <2>2. refreshes' \in 0..MaxRefreshes  BY <2>1, HttpAssumption
    <2>9. at[t] \in Outside  BY <2>1
    <2>8. Result  BY <1>6, <2>1
    <2> QED  BY <1>b, <2>1, <2>2, <2>8, <2>9
  <1>13. CASE AuthRefuses(t)
    <2>1. Same /\ refreshes' = refreshes /\ at[t] = "auth" /\ stages' = stages /\ Finish(t, "refused")
      BY <1>13 DEF AuthRefuses, breakerVars, cacheVars
    <2>9. at[t] \in Outside  BY <2>1
    <2>8. Result  BY <1>3, <1>a, <2>1
    <2> QED  BY <1>2, <1>b, <2>1, <2>8, <2>9
  <1>14. CASE AuthStarts(t)
    <2>1. Same /\ at[t] = "auth" /\ refreshes < MaxRefreshes /\ refreshes' = refreshes + 1
      BY <1>14 DEF AuthStarts, breakerVars, cacheVars
    <2>2. refreshes' \in 0..MaxRefreshes  BY <2>1, HttpAssumption DEF SharedOK
    <2>3. Result  BY <1>7, <1>14 DEF AuthStarts
    <2>9. at[t] \in Outside  BY <2>1
    <2> QED  BY <1>b, <2>1, <2>2, <2>3, <2>9
  <1>15. CASE RefreshEnds(t)
    <2>1. Same /\ refreshes' = refreshes /\ at[t] = "refreshing" /\ stages' = stages
          /\ (Again(t) \/ Finish(t, "not refreshed"))
      BY <1>15 DEF RefreshEnds, breakerVars, cacheVars
    <2>9. at[t] \in Outside  BY <2>1
    <2>8. Result  BY <1>3, <1>4, <1>a, <2>1
    <2> QED  BY <1>2, <1>b, <2>1, <2>8, <2>9
  <1>16. CASE StatusRetries(t)
    <2>1. Same /\ refreshes' = refreshes /\ at[t] = "status" /\ stages' = stages /\ Again(t)
      BY <1>16 DEF StatusRetries, breakerVars, cacheVars
    <2>9. at[t] \in Outside  BY <2>1
    <2>8. Result  BY <1>4, <2>1
    <2> QED  BY <1>2, <1>b, <2>1, <2>8, <2>9
  <1>17. CASE StatusFails(t)
    <2>1. Same /\ refreshes' = refreshes /\ at[t] = "status" /\ stages' = stages
          /\ Finish(t, "bad status")
      BY <1>17 DEF StatusFails, breakerVars, cacheVars
    <2>9. at[t] \in Outside  BY <2>1
    <2>8. Result  BY <1>3, <1>a, <2>1
    <2> QED  BY <1>2, <1>b, <2>1, <2>8, <2>9
  <1>18. CASE StatusPasses(t)
    <2>1. Same /\ refreshes' = refreshes /\ at[t] = "status" /\ stages' = stages /\ Continue(t)
      BY <1>18 DEF StatusPasses, breakerVars, cacheVars
    <2>9. at[t] \in Outside  BY <2>1
    <2>8. Result  BY <1>6, <2>1
    <2> QED  BY <1>2, <1>b, <2>1, <2>8, <2>9
  <1>19. CASE StartWait(t)
    <2>1. Same /\ refreshes' = refreshes /\ at[t] \in {"rate_limit", "retry"}
      BY <1>19 DEF StartWait, Waits, breakerVars, cacheVars
    <2>2. at' = [at EXCEPT ![t] = "waiting"] /\ UNCHANGED <<stages, attempt, response, key, outcome>>
      BY <1>19 DEF StartWait
    <2>3. at[t] # "idle"  BY <2>1
    <2>4. Result  BY <1>7, <2>2, <2>3
    <2>9. at[t] \in Outside  BY <2>1
    <2> QED  BY <1>2, <1>b, <2>1, <2>4, <2>9
  <1>20. CASE NoWait(t)
    <2>1. Same /\ refreshes' = refreshes /\ at[t] \in {"rate_limit", "retry"} /\ stages' = stages
          /\ Continue(t)
      BY <1>20 DEF NoWait, breakerVars, cacheVars
    <2>9. at[t] \in Outside  BY <2>1
    <2>8. Result  BY <1>6, <2>1
    <2> QED  BY <1>2, <1>b, <2>1, <2>8, <2>9
  <1>21. CASE EndWait(t)
    <2>1. Same /\ refreshes' = refreshes /\ at[t] = "waiting" /\ stages' = stages /\ Again(t)
      BY <1>21 DEF EndWait, breakerVars, cacheVars
    <2>9. at[t] \in Outside  BY <2>1
    <2>8. Result  BY <1>4, <2>1
    <2> QED  BY <1>2, <1>b, <2>1, <2>8, <2>9
  <1>22. CASE CacheHit(t)
    <2>1. Same /\ refreshes' = refreshes /\ at[t] = "cache" /\ stages' = stages /\ Finish(t, "cached")
      BY <1>22 DEF CacheHit, breakerVars, cacheVars
    <2>9. at[t] \in Outside  BY <2>1
    <2>8. Result  BY <1>3, <1>a, <2>1
    <2> QED  BY <1>2, <1>b, <2>1, <2>8, <2>9
  <1>23. CASE CachePasses(t)
    <2>1. Same /\ refreshes' = refreshes /\ at[t] = "cache" /\ stages' = stages /\ Continue(t)
      BY <1>23 DEF CachePasses, breakerVars, cacheVars
    <2>9. at[t] \in Outside  BY <2>1
    <2>8. Result  BY <1>6, <2>1
    <2> QED  BY <1>2, <1>b, <2>1, <2>8, <2>9
  <1>24. CASE \E status \in Statuses : Respond(t, status)
    BY <1>10, <1>24
  <1>25. CASE Answer(t)  BY <1>9, <1>24, <1>25 DEF Answer
  <1> HIDE DEF Fine, Result, Same
  <1> QED
    BY <1>8, <1>25, <1>11, <1>12, <1>13, <1>14, <1>15, <1>16, <1>17, <1>18, <1>19,
       <1>20, <1>21, <1>22, <1>23 DEF QuietStep

\* What the cache stage does from the count of the entries to the insertion.
CacheStep(t) ==
  \/ CacheChecks(t) \/ CacheExpires(t) \/ CachePicks(t) \/ CacheRemoves(t) \/ CacheStores(t)

\* A step within the gap moves one call along and no other.
LEMMA GapMoves ==
  ASSUME CallsOK, NEW t \in Tasks, NEW p \in Gap, Step(t, p), at[t] # "idle"
  PROVE  CallsOK' /\ at'[t] = p /\ OthersStay(t)
  <1>1. p \in Places /\ at' = [at EXCEPT ![t] = p]
        /\ UNCHANGED <<stages, attempt, response, key, outcome>>
    BY DEF Places, Step
  <1> QED  BY <1>1, JumpMoves

\* The steps of the cache stage keep the types.
LEMMA StoreMoves ==
  ASSUME CallsOK, SharedOK, NEW t \in Tasks, CacheStep(t)
  PROVE  /\ CallsOK' /\ SharedOK' /\ OthersStay(t)
         /\ CacheStores(t) => at'[t] \notin Gap
  <1>0. \A s \in stages \cup {"idle"} : s \notin Gap
    BY HttpAssumption DEF CallsOK, Priority, Gap
  <1>1. ASSUME cache' \subseteq Keys, victim' \in [Tasks -> Keys \cup {None}],
               overlapped' \in BOOLEAN,
               UNCHANGED <<refreshes, circuit, failures, probes, cooled>>
        PROVE  SharedOK'
    <2>1. cooled' \in BOOLEAN  BY <1>1, Zenon DEF SharedOK
    <2> QED  BY <1>1, <2>1 DEF SharedOK
  <1>2. ASSUME NEW p \in Gap, Step(t, p), at[t] # "idle"
        PROVE  CallsOK' /\ OthersStay(t) /\ UNCHANGED <<refreshes, circuit, failures, probes, cooled>>
    <2>1. CallsOK' /\ OthersStay(t)  BY <1>2, GapMoves
    <2> QED  BY <1>2, <2>1 DEF Step, breakerVars
  <1>3. CASE CacheChecks(t)
    <2>1. PICK p \in Gap : Step(t, p)  BY <1>3 DEF CacheChecks, Gap
    <2>2. at[t] = "cache" /\ cache' = cache /\ victim' = victim  BY <1>3 DEF CacheChecks
    <2>3. overlapped' \in BOOLEAN  BY <1>3, Zenon DEF CacheChecks, SharedOK
    <2>4. cache' \subseteq Keys /\ victim' \in [Tasks -> Keys \cup {None}]  BY <2>2 DEF SharedOK
    <2> QED  BY <1>1, <1>2, <2>1, <2>2, <2>3, <2>4 DEF CacheStores
  <1>4. CASE CacheExpires(t)
    <2>1. PICK p \in Gap : Step(t, p)  BY <1>4 DEF CacheExpires, Gap
    <2>2. at[t] = "expiring" /\ cache' \subseteq Keys /\ victim' \in [Tasks -> Keys \cup {None}]
      BY <1>4 DEF CacheExpires, SharedOK
    <2>3. overlapped' \in BOOLEAN  BY <1>4, Zenon DEF CacheExpires, SharedOK
    <2> QED  BY <1>1, <1>2, <2>1, <2>2, <2>3 DEF CacheStores
  <1>5. CASE CachePicks(t)
    <2>1. PICK p \in Gap : Step(t, p)  BY <1>5 DEF CachePicks, Gap
    <2>2. at[t] = "picking" /\ cache' \subseteq Keys  BY <1>5 DEF CachePicks, SharedOK
    <2>3. overlapped' \in BOOLEAN  BY <1>5, Zenon DEF CachePicks, SharedOK
    <2>4. victim' \in [Tasks -> Keys \cup {None}]
      <3>1. CASE victim' = victim  BY <3>1 DEF SharedOK
      <3>2. ASSUME NEW k \in cache, victim' = [victim EXCEPT ![t] = k]
            PROVE  victim' \in [Tasks -> Keys \cup {None}]
        BY <3>2 DEF SharedOK
      <3> QED  BY <1>5, <3>1, <3>2 DEF CachePicks
    <2> QED  BY <1>1, <1>2, <2>1, <2>2, <2>3, <2>4 DEF CacheStores
  <1>6. CASE CacheRemoves(t)
    <2>1. PICK p \in Gap : Step(t, p)  BY <1>6 DEF CacheRemoves, Gap
    <2>2. at[t] = "removing" /\ cache' \subseteq Keys /\ victim' \in [Tasks -> Keys \cup {None}]
      BY <1>6 DEF CacheRemoves, SharedOK
    <2>3. overlapped' \in BOOLEAN  BY <1>6, Zenon DEF CacheRemoves, SharedOK
    <2> QED  BY <1>1, <1>2, <2>1, <2>2, <2>3 DEF CacheStores
  <1>7. CASE CacheStores(t)
    <2>1. at[t] = "storing" /\ stages' = stages /\ GoOn(t, Priority.cache)
      BY <1>7 DEF CacheStores
    <2>2. CallsOK' /\ OthersStay(t) /\ at'[t] \in stages \cup {"idle"}  BY <2>1, GoOnMoves
    <2>3. key[t] \in Keys  BY <2>1 DEF CallsOK, KeysKnown
    <2>4. cache' \subseteq Keys /\ victim' \in [Tasks -> Keys \cup {None}]
      BY <1>7, <2>3 DEF CacheStores, SharedOK
    <2>5. overlapped' \in BOOLEAN  BY <1>7, Zenon DEF CacheStores, SharedOK
    <2>6. SharedOK'  BY <1>1, <1>7, <2>4, <2>5 DEF CacheStores, breakerVars
    <2> QED  BY <1>0, <2>2, <2>6
  <1> QED  BY <1>3, <1>4, <1>5, <1>6, <1>7 DEF CacheStep

-----------------------------------------------------------------------------
(* Type correctness.                                                       *)

TypeInv == CallsOK /\ SharedOK

\* Every step of the specification is one of the kinds above.
LEMMA StepKinds ==
  ASSUME Next
  PROVE  (\E t \in Tasks : QuietStep(t) \/ CacheStep(t)) \/ CoolDown
  <1>1. CASE CoolDown  BY <1>1
  <1>2. ASSUME NEW t \in Tasks, Call(t) \/ Answer(t) \/ Stage(t)
        PROVE  QuietStep(t) \/ CacheStep(t)
    BY <1>2, Zenon DEF QuietStep, CacheStep, Stage
  <1> QED  BY <1>1, <1>2, Zenon DEF Next

\* The initial state is well typed.
LEMMA TypeInit == Init => TypeInv
  <1> SUFFICES ASSUME Init PROVE TypeInv  OBVIOUS
  <1>1. 0 \in 0..(MaxRetries + 1) /\ 0 \in 0..HalfOpenMax /\ 0 \in 0..MaxRefreshes
    BY HttpAssumption
  <1>2. "none" \in Outcomes /\ "idle" \in Places  BY DEF Outcomes, Places
  <1>3. CallsOK  BY <1>1, <1>2 DEF Init, CallsOK, KeysKnown
  <1>4. cooled \in BOOLEAN /\ overlapped \in BOOLEAN  BY Zenon DEF Init
  <1>5. SharedOK  BY <1>1, <1>4 DEF Init, SharedOK
  <1> QED  BY <1>3, <1>5 DEF TypeInv

\* The time that passes touches nothing but cooled.
LEMMA CoolDownMoves ==
  ASSUME TypeInv, CoolDown \/ UNCHANGED vars
  PROVE  TypeInv' /\ at' = at /\ UNCHANGED cacheVars
  <1>1. UNCHANGED <<stages, at, attempt, response, key, outcome, circuit, failures, probes,
                    refreshes, cache, victim, overlapped>>
    BY DEF CoolDown, vars, breakerVars, cacheVars
  <1>2. CallsOK'
    <2>1. Places' = Places  BY <1>1 DEF Places
    <2>2. KeysKnown'  BY <1>1 DEF KeysKnown, TypeInv, CallsOK
    <2> QED  BY <1>1, <2>1, <2>2 DEF CallsOK, TypeInv
  <1>3. cooled' \in BOOLEAN /\ overlapped' \in BOOLEAN
    BY Zenon DEF CoolDown, vars, breakerVars, cacheVars, TypeInv, SharedOK
  <1>4. SharedOK'  BY <1>1, <1>3 DEF SharedOK, TypeInv
  <1> QED  BY <1>1, <1>2, <1>4 DEF TypeInv, cacheVars

\* Every step keeps the types.
LEMMA TypeStep == TypeInv /\ [Next]_vars => TypeInv'
  <1> SUFFICES ASSUME TypeInv, [Next]_vars PROVE TypeInv'  OBVIOUS
  <1>1. ASSUME NEW t \in Tasks, QuietStep(t) PROVE TypeInv'
    BY <1>1, QuietMoves DEF TypeInv
  <1>2. ASSUME NEW t \in Tasks, CacheStep(t) PROVE TypeInv'
    BY <1>2, StoreMoves DEF TypeInv
  <1>3. CASE CoolDown \/ UNCHANGED vars  BY <1>3, CoolDownMoves
  <1> QED  BY <1>1, <1>2, <1>3, StepKinds, Zenon

\* However many calls share the client, whatever its stages: no attempt beyond
\* max_retries + 1, no probe beyond half_open_max_requests, no refresh beyond
\* max_refresh_attempts.
THEOREM HttpTypeCorrect == Spec => []TypeOK
  <1>1. TypeInv => TypeOK  BY Parts DEF TypeInv
  <1> QED  BY <1>1, TypeInit, TypeStep, PTL DEF Spec

-----------------------------------------------------------------------------
(* The circuit breaker.                                                    *)

\* Only the breaker's own steps touch its state and its count of failures.
LEMMA OnlyBreaker ==
  ASSUME Next
  PROVE  \/ UNCHANGED <<circuit, failures>>
         \/ \E t \in Tasks : BreakerRefuses(t) \/ BreakerCountsFailure(t) \/ BreakerSeesSuccess(t)
  <1>1. CASE CoolDown  BY <1>1 DEF CoolDown
  <1>2. ASSUME NEW t \in Tasks, Call(t) \/ Answer(t) PROVE UNCHANGED <<circuit, failures>>
    BY <1>2 DEF Call, Answer, SendFails, Respond, breakerVars, cacheVars
  <1>3. ASSUME NEW t \in Tasks,
               \/ AuthPasses(t) \/ AuthRefuses(t) \/ AuthStarts(t) \/ RefreshEnds(t)
               \/ StatusRetries(t) \/ StatusFails(t) \/ StatusPasses(t)
               \/ StartWait(t) \/ NoWait(t) \/ EndWait(t)
               \/ CacheHit(t) \/ CachePasses(t) \/ CacheStep(t)
        PROVE  UNCHANGED <<circuit, failures>>
    BY <1>3 DEF AuthPasses, AuthRefuses, AuthStarts, RefreshEnds, StatusRetries, StatusFails,
      StatusPasses, StartWait, NoWait, EndWait, CacheHit, CachePasses, CacheStep, Step,
      CacheChecks, CacheExpires, CachePicks, CacheRemoves, CacheStores, breakerVars
  <1> QED  BY <1>1, <1>2, <1>3, Zenon DEF Next, Stage, CacheStep

\* With a threshold of at least one failure and room for at least one probe,
\* the breaker is open exactly when the failures since the last success reach
\* the threshold, and no circuit stays half open between two responses.
THEOREM BreakerSound ==
  ASSUME Threshold >= 1, HalfOpenMax >= 1
  PROVE  Spec => []BreakerCounts
  <1> DEFINE I == TypeInv /\ BreakerCounts
  <1>1. Init => I
    <2>1. Init => BreakerCounts  BY HttpAssumption DEF Init, BreakerCounts
    <2> QED  BY <2>1, TypeInit
  <1>2. I /\ [Next]_vars => I'
    <2> SUFFICES ASSUME I, [Next]_vars PROVE BreakerCounts'  BY TypeStep
    <2>1. failures \in Nat /\ circuit \in {"Closed", "Open", "HalfOpen"}
      BY DEF TypeInv, SharedOK
    <2>2. CASE UNCHANGED <<circuit, failures>>  BY <2>2 DEF BreakerCounts
    <2>3. ASSUME NEW t \in Tasks, BreakerRefuses(t) PROVE BreakerCounts'
      <3>1. circuit' = Entered /\ failures' = failures /\ Refusing
        BY <2>3 DEF BreakerRefuses
      <3>2. ~Reopens  BY <3>1, HttpAssumption DEF Refusing, Entered, Probes
      <3> QED  BY <3>1, <3>2 DEF Entered, BreakerCounts
    <2>4. ASSUME NEW t \in Tasks, BreakerCountsFailure(t) PROVE BreakerCounts'
      <3>1. failures' = failures + 1
            /\ circuit' = (IF failures + 1 >= Threshold THEN "Open" ELSE Entered) /\ ~Refusing
        BY <2>4 DEF BreakerCountsFailure
      <3>2. CASE circuit = "Open"
        <4>1. failures >= Threshold  BY <3>2 DEF BreakerCounts
        <4> QED  BY <2>1, <3>1, <4>1, HttpAssumption DEF BreakerCounts
      <3>3. CASE circuit = "Closed"
        <4>1. Entered = "Closed"  BY <3>3 DEF Entered, Reopens
        <4> QED  BY <2>1, <3>1, <4>1, HttpAssumption DEF BreakerCounts
      <3> QED  BY <2>1, <3>2, <3>3 DEF BreakerCounts
    <2>5. ASSUME NEW t \in Tasks, BreakerSeesSuccess(t) PROVE BreakerCounts'
      <3>1. failures' = 0 /\ circuit' = (IF Entered = "HalfOpen" THEN "Closed" ELSE Entered)
            /\ ~Refusing
        BY <2>5 DEF BreakerSeesSuccess
      <3>2. Entered \in {"Closed", "HalfOpen"}
        BY <2>1, <3>1 DEF Refusing, Entered
      <3> QED  BY <3>1, <3>2, HttpAssumption DEF BreakerCounts
    <2>6. CASE UNCHANGED vars  BY <2>2, <2>6 DEF vars, breakerVars, cacheVars
    <2> QED  BY <2>2, <2>3, <2>4, <2>5, <2>6, OnlyBreaker, Zenon
  <1> QED  BY <1>1, <1>2, PTL DEF Spec
-----------------------------------------------------------------------------
(* The cache.                                                              *)

\* As long as no two calls were in the gap at once: the one that is there has
\* made room by the time it stores.
CacheInv ==
  overlapped \/
    /\ \A t, u \in Caching : t = u
    /\ Cardinality(cache) <= MaxEntries
    /\ \A t \in Tasks : at[t] = "storing" => Cardinality(cache) < MaxEntries
    /\ \A t \in Tasks : at[t] = "removing" => victim[t] \in cache

\* Calls outside the gap do not disturb the one within.
LEMMA OutsideKeepsCache ==
  ASSUME CacheInv, UNCHANGED cacheVars,
         \A u \in Tasks : at'[u] = at[u] \/ (at[u] \notin Gap /\ at'[u] \notin Gap)
  PROVE  CacheInv'
  <1>1. Caching' = Caching  BY DEF Caching, Gap
  <1>2. \A u \in Tasks : (at'[u] = "storing" => at[u] = "storing")
                         /\ (at'[u] = "removing" => at[u] = "removing")
    BY DEF Gap
  <1>3. cache' = cache /\ victim' = victim /\ overlapped' = overlapped  BY DEF cacheVars
  <1> QED  BY <1>1, <1>2, <1>3 DEF CacheInv

\* The cache has at most max_entries entries unless two calls were making room
\* and storing at once, for any number of calls before and after.
THEOREM CacheBounded ==
  ASSUME MaxEntries >= 1
  PROVE  Spec => []CacheOverflowsOnlyTogether
  <1> DEFINE I == TypeInv /\ CacheInv
  <1>1. Init => I
    <2> SUFFICES ASSUME Init PROVE CacheInv  BY TypeInit
    <2>1. cache = {} /\ Caching = {} /\ \A t \in Tasks : at[t] = "idle"
      BY DEF Init, Caching
    <2> QED  BY <2>1, HttpAssumption, FS_EmptySet DEF CacheInv
  <1>2. I /\ [Next]_vars => I'
    <2> SUFFICES ASSUME I, [Next]_vars PROVE CacheInv'  BY TypeStep
    <2>0. IsFiniteSet(cache) /\ Cardinality(cache) \in Nat /\ MaxEntries \in Nat
      BY HttpAssumption, FS_Subset, FS_CardinalityType DEF TypeInv, SharedOK
    <2>1. ASSUME NEW t \in Tasks, QuietStep(t) PROVE CacheInv'
      BY <2>1, QuietMoves, OutsideKeepsCache DEF TypeInv, OthersStay
    <2>2. CASE CoolDown \/ UNCHANGED vars
      BY <2>2, CoolDownMoves, OutsideKeepsCache
    <2>3. ASSUME NEW t \in Tasks, CacheChecks(t) PROVE CacheInv'
      <3>1. OthersStay(t)  BY <2>3, StoreMoves DEF TypeInv, CacheStep
      <3>2. overlapped' = (overlapped \/ Caching # {}) /\ cache' = cache
        BY <2>3 DEF CacheChecks
      <3>3. SUFFICES ASSUME ~overlapped' PROVE CacheInv'  BY DEF CacheInv
      <3>4. ~overlapped /\ Caching = {}  BY <3>2, <3>3
      <3>5. at' = [at EXCEPT ![t] = IF Cardinality(cache) >= MaxEntries THEN "expiring"
                                    ELSE "storing"]
        BY <2>3 DEF CacheChecks, Step
      <3>6. at \in [Tasks -> Places]  BY DEF TypeInv, CallsOK
      <3>7. at'[t] = IF Cardinality(cache) >= MaxEntries THEN "expiring" ELSE "storing"
        BY <3>5, <3>6
      <3>8. \A u \in Tasks \ {t} : at'[u] \notin Gap
        BY <3>1, <3>4 DEF OthersStay, Caching, Gap
      <3>9. \A u \in Caching' : u = t  BY <3>8 DEF Caching, Gap
      <3>10. Cardinality(cache') <= MaxEntries  BY <3>2, <3>4 DEF CacheInv
      <3>11. \A u \in Tasks : at'[u] = "storing" => Cardinality(cache') < MaxEntries
        BY <2>0, <3>2, <3>7, <3>8 DEF Gap
      <3>12. \A u \in Tasks : at'[u] # "removing"  BY <3>7, <3>8 DEF Gap
      <3> QED  BY <3>9, <3>10, <3>11, <3>12 DEF CacheInv
    <2>4. ASSUME NEW t \in Tasks,
                 CacheExpires(t) \/ CachePicks(t) \/ CacheRemoves(t) \/ CacheStores(t)
          PROVE  CacheInv'
      <3>1. OthersStay(t)  BY <2>4, StoreMoves DEF TypeInv, CacheStep
      <3>2. t \in Caching
        BY <2>4 DEF CacheExpires, CachePicks, CacheRemoves, CacheStores, Caching
      <3>3. overlapped' = overlapped
        BY <2>4 DEF CacheExpires, CachePicks, CacheRemoves, CacheStores
      <3>4. SUFFICES ASSUME ~overlapped' PROVE CacheInv'  BY DEF CacheInv
      <3>5. \A u \in Tasks \ {t} : at'[u] \notin Gap
        BY <3>1, <3>2, <3>3, <3>4 DEF CacheInv, OthersStay, Caching, Gap
      <3>6. \A u \in Caching' : u = t  BY <3>5 DEF Caching, Gap
      <3>7. at \in [Tasks -> Places]  BY DEF TypeInv, CallsOK
      <3>8. SUFFICES /\ Cardinality(cache') <= MaxEntries
                     /\ at'[t] = "storing" => Cardinality(cache') < MaxEntries
                     /\ at'[t] = "removing" => victim'[t] \in cache'
        BY <3>5, <3>6 DEF CacheInv, Gap
      <3>9. Cardinality(cache) <= MaxEntries  BY <3>3, <3>4 DEF CacheInv
      <3>10. CASE CacheExpires(t)
        <4>1. at' = [at EXCEPT ![t] = IF Cardinality(cache') >= MaxEntries THEN "picking"
                                      ELSE "storing"]
              /\ cache' \subseteq cache
          BY <3>10 DEF CacheExpires, Step
        <4>2. Cardinality(cache') <= Cardinality(cache) /\ Cardinality(cache') \in Nat
          BY <2>0, <4>1, FS_Subset, FS_CardinalityType
        <4>3. at'[t] = IF Cardinality(cache') >= MaxEntries THEN "picking" ELSE "storing"
          BY <3>7, <4>1
        <4> QED  BY <2>0, <3>9, <4>2, <4>3
      <3>11. CASE CachePicks(t)
        <4>1. cache' = cache  BY <3>11 DEF CachePicks
        <4>2. CASE cache = {}
          <5>1. Cardinality(cache') = 0  BY <4>1, <4>2, FS_EmptySet
          <5>2. at'[t] = "storing"  BY <3>7, <3>11, <4>2 DEF CachePicks, Step
          <5> QED  BY <2>0, <5>1, <5>2
        <4>3. CASE cache # {}
          <5>1. PICK k \in cache : victim' = [victim EXCEPT ![t] = k]
            BY <3>11, <4>3 DEF CachePicks
          <5>2. victim'[t] = k  BY <5>1 DEF TypeInv, SharedOK
          <5>3. at'[t] = "removing"  BY <3>7, <3>11, <4>3 DEF CachePicks, Step
          <5> QED  BY <3>9, <4>1, <5>2, <5>3
        <4> QED  BY <4>2, <4>3
      <3>12. CASE CacheRemoves(t)
        <4>1. at[t] = "removing" /\ cache' = cache \ {victim[t]}  BY <3>12 DEF CacheRemoves
        <4>2. victim[t] \in cache  BY <3>3, <3>4, <4>1 DEF CacheInv
        <4>3. Cardinality(cache') = Cardinality(cache) - 1
          BY <2>0, <4>1, <4>2, FS_RemoveElement
        <4>4. at'[t] = "storing"  BY <3>7, <3>12 DEF CacheRemoves, Step
        <4> QED  BY <2>0, <3>9, <4>3, <4>4
      <3>13. CASE CacheStores(t)
        <4>1. at[t] = "storing" /\ cache' = cache \cup {key[t]}  BY <3>13 DEF CacheStores
        <4>2. Cardinality(cache) < MaxEntries  BY <3>3, <3>4, <4>1 DEF CacheInv
        <4>3. Cardinality(cache') <= MaxEntries
          <5>1. CASE key[t] \in cache
            <6>1. cache' = cache  BY <4>1, <5>1
            <6> QED  BY <3>9, <6>1
          <5>2. CASE key[t] \notin cache
            <6>1. Cardinality(cache \cup {key[t]}) = Cardinality(cache) + 1
              BY <2>0, <5>2, FS_AddElement
            <6> QED  BY <2>0, <4>1, <4>2, <6>1
          <5> QED  BY <5>1, <5>2
        <4>4. at'[t] \notin Gap  BY <3>13, StoreMoves DEF TypeInv, CacheStep
        <4> QED  BY <4>3, <4>4 DEF Gap
      <3> QED  BY <2>4, <3>10, <3>11, <3>12, <3>13
    <2> QED  BY <2>1, <2>2, <2>3, <2>4, StepKinds, Zenon DEF CacheStep
  <1>3. I => CacheOverflowsOnlyTogether
    <2>1. TypeInv => Cardinality(cache) \in Nat
      BY HttpAssumption, FS_Subset, FS_CardinalityType DEF TypeInv, SharedOK
    <2> QED  BY <2>1, HttpAssumption DEF CacheInv, CacheOverflowsOnlyTogether
  <1> QED  BY <1>1, <1>2, <1>3, PTL DEF Spec

-----------------------------------------------------------------------------
(* The retries.                                                            *)

\* A call waits for a refresh because its token was refused, and sleeps while the
\* stage it sleeps for has attempts left.
WaitsFor(where, status, count) ==
  /\ where = "refreshing" => status = "unauthorized"
  /\ where = "waiting" => count <= MaxRetries \/ count <= RetryMax

WaitInv == \A t \in Tasks : WaitsFor(at[t], response[t], attempt[t])

\* What GivesUpOnRefusedTokens asks of one call.
MayGiveUp(how, newHow, status) ==
  how # "exhausted" /\ newHow = "exhausted" => status = "unauthorized" \/ RetryMax > MaxRetries

OwnStep(t) ==
  /\ \A u \in Tasks \ {t} : /\ at'[u] = at[u] /\ response'[u] = response[u]
                            /\ attempt'[u] = attempt[u] /\ outcome'[u] = outcome[u]
  /\ WaitsFor(at'[t], response'[t], attempt'[t])
  /\ MayGiveUp(outcome[t], outcome'[t], response[t])

LEMMA FinishOwn ==
  ASSUME CallsOK, NEW t \in Tasks, NEW how, Finish(t, how),
         how = "exhausted" => response[t] = "unauthorized" \/ RetryMax > MaxRetries
  PROVE  OwnStep(t)
  <1>1. /\ at' = [at EXCEPT ![t] = "idle"] /\ outcome' = [outcome EXCEPT ![t] = how]
        /\ attempt' = [attempt EXCEPT ![t] = 0] /\ response' = [response EXCEPT ![t] = None]
    BY DEF Finish
  <1>2. at'[t] = "idle" /\ outcome'[t] = how  BY <1>1 DEF CallsOK
  <1>3. \A u \in Tasks \ {t} : /\ at'[u] = at[u] /\ response'[u] = response[u]
                               /\ attempt'[u] = attempt[u] /\ outcome'[u] = outcome[u]
    BY <1>1 DEF CallsOK
  <1> QED  BY <1>2, <1>3 DEF OwnStep, WaitsFor, MayGiveUp

LEMMA JumpOwn ==
  ASSUME CallsOK, NEW t \in Tasks, NEW p, at' = [at EXCEPT ![t] = p],
         UNCHANGED <<attempt, response, outcome>>, WaitsFor(p, response[t], attempt[t])
  PROVE  OwnStep(t)
  <1>1. at'[t] = p /\ \A u \in Tasks \ {t} : at'[u] = at[u]  BY DEF CallsOK
  <1> QED  BY <1>1 DEF OwnStep, MayGiveUp

LEMMA AgainOwn ==
  ASSUME CallsOK, NEW t \in Tasks, Again(t),
         attempt[t] > MaxRetries => response[t] = "unauthorized" \/ RetryMax > MaxRetries
  PROVE  OwnStep(t)
  <1>1. CASE attempt[t] >= MaxRetries + 1
    <2>1. attempt[t] > MaxRetries  BY <1>1, HttpAssumption DEF CallsOK
    <2>2. Finish(t, "exhausted")  BY <1>1 DEF Again
    <2> QED  BY <2>1, <2>2, FinishOwn
  <1>2. CASE ~(attempt[t] >= MaxRetries + 1)
    <2>1. /\ at' = [at EXCEPT ![t] = "sending"] /\ attempt' = [attempt EXCEPT ![t] = @ + 1]
          /\ UNCHANGED <<response, outcome>>
      BY <1>2 DEF Again
    <2>2. at'[t] = "sending" /\ \A u \in Tasks \ {t} : at'[u] = at[u] /\ attempt'[u] = attempt[u]
      BY <2>1 DEF CallsOK
    <2> QED  BY <2>1, <2>2 DEF OwnStep, WaitsFor, MayGiveUp
  <1> QED  BY <1>1, <1>2

LEMMA GoOnOwn ==
  ASSUME CallsOK, NEW t \in Tasks, NEW p, GoOn(t, p)
  PROVE  OwnStep(t)
  <1>1. CASE Later(p) = {}
    <2>1. Finish(t, "returned")  BY <1>1 DEF GoOn
    <2> QED  BY <2>1, FinishOwn
  <1>2. CASE Later(p) # {}
    <2>1. Later(p) \subseteq DOMAIN Priority  BY HttpAssumption DEF Later, CallsOK
    <2>2. FirstOf(Later(p)) \in DOMAIN Priority  BY <1>2, <2>1, FirstStage
    <2>3. FirstOf(Later(p)) \notin {"refreshing", "waiting"}  BY <2>2 DEF Priority
    <2>4. at' = [at EXCEPT ![t] = FirstOf(Later(p))] /\ UNCHANGED <<attempt, response, outcome>>
      BY <1>2 DEF GoOn
    <2> QED  BY <2>3, <2>4, JumpOwn DEF WaitsFor
  <1> QED  BY <1>1, <1>2

LEMMA QuietOwn ==
  ASSUME CallsOK, WaitInv, NEW t \in Tasks, QuietStep(t)
  PROVE  OwnStep(t)
  <1>1. CASE Call(t)
    <2>1. /\ at' = [at EXCEPT ![t] = "sending"] /\ attempt' = [attempt EXCEPT ![t] = 1]
          /\ outcome' = [outcome EXCEPT ![t] = "none"] /\ response' = response
      BY <1>1 DEF Call
    <2>2. at'[t] = "sending" /\ outcome'[t] = "none"  BY <2>1 DEF CallsOK
    <2>3. \A u \in Tasks \ {t} : /\ at'[u] = at[u] /\ attempt'[u] = attempt[u]
                                 /\ outcome'[u] = outcome[u] /\ response'[u] = response[u]
      BY <2>1 DEF CallsOK
    <2> QED  BY <2>2, <2>3 DEF OwnStep, WaitsFor, MayGiveUp
  <1>2. CASE SendFails(t)
    BY <1>2, FinishOwn DEF SendFails
  <1>3. ASSUME NEW status \in Statuses, Respond(t, status) PROVE OwnStep(t)
    <2>1. CASE stages = {}
      BY <1>3, <2>1, FinishOwn DEF Respond
    <2>2. CASE stages # {}
      <3>1. FirstOf(stages) \in DOMAIN Priority
        <4>1. stages \subseteq DOMAIN Priority  BY HttpAssumption DEF CallsOK
        <4> QED  BY <2>2, <4>1, FirstStage
      <3>2. FirstOf(stages) \notin {"refreshing", "waiting"}  BY <3>1 DEF Priority
      <3>3. /\ at' = [at EXCEPT ![t] = FirstOf(stages)]
            /\ response' = [response EXCEPT ![t] = status] /\ UNCHANGED <<attempt, outcome>>
        BY <1>3, <2>2 DEF Respond
      <3>4. at'[t] = FirstOf(stages)  BY <3>3 DEF CallsOK
      <3>5. \A u \in Tasks \ {t} : at'[u] = at[u] /\ response'[u] = response[u]
        BY <3>3 DEF CallsOK
      <3> QED  BY <3>2, <3>3, <3>4, <3>5 DEF OwnStep, WaitsFor, MayGiveUp
    <2> QED  BY <2>1, <2>2
  <1>4. CASE BreakerRefuses(t) \/ AuthRefuses(t) \/ StatusFails(t) \/ CacheHit(t)
    BY <1>4, FinishOwn DEF BreakerRefuses, AuthRefuses, StatusFails, CacheHit
  <1>5. CASE \/ BreakerCountsFailure(t) \/ BreakerSeesSuccess(t) \/ AuthPasses(t)
             \/ StatusPasses(t) \/ NoWait(t) \/ CachePasses(t)
    <2>1. Continue(t)
      BY <1>5 DEF BreakerCountsFailure, BreakerSeesSuccess, AuthPasses, StatusPasses, NoWait,
                  CachePasses
    <2> QED  BY <2>1, GoOnOwn DEF Continue
  <1>6. CASE AuthStarts(t)
    <2>1. /\ response[t] = "unauthorized" /\ at' = [at EXCEPT ![t] = "refreshing"]
          /\ UNCHANGED <<attempt, response, outcome>>
      BY <1>6 DEF AuthStarts
    <2> QED  BY <2>1, JumpOwn DEF WaitsFor
  <1>7. CASE RefreshEnds(t)
    <2>1. response[t] = "unauthorized"
      BY <1>7 DEF RefreshEnds, WaitInv, WaitsFor
    <2> QED  BY <1>7, <2>1, AgainOwn, FinishOwn DEF RefreshEnds
  <1>8. CASE StatusRetries(t)
    <2>1. ~(attempt[t] > MaxRetries)
      BY <1>8, HttpAssumption DEF StatusRetries, CallsOK
    <2> QED  BY <1>8, <2>1, AgainOwn DEF StatusRetries
  <1>9. CASE StartWait(t)
    <2>1. /\ attempt[t] <= MaxRetries \/ attempt[t] <= RetryMax
          /\ at' = [at EXCEPT ![t] = "waiting"] /\ UNCHANGED <<attempt, response, outcome>>
      BY <1>9 DEF StartWait, Waits
    <2> QED  BY <2>1, JumpOwn DEF WaitsFor
  <1>10. CASE EndWait(t)
    <2>1. attempt[t] <= MaxRetries \/ attempt[t] <= RetryMax
      BY <1>10 DEF EndWait, WaitInv, WaitsFor
    <2>2. attempt[t] > MaxRetries => RetryMax > MaxRetries
      BY <2>1, HttpAssumption DEF CallsOK
    <2> QED  BY <1>10, <2>2, AgainOwn DEF EndWait
  <1> QED
    BY <1>1, <1>2, <1>3, <1>4, <1>5, <1>6, <1>7, <1>8, <1>9, <1>10, Zenon DEF QuietStep, Answer

LEMMA CacheOwn ==
  ASSUME CallsOK, NEW t \in Tasks, CacheStep(t)
  PROVE  OwnStep(t)
  <1>1. ASSUME NEW p \in Gap, Step(t, p) PROVE OwnStep(t)
    BY <1>1, JumpOwn DEF Step, Gap, WaitsFor
  <1>2. CASE CacheStores(t)
    BY <1>2, GoOnOwn DEF CacheStores
  <1>3. CASE CacheChecks(t) \/ CacheExpires(t) \/ CachePicks(t) \/ CacheRemoves(t)
    <2>1. \E p \in Gap : Step(t, p)
      BY <1>3 DEF CacheChecks, CacheExpires, CachePicks, CacheRemoves, Gap
    <2> QED  BY <1>1, <2>1
  <1> QED  BY <1>2, <1>3, Zenon DEF CacheStep

\* GivesUpOnRefusedTokens, for any stages and any number of concurrent calls: the
\* stages that retry a bad status never waste the last attempt (client.rs, the loop).
THEOREM LastAttemptIsTold == Spec => GivesUpOnRefusedTokens
  <1> DEFINE I == TypeInv /\ WaitInv
  <1>1. Init => I
    <2>1. Init => WaitInv  BY DEF Init, WaitInv, WaitsFor
    <2> QED  BY <2>1, TypeInit
  <1>2. I /\ [Next]_vars => /\ WaitInv'
                            /\ \A t \in Tasks : MayGiveUp(outcome[t], outcome'[t], response[t])
    <2> SUFFICES ASSUME I, [Next]_vars
                 PROVE  /\ WaitInv'
                        /\ \A t \in Tasks : MayGiveUp(outcome[t], outcome'[t], response[t])
      OBVIOUS
    <2>1. ASSUME NEW t \in Tasks, OwnStep(t)
          PROVE  /\ WaitInv'
                 /\ \A u \in Tasks : MayGiveUp(outcome[u], outcome'[u], response[u])
      BY <2>1 DEF OwnStep, WaitInv, MayGiveUp
    <2>2. CASE CoolDown \/ UNCHANGED vars
      <3>1. UNCHANGED <<at, attempt, response, outcome>>
        BY <2>2 DEF CoolDown, vars
      <3> QED  BY <3>1 DEF WaitInv, MayGiveUp
    <2>3. ASSUME NEW t \in Tasks, QuietStep(t) \/ CacheStep(t) PROVE OwnStep(t)
      BY <2>3, QuietOwn, CacheOwn DEF TypeInv
    <2> QED  BY <2>1, <2>2, <2>3, StepKinds, Zenon
  <1>3. I /\ [Next]_vars => I'
    BY <1>2, TypeStep
  <1>4. I /\ [Next]_vars =>
          [\A t \in Tasks : outcome[t] # "exhausted" /\ outcome'[t] = "exhausted"
              => response[t] = "unauthorized" \/ RetryMax > MaxRetries]_vars
    BY <1>2 DEF MayGiveUp
  <1> QED  BY <1>1, <1>3, <1>4, PTL DEF Spec, GivesUpOnRefusedTokens

=============================================================================
