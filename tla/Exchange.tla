------------------------------- MODULE Exchange -------------------------------
(***************************************************************************)
(* Requests to an exchange (crates/mtw-exchange): BitvavoProvider sends    *)
(* one HTTP request per call behind a rate limiter, and ExchangeManager    *)
(* caches tickers and fetches candles in parallel.  The exchange is        *)
(* external: it answers, refuses, answers nonsense, or what it did gets    *)
(* lost with the connection.                                               *)
(***************************************************************************)
EXTENDS RateLimit, FiniteSets

CONSTANTS Orders,      \* the types of the orders that are created
          Symbols,     \* the symbols of a candle fetch, a sequence of tasks: one each
          MaxPermits,  \* max_concurrent_requests
          MaxMarket    \* bound: prices the market goes through

OrderTypes == {"Market", "Limit", "Stop", "StopLimit"}

ASSUME ExchangeAssumption ==
    /\ Orders \subseteq OrderTypes /\ Symbols \in Seq(Tasks)
    /\ MaxPermits \in Nat /\ MaxMarket \in Nat \ {0}

VARIABLES
    job,      \* what each task is doing: a kind of request, or "none"
    wanted,   \* the type of the order it creates
    http,     \* its request: "none", "sent", "answered"
    answer,   \* the answer on its way back
    outcome,  \* how its latest request ended
    value,    \* the price it returned ...
    made,     \* ... or the type of the order
    placed,   \* history: orders the exchange has placed for its request
    market,   \* the price at the exchange
    cache,    \* the cached ticker; 0: none
    round,    \* fetch_candles_parallel(): "none", "running", "done"
    permits,  \* permits of its semaphore
    candles   \* the symbols it returned candles for, by their places

exchangeVars == <<job, wanted, http, answer, outcome, value, made, placed, market, cache,
                  round, permits, candles>>
taskVars == <<job, wanted, http, answer, outcome, value, made, placed>>
managerVars == <<market, cache, round, permits, candles>>

Answers == {"none", "ok", "status", "garbage", "lost"}
Outcomes == {"none", "Ok", "Http", "Api", "Deserialization", "Panic"}

ExchangeTypeOK ==
    /\ RateTypeOK
    /\ job \in [Tasks -> {"none", "ticker", "order", "candles", "permit"}]
    /\ wanted \in [Tasks -> OrderTypes]
    /\ http \in [Tasks -> {"none", "sent", "answered"}]
    /\ answer \in [Tasks -> Answers]
    /\ outcome \in [Tasks -> Outcomes]
    /\ value \in [Tasks -> 0..MaxMarket] /\ made \in [Tasks -> OrderTypes \cup {"none"}]
    /\ placed \in [Tasks -> Nat]
    /\ market \in 1..MaxMarket /\ cache \in 0..MaxMarket
    /\ round \in {"none", "running", "done"}
    /\ permits \in 0..MaxPermits
    /\ candles \subseteq DOMAIN Symbols

ExchangeInit ==
    /\ RateInit
    /\ job = [t \in Tasks |-> "none"]
    /\ wanted = [t \in Tasks |-> "Market"]
    /\ http = [t \in Tasks |-> "none"]
    /\ answer = [t \in Tasks |-> "none"]
    /\ outcome = [t \in Tasks |-> "none"]
    /\ value = [t \in Tasks |-> 0] /\ made = [t \in Tasks |-> "none"]
    /\ placed = [t \in Tasks |-> 0]
    /\ market = 1 /\ cache = 0
    /\ round = "none" /\ permits = MaxPermits /\ candles = {}

-----------------------------------------------------------------------------
(* One request.                                                            *)

\* create_order() names the type for Bitvavo, and convert_order() names it
\* back: a type it does not know is a market order.
ToBitvavo == [Market |-> "market", Limit |-> "limit", Stop |-> "stopLoss",
              StopLimit |-> "stopLossLimit"]
FromBitvavo(s) ==
    IF \E o \in OrderTypes : ToBitvavo[o] = s
    THEN CHOOSE o \in OrderTypes : ToBitvavo[o] = s
    ELSE "Market"

Begin(t, kind, type) ==
    /\ job[t] = "none" /\ asking[t] = "no" /\ round # "running"
    /\ Acquire(t)
    /\ job' = [job EXCEPT ![t] = kind]
    /\ wanted' = [wanted EXCEPT ![t] = type]
    /\ outcome' = [outcome EXCEPT ![t] = "none"]
    /\ value' = [value EXCEPT ![t] = 0]
    /\ made' = [made EXCEPT ![t] = "none"]
    /\ placed' = [placed EXCEPT ![t] = 0]
    /\ UNCHANGED <<http, answer, managerVars>>

\* get(), post() and delete() sign and send once the limiter lets them.
SendRequest(t) ==
    /\ asking[t] = "granted" /\ http[t] = "none"
    /\ http' = [http EXCEPT ![t] = "sent"]
    /\ asking' = [asking EXCEPT ![t] = "no"]
    /\ UNCHANGED <<limiter, now, bucketVars, stamps, wake, grants, job, wanted, answer,
                   outcome, value, made, placed, managerVars>>

\* The exchange does what it is asked, or refuses, and its answer comes back
\* or is lost.  An order is placed even if the answer is lost or nonsense.
ExchangeAnswers(t) ==
    /\ http[t] = "sent"
    /\ http' = [http EXCEPT ![t] = "answered"]
    /\ \E a \in Answers \ {"none"}, done \in BOOLEAN :
          /\ a = "ok" => done
          /\ a = "status" => ~done
          /\ answer' = [answer EXCEPT ![t] = a]
          /\ placed' = [placed EXCEPT ![t] =
                           @ + (IF done /\ job[t] = "order" THEN 1 ELSE 0)]
          /\ IF a = "ok" /\ job[t] = "order"
             THEN made' = [made EXCEPT ![t] = FromBitvavo(ToBitvavo[wanted[t]])] /\ UNCHANGED value
             ELSE value' = [value EXCEPT ![t] = IF a = "ok" THEN market ELSE 0] /\ UNCHANGED made
    /\ UNCHANGED <<rateVars, job, wanted, outcome, managerVars>>

\* The text of an error cuts a body that does not decode at byte 200: in the
\* middle of a character, that panics, and ends the caller's task.
Results(a) == CASE a = "ok" -> {"Ok"} [] a = "status" -> {"Api"}
                [] a = "garbage" -> {"Deserialization", "Panic"} [] OTHER -> {"Http"}

\* Fault: an error is answered with another try.
TryAgain(t) ==
    /\ http' = [http EXCEPT ![t] = IF answer[t] = "ok" THEN "none" ELSE "sent"]
    /\ answer' = [answer EXCEPT ![t] = "none"]
    /\ \E r \in Results(answer[t]) : outcome' = [outcome EXCEPT ![t] = r]
    /\ job' = [job EXCEPT ![t] = IF answer[t] = "ok" THEN "none" ELSE @]
    /\ UNCHANGED <<wanted, value, made, placed>>

Return(t) ==
    /\ http' = [http EXCEPT ![t] = "none"]
    /\ answer' = [answer EXCEPT ![t] = "none"]
    /\ \E r \in Results(answer[t]) : outcome' = [outcome EXCEPT ![t] = r]
    /\ job' = [job EXCEPT ![t] = "none"]
    /\ UNCHANGED <<wanted, value, made, placed>>

\* fetch_tickers_parallel() stores what it got, be it older than what is there.
Receive(t) ==
    /\ http[t] = "answered"
    /\ Return(t)
    /\ cache' = IF job[t] = "ticker" /\ answer[t] = "ok" THEN value[t] ELSE cache
    /\ permits' = IF job[t] = "candles" THEN permits + 1 ELSE permits
    /\ UNCHANGED <<rateVars, market, round, candles>>

-----------------------------------------------------------------------------
(* The manager.                                                            *)

\* A stream hands on a ticker: update_ticker_cache().
MarketMoves ==
    /\ market < MaxMarket
    /\ market' = market + 1
    /\ cache' \in {cache, market + 1}
    /\ UNCHANGED <<rateVars, taskVars, round, permits, candles>>

\* One task per symbol, and as many at a time as the semaphore has permits.
FetchCandles ==
    /\ round = "none" /\ \A t \in Tasks : job[t] = "none"
    /\ round' = "running"
    /\ job' = [t \in Tasks |-> "permit"]
    /\ outcome' = [t \in Tasks |-> "none"]
    /\ UNCHANGED <<rateVars, wanted, http, answer, value, made, placed, market, cache, permits, candles>>

TakePermit(t) ==
    /\ job[t] = "permit" /\ permits > 0
    /\ Acquire(t)
    /\ permits' = permits - 1
    /\ job' = [job EXCEPT ![t] = "candles"]
    /\ UNCHANGED <<wanted, http, answer, outcome, value, made, placed, market, cache, round, candles>>

\* A task that panics gives its permit back; fetch_candles_parallel() only
\* logs it.
PanicEnds(t) ==
    /\ asking[t] = "panicked" /\ job[t] = "candles"
    /\ asking' = [asking EXCEPT ![t] = "no"]
    /\ job' = [job EXCEPT ![t] = "none"]
    /\ permits' = permits + 1
    /\ UNCHANGED <<limiter, now, bucketVars, stamps, wake, grants, wanted, http, answer,
                   outcome, value, made, placed, market, cache, round, candles>>

\* The results are those of the tasks that succeeded, in the order asked for:
\* the places say it.
FetchEnds ==
    /\ round = "running" /\ \A t \in Tasks : job[t] = "none"
    /\ round' = "done"
    /\ candles' = {i \in DOMAIN Symbols : outcome[Symbols[i]] = "Ok"}
    /\ UNCHANGED <<rateVars, taskVars, market, cache, permits>>

ExchangeNext ==
    \/ MarketMoves \/ FetchCandles \/ FetchEnds
    \/ \E t \in Tasks :
          \/ \E o \in Orders : Begin(t, "order", o)
          \/ Begin(t, "ticker", "Market")
          \/ SendRequest(t) \/ ExchangeAnswers(t) \/ Receive(t) \/ TakePermit(t) \/ PanicEnds(t)
    \/ (Tick \/ \E t \in Tasks : Look(t) \/ Wake(t)) /\ UNCHANGED exchangeVars

-----------------------------------------------------------------------------

\* An order that was created is placed once, of the type that was asked for,
\* and one call never places two: what an error leaves open, no retry doubles
\* (rest.rs:96-140, 367-395, 434-476).
OneOrderPerCall ==
    \A t \in Tasks :
       /\ placed[t] <= 1
       /\ made[t] # "none" => placed[t] = 1 /\ made[t] = wanted[t]

===============================================================================
