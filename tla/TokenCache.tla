------------------------------ MODULE TokenCache ------------------------------
(***************************************************************************)
(* OAuth2Client of crates/mtw-integrations/src/oauth2.rs: one cached token *)
(* that several tasks read, fetch, exchange, refresh, set and clear.  The  *)
(* cache is locked for one look or one write at a time, and never while a  *)
(* request is on its way.  The token endpoint is external.  A token is     *)
(* told from others by the write that cached it.                           *)
(***************************************************************************)
EXTENDS Naturals

CONSTANTS Clients,     \* the tasks that share the client
          MaxWrites    \* bound: tokens cached

ASSUME TokenAssumption == MaxWrites \in Nat

\* get_token(), exchange_code(), refresh_token() and force_refresh().
TokenCalls == {"get", "exchange", "refresh", "force"}

VARIABLES
    cached,     \* the write the cache holds; 0: it is empty
    lasting,    \* its token has more than 30 seconds left
    writes,     \* writes so far
    call,       \* what each task called last
    stage,      \* how far it is
    returned,   \* the token it returned; 0: an error, or none yet
    clearedAt,  \* of force_refresh(): the writes when it cleared the cache
    forced      \* history: some call has cleared the cache

tokenVars == <<cached, lasting, writes, call, stage, returned, clearedAt, forced>>

TokenTypeOK ==
    /\ cached \in 0..writes /\ lasting \in BOOLEAN
    /\ writes \in 0..MaxWrites
    /\ call \in [Clients -> TokenCalls]
    /\ stage \in [Clients -> {"idle", "clearing", "checking", "sent", "parsed", "reading", "panicked"}]
    /\ returned \in [Clients -> 0..MaxWrites]
    /\ clearedAt \in [Clients -> 0..MaxWrites]
    /\ forced \in BOOLEAN

TokenInit ==
    /\ cached = 0 /\ lasting = FALSE /\ writes = 0
    /\ call = [c \in Clients |-> "get"]
    /\ stage = [c \in Clients |-> "idle"]
    /\ returned = [c \in Clients |-> 0]
    /\ clearedAt = [c \in Clients |-> 0]
    /\ forced = FALSE

-----------------------------------------------------------------------------

Goes(c, place) == stage' = [stage EXCEPT ![c] = place]

CallToken(c, kind) ==
    /\ stage[c] = "idle"
    /\ call' = [call EXCEPT ![c] = kind]
    /\ Goes(c, CASE kind = "get" -> "checking" [] kind = "force" -> "clearing" [] OTHER -> "sent")
    /\ returned' = [returned EXCEPT ![c] = 0]
    /\ UNCHANGED <<cached, lasting, writes, clearedAt, forced>>

\* Fault: a token that is still good is kept.
ClearIfOld(c) ==
    /\ stage[c] = "clearing"
    /\ cached' = IF lasting THEN cached ELSE 0
    /\ lasting' = lasting /\ forced' = TRUE
    /\ clearedAt' = [clearedAt EXCEPT ![c] = writes]
    /\ Goes(c, "checking")
    /\ UNCHANGED <<writes, call, returned>>

\* force_refresh() empties the cache and goes on as get_token(), which finds
\* what others cached in the meantime.
ClearCache(c) ==
    /\ stage[c] = "clearing"
    /\ cached' = 0 /\ lasting' = FALSE /\ forced' = TRUE
    /\ clearedAt' = [clearedAt EXCEPT ![c] = writes]
    /\ Goes(c, "checking")
    /\ UNCHANGED <<writes, call, returned>>

CheckCache(c) ==
    /\ stage[c] = "checking"
    /\ IF cached # 0 /\ lasting
       THEN returned' = [returned EXCEPT ![c] = cached] /\ Goes(c, "idle")
       ELSE Goes(c, "sent") /\ UNCHANGED returned
    /\ UNCHANGED <<cached, lasting, writes, call, clearedAt, forced>>

\* No answer, an error status, or a body with no access token.
TokenRequestFails(c) ==
    /\ stage[c] = "sent"
    /\ Goes(c, "idle")
    /\ UNCHANGED <<cached, lasting, writes, call, returned, clearedAt, forced>>

TokenArrives(c) ==
    /\ stage[c] = "sent"
    /\ Goes(c, "parsed")
    /\ UNCHANGED <<cached, lasting, writes, call, returned, clearedAt, forced>>

\* A token is cached over whatever is there; some last no 30 seconds.
Write ==
    /\ writes < MaxWrites
    /\ writes' = writes + 1 /\ cached' = writes + 1
    /\ lasting' \in BOOLEAN

\* exchange_code() reads the cache once more for what it returns.
StoreToken(c) ==
    /\ stage[c] = "parsed"
    /\ Write
    /\ IF call[c] = "exchange"
       THEN Goes(c, "reading") /\ UNCHANGED returned
       ELSE Goes(c, "idle") /\ returned' = [returned EXCEPT ![c] = writes + 1]
    /\ UNCHANGED <<call, clearedAt, forced>>

ReadBack(c) ==
    /\ stage[c] = "reading"
    /\ IF cached = 0
       THEN Goes(c, "panicked") /\ UNCHANGED returned
       ELSE Goes(c, "idle") /\ returned' = [returned EXCEPT ![c] = cached]
    /\ UNCHANGED <<cached, lasting, writes, call, clearedAt, forced>>

\* set_token(): the application loads a token from its storage.
SetToken ==
    /\ Write
    /\ UNCHANGED <<call, stage, returned, clearedAt, forced>>

TokenAges ==
    /\ lasting /\ lasting' = FALSE
    /\ UNCHANGED <<cached, writes, call, stage, returned, clearedAt, forced>>

TokenNext ==
    \/ \E c \in Clients :
          \/ \E kind \in TokenCalls : CallToken(c, kind)
          \/ ClearCache(c) \/ CheckCache(c) \/ TokenRequestFails(c) \/ TokenArrives(c)
          \/ StoreToken(c) \/ ReadBack(c)
    \/ SetToken \/ TokenAges

TokenSpec == TokenInit /\ [][TokenNext]_tokenVars

-----------------------------------------------------------------------------

\* force_refresh() never returns what was cached when it was called, although
\* it clears the cache and looks at it again in two steps, with the writes of
\* other calls in between; and exchange_code() finds the cache it has just
\* filled empty only if force_refresh() is used (oauth2.rs:104-126, 175-181).
ForceRefreshRenews ==
    /\ \A c \in Clients :
          /\ call[c] = "force" /\ returned[c] # 0 => returned[c] > clearedAt[c]
          /\ stage[c] = "panicked" => forced

===============================================================================
