-------------------------------- MODULE Store ---------------------------------
(***************************************************************************)
(* The SQLite store of crates/mtw-store: a pool of connections that        *)
(* blocking tasks borrow for one query each, and that a module may borrow  *)
(* for longer.  SQLite itself is external: a statement reads, writes or    *)
(* fails as the flags of its connection allow.                             *)
(***************************************************************************)
EXTENDS Naturals, FiniteSets

CONSTANTS Readers,     \* the tasks that use the store
          Conns,       \* the connections of the pool: pool_size of them
          RowLimit,    \* what "LIMIT 1000" allows a table query
          MaxRows,     \* bound: rows the table may grow to
          NoReader     \* nobody holds the connection

ASSUME StoreAssumption ==
    /\ MaxRows \in Nat /\ RowLimit \in 0..MaxRows
    /\ IsFiniteSet(Conns) /\ Conns # {}
    /\ NoReader \notin Readers

\* query() of a table, query_raw() or exec_query_sync() of some SQL, and info().
Queries == {"table", "no table", "select", "insert", "no sql", "info"}

VARIABLES
    store,      \* the store as from_config() left it
    readonly,   \* the configuration says readonly
    flags,      \* how each connection was opened
    queryOnly,  \* the connections that were given PRAGMA query_only
    borrowed,   \* who holds each connection
    querying,   \* what each reader is waiting for or running
    found,      \* how the latest query of each reader ended
    rows,       \* rows of the table
    written     \* rows written through this store

storeVars == <<store, readonly, flags, queryOnly, borrowed, querying, found, rows, written>>
setupVars == <<store, readonly, flags, queryOnly>>

Modes == {"none", "read only", "read write"}
Results == {"none", "rows", "truncated", "done", "info", "prepare", "query", "pool"}

StoreTypeOK ==
    /\ store \in {"closed", "open", "failed"}
    /\ readonly \in BOOLEAN
    /\ flags \in [Conns -> Modes]
    /\ queryOnly \subseteq Conns
    /\ borrowed \in [Conns -> Readers \cup {NoReader}]
    /\ querying \in [Readers -> Queries \cup {"nothing", "custom"}]
    /\ found \in [Readers -> Results]
    /\ rows \in 0..MaxRows /\ written \in 0..MaxRows

StoreInit ==
    /\ store = "closed"
    /\ readonly \in BOOLEAN
    /\ flags = [k \in Conns |-> "none"]
    /\ queryOnly = {}
    /\ borrowed = [k \in Conns |-> NoReader]
    /\ querying = [r \in Readers |-> "nothing"]
    /\ found = [r \in Readers |-> "none"]
    /\ rows = RowLimit /\ written = 0

-----------------------------------------------------------------------------

\* Fault: only the pragma keeps a store from writing.
OpenedReadWrite ==
    /\ store' = "open"
    /\ flags' = [k \in Conns |-> "read write"]
    /\ \E k \in Conns : queryOnly' = IF readonly THEN {k} ELSE {}

\* Every connection of the pool is opened with the flags; the pragmas go to
\* one of them.
Opened ==
    /\ store' = "open"
    /\ flags' = [k \in Conns |-> IF readonly THEN "read only" ELSE "read write"]
    /\ \E k \in Conns : queryOnly' = IF readonly THEN {k} ELSE {}

\* No file at the path, no pool, or no pragmas.
OpenFails ==
    /\ store' = "failed"
    /\ UNCHANGED <<flags, queryOnly>>

Open ==
    /\ store = "closed"
    /\ Opened \/ OpenFails
    /\ UNCHANGED <<readonly, borrowed, querying, found, rows, written>>

Held(r) == {k \in Conns : borrowed[k] = r}
Free == Held(NoReader)
Waiting(r) == querying[r] # "nothing" /\ Held(r) = {}
Running(r) == querying[r] # "nothing" /\ Held(r) # {}

StartQuery(r, q) ==
    /\ store = "open" /\ querying[r] = "nothing"
    /\ querying' = [querying EXCEPT ![r] = q]
    /\ found' = [found EXCEPT ![r] = "none"]
    /\ UNCHANGED <<setupVars, borrowed, rows, written>>

GetConnection(r) ==
    /\ Waiting(r)
    /\ \E k \in Free : borrowed' = [borrowed EXCEPT ![k] = r]
    /\ UNCHANGED <<setupVars, querying, found, rows, written>>

\* Fault: a query waits as long as it takes.
PoolWaits(r) == FALSE /\ UNCHANGED storeVars

\* The pool gives up after its connection timeout.
PoolExhausted(r) ==
    /\ Waiting(r) /\ Free = {}
    /\ querying' = [querying EXCEPT ![r] = "nothing"]
    /\ found' = [found EXCEPT ![r] = "pool"]
    /\ UNCHANGED <<setupVars, borrowed, rows, written>>

Writable(k) == flags[k] = "read write" /\ k \notin queryOnly

\* What execute_sql() and info() return; one bad row is an error of the whole
\* query, as a lock held by another writer is.
Outcomes(q, k) ==
    CASE q = "table" -> {IF rows > RowLimit THEN "truncated" ELSE "rows", "query"}
      [] q = "select" -> {"rows", "query"}
      [] q = "insert" -> IF Writable(k) /\ rows < MaxRows THEN {"done", "query"} ELSE {"query"}
      [] q = "info" -> {"info", "prepare", "query"}
      [] OTHER -> {"prepare"}

\* The query runs and its connection goes back to the pool.
RunQuery(r) ==
    /\ Running(r) /\ querying[r] # "custom"
    /\ \E k \in Held(r) : \E o \in Outcomes(querying[r], k) :
          /\ found' = [found EXCEPT ![r] = o]
          /\ IF o = "done"
             THEN rows' = rows + 1 /\ written' = written + 1
             ELSE UNCHANGED <<rows, written>>
          /\ borrowed' = [borrowed EXCEPT ![k] = NoReader]
    /\ querying' = [querying EXCEPT ![r] = "nothing"]
    /\ UNCHANGED setupVars

\* connection(): the module keeps it as long as it likes.
ReturnConnection(r) ==
    /\ Running(r) /\ querying[r] = "custom"
    /\ borrowed' = [k \in Conns |-> IF borrowed[k] = r THEN NoReader ELSE borrowed[k]]
    /\ querying' = [querying EXCEPT ![r] = "nothing"]
    /\ found' = [found EXCEPT ![r] = "done"]
    /\ UNCHANGED <<setupVars, rows, written>>

\* Another process adds a row to the database.
OthersWrite ==
    /\ rows < MaxRows
    /\ rows' = rows + 1
    /\ UNCHANGED <<setupVars, borrowed, querying, found, written>>

QueryStep(r) == GetConnection(r) \/ PoolExhausted(r) \/ RunQuery(r)

StoreNext ==
    \/ Open
    \/ \E r \in Readers : \/ QueryStep(r) \/ ReturnConnection(r)
                          \/ \E q \in Queries \cup {"custom"} : StartQuery(r, q)
    \/ OthersWrite

StoreSpec == StoreInit /\ [][StoreNext]_storeVars

-----------------------------------------------------------------------------

\* A read-only store writes nothing, whichever connection a statement is
\* given, although only one of them was told to be query_only (sqlite.rs:36-78).
ReadonlyStaysClean == readonly => written = 0

=============================================================================
