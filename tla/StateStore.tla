------------------------------ MODULE StateStore ------------------------------
(***************************************************************************)
(* MemoryStore of crates/mtw-state/src/memory.rs: a concurrent map whose   *)
(* entries may have a time to live.  An expired entry is removed by the    *)
(* call that finds it, or by the cleanup task; both first look and then    *)
(* remove the key, whatever it holds by then.                              *)
(***************************************************************************)
EXTENDS Naturals, FiniteSets

CONSTANTS Users,     \* the tasks that call the store
          Keys,      \* the keys they use
          MaxSets    \* bound: values set; the n-th value is n

ASSUME StateAssumption == MaxSets \in Nat

VARIABLES
    held,       \* the value of each key; 0: no entry
    ttl,        \* of each entry: "none", "running", "expired"
    sets,       \* values set so far
    removing,   \* the key each user found expired and is about to remove
    got,        \* what the latest get or exists of each user returned
    cleaner,    \* what the cleanup task is doing
    unvisited,  \* the keys its iteration has still to visit
    doomed,     \* the keys it collected
    signalled,  \* shutdown() was called: the permit of its Notify
    kept        \* history: the keys whose value nothing but a caller may remove

stateVars == <<held, ttl, sets, removing, got, cleaner, unvisited, doomed, signalled, kept>>
cleanVars == <<cleaner, unvisited, doomed>>

StateTypeOK ==
    /\ held \in [Keys -> 0..MaxSets]
    /\ ttl \in [Keys -> {"none", "running", "expired"}]
    /\ sets \in 0..MaxSets
    /\ removing \in [Users -> SUBSET Keys]
    /\ got \in [Users -> 0..MaxSets]
    /\ cleaner \in {"sleeping", "collecting", "removing", "ended"}
    /\ unvisited \subseteq Keys /\ doomed \subseteq Keys
    /\ signalled \in BOOLEAN
    /\ kept \subseteq Keys

\* with_cleanup(), or new(), which starts no cleanup task.
StateInit ==
    /\ held = [k \in Keys |-> 0]
    /\ ttl = [k \in Keys |-> "none"]
    /\ sets = 0
    /\ removing = [u \in Users |-> {}]
    /\ got = [u \in Users |-> 0]
    /\ cleaner \in {"sleeping", "ended"}
    /\ unvisited = {} /\ doomed = {} /\ signalled = FALSE
    /\ kept = {}

-----------------------------------------------------------------------------
(* The calls of a user.                                                    *)

Expired(k) == held[k] # 0 /\ ttl[k] = "expired"

\* Somebody found the key expired and has not removed it yet.
Marked(k) == k \in doomed \/ \E u \in Users : k \in removing[u]

RemoveKey(k) ==
    /\ held' = [held EXCEPT ![k] = 0]
    /\ ttl' = [ttl EXCEPT ![k] = "none"]

\* get() and exists() of a key that is there, is not, or is found expired.
LookUp(u, k) ==
    /\ removing[u] = {}
    /\ got' = [got EXCEPT ![u] = IF Expired(k) THEN 0 ELSE held[k]]
    /\ removing' = [removing EXCEPT ![u] = IF Expired(k) THEN {k} ELSE {}]
    /\ UNCHANGED <<held, ttl, sets, cleanVars, signalled, kept>>

RemoveExpired(u) ==
    /\ \E k \in removing[u] : RemoveKey(k)
    /\ removing' = [removing EXCEPT ![u] = {}]
    /\ UNCHANGED <<sets, got, cleanVars, signalled, kept>>

\* Fault: a value set over an older one keeps its time to live.
SetOnly(u, k) ==
    /\ removing[u] = {} /\ sets < MaxSets
    /\ sets' = sets + 1
    /\ held' = [held EXCEPT ![k] = sets + 1]
    /\ kept' = IF Marked(k) THEN kept \ {k} ELSE kept \cup {k}
    /\ UNCHANGED <<ttl, removing, got, cleanVars, signalled>>

\* set() replaces the entry, and its time to live with it.
Set(u, k) ==
    /\ removing[u] = {} /\ sets < MaxSets
    /\ sets' = sets + 1
    /\ held' = [held EXCEPT ![k] = sets + 1]
    /\ ttl' = [ttl EXCEPT ![k] = "none"]
    /\ kept' = IF Marked(k) THEN kept \ {k} ELSE kept \cup {k}
    /\ UNCHANGED <<removing, got, cleanVars, signalled>>

TtlSet(u, k) ==
    /\ removing[u] = {} /\ sets < MaxSets
    /\ sets' = sets + 1
    /\ held' = [held EXCEPT ![k] = sets + 1]
    /\ ttl' = [ttl EXCEPT ![k] = "running"]
    /\ kept' = kept \ {k}
    /\ UNCHANGED <<removing, got, cleanVars, signalled>>

\* delete() does not ask whether the entry has expired.
Delete(u, k) ==
    /\ removing[u] = {} /\ held[k] # 0
    /\ RemoveKey(k)
    /\ kept' = kept \ {k}
    /\ UNCHANGED <<sets, removing, got, cleanVars, signalled>>

Clear ==
    /\ held' = [k \in Keys |-> 0]
    /\ ttl' = [k \in Keys |-> "none"]
    /\ kept' = {}
    /\ UNCHANGED <<sets, removing, got, cleanVars, signalled>>

TimePasses(k) ==
    /\ ttl[k] = "running"
    /\ ttl' = [ttl EXCEPT ![k] = "expired"]
    /\ UNCHANGED <<held, sets, removing, got, cleanVars, signalled, kept>>

-----------------------------------------------------------------------------
(* The cleanup task.  Its iteration visits one shard of the map after the  *)
(* other, and others may write in between.                                 *)

BeginCleanup ==
    /\ cleaner = "sleeping"
    /\ cleaner' = "collecting" /\ unvisited' = Keys
    /\ UNCHANGED <<held, ttl, sets, removing, got, doomed, signalled, kept>>

Collect(k) ==
    /\ k \in unvisited
    /\ unvisited' = unvisited \ {k}
    /\ doomed' = IF Expired(k) THEN doomed \cup {k} ELSE doomed
    /\ cleaner' = IF unvisited = {k} THEN "removing" ELSE cleaner
    /\ UNCHANGED <<held, ttl, sets, removing, got, signalled, kept>>

CleanUp(k) ==
    /\ cleaner = "removing" /\ k \in doomed
    /\ RemoveKey(k)
    /\ doomed' = doomed \ {k}
    /\ UNCHANGED <<sets, removing, got, cleaner, unvisited, signalled, kept>>

CleanupEnds ==
    /\ cleaner = "removing" /\ doomed = {}
    /\ cleaner' = "sleeping"
    /\ UNCHANGED <<held, ttl, sets, removing, got, unvisited, doomed, signalled, kept>>

\* shutdown(), and Drop, leave a permit that the task finds when it sleeps.
Shutdown ==
    /\ ~signalled /\ signalled' = TRUE
    /\ UNCHANGED <<held, ttl, sets, removing, got, cleanVars, kept>>

SeeSignal ==
    /\ cleaner = "sleeping" /\ signalled
    /\ cleaner' = "ended" /\ signalled' = FALSE
    /\ UNCHANGED <<held, ttl, sets, removing, got, unvisited, doomed, kept>>

StateNext ==
    \/ \E u \in Users :
          \/ RemoveExpired(u)
          \/ \E k \in Keys : LookUp(u, k) \/ Set(u, k) \/ TtlSet(u, k) \/ Delete(u, k)
    \/ \E k \in Keys : TimePasses(k) \/ Collect(k) \/ CleanUp(k)
    \/ Clear \/ BeginCleanup \/ CleanupEnds \/ Shutdown \/ SeeSignal

StateSpec == StateInit /\ [][StateNext]_stateVars

-----------------------------------------------------------------------------

\* A value set without a time to live stays until a caller replaces, deletes or
\* clears it, if nobody was about to remove the key when it was set.  Only such
\* a value is lost to the gap between finding an entry expired and removing its
\* key (memory.rs:66-74, 126-145, 151-164).
KeptUntilRemoved ==
    \A k \in kept : held[k] # 0 /\ ttl[k] = "none" /\ ~Marked(k)

===============================================================================
