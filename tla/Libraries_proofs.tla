-------------------------- MODULE Libraries_proofs ---------------------------
(***************************************************************************)
(* The libraries around the server: what an application is promised by the *)
(* module registry, by MemoryStore, by the OAuth2 tokens, by the limiters  *)
(* of an exchange, by the router, by the resolver, by the orchestrator of  *)
(* agents and by the memory of a conversation, for any number of callers   *)
(* and of calls.  Each part has its inductive invariant, shown to hold at  *)
(* the start and to be kept by every step of the part.                     *)
(***************************************************************************)
EXTENDS Shared_proofs, Reading_proofs

-----------------------------------------------------------------------------
(***************************************************************************)
(* A shutdown is complete for any modules and any number of runs.  While   *)
(* the modules are being stopped, those stopped so far are the tail of     *)
(* loadOrder in reverse, and whatever is still started is in the rest.     *)
(***************************************************************************)

\* Something of m is still at work.
AtWork(m) == m \in forwarder \/ Started(m)

\* Only what is registered is at work; of that, while modules are stopped,
\* only what is still to be stopped.
AtWorkIsToStop ==
    \A m \in Modules : AtWork(m) =>
       /\ \E i \in 1..Len(loadOrder) : loadOrder[i] = m
       /\ main = "stopping" => \E i \in 1..next : loadOrder[i] = m

\* The modules stopped so far are the last ones, the last first.
StoppedIsTail ==
    main = "stopping" =>
       /\ next <= Len(loadOrder)
       /\ Len(stopOrder) = Len(loadOrder) - next
       /\ \A i \in 1..Len(stopOrder) : stopOrder[i] = loadOrder[(Len(loadOrder) - i) + 1]

LifeIInv ==
    /\ LifeTypeOK
    /\ AtWorkIsToStop
    /\ StoppedIsTail
    /\ ShutdownIsComplete
    /\ main = "error" => failed
    /\ main \in {"loading", "starting"} => next # 0

USE LifecycleAssumption

\* Nothing is registered at first, and nothing is at work.
LEMMA LifeStart == LifeInit => LifeIInv
<1> SUFFICES ASSUME LifeInit PROVE LifeIInv
  OBVIOUS
<1>1. LifeTypeOK
  <2>1. Len(loadOrder) = 0 /\ loadOrder \in Seq(Modules) /\ stopOrder \in Seq(Modules)
    BY DEF LifeInit
  <2>2. 0 \in 0..MaxRuns /\ next \in 0..(Len(loadOrder) + 1)
    BY <2>1 DEF LifeInit
  <2> QED
    BY <2>1, <2>2 DEF LifeInit, LifeTypeOK
<1>2. \A m \in Modules : ~AtWork(m)
  BY DEF LifeInit, AtWork, Started
<1>3. AtWorkIsToStop /\ StoppedIsTail
  BY <1>2 DEF LifeInit, AtWorkIsToStop, StoppedIsTail
<1>4. ShutdownIsComplete
  BY DEF LifeInit, ShutdownIsComplete, Started
<1> QED
  BY <1>1, <1>3, <1>4 DEF LifeIInv, LifeInit

\* Registering a module leaves those at work registered.
LEMMA RegisterKeeps ==
    ASSUME LifeIInv, NEW m \in Modules, Register(m)
    PROVE  LifeIInv'
<1>0. loadOrder \in Seq(Modules) /\ Len(loadOrder) \in Nat
  BY DEF LifeIInv, LifeTypeOK
<1>6. /\ loadOrder' \in Seq(Modules) /\ Len(loadOrder') \in Nat
      /\ Len(loadOrder) <= Len(loadOrder')
      /\ \A i \in 1..Len(loadOrder) : i \in 1..Len(loadOrder') /\ loadOrder'[i] = loadOrder[i]
  <2>1. CASE loadOrder' = loadOrder
    BY <1>0, <2>1
  <2>2. CASE loadOrder' = Append(loadOrder, m)
    BY <1>0, <2>2
  <2>3. loadOrder' = loadOrder \/ loadOrder' = Append(loadOrder, m)
    BY DEF Register
  <2> QED
    BY <2>1, <2>2, <2>3
<1>1. LifeTypeOK'
  <2>1. next' \in 0..(Len(loadOrder') + 1)
    <3>1. next \in 0..(Len(loadOrder) + 1) /\ next' = next
      BY DEF LifeIInv, LifeTypeOK, Register
    <3> QED
      BY <1>0, <1>6, <3>1
  <2>2. /\ main' \in {"building", "unbuilt"}
        /\ UNCHANGED <<state, failed, manager, forwarder, stopOrder, runs>>
    BY DEF Register
  <2> QED
    BY <1>6, <2>1, <2>2 DEF LifeIInv, LifeTypeOK
<1>2. UNCHANGED <<state, failed, forwarder>> /\ main = "building" /\ main' \in {"building", "unbuilt"}
  BY DEF Register
<1>3. ~failed => forwarder = {} /\ \A k \in Modules : ~Started(k)
  BY <1>2 DEF LifeIInv, ShutdownIsComplete
<1>4. ShutdownIsComplete' /\ StoppedIsTail'
  BY <1>2, <1>3 DEF ShutdownIsComplete, StoppedIsTail, Started
<1>5. AtWorkIsToStop'
  <2> SUFFICES ASSUME NEW k \in Modules, AtWork(k)'
               PROVE  \E i \in 1..Len(loadOrder') : loadOrder'[i] = k
    BY <1>2 DEF AtWorkIsToStop
  <2>1. PICK i \in 1..Len(loadOrder) : loadOrder[i] = k
    BY <1>2 DEF LifeIInv, AtWorkIsToStop, AtWork, Started
  <2>2. i \in 1..Len(loadOrder') /\ loadOrder'[i] = loadOrder[i]
    BY <1>6, <2>1
  <2> QED
    BY <2>1, <2>2
<1> QED
  BY <1>1, <1>2, <1>4, <1>5 DEF LifeIInv

\* The steps of run() and the end of a shutdown.
LEMMA MainKeeps ==
    ASSUME LifeIInv, Run \/ LoadEnds \/ StartEnds \/ Stop \/ StopEnds
    PROVE  LifeIInv'
<1>1. LifeTypeOK'
  <2>1. CASE Run
    <3>1. runs' \in 0..MaxRuns /\ <<>> \in Seq(Modules)
      BY <2>1 DEF Run, LifeIInv, LifeTypeOK
    <3>2. next' \in 0..(Len(loadOrder') + 1)
      BY <2>1 DEF Run, LifeIInv, LifeTypeOK
    <3> QED
      BY <2>1, <3>1, <3>2 DEF Run, LifeIInv, LifeTypeOK
  <2>2. CASE LoadEnds \/ StartEnds \/ StopEnds
    <3>1. Len(loadOrder) \in Nat
      BY DEF LifeIInv, LifeTypeOK
    <3>2. next' \in 0..(Len(loadOrder) + 1) /\ loadOrder' = loadOrder
      BY <2>2, <3>1 DEF LifeIInv, LifeTypeOK, LoadEnds, StartEnds, StopEnds
    <3> QED
      BY <2>2, <3>2 DEF LifeIInv, LifeTypeOK, LoadEnds, StartEnds, StopEnds
  <2>3. CASE Stop
    BY <2>3 DEF LifeIInv, LifeTypeOK, Stop
  <2> QED
    BY <2>1, <2>2, <2>3
<1>2. UNCHANGED <<loadOrder, state, forwarder>>
  BY DEF Run, LoadEnds, StartEnds, Stop, StopEnds
<1>3. \A m \in Modules : AtWork(m)' = AtWork(m)
  BY <1>2 DEF AtWork, Started
<1>4. AtWorkIsToStop'
  BY <1>2, <1>3 DEF LifeIInv, AtWorkIsToStop, Run, LoadEnds, StartEnds, Stop, StopEnds
<1>5. StoppedIsTail'
  BY DEF LifeIInv, LifeTypeOK, Run, LoadEnds, StartEnds, Stop, StopEnds, StoppedIsTail
<1>6. ShutdownIsComplete'
  <2>1. CASE Run
    BY <1>2, <2>1 DEF Run, LifeIInv, ShutdownIsComplete, Started
  <2>2. CASE LoadEnds \/ StartEnds \/ Stop
    BY <2>2 DEF LoadEnds, StartEnds, Stop, ShutdownIsComplete
  <2>3. CASE StopEnds
    <3>1. \A m \in Modules : ~AtWork(m)
      BY <2>3 DEF StopEnds, LifeIInv, AtWorkIsToStop
    <3>2. forwarder' = {} /\ \A m \in Modules : ~Started(m)'
      BY <1>2, <3>1 DEF AtWork, Started, LifeIInv, LifeTypeOK
    <3>3. stopOrder = Reverse(loadOrder)
      <4>1. /\ stopOrder \in Seq(Modules) /\ loadOrder \in Seq(Modules)
            /\ Len(stopOrder) = Len(loadOrder)
            /\ \A i \in 1..Len(loadOrder) : stopOrder[i] = loadOrder[(Len(loadOrder) - i) + 1]
        BY <2>3 DEF StopEnds, LifeIInv, LifeTypeOK, StoppedIsTail
      <4>2. stopOrder = [i \in 1..Len(loadOrder) |-> stopOrder[i]]
        BY <4>1
      <4> QED
        BY <4>1, <4>2 DEF Reverse
    <3> QED
      BY <1>2, <2>3, <3>2, <3>3 DEF StopEnds, ShutdownIsComplete
  <2> QED
    BY <2>1, <2>2, <2>3
<1> QED
  BY <1>1, <1>4, <1>5, <1>6 DEF LifeIInv, Run, LoadEnds, StartEnds, Stop, StopEnds

\* Loading a module starts nothing; what a start puts to work is registered.
LEMMA ModuleKeeps ==
    ASSUME LifeIInv, NEW m \in Modules, LoadModule(m) \/ StartModule(m)
    PROVE  LifeIInv'
<1>1. next \in 1..Len(loadOrder) /\ loadOrder[next] = m
  BY DEF LoadModule, StartModule, Here, LifeIInv, LifeTypeOK
<1>2. LifeTypeOK'
  <2>1. next' \in 0..(Len(loadOrder) + 1) /\ next' # 0 /\ UNCHANGED <<loadOrder, stopOrder, runs>>
    BY <1>1 DEF LoadModule, StartModule, LifeIInv, LifeTypeOK
  <2>2. state' \in [Modules -> {"new", "loaded", "started", "stopped"}]
    BY DEF LoadModule, StartModule, LifeIInv, LifeTypeOK
  <2>3. manager' \subseteq Exchanges /\ forwarder' \subseteq Exchanges
    BY DEF LoadModule, StartModule, LifeIInv, LifeTypeOK
  <2>4. main' \in {"loading", "starting", "error"} /\ failed' \in BOOLEAN
    BY DEF LoadModule, StartModule, LifeIInv, LifeTypeOK
  <2> QED
    BY <2>1, <2>2, <2>3, <2>4 DEF LifeIInv, LifeTypeOK
<1>3. UNCHANGED loadOrder /\ main' \in {"loading", "starting", "error"}
  BY DEF LoadModule, StartModule
<1>4. \A k \in Modules : AtWork(k)' => AtWork(k) \/ (k = m /\ main = "starting")
  BY DEF LoadModule, StartModule, LifeIInv, LifeTypeOK, AtWork, Started
<1>5. AtWorkIsToStop' /\ StoppedIsTail'
  BY <1>1, <1>3, <1>4 DEF LifeIInv, AtWorkIsToStop, StoppedIsTail
<1>6. (main = "error" => failed)' /\ next' # 0
  BY <1>1 DEF LoadModule, StartModule
<1>7. ShutdownIsComplete'
  <2> SUFFICES ASSUME main' = "loading", ~failed'
               PROVE  forwarder' = {} /\ \A k \in Modules : ~Started(k)'
    BY <1>3 DEF ShutdownIsComplete
  <2>1. main = "loading" /\ ~failed
    BY DEF LoadModule, StartModule
  <2>2. \A k \in Modules : ~AtWork(k)
    BY <2>1 DEF LifeIInv, ShutdownIsComplete, AtWork
  <2>3. \A k \in Modules : ~AtWork(k)'
    BY <1>4, <2>1, <2>2
  <2> QED
    BY <1>2, <2>3 DEF AtWork, LifeTypeOK
<1> QED
  BY <1>2, <1>5, <1>6, <1>7 DEF LifeIInv

\* The module that is stopped is the next of the tail, and no more at work.
LEMMA StopKeeps ==
    ASSUME LifeIInv, NEW m \in Modules, StopModule(m)
    PROVE  LifeIInv'
<1>1. /\ main = "stopping" /\ main' = "stopping" /\ next' = next - 1
      /\ next \in 1..Len(loadOrder) /\ m = loadOrder[next]
      /\ stopOrder' = Append(stopOrder, m)
      /\ UNCHANGED loadOrder
  BY DEF StopModule, Stopped, Here, LifeIInv, LifeTypeOK
<1>2. LifeTypeOK'
  BY <1>1 DEF LifeIInv, LifeTypeOK, StopModule, Stopped
<1>3. \A k \in Modules : AtWork(k)' => AtWork(k) /\ k # m
  BY DEF StopModule, Stopped, LifeIInv, LifeTypeOK, AtWork, Started
<1>4. AtWorkIsToStop'
  <2> SUFFICES ASSUME NEW k \in Modules, AtWork(k)'
               PROVE  /\ \E i \in 1..Len(loadOrder) : loadOrder[i] = k
                      /\ \E i \in 1..(next - 1) : loadOrder[i] = k
    BY <1>1 DEF AtWorkIsToStop
  <2>1. PICK i \in 1..next : loadOrder[i] = k
    BY <1>1, <1>3 DEF LifeIInv, AtWorkIsToStop
  <2>2. i # next
    BY <1>1, <1>3, <2>1
  <2>3. i \in 1..(next - 1) /\ i \in 1..Len(loadOrder)
    BY <1>1, <2>1, <2>2
  <2> QED
    BY <2>1, <2>3
<1>5. StoppedIsTail'
  <2>1. /\ Len(stopOrder) = Len(loadOrder) - next
        /\ \A i \in 1..Len(stopOrder) : stopOrder[i] = loadOrder[(Len(loadOrder) - i) + 1]
        /\ stopOrder \in Seq(Modules) /\ loadOrder \in Seq(Modules)
    BY <1>1 DEF LifeIInv, LifeTypeOK, StoppedIsTail
  <2>2. Len(stopOrder') = Len(loadOrder) - next' /\ next' \in Nat /\ next' < Len(loadOrder)
    <3>1. Len(Append(stopOrder, m)) = Len(stopOrder) + 1 /\ Len(loadOrder) \in Nat
      BY <2>1
    <3> QED
      BY <1>1, <2>1, <3>1
  <2>3. ASSUME NEW i \in 1..Len(stopOrder')
        PROVE  stopOrder'[i] = loadOrder[(Len(loadOrder) - i) + 1]
    <3>1. CASE i = Len(stopOrder')
      <4>1. stopOrder'[i] = m
        BY <1>1, <2>1, <3>1
      <4>2. (Len(loadOrder) - i) + 1 = next
        BY <1>1, <2>1, <2>2, <3>1
      <4> QED
        BY <1>1, <4>1, <4>2
    <3>2. CASE i # Len(stopOrder')
      <4>1. i \in 1..Len(stopOrder) /\ stopOrder'[i] = stopOrder[i]
        BY <1>1, <2>1, <3>2
      <4> QED
        BY <2>1, <4>1
    <3> QED
      BY <3>1, <3>2
  <2> QED
    BY <1>1, <2>2, <2>3 DEF StoppedIsTail
<1> QED
  BY <1>1, <1>2, <1>4, <1>5 DEF LifeIInv, ShutdownIsComplete

\* Every step preserves the invariant.
LEMMA LifeStep == LifeIInv /\ [LifeNext]_lifeVars => LifeIInv'
<1> SUFFICES ASSUME LifeIInv, [LifeNext]_lifeVars
             PROVE  LifeIInv'
  OBVIOUS
<1>1. CASE UNCHANGED lifeVars
  BY <1>1 DEF lifeVars, LifeIInv, LifeTypeOK, AtWorkIsToStop, AtWork, Started, StoppedIsTail,
              ShutdownIsComplete
<1>2. CASE LifeNext
  BY <1>2, RegisterKeeps, MainKeeps, ModuleKeeps, StopKeeps DEF LifeNext
<1> QED
  BY <1>1, <1>2

\* The state of the modules and of run() is always as its type describes.
THEOREM LifeTypeCorrect == LifeSpec => []LifeTypeOK
<1>1. LifeIInv => LifeTypeOK
  BY DEF LifeIInv
<1> QED
  BY <1>1, LifeStart, LifeStep, PTL DEF LifeSpec

\* Every shutdown stops each module once, in reverse, and no run() that follows
\* a complete one finds anything at work.
THEOREM ShutdownCompletes == LifeSpec => []ShutdownIsComplete
<1>1. LifeIInv => ShutdownIsComplete
  BY DEF LifeIInv
<1> QED
  BY <1>1, LifeStart, LifeStep, PTL DEF LifeSpec

-----------------------------------------------------------------------------
(***************************************************************************)
(* What a MemoryStore keeps, for any users, keys and number of values: its *)
(* type invariant and KeptUntilRemoved are inductive together.             *)
(***************************************************************************)

StateIInv == StateTypeOK /\ KeptUntilRemoved

USE StateAssumption

\* A new store keeps nothing.
LEMMA StateStart == StateInit => StateIInv
<1> SUFFICES ASSUME StateInit PROVE StateIInv
  OBVIOUS
<1>1. 0 \in 0..MaxSets
  BY StateAssumption
<1>2. StateTypeOK
  BY <1>1 DEF StateInit, StateTypeOK
<1>3. KeptUntilRemoved
  BY DEF StateInit, KeptUntilRemoved
<1> QED
  BY <1>2, <1>3 DEF StateIInv

\* get() and exists() mark a key only when it has expired, so it is not kept.
LEMMA LookUpKeeps ==
    ASSUME StateIInv, NEW u \in Users, NEW k \in Keys, LookUp(u, k)
    PROVE  StateIInv'
<1>1. StateTypeOK'
  BY DEF StateIInv, StateTypeOK, LookUp, cleanVars
<1>2. KeptUntilRemoved'
  <2> SUFFICES ASSUME NEW j \in kept'
               PROVE  (held[j] # 0 /\ ttl[j] = "none" /\ ~Marked(j))'
    BY DEF KeptUntilRemoved
  <2>1. /\ j \in kept /\ held[j] # 0 /\ ttl[j] = "none" /\ ~Marked(j)
        /\ UNCHANGED <<held, ttl, doomed>>
    BY DEF StateIInv, KeptUntilRemoved, LookUp, cleanVars
  <2>2. ~Expired(j)
    BY <2>1 DEF Expired
  <2>3. \A w \in Users : j \notin removing'[w]
    BY <2>1, <2>2 DEF LookUp, StateIInv, StateTypeOK, Marked
  <2> QED
    BY <2>1, <2>3 DEF Marked
<1> QED
  BY <1>1, <1>2 DEF StateIInv

\* A removal takes a key that is marked, which is not kept.
LEMMA RemovalKeeps ==
    ASSUME StateIInv, NEW k \in Keys, Marked(k), RemoveKey(k),
           removing' \in [Users -> SUBSET Keys],
           \A u \in Users : removing'[u] \subseteq removing[u],
           doomed' \subseteq doomed,
           UNCHANGED <<sets, got, cleaner, unvisited, signalled, kept>>
    PROVE  StateIInv'
<1>1. StateTypeOK'
  BY DEF StateIInv, StateTypeOK, RemoveKey
<1>2. KeptUntilRemoved'
  <2> SUFFICES ASSUME NEW j \in kept'
               PROVE  (held[j] # 0 /\ ttl[j] = "none" /\ ~Marked(j))'
    BY DEF KeptUntilRemoved
  <2>1. j \in kept /\ held[j] # 0 /\ ttl[j] = "none" /\ ~Marked(j)
    BY DEF StateIInv, KeptUntilRemoved
  <2>2. j # k /\ j \in Keys
    BY <2>1 DEF StateIInv, StateTypeOK
  <2>3. held'[j] = held[j] /\ ttl'[j] = ttl[j]
    BY <2>2 DEF RemoveKey, StateIInv, StateTypeOK
  <2>4. ~Marked(j)'
    BY <2>1 DEF Marked
  <2> QED
    BY <2>1, <2>3, <2>4
<1> QED
  BY <1>1, <1>2 DEF StateIInv

\* set() keeps the key unless somebody is about to remove it.
LEMMA SetKeeps ==
    ASSUME StateIInv, NEW u \in Users, NEW k \in Keys, Set(u, k) \/ TtlSet(u, k)
    PROVE  StateIInv'
<1>1. sets + 1 \in 1..MaxSets /\ sets + 1 # 0
  BY DEF StateIInv, StateTypeOK, Set, TtlSet
<1>2. StateTypeOK'
  BY <1>1 DEF StateIInv, StateTypeOK, Set, TtlSet, cleanVars
<1>3. KeptUntilRemoved'
  <2> SUFFICES ASSUME NEW j \in kept'
               PROVE  (held[j] # 0 /\ ttl[j] = "none" /\ ~Marked(j))'
    BY DEF KeptUntilRemoved
  <2>1. Marked(j)' = Marked(j)
    BY DEF Set, TtlSet, Marked, cleanVars
  <2>2. CASE j = k
    <3>1. Set(u, k) /\ ~Marked(k)
      BY <2>2 DEF Set, TtlSet
    <3> QED
      BY <1>1, <2>1, <2>2, <3>1 DEF Set, StateIInv, StateTypeOK
  <2>3. CASE j # k
    <3>1. j \in kept
      BY <2>3 DEF Set, TtlSet
    <3>2. held[j] # 0 /\ ttl[j] = "none" /\ ~Marked(j) /\ j \in Keys
      BY <3>1 DEF StateIInv, KeptUntilRemoved, StateTypeOK
    <3> QED
      BY <2>1, <2>3, <3>2 DEF Set, TtlSet, StateIInv, StateTypeOK
  <2> QED
    BY <2>2, <2>3
<1> QED
  BY <1>2, <1>3 DEF StateIInv

\* delete() and clear() end the promise for what they take; time passes only
\* for entries that have a time to live.
LEMMA CallersKeep ==
    ASSUME StateIInv,
           Clear \/ \E k \in Keys : TimePasses(k) \/ \E u \in Users : Delete(u, k)
    PROVE  StateIInv'
<1>1. CASE Clear
  BY <1>1 DEF Clear, StateIInv, StateTypeOK, KeptUntilRemoved, cleanVars
<1>2. ASSUME NEW k \in Keys, TimePasses(k)
      PROVE  StateIInv'
  <2>1. StateTypeOK'
    BY <1>2 DEF TimePasses, StateIInv, StateTypeOK, cleanVars
  <2>2. k \notin kept
    BY <1>2 DEF TimePasses, StateIInv, KeptUntilRemoved
  <2>3. KeptUntilRemoved'
    BY <1>2, <2>2 DEF TimePasses, StateIInv, StateTypeOK, KeptUntilRemoved, Marked, cleanVars
  <2> QED
    BY <2>1, <2>3 DEF StateIInv
<1>3. ASSUME NEW k \in Keys, NEW u \in Users, Delete(u, k)
      PROVE  StateIInv'
  <2>1. StateTypeOK'
    BY <1>3 DEF Delete, RemoveKey, StateIInv, StateTypeOK, cleanVars
  <2>2. KeptUntilRemoved'
    BY <1>3 DEF Delete, RemoveKey, StateIInv, StateTypeOK, KeptUntilRemoved, Marked, cleanVars
  <2> QED
    BY <2>1, <2>2 DEF StateIInv
<1> QED
  BY <1>1, <1>2, <1>3

\* The cleanup task collects only keys that have expired.
LEMMA CleanerKeeps ==
    ASSUME StateIInv,
           \/ \E k \in Keys : Collect(k)
           \/ BeginCleanup \/ CleanupEnds \/ Shutdown \/ SeeSignal
    PROVE  StateIInv'
<1>1. ASSUME NEW k \in Keys, Collect(k)
      PROVE  StateIInv'
  <2>1. StateTypeOK'
    BY <1>1 DEF Collect, StateIInv, StateTypeOK
  <2>2. KeptUntilRemoved'
    BY <1>1 DEF Collect, StateIInv, KeptUntilRemoved, Marked, Expired
  <2> QED
    BY <2>1, <2>2 DEF StateIInv
<1>2. CASE BeginCleanup \/ CleanupEnds \/ Shutdown \/ SeeSignal
  <2>1. StateTypeOK'
    BY <1>2 DEF BeginCleanup, CleanupEnds, Shutdown, SeeSignal, StateIInv, StateTypeOK, cleanVars
  <2>2. UNCHANGED <<held, ttl, kept, doomed, removing>>
    BY <1>2 DEF BeginCleanup, CleanupEnds, Shutdown, SeeSignal, cleanVars
  <2>3. KeptUntilRemoved'
    BY <2>2 DEF StateIInv, KeptUntilRemoved, Marked
  <2> QED
    BY <2>1, <2>3 DEF StateIInv
<1> QED
  BY <1>1, <1>2

\* Every step keeps what is kept.
LEMMA StateStep == StateIInv /\ [StateNext]_stateVars => StateIInv'
<1> SUFFICES ASSUME StateIInv, [StateNext]_stateVars
             PROVE  StateIInv'
  OBVIOUS
<1>1. ASSUME NEW u \in Users, RemoveExpired(u)
      PROVE  StateIInv'
  <2>1. PICK k \in removing[u] : RemoveKey(k)
    BY <1>1 DEF RemoveExpired
  <2>2. k \in Keys /\ Marked(k)
    BY <2>1 DEF StateIInv, StateTypeOK, Marked
  <2>3. /\ removing' \in [Users -> SUBSET Keys]
        /\ \A w \in Users : removing'[w] \subseteq removing[w]
    BY <1>1 DEF RemoveExpired, StateIInv, StateTypeOK
  <2> QED
    BY <1>1, <2>1, <2>2, <2>3, RemovalKeeps DEF RemoveExpired, cleanVars
<1>2. ASSUME NEW k \in Keys, CleanUp(k)
      PROVE  StateIInv'
  <2>1. Marked(k) /\ RemoveKey(k) /\ doomed' \subseteq doomed
    BY <1>2 DEF CleanUp, Marked
  <2> QED
    BY <1>2, <2>1, RemovalKeeps DEF CleanUp, StateIInv, StateTypeOK
<1>3. CASE UNCHANGED stateVars
  BY <1>3 DEF stateVars, cleanVars, StateIInv, StateTypeOK, KeptUntilRemoved, Marked
<1> QED
  BY <1>1, <1>2, <1>3, LookUpKeeps, SetKeeps, CallersKeep, CleanerKeeps DEF StateNext

\* The store's state is always one its type describes.
THEOREM StateTypeCorrect == StateSpec => []StateTypeOK
<1>1. StateIInv => StateTypeOK
  BY DEF StateIInv
<1> QED
  BY <1>1, StateStart, StateStep, PTL DEF StateSpec

\* A value set without a time to live, on a key nobody was about to remove,
\* stays until a caller replaces, deletes or clears it.
THEOREM ValuesAreKept == StateSpec => []KeptUntilRemoved
<1>1. StateIInv => KeptUntilRemoved
  BY DEF StateIInv
<1> QED
  BY <1>1, StateStart, StateStep, PTL DEF StateSpec

-----------------------------------------------------------------------------
(***************************************************************************)
(* What force_refresh() returns, for any number of tasks and of writes.    *)
(* Tokens are numbered by the write that cached them, so a token is new to *)
(* a task if its number is above the writes the task saw when it cleared   *)
(* the cache.                                                              *)
(***************************************************************************)

\* Whatever the cache holds once force_refresh() has cleared it, was cached
\* afterwards.
NewerThanCleared ==
    \A c \in Clients :
       /\ clearedAt[c] <= writes
       /\ stage[c] = "clearing" => call[c] = "force"
       /\ stage[c] # "idle" => returned[c] = 0
       /\ /\ call[c] = "force" /\ stage[c] \in {"checking", "sent", "parsed"}
          /\ cached # 0
          => cached > clearedAt[c]

\* Only force_refresh() empties a cache that was filled, and a task that has
\* cached a token reads it afterwards.
EmptyOnlyIfForced ==
    /\ writes # 0 /\ cached = 0 => forced
    /\ \A c \in Clients : stage[c] = "reading" => writes # 0 /\ call[c] = "exchange"

TokenIInv == TokenTypeOK /\ NewerThanCleared /\ EmptyOnlyIfForced /\ ForceRefreshRenews

USE TokenAssumption

\* A new client has cached and returned nothing.
LEMMA TokenStart == TokenInit => TokenIInv
<1> SUFFICES ASSUME TokenInit PROVE TokenIInv
  OBVIOUS
<1>1. 0 \in 0..MaxWrites
  BY TokenAssumption
<1>2. TokenTypeOK
  <2>1. cached \in 0..writes /\ writes \in 0..MaxWrites
    BY <1>1 DEF TokenInit
  <2>2. "get" \in TokenCalls
    BY DEF TokenCalls
  <2> QED
    BY <1>1, <2>1, <2>2 DEF TokenInit, TokenTypeOK
<1>3. NewerThanCleared /\ EmptyOnlyIfForced /\ ForceRefreshRenews
  BY DEF TokenInit, NewerThanCleared, EmptyOnlyIfForced, ForceRefreshRenews
<1> QED
  BY <1>2, <1>3 DEF TokenIInv

\* A call begins; only force_refresh() begins by clearing.
LEMMA CallStep ==
    ASSUME TokenIInv, NEW c \in Clients, NEW kind \in TokenCalls, CallToken(c, kind)
    PROVE  TokenIInv'
<1>1. /\ stage'[c] \in {"checking", "clearing", "sent"}
      /\ stage'[c] = "clearing" <=> kind = "force"
      /\ call'[c] = kind /\ returned'[c] = 0
  BY DEF CallToken, Goes, TokenIInv, TokenTypeOK, TokenCalls
<1>2. \A d \in Clients \ {c} :
         stage'[d] = stage[d] /\ call'[d] = call[d] /\ returned'[d] = returned[d]
  BY DEF CallToken, Goes, TokenIInv, TokenTypeOK
<1>3. UNCHANGED <<cached, lasting, writes, clearedAt, forced>>
  BY DEF CallToken
<1>4. TokenTypeOK'
  <2>1. stage' \in [Clients -> {"idle", "clearing", "checking", "sent", "parsed", "reading", "panicked"}]
    BY DEF CallToken, Goes, TokenIInv, TokenTypeOK, TokenCalls
  <2>2. call' \in [Clients -> TokenCalls] /\ returned' \in [Clients -> 0..MaxWrites]
    BY DEF CallToken, TokenIInv, TokenTypeOK
  <2> QED
    BY <1>3, <2>1, <2>2 DEF TokenIInv, TokenTypeOK
<1>5. NewerThanCleared'
  BY <1>1, <1>2, <1>3 DEF TokenIInv, NewerThanCleared
<1>6. EmptyOnlyIfForced'
  BY <1>1, <1>2, <1>3 DEF TokenIInv, EmptyOnlyIfForced
<1>7. ForceRefreshRenews'
  BY <1>1, <1>2, <1>3 DEF TokenIInv, ForceRefreshRenews
<1> QED
  BY <1>4, <1>5, <1>6, <1>7 DEF TokenIInv

\* force_refresh() empties the cache.
LEMMA ClearStep ==
    ASSUME TokenIInv, NEW c \in Clients, ClearCache(c)
    PROVE  TokenIInv'
<1>1. TokenTypeOK'
  <2>1. clearedAt' \in [Clients -> 0..MaxWrites] /\ cached' \in 0..writes
    BY DEF ClearCache, TokenIInv, TokenTypeOK
  <2> QED
    BY <2>1 DEF ClearCache, Goes, TokenIInv, TokenTypeOK
<1>2. cached' = 0 /\ forced' = TRUE /\ UNCHANGED <<writes, call, returned>>
  BY DEF ClearCache
<1>3. \A d \in Clients : \/ stage'[d] = "checking" /\ clearedAt'[d] = writes /\ d = c
                         \/ stage'[d] = stage[d] /\ clearedAt'[d] = clearedAt[d] /\ d # c
  BY DEF ClearCache, Goes, TokenIInv, TokenTypeOK
<1>4. returned[c] = 0 /\ writes \in Nat
  BY DEF ClearCache, TokenIInv, NewerThanCleared, TokenTypeOK
<1>5. NewerThanCleared'
  BY <1>2, <1>3, <1>4 DEF TokenIInv, NewerThanCleared
<1>6. EmptyOnlyIfForced'
  BY <1>2, <1>3 DEF TokenIInv, EmptyOnlyIfForced
<1>7. ForceRefreshRenews'
  BY <1>2, <1>3, <1>4 DEF TokenIInv, ForceRefreshRenews
<1> QED
  BY <1>1, <1>5, <1>6, <1>7 DEF TokenIInv

\* The steps of a request that leave the cache as it is.
LEMMA QuietStep ==
    ASSUME TokenIInv, NEW c \in Clients,
           CheckCache(c) \/ TokenRequestFails(c) \/ TokenArrives(c) \/ ReadBack(c)
    PROVE  TokenIInv'
<1>1. TokenTypeOK'
  BY DEF CheckCache, TokenRequestFails, TokenArrives, ReadBack, Goes, TokenIInv, TokenTypeOK
<1>2. UNCHANGED <<cached, writes, call, clearedAt, forced>>
  BY DEF CheckCache, TokenRequestFails, TokenArrives, ReadBack
<1>3. \A d \in Clients \ {c} : stage'[d] = stage[d] /\ returned'[d] = returned[d]
  BY DEF CheckCache, TokenRequestFails, TokenArrives, ReadBack, Goes, TokenIInv, TokenTypeOK
<1>4. \/ stage[c] = "checking" /\ stage'[c] = "idle" /\ returned'[c] = cached /\ cached # 0
      \/ stage[c] = "checking" /\ stage'[c] = "sent" /\ returned'[c] = returned[c]
      \/ stage[c] = "sent" /\ stage'[c] \in {"idle", "parsed"} /\ returned'[c] = returned[c]
      \/ stage[c] = "reading" /\ stage'[c] = "idle" /\ returned'[c] = cached
      \/ /\ stage[c] = "reading" /\ stage'[c] = "panicked" /\ returned'[c] = returned[c]
         /\ cached = 0
  BY DEF CheckCache, TokenRequestFails, TokenArrives, ReadBack, Goes, TokenIInv, TokenTypeOK
<1>5. NewerThanCleared'
  BY <1>2, <1>3, <1>4 DEF TokenIInv, NewerThanCleared
<1>6. EmptyOnlyIfForced'
  BY <1>2, <1>3, <1>4 DEF TokenIInv, EmptyOnlyIfForced
<1>7. ForceRefreshRenews'
  BY <1>2, <1>3, <1>4 DEF TokenIInv, NewerThanCleared, EmptyOnlyIfForced, ForceRefreshRenews
<1> QED
  BY <1>1, <1>5, <1>6, <1>7 DEF TokenIInv

\* A token is cached, by a request or by set_token().
LEMMA WriteKeeps ==
    ASSUME TokenTypeOK, Write
    PROVE  /\ writes' \in 1..MaxWrites /\ cached' = writes' /\ writes' = writes + 1
           /\ lasting' \in BOOLEAN
           /\ \A c \in Clients : clearedAt[c] <= writes => cached' > clearedAt[c]
<1>1. writes \in Nat /\ writes < MaxWrites
  BY TokenAssumption DEF TokenTypeOK, Write
<1>2. \A c \in Clients : clearedAt[c] \in Nat
  BY TokenAssumption DEF TokenTypeOK
<1> QED
  BY <1>1, <1>2, TokenAssumption DEF Write

\* What is cached is newer than anything cached before.
LEMMA StoreStep ==
    ASSUME TokenIInv, NEW c \in Clients, StoreToken(c)
    PROVE  TokenIInv'
<1>1. /\ writes' \in 1..MaxWrites /\ cached' = writes' /\ writes' = writes + 1
      /\ lasting' \in BOOLEAN
      /\ \A d \in Clients : cached' > clearedAt[d]
  BY WriteKeeps DEF StoreToken, TokenIInv, NewerThanCleared
<1>2. UNCHANGED <<call, clearedAt, forced>> /\ stage[c] = "parsed"
  BY DEF StoreToken
<1>3. \A d \in Clients \ {c} : stage'[d] = stage[d] /\ returned'[d] = returned[d]
  BY DEF StoreToken, Goes, TokenIInv, TokenTypeOK
<1>4. \/ stage'[c] = "reading" /\ returned'[c] = returned[c] /\ call[c] = "exchange"
      \/ stage'[c] = "idle" /\ returned'[c] = writes'
  BY DEF StoreToken, Write, Goes, TokenIInv, TokenTypeOK
<1>5. writes \in Nat /\ clearedAt \in [Clients -> Nat]
  BY TokenAssumption DEF TokenIInv, TokenTypeOK
<1>6. TokenTypeOK'
  <2>1. returned' \in [Clients -> 0..MaxWrites]
    BY <1>1 DEF StoreToken, Write, TokenIInv, TokenTypeOK
  <2>2. stage' \in [Clients -> {"idle", "clearing", "checking", "sent", "parsed", "reading", "panicked"}]
    BY DEF StoreToken, Goes, TokenIInv, TokenTypeOK
  <2>3. writes' \in 0..MaxWrites /\ cached' \in 0..writes'
    BY <1>1
  <2> QED
    BY <1>1, <1>2, <2>1, <2>2, <2>3 DEF TokenIInv, TokenTypeOK
<1>7. NewerThanCleared'
  BY <1>1, <1>2, <1>3, <1>4, <1>5 DEF TokenIInv, NewerThanCleared
<1>8. EmptyOnlyIfForced'
  BY <1>1, <1>2, <1>3, <1>4 DEF TokenIInv, EmptyOnlyIfForced
<1>9. ForceRefreshRenews'
  BY <1>1, <1>2, <1>3, <1>4 DEF TokenIInv, ForceRefreshRenews
<1> QED
  BY <1>6, <1>7, <1>8, <1>9 DEF TokenIInv

\* set_token() caches what the application gives it, and a token ages.
LEMMA OutsideStep ==
    ASSUME TokenIInv, SetToken \/ TokenAges
    PROVE  TokenIInv'
<1>1. CASE SetToken
  <2>1. /\ writes' \in 1..MaxWrites /\ cached' = writes' /\ writes' = writes + 1
        /\ lasting' \in BOOLEAN
        /\ \A d \in Clients : cached' > clearedAt[d]
    BY <1>1, WriteKeeps DEF SetToken, TokenIInv, NewerThanCleared
  <2>2. UNCHANGED <<call, stage, returned, clearedAt, forced>>
    BY <1>1 DEF SetToken
  <2>3. writes \in Nat /\ clearedAt \in [Clients -> Nat]
    BY TokenAssumption DEF TokenIInv, TokenTypeOK
  <2>4. TokenTypeOK'
    <3>1. writes' \in 0..MaxWrites /\ cached' \in 0..writes'
      BY <2>1
    <3> QED
      BY <2>1, <2>2, <3>1 DEF TokenIInv, TokenTypeOK
  <2>5. NewerThanCleared'
    BY <2>1, <2>2, <2>3 DEF TokenIInv, NewerThanCleared
  <2>6. EmptyOnlyIfForced' /\ ForceRefreshRenews'
    BY <2>1, <2>2 DEF TokenIInv, EmptyOnlyIfForced, ForceRefreshRenews
  <2> QED
    BY <2>4, <2>5, <2>6 DEF TokenIInv
<1>2. CASE TokenAges
  BY <1>2 DEF TokenAges, TokenIInv, TokenTypeOK, NewerThanCleared, EmptyOnlyIfForced,
              ForceRefreshRenews
<1> QED
  BY <1>1, <1>2

\* Every step preserves the invariant.
LEMMA TokenStep == TokenIInv /\ [TokenNext]_tokenVars => TokenIInv'
<1> SUFFICES ASSUME TokenIInv, [TokenNext]_tokenVars
             PROVE  TokenIInv'
  OBVIOUS
<1>1. CASE UNCHANGED tokenVars
  BY <1>1 DEF tokenVars, TokenIInv, TokenTypeOK, NewerThanCleared, EmptyOnlyIfForced,
              ForceRefreshRenews
<1>2. CASE TokenNext
  BY <1>2, CallStep, ClearStep, QuietStep, StoreStep, OutsideStep DEF TokenNext
<1> QED
  BY <1>1, <1>2

\* The cache and its callers are always as their types describe.
THEOREM TokenTypeCorrect == TokenSpec => []TokenTypeOK
<1>1. TokenIInv => TokenTypeOK
  BY DEF TokenIInv
<1> QED
  BY <1>1, TokenStart, TokenStep, PTL DEF TokenSpec

\* force_refresh() never returns a token that was cached when it cleared the
\* cache, whatever other tasks write in between, and exchange_code() finds the
\* cache empty only where force_refresh() is used.
THEOREM RefreshRenews == TokenSpec => []ForceRefreshRenews
<1>1. TokenIInv => ForceRefreshRenews
  BY DEF TokenIInv
<1> QED
  BY <1>1, TokenStart, TokenStep, PTL DEF TokenSpec

-----------------------------------------------------------------------------
(* The limiters of crates/mtw-exchange.  The bucket covers every stretch   *)
(* of time that ends now: what is in it, with what was taken since a       *)
(* request, is at most a full bucket and what time has brought since.  The *)
(* window holds the latest requests, and those it does not are expired.    *)

\* Requests are let through one after the other.
GrantsInOrder == \A i, j \in 1..Len(grants) : i <= j => grants[i] <= grants[j]

BucketCovers ==
    limiter.strategy = "token_bucket" =>
       \A i \in 1..Len(grants) :
          /\ grants[i] <= refilled
          /\ tokens + ((Len(grants) - i) + 1) * limiter.window
               <= limiter.max * limiter.window + (refilled - grants[i]) * limiter.max

WindowCovers ==
    limiter.strategy = "sliding_window" =>
       /\ Len(stamps) <= Len(grants)
       /\ \A i \in 1..Len(stamps) : stamps[i] = grants[(Len(grants) - Len(stamps)) + i]
       /\ \A i \in 1..(Len(grants) - Len(stamps)) : grants[i] <= now - limiter.window

RateIInv == RateTypeOK /\ GrantsInOrder /\ BucketCovers /\ WindowCovers /\ RateRespected

LEMMA LimiterIs ==
    ASSUME NEW l \in Limiters
    PROVE  /\ l.strategy \in {"token_bucket", "sliding_window"}
           /\ l.max \in Nat /\ l.window \in Nat /\ l.window > 0
           /\ l.max * l.window \in Nat
BY RateAssumption

LEMMA Distributes == \A a, b, c \in Int : (a + b) * c = a * c + b * c
OBVIOUS

LEMMA ProductInt == \A a, b \in Int : a * b \in Int
OBVIOUS

\* What time brings adds up: a bucket of R, refilled at b from one of T that
\* covered the n requests since g at the time a, covers them too.
LEMMA BucketSum ==
    ASSUME NEW M \in Nat, NEW W \in Nat, NEW g \in Int, NEW a \in Int, NEW b \in Int,
           NEW T \in Int, NEW R \in Int, NEW n \in Int,
           T + n * W <= M * W + (a - g) * M,
           R <= T + (b - a) * M
    PROVE  R + n * W <= M * W + (b - g) * M
<1> DEFINE nW == n * W
           full == M * W
           before == (a - g) * M
           brought == (b - a) * M
           both == (b - g) * M
<1>1. nW \in Int /\ full \in Int /\ before \in Int /\ brought \in Int /\ both \in Int
  <2>1. a - g \in Int /\ b - a \in Int /\ b - g \in Int /\ M \in Int /\ W \in Int
    OBVIOUS
  <2> QED
    BY <2>1, ProductInt
<1>2. both = brought + before
  <2>1. (b - a) + (a - g) = b - g
    OBVIOUS
  <2>2. b - a \in Int /\ a - g \in Int /\ M \in Int
    OBVIOUS
  <2> QED
    BY <2>1, <2>2, Distributes
<1>3. T + nW <= full + before /\ R <= T + brought
  OBVIOUS
<1> HIDE DEF nW, full, before, brought, both
<1>4. R + nW <= full + both
  BY <1>1, <1>2, <1>3
<1> QED
  BY <1>4 DEF nW, full, both

\* Times stay times when the clock goes on.
LEMMA TimesStay ==
    ASSUME NEW a \in Nat, NEW b \in Nat, a <= b, NEW s \in Seq(0..a)
    PROVE  s \in Seq(0..b)
<1>1. Len(s) \in Nat /\ \A i \in 1..Len(s) : s[i] \in 0..b
  OBVIOUS
<1> QED
  BY <1>1

LEMMA RateStart == RateInit => RateIInv
<1> SUFFICES ASSUME RateInit PROVE RateIInv
  OBVIOUS
<1>1. limiter.max * limiter.window \in Nat
  BY LimiterIs DEF RateInit
<1>2. RateTypeOK
  BY <1>1, RateAssumption, LimiterIs DEF RateInit, RateTypeOK
<1>3. GrantsInOrder /\ BucketCovers /\ WindowCovers /\ RateRespected
  BY DEF RateInit, GrantsInOrder, BucketCovers, WindowCovers, RateRespected
<1> QED
  BY <1>2, <1>3 DEF RateIInv

\* Only a look at the limiter lets a request through: whatever else happens to
\* the tasks, the limits are kept.
LEMMA RestKeeps ==
    ASSUME RateIInv,
           UNCHANGED <<limiter, now, bucketVars, stamps, grants>>,
           asking' \in [Tasks -> {"no", "acquiring", "asleep", "granted", "panicked"}],
           wake' \in [Tasks -> Int]
    PROVE  RateIInv'
<1>1. RateTypeOK'
  BY DEF RateIInv, RateTypeOK, bucketVars
<1>2. GrantsInOrder' /\ BucketCovers' /\ WindowCovers' /\ RateRespected'
  BY DEF RateIInv, GrantsInOrder, BucketCovers, WindowCovers, RateRespected, bucketVars
<1> QED
  BY <1>1, <1>2 DEF RateIInv

\* Time takes nothing away from what is covered.
LEMMA TickKeeps ==
    ASSUME RateIInv, Tick
    PROVE  RateIInv'
<1> USE DEF Tick, RateIInv, bucketVars
<1>1. RateTypeOK'
  <2>1. now \in Nat /\ now + 1 \in Nat /\ now <= now + 1 /\ now' = now + 1
    BY DEF RateTypeOK
  <2>2. stamps' \in Seq(0..now') /\ grants' \in Seq(0..now')
    BY <2>1, TimesStay DEF RateTypeOK
  <2>3. refilled' \in 0..now' /\ now' \in 0..MaxNow
    BY <2>1, RateAssumption DEF RateTypeOK
  <2> QED
    BY <2>2, <2>3 DEF RateTypeOK
<1>2. GrantsInOrder' /\ BucketCovers' /\ RateRespected'
  BY DEF GrantsInOrder, BucketCovers, RateRespected
<1>3. WindowCovers'
  <2>1. now \in Int /\ limiter.window \in Int /\ grants \in Seq(0..now)
        /\ Len(grants) \in Nat /\ stamps \in Seq(0..now) /\ Len(stamps) \in Nat
    BY LimiterIs DEF RateTypeOK
  <2> SUFFICES ASSUME limiter.strategy = "sliding_window",
                      NEW i \in 1..(Len(grants) - Len(stamps))
               PROVE  grants[i] <= (now + 1) - limiter.window
    BY DEF WindowCovers
  <2>2. grants[i] <= now - limiter.window
    BY DEF WindowCovers
  <2>3. i \in 1..Len(grants) /\ grants[i] \in Int
    BY <2>1
  <2> QED
    BY <2>1, <2>2, <2>3
<1> QED
  BY <1>1, <1>2, <1>3 DEF RateIInv

\* What is let through now is the latest, and comes after all that was before.
LEMMA GrantIsLast ==
    ASSUME RateIInv, NEW t \in Tasks, Grant(t), now' = now, limiter' = limiter
    PROVE  /\ grants \in Seq(0..now) /\ Len(grants) \in Nat
           /\ grants' \in Seq(0..now') /\ Len(grants') = Len(grants) + 1
           /\ \A i \in 1..Len(grants) : grants'[i] = grants[i] /\ grants[i] \in 0..now
           /\ grants'[Len(grants) + 1] = now /\ now \in Nat
           /\ GrantsInOrder'
<1>1. grants \in Seq(0..now) /\ now \in 0..now /\ now \in Nat /\ Len(grants) \in Nat
  BY DEF RateIInv, RateTypeOK
<1>2. grants' = Append(grants, now)
  BY DEF Grant
<1>3. /\ grants' \in Seq(0..now) /\ Len(grants') = Len(grants) + 1
      /\ \A i \in 1..Len(grants) : grants'[i] = grants[i] /\ grants[i] \in 0..now
      /\ grants'[Len(grants) + 1] = now
  BY <1>1, <1>2
<1>4. ASSUME NEW i \in 1..Len(grants'), NEW j \in 1..Len(grants'), i <= j
      PROVE  grants'[i] <= grants'[j]
  <2>1. CASE j \in 1..Len(grants)
    <3>1. i \in 1..Len(grants)
      BY <1>1, <1>3, <1>4, <2>1
    <3>2. grants[i] <= grants[j]
      BY <1>4, <2>1, <3>1 DEF RateIInv, GrantsInOrder
    <3> QED
      BY <1>3, <2>1, <3>1, <3>2
  <2>2. CASE j = Len(grants) + 1
    <3>1. i \in 1..Len(grants) \/ i = Len(grants) + 1
      BY <1>1, <1>3
    <3> QED
      BY <1>1, <1>3, <2>2, <3>1
  <2> QED
    BY <1>1, <1>3, <2>1, <2>2
<1> QED
  BY <1>1, <1>3, <1>4 DEF GrantsInOrder

\* It is enough to look at the stretches that end with the latest request.
LEMMA LatestStretch ==
    ASSUME RateIInv, NEW t \in Tasks, Grant(t), now' = now, limiter' = limiter,
           \A i \in 1..(Len(grants) + 1) :
              LET n == (Len(grants) + 1) - i + 1
                  time == now - grants'[i]
              IN IF limiter.strategy = "sliding_window"
                 THEN n > limiter.max => time >= limiter.window
                 ELSE (n - limiter.max) * limiter.window <= limiter.max * time
    PROVE  RateRespected'
<1> SUFFICES ASSUME NEW i \in 1..Len(grants'), NEW j \in 1..Len(grants'), i <= j
             PROVE  LET n == j - i + 1
                        time == grants'[j] - grants'[i]
                    IN IF limiter.strategy = "sliding_window"
                       THEN n > limiter.max => time >= limiter.window
                       ELSE (n - limiter.max) * limiter.window <= limiter.max * time
  BY DEF RateRespected
<1>1. CASE j = Len(grants) + 1
  BY <1>1, GrantIsLast
<1>2. CASE j # Len(grants) + 1
  <2>1. i \in 1..Len(grants) /\ j \in 1..Len(grants)
    <3>1. /\ Len(grants) \in Nat /\ Len(grants') = Len(grants) + 1
          /\ i \in Int /\ j \in Int /\ 1 <= i /\ i <= j /\ j <= Len(grants')
      BY GrantIsLast
    <3>2. j <= Len(grants)
      BY <1>2, <3>1
    <3> QED
      BY <3>1, <3>2
  <2>2. grants'[i] = grants[i] /\ grants'[j] = grants[j]
    BY <2>1, GrantIsLast
  <2> QED
    BY <2>1, <2>2 DEF RateIInv, RateRespected
<1> QED
  BY <1>1, <1>2

\* What the bucket holds with what time has brought still covers every stretch.
LEMMA RefilledCovers ==
    ASSUME RateIInv, limiter.strategy = "token_bucket"
    PROVE  /\ Refilled \in 0..(limiter.max * limiter.window)
           /\ \A i \in 1..Len(grants) :
                 /\ grants[i] <= now
                 /\ Refilled + ((Len(grants) - i) + 1) * limiter.window
                      <= limiter.max * limiter.window + (now - grants[i]) * limiter.max
<1> DEFINE full == limiter.max * limiter.window
           more == tokens + (now - refilled) * limiter.max
<1>1. /\ limiter.max \in Nat /\ limiter.window \in Nat /\ limiter.window > 0
      /\ full \in Nat /\ tokens \in 0..full /\ now \in Nat /\ refilled \in 0..now
      /\ grants \in Seq(0..now) /\ Len(grants) \in Nat
  BY LimiterIs DEF RateIInv, RateTypeOK
<1>2. (now - refilled) * limiter.max \in Nat
  BY <1>1
<1>3. more \in Nat /\ tokens \in Int /\ full \in Int
  BY <1>1, <1>2
<1>4. Refilled = IF more > full THEN full ELSE more
  BY DEF Refilled, RefilledOver
<1>5. Refilled \in 0..full /\ Refilled <= more
  BY <1>1, <1>3, <1>4
<1>6. ASSUME NEW i \in 1..Len(grants)
      PROVE  /\ grants[i] <= now
             /\ Refilled + ((Len(grants) - i) + 1) * limiter.window
                  <= full + (now - grants[i]) * limiter.max
  <2>1. grants[i] \in 0..now
    BY <1>1
  <2>2. /\ grants[i] <= refilled
        /\ tokens + ((Len(grants) - i) + 1) * limiter.window
             <= limiter.max * limiter.window + (refilled - grants[i]) * limiter.max
    BY DEF RateIInv, BucketCovers
  <2>3. /\ grants[i] \in Int /\ refilled \in Int /\ now \in Int /\ tokens \in Int
        /\ Refilled \in Int /\ (Len(grants) - i) + 1 \in Int
    BY <1>1, <1>5, <2>1
  <2>4. limiter.max \in Nat /\ limiter.window \in Nat
    BY <1>1
  <2>5. Refilled + ((Len(grants) - i) + 1) * limiter.window
          <= limiter.max * limiter.window + (now - grants[i]) * limiter.max
    BY <1>5, <2>2, <2>3, <2>4, BucketSum
  <2> QED
    BY <2>1, <2>5, <1>1
<1> QED
  BY <1>5, <1>6

\* Asking and sleeping are typed whatever the limiter says.
LEMMA AskerTypes ==
    ASSUME RateIInv, NEW t \in Tasks
    PROVE  /\ Grant(t) => /\ asking' \in [Tasks -> {"no", "acquiring", "asleep", "granted", "panicked"}]
                          /\ wake' \in [Tasks -> Int]
           /\ \A ms \in Int : Sleep(t, ms) =>
                 /\ asking' \in [Tasks -> {"no", "acquiring", "asleep", "granted", "panicked"}]
                 /\ wake' \in [Tasks -> Int]
<1>1. /\ asking \in [Tasks -> {"no", "acquiring", "asleep", "granted", "panicked"}]
      /\ wake \in [Tasks -> Int] /\ now \in Int
  BY DEF RateIInv, RateTypeOK
<1>2. Grant(t) => /\ asking' \in [Tasks -> {"no", "acquiring", "asleep", "granted", "panicked"}]
                  /\ wake' \in [Tasks -> Int]
  BY <1>1 DEF Grant
<1>3. ASSUME NEW ms \in Int, Sleep(t, ms)
      PROVE  /\ asking' \in [Tasks -> {"no", "acquiring", "asleep", "granted", "panicked"}]
             /\ wake' \in [Tasks -> Int]
  <2>1. (IF ms < 0 THEN -1 ELSE now + ms) \in Int
    BY <1>1
  <2> QED
    BY <1>1, <1>3, <2>1 DEF Sleep
<1> QED
  BY <1>2, <1>3

\* A look at the bucket lets one request through if there is a whole token.
LEMMA AcquireTokenKeeps ==
    ASSUME RateIInv, NEW t \in Tasks, AcquireToken(t)
    PROVE  RateIInv'
<1> DEFINE full == limiter.max * limiter.window
<1>0. /\ limiter.strategy = "token_bucket" /\ refilled' = now /\ limiter' = limiter
      /\ now' = now /\ stamps' = stamps
  BY DEF AcquireToken
<1>1. /\ limiter \in Limiters /\ limiter.max \in Nat /\ limiter.window \in Nat
      /\ limiter.window > 0 /\ full \in Nat /\ now \in 0..MaxNow /\ now \in Nat
      /\ grants \in Seq(0..now) /\ Len(grants) \in Nat
  BY RateAssumption, LimiterIs DEF RateIInv, RateTypeOK
<1>2. Refilled \in 0..full
  BY <1>0, RefilledCovers
<1>3. WindowCovers'
  BY <1>0 DEF WindowCovers
<1>4. CASE Refilled >= limiter.window
  <2>1. Grant(t) /\ tokens' = Refilled - limiter.window
    BY <1>4 DEF AcquireToken
  <2>2. /\ grants' \in Seq(0..now') /\ Len(grants') = Len(grants) + 1
        /\ \A i \in 1..Len(grants) : grants'[i] = grants[i] /\ grants[i] \in 0..now
        /\ grants'[Len(grants) + 1] = now /\ GrantsInOrder'
    BY <1>0, <2>1, GrantIsLast
  <2>3. tokens' \in 0..full
    <3> HIDE DEF full
    <3> QED
      BY <1>1, <1>2, <1>4, <2>1
  <2>4. RateTypeOK'
    BY <1>0, <1>1, <2>1, <2>2, <2>3, AskerTypes DEF RateIInv, RateTypeOK
  <2>5. ASSUME NEW i \in 1..(Len(grants) + 1)
        PROVE  /\ grants'[i] \in 0..now
               /\ tokens' + (((Len(grants) + 1) - i) + 1) * limiter.window
                    <= full + (now - grants'[i]) * limiter.max
    <3>1. CASE i = Len(grants) + 1
      <4>1. ((Len(grants) + 1) - i) + 1 = 1 /\ now - grants'[i] = 0
        BY <1>1, <2>2, <3>1
      <4>2. 1 * limiter.window = limiter.window /\ 0 * limiter.max = 0
        BY <1>1
      <4> HIDE DEF full
      <4> QED
        BY <1>1, <1>2, <2>1, <2>2, <3>1, <4>1, <4>2
    <3>2. CASE i \in 1..Len(grants)
      <4> DEFINE k == (Len(grants) - i) + 1
                 kW == k * limiter.window
                 nW == (k + 1) * limiter.window
                 aM == (now - grants[i]) * limiter.max
      <4>1. Refilled + kW <= full + aM
        BY <1>0, <3>2, RefilledCovers
      <4>2. k \in Int /\ grants[i] \in 0..now /\ now - grants[i] \in Int
        <5>1. grants[i] \in 0..now
          BY <2>2, <3>2
        <5>2. now - grants[i] \in Int
          BY <1>1, <5>1
        <5>3. k \in Int
          BY <1>1, <3>2
        <5> QED
          BY <5>1, <5>2, <5>3
      <4>3. nW = kW + limiter.window
        <5>1. k \in Int /\ 1 \in Int /\ limiter.window \in Int
          BY <1>1, <4>2
        <5>2. nW = kW + 1 * limiter.window
          BY <5>1, Distributes
        <5> QED
          BY <1>1, <5>2
      <4>4. kW \in Int /\ aM \in Int
        <5>1. limiter.window \in Int /\ limiter.max \in Int
          BY <1>1
        <5> QED
          BY <4>2, <5>1, ProductInt
      <4>5. ((Len(grants) + 1) - i) + 1 = k + 1
        BY <1>1, <3>2
      <4> HIDE DEF k, kW, nW, aM, full
      <4>6. tokens' + nW <= full + aM
        <5>1. \A x, w, y, u, v \in Int : x + y <= u + v => (x - w) + (y + w) <= u + v
          OBVIOUS
        <5>2. Refilled \in Int /\ full \in Int /\ limiter.window \in Int
          BY <1>1, <1>2
        <5>3. (Refilled - limiter.window) + (kW + limiter.window) <= full + aM
          BY <4>1, <4>4, <5>1, <5>2
        <5> QED
          BY <2>1, <4>3, <5>3
      <4> QED
        BY <2>2, <3>2, <4>2, <4>5, <4>6 DEF nW, aM
    <3>3. i \in 1..Len(grants) \/ i = Len(grants) + 1
      BY <1>1
    <3> QED
      BY <3>1, <3>2, <3>3
  <2>6. BucketCovers'
    <3>1. ASSUME NEW i \in 1..Len(grants')
          PROVE  /\ grants'[i] <= refilled'
                 /\ tokens' + ((Len(grants') - i) + 1) * limiter'.window
                      <= limiter'.max * limiter'.window + (refilled' - grants'[i]) * limiter'.max
      <4>1. i \in 1..(Len(grants) + 1) /\ grants'[i] <= now
        BY <1>1, <2>2, <2>5
      <4> QED
        BY <1>0, <2>2, <2>5, <4>1
    <3> QED
      BY <3>1 DEF BucketCovers
  <2>7. RateRespected'
    <3>1. ASSUME NEW i \in 1..(Len(grants) + 1)
          PROVE  (((Len(grants) + 1) - i + 1) - limiter.max) * limiter.window
                    <= limiter.max * (now - grants'[i])
      <4> DEFINE n == ((Len(grants) + 1) - i) + 1
                 nW == n * limiter.window
                 age == now - grants'[i]
                 aM == age * limiter.max
      <4>1. tokens' + nW <= full + aM
        BY <2>5
      <4>2. n \in Int /\ age \in Int /\ limiter.max \in Int /\ limiter.window \in Int
        <5>1. grants'[i] \in 0..now
          BY <2>5
        <5>2. age \in Int
          BY <1>1, <5>1
        <5>3. n \in Int /\ limiter.max \in Int /\ limiter.window \in Int
          BY <1>1
        <5> QED
          BY <5>2, <5>3
      <4>3. nW \in Int /\ aM \in Int /\ full \in Int /\ tokens' \in Nat
        BY <1>1, <2>3, <4>2, ProductInt
      <4>4. (n - limiter.max) * limiter.window = nW - full
        BY <4>2
      <4>5. limiter.max * age = aM
        BY <4>2
      <4> HIDE DEF n, nW, age, aM, full
      <4>6. \A T \in Nat, x, y, z \in Int : T + x <= y + z => x - y <= z
        OBVIOUS
      <4>8. nW - full <= aM
        BY <4>1, <4>3, <4>6
      <4>7. (n - limiter.max) * limiter.window <= limiter.max * age
        BY <4>4, <4>5, <4>8
      <4> QED
        BY <4>7 DEF n, age
    <3> QED
      BY <1>0, <2>1, <3>1, LatestStretch
  <2> QED
    BY <1>3, <2>2, <2>4, <2>6, <2>7 DEF RateIInv
<1>5. CASE ~(Refilled >= limiter.window)
  <2> DEFINE ms == IF limiter.max = 0 THEN -1
                   ELSE CeilDiv(limiter.window - Refilled, limiter.max)
  <2>1. tokens' = Refilled /\ Sleep(t, ms)
    BY <1>5 DEF AcquireToken
  <2>2. ms \in Int
    <3> HIDE DEF full
    <3> QED
      BY <1>1, <1>2 DEF CeilDiv
  <2>3. grants' = grants
    BY <2>1 DEF Sleep
  <2>4. RateTypeOK'
    BY <1>0, <1>1, <1>2, <2>1, <2>2, <2>3, AskerTypes DEF RateIInv, RateTypeOK
  <2>5. BucketCovers'
    BY <1>0, <2>1, <2>3, RefilledCovers DEF BucketCovers
  <2>6. GrantsInOrder' /\ RateRespected'
    BY <1>0, <2>3 DEF RateIInv, GrantsInOrder, RateRespected
  <2> QED
    BY <1>3, <2>4, <2>5, <2>6 DEF RateIInv
<1> QED
  BY <1>4, <1>5

\* What is left of the window once the expired ones are dropped: the latest
\* requests still, and all others are a whole window old.
LEMMA DroppedAreOld ==
    ASSUME RateIInv, limiter.strategy = "sliding_window", NEW n \in Outdated
    PROVE  /\ Dropping(n) \in Seq(0..now) /\ Len(Dropping(n)) \in Nat
           /\ Len(Dropping(n)) = Len(stamps) - n /\ Len(Dropping(n)) <= Len(grants)
           /\ \A i \in 1..Len(Dropping(n)) :
                 Dropping(n)[i] = grants[(Len(grants) - Len(Dropping(n))) + i]
           /\ \A i \in 1..(Len(grants) - Len(Dropping(n))) : grants[i] <= now - limiter.window
<1>1. /\ stamps \in Seq(0..now) /\ Len(stamps) \in Nat /\ Len(stamps) <= Len(grants)
      /\ Len(grants) \in Nat /\ n \in 0..Len(stamps) /\ now \in Int /\ limiter.window \in Int
  BY LimiterIs DEF RateIInv, RateTypeOK, WindowCovers, Outdated
<1>2. /\ Dropping(n) \in Seq(0..now) /\ Len(Dropping(n)) = Len(stamps) - n
      /\ \A i \in 1..Len(Dropping(n)) : Dropping(n)[i] = stamps[n + i]
  <2>1. \A i \in (n + 1)..Len(stamps) : stamps[i] \in 0..now
    BY <1>1
  <2>2. n + 1 \in Int /\ Len(stamps) \in Int /\ n \in Nat /\ n <= Len(stamps)
    BY <1>1
  <2>3. /\ Dropping(n) \in Seq(0..now)
        /\ Len(Dropping(n)) = IF n + 1 <= Len(stamps) THEN Len(stamps) - (n + 1) + 1 ELSE 0
        /\ \A i \in 1..(Len(stamps) - (n + 1) + 1) : Dropping(n)[i] = stamps[(n + 1) + i - 1]
    BY <2>1, <2>2, SubSeqProperties DEF Dropping
  <2>4. Len(Dropping(n)) = Len(stamps) - n
    BY <2>2, <2>3
  <2>5. ASSUME NEW i \in 1..Len(Dropping(n))
        PROVE  Dropping(n)[i] = stamps[n + i]
    <3>1. i \in 1..(Len(stamps) - (n + 1) + 1) /\ (n + 1) + i - 1 = n + i
      BY <2>2, <2>4
    <3> QED
      BY <2>3, <3>1
  <2> QED
    BY <2>3, <2>4, <2>5
<1>5. /\ Len(stamps) \in Int /\ Len(grants) \in Int /\ Len(Dropping(n)) \in Int /\ n \in Int
      /\ Len(Dropping(n)) = Len(stamps) - n /\ 0 <= n /\ Len(stamps) <= Len(grants)
  BY <1>1, <1>2
<1>3. ASSUME NEW i \in 1..Len(Dropping(n))
      PROVE  Dropping(n)[i] = grants[(Len(grants) - Len(Dropping(n))) + i]
  <2>1. n + i \in 1..Len(stamps)
    BY <1>1, <1>2
  <2>2. stamps[n + i] = grants[(Len(grants) - Len(stamps)) + (n + i)]
    BY <2>1 DEF RateIInv, WindowCovers
  <2>3. (Len(grants) - Len(stamps)) + (n + i) = (Len(grants) - Len(Dropping(n))) + i
    BY <1>5
  <2> QED
    BY <1>2, <2>2, <2>3
<1>4. ASSUME NEW i \in 1..(Len(grants) - Len(Dropping(n)))
      PROVE  grants[i] <= now - limiter.window
  <2> DEFINE d == Len(grants) - Len(stamps)
  <2>1. d \in Int /\ d = Len(grants) - Len(stamps)
    BY <1>1
  <2>2. i \in 1..d \/ i - d \in 1..n
    BY <1>1, <1>2
  <2>3. CASE i \in 1..d
    BY <2>3 DEF RateIInv, WindowCovers
  <2>4. CASE i - d \in 1..n
    <3>1. stamps[i - d] <= now - limiter.window
      <4>1. \A k \in 1..n : stamps[k] <= now - limiter.window
        BY DEF Outdated, Cutoff
      <4> HIDE DEF d
      <4> QED
        BY <2>4, <4>1
    <3>2. i - d \in 1..Len(stamps) /\ d + (i - d) = i
      BY <1>1, <2>1, <2>4
    <3>3. stamps[i - d] = grants[d + (i - d)]
      BY <3>2 DEF RateIInv, WindowCovers
    <3> QED
      BY <3>1, <3>2, <3>3
  <2> QED
    BY <2>2, <2>3, <2>4
<1>6. Len(Dropping(n)) \in Nat /\ Len(Dropping(n)) <= Len(grants)
  BY <1>1, <1>5
<1> QED
  BY <1>2, <1>3, <1>4, <1>6

\* A look at the window lets one request through if it is not full.
LEMMA AcquireSlotKeeps ==
    ASSUME RateIInv, NEW t \in Tasks, AcquireSlot(t)
    PROVE  RateIInv'
<1>0. /\ limiter.strategy = "sliding_window" /\ limiter' = limiter /\ now' = now
      /\ tokens' = tokens /\ refilled' = refilled
  BY DEF AcquireSlot, bucketVars
<1>1. /\ limiter \in Limiters /\ limiter.max \in Nat /\ limiter.window \in Nat
      /\ now \in 0..MaxNow /\ now \in Nat /\ grants \in Seq(0..now) /\ Len(grants) \in Nat
      /\ stamps \in Seq(0..now) /\ Len(stamps) \in Nat /\ Len(stamps) <= limiter.max
  BY RateAssumption, LimiterIs DEF RateIInv, RateTypeOK
<1>2. BucketCovers'
  BY <1>0 DEF BucketCovers
<1>3. PICK n \in Outdated :
         IF Len(Dropping(n)) < limiter.max
         THEN Grant(t) /\ stamps' = Append(Dropping(n), now)
         ELSE /\ stamps' = Dropping(n)
              /\ IF Dropping(n) = <<>>
                 THEN asking' = [asking EXCEPT ![t] = "panicked"] /\ UNCHANGED <<wake, grants>>
                 ELSE Sleep(t, Dropping(n)[1] + limiter.window - now + 1)
  BY DEF AcquireSlot
<1> DEFINE rest == Dropping(n)
<1>4. /\ rest \in Seq(0..now) /\ Len(rest) \in Nat
      /\ Len(rest) = Len(stamps) - n /\ Len(rest) <= Len(grants)
      /\ \A i \in 1..Len(rest) : rest[i] = grants[(Len(grants) - Len(rest)) + i]
      /\ \A i \in 1..(Len(grants) - Len(rest)) : grants[i] <= now - limiter.window
  BY <1>0, DroppedAreOld
<1>5. n \in Nat /\ Len(rest) <= limiter.max
  BY <1>1, <1>4 DEF Outdated
<1>6. /\ Len(rest) < limiter.max => Grant(t) /\ stamps' = Append(rest, now)
      /\ ~(Len(rest) < limiter.max) =>
            /\ stamps' = rest
            /\ IF rest = <<>>
               THEN asking' = [asking EXCEPT ![t] = "panicked"] /\ UNCHANGED <<wake, grants>>
               ELSE Sleep(t, rest[1] + limiter.window - now + 1)
  BY <1>3
<1> HIDE DEF rest
<1>7. CASE Len(rest) < limiter.max
  <2>1. Grant(t) /\ stamps' = Append(rest, now)
    BY <1>6, <1>7
  <2>2. /\ grants' \in Seq(0..now') /\ Len(grants') = Len(grants) + 1
        /\ \A i \in 1..Len(grants) : grants'[i] = grants[i] /\ grants[i] \in 0..now
        /\ grants'[Len(grants) + 1] = now /\ GrantsInOrder'
    BY <1>0, <2>1, GrantIsLast
  <2>3. /\ stamps' \in Seq(0..now') /\ Len(stamps') = Len(rest) + 1
        /\ \A i \in 1..Len(rest) : stamps'[i] = rest[i]
        /\ stamps'[Len(rest) + 1] = now
    BY <1>0, <1>1, <1>4, <2>1
  <2>4. Len(stamps') <= limiter.max
    BY <1>1, <1>4, <1>7, <2>3
  <2>5. RateTypeOK'
    BY <1>0, <1>1, <2>1, <2>2, <2>3, <2>4, AskerTypes DEF RateIInv, RateTypeOK
  <2>6. WindowCovers'
    <3>1. ASSUME NEW i \in 1..Len(stamps')
          PROVE  stamps'[i] = grants'[(Len(grants') - Len(stamps')) + i]
      <4>1. Len(grants') - Len(stamps') = Len(grants) - Len(rest)
        BY <1>1, <1>4, <2>2, <2>3
      <4>2. i \in 1..Len(rest) \/ i = Len(rest) + 1
        BY <1>4, <2>3
      <4>3. CASE i \in 1..Len(rest)
        <5>1. /\ Len(grants) \in Int /\ Len(rest) \in Int /\ Len(rest) <= Len(grants)
              /\ i \in Int /\ 1 <= i /\ i <= Len(rest)
          BY <1>1, <1>4, <4>3
        <5>2. (Len(grants) - Len(rest)) + i \in 1..Len(grants)
          BY <5>1
        <5> QED
          BY <1>4, <2>2, <2>3, <4>1, <4>3, <5>2
      <4>4. CASE i = Len(rest) + 1
        <5>1. (Len(grants) - Len(rest)) + i = Len(grants) + 1
          BY <1>1, <1>4, <4>4
        <5> QED
          BY <2>2, <2>3, <4>1, <4>4, <5>1
      <4> QED
        BY <4>2, <4>3, <4>4
    <3>2. ASSUME NEW i \in 1..(Len(grants') - Len(stamps'))
          PROVE  grants'[i] <= now - limiter.window
      <4>1. i \in 1..(Len(grants) - Len(rest)) /\ i \in 1..Len(grants)
        <5>1. /\ Len(grants) \in Nat /\ Len(rest) \in Nat /\ Len(rest) <= Len(grants)
              /\ Len(grants') = Len(grants) + 1 /\ Len(stamps') = Len(rest) + 1
          BY <1>1, <1>4, <2>2, <2>3
        <5>2. Len(grants') - Len(stamps') = Len(grants) - Len(rest)
          BY <5>1
        <5> QED
          BY <5>1, <5>2
      <4> QED
        BY <1>4, <2>2, <4>1
    <3>3. Len(stamps') <= Len(grants')
      BY <1>1, <1>4, <2>2, <2>3
    <3> QED
      BY <1>0, <3>1, <3>2, <3>3 DEF WindowCovers
  <2>7. RateRespected'
    <3>1. ASSUME NEW i \in 1..(Len(grants) + 1), (Len(grants) + 1) - i + 1 > limiter.max
          PROVE  now - grants'[i] >= limiter.window
      <4>1. i \in 1..(Len(grants) - Len(rest)) /\ i \in 1..Len(grants)
        BY <1>1, <1>4, <1>7, <3>1
      <4>2. grants[i] <= now - limiter.window /\ grants'[i] = grants[i] /\ grants[i] \in 0..now
        BY <1>4, <2>2, <4>1
      <4> QED
        BY <1>1, <4>2
    <3> QED
      BY <1>0, <2>1, <3>1, LatestStretch
  <2> QED
    BY <1>2, <2>2, <2>5, <2>6, <2>7 DEF RateIInv
<1>8. CASE ~(Len(rest) < limiter.max)
  <2>1. stamps' = rest /\ grants' = grants
    BY <1>6, <1>8 DEF Sleep
  <2>2. /\ asking' \in [Tasks -> {"no", "acquiring", "asleep", "granted", "panicked"}]
        /\ wake' \in [Tasks -> Int]
    <3>1. CASE rest = <<>>
      BY <1>6, <1>8, <3>1 DEF RateIInv, RateTypeOK
    <3>2. CASE rest # <<>>
      <4>1. rest[1] \in Int
        <5>1. rest \in Seq(0..now) /\ Len(rest) # 0
          BY <1>4, <3>2
        <5>2. Len(rest) \in Nat /\ 1 \in 1..Len(rest)
          BY <1>4, <5>1
        <5>3. rest[1] \in 0..now
          BY <5>1, <5>2, ElementOfSeq
        <5> QED
          BY <1>1, <5>3
      <4>2. rest[1] + limiter.window - now + 1 \in Int
        BY <1>1, <4>1
      <4> QED
        BY <1>6, <1>8, <3>2, <4>2, AskerTypes
    <3> QED
      BY <3>1, <3>2
  <2>3. RateTypeOK'
    BY <1>0, <1>1, <1>4, <1>5, <2>1, <2>2 DEF RateIInv, RateTypeOK
  <2>4. WindowCovers'
    BY <1>0, <1>4, <2>1 DEF WindowCovers
  <2>5. GrantsInOrder' /\ RateRespected'
    BY <1>0, <2>1 DEF RateIInv, GrantsInOrder, RateRespected
  <2> QED
    BY <1>2, <2>3, <2>4, <2>5 DEF RateIInv
<1> QED
  BY <1>7, <1>8

\* Every step of the tasks and of the clock keeps the limits.
LEMMA RateStep ==
    ASSUME RateIInv, NEW t \in Tasks
    PROVE  /\ Tick \/ Look(t) \/ Wake(t) \/ Acquire(t) => RateIInv'
           /\ UNCHANGED rateVars => RateIInv'
<1>1. ASSUME Acquire(t) \/ Wake(t) PROVE RateIInv'
  <2>1. /\ asking' \in [Tasks -> {"no", "acquiring", "asleep", "granted", "panicked"}]
        /\ wake' \in [Tasks -> Int]
        /\ UNCHANGED <<limiter, now, bucketVars, stamps, grants>>
    BY <1>1 DEF Acquire, Wake, RateIInv, RateTypeOK
  <2> QED
    BY <2>1, RestKeeps
<1>2. ASSUME Look(t) PROVE RateIInv'
  BY <1>2, AcquireTokenKeeps, AcquireSlotKeeps DEF Look
<1>3. ASSUME UNCHANGED rateVars PROVE RateIInv'
  BY <1>3, RestKeeps DEF rateVars, RateIInv, RateTypeOK, bucketVars
<1> QED
  BY <1>1, <1>2, <1>3, TickKeeps

LEMMA RateNextKeeps == RateIInv /\ [RateNext]_rateVars => RateIInv'
<1> SUFFICES ASSUME RateIInv, [RateNext]_rateVars PROVE RateIInv'
  OBVIOUS
<1>1. CASE Tick
  BY <1>1, TickKeeps
<1>2. CASE \E t \in Tasks : Acquire(t) \/ Look(t) \/ Wake(t)
  BY <1>2, RateStep
<1>3. CASE UNCHANGED rateVars
  BY <1>3, RestKeeps DEF rateVars, RateIInv, RateTypeOK, bucketVars
<1> QED
  BY <1>1, <1>2, <1>3 DEF RateNext

-----------------------------------------------------------------------------
(* BitvavoProvider and ExchangeManager.  What a call has placed is counted *)
(* from its start, and an order is answered once before it ends.           *)

\* An order whose answer is still to come has placed nothing yet.
OrderPending ==
    \A t \in Tasks :
       job[t] = "order" /\ http[t] # "answered" => placed[t] = 0 /\ made[t] = "none"

CallsTyped ==
    /\ job \in [Tasks -> {"none", "ticker", "order", "candles", "permit"}]
    /\ wanted \in [Tasks -> OrderTypes]
    /\ http \in [Tasks -> {"none", "sent", "answered"}]
    /\ made \in [Tasks -> OrderTypes \cup {"none"}]
    /\ placed \in [Tasks -> Nat]

CallsIInv == CallsTyped /\ OrderPending /\ OneOrderPerCall

\* convert_order() names the type that create_order() named.
LEMMA NamedBack == \A o \in OrderTypes : FromBitvavo(ToBitvavo[o]) = o
<1> SUFFICES ASSUME NEW o \in OrderTypes PROVE FromBitvavo(ToBitvavo[o]) = o
  OBVIOUS
<1>1. \A p \in OrderTypes : ToBitvavo[p] = ToBitvavo[o] => p = o
  BY DEF OrderTypes, ToBitvavo
<1> QED
  BY <1>1 DEF FromBitvavo

LEMMA CallsStart == ExchangeInit => CallsIInv
BY DEF ExchangeInit, CallsIInv, CallsTyped, OrderPending, OneOrderPerCall, OrderTypes

LEMMA CallsRest == CallsIInv /\ UNCHANGED exchangeVars => CallsIInv'
BY DEF exchangeVars, CallsIInv, CallsTyped, OrderPending, OneOrderPerCall

\* A new call has placed nothing; the counts of the others stay.
LEMMA BeginKeeps ==
    ASSUME CallsIInv, NEW t \in Tasks, NEW kind \in {"ticker", "order"},
           NEW type \in OrderTypes, Begin(t, kind, type)
    PROVE  CallsIInv'
<1>1. /\ job' = [job EXCEPT ![t] = kind] /\ wanted' = [wanted EXCEPT ![t] = type]
      /\ made' = [made EXCEPT ![t] = "none"] /\ placed' = [placed EXCEPT ![t] = 0]
      /\ http' = http
  BY DEF Begin
<1>2. CallsTyped'
  BY <1>1 DEF CallsIInv, CallsTyped
<1>3. OrderPending' /\ OneOrderPerCall'
  BY <1>1 DEF CallsIInv, CallsTyped, OrderPending, OneOrderPerCall
<1> QED
  BY <1>2, <1>3 DEF CallsIInv

\* The exchange answers a request once, and places at most one order for it.
LEMMA AnswerKeeps ==
    ASSUME CallsIInv, NEW t \in Tasks, ExchangeAnswers(t)
    PROVE  CallsIInv'
<1>1. /\ http[t] = "sent" /\ http' = [http EXCEPT ![t] = "answered"]
      /\ job' = job /\ wanted' = wanted
  BY DEF ExchangeAnswers
<1>2. PICK a \in Answers \ {"none"}, done \in BOOLEAN :
         /\ a = "ok" => done
         /\ placed' = [placed EXCEPT ![t] =
                         @ + (IF done /\ job[t] = "order" THEN 1 ELSE 0)]
         /\ IF a = "ok" /\ job[t] = "order"
            THEN made' = [made EXCEPT ![t] = FromBitvavo(ToBitvavo[wanted[t]])]
            ELSE UNCHANGED made
  BY DEF ExchangeAnswers
<1>3. wanted[t] \in OrderTypes /\ FromBitvavo(ToBitvavo[wanted[t]]) = wanted[t]
  BY NamedBack DEF CallsIInv, CallsTyped
<1>4. CASE job[t] = "order"
  <2>1. placed[t] = 0 /\ made[t] = "none"
    BY <1>1, <1>4 DEF CallsIInv, OrderPending
  <2>2. /\ placed' = [placed EXCEPT ![t] = IF done THEN 1 ELSE 0]
        /\ made' = [made EXCEPT ![t] = IF a = "ok" THEN wanted[t] ELSE "none"]
    BY <1>2, <1>3, <1>4, <2>1 DEF CallsIInv, CallsTyped
  <2>3. CallsTyped'
    BY <1>1, <1>3, <2>2 DEF CallsIInv, CallsTyped
  <2>4. OrderPending' /\ OneOrderPerCall'
    BY <1>1, <1>2, <1>3, <2>1, <2>2 DEF CallsIInv, CallsTyped, OrderPending, OneOrderPerCall
  <2> QED
    BY <2>3, <2>4 DEF CallsIInv
<1>5. CASE job[t] # "order"
  <2>1. placed' = placed /\ made' = made
    BY <1>2, <1>5 DEF CallsIInv, CallsTyped
  <2> QED
    BY <1>1, <1>5, <2>1 DEF CallsIInv, CallsTyped, OrderPending, OneOrderPerCall
<1> QED
  BY <1>4, <1>5

\* Every other step leaves what was placed alone: a call that ends or waits for
\* a permit is no order.
LEMMA ManagerKeeps ==
    ASSUME CallsIInv, NEW t \in Tasks,
           SendRequest(t) \/ Receive(t) \/ TakePermit(t) \/ PanicEnds(t)
    PROVE  CallsIInv'
<1>1. wanted' = wanted /\ made' = made /\ placed' = placed
  BY DEF SendRequest, Receive, Return, TakePermit, PanicEnds
<1>2. \/ job' = job /\ http[t] = "none" /\ http' = [http EXCEPT ![t] = "sent"]
      \/ job' = [job EXCEPT ![t] = "none"] /\ http' = [http EXCEPT ![t] = "none"]
      \/ job' = [job EXCEPT ![t] = "candles"] /\ http' = http
      \/ job' = [job EXCEPT ![t] = "none"] /\ http' = http
  BY DEF SendRequest, Receive, Return, TakePermit, PanicEnds
<1>3. CallsTyped'
  BY <1>1, <1>2 DEF CallsIInv, CallsTyped
<1>4. OrderPending'
  BY <1>1, <1>2 DEF CallsIInv, CallsTyped, OrderPending
<1>5. OneOrderPerCall'
  BY <1>1 DEF CallsIInv, OneOrderPerCall
<1> QED
  BY <1>3, <1>4, <1>5 DEF CallsIInv

LEMMA MarketKeeps ==
    ASSUME CallsIInv, MarketMoves \/ FetchCandles \/ FetchEnds
    PROVE  CallsIInv'
<1>1. wanted' = wanted /\ made' = made /\ placed' = placed /\ http' = http
  BY DEF MarketMoves, FetchCandles, FetchEnds, taskVars
<1>2. job' = job \/ job' = [t \in Tasks |-> "permit"]
  BY DEF MarketMoves, FetchCandles, FetchEnds, taskVars
<1> QED
  BY <1>1, <1>2 DEF CallsIInv, CallsTyped, OrderPending, OneOrderPerCall

LEMMA ExchangeNextKeeps ==
    ASSUME RateIInv, CallsIInv, ExchangeNext
    PROVE  RateIInv' /\ CallsIInv'
<1>1. CASE MarketMoves \/ FetchCandles \/ FetchEnds
  <2>1. UNCHANGED rateVars
    BY <1>1 DEF MarketMoves, FetchCandles, FetchEnds
  <2> QED
    BY <1>1, <2>1, RateNextKeeps, MarketKeeps
<1>2. ASSUME NEW t \in Tasks, NEW o \in Orders, Begin(t, "order", o)
      PROVE  RateIInv' /\ CallsIInv'
  BY <1>2, RateStep, BeginKeeps, ExchangeAssumption DEF Begin
<1>3. ASSUME NEW t \in Tasks, Begin(t, "ticker", "Market")
      PROVE  RateIInv' /\ CallsIInv'
  <2>1. "Market" \in OrderTypes
    BY DEF OrderTypes
  <2> QED
    BY <1>3, <2>1, RateStep, BeginKeeps DEF Begin
<1>4. ASSUME NEW t \in Tasks, SendRequest(t) \/ PanicEnds(t)
      PROVE  RateIInv' /\ CallsIInv'
  <2>1. /\ UNCHANGED <<limiter, now, bucketVars, stamps, grants>>
        /\ asking' \in [Tasks -> {"no", "acquiring", "asleep", "granted", "panicked"}]
        /\ wake' \in [Tasks -> Int]
    BY <1>4 DEF SendRequest, PanicEnds, RateIInv, RateTypeOK
  <2> QED
    BY <1>4, <2>1, RestKeeps, ManagerKeeps
<1>5. ASSUME NEW t \in Tasks, ExchangeAnswers(t)
      PROVE  RateIInv' /\ CallsIInv'
  <2>1. UNCHANGED rateVars
    BY <1>5 DEF ExchangeAnswers
  <2> QED
    BY <1>5, <2>1, RateNextKeeps, AnswerKeeps
<1>6. ASSUME NEW t \in Tasks, Receive(t)
      PROVE  RateIInv' /\ CallsIInv'
  <2>1. UNCHANGED rateVars
    BY <1>6 DEF Receive
  <2> QED
    BY <1>6, <2>1, RateNextKeeps, ManagerKeeps
<1>7. ASSUME NEW t \in Tasks, TakePermit(t)
      PROVE  RateIInv' /\ CallsIInv'
  BY <1>7, RateStep, ManagerKeeps DEF TakePermit
<1>8. CASE (Tick \/ \E t \in Tasks : Look(t) \/ Wake(t)) /\ UNCHANGED exchangeVars
  BY <1>8, TickKeeps, RateStep, CallsRest
<1> QED
  BY <1>1, <1>2, <1>3, <1>4, <1>5, <1>6, <1>7, <1>8 DEF ExchangeNext

\* Whichever part moves, the limiter and the calls keep their invariants.
LEMMA MarketStep == RateIInv /\ CallsIInv /\ [Next]_vars => RateIInv' /\ CallsIInv'
<1> SUFFICES ASSUME RateIInv, CallsIInv, [Next]_vars PROVE RateIInv' /\ CallsIInv'
  OBVIOUS
<1>1. CASE UNCHANGED marketVars
  BY <1>1, RateNextKeeps, CallsRest DEF marketVars
<1>2. CASE MarketNext
  <2>1. CASE RateNext /\ UNCHANGED <<exchangeVars, wsVars>>
    BY <2>1, RateNextKeeps, CallsRest
  <2>2. CASE ExchangeNext
    BY <2>2, ExchangeNextKeeps
  <2>3. CASE UNCHANGED <<rateVars, exchangeVars>>
    BY <2>3, RateNextKeeps, CallsRest
  <2> QED
    BY <1>2, <2>1, <2>2, <2>3 DEF MarketNext
<1>3. UNCHANGED marketVars \/ MarketNext
  BY DEF Next, KeptNext, TalkNext, WebNext, HostNext, ClientNext, vars
<1> QED
  BY <1>1, <1>2, <1>3

\* WithinTheLimits, for any tasks, limiters and number of requests: no window
\* sees more requests than the limiter allows, and no call places two orders
\* (crates/mtw-exchange).
THEOREM LimitsHold == Spec => []WithinTheLimits
<1>1. Init => RateIInv /\ CallsIInv
  <2>1. Init => RateInit /\ ExchangeInit
    BY DEF Init, ExchangeInit
  <2> QED
    BY <2>1, RateStart, CallsStart
<1>2. RateIInv /\ CallsIInv => WithinTheLimits
  BY DEF RateIInv, CallsIInv, WithinTheLimits
<1> QED
  BY <1>1, <1>2, MarketStep, PTL DEF Spec

-----------------------------------------------------------------------------
(* What a call returns, and the semaphore: a permit is in the semaphore or *)
(* with a task that fetches candles, whatever becomes of the fetch.        *)

Fetching == {t \in Tasks : job[t] = "candles"}

PermitsAreKept ==
    /\ permits \in Nat /\ IsFiniteSet(Fetching)
    /\ permits + Cardinality(Fetching) = MaxPermits

ReturnsTyped ==
    /\ answer \in [Tasks -> Answers] /\ outcome \in [Tasks -> Outcomes]
    /\ value \in [Tasks -> 0..MaxMarket]
    /\ market \in 1..MaxMarket /\ cache \in 0..MaxMarket
    /\ round \in {"none", "running", "done"} /\ candles \subseteq DOMAIN Symbols

ManagerIInv == ReturnsTyped /\ PermitsAreKept

\* All of the permits are in the semaphore when none fetches.
LEMMA ManagerStart == ExchangeInit => ManagerIInv
<1> SUFFICES ASSUME ExchangeInit PROVE ManagerIInv
  OBVIOUS
<1>1. ReturnsTyped
  <2>1. MaxMarket \in Nat /\ MaxMarket # 0
    BY ExchangeAssumption
  <2>2. 0 \in 0..MaxMarket /\ 1 \in 1..MaxMarket
    BY <2>1
  <2> QED
    BY <2>2 DEF ExchangeInit, ReturnsTyped, Answers, Outcomes
<1>2. Fetching = {}
  BY DEF ExchangeInit, Fetching
<1>3. IsFiniteSet({}) /\ Cardinality({}) = 0
  BY FS_EmptySet
<1>4. permits = MaxPermits /\ MaxPermits \in Nat
  BY ExchangeAssumption DEF ExchangeInit
<1> QED
  BY <1>1, <1>2, <1>3, <1>4 DEF ManagerIInv, PermitsAreKept

\* The semaphore and the fetches stay as they are ...
LEMMA PermitsStay ==
    ASSUME PermitsAreKept, permits' = permits,
           \A t \in Tasks : job'[t] = "candles" <=> job[t] = "candles"
    PROVE  PermitsAreKept'
<1>1. Fetching' = Fetching
  BY DEF Fetching
<1> QED
  BY <1>1 DEF PermitsAreKept

\* ... or a permit goes from one to the other.
LEMMA PermitTaken ==
    ASSUME PermitsAreKept, DOMAIN job = Tasks, NEW t \in Tasks, job[t] # "candles", permits > 0,
           permits' = permits - 1, job' = [job EXCEPT ![t] = "candles"]
    PROVE  PermitsAreKept'
<1>1. Fetching' = Fetching \cup {t} /\ t \notin Fetching
  BY DEF Fetching
<1>2. IsFiniteSet(Fetching') /\ Cardinality(Fetching') = Cardinality(Fetching) + 1
  BY <1>1, FS_AddElement DEF PermitsAreKept
<1>3. Cardinality(Fetching) \in Nat /\ MaxPermits \in Nat
  BY FS_CardinalityType, ExchangeAssumption DEF PermitsAreKept
<1> QED
  BY <1>2, <1>3 DEF PermitsAreKept

LEMMA PermitReturned ==
    ASSUME PermitsAreKept, DOMAIN job = Tasks, NEW t \in Tasks, job[t] = "candles",
           permits' = permits + 1, job' = [job EXCEPT ![t] = "none"]
    PROVE  PermitsAreKept'
<1>1. Fetching' = Fetching \ {t} /\ t \in Fetching
  BY DEF Fetching
<1>2. IsFiniteSet(Fetching') /\ Cardinality(Fetching') = Cardinality(Fetching) - 1
  BY <1>1, FS_RemoveElement DEF PermitsAreKept
<1>3. Cardinality(Fetching) \in Nat /\ MaxPermits \in Nat
  BY FS_CardinalityType, ExchangeAssumption DEF PermitsAreKept
<1> QED
  BY <1>2, <1>3 DEF PermitsAreKept

\* What a call returns is what it could get.
LEMMA ResultsAre == \A a \in Answers : Results(a) \subseteq Outcomes
BY DEF Answers, Results, Outcomes

LEMMA ManagerCalls ==
    ASSUME CallsTyped, ManagerIInv, NEW t \in Tasks,
           \/ \E kind \in {"ticker", "order"}, type \in OrderTypes : Begin(t, kind, type)
           \/ SendRequest(t) \/ ExchangeAnswers(t)
    PROVE  ManagerIInv'
<1>0. MaxMarket \in Nat /\ 0 \in 0..MaxMarket /\ market \in 0..MaxMarket
  BY ExchangeAssumption DEF ManagerIInv, ReturnsTyped
<1>1. ASSUME NEW kind \in {"ticker", "order"}, NEW type \in OrderTypes, Begin(t, kind, type)
      PROVE  ManagerIInv'
  <2>1. ReturnsTyped'
    BY <1>0, <1>1 DEF Begin, ManagerIInv, ReturnsTyped, managerVars, Outcomes
  <2>2. job[t] = "none" /\ job' = [job EXCEPT ![t] = kind] /\ permits' = permits
    BY <1>1 DEF Begin, managerVars
  <2>3. PermitsAreKept'
    BY <2>2, PermitsStay DEF ManagerIInv, CallsTyped
  <2> QED
    BY <2>1, <2>3 DEF ManagerIInv
<1>2. CASE SendRequest(t)
  <2>1. ReturnsTyped'
    BY <1>2 DEF SendRequest, ManagerIInv, ReturnsTyped, managerVars
  <2>2. job' = job /\ permits' = permits
    BY <1>2 DEF SendRequest, managerVars
  <2> QED
    BY <2>1, <2>2, PermitsStay DEF ManagerIInv
<1>3. CASE ExchangeAnswers(t)
  <2>1. answer' \in [Tasks -> Answers]
    BY <1>3 DEF ExchangeAnswers, ManagerIInv, ReturnsTyped
  <2>2. value' \in [Tasks -> 0..MaxMarket]
    <3>1. value' = value \/ \E v \in {0, market} : value' = [value EXCEPT ![t] = v]
      BY <1>3 DEF ExchangeAnswers
    <3> QED
      BY <1>0, <3>1 DEF ManagerIInv, ReturnsTyped
  <2>3. ReturnsTyped'
    BY <1>3, <2>1, <2>2 DEF ExchangeAnswers, ManagerIInv, ReturnsTyped, managerVars
  <2>4. job' = job /\ permits' = permits
    BY <1>3 DEF ExchangeAnswers, managerVars
  <2> QED
    BY <2>3, <2>4, PermitsStay DEF ManagerIInv
<1> QED
  BY <1>1, <1>2, <1>3

LEMMA ManagerEnds ==
    ASSUME CallsTyped, ManagerIInv, NEW t \in Tasks,
           Receive(t) \/ TakePermit(t) \/ PanicEnds(t)
    PROVE  ManagerIInv'
<1>0. DOMAIN job = Tasks
  BY DEF CallsTyped
<1>1. CASE Receive(t)
  <2>1. ReturnsTyped'
    <3>1. answer[t] \in Answers /\ value[t] \in 0..MaxMarket /\ cache \in 0..MaxMarket
      BY DEF ManagerIInv, ReturnsTyped
    <3>2. outcome' \in [Tasks -> Outcomes]
      BY <1>1, <3>1, ResultsAre DEF Receive, Return, ManagerIInv, ReturnsTyped
    <3>3. answer' \in [Tasks -> Answers]
      BY <1>1 DEF Receive, Return, ManagerIInv, ReturnsTyped, Answers
    <3>4. cache' \in 0..MaxMarket
      BY <1>1, <3>1 DEF Receive
    <3>5. UNCHANGED <<value, market, round, candles>>
      BY <1>1 DEF Receive, Return
    <3> QED
      BY <3>2, <3>3, <3>4, <3>5 DEF ManagerIInv, ReturnsTyped
  <2>2. job' = [job EXCEPT ![t] = "none"]
    BY <1>1 DEF Receive, Return
  <2>3. CASE job[t] = "candles"
    <3>1. permits' = permits + 1
      BY <1>1, <2>3 DEF Receive
    <3> QED
      BY <1>0, <2>1, <2>2, <2>3, <3>1, PermitReturned DEF ManagerIInv
  <2>4. CASE job[t] # "candles"
    <3>1. permits' = permits
      BY <1>1, <2>4 DEF Receive
    <3>2. \A o \in Tasks : job'[o] = "candles" <=> job[o] = "candles"
      BY <1>0, <2>2, <2>4
    <3> QED
      BY <2>1, <3>1, <3>2, PermitsStay DEF ManagerIInv
  <2> QED
    BY <2>3, <2>4
<1>2. CASE TakePermit(t)
  <2>1. ReturnsTyped'
    BY <1>2 DEF TakePermit, ManagerIInv, ReturnsTyped
  <2>2. /\ job[t] # "candles" /\ permits > 0
        /\ permits' = permits - 1 /\ job' = [job EXCEPT ![t] = "candles"]
    BY <1>2 DEF TakePermit
  <2> QED
    BY <1>0, <2>1, <2>2, PermitTaken DEF ManagerIInv
<1>3. CASE PanicEnds(t)
  <2>1. ReturnsTyped'
    BY <1>3 DEF PanicEnds, ManagerIInv, ReturnsTyped
  <2>2. /\ job[t] = "candles"
        /\ permits' = permits + 1 /\ job' = [job EXCEPT ![t] = "none"]
    BY <1>3 DEF PanicEnds
  <2> QED
    BY <1>0, <2>1, <2>2, PermitReturned DEF ManagerIInv
<1> QED
  BY <1>1, <1>2, <1>3

LEMMA ManagerMoves ==
    ASSUME CallsTyped, ManagerIInv, MarketMoves \/ FetchCandles \/ FetchEnds \/ UNCHANGED exchangeVars
    PROVE  ManagerIInv'
<1>1. CASE MarketMoves
  <2>1. market' \in 1..MaxMarket /\ cache' \in 0..MaxMarket
    BY <1>1, ExchangeAssumption DEF MarketMoves, ManagerIInv, ReturnsTyped
  <2>2. ReturnsTyped'
    BY <1>1, <2>1 DEF MarketMoves, taskVars, ManagerIInv, ReturnsTyped
  <2>3. job' = job /\ permits' = permits
    BY <1>1 DEF MarketMoves, taskVars
  <2> QED
    BY <2>2, <2>3, PermitsStay DEF ManagerIInv
<1>2. CASE FetchCandles
  <2>1. ReturnsTyped'
    BY <1>2 DEF FetchCandles, ManagerIInv, ReturnsTyped, Outcomes
  <2>2. permits' = permits /\ \A t \in Tasks : job'[t] = "candles" <=> job[t] = "candles"
    BY <1>2 DEF FetchCandles
  <2> QED
    BY <2>1, <2>2, PermitsStay DEF ManagerIInv
<1>3. CASE FetchEnds
  <2>1. ReturnsTyped'
    BY <1>3 DEF FetchEnds, taskVars, ManagerIInv, ReturnsTyped
  <2>2. job' = job /\ permits' = permits
    BY <1>3 DEF FetchEnds, taskVars
  <2> QED
    BY <2>1, <2>2, PermitsStay DEF ManagerIInv
<1>4. CASE UNCHANGED exchangeVars
  <2>1. job' = job /\ permits' = permits
    BY <1>4 DEF exchangeVars
  <2>2. PermitsAreKept'
    BY <2>1, PermitsStay DEF ManagerIInv
  <2> QED
    BY <1>4, <2>2 DEF ManagerIInv, ReturnsTyped, exchangeVars
<1> QED
  BY <1>1, <1>2, <1>3, <1>4

LEMMA ManagerStep == CallsTyped /\ ManagerIInv /\ ExchangeNext => ManagerIInv'
<1> SUFFICES ASSUME CallsTyped, ManagerIInv, ExchangeNext PROVE ManagerIInv'
  OBVIOUS
<1>1. \A o \in Orders : o \in OrderTypes
  BY ExchangeAssumption
<1>2. "Market" \in OrderTypes
  BY DEF OrderTypes
<1>3. CASE MarketMoves \/ FetchCandles \/ FetchEnds \/ UNCHANGED exchangeVars
  BY <1>3, ManagerMoves
<1>4. ASSUME NEW t \in Tasks,
             \/ \E kind \in {"ticker", "order"}, type \in OrderTypes : Begin(t, kind, type)
             \/ SendRequest(t) \/ ExchangeAnswers(t)
      PROVE  ManagerIInv'
  BY <1>4, ManagerCalls
<1>5. ASSUME NEW t \in Tasks, Receive(t) \/ TakePermit(t) \/ PanicEnds(t)
      PROVE  ManagerIInv'
  BY <1>5, ManagerEnds
<1> QED
  BY <1>1, <1>2, <1>3, <1>4, <1>5 DEF ExchangeNext

LEMMA ExchangeTyped == RateTypeOK /\ CallsTyped /\ ManagerIInv => ExchangeTypeOK
<1> SUFFICES ASSUME RateTypeOK, CallsTyped, ManagerIInv PROVE ExchangeTypeOK
  OBVIOUS
<1>1. permits \in 0..MaxPermits
  BY FS_CardinalityType, ExchangeAssumption DEF ManagerIInv, PermitsAreKept
<1> QED
  BY <1>1 DEF ExchangeTypeOK, CallsTyped, ManagerIInv, ReturnsTyped

-----------------------------------------------------------------------------
(* The Bitvavo stream.                                                     *)

\* A delay is at most the ceiling, however many attempts there were.
LEMMA DelayIs == \A a \in Nat : NextDelay(a) \in 0..Ceiling
<1> SUFFICES ASSUME NEW a \in Nat PROVE NextDelay(a) \in 0..Ceiling  OBVIOUS
<1>0. Ceiling \in Nat  BY DEF Ceiling
<1>1. CASE a < 6
  <2>1. a \in {0, 1, 2, 3, 4, 5}  BY <1>1
  <2>2. 2^0 = 1 /\ 2^1 = 2 /\ 2^2 = 4 /\ 2^3 = 8 /\ 2^4 = 16 /\ 2^5 = 32  OBVIOUS
  <2>3. 2^a \in {1, 2, 4, 8, 16, 32}  BY <2>1, <2>2
  <2> DEFINE p == 2^a
  <2>4. p \in {1, 2, 4, 8, 16, 32} /\ NextDelay(a) = Base * p  BY <1>1, <2>3 DEF NextDelay
  <2> HIDE DEF p
  <2>5. Base * p \in Nat /\ Base * p <= Ceiling  BY <2>4 DEF Base, Ceiling
  <2> QED  BY <1>0, <2>4, <2>5
<1>2. CASE ~(a < 6)
  <2>1. NextDelay(a) \in {0, Ceiling}  BY <1>2 DEF NextDelay
  <2> QED  BY <1>0, <2>1
<1> QED  BY <1>1, <1>2

LEMMA WsStart == WsInit => WsTypeOK
<1> SUFFICES ASSUME WsInit PROVE WsTypeOK  OBVIOUS
<1>1. Len(<<>>) = 0 /\ MaxSubs \in Nat /\ MaxAttempts \in Nat  BY WsAssumption
<1>2. Ceiling \in Nat  BY DEF Ceiling
<1>3. 0 \in 0..Ceiling /\ 0 \in 0..MaxAttempts /\ 0 \in 0..0  BY <1>1, <1>2
<1>4. <<>> \in Seq(Topics) /\ Len(<<>>) <= MaxSubs  BY <1>1
<1> QED  BY <1>1, <1>3, <1>4 DEF WsInit, WsTypeOK

\* What a subscription is sent under is a channel.
LEMMA SubscribedIs ==
  ASSUME NEW q \in Seq(Topics), q # <<>>
  PROVE  ChannelOf[Head(q)] \in {ChannelOf[s] : s \in Topics} /\ Tail(q) \in Seq(Topics)
<1>1. Head(q) \in Topics /\ Tail(q) \in Seq(Topics)  BY HeadTailProperties
<1> QED  BY <1>1

LEMMA WsStep == WsTypeOK /\ [WsNext]_wsVars => WsTypeOK'
<1> SUFFICES ASSUME WsTypeOK, [WsNext]_wsVars PROVE WsTypeOK'  OBVIOUS
<1>1. /\ attempt \in 0..MaxAttempts /\ delay \in 0..Ceiling /\ MaxAttempts \in Nat
      /\ subs \in Seq(Topics) /\ Len(subs) <= MaxSubs /\ MaxSubs \in Nat
      /\ replay \in Seq(Topics) /\ onServer \subseteq {ChannelOf[s] : s \in Topics}
      /\ Len(subs) \in Nat /\ unread \in 0..Len(subs) /\ cleared \in BOOLEAN /\ cut \in BOOLEAN
  BY WsAssumption DEF WsTypeOK
<1>0. 0 \in 0..Len(subs) /\ FALSE \in BOOLEAN /\ TRUE \in BOOLEAN  BY <1>1
<1>2. ASSUME BackOff
      PROVE  attempt' \in 0..MaxAttempts /\ delay' \in 0..Ceiling /\ task' \in {"waiting", "panicked"}
  <2>1. attempt' \in 0..MaxAttempts  BY <1>1, <1>2 DEF BackOff
  <2>2. delay' \in 0..Ceiling
    <3>1. delay' = delay \/ delay' = NextDelay(attempt)  BY <1>2 DEF BackOff
    <3>2. attempt \in Nat  BY <1>1
    <3>3. NextDelay(attempt) \in 0..Ceiling  BY <3>2, DelayIs
    <3> QED  BY <1>1, <3>1, <3>3
  <2> QED  BY <1>2, <2>1, <2>2 DEF BackOff
<1>3. CASE ConnectOk
  <2>1. 0 \in 0..MaxAttempts /\ <<>> \in Seq(Topics)  BY <1>1
  <2> QED  BY <1>1, <1>3, <2>1 DEF ConnectOk, heardVars, WsTypeOK
<1>4. CASE ConnectFails  BY <1>2, <1>4 DEF ConnectFails, heardVars, WsTypeOK
<1>5. CASE ConnectionEnds  BY <1>0, <1>2, <1>5 DEF ConnectionEnds, Forget, WsTypeOK
<1>6. CASE StartStream \/ Authenticate \/ DelayPasses \/ SeeShutdown \/ ShutdownStream \/ AbortTask
  BY <1>0, <1>6 DEF StartStream, Authenticate, DelayPasses, SeeShutdown, ShutdownStream, AbortTask,
     Forget, heardVars, WsTypeOK
<1>7. CASE Replay
  <2>1. /\ task' \in {"replaying", "reading"} /\ cut' \in BOOLEAN
        /\ replay' \in Seq(Topics) /\ onServer' \subseteq {ChannelOf[s] : s \in Topics}
    BY <1>1, <1>7, SubscribedIs DEF Replay
  <2> QED  BY <1>7, <2>1 DEF Replay, WsTypeOK
<1>8. CASE ReadMessage
  <2>1. \A m \in DOMAIN EventOf : EventOf[m] \in {"nothing", "TickerUpdate", "CandleUpdate", "Error"}
    BY DEF EventOf
  <2>2. news' \in {"nothing", "TickerUpdate", "CandleUpdate", "Error"}  BY <1>8, <2>1 DEF ReadMessage
  <2> QED  BY <1>8, <2>2 DEF ReadMessage, heardVars, WsTypeOK
<1>9. ASSUME NEW s \in Topics, SubscribeTo(s) PROVE WsTypeOK'
  <2>1. /\ subs' \in Seq(Topics) /\ Len(subs') <= MaxSubs /\ Len(subs') = Len(subs) + 1
        /\ unread' \in 0..Len(subs')
    BY <1>1, <1>9 DEF SubscribeTo
  <2> QED  BY <1>9, <2>1 DEF SubscribeTo, WsTypeOK
<1>10. CASE ClearSubscriptions
  <2>1. /\ subs' \in Seq(Topics) /\ Len(subs') <= MaxSubs /\ unread' \in 0..Len(subs')
        /\ cleared' \in BOOLEAN
    BY <1>1, <1>10 DEF ClearSubscriptions, HasRead
  <2> QED  BY <1>10, <2>1 DEF ClearSubscriptions, WsTypeOK
<1>11. CASE UNCHANGED wsVars  BY <1>11 DEF wsVars, heardVars, WsTypeOK
<1> QED
  BY <1>3, <1>4, <1>5, <1>6, <1>7, <1>8, <1>9, <1>10, <1>11 DEF WsNext

\* What the subscriptions q are sent under.
ChannelsOf(q) == {ChannelOf[q[i]] : i \in DOMAIN q}

\* While a connection has read the list, what it sent and what it still has to send are
\* what it read, unless it gave up; before, nothing was read and nothing sent.
ReplayInStep ==
    /\ ~HasRead => unread = 0
    /\ task = "authenticating" => onServer = {}
    /\ HasRead /\ ~cleared =>
          /\ onServer \cup ChannelsOf(replay) \subseteq AsRead
          /\ ~cut => AsRead \subseteq onServer \cup ChannelsOf(replay)
    /\ task = "reading" /\ ~cut => replay = <<>>

WsIInv == WsTypeOK /\ ReplayInStep

LEMMA SentOneByOne ==
    ASSUME NEW q \in Seq(Topics), q # <<>>
    PROVE  ChannelsOf(q) = {ChannelOf[Head(q)]} \cup ChannelsOf(Tail(q))
<1>1. /\ Len(q) \in Nat /\ Len(q) # 0 /\ DOMAIN q = 1..Len(q)
      /\ Head(q) = q[1] /\ DOMAIN Tail(q) = 1..(Len(q) - 1)
      /\ \A i \in 1..(Len(q) - 1) : Tail(q)[i] = q[i + 1]
  OBVIOUS
<1> DEFINE t == Tail(q)
<1>2. /\ DOMAIN t = 1..(Len(q) - 1) /\ \A i \in 1..(Len(q) - 1) : t[i] = q[i + 1]
  BY <1>1
<1> HIDE DEF t
<1>3. ASSUME NEW i \in 1..Len(q)
      PROVE  ChannelOf[q[i]] \in {ChannelOf[q[1]]} \cup ChannelsOf(t)
  <2>1. CASE i = 1  BY <2>1
  <2>2. CASE i # 1
    <3>1. i - 1 \in 1..(Len(q) - 1) /\ (i - 1) + 1 = i  BY <1>1, <2>2
    <3>2. t[i - 1] = q[i]  BY <1>2, <3>1
    <3> QED  BY <1>2, <3>1, <3>2 DEF ChannelsOf
  <2> QED  BY <2>1, <2>2
<1>4. ASSUME NEW i \in 1..(Len(q) - 1)
      PROVE  ChannelOf[t[i]] \in ChannelsOf(q)
  <2>1. i + 1 \in 1..Len(q)  BY <1>1
  <2> QED  BY <1>1, <1>2, <2>1 DEF ChannelsOf
<1>5. 1 \in 1..Len(q)  BY <1>1
<1> QED  BY <1>1, <1>2, <1>3, <1>4, <1>5 DEF ChannelsOf, t

LEMMA ReplayStart == WsInit => WsIInv
<1>1. WsInit => ReplayInStep
  BY DEF WsInit, ReplayInStep, HasRead
<1> QED
  BY <1>1, WsStart DEF WsIInv

LEMMA ReplayStep == WsIInv /\ [WsNext]_wsVars => WsIInv'
<1> SUFFICES ASSUME WsIInv, [WsNext]_wsVars PROVE ReplayInStep'
  BY WsStep DEF WsIInv
<1>1. /\ subs \in Seq(Topics) /\ replay \in Seq(Topics)
      /\ Len(subs) \in Nat /\ unread \in 0..Len(subs) /\ DOMAIN subs = 1..Len(subs)
  BY DEF WsIInv, WsTypeOK
\* Where the task is before the list is read, or after the connection.
<1>2. CASE StartStream \/ ConnectOk \/ ConnectFails \/ ConnectionEnds \/ DelayPasses
            \/ SeeShutdown \/ AbortTask
  <2>1. task' \notin {"replaying", "reading"} /\ unread' = 0
    BY <1>2 DEF StartStream, ConnectOk, ConnectFails, ConnectionEnds, DelayPasses, SeeShutdown,
       AbortTask, BackOff, Forget, heardVars, WsIInv, ReplayInStep, HasRead
  <2>2. task' = "authenticating" => onServer' = {}
    BY <1>2 DEF StartStream, ConnectOk, ConnectFails, ConnectionEnds, DelayPasses, SeeShutdown,
       AbortTask, BackOff
  <2> QED
    BY <2>1, <2>2 DEF ReplayInStep, HasRead
<1>3. CASE Authenticate
  <2>1. /\ unread = 0 /\ onServer = {} /\ unread' = unread /\ onServer' = onServer
        /\ cut' = cut /\ subs' = subs
    BY <1>3 DEF Authenticate, heardVars, WsIInv, ReplayInStep, HasRead
  <2>2. CASE task' = "connecting"
    BY <2>1, <2>2 DEF ReplayInStep, HasRead
  <2>3. CASE task' = "replaying" /\ replay' = subs
    <3>1. AsRead' = ChannelsOf(replay')
      <4>1. 1..(Len(subs) - 0) = DOMAIN subs
        BY <1>1
      <4> QED
        BY <2>1, <2>3, <4>1 DEF AsRead, ChannelsOf
    <3>2. ChannelsOf(replay)' = ChannelsOf(replay')
      BY DEF ChannelsOf
    <3> QED
      BY <2>1, <2>3, <3>1, <3>2 DEF ReplayInStep, HasRead
  <2> QED
    BY <1>3, <2>2, <2>3 DEF Authenticate
<1>4. CASE Replay
  <2>1. /\ task = "replaying" /\ HasRead /\ UNCHANGED <<subs, unread, cleared>> /\ AsRead' = AsRead
    BY <1>4 DEF Replay, HasRead, AsRead
  <2>2. CASE replay = <<>> /\ task' = "reading" /\ UNCHANGED <<replay, onServer, cut>>
    BY <2>1, <2>2 DEF WsIInv, ReplayInStep, HasRead, ChannelsOf
  <2>3. CASE /\ replay # <<>> /\ onServer' = onServer \cup {ChannelOf[Head(replay)]}
             /\ replay' = Tail(replay) /\ UNCHANGED <<task, cut>>
    <3>1. ChannelsOf(replay) = {ChannelOf[Head(replay)]} \cup ChannelsOf(replay')
      BY <1>1, <2>3, SentOneByOne
    <3>2. ChannelsOf(replay)' = ChannelsOf(replay')
      BY DEF ChannelsOf
    <3>3. onServer' \cup ChannelsOf(replay') = onServer \cup ChannelsOf(replay)
      BY <2>3, <3>1
    <3> QED
      BY <2>1, <2>3, <3>2, <3>3 DEF WsIInv, ReplayInStep, HasRead
  <2>4. CASE task' = "reading" /\ cut' = TRUE /\ UNCHANGED <<replay, onServer>>
    BY <2>1, <2>4 DEF WsIInv, ReplayInStep, HasRead, ChannelsOf
  <2> QED
    BY <1>4, <2>2, <2>3, <2>4 DEF Replay
<1>5. CASE ReadMessage \/ ShutdownStream \/ UNCHANGED wsVars
  <2>1. UNCHANGED <<task, subs, replay, onServer, unread, cleared, cut>>
    BY <1>5 DEF ReadMessage, ShutdownStream, wsVars, heardVars
  <2>2. AsRead' = AsRead /\ ChannelsOf(replay)' = ChannelsOf(replay)
    BY <2>1 DEF AsRead, ChannelsOf
  <2> QED
    BY <2>1, <2>2 DEF WsIInv, ReplayInStep, HasRead
<1>6. ASSUME NEW s \in Topics, SubscribeTo(s)
      PROVE  ReplayInStep'
  <2>1. /\ UNCHANGED <<task, replay, onServer, cleared, cut>> /\ subs' = Append(subs, s)
        /\ unread' = IF HasRead THEN unread + 1 ELSE 0
    BY <1>6 DEF SubscribeTo
  <2>2. ASSUME HasRead PROVE AsRead' = AsRead
    <3>1. /\ Len(subs') - unread' = Len(subs) - unread
          /\ \A i \in 1..(Len(subs) - unread) : i \in 1..Len(subs)
      BY <1>1, <2>1, <2>2
    <3>2. \A i \in 1..Len(subs) : subs'[i] = subs[i]
      BY <1>1, <2>1
    <3> QED
      BY <3>1, <3>2 DEF AsRead
  <2> QED
    BY <2>1, <2>2 DEF WsIInv, ReplayInStep, HasRead, ChannelsOf
<1>7. CASE ClearSubscriptions
  BY <1>7 DEF ClearSubscriptions, WsIInv, ReplayInStep, HasRead
<1> QED
  BY <1>2, <1>3, <1>4, <1>5, <1>6, <1>7 DEF WsNext

\* MaintainsSubscriptions, for any subscriptions, whenever they are added, and however
\* often the stream connects again (providers/bitvavo/ws.rs): what the exchange has is
\* what the connection read of the list, no more, and no less unless sending failed.
THEOREM SubscriptionsAreMaintained == WsSpec => []MaintainsSubscriptions
<1>1. WsIInv => MaintainsSubscriptions
  <2>1. ChannelsOf(<<>>) = {}
    BY DEF ChannelsOf
  <2> QED
    BY <2>1 DEF WsIInv, ReplayInStep, MaintainsSubscriptions, HasRead
<1> QED
  BY <1>1, ReplayStart, ReplayStep, PTL DEF WsSpec

-----------------------------------------------------------------------------
(* MtwRouter with its chain.  A message that is past an authenticator, and *)
(* past nothing that may forge since, has the user a credential was found  *)
(* good for; which kind a token is of never changes, though other tasks    *)
(* issue tokens and let them expire.  The chain is in the documented order,*)
(* so what is to come before an authenticator does.                        *)

\* The chain has the middlewares that were added, each of them once, and is only
\* changed before the router is built; no message is in it until then.
ChainIsAdded ==
    /\ \A i \in DOMAIN chain : \E k \in DOMAIN added : added[k] = chain[i]
    /\ \A k \in DOMAIN added : \E i \in DOMAIN chain : chain[i] = added[k]
    /\ \A k, l \in DOMAIN added : added[k] = added[l] => k = l
    /\ ~routing => position = 0

ChainInOrder == \A i, j \in DOMAIN chain : i < j => Precedes(chain[i], chain[j])

\* An authenticator before position p, and nothing that may forge between.
TrustedBefore(p) ==
    \E i \in 1..(p - 1) :
       /\ chain[i] \in Authenticators
       /\ \A j \in (i + 1)..(p - 1) : ~MayForge(chain[j])

VouchedSoFar ==
    position # 0 /\ mail.type \notin Bypass /\ TrustedBefore(position) => Vouched

RouterIInv ==
    RouterTypeOK /\ ChainIsAdded /\ ChainInOrder /\ VouchedSoFar

\* Tokens are only ever added, and keep their owner and kind; keys that were
\* generated stay so, good or not.
TokensKeep ==
    /\ \A i \in DOMAIN issued :
          /\ i \in DOMAIN issued'
          /\ issued'[i].owner = issued[i].owner /\ issued'[i].refresh = issued[i].refresh
    /\ \A k \in ApiKeys : apiKeys[k] # "none" => apiKeys'[k] # "none"

Token == [owner : Owners, refresh : BOOLEAN, expired : BOOLEAN]

LEMMA IssueKeeps ==
    ASSUME AuthTypeOK, NEW o \in Owners, CreateToken(o)
    PROVE  AuthTypeOK' /\ TokensKeep
<1> DEFINE more == <<[owner |-> o, refresh |-> FALSE, expired |-> FALSE],
                     [owner |-> o, refresh |-> TRUE, expired |-> FALSE]>>
<1>1. issued \in Seq(Token) /\ Len(issued) \in Nat
  BY DEF AuthTypeOK, Token
<1>2. more \in Seq(Token) /\ Len(more) = 2
  BY DEF Token
<1>3. /\ Len(issued) + 2 <= MaxTokens /\ issued' = issued \o more /\ apiKeys' = apiKeys
  BY DEF CreateToken
<1> HIDE DEF more
<1>4. /\ issued' \in Seq(Token) /\ Len(issued') = Len(issued) + 2
      /\ \A i \in 1..Len(issued) : issued'[i] = issued[i]
  <2>1. /\ issued \o more \in Seq(Token)
        /\ Len(issued \o more) = Len(issued) + Len(more)
        /\ \A i \in 1..(Len(issued) + Len(more)) :
              (issued \o more)[i] = IF i <= Len(issued) THEN issued[i] ELSE more[i - Len(issued)]
    BY <1>1, <1>2, ConcatProperties, Zenon
  <2>2. ASSUME NEW i \in 1..Len(issued)
        PROVE  (issued \o more)[i] = issued[i]
    <3>1. i \in 1..(Len(issued) + Len(more)) /\ i <= Len(issued)
      BY <1>1, <1>2
    <3> QED
      BY <2>1, <3>1
  <2> QED
    BY <1>2, <1>3, <2>1, <2>2
<1>5. AuthTypeOK'
  BY <1>3, <1>4 DEF AuthTypeOK, Token
<1>6. TokensKeep
  <2>1. DOMAIN issued = 1..Len(issued) /\ DOMAIN issued' = 1..Len(issued')
    BY <1>1, <1>4
  <2> SUFFICES ASSUME NEW i \in 1..Len(issued)
               PROVE  i \in 1..Len(issued') /\ issued'[i] = issued[i]
    BY <1>3, <2>1 DEF TokensKeep
  <2> QED
    BY <1>1, <1>4
<1> QED
  BY <1>5, <1>6

LEMMA AuthStep ==
    ASSUME AuthTypeOK, [AuthNext]_authVars
    PROVE  AuthTypeOK' /\ TokensKeep
<1>1. issued \in Seq(Token) /\ DOMAIN issued = 1..Len(issued)
  BY DEF AuthTypeOK, Token
<1>2. ASSUME NEW i \in DOMAIN issued PROVE issued[i].owner \in Owners
  <2>1. issued[i] \in Token
    BY <1>1, ElementOfSeq
  <2> QED
    BY <2>1 DEF Token
<1>3. CASE IssueTokens
  BY <1>2, <1>3, AuthAssumption, IssueKeeps DEF IssueTokens
<1>4. ASSUME NEW i \in 1..MaxTokens, Refresh(i)
      PROVE  AuthTypeOK' /\ TokensKeep
  BY <1>2, <1>4, IssueKeeps DEF Refresh, Decodes
<1>5. ASSUME NEW i \in 1..MaxTokens, TokenExpires(i)
      PROVE  AuthTypeOK' /\ TokensKeep
  <2>1. /\ i \in DOMAIN issued /\ issued' = [issued EXCEPT ![i].expired = TRUE]
        /\ apiKeys' = apiKeys
    BY <1>5 DEF TokenExpires, Decodes
  <2>2. issued[i] \in Token
    BY <1>1, <2>1, ElementOfSeq
  <2>3. [issued[i] EXCEPT !.expired = TRUE] \in Token
    BY <2>2 DEF Token
  <2>4. issued' = [issued EXCEPT ![i] = [issued[i] EXCEPT !.expired = TRUE]]
    BY <2>1
  <2>5. /\ issued' \in Seq(Token) /\ Len(issued') = Len(issued)
        /\ DOMAIN issued' = DOMAIN issued
    BY <1>1, <2>1, <2>3, <2>4, ExceptSeq
  <2>6. AuthTypeOK'
    BY <2>1, <2>5 DEF AuthTypeOK, Token
  <2>7. TokensKeep
    BY <1>1, <2>1, <2>2, <2>5 DEF TokensKeep, Token
  <2> QED
    BY <2>6, <2>7
<1>6. ASSUME NEW k \in ApiKeys, GenerateKey(k) \/ RevokeKey(k) \/ KeyExpires(k)
      PROVE  AuthTypeOK' /\ TokensKeep
  <2>1. issued' = issued
    BY <1>6 DEF GenerateKey, RevokeKey, KeyExpires
  <2>2. apiKeys' \in [ApiKeys -> KeyStates]
    BY <1>6 DEF GenerateKey, RevokeKey, KeyExpires, AuthTypeOK, KeyStates
  <2>3. \E v \in {"good", "expired", "revoked"} : apiKeys' = [apiKeys EXCEPT ![k] = v]
    BY <1>6 DEF GenerateKey, RevokeKey, KeyExpires
  <2>4. \A j \in ApiKeys : apiKeys[j] # "none" => apiKeys'[j] # "none"
    BY <2>3 DEF AuthTypeOK
  <2> QED
    BY <2>1, <2>2, <2>4 DEF AuthTypeOK, TokensKeep
<1>7. CASE UNCHANGED authVars
  BY <1>7 DEF authVars, AuthTypeOK, TokensKeep
<1> QED
  BY <1>3, <1>4, <1>5, <1>6, <1>7 DEF AuthNext

LEMMA RouterStart == RouterInit => RouterIInv
<1> SUFFICES ASSUME RouterInit PROVE RouterIInv
  OBVIOUS
<1>1. AuthTypeOK
  BY AuthAssumption DEF RouterInit, AuthInit, AuthTypeOK, KeyStates
<1>2. RouterTypeOK
  <2>1. /\ <<>> \in Seq(Stock) /\ Len(<<>>) = 0 /\ 0 <= MaxAdded
        /\ 0 \in 0..(0 + 1) /\ 0 \in 0..MaxRouted
    BY RouterAssumption
  <2>2. members \in [Rooms -> SUBSET Peers] /\ rooms \subseteq Rooms
    BY DEF RouterInit
  <2>3. None \in Replies /\ NoCredential \in Credentials
    BY AuthAssumption DEF Replies, NoCredential, Credentials
  <2>4. Len(chain) = 0 /\ chain \in Seq(Stock) /\ added \in Seq(Stock)
    BY <2>1 DEF RouterInit
  <2>5. position = 0 /\ routed = 0 /\ reply = None /\ vouched = NoCredential /\ routing = FALSE
    BY DEF RouterInit
  <2> QED
    BY <1>1, <2>1, <2>2, <2>3, <2>4, <2>5 DEF RouterTypeOK
<1>3. ChainIsAdded /\ ChainInOrder /\ VouchedSoFar
  BY DEF RouterInit, ChainIsAdded, ChainInOrder, VouchedSoFar
<1> QED
  BY <1>2, <1>3 DEF RouterIInv

\* What is not in the chain and changes no token leaves the order and what is
\* vouched for as it is.
LEMMA SettledKeeps ==
    ASSUME RouterIInv, UNCHANGED <<added, chain, routing, position, mail, vouched>>,
           TokensKeep, AuthTypeOK'
    PROVE  ChainIsAdded' /\ ChainInOrder' /\ VouchedSoFar'
<1>1. ChainIsAdded' /\ ChainInOrder'
  BY DEF RouterIInv, ChainIsAdded, ChainInOrder, Precedes
<1>2. Vouched => Vouched'
  <2> SUFFICES ASSUME Vouched PROVE Vouched'
    OBVIOUS
  <2>1. CASE vouched.key \in ApiKeys /\ apiKeys[vouched.key] # "none"
    <3>1. vouched.key # None
      BY <2>1, RouterAssumption DEF None
    <3> QED
      BY <2>1, <3>1 DEF Vouched, OwnerOf, TokensKeep
  <2>2. CASE /\ vouched.key = None /\ vouched.token \in DOMAIN issued
             /\ ~issued[vouched.token].refresh
    BY <2>2 DEF Vouched, OwnerOf, TokensKeep
  <2> QED
    BY <2>1, <2>2 DEF Vouched
<1>3. VouchedSoFar => VouchedSoFar'
  BY <1>2 DEF VouchedSoFar, TrustedBefore
<1> QED
  BY <1>1, <1>3 DEF RouterIInv

\* A new middleware comes after those of its priority and before the rest.
LEMMA AddKeeps ==
    ASSUME RouterIInv, NEW m \in Stock, Add(m)
    PROVE  RouterIInv'
<1>1. /\ added \in Seq(Stock) /\ Len(added) \in Nat /\ DOMAIN added = 1..Len(added)
      /\ chain \in Seq(Stock) /\ Len(chain) \in Nat /\ DOMAIN chain = 1..Len(chain)
      /\ Len(chain) < MaxAdded /\ ~routing /\ position = 0
      /\ added' = Append(added, m) /\ routing' = routing /\ position' = position
      /\ \A k \in DOMAIN added : added[k] # m
      /\ UNCHANGED <<mail, vouched, members, rooms, reply, routed, authVars>>
  BY DEF RouterIInv, RouterTypeOK, ChainIsAdded, Add, MayAdd
<1>2. PICK n \in 0..Len(chain) :
         /\ \A i \in DOMAIN chain : i <= n <=> chain[i].priority <= m.priority
         /\ chain' = InsertAfter(n, m)
  BY DEF Add
<1> DEFINE front == SubSeq(chain, 1, n)
           back == SubSeq(chain, n + 1, Len(chain))
<1>3. /\ front \in Seq(Stock) /\ Len(front) = n
      /\ \A i \in 1..n : front[i] = chain[i]
  <2>1. n \in Nat /\ 1 \in Int /\ n \in Int /\ \A i \in 1..n : chain[i] \in Stock
    BY <1>1
  <2>2. /\ front \in Seq(Stock) /\ Len(front) = IF 1 <= n THEN n - 1 + 1 ELSE 0
        /\ \A i \in 1..(n - 1 + 1) : front[i] = chain[1 + i - 1]
    BY <2>1, SubSeqProperties
  <2>3. \A i \in 1..n : i \in 1..(n - 1 + 1) /\ 1 + i - 1 = i
    BY <2>1
  <2> HIDE DEF front
  <2>4. Len(front) = n
    BY <2>1, <2>2
  <2>5. ASSUME NEW i \in 1..n PROVE front[i] = chain[i]
    BY <2>2, <2>3
  <2> QED
    BY <2>2, <2>4, <2>5
<1>4. /\ back \in Seq(Stock) /\ Len(back) = Len(chain) - n
      /\ \A i \in 1..(Len(chain) - n) : back[i] = chain[n + i]
  <2>1. /\ n \in Nat /\ n + 1 \in Int /\ Len(chain) \in Int /\ n <= Len(chain)
        /\ \A i \in (n + 1)..Len(chain) : chain[i] \in Stock
    BY <1>1
  <2>2. /\ back \in Seq(Stock)
        /\ Len(back) = IF n + 1 <= Len(chain) THEN Len(chain) - (n + 1) + 1 ELSE 0
        /\ \A i \in 1..(Len(chain) - (n + 1) + 1) : back[i] = chain[(n + 1) + i - 1]
    BY <2>1, SubSeqProperties
  <2>3. \A i \in 1..(Len(chain) - n) :
           i \in 1..(Len(chain) - (n + 1) + 1) /\ (n + 1) + i - 1 = n + i
    BY <2>1
  <2> HIDE DEF back
  <2>4. Len(back) = Len(chain) - n
    BY <2>1, <2>2
  <2>5. ASSUME NEW i \in 1..(Len(chain) - n) PROVE back[i] = chain[n + i]
    BY <2>2, <2>3
  <2> QED
    BY <2>2, <2>4, <2>5
<1>5. chain' = (front \o <<m>>) \o back
  BY <1>2 DEF InsertAfter
<1> HIDE DEF front, back
<1>6. /\ chain' \in Seq(Stock) /\ Len(chain') = Len(chain) + 1
      /\ \A i \in 1..n : chain'[i] = chain[i]
      /\ chain'[n + 1] = m
      /\ \A i \in (n + 2)..(Len(chain) + 1) : chain'[i] = chain[i - 1]
  <2>1. n \in Nat /\ Len(chain) \in Nat /\ n <= Len(chain)
    BY <1>1
  <2>2. /\ front \o <<m>> \in Seq(Stock) /\ Len(front \o <<m>>) = n + 1
        /\ \A i \in 1..n : (front \o <<m>>)[i] = chain[i]
        /\ (front \o <<m>>)[n + 1] = m
    BY <1>3, <2>1
  <2> DEFINE head == front \o <<m>>
  <2> HIDE DEF head
  <2>3. /\ head \in Seq(Stock) /\ Len(head) = n + 1
        /\ \A i \in 1..n : head[i] = chain[i]
        /\ head[n + 1] = m /\ chain' = head \o back
    BY <1>5, <2>2 DEF head
  <2>4. /\ head \o back \in Seq(Stock)
        /\ Len(head \o back) = Len(head) + Len(back)
        /\ \A i \in 1..(Len(head) + Len(back)) :
              (head \o back)[i] = IF i <= Len(head) THEN head[i] ELSE back[i - Len(head)]
    BY <1>4, <2>3, ConcatProperties, Zenon
  <2>5. Len(head) + Len(back) = Len(chain) + 1
    BY <1>4, <2>1, <2>3
  <2>6. ASSUME NEW i \in 1..(n + 1) PROVE chain'[i] = head[i]
    <3>1. i \in 1..(Len(head) + Len(back)) /\ i <= Len(head)
      BY <2>1, <2>3, <2>5
    <3> QED
      BY <2>3, <2>4, <3>1
  <2>7. ASSUME NEW i \in (n + 2)..(Len(chain) + 1) PROVE chain'[i] = chain[i - 1]
    <3>1. /\ i \in 1..(Len(head) + Len(back)) /\ ~(i <= Len(head))
          /\ i - (n + 1) \in 1..(Len(chain) - n) /\ n + (i - (n + 1)) = i - 1
      BY <2>1, <2>3, <2>5
    <3>2. chain'[i] = back[i - (n + 1)]
      BY <2>3, <2>4, <3>1
    <3>3. back[i - (n + 1)] = chain[n + (i - (n + 1))]
      BY <1>4, <3>1
    <3> QED
      BY <3>1, <3>2, <3>3
  <2>8. \A i \in 1..n : i \in 1..(n + 1)
    BY <2>1
  <2>9. n + 1 \in 1..(n + 1)
    BY <2>1
  <2> QED
    BY <2>3, <2>4, <2>5, <2>6, <2>7, <2>8, <2>9
<1>7. /\ added' \in Seq(Stock) /\ Len(added') = Len(added) + 1
      /\ \A k \in 1..Len(added) : added'[k] = added[k]
      /\ added'[Len(added) + 1] = m
      /\ DOMAIN added' = 1..(Len(added) + 1)
  BY <1>1
<1>8. RouterTypeOK'
  <2>1. AuthTypeOK'
    BY <1>1 DEF RouterIInv, RouterTypeOK, AuthTypeOK, authVars
  <2>2. Len(chain') <= MaxAdded /\ position' \in 0..(Len(chain') + 1) /\ position' = 0
    BY <1>1, <1>6, RouterAssumption
  <2> QED
    BY <1>1, <1>6, <1>7, <2>1, <2>2 DEF RouterIInv, RouterTypeOK
<1>9. VouchedSoFar'
  BY <1>1 DEF VouchedSoFar
\* Where each element of the new chain comes from.
<1> DEFINE At(i) == IF i <= n THEN i ELSE i - 1
<1>10. ASSUME NEW i \in 1..(Len(chain) + 1), i # n + 1
       PROVE  At(i) \in 1..Len(chain) /\ chain'[i] = chain[At(i)]
  <2>1. i \in 1..n \/ i \in (n + 2)..(Len(chain) + 1)
    BY <1>1, <1>10
  <2> QED
    BY <1>1, <1>6, <2>1
<1>11. ChainIsAdded'
  <2>1. ASSUME NEW i \in 1..(Len(chain) + 1)
        PROVE  \E k \in DOMAIN added' : added'[k] = chain'[i]
    <3>1. CASE i = n + 1
      <4>1. Len(added) + 1 \in DOMAIN added'
        BY <1>1, <1>7
      <4> QED
        BY <1>6, <1>7, <3>1, <4>1
    <3>2. CASE i # n + 1
      <4>1. PICK k \in DOMAIN added : added[k] = chain[At(i)]
        BY <1>1, <1>10, <3>2 DEF RouterIInv, ChainIsAdded
      <4>2. k \in DOMAIN added' /\ added'[k] = added[k]
        BY <1>1, <1>7
      <4> QED
        BY <1>10, <3>2, <4>1, <4>2
    <3> QED
      BY <3>1, <3>2
  <2>2. DOMAIN chain' = 1..(Len(chain) + 1)
    BY <1>6
  <2>3. ASSUME NEW k \in 1..(Len(added) + 1)
        PROVE  \E i \in 1..(Len(chain) + 1) : chain'[i] = added'[k]
    <3>1. CASE k = Len(added) + 1
      <4>1. n + 1 \in 1..(Len(chain) + 1)
        BY <1>1
      <4> QED
        BY <1>6, <1>7, <3>1, <4>1
    <3>2. CASE k # Len(added) + 1
      <4>1. k \in DOMAIN added /\ added'[k] = added[k]
        BY <1>1, <1>7, <3>2
      <4>2. PICK i \in DOMAIN chain : chain[i] = added[k]
        BY <4>1 DEF RouterIInv, ChainIsAdded
      <4>3. CASE i <= n
        <5>1. i \in 1..n /\ i \in 1..(Len(chain) + 1)
          BY <1>1, <4>2, <4>3
        <5> QED
          BY <1>6, <4>1, <4>2, <5>1
      <4>4. CASE ~(i <= n)
        <5>1. i + 1 \in (n + 2)..(Len(chain) + 1) /\ (i + 1) - 1 = i
              /\ i + 1 \in 1..(Len(chain) + 1)
          BY <1>1, <4>2, <4>4
        <5>2. chain'[i + 1] = chain[i]
          BY <1>6, <5>1
        <5> QED
          BY <4>1, <4>2, <5>1, <5>2
      <4> QED
        BY <4>3, <4>4
    <3> QED
      BY <3>1, <3>2
  <2>4. ASSUME NEW k \in 1..(Len(added) + 1), NEW l \in 1..(Len(added) + 1),
               added'[k] = added'[l]
        PROVE  k = l
    <3>1. \A j \in 1..(Len(added) + 1) :
             \/ j = Len(added) + 1 /\ added'[j] = m
             \/ j \in DOMAIN added /\ added'[j] = added[j] /\ added[j] # m
      BY <1>1, <1>7
    <3> QED
      BY <2>4, <3>1 DEF RouterIInv, ChainIsAdded
  <2> QED
    BY <1>1, <1>7, <2>1, <2>2, <2>3, <2>4 DEF ChainIsAdded
<1>12. ChainInOrder'
  <2>1. ASSUME NEW i \in 1..(Len(chain) + 1), NEW j \in 1..(Len(chain) + 1), i < j
        PROVE  Precedes(chain[i], chain[j])'
    <3> USE DEF Precedes
    <3>1. CASE j = n + 1
      <4>1. i \in 1..n /\ i \in DOMAIN chain /\ chain'[i] = chain[i] /\ chain'[j] = m
        BY <1>1, <1>6, <2>1, <3>1
      <4>2. chain[i].priority <= m.priority
        BY <1>2, <4>1
      <4>3. chain[i] \in Stock /\ chain[i].priority \in Nat /\ m.priority \in Nat
        BY <1>1, <4>1, RouterAssumption
      <4>4. PICK k \in DOMAIN added : added[k] = chain[i]
        BY <4>1 DEF RouterIInv, ChainIsAdded
      <4>5. /\ k \in DOMAIN added' /\ Len(added) + 1 \in DOMAIN added' /\ k < Len(added) + 1
            /\ added'[k] = chain[i] /\ added'[Len(added) + 1] = m
        BY <1>1, <1>7, <4>4
      <4> QED
        BY <4>1, <4>2, <4>3, <4>5
    <3>2. CASE i = n + 1
      <4>1. /\ j \in (n + 2)..(Len(chain) + 1) /\ j - 1 \in DOMAIN chain /\ ~(j - 1 <= n)
            /\ chain'[j] = chain[j - 1] /\ chain'[i] = m
        BY <1>1, <1>6, <2>1, <3>2
      <4>2. ~(chain[j - 1].priority <= m.priority)
        BY <1>2, <4>1
      <4>3. chain[j - 1].priority \in Nat /\ m.priority \in Nat
        BY <1>1, <4>1, RouterAssumption
      <4> QED
        BY <4>1, <4>2, <4>3
    <3>3. CASE i # n + 1 /\ j # n + 1
      <4>1. /\ At(i) \in 1..Len(chain) /\ chain'[i] = chain[At(i)]
            /\ At(j) \in 1..Len(chain) /\ chain'[j] = chain[At(j)]
        BY <1>10, <3>3
      <4>2. At(i) < At(j)
        BY <1>1, <2>1, <3>3
      <4> HIDE DEF At
      <4>3. \/ chain[At(i)].priority < chain[At(j)].priority
            \/ /\ chain[At(i)].priority = chain[At(j)].priority
               /\ \E k, l \in DOMAIN added :
                     k < l /\ added[k] = chain[At(i)] /\ added[l] = chain[At(j)]
        BY <1>1, <4>1, <4>2 DEF RouterIInv, ChainInOrder, Precedes
      <4>4. \A k \in DOMAIN added : k \in DOMAIN added' /\ added'[k] = added[k]
        BY <1>1, <1>7
      <4> QED
        BY <4>1, <4>3, <4>4
    <3> QED
      BY <3>1, <3>2, <3>3
  <2>2. DOMAIN chain' = 1..(Len(chain) + 1)
    BY <1>6
  <2> QED
    BY <2>1, <2>2 DEF ChainInOrder
<1> QED
  BY <1>8, <1>9, <1>11, <1>12 DEF RouterIInv

\* A message goes through the chain after it was vouched for, or before.
LEMMA MailIs ==
    ASSUME NEW m \in Mails
    PROVE  /\ m.from \in Peers /\ m.type \in Types /\ m.room \in Rooms \cup {None}
           /\ m.credential \in Credentials /\ m.user \in Owners \cup {None}
           /\ \A o \in Owners : [m EXCEPT !.user = o] \in Mails
           /\ \A r \in Rooms : [m EXCEPT !.room = r] \in Mails
<1>1. m = [from |-> m.from, type |-> m.type, room |-> m.room, credential |-> m.credential,
           user |-> m.user]
      /\ m.from \in Peers /\ m.type \in Types /\ m.room \in Rooms \cup {None}
      /\ m.credential \in Credentials /\ m.user \in Owners \cup {None}
  BY DEF Mails
<1>2. \A o \in Owners : [m EXCEPT !.user = o] \in Mails
  BY DEF Mails
<1>3. \A r \in Rooms : [m EXCEPT !.room = r] \in Mails
  BY DEF Mails
<1> QED
  BY <1>1, <1>2, <1>3

\* A credential that an authenticator finds good has an owner, and is no
\* refresh token.
LEMMA GoodCredential ==
    ASSUME AuthTypeOK, NEW m \in Authenticators, NEW c \in Credentials, Validates(m, c)
    PROVE  /\ OwnerOf(c) \in Owners
           /\ \/ c.key = None /\ c.token \in DOMAIN issued /\ ~issued[c.token].refresh
              \/ c.key \in ApiKeys /\ apiKeys[c.key] # "none"
<1>1. None \notin Owners /\ None \notin ApiKeys /\ KeyOwner \in [ApiKeys -> Owners]
  BY RouterAssumption, AuthAssumption DEF None
<1>2. issued \in Seq(Token) /\ DOMAIN issued = 1..Len(issued) /\ Len(issued) \in Nat
  BY DEF AuthTypeOK, Token
<1>3. \/ c.token \in 0..MaxTokens /\ c.key = None
      \/ c.token = 0 /\ c.key \in ApiKeys
  BY DEF Credentials
<1>4. CASE m.does = "jwt"
  <2>1. c.token \in DOMAIN issued /\ ~issued[c.token].refresh
    BY <1>4 DEF Validates, ValidatesToken, Decodes
  <2>2. c.key = None
    BY <1>2, <1>3, <2>1
  <2>3. issued[c.token].owner \in Owners
    <3>1. issued[c.token] \in Token
      BY <1>2, <2>1, ElementOfSeq
    <3> QED
      BY <3>1 DEF Token
  <2> QED
    BY <1>1, <2>1, <2>2, <2>3 DEF OwnerOf
<1>5. CASE m.does # "jwt"
  <2>1. c.key \in ApiKeys /\ apiKeys[c.key] = "good"
    BY <1>5 DEF Validates, ValidatesKey
  <2>2. c.key # None /\ c.token = 0 /\ KeyOwner[c.key] \in Owners
    BY <1>1, <1>3, <2>1
  <2> QED
    BY <1>1, <2>1, <2>2 DEF OwnerOf
<1> QED
  BY <1>4, <1>5

LEMMA InTheChain ==
    ASSUME RouterIInv, InChain
    PROVE  /\ chain \in Seq(Stock) /\ Len(chain) \in Nat /\ DOMAIN chain = 1..Len(chain)
           /\ position \in 1..Len(chain) /\ position # 0 /\ mail \in Mails
           /\ Current \in Stock
           /\ (position + 1) - 1 = position
           /\ position + 1 \in 0..(Len(chain) + 1) /\ position + 1 # 0
           /\ \A i \in 1..position : i = position \/ i \in 1..(position - 1)
           /\ routing
<1>1. chain \in Seq(Stock) /\ Len(chain) \in Nat /\ DOMAIN chain = 1..Len(chain)
  BY DEF RouterIInv, RouterTypeOK
<1>2. position \in 1..Len(chain)
  BY <1>1 DEF InChain
<1>3. mail \in Mails /\ routing
  BY <1>2 DEF RouterIInv, RouterTypeOK, ChainIsAdded
<1>4. Current \in Stock
  BY <1>1, <1>2, ElementOfSeq DEF Current
<1>5. /\ (position + 1) - 1 = position /\ position # 0
      /\ position + 1 \in 0..(Len(chain) + 1) /\ position + 1 # 0
      /\ \A i \in 1..position : i = position \/ i \in 1..(position - 1)
  BY <1>1, <1>2
<1> QED
  BY <1>1, <1>2, <1>3, <1>4, <1>5

\* Going on from a middleware that may not forge changes nothing that was vouched
\* for, and nothing is vouched for behind one that may; nor is a ping.
LEMMA GoingOnKeeps ==
    ASSUME RouterIInv, InChain, NEW m \in Mails, PassesOn(m), vouched' = vouched,
           \/ m.type \in Bypass
           \/ /\ Current \notin Authenticators
              /\ MayForge(Current) \/ (m.type = mail.type /\ m.user = mail.user)
    PROVE  RouterIInv'
<1>1. /\ mail' = m /\ position' = position + 1
      /\ UNCHANGED <<added, chain, routing, members, rooms, reply, routed, authVars>>
  BY DEF PassesOn, buildVars
<1>2. RouterTypeOK'
  <2>1. AuthTypeOK'
    BY <1>1 DEF RouterIInv, RouterTypeOK, AuthTypeOK, authVars
  <2> QED
    BY <1>1, <2>1, InTheChain DEF RouterIInv, RouterTypeOK
<1>3. ChainIsAdded' /\ ChainInOrder'
  BY <1>1, InTheChain DEF RouterIInv, ChainIsAdded, ChainInOrder, Precedes
<1>4. VouchedSoFar'
  <2> SUFFICES ASSUME m.type \notin Bypass,
                      NEW i \in 1..position, chain[i] \in Authenticators,
                      \A j \in (i + 1)..position : ~MayForge(chain[j])
               PROVE  Vouched'
    BY <1>1, InTheChain DEF VouchedSoFar, TrustedBefore
  <2>1. i # position /\ position \in Nat
    BY InTheChain DEF Current
  <2>2. i \in 1..(position - 1) /\ position \in (i + 1)..position
        /\ \A j \in (i + 1)..(position - 1) : j \in (i + 1)..position
    BY <2>1
  <2>3. m.type = mail.type /\ m.user = mail.user
    BY <2>2 DEF Current
  <2>4. TrustedBefore(position)
    BY <2>2 DEF TrustedBefore
  <2>5. Vouched
    BY <2>3, <2>4, InTheChain DEF RouterIInv, VouchedSoFar
  <2> QED
    BY <1>1, <2>3, <2>5 DEF Vouched, OwnerOf, authVars
<1> QED
  BY <1>2, <1>3, <1>4 DEF RouterIInv

\* The end of a message leaves nothing to vouch for.
LEMMA EndKeeps ==
    ASSUME RouterIInv, NEW how \in Replies, EndWith(how),
           members' \in [Rooms -> SUBSET Peers], rooms' \subseteq Rooms
    PROVE  RouterIInv'
<1>1. /\ position' = 0 /\ vouched' = NoCredential /\ reply' = how
      /\ UNCHANGED <<added, chain, routing, routed, authVars>>
  BY DEF EndWith, buildVars
<1>0. NoCredential \in Credentials
  BY AuthAssumption DEF NoCredential, Credentials
<1>2. RouterTypeOK'
  <2>1. AuthTypeOK'
    BY <1>1 DEF RouterIInv, RouterTypeOK, AuthTypeOK, authVars
  <2>2. chain \in Seq(Stock) /\ Len(chain) \in Nat /\ 0 \in 0..(Len(chain) + 1)
    BY DEF RouterIInv, RouterTypeOK
  <2> QED
    BY <1>0, <1>1, <2>1, <2>2 DEF RouterIInv, RouterTypeOK
<1>3. ChainIsAdded' /\ ChainInOrder' /\ VouchedSoFar'
  BY <1>1 DEF RouterIInv, ChainIsAdded, ChainInOrder, Precedes, VouchedSoFar
<1> QED
  BY <1>2, <1>3 DEF RouterIInv

LEMMA OutsideKeeps ==
    ASSUME RouterIInv, BuildRouter \/ (\E p \in Peers : PeerLeft(p)) \/ Meanwhile \/ UNCHANGED <<routerVars, authVars>>
    PROVE  RouterIInv'
<1>0. AuthTypeOK
  BY DEF RouterIInv, RouterTypeOK
<1>1. CASE BuildRouter
  <2>1. /\ routing' = TRUE
        /\ UNCHANGED <<added, chain, position, mail, vouched, members, rooms, reply, routed, authVars>>
    BY <1>1 DEF BuildRouter
  <2>2. RouterTypeOK'
    BY <2>1 DEF RouterIInv, RouterTypeOK, AuthTypeOK, authVars
  <2>3. position = 0
    BY <1>1 DEF BuildRouter, RouterIInv, ChainIsAdded
  <2>4. ChainIsAdded' /\ ChainInOrder' /\ VouchedSoFar'
    BY <2>1, <2>3 DEF RouterIInv, ChainIsAdded, ChainInOrder, Precedes, VouchedSoFar
  <2> QED
    BY <2>2, <2>4 DEF RouterIInv
<1>2. ASSUME NEW p \in Peers, PeerLeft(p) PROVE RouterIInv'
  <2>1. /\ members' = [r \in Rooms |-> members[r] \ {p}]
        /\ UNCHANGED <<added, chain, routing, position, mail, vouched, rooms, reply, routed, authVars>>
    BY <1>2 DEF PeerLeft, buildVars
  <2>2. AuthTypeOK' /\ TokensKeep
    BY <1>0, <2>1, AuthStep
  <2>3. RouterTypeOK'
    BY <2>1, <2>2 DEF RouterIInv, RouterTypeOK
  <2> QED
    BY <2>1, <2>2, <2>3, SettledKeeps DEF RouterIInv
<1>3. CASE Meanwhile \/ UNCHANGED <<routerVars, authVars>>
  <2>1. /\ [AuthNext]_authVars
        /\ UNCHANGED <<added, chain, routing, position, mail, vouched, members, rooms, reply, routed>>
    BY <1>3 DEF Meanwhile, routerVars
  <2>2. AuthTypeOK' /\ TokensKeep
    BY <1>0, <2>1, AuthStep
  <2>3. RouterTypeOK'
    BY <2>1, <2>2 DEF RouterIInv, RouterTypeOK
  <2> QED
    BY <2>1, <2>2, <2>3, SettledKeeps DEF RouterIInv
<1> QED
  BY <1>1, <1>2, <1>3

LEMMA ArriveKeeps ==
    ASSUME RouterIInv, Arrive
    PROVE  RouterIInv'
<1>1. /\ routing /\ position = 0 /\ routed < MaxRouted
      /\ mail' \in Mails
      /\ position' = 1 /\ vouched' = NoCredential /\ reply' = None /\ routed' = routed + 1
      /\ UNCHANGED <<added, chain, routing, members, rooms, authVars>>
  BY DEF Arrive, buildVars
<1>2. RouterTypeOK'
  <2>1. AuthTypeOK'
    BY <1>1 DEF RouterIInv, RouterTypeOK, AuthTypeOK, authVars
  <2>2. chain \in Seq(Stock) /\ Len(chain) \in Nat /\ 1 \in 0..(Len(chain) + 1)
    BY DEF RouterIInv, RouterTypeOK
  <2>3. routed' \in 0..MaxRouted
    BY <1>1, RouterAssumption DEF RouterIInv, RouterTypeOK
  <2>4. None \in Replies /\ NoCredential \in Credentials
    BY AuthAssumption DEF Replies, NoCredential, Credentials
  <2> QED
    BY <1>1, <2>1, <2>2, <2>3, <2>4 DEF RouterIInv, RouterTypeOK
<1>3. ChainIsAdded' /\ ChainInOrder'
  BY <1>1 DEF RouterIInv, ChainIsAdded, ChainInOrder, Precedes
<1>4. VouchedSoFar'
  BY <1>1 DEF VouchedSoFar, TrustedBefore
<1> QED
  BY <1>2, <1>3, <1>4 DEF RouterIInv

\* An authenticator vouches for what it lets through, whoever vouched before.
LEMMA AuthInboundKeeps ==
    ASSUME RouterIInv, AuthInbound
    PROVE  RouterIInv'
<1>0. InChain /\ Current.does \in {"jwt", "apikey"}
  BY DEF AuthInbound
<1>1. CASE mail.type \in Bypass
  <2>1. PassesOn(mail) /\ vouched' = vouched
    BY <1>1 DEF AuthInbound
  <2> QED
    BY <1>0, <1>1, <2>1, InTheChain, GoingOnKeeps
<1>2. CASE mail.type \notin Bypass /\ Validates(Current, mail.credential)
  <2> DEFINE o == OwnerOf(mail.credential)
             m == [mail EXCEPT !.user = o]
  <2>1. PassesOn(m) /\ vouched' = mail.credential
    BY <1>2 DEF AuthInbound
  <2>2. mail \in Mails /\ mail.credential \in Credentials
    BY <1>0, InTheChain, MailIs
  <2>3. Current \in Authenticators
    BY <1>0, InTheChain DEF Authenticators
  <2>4. /\ o \in Owners
        /\ \/ /\ mail.credential.key = None /\ mail.credential.token \in DOMAIN issued
              /\ ~issued[mail.credential.token].refresh
           \/ mail.credential.key \in ApiKeys /\ apiKeys[mail.credential.key] # "none"
    BY <1>2, <2>2, <2>3, GoodCredential DEF RouterIInv, RouterTypeOK
  <2> HIDE DEF o
  <2>5. m \in Mails /\ m.user = o
    BY <2>2, <2>4, MailIs DEF Mails
  <2> HIDE DEF m
  <2>6. /\ mail' = m /\ position' = position + 1
        /\ UNCHANGED <<added, chain, routing, members, rooms, reply, routed, issued, apiKeys>>
    BY <2>1 DEF PassesOn, buildVars, authVars
  <2>7. RouterTypeOK'
    <3>1. AuthTypeOK'
      BY <2>6 DEF RouterIInv, RouterTypeOK, AuthTypeOK
    <3> QED
      BY <1>0, <2>1, <2>2, <2>5, <2>6, <3>1, InTheChain DEF RouterIInv, RouterTypeOK
  <2>8. ChainIsAdded' /\ ChainInOrder'
    BY <1>0, <2>6, InTheChain DEF RouterIInv, ChainIsAdded, ChainInOrder, Precedes
  <2>9. Vouched'
    BY <2>1, <2>4, <2>5, <2>6 DEF Vouched, OwnerOf, o
  <2> QED
    BY <2>7, <2>8, <2>9 DEF RouterIInv, VouchedSoFar
<1>3. CASE mail.type \notin Bypass /\ ~Validates(Current, mail.credential)
  <2>1. EndWith("error") /\ UNCHANGED <<members, rooms>>
    BY <1>3 DEF AuthInbound
  <2>2. "error" \in Replies
    BY DEF Replies
  <2> QED
    BY <2>1, <2>2, EndKeeps DEF RouterIInv, RouterTypeOK
<1> QED
  BY <1>1, <1>2, <1>3

\* What another middleware makes of a message is a message, and of the same type and
\* user unless the middleware may forge.
LEMMA RewritesAre ==
    ASSUME mail \in Mails, Current.does = "other", NEW m \in Rewrites
    PROVE  /\ m \in Mails
           /\ MayForge(Current) \/ (m.type = mail.type /\ m.user = mail.user)
<1>1. m \in Mails /\ \A f \in {"type", "user"} \ Current.writes : m[f] = mail[f]
  <2>1. /\ m \in [from : {mail.from}, type : MayBecome("type", Types),
                  room : MayBecome("room", Rooms \cup {None}),
                  credential : MayBecome("credential", Credentials),
                  user : MayBecome("user", Owners \cup {None})]
        /\ mail.from \in Peers /\ mail.type \in Types /\ mail.room \in Rooms \cup {None}
        /\ mail.credential \in Credentials /\ mail.user \in Owners \cup {None}
    BY DEF Rewrites, Mails
  <2>2. /\ mail["type"] = mail.type /\ mail["room"] = mail.room
        /\ mail["credential"] = mail.credential /\ mail["user"] = mail.user
    BY DEF Mails
  <2>3. /\ m.type \in Types /\ m.room \in Rooms \cup {None}
        /\ m.credential \in Credentials /\ m.user \in Owners \cup {None}
    BY <2>1, <2>2 DEF MayBecome
  <2>4. /\ "type" \notin Current.writes => m.type = mail.type
        /\ "user" \notin Current.writes => m.user = mail.user
    BY <2>1, <2>2 DEF MayBecome
  <2>5. m \in Mails /\ m["type"] = m.type /\ m["user"] = m.user
    BY <2>1, <2>3 DEF Mails
  <2> QED
    BY <2>2, <2>4, <2>5
<1>2. CASE MayForge(Current)
  BY <1>1, <1>2
<1>3. CASE ~MayForge(Current)
  <2>1. "type" \notin Current.writes /\ "user" \notin Current.writes
    BY <1>3 DEF MayForge
  <2>2. m["type"] = mail["type"] /\ m["user"] = mail["user"]
    BY <1>1, <2>1
  <2>3. m.type = mail.type /\ m.user = mail.user
    BY <1>1, <2>2 DEF Mails
  <2> QED
    BY <1>1, <2>3
<1> QED
  BY <1>2, <1>3

LEMMA OtherInboundKeeps ==
    ASSUME RouterIInv, OtherInbound
    PROVE  RouterIInv'
<1>0. InChain /\ Current.does = "other" /\ Current \notin Authenticators /\ mail \in Mails
  BY InTheChain DEF OtherInbound, Authenticators
<1>1. ASSUME NEW m \in Rewrites, PassesOn(m), UNCHANGED vouched
      PROVE  RouterIInv'
  BY <1>0, <1>1, RewritesAre, GoingOnKeeps
<1>2. ASSUME NEW w \in Rewrites, NEW r \in Rooms, PassesOn([w EXCEPT !.room = r]),
             UNCHANGED vouched
      PROVE  RouterIInv'
  <2> DEFINE m == [w EXCEPT !.room = r]
  <2>1. w \in Mails
    BY <1>0, RewritesAre
  <2>2. m \in Mails /\ m.type = w.type /\ m.user = w.user
    BY <2>1, MailIs DEF Mails
  <2> HIDE DEF m
  <2>3. PassesOn(m) /\ vouched' = vouched
    BY <1>2 DEF m
  <2>4. MayForge(Current) \/ (m.type = mail.type /\ m.user = mail.user)
    BY <1>0, <2>2, RewritesAre
  <2> QED
    BY <1>0, <2>2, <2>3, <2>4, GoingOnKeeps
<1>3. ASSUME NEW how \in {"halted", "error"}, EndWith(how), UNCHANGED <<members, rooms>>
      PROVE  RouterIInv'
  <2>1. how \in Replies
    BY DEF Replies
  <2> QED
    BY <1>3, <2>1, EndKeeps DEF RouterIInv, RouterTypeOK
<1> QED
  BY <1>1, <1>2, <1>3 DEF OtherInbound

LEMMA RoutingKeeps ==
    ASSUME RouterIInv,
           \/ RouteNothing \/ RouteSubscribe \/ RouteUnsubscribe \/ RoutePublish \/ RoutePing
           \/ RouteToHandler
    PROVE  RouterIInv'
<1>1. PICK how \in Replies : EndWith(how)
  BY DEF RouteNothing, RouteSubscribe, RouteUnsubscribe, RoutePublish, RoutePing,
         RouteToHandler, Replies
<1>2. Processed => mail \in Mails
  <2>1. chain \in Seq(Stock) /\ Len(chain) + 1 # 0
    BY DEF RouterIInv, RouterTypeOK
  <2> QED
    BY <2>1 DEF Processed, RouterIInv, RouterTypeOK
<1>3. members \in [Rooms -> SUBSET Peers] /\ rooms \subseteq Rooms
  BY DEF RouterIInv, RouterTypeOK
<1>4. members' \in [Rooms -> SUBSET Peers] /\ rooms' \subseteq Rooms
  <2>1. CASE RouteSubscribe
    <3>1. mail.room \in Rooms /\ mail.from \in Peers
      BY <1>2, <2>1, MailIs DEF RouteSubscribe
    <3>2. /\ members' = [members EXCEPT ![mail.room] = @ \cup {mail.from}]
          /\ rooms' = rooms \cup {mail.room}
      BY <2>1 DEF RouteSubscribe
    <3> QED
      BY <1>3, <3>1, <3>2
  <2>2. CASE RouteUnsubscribe
    <3>1. mail.room \in Rooms
      BY <1>2, <2>2, MailIs DEF RouteUnsubscribe
    <3>2. members' = [members EXCEPT ![mail.room] = @ \ {mail.from}] /\ rooms' = rooms
      BY <2>2 DEF RouteUnsubscribe
    <3> QED
      BY <1>3, <3>1, <3>2
  <2>3. CASE RouteNothing \/ RoutePublish \/ RoutePing \/ RouteToHandler
    BY <1>3, <2>3 DEF RouteNothing, RoutePublish, RoutePing, RouteToHandler
  <2> QED
    BY <2>1, <2>2, <2>3
<1> QED
  BY <1>1, <1>4, EndKeeps

LEMMA RouterStep == RouterIInv /\ [RouterNext]_<<routerVars, authVars>> => RouterIInv'
<1> SUFFICES ASSUME RouterIInv, [RouterNext]_<<routerVars, authVars>> PROVE RouterIInv'
  OBVIOUS
<1> QED
  BY AddKeeps, OutsideKeeps, ArriveKeeps, AuthInboundKeeps, OtherInboundKeeps, RoutingKeeps
     DEF RouterNext

\* The router keeps its types: a message is between two middlewares of the
\* chain or at its end, for any chain, tokens and keys (crates/mtw-router).
THEOREM RouterTypeCorrect == RouterSpec => []RouterTypeOK
<1>1. RouterIInv => RouterTypeOK
  BY DEF RouterIInv
<1> QED
  BY <1>1, RouterStart, RouterStep, PTL DEF RouterSpec

\* An authenticator that is to come after all that may forge does so in the chain:
\* of two middlewares, only one precedes the other.
LEMMA TheLastWordIsLast ==
    ASSUME RouterIInv, NEW k \in DOMAIN added, HasLastWord(added[k])
    PROVE  TrustedBefore(Len(chain) + 1)
<1>1. /\ chain \in Seq(Stock) /\ Len(chain) \in Nat /\ DOMAIN chain = 1..Len(chain)
      /\ added \in Seq(Stock) /\ Len(added) \in Nat /\ DOMAIN added = 1..Len(added)
      /\ (Len(chain) + 1) - 1 = Len(chain)
  BY DEF RouterIInv, RouterTypeOK
<1>2. PICK i \in 1..Len(chain) : chain[i] = added[k]
  BY <1>1 DEF RouterIInv, ChainIsAdded
<1>3. chain[i] \in Authenticators
  BY <1>2 DEF HasLastWord
<1>4. ASSUME NEW j \in (i + 1)..Len(chain), MayForge(chain[j])
      PROVE  FALSE
  <2>1. j \in 1..Len(chain) /\ i < j
    BY <1>1
  <2>2. chain[i] \in Stock /\ chain[j] \in Stock
    BY <1>1, <2>1, ElementOfSeq
  <2>3. chain[i].priority \in Nat /\ chain[j].priority \in Nat
    BY <2>2, RouterAssumption
  <2>4. PICK l \in DOMAIN added : added[l] = chain[j]
    BY <1>1, <2>1 DEF RouterIInv, ChainIsAdded
  <2>5. Precedes(chain[j], chain[i])
    BY <1>2, <1>4, <2>4 DEF HasLastWord
  <2>6. Precedes(chain[i], chain[j])
    BY <1>1, <2>1 DEF RouterIInv, ChainInOrder
  <2>7. /\ \E x, y \in DOMAIN added : x < y /\ added[x] = chain[j] /\ added[y] = chain[i]
        /\ \E x, y \in DOMAIN added : x < y /\ added[x] = chain[i] /\ added[y] = chain[j]
    BY <2>3, <2>5, <2>6 DEF Precedes
  <2>8. \A x, y \in DOMAIN added : added[x] = added[y] => x = y
    BY DEF RouterIInv, ChainIsAdded
  <2> QED
    BY <1>1, <2>7, <2>8
<1> QED
  BY <1>1, <1>3, <1>4 DEF TrustedBefore

\* RoutedAsVouched, for any chain, tokens, keys and messages, whatever users clients
\* claim to be and whatever the other middlewares write: what is done once the chain is
\* passed is done for the user whose credential was found good, if an authenticator is
\* to come after those that may forge; and the chain is in the documented order
\* (crates/mtw-router, crates/mtw-auth).
THEOREM OnlyVouchedIsRouted == RouterSpec => []RoutedAsVouched
<1>1. RouterIInv => RoutedAsVouched
  <2> SUFFICES ASSUME RouterIInv PROVE RoutedAsVouched
    OBVIOUS
  <2>1. Len(chain) + 1 # 0
    BY DEF RouterIInv, RouterTypeOK
  <2>2. ASSUME Processed, mail.type \notin Bypass,
               NEW k \in DOMAIN added, HasLastWord(added[k])
        PROVE  Vouched
    BY <2>1, <2>2, TheLastWordIsLast DEF RouterIInv, VouchedSoFar, Processed
  <2>3. ChainInOrder
    BY DEF RouterIInv
  <2> QED
    BY <2>2, <2>3 DEF RoutedAsVouched, ChainInOrder
<1> QED
  BY <1>1, RouterStart, RouterStep, PTL DEF RouterSpec

-----------------------------------------------------------------------------
(* DependencyResolver.  What is collected is needed, and closed when it is *)
(* sorted; an in-degree counts the needs that are not installed, and those *)
(* without any are installed or queued.                                    *)

\* Nothing is in s twice.
Once(s) == \A i, j \in DOMAIN s : i # j => s[i] # s[j]

\* Sequences as sets.
LEMMA HeadAndTail ==
    ASSUME NEW S, NEW q \in Seq(S), q # <<>>
    PROVE  /\ Head(q) \in S /\ Tail(q) \in Seq(S)
           /\ ToSet(q) = {Head(q)} \cup ToSet(Tail(q))
           /\ Once(q) => Once(Tail(q)) /\ Head(q) \notin ToSet(Tail(q))
<1> DEFINE n == Len(q)
           r == Tail(q)
<1>1. n \in Nat /\ n > 0 /\ DOMAIN q = 1..n
  OBVIOUS
<1>2. Head(q) \in S /\ Head(q) = q[1] /\ r \in Seq(S) /\ Len(r) = n - 1
  OBVIOUS
<1>3. DOMAIN r = 1..Len(r) /\ \A i \in 1..(n - 1) : r[i] = q[i + 1]
  OBVIOUS
<1> HIDE DEF n, r
<1>4. DOMAIN r = 1..(n - 1)
  BY <1>2, <1>3
<1>5. \A i \in DOMAIN r : i + 1 \in DOMAIN q /\ i + 1 # 1 /\ i \in Int /\ r[i] = q[i + 1]
  BY <1>1, <1>3, <1>4
<1>6. 1 \in DOMAIN q /\ \A i \in DOMAIN q : i # 1 => i - 1 \in DOMAIN r /\ q[i] = r[i - 1]
  <2>1. ASSUME NEW i \in 1..n, i # 1 PROVE i - 1 \in 1..(n - 1) /\ (i - 1) + 1 = i
    BY <1>1, <2>1
  <2>2. 1 \in 1..n
    BY <1>1
  <2> QED
    BY <1>1, <1>3, <1>4, <2>1, <2>2
<1>7. ToSet(q) = {Head(q)} \cup ToSet(r)
  <2>1. ToSet(q) \subseteq {Head(q)} \cup ToSet(r)
    BY <1>2, <1>6 DEF ToSet
  <2>2. {Head(q)} \cup ToSet(r) \subseteq ToSet(q)
    BY <1>2, <1>5, <1>6 DEF ToSet
  <2> QED
    BY <2>1, <2>2
<1>8. ASSUME Once(q) PROVE Once(r) /\ Head(q) \notin ToSet(r)
  <2>1. ASSUME NEW i \in DOMAIN r, NEW j \in DOMAIN r, i # j PROVE r[i] # r[j]
    <3>1. i + 1 # j + 1
      BY <1>5, <2>1
    <3> QED
      BY <1>5, <1>8, <3>1 DEF Once
  <2>2. \A i \in DOMAIN r : r[i] # q[1]
    BY <1>5, <1>6, <1>8 DEF Once
  <2> QED
    BY <1>2, <2>1, <2>2 DEF Once, ToSet
<1> QED
  BY <1>2, <1>7, <1>8 DEF r

LEMMA Joined ==
    ASSUME NEW S, NEW q \in Seq(S), NEW s \in Seq(S)
    PROVE  /\ q \o s \in Seq(S) /\ ToSet(q \o s) = ToSet(q) \cup ToSet(s)
           /\ Once(q) /\ Once(s) /\ ToSet(q) \cap ToSet(s) = {} => Once(q \o s)
<1> DEFINE a == Len(q)
           b == Len(s)
           t == q \o s
<1>1. a \in Nat /\ b \in Nat /\ DOMAIN q = 1..a /\ DOMAIN s = 1..b
  OBVIOUS
<1>2. /\ t \in Seq(S) /\ Len(t) = a + b
      /\ \A i \in 1..(a + b) : t[i] = IF i <= a THEN q[i] ELSE s[i - a]
  BY ConcatProperties, Zenon
<1> HIDE DEF a, b, t
<1>3. DOMAIN t = 1..(a + b)
  BY <1>2
<1>4. \A i \in DOMAIN q : i \in DOMAIN t /\ t[i] = q[i]
  BY <1>1, <1>2, <1>3
<1>5. \A i \in DOMAIN s : i \in Int /\ a + i \in DOMAIN t /\ t[a + i] = s[i]
  <2>1. ASSUME NEW i \in 1..b PROVE a + i \in 1..(a + b) /\ ~(a + i <= a) /\ (a + i) - a = i
    BY <1>1
  <2> QED
    BY <1>1, <1>2, <1>3, <2>1
<1>6. \A i \in DOMAIN t : \/ i \in DOMAIN q /\ t[i] = q[i]
                          \/ i - a \in DOMAIN s /\ t[i] = s[i - a] /\ i \in Int
  <2>1. ASSUME NEW i \in 1..(a + b) PROVE (i <= a /\ i \in 1..a) \/ (~(i <= a) /\ i - a \in 1..b)
    BY <1>1
  <2> QED
    BY <1>1, <1>2, <1>3, <2>1
<1>7. ToSet(t) = ToSet(q) \cup ToSet(s)
  <2>1. ToSet(t) \subseteq ToSet(q) \cup ToSet(s)
    BY <1>6 DEF ToSet
  <2>2. ToSet(q) \subseteq ToSet(t)
    BY <1>4 DEF ToSet
  <2>3. ToSet(s) \subseteq ToSet(t)
    BY <1>5 DEF ToSet
  <2> QED
    BY <2>1, <2>2, <2>3
<1>8. ASSUME Once(q), Once(s), ToSet(q) \cap ToSet(s) = {} PROVE Once(t)
  <2>1. \A i \in DOMAIN q, j \in DOMAIN s : q[i] # s[j]
    BY <1>8 DEF ToSet
  <2>2. ASSUME NEW i \in DOMAIN t, NEW j \in DOMAIN t, i # j PROVE t[i] # t[j]
    <3>1. CASE i \in DOMAIN q /\ j \in DOMAIN q
      BY <1>4, <1>8, <2>2, <3>1 DEF Once
    <3>2. CASE i \notin DOMAIN q /\ j \notin DOMAIN q
      <4>1. /\ i - a \in DOMAIN s /\ t[i] = s[i - a] /\ i \in Int
            /\ j - a \in DOMAIN s /\ t[j] = s[j - a] /\ j \in Int
        BY <1>6, <3>2
      <4>2. i - a # j - a
        BY <1>1, <2>2, <4>1
      <4> QED
        BY <1>8, <4>1, <4>2 DEF Once
    <3>3. CASE i \in DOMAIN q /\ j \notin DOMAIN q
      BY <1>4, <1>6, <2>1, <3>3
    <3>4. CASE i \notin DOMAIN q /\ j \in DOMAIN q
      BY <1>4, <1>6, <2>1, <3>4
    <3> QED
      BY <3>1, <3>2, <3>3, <3>4
  <2> QED
    BY <2>2 DEF Once
<1> QED
  BY <1>2, <1>7, <1>8 DEF t

\* A set in some order has all of it, each element once.
LEMMA OrderIs ==
    ASSUME NEW T, IsFiniteSet(T), NEW s \in SetToSeqs(T)
    PROVE  s \in Seq(T) /\ Once(s) /\ ToSet(s) = T
<1> DEFINE n == Cardinality(T)
<1>1. n \in Nat
  BY FS_CardinalityType
<1>2. s \in [1..n -> T] /\ \A i, j \in 1..n : i # j => s[i] # s[j]
  BY DEF SetToSeqs
<1> HIDE DEF n
<1>3. s \in Seq(T) /\ DOMAIN s = 1..n
  BY <1>1, <1>2
<1>4. Once(s)
  BY <1>2, <1>3 DEF Once
<1>5. ToSet(s) \subseteq T
  BY <1>2, <1>3 DEF ToSet
<1>6. ASSUME NEW y \in T, y \notin ToSet(s) PROVE FALSE
  <2>1. s \in [1..n -> T \ {y}]
    BY <1>2, <1>3, <1>6 DEF ToSet
  <2>2. IsFiniteSet(T \ {y}) /\ Cardinality(T \ {y}) = n - 1
    BY FS_RemoveElement DEF n
  <2>3. IsFiniteSet(1..n) /\ Cardinality(1..n) = n
    <3>1. 1 \in Int /\ n \in Int /\ ~(1 > n) => n - 1 + 1 = n
      BY <1>1
    <3>2. 1 > n => n = 0
      BY <1>1
    <3> QED
      BY <1>1, <3>1, <3>2, FS_Interval
  <2>4. Cardinality(T \ {y}) < Cardinality(1..n)
    BY <1>1, <2>2, <2>3
  <2>5. \E i, j \in 1..n : i # j /\ s[i] = s[j]
    BY <2>1, <2>2, <2>3, <2>4, FS_PigeonHole
  <2> QED
    BY <1>2, <2>5
<1> QED
  BY <1>3, <1>4, <1>5, <1>6

LEMMA Appended ==
    ASSUME NEW S, NEW q \in Seq(S), NEW e \in S
    PROVE  /\ Append(q, e) \in Seq(S) /\ Len(Append(q, e)) = Len(q) + 1 /\ Len(q) \in Nat
           /\ \A i \in 1..Len(q) : Append(q, e)[i] = q[i]
           /\ Append(q, e)[Len(q) + 1] = e
           /\ ToSet(Append(q, e)) = ToSet(q) \cup {e}
<1> DEFINE n == Len(q)
           a == Append(q, e)
<1>1. /\ n \in Nat /\ DOMAIN q = 1..n /\ a \in Seq(S) /\ Len(a) = n + 1
      /\ \A i \in 1..n : a[i] = q[i]
      /\ a[n + 1] = e
  OBVIOUS
<1> HIDE DEF n, a
<1>2. DOMAIN a = 1..(n + 1)
  BY <1>1
<1>3. /\ \A i \in 1..n : i \in 1..(n + 1)
      /\ \A i \in 1..(n + 1) : i \in 1..n \/ i = n + 1
      /\ n + 1 \in 1..(n + 1)
  BY <1>1
<1>4. ToSet(a) = ToSet(q) \cup {e}
  <2>1. ToSet(a) \subseteq ToSet(q) \cup {e}
    BY <1>1, <1>2, <1>3 DEF ToSet
  <2>2. ToSet(q) \cup {e} \subseteq ToSet(a)
    BY <1>1, <1>2, <1>3 DEF ToSet
  <2> QED
    BY <2>1, <2>2
<1> QED
  BY <1>1, <1>4 DEF n, a

GoodNeed(reg, need) ==
    need[1] \in DOMAIN reg /\ VersionMatches(reg[need[1]].version, need[2])

\* The needs of n that are not among those done.
WaitingFor(reg, done, n) == {need \in reg[n].needs : need[1] \notin done}

ClosedIn(reg, req, S) ==
    /\ ToSet(req) \subseteq S
    /\ \A m \in S \cap DOMAIN reg : \A need \in reg[m].needs : need[1] \in S

NeededIn(reg, req) == {m \in Names : \A S \in SUBSET Names : ClosedIn(reg, req, S) => m \in S}

Sorts == {"sorting", "ok", "circular"}

\* What is collected or is to be looked at is needed, and known.
OnlyNeeded ==
    /\ allDeps \cup ToSet(queue) \subseteq NeededIn(registry, required)
    /\ allDeps \cup ToSet(queue) \subseteq DOMAIN registry

\* Nothing is forgotten: what the collected modules need is collected or queued.
NoneForgotten ==
    step \in Sorts \cup {"collecting"} =>
       /\ ToSet(required) \subseteq allDeps \cup ToSet(queue)
       /\ \A m \in allDeps : \A need \in registry[m].needs :
             GoodNeed(registry, need) /\ need[1] \in allDeps \cup ToSet(queue)

\* In-degrees count the needs not yet installed; what has none is installed or queued.
DegreesCount ==
    step \in Sorts =>
       /\ ToSet(queue) \subseteq allDeps /\ Once(queue)
       /\ ToSet(installOrder) \cap ToSet(queue) = {}
       /\ \A n \in allDeps :
             /\ inDegree[n] = Cardinality(WaitingFor(registry, ToSet(installOrder), n))
             /\ inDegree[n] = 0 <=> n \in ToSet(installOrder) \cup ToSet(queue)

\* Each module once, after what it needs.
InOrder ==
    /\ step \notin Sorts => installOrder = <<>>
    /\ Cardinality(ToSet(installOrder)) = Len(installOrder)
    /\ \A i \in DOMAIN installOrder : \A need \in registry[installOrder[i]].needs :
          GoodNeed(registry, need) /\ \E j \in 1..(i - 1) : installOrder[j] = need[1]

Verdict(reg, req, at, order) ==
    LET needed == NeededIn(reg, req) IN
    /\ at = "ok" => ToSet(order) = needed /\ Len(order) = Cardinality(needed)
    /\ at = "circular" => \E S \in SUBSET needed :
                             S # {} /\ \A m \in S : \E need \in reg[m].needs : need[1] \in S
    /\ at = "not found" => ~(needed \subseteq DOMAIN reg)
    /\ at = "conflict" => \E m \in needed \cap DOMAIN reg :
                             \E need \in reg[m].needs : ~GoodNeed(reg, need)

ResolverIInv ==
    /\ ResolverTypeOK /\ OnlyNeeded /\ NoneForgotten /\ DegreesCount /\ InOrder
    /\ step = "required" => allDeps = {} /\ queue = <<>>
    /\ step \in {"ok", "circular"} => queue = <<>>
    /\ Verdict(registry, required, step, installOrder)

LEMMA RegistryIs ==
    ASSUME NEW reg \in Registries
    PROVE  /\ DOMAIN reg \subseteq Names
           /\ \A m \in DOMAIN reg : /\ IsFiniteSet(reg[m].needs)
                                    /\ \A need \in reg[m].needs : need[1] \in Names
<1>1. /\ DOMAIN reg \subseteq Names
      /\ \A m \in DOMAIN reg : /\ IsFiniteSet(reg[m].needs)
                               /\ reg[m].needs \subseteq Names \X Constraints
  BY ResolverAssumption
<1>2. \A need \in Names \X Constraints : need[1] \in Names
  OBVIOUS
<1> QED
  BY <1>1, <1>2

LEMMA NeededIs ==
    ASSUME NEW reg \in Registries, NEW req \in Seq(Names)
    PROVE  /\ NeededIn(reg, req) \subseteq Names /\ IsFiniteSet(NeededIn(reg, req))
           /\ ToSet(req) \subseteq NeededIn(reg, req)
           /\ \A m \in NeededIn(reg, req) \cap DOMAIN reg : \A need \in reg[m].needs :
                 need[1] \in NeededIn(reg, req)
           /\ \A S \in SUBSET Names : ClosedIn(reg, req, S) => NeededIn(reg, req) \subseteq S
<1>1. NeededIn(reg, req) \subseteq Names
  BY DEF NeededIn
<1>2. IsFiniteSet(NeededIn(reg, req))
  BY <1>1, ResolverAssumption, FS_Subset
<1>3. ToSet(req) \subseteq NeededIn(reg, req)
  <2>1. \A i \in DOMAIN req : req[i] \in Names
    BY ElementOfSeq
  <2>2. ToSet(req) \subseteq Names
    BY <2>1 DEF ToSet
  <2> QED
    BY <2>2 DEF NeededIn, ClosedIn
<1>4. ASSUME NEW m \in NeededIn(reg, req) \cap DOMAIN reg, NEW need \in reg[m].needs
      PROVE  need[1] \in NeededIn(reg, req)
  <2>1. need[1] \in Names
    BY RegistryIs
  <2>2. ASSUME NEW S \in SUBSET Names, ClosedIn(reg, req, S) PROVE need[1] \in S
    <3>1. m \in S
      BY <2>2 DEF NeededIn
    <3> QED
      BY <2>2, <3>1 DEF ClosedIn
  <2> QED
    BY <2>1, <2>2 DEF NeededIn
<1>5. \A S \in SUBSET Names : ClosedIn(reg, req, S) => NeededIn(reg, req) \subseteq S
  BY DEF NeededIn
<1> QED
  BY <1>1, <1>2, <1>3, <1>4, <1>5

LEMMA NothingIn == ToSet(<<>>) = {} /\ Once(<<>>) /\ Len(<<>>) = 0 /\ DOMAIN <<>> = {}
<1>1. Len(<<>>) = 0 /\ DOMAIN <<>> = {}
  OBVIOUS
<1> QED
  BY <1>1 DEF ToSet, Once

LEMMA ResolverStart ==
    ResolverInit /\ required \in Requests => ResolverIInv
<1> SUFFICES ASSUME ResolverInit, required \in Requests PROVE ResolverIInv
  OBVIOUS
<1>1. /\ registry \in Registries /\ step = "required" /\ allDeps = {} /\ queue = <<>>
      /\ inDegree = <<>> /\ installOrder = <<>>
  BY DEF ResolverInit
<1>2. required \in Seq(Names)
  <2>1. PICK n \in 0..MaxRequired : required \in [1..n -> Names]
    BY DEF Requests
  <2>2. n \in Nat
    BY ResolverAssumption
  <2> QED
    BY <2>1, <2>2
<1>3. ResolverTypeOK
  <2>1. <<>> \in Seq(Names) /\ <<>> \in Seq({})
    OBVIOUS
  <2> QED
    BY <1>1, <1>2, <2>1 DEF ResolverTypeOK
<1>4. OnlyNeeded /\ NoneForgotten /\ DegreesCount
  BY <1>1, NothingIn DEF OnlyNeeded, NoneForgotten, DegreesCount, Sorts
<1>5. InOrder
  BY <1>1, NothingIn, FS_EmptySet DEF InOrder
<1> QED
  BY <1>1, <1>3, <1>4, <1>5 DEF ResolverIInv, Verdict

LEMMA CheckKeeps ==
    ASSUME ResolverIInv, CheckRequired
    PROVE  ResolverIInv'
<1>1. /\ step = "required" /\ allDeps = {} /\ queue = <<>> /\ installOrder = <<>>
      /\ registry \in Registries /\ required \in Seq(Names)
  BY DEF CheckRequired, ResolverIInv, ResolverTypeOK, InOrder, Sorts
<1>2. UNCHANGED <<registry, required, allDeps, inDegree, installOrder>>
  BY DEF CheckRequired
<1>3. InOrder'
  BY <1>1, <1>2, NothingIn, FS_EmptySet DEF InOrder
<1>4. CASE ToSet(required) \subseteq Known
  <2>1. step' = "collecting" /\ queue' = required
    BY <1>4 DEF CheckRequired
  <2>2. ResolverTypeOK'
    BY <1>1, <1>2, <2>1 DEF ResolverIInv, ResolverTypeOK
  <2>3. OnlyNeeded' /\ NoneForgotten' /\ DegreesCount'
    BY <1>1, <1>2, <1>4, <2>1, NeededIs DEF OnlyNeeded, NoneForgotten, DegreesCount, Sorts, Known
  <2> QED
    BY <1>3, <2>1, <2>2, <2>3 DEF ResolverIInv, Verdict
<1>5. CASE ~(ToSet(required) \subseteq Known)
  <2>1. step' = "not found" /\ queue' = queue
    BY <1>5 DEF CheckRequired
  <2>2. ResolverTypeOK'
    BY <1>1, <1>2, <2>1 DEF ResolverIInv, ResolverTypeOK, Errors
  <2>3. OnlyNeeded' /\ NoneForgotten' /\ DegreesCount'
    BY <1>1, <1>2, <2>1, NothingIn DEF OnlyNeeded, NoneForgotten, DegreesCount, Sorts
  <2>4. ~(NeededIn(registry, required) \subseteq DOMAIN registry)
    BY <1>1, <1>5, NeededIs DEF Known
  <2> QED
    BY <1>2, <1>3, <2>1, <2>2, <2>3, <2>4 DEF ResolverIInv, Verdict
<1> QED
  BY <1>4, <1>5

\* A step that collects a module, or finds why it cannot be installed.
LEMMA VisitKeeps ==
    ASSUME ResolverIInv, Visit
    PROVE  ResolverIInv'
<1> DEFINE m == Head(queue)
<1>1. /\ step = "collecting" /\ queue # <<>> /\ installOrder = <<>>
      /\ registry \in Registries /\ required \in Seq(Names) /\ queue \in Seq(Names)
      /\ allDeps \subseteq Names
      /\ UNCHANGED <<registry, required, inDegree, installOrder>>
  BY DEF Visit, ResolverIInv, ResolverTypeOK, InOrder, Sorts
<1>2. /\ m \in Names /\ Tail(queue) \in Seq(Names)
      /\ ToSet(queue) = {m} \cup ToSet(Tail(queue))
  BY <1>1, HeadAndTail
<1>3. /\ allDeps \cup ToSet(queue) \subseteq NeededIn(registry, required)
      /\ allDeps \cup ToSet(queue) \subseteq DOMAIN registry
      /\ ToSet(required) \subseteq allDeps \cup ToSet(queue)
      /\ \A n \in allDeps : \A need \in registry[n].needs :
            GoodNeed(registry, need) /\ need[1] \in allDeps \cup ToSet(queue)
  BY <1>1 DEF ResolverIInv, OnlyNeeded, NoneForgotten
<1>4. InOrder'
  BY <1>1, NothingIn, FS_EmptySet DEF InOrder
<1>5. <<>> \in Seq(allDeps) /\ <<>> \in Seq(allDeps \cup {m})
  OBVIOUS
<1>6. CASE m \in allDeps
  <2>1. queue' = Tail(queue) /\ UNCHANGED <<step, allDeps>>
    BY <1>6 DEF Visit
  <2>2. ResolverTypeOK'
    BY <1>1, <1>2, <2>1 DEF ResolverIInv, ResolverTypeOK
  <2>3. allDeps' \cup ToSet(queue') = allDeps \cup ToSet(queue)
    BY <1>2, <1>6, <2>1
  <2>4. OnlyNeeded' /\ NoneForgotten' /\ DegreesCount'
    BY <1>1, <1>3, <2>1, <2>3 DEF OnlyNeeded, NoneForgotten, DegreesCount, Sorts
  <2> QED
    BY <1>1, <1>4, <2>1, <2>2, <2>4 DEF ResolverIInv, Verdict
<1>7. CASE m \notin allDeps /\ \A need \in Needs(m) : Met(need)
  <2> DEFINE names == {need[1] : need \in Needs(m)}
  <2>1. PICK s \in SetToSeqs(names) : queue' = Tail(queue) \o s
    BY <1>7 DEF Visit
  <2>2. allDeps' = allDeps \cup {m} /\ step' = step
    BY <1>7 DEF Visit
  <2>3. m \in DOMAIN registry /\ m \in NeededIn(registry, required)
    BY <1>2, <1>3
  <2>4. names \subseteq Names /\ names \subseteq NeededIn(registry, required)
    BY <1>1, <2>3, RegistryIs, NeededIs DEF Needs
  <2>5. names \subseteq DOMAIN registry /\ \A need \in registry[m].needs : GoodNeed(registry, need)
    BY <1>7 DEF Needs, Met, GoodNeed, Known
  <2>6. s \in Seq(names) /\ ToSet(s) = names
    <3>1. IsFiniteSet(names)
      BY <2>4, ResolverAssumption, FS_Subset
    <3> HIDE DEF names
    <3> QED
      BY <3>1, OrderIs
  <2>7. \A need \in registry[m].needs : need[1] \in names
    BY DEF Needs
  <2> HIDE DEF names
  <2>8. s \in Seq(Names)
    <3>1. \A i \in DOMAIN s : s[i] \in Names
      BY <2>4, <2>6, ElementOfSeq
    <3> QED
      BY <2>4, <2>6
  <2>9. queue' \in Seq(Names) /\ ToSet(queue') = ToSet(Tail(queue)) \cup names
    <3> DEFINE r == Tail(queue)
    <3>1. r \in Seq(Names)
      BY <1>2
    <3>2. queue' = r \o s
      BY <2>1
    <3> HIDE DEF r
    <3>3. r \o s \in Seq(Names) /\ ToSet(r \o s) = ToSet(r) \cup ToSet(s)
      BY <2>8, <3>1, Joined
    <3>4. queue' \in Seq(Names) /\ ToSet(queue') = ToSet(r) \cup names
      BY <2>6, <3>2, <3>3
    <3> QED
      BY <3>4 DEF r
  <2>10. ResolverTypeOK'
    BY <1>1, <1>2, <1>5, <2>2, <2>9 DEF ResolverIInv, ResolverTypeOK
  <2>11. allDeps' \cup ToSet(queue') = allDeps \cup ToSet(queue) \cup names
    BY <1>2, <2>2, <2>9
  <2>12. OnlyNeeded'
    BY <1>1, <1>3, <2>4, <2>5, <2>11 DEF OnlyNeeded
  <2>13. NoneForgotten'
    <3>1. ToSet(required') \subseteq allDeps' \cup ToSet(queue')
      BY <1>1, <1>3, <2>11
    <3>2. \A n \in allDeps' : \A need \in registry'[n].needs :
             GoodNeed(registry', need) /\ need[1] \in allDeps' \cup ToSet(queue')
      BY <1>1, <1>3, <2>2, <2>5, <2>7, <2>11
    <3> QED
      BY <3>1, <3>2 DEF NoneForgotten
  <2>14. DegreesCount'
    BY <1>1, <2>2 DEF DegreesCount, Sorts
  <2> QED
    BY <1>1, <1>4, <2>2, <2>10, <2>12, <2>13, <2>14 DEF ResolverIInv, Verdict
<1>8. CASE m \notin allDeps /\ ~(\A need \in Needs(m) : Met(need))
  <2>1. PICK need \in Needs(m) :
           ~Met(need) /\ step' = IF need[1] \in Known THEN "conflict" ELSE "not found"
    BY <1>8 DEF Visit
  <2>2. allDeps' = allDeps \cup {m} /\ queue' = queue
    BY <1>8 DEF Visit
  <2>3. m \in DOMAIN registry /\ m \in NeededIn(registry, required)
    BY <1>2, <1>3
  <2>4. ResolverTypeOK'
    BY <1>1, <1>2, <1>5, <2>1, <2>2 DEF ResolverIInv, ResolverTypeOK, Errors
  <2>5. OnlyNeeded' /\ NoneForgotten' /\ DegreesCount'
    BY <1>1, <1>2, <1>3, <2>1, <2>2 DEF OnlyNeeded, NoneForgotten, DegreesCount, Sorts
  <2>6. Verdict(registry, required, step', installOrder)
    <3>1. need[1] \notin DOMAIN registry => ~(NeededIn(registry, required) \subseteq DOMAIN registry)
      BY <1>1, <2>1, <2>3, NeededIs DEF Needs
    <3>2. need[1] \in DOMAIN registry => ~GoodNeed(registry, need)
      BY <2>1 DEF Met, GoodNeed, Known
    <3> QED
      BY <2>1, <2>3, <3>1, <3>2 DEF Verdict, Needs, Known
  <2>7. step' \notin {"required", "ok", "circular"}
    BY <2>1
  <2> QED
    BY <1>1, <1>4, <2>4, <2>5, <2>6, <2>7 DEF ResolverIInv
<1> QED
  BY <1>6, <1>7, <1>8

LEMMA SortedIs ==
    ASSUME NEW T \in SUBSET Names, NEW s \in Sorted(T)
    PROVE  s \in Seq(Names) /\ Once(s) /\ ToSet(s) = T
<1>1. IsFiniteSet(T)
  BY ResolverAssumption, FS_Subset
<1>2. s \in SetToSeqs(T)
  BY DEF Sorted
<1>3. s \in Seq(T) /\ Once(s) /\ ToSet(s) = T
  BY <1>1, <1>2, OrderIs
<1> QED
  BY <1>3

\* Of the modules that are sorted: what they need is among them.
LEMMA AllAreNeeded ==
    ASSUME ResolverIInv, step \in Sorts \/ (step = "collecting" /\ queue = <<>>)
    PROVE  /\ NeededIn(registry, required) = allDeps
           /\ allDeps \subseteq DOMAIN registry /\ IsFiniteSet(allDeps)
           /\ \A m \in allDeps : /\ IsFiniteSet(registry[m].needs)
                                 /\ \A need \in registry[m].needs :
                                       GoodNeed(registry, need) /\ need[1] \in allDeps
<1>1. /\ registry \in Registries /\ required \in Seq(Names) /\ allDeps \subseteq Names
      /\ allDeps \subseteq NeededIn(registry, required) /\ allDeps \subseteq DOMAIN registry
      /\ IsFiniteSet(allDeps)
  BY ResolverAssumption, FS_Subset DEF ResolverIInv, ResolverTypeOK, OnlyNeeded
<1>2. allDeps \cup ToSet(queue) = allDeps
  BY NothingIn DEF ResolverIInv, DegreesCount
<1>3. /\ ToSet(required) \subseteq allDeps
      /\ \A m \in allDeps : \A need \in registry[m].needs :
            GoodNeed(registry, need) /\ need[1] \in allDeps
  BY <1>2 DEF ResolverIInv, NoneForgotten
<1>4. ClosedIn(registry, required, allDeps)
  BY <1>3 DEF ClosedIn
<1>5. NeededIn(registry, required) \subseteq allDeps
  BY <1>1, <1>4, NeededIs
<1>6. \A m \in allDeps : IsFiniteSet(registry[m].needs)
  BY <1>1, RegistryIs
<1> QED
  BY <1>1, <1>3, <1>5, <1>6

LEMMA BeginSortKeeps ==
    ASSUME ResolverIInv, BeginSort
    PROVE  ResolverIInv'
<1> DEFINE Freed == {m \in allDeps : Degree(m) = 0}
<1>1. /\ step = "collecting" /\ queue = <<>> /\ installOrder = <<>> /\ step' = "sorting"
      /\ allDeps \subseteq Names
      /\ inDegree' = [m \in allDeps |-> Degree(m)] /\ queue' \in Sorted(Freed)
      /\ UNCHANGED <<registry, required, allDeps, installOrder>>
  BY DEF BeginSort, ResolverIInv, ResolverTypeOK, InOrder, Sorts
<1>2. /\ allDeps \subseteq DOMAIN registry
      /\ \A m \in allDeps : IsFiniteSet(registry[m].needs)
  BY <1>1, AllAreNeeded
<1>3. queue' \in Seq(Names) /\ Once(queue') /\ ToSet(queue') = Freed
  BY <1>1, SortedIs
<1>4. ASSUME NEW n \in allDeps
      PROVE  /\ inDegree'[n] \in Nat
             /\ inDegree'[n] = Cardinality(WaitingFor(registry, {}, n))
             /\ inDegree'[n] = 0 <=> n \in Freed
  <2>1. inDegree'[n] = Degree(n)
    BY <1>1
  <2>2. Degree(n) \in Nat
    BY <1>2, FS_CardinalityType DEF Degree, Needs
  <2>3. WaitingFor(registry, {}, n) = Needs(n)
    BY DEF WaitingFor, Needs
  <2> QED
    BY <2>1, <2>2, <2>3 DEF Degree
<1>5. Freed \subseteq allDeps
  OBVIOUS
<1>6. inDegree' \in [allDeps -> Nat]
  BY <1>1, <1>4
<1> HIDE DEF Freed
<1>7. ResolverTypeOK'
  BY <1>1, <1>3, <1>6 DEF ResolverIInv, ResolverTypeOK
<1>8. allDeps' \cup ToSet(queue') = allDeps \cup ToSet(queue)
  BY <1>1, <1>3, <1>5, NothingIn
<1>9. OnlyNeeded' /\ NoneForgotten'
  BY <1>1, <1>8 DEF ResolverIInv, OnlyNeeded, NoneForgotten, Sorts
<1>10. DegreesCount'
  BY <1>1, <1>3, <1>4, <1>5, NothingIn DEF DegreesCount
<1>11. InOrder'
  BY <1>1, NothingIn, FS_EmptySet DEF InOrder
<1> QED
  BY <1>1, <1>7, <1>9, <1>10, <1>11 DEF ResolverIInv, Verdict

\* The module in front is installed after all that it needs.
LEMMA InstallKeeps ==
    ASSUME ResolverIInv, Install
    PROVE  ResolverIInv'
<1> DEFINE m == Head(queue)
           done == ToSet(installOrder)
           Those(n) == {need \in Needs(n) : need[1] = m}
           Freed == {n \in allDeps : Edges(m, n) > 0 /\ inDegree[n] - Edges(m, n) = 0}
<1>1. /\ step = "sorting" /\ step' = "sorting" /\ queue # <<>>
      /\ queue \in Seq(Names) /\ allDeps \subseteq Names
      /\ installOrder \in Seq(allDeps) /\ inDegree \in [allDeps -> Nat]
      /\ installOrder' = Append(installOrder, m)
      /\ inDegree' = [n \in allDeps |-> inDegree[n] - Edges(m, n)]
      /\ \E s \in Sorted(Freed) : queue' = Tail(queue) \o s
      /\ UNCHANGED <<registry, required, allDeps>>
  BY DEF Install, ResolverIInv, ResolverTypeOK, Errors
<1>2. /\ ToSet(queue) \subseteq allDeps /\ Once(queue) /\ done \cap ToSet(queue) = {}
      /\ \A n \in allDeps : /\ inDegree[n] = Cardinality(WaitingFor(registry, done, n))
                            /\ inDegree[n] = 0 <=> n \in done \cup ToSet(queue)
  BY <1>1 DEF ResolverIInv, DegreesCount, Sorts
<1>3. /\ Tail(queue) \in Seq(Names) /\ ToSet(queue) = {m} \cup ToSet(Tail(queue))
      /\ Once(Tail(queue)) /\ m \notin ToSet(Tail(queue))
  BY <1>1, <1>2, HeadAndTail
<1>4. m \in allDeps /\ m \notin done /\ m \in ToSet(queue)
  BY <1>2, <1>3
<1>5. \A n \in allDeps : /\ IsFiniteSet(registry[n].needs)
                         /\ \A need \in registry[n].needs : GoodNeed(registry, need)
  BY <1>1, AllAreNeeded DEF Sorts
<1>6. PICK s \in Sorted(Freed) : queue' = Tail(queue) \o s
  BY <1>1
<1>7. Freed \subseteq allDeps
  OBVIOUS
<1>8. s \in Seq(Names) /\ Once(s) /\ ToSet(s) = Freed
  BY <1>1, <1>6, <1>7, SortedIs
\* An edge less for each need of the module that is installed.
<1>9. ASSUME NEW n \in allDeps
      PROVE  /\ inDegree'[n] = Cardinality(WaitingFor(registry, done \cup {m}, n))
             /\ inDegree'[n] = inDegree[n] - Edges(m, n)
             /\ Edges(m, n) \in Nat /\ inDegree'[n] \in Nat
             /\ Edges(m, n) = 0 <=> Those(n) = {}
             /\ Those(n) \subseteq WaitingFor(registry, done, n)
  <2>1. Edges(m, n) = Cardinality(Those(n))
    BY DEF Edges
  <2>2. Those(n) \subseteq WaitingFor(registry, done, n)
    BY <1>4 DEF WaitingFor, Needs
  <2>3. /\ IsFiniteSet(WaitingFor(registry, done, n)) /\ IsFiniteSet(Those(n))
        /\ Cardinality(Those(n)) \in Nat
    <3>1. IsFiniteSet(registry[n].needs)
      BY <1>5
    <3>2. /\ WaitingFor(registry, done, n) \in SUBSET registry[n].needs
          /\ Those(n) \in SUBSET registry[n].needs
      BY DEF WaitingFor, Needs
    <3> HIDE DEF Those
    <3> QED
      BY <3>1, <3>2, FS_Subset, FS_CardinalityType
  <2>4. /\ WaitingFor(registry, done \cup {m}, n) = WaitingFor(registry, done, n) \ Those(n)
        /\ WaitingFor(registry, done, n) \cap Those(n) = Those(n)
    <3>1. WaitingFor(registry, done \cup {m}, n) = WaitingFor(registry, done, n) \ Those(n)
      BY DEF WaitingFor, Needs
    <3> QED
      BY <2>2, <3>1
  <2> HIDE DEF Those, done, m
  <2>5. /\ IsFiniteSet(WaitingFor(registry, done \cup {m}, n))
        /\ Cardinality(WaitingFor(registry, done \cup {m}, n))
              = Cardinality(WaitingFor(registry, done, n)) - Cardinality(Those(n))
    BY <2>3, <2>4, FS_Difference
  <2>6. inDegree'[n] = inDegree[n] - Edges(m, n)
    BY <1>1
  <2>7. inDegree[n] = Cardinality(WaitingFor(registry, done, n))
    BY <1>2
  <2>8. Edges(m, n) = 0 <=> Those(n) = {}
    BY <2>1, <2>3, FS_EmptySet
  <2>9. Cardinality(WaitingFor(registry, done \cup {m}, n)) \in Nat
    BY <2>5, FS_CardinalityType
  <2> QED
    BY <2>1, <2>2, <2>3, <2>5, <2>6, <2>7, <2>8, <2>9
<1>10. inDegree' \in [allDeps -> Nat]
  BY <1>1, <1>9
\* Who waited for it alone was neither installed nor queued.
<1>11. Freed \cap (done \cup ToSet(queue)) = {}
  <2>1. SUFFICES ASSUME NEW n \in Freed PROVE n \notin done \cup ToSet(queue)
    OBVIOUS
  <2>2. n \in allDeps /\ Edges(m, n) > 0
    OBVIOUS
  <2>3. Those(n) # {}
    BY <1>9, <2>2
  <2>4. WaitingFor(registry, done, n) # {}
    BY <1>9, <2>2, <2>3
  <2>5. IsFiniteSet(WaitingFor(registry, done, n))
    <3>1. WaitingFor(registry, done, n) \in SUBSET registry[n].needs
      BY DEF WaitingFor
    <3> QED
      BY <1>5, <2>2, <3>1, FS_Subset
  <2>6. inDegree[n] # 0
    BY <1>2, <2>2, <2>4, <2>5, FS_EmptySet
  <2> QED
    BY <1>2, <2>2, <2>6
<1>12. /\ queue' \in Seq(Names) /\ Once(queue') /\ ToSet(queue') = ToSet(Tail(queue)) \cup Freed
  <2> DEFINE r == Tail(queue)
  <2>1. r \in Seq(Names) /\ Once(r) /\ ToSet(r) \cap ToSet(s) = {} /\ queue' = r \o s
    BY <1>3, <1>6, <1>8, <1>11
  <2> HIDE DEF r
  <2>2. r \o s \in Seq(Names) /\ ToSet(r \o s) = ToSet(r) \cup ToSet(s) /\ Once(r \o s)
    BY <1>8, <2>1, Joined
  <2>3. queue' \in Seq(Names) /\ Once(queue') /\ ToSet(queue') = ToSet(r) \cup Freed
    BY <1>8, <2>1, <2>2
  <2> QED
    BY <2>3 DEF r
<1>13. /\ installOrder' \in Seq(allDeps) /\ ToSet(installOrder') = done \cup {m}
       /\ Len(installOrder) \in Nat /\ Len(installOrder') = Len(installOrder) + 1
       /\ \A i \in 1..Len(installOrder) : installOrder'[i] = installOrder[i]
       /\ installOrder'[Len(installOrder) + 1] = m
  BY <1>1, <1>4, Appended
<1>14. ASSUME NEW n \in allDeps
       PROVE  inDegree'[n] = 0 <=> n \in (done \cup {m}) \cup ToSet(queue')
  <2>1. n \in (done \cup {m}) \cup ToSet(queue') <=> n \in done \cup ToSet(queue) \/ n \in Freed
    BY <1>3, <1>12
  <2>2. /\ inDegree[n] \in Nat /\ Edges(m, n) \in Nat
        /\ inDegree'[n] = inDegree[n] - Edges(m, n) /\ inDegree'[n] \in Nat
    BY <1>1, <1>9
  <2>3. n \in Freed <=> Edges(m, n) > 0 /\ inDegree'[n] = 0
    BY <2>2
  <2>4. n \in done \cup ToSet(queue) <=> inDegree[n] = 0
    BY <1>2
  <2> QED
    BY <2>1, <2>2, <2>3, <2>4
<1> HIDE DEF Freed, Those
<1>15. ResolverTypeOK'
  BY <1>1, <1>10, <1>12, <1>13 DEF ResolverIInv, ResolverTypeOK
<1>16. allDeps' \cup ToSet(queue') = allDeps \cup ToSet(queue) /\ ToSet(queue') \subseteq allDeps
  BY <1>1, <1>2, <1>3, <1>7, <1>12
<1>17. OnlyNeeded' /\ NoneForgotten'
  BY <1>1, <1>16 DEF ResolverIInv, OnlyNeeded, NoneForgotten, Sorts
<1>18. DegreesCount'
  <2>1. ToSet(installOrder') \cap ToSet(queue') = {}
    BY <1>2, <1>3, <1>4, <1>11, <1>12, <1>13
  <2>2. \A n \in allDeps :
           /\ inDegree'[n] = Cardinality(WaitingFor(registry, ToSet(installOrder'), n))
           /\ inDegree'[n] = 0 <=> n \in ToSet(installOrder') \cup ToSet(queue')
    BY <1>9, <1>13, <1>14
  <2> QED
    BY <1>1, <1>12, <1>16, <2>1, <2>2 DEF DegreesCount
<1>19. InOrder'
  <2>1. Cardinality(ToSet(installOrder')) = Len(installOrder')
    <3>1. done \subseteq allDeps
      <4>1. \A i \in DOMAIN installOrder : installOrder[i] \in allDeps
        BY <1>1, ElementOfSeq
      <4> QED
        BY <4>1 DEF ToSet
    <3>2. IsFiniteSet(done)
      BY <1>1, <3>1, AllAreNeeded, FS_Subset DEF Sorts
    <3>3. Cardinality(done) = Len(installOrder)
      BY DEF ResolverIInv, InOrder
    <3> HIDE DEF done, m
    <3>4. Cardinality(done \cup {m}) = Cardinality(done) + 1
      BY <1>4, <3>2, FS_AddElement
    <3> QED
      BY <1>13, <3>3, <3>4
  <2>2. ASSUME NEW i \in DOMAIN installOrder', NEW need \in registry[installOrder'[i]].needs
        PROVE  GoodNeed(registry, need) /\ \E j \in 1..(i - 1) : installOrder'[j] = need[1]
    <3>1. /\ DOMAIN installOrder' = 1..(Len(installOrder) + 1)
          /\ DOMAIN installOrder = 1..Len(installOrder)
      BY <1>1, <1>13
    <3>2. CASE i \in 1..Len(installOrder)
      <4>1. installOrder'[i] = installOrder[i] /\ i \in DOMAIN installOrder
        BY <1>13, <3>1, <3>2
      <4>2. PICK j \in 1..(i - 1) : installOrder[j] = need[1] /\ GoodNeed(registry, need)
        BY <2>2, <4>1 DEF ResolverIInv, InOrder
      <4>3. j \in 1..Len(installOrder)
        BY <1>13, <3>2
      <4> QED
        BY <1>13, <4>2, <4>3
    <3>3. CASE i = Len(installOrder) + 1
      <4>1. installOrder'[i] = m
        BY <1>13, <3>3
      <4>2. inDegree[m] = 0
        BY <1>2, <1>4
      <4>3. WaitingFor(registry, done, m) = {}
        <5>1. IsFiniteSet(WaitingFor(registry, done, m))
          <6>1. WaitingFor(registry, done, m) \in SUBSET registry[m].needs
            BY DEF WaitingFor
          <6> QED
            BY <1>4, <1>5, <6>1, FS_Subset
        <5> QED
          BY <1>2, <1>4, <4>2, <5>1, FS_EmptySet
      <4>4. need[1] \in done /\ GoodNeed(registry, need)
        BY <1>4, <1>5, <4>1, <4>3 DEF WaitingFor
      <4>5. PICK j \in DOMAIN installOrder : installOrder[j] = need[1]
        BY <4>4 DEF ToSet
      <4>6. j \in 1..(i - 1) /\ j \in 1..Len(installOrder)
        BY <1>13, <3>1, <3>3
      <4> QED
        BY <1>13, <4>4, <4>5, <4>6
    <3> QED
      BY <1>13, <3>1, <3>2, <3>3
  <2>3. step' \in Sorts
    BY <1>1 DEF Sorts
  <2> QED
    BY <1>1, <2>1, <2>2, <2>3 DEF InOrder
<1> QED
  BY <1>1, <1>15, <1>17, <1>18, <1>19 DEF ResolverIInv, Verdict

LEMMA EndSortKeeps ==
    ASSUME ResolverIInv, EndSort
    PROVE  ResolverIInv'
<1>1. /\ step = "sorting" /\ queue = <<>>
      /\ step' = IF Len(installOrder) = Cardinality(allDeps) THEN "ok" ELSE "circular"
      /\ UNCHANGED <<registry, required, allDeps, queue, inDegree, installOrder>>
      /\ inDegree \in [allDeps -> Nat] /\ installOrder \in Seq(allDeps)
  BY DEF EndSort, ResolverIInv, ResolverTypeOK, Errors
<1>2. /\ NeededIn(registry, required) = allDeps /\ IsFiniteSet(allDeps)
      /\ \A m \in allDeps : /\ IsFiniteSet(registry[m].needs)
                            /\ \A need \in registry[m].needs : need[1] \in allDeps
  BY <1>1, AllAreNeeded DEF Sorts
<1>3. ResolverTypeOK'
  <2>1. step' \in {"required", "collecting", "sorting", "ok"} \cup Errors
    <3>1. step' = "ok" \/ step' = "circular"
      BY <1>1
    <3> QED
      BY <3>1 DEF Errors
  <2>2. /\ registry' \in Registries /\ required' \in Seq(Names) /\ allDeps' \subseteq Names
        /\ queue' \in Seq(Names)
    BY <1>1 DEF ResolverIInv, ResolverTypeOK
  <2>3. inDegree' \in [allDeps' -> Nat] /\ installOrder' \in Seq(allDeps')
    BY <1>1
  <2> QED
    BY <2>1, <2>2, <2>3 DEF ResolverTypeOK
<1>4. OnlyNeeded' /\ NoneForgotten' /\ DegreesCount' /\ InOrder'
  BY <1>1 DEF ResolverIInv, OnlyNeeded, NoneForgotten, DegreesCount, InOrder, Sorts
<1> DEFINE done == ToSet(installOrder)
<1>5. done \subseteq allDeps /\ Cardinality(done) = Len(installOrder)
  <2>1. \A i \in DOMAIN installOrder : installOrder[i] \in allDeps
    BY <1>1, ElementOfSeq
  <2> QED
    BY <2>1 DEF ToSet, ResolverIInv, InOrder
<1>6. \A n \in allDeps :
         /\ inDegree[n] = Cardinality(WaitingFor(registry, done, n))
         /\ inDegree[n] = 0 <=> n \in done
  BY <1>1, NothingIn DEF ResolverIInv, DegreesCount, Sorts
<1> HIDE DEF done
<1>7. CASE Len(installOrder) = Cardinality(allDeps)
  <2>1. done = allDeps
    BY <1>2, <1>5, <1>7, FS_Subset
  <2> QED
    BY <1>1, <1>2, <1>3, <1>4, <1>7, <2>1 DEF ResolverIInv, Verdict, done
<1>8. CASE Len(installOrder) # Cardinality(allDeps)
  <2> DEFINE stuck == allDeps \ done
  <2>1. stuck # {}
    <3>1. stuck = {} => done = allDeps
      BY <1>5
    <3> QED
      BY <1>5, <1>8, <3>1
  <2>2. ASSUME NEW m \in stuck PROVE \E need \in registry[m].needs : need[1] \in stuck
    <3>1. Cardinality(WaitingFor(registry, done, m)) # 0
      BY <1>6
    <3>2. WaitingFor(registry, done, m) # {}
      BY <3>1, FS_EmptySet
    <3> QED
      BY <1>2, <3>2 DEF WaitingFor
  <2>3. stuck \in SUBSET NeededIn(registry, required)
    BY <1>2
  <2> HIDE DEF stuck
  <2>4. Verdict(registry, required, "circular", installOrder)
    BY <2>1, <2>2, <2>3 DEF Verdict
  <2> QED
    BY <1>1, <1>3, <1>4, <1>8, <2>4 DEF ResolverIInv
<1> QED
  BY <1>7, <1>8

LEMMA ResolverStep == ResolverIInv /\ [ResolverNext]_resolverVars => ResolverIInv'
<1> SUFFICES ASSUME ResolverIInv, [ResolverNext]_resolverVars PROVE ResolverIInv'
  OBVIOUS
<1>1. CASE UNCHANGED resolverVars
  <2>1. UNCHANGED <<registry, required, step, allDeps, queue, inDegree, installOrder>>
    BY <1>1 DEF resolverVars
  <2>2. ResolverTypeOK'
    BY <2>1 DEF ResolverIInv, ResolverTypeOK
  <2>3. OnlyNeeded' /\ NoneForgotten' /\ DegreesCount' /\ InOrder'
    BY <2>1 DEF ResolverIInv, OnlyNeeded, NoneForgotten, DegreesCount, InOrder
  <2> QED
    BY <2>1, <2>2, <2>3 DEF ResolverIInv
<1> QED
  BY <1>1, CheckKeeps, VisitKeeps, BeginSortKeeps, InstallKeeps, EndSortKeeps DEF ResolverNext

\* What the invariant says of the end is what resolve() is to return.
LEMMA ResolverIsRight == ResolverIInv => ResolvesOrTellsWhy
<1> SUFFICES ASSUME ResolverIInv PROVE ResolvesOrTellsWhy
  OBVIOUS
<1>1. Needed = NeededIn(registry, required)
  BY DEF Needed, NeededIn, Closed, ClosedIn, Needs, Known
<1>2. Verdict(registry, required, step, installOrder) /\ InOrder
  BY DEF ResolverIInv
<1>3. \A need : Met(need) <=> GoodNeed(registry, need)
  BY DEF Met, GoodNeed, Known
<1>4. DependenciesFirst
  BY <1>2, <1>3 DEF DependenciesFirst, InOrder, Needs
<1>5. step = "ok" => ToSet(installOrder) = Needed /\ Len(installOrder) = Cardinality(Needed)
  BY <1>1, <1>2 DEF Verdict
<1>6. step = "circular" => \E S \in SUBSET Needed : Circle(S)
  BY <1>1, <1>2 DEF Verdict, Circle, Needs
<1>7. step = "not found" => ~(Needed \subseteq Known)
  BY <1>1, <1>2 DEF Verdict, Known
<1>8. step = "conflict" => \E m \in Needed \cap Known : \E need \in Needs(m) : Bad(need)
  BY <1>1, <1>2, <1>3 DEF Verdict, Known, Needs, Bad
<1> QED
  BY <1>4, <1>5, <1>6, <1>7, <1>8 DEF ResolvesOrTellsWhy

LEMMA ResolverServed ==
    /\ Init => ResolverIInv
    /\ ResolverIInv /\ [Next]_vars => ResolverIInv'
<1>1. Requests # {}
  <2>1. <<>> \in [1..0 -> Names] /\ 0 \in 0..MaxRequired
    BY ResolverAssumption
  <2> QED
    BY <2>1 DEF Requests
<1>2. Init => ResolverInit /\ required \in Requests
  BY <1>1 DEF Init, Configurations, Some
<1>3. ASSUME ResolverIInv, [Next]_vars PROVE ResolverIInv'
  <2>1. CASE UNCHANGED keptVars
    BY <1>3, <2>1, ResolverStep DEF keptVars
  <2>2. CASE KeptNext
    BY <1>3, <2>2, ResolverStep DEF KeptNext
  <2>3. UNCHANGED keptVars \/ KeptNext
    BY <1>3 DEF Next, MarketNext, TalkNext, WebNext, HostNext, ClientNext, vars
  <2> QED
    BY <2>1, <2>2, <2>3
<1> QED
  BY <1>2, <1>3, ResolverStart

\* ResolvesOrTellsWhy, for any registries and names asked for: what is needed is
\* installed once, after what it needs itself, or there is a reason why not
\* (resolver.rs:57-160).
THEOREM EveryNeedIsMet == Spec => []ResolvesOrTellsWhy
<1> QED
  BY ResolverServed, ResolverIsRight, PTL DEF Spec

-----------------------------------------------------------------------------
(* The memory of a conversation.  A summary keeps the latest half, so the  *)
(* latest half of what was said is always at the end.                      *)

\* Nothing is kept of a conversation that has not begun, something of any other.
MemoryBegun == said = 0 <=> memory = <<>>

MemoryIInv == MemoryTypeOK /\ MemoryBegun /\ (prompted => said # 0) /\ RecentKept

\* The number of messages that are to be at the end.
Kept == IF said < maxMessages \div 2 THEN said ELSE maxMessages \div 2

LEMMA HalfIs ==
    ASSUME NEW m \in Nat
    PROVE  m \div 2 \in Nat /\ m \div 2 <= m /\ (m # 0 => (m \div 2) + 1 <= m)
OBVIOUS

LEMMA MemoryFacts ==
    ASSUME MemoryIInv
    PROVE  /\ maxMessages \in Nat /\ maxMessages \div 2 \in Nat /\ said \in Nat
           /\ memory \in Seq(0..MaxMessages) /\ Len(memory) \in Nat
           /\ Kept \in Nat /\ Kept <= said /\ Kept <= maxMessages \div 2 /\ Kept <= Len(memory)
           /\ \A i \in 1..Kept : memory[(Len(memory) - Kept) + i] = (said - Kept) + i
           /\ prompted /\ maxMessages # 0 => memory[1] = 1
<1>1. maxMessages \in Nat /\ said \in Nat /\ maxMessages \div 2 \in Nat
  BY MemoryAssumption, HalfIs DEF MemoryIInv, MemoryTypeOK
<1>2. Kept \in Nat /\ Kept <= said /\ Kept <= maxMessages \div 2
  BY <1>1 DEF Kept
<1>3. memory \in Seq(0..MaxMessages) /\ Len(memory) \in Nat
  BY DEF MemoryIInv, MemoryTypeOK
<1>4. /\ Len(memory) >= Kept
      /\ \A i \in 1..Kept : memory[Len(memory) - Kept + i] = said - Kept + i
      /\ prompted /\ maxMessages # 0 => memory[1] = 1
  BY DEF MemoryIInv, RecentKept, Kept
<1> QED
  BY <1>1, <1>2, <1>3, <1>4

LEMMA MemoryStart == MemoryInit => MemoryIInv
<1> SUFFICES ASSUME MemoryInit PROVE MemoryIInv
  OBVIOUS
<1>1. MemoryTypeOK
  <2>1. <<>> \in Seq(0..MaxMessages)
    OBVIOUS
  <2>2. 0 \in 0..MaxMessages /\ FALSE \in BOOLEAN
    BY MemoryAssumption
  <2> QED
    BY <2>1, <2>2 DEF MemoryInit, MemoryTypeOK
<1>2. Kept = 0
  BY MemoryAssumption, HalfIs DEF MemoryInit, Kept
<1>3. RecentKept
  BY <1>2 DEF MemoryInit, RecentKept, Kept
<1> QED
  BY <1>1, <1>3 DEF MemoryInit, MemoryIInv, MemoryBegun

LEMMA AddMessageKeeps ==
    ASSUME MemoryIInv, NEW system \in BOOLEAN, AddMessage(system)
    PROVE  MemoryIInv'
<1> DEFINE n == Kept
           len == Len(memory)
<1>1. /\ said < MaxMessages /\ (system => said = 0)
      /\ memory' = Append(memory, said + 1) /\ said' = said + 1
      /\ prompted' = (prompted \/ system) /\ maxMessages' = maxMessages
  BY DEF AddMessage
<1>2. /\ maxMessages \in Nat /\ maxMessages \div 2 \in Nat /\ said \in Nat
      /\ memory \in Seq(0..MaxMessages) /\ len \in Nat /\ n \in Nat
      /\ n <= said /\ n <= maxMessages \div 2 /\ n <= len
      /\ \A i \in 1..n : memory[(len - n) + i] = (said - n) + i
      /\ prompted /\ maxMessages # 0 => memory[1] = 1
  BY MemoryFacts
<1>3. said' \in 0..MaxMessages /\ said + 1 \in 0..MaxMessages
  BY <1>1, <1>2, MemoryAssumption
<1>4. /\ memory' \in Seq(0..MaxMessages) /\ Len(memory') = len + 1
      /\ \A i \in 1..len : memory'[i] = memory[i]
      /\ memory'[len + 1] = said + 1
  BY <1>1, <1>2, <1>3
<1>5. MemoryTypeOK'
  BY <1>1, <1>3, <1>4 DEF MemoryIInv, MemoryTypeOK
<1>6. MemoryBegun' /\ (prompted' => said' # 0)
  BY <1>1, <1>2, <1>4 DEF MemoryBegun
<1> DEFINE k == IF said' < maxMessages' \div 2 THEN said' ELSE maxMessages' \div 2
<1>7. k \in Nat /\ (k = n \/ k = n + 1) /\ k <= said + 1 /\ k <= len + 1
  BY <1>1, <1>2 DEF Kept
<1> HIDE DEF n, len
<1>8. ASSUME NEW i \in 1..k
      PROVE  memory'[((len + 1) - k) + i] = ((said + 1) - k) + i
  <2> HIDE DEF k
  <2>1. CASE i = k
    <3>1. ((len + 1) - k) + i = len + 1 /\ ((said + 1) - k) + i = said + 1
      BY <1>2, <1>7, <2>1
    <3> QED
      BY <1>4, <3>1
  <2>2. CASE i # k /\ k = n + 1
    <3>1. i \in 1..n /\ ((len + 1) - k) + i = (len - n) + i
          /\ ((said + 1) - k) + i = (said - n) + i /\ (len - n) + i \in 1..len
      BY <1>2, <1>7, <2>2
    <3> QED
      BY <1>2, <1>4, <3>1
  <2>3. CASE i # k /\ k = n
    <3>1. i + 1 \in 1..n /\ ((len + 1) - k) + i = (len - n) + (i + 1)
          /\ ((said + 1) - k) + i = (said - n) + (i + 1) /\ (len - n) + (i + 1) \in 1..len
      BY <1>2, <1>7, <2>3
    <3>2. memory[(len - n) + (i + 1)] = (said - n) + (i + 1)
      BY <1>2, <3>1
    <3> QED
      BY <1>4, <3>1, <3>2
  <2> QED
    BY <1>7, <2>1, <2>2, <2>3
<1>9. prompted' /\ maxMessages' # 0 => memory'[1] = 1
  <2>1. CASE system
    <3>1. said = 0 /\ len = 0
      BY <1>1, <1>2, <2>1 DEF MemoryIInv, MemoryBegun, len
    <3> QED
      BY <1>4, <3>1
  <2>2. CASE ~system /\ prompted
    <3>1. said # 0 /\ memory # <<>>
      BY <2>2 DEF MemoryIInv, MemoryBegun
    <3>2. 1 \in 1..len
      BY <1>2, <3>1 DEF len
    <3> QED
      BY <1>1, <1>2, <1>4, <2>2, <3>2
  <2> QED
    BY <1>1, <2>1, <2>2
<1>10. RecentKept'
  <2>1. Len(memory') >= k
    BY <1>4, <1>7
  <2>2. \A i \in 1..k : memory'[Len(memory') - k + i] = said' - k + i
    BY <1>1, <1>4, <1>8
  <2> QED
    BY <1>9, <2>1, <2>2 DEF RecentKept
<1> QED
  BY <1>5, <1>6, <1>10 DEF MemoryIInv

\* A summary takes the place of the older half; what is kept is the end.
LEMMA SummaryKeeps ==
    ASSUME MemoryIInv, SummarizeContext
    PROVE  MemoryIInv'
<1> DEFINE n == Kept
           len == Len(memory)
           keep == maxMessages \div 2
           recent == Recent(memory, keep)
<1>1. /\ len > maxMessages /\ UNCHANGED <<maxMessages, said, prompted>>
      /\ memory' = IF HasSystem /\ len > keep + 1
                   THEN <<memory[1], 0>> \o recent
                   ELSE <<0>> \o recent
  BY DEF SummarizeContext
<1>2. /\ maxMessages \in Nat /\ keep \in Nat /\ said \in Nat
      /\ memory \in Seq(0..MaxMessages) /\ len \in Nat /\ n \in Nat
      /\ n <= said /\ n <= keep /\ n <= len
      /\ \A i \in 1..n : memory[(len - n) + i] = (said - n) + i
      /\ prompted /\ maxMessages # 0 => memory[1] = 1
      /\ keep <= maxMessages /\ (maxMessages # 0 => keep + 1 <= maxMessages)
  BY MemoryFacts, HalfIs
<1> HIDE DEF n, len, keep
<1>3. /\ recent \in Seq(0..MaxMessages) /\ Len(recent) = keep
      /\ \A i \in 1..keep : recent[i] = memory[(len - keep) + i]
  <2>1. len > keep
    BY <1>1, <1>2
  <2>2. recent = SubSeq(memory, len - keep + 1, len)
    BY <1>2, <2>1 DEF Recent, len
  <2>3. /\ len - keep + 1 \in Int /\ len \in Int
        /\ \A i \in (len - keep + 1)..len : i \in 1..Len(memory)
    BY <1>2, <2>1 DEF len
  <2>4. \A i \in (len - keep + 1)..len : memory[i] \in 0..MaxMessages
    BY <1>2, <2>3, ElementOfSeq
  <2>5. /\ recent \in Seq(0..MaxMessages)
        /\ Len(recent) = IF len - keep + 1 <= len THEN len - (len - keep + 1) + 1 ELSE 0
        /\ \A i \in 1..(len - (len - keep + 1) + 1) :
              recent[i] = memory[(len - keep + 1) + i - 1]
    BY <2>2, <2>3, <2>4, SubSeqProperties
  <2> HIDE DEF recent
  <2>6. Len(recent) = keep
    BY <1>2, <2>1, <2>5
  <2>7. ASSUME NEW i \in 1..keep PROVE recent[i] = memory[(len - keep) + i]
    <3>1. i \in 1..(len - (len - keep + 1) + 1) /\ (len - keep + 1) + i - 1 = (len - keep) + i
      BY <1>2
    <3> QED
      BY <2>5, <3>1
  <2> QED
    BY <2>5, <2>6, <2>7
<1> HIDE DEF recent
\* What stands before the kept ones.
<1>4. \E front \in Seq(0..MaxMessages) :
         /\ memory' = front \o recent /\ Len(front) > 0
         /\ prompted /\ maxMessages # 0 => front[1] = 1
  <2>1. 0 \in 0..MaxMessages
    BY MemoryAssumption
  <2>2. CASE HasSystem /\ len > keep + 1
    <3>1. memory[1] \in 0..MaxMessages
      <4>1. 1 \in 1..Len(memory)
        BY <1>1, <1>2 DEF len
      <4> QED
        BY <1>2, <4>1, ElementOfSeq
    <3> DEFINE front == <<memory[1], 0>>
    <3>2. front \in Seq(0..MaxMessages) /\ Len(front) > 0 /\ front[1] = memory[1]
      BY <2>1, <3>1
    <3>3. memory' = front \o recent
      BY <1>1, <2>2
    <3> HIDE DEF front
    <3>4. prompted /\ maxMessages # 0 => front[1] = 1
      BY <1>2, <3>2
    <3> QED
      BY <3>2, <3>3, <3>4
  <2>3. CASE ~(HasSystem /\ len > keep + 1)
    <3> DEFINE front == <<0>>
    <3>1. front \in Seq(0..MaxMessages) /\ Len(front) > 0
      BY <2>1
    <3>2. memory' = front \o recent
      BY <1>1, <2>3
    <3> HIDE DEF front
    <3>3. ~(prompted /\ maxMessages # 0)
      <4>1. SUFFICES ASSUME prompted, maxMessages # 0 PROVE FALSE
        OBVIOUS
      <4>2. len > keep + 1 /\ len # 0
        BY <1>1, <1>2, <4>1
      <4>3. memory # <<>> /\ memory[1] = 1
        BY <1>2, <4>1, <4>2 DEF len
      <4>4. HasSystem
        BY <4>1, <4>3 DEF HasSystem
      <4> QED
        BY <2>3, <4>2, <4>4
    <3> QED
      BY <3>1, <3>2, <3>3
  <2> QED
    BY <2>2, <2>3
<1>5. PICK front \in Seq(0..MaxMessages) :
         /\ memory' = front \o recent /\ Len(front) > 0
         /\ prompted /\ maxMessages # 0 => front[1] = 1
  BY <1>4
<1> DEFINE f == Len(front)
<1>6. /\ f \in Nat /\ f > 0
      /\ memory' \in Seq(0..MaxMessages) /\ Len(memory') = f + keep
      /\ \A i \in 1..(f + keep) : memory'[i] = IF i <= f THEN front[i] ELSE recent[i - f]
  <2>1. /\ front \o recent \in Seq(0..MaxMessages)
        /\ Len(front \o recent) = Len(front) + Len(recent)
        /\ \A i \in 1..(Len(front) + Len(recent)) :
              (front \o recent)[i] = IF i <= Len(front) THEN front[i] ELSE recent[i - Len(front)]
    BY <1>3, ConcatProperties, Zenon
  <2>2. Len(front) \in Nat /\ Len(recent) = keep /\ Len(front) > 0
    BY <1>3, <1>5
  <2> QED
    BY <1>5, <2>1, <2>2
<1> HIDE DEF f
<1>7. MemoryTypeOK'
  BY <1>1, <1>6 DEF MemoryIInv, MemoryTypeOK
<1>8. memory # <<>> /\ memory' # <<>>
  <2>1. Len(memory) # 0 /\ Len(memory') # 0
    BY <1>1, <1>2, <1>6 DEF len
  <2> QED
    BY <2>1
<1>9. MemoryBegun' /\ (prompted' => said' # 0)
  BY <1>1, <1>8 DEF MemoryIInv, MemoryBegun
<1>10. ASSUME NEW i \in 1..n
       PROVE  memory'[((f + keep) - n) + i] = (said - n) + i
  <2>1. /\ ((f + keep) - n) + i \in 1..(f + keep) /\ ~(((f + keep) - n) + i <= f)
        /\ (((f + keep) - n) + i) - f = (keep - n) + i
        /\ (keep - n) + i \in 1..keep
        /\ (len - keep) + ((keep - n) + i) = (len - n) + i
    BY <1>2, <1>6
  <2>2. memory'[((f + keep) - n) + i] = recent[(keep - n) + i]
    BY <1>6, <2>1
  <2>3. recent[(keep - n) + i] = memory[(len - n) + i]
    BY <1>3, <2>1
  <2> QED
    BY <1>2, <2>2, <2>3
<1>11. prompted' /\ maxMessages' # 0 => memory'[1] = 1
  <2>1. 1 \in 1..(f + keep) /\ 1 <= f
    BY <1>2, <1>6
  <2> QED
    BY <1>1, <1>5, <1>6, <2>1
<1>12. RecentKept'
  <2>1. Len(memory') >= n
    BY <1>2, <1>6
  <2>2. \A i \in 1..n : memory'[Len(memory') - n + i] = said - n + i
    BY <1>6, <1>10
  <2>3. n = IF said < keep THEN said ELSE keep
    BY DEF n, Kept, keep
  <2> QED
    BY <1>1, <1>11, <2>1, <2>2, <2>3 DEF RecentKept, keep
<1> QED
  BY <1>7, <1>9, <1>12 DEF MemoryIInv

LEMMA MemoryStep == MemoryIInv /\ [MemoryNext]_memoryVars => MemoryIInv'
<1> SUFFICES ASSUME MemoryIInv, [MemoryNext]_memoryVars PROVE MemoryIInv'
  OBVIOUS
<1>1. CASE ClearMemory
  <2>1. /\ memory' = <<>> /\ said' = 0 /\ prompted' = FALSE /\ maxMessages' = maxMessages
    BY <1>1 DEF ClearMemory
  <2>2. maxMessages' \in Nat /\ maxMessages' \div 2 \in Nat
    BY <2>1, MemoryFacts
  <2>3. MemoryTypeOK'
    <3>1. <<>> \in Seq(0..MaxMessages)
      OBVIOUS
    <3>2. 0 \in 0..MaxMessages /\ FALSE \in BOOLEAN
      BY MemoryAssumption
    <3> QED
      BY <2>1, <3>1, <3>2 DEF MemoryIInv, MemoryTypeOK
  <2>4. RecentKept'
    <3> DEFINE half == maxMessages' \div 2
    <3>1. half \in Nat
      BY <2>2
    <3> HIDE DEF half
    <3>2. (IF 0 < half THEN 0 ELSE half) = 0 /\ Len(<<>>) = 0
      BY <3>1
    <3> QED
      BY <2>1, <3>2 DEF RecentKept, half
  <2> QED
    BY <2>1, <2>3, <2>4 DEF MemoryIInv, MemoryBegun
<1>2. CASE UNCHANGED memoryVars
  BY <1>2 DEF memoryVars, MemoryIInv, MemoryTypeOK, MemoryBegun, RecentKept
<1> QED
  BY <1>1, <1>2, AddMessageKeeps, SummaryKeeps DEF MemoryNext

-----------------------------------------------------------------------------
(* AgentOrchestrator.  Of the agents in the order of the map, those that   *)
(* are still to come in this lap have been given one task less than those  *)
(* whose turn was; and an answer went through what its task has left       *)
(* behind.                                                                 *)

\* p has its turn no later than q, when the first cur agents have had theirs.
TurnBefore(p, q, cur) ==
    \/ p <= q /\ (q <= cur \/ p > cur)
    \/ p > cur /\ q <= cur

Laps ==
    strategy = "RoundRobin" =>
       \A p, q \in 1..Len(agents) :
          /\ turns[agents[p]] <= turns[agents[q]] + 1
          /\ TurnBefore(p, q, index % Len(agents)) => turns[agents[p]] <= turns[agents[q]]

\* An answer went through the first agents of the pipeline, the others are to come.
ThroughPipeline(gone, rest) ==
    /\ Len(gone) + Len(rest) = Len(Pipeline)
    /\ \A i \in 1..Len(gone) : gone[i] = Pipeline[i]
    /\ \A i \in 1..Len(rest) : rest[i] = Pipeline[Len(gone) + i]

\* A task of a fan-out has left its agents behind, one each, or is to go to them.
OnceEach(gone, rest) ==
    /\ Once(gone) /\ Once(rest)
    /\ \A i \in DOMAIN gone, j \in DOMAIN rest : gone[i] # rest[j]

TaskIsRight(by, gone, rest, end) ==
    /\ end = "no" => /\ rest # <<>>
                     /\ by = "Pipeline" => ThroughPipeline(gone, rest)
                     /\ by = "FanOut" => OnceEach(gone, rest)
    /\ end = "Ok" /\ gone # <<>> => /\ by = "Pipeline" => gone = Pipeline
                                    /\ by = "FanOut" => Once(gone)

AgentsIInv ==
    /\ AgentsTypeOK /\ index <= routes
    /\ Once(agents) /\ Laps
    /\ \A c \in Askers : TaskIsRight(strategy, trail[c], todo[c], ended[c])

LEMMA DivIs ==
    ASSUME NEW i \in Nat, NEW n \in Nat \ {0}
    PROVE  i = (n * (i \div n)) + (i % n)
OBVIOUS

LEMMA ModIs ==
    ASSUME NEW i \in Nat, NEW n \in Nat, n > 0, NEW q \in Int, NEW r \in Int,
           i = n * q + r, 0 <= r, r < n
    PROVE  r = i % n
OBVIOUS

\* What comes after i in turn, around a lap of n.
LEMMA NextInLap ==
    ASSUME NEW i \in Nat, NEW n \in Nat, n > 0
    PROVE  /\ i % n \in 0..(n - 1)
           /\ (i + 1) % n = IF (i % n) + 1 = n THEN 0 ELSE (i % n) + 1
<1> DEFINE q == i \div n
           r == i % n
<1>2. q \in Int /\ r \in 0..(n - 1) /\ i = (n * q) + r
  BY DivIs
<1>3. CASE r + 1 = n
  <2>1. q + 1 \in Int /\ n * (q + 1) = n * q + n
    BY <1>2
  <2>2. i + 1 = n * (q + 1) + 0
    <3> HIDE DEF q, r
    <3>1. n * q \in Int
      BY <1>2
    <3> QED
      BY <1>2, <1>3, <2>1, <3>1
  <2> HIDE DEF q, r
  <2>3. 0 = (i + 1) % n
    BY <2>1, <2>2, ModIs
  <2> QED
    BY <1>2, <1>3, <2>3 DEF r
<1>4. CASE r + 1 # n
  <2> HIDE DEF q, r
  <2>1. i + 1 = n * q + (r + 1) /\ r + 1 \in Int /\ 0 <= r + 1 /\ r + 1 < n
    <3>1. n * q \in Int
      BY <1>2
    <3> QED
      BY <1>2, <1>4, <3>1
  <2>2. r + 1 = (i + 1) % n
    BY <1>2, <2>1, ModIs
  <2> QED
    BY <1>2, <1>4, <2>2 DEF r
<1> QED
  BY <1>3, <1>4

LEMMA FirstAndRest ==
    ASSUME NEW gone \in Seq(AgentNames), NEW rest \in Seq(AgentNames), rest # <<>>
    PROVE  /\ Len(rest) \in Nat /\ Len(rest) > 0 /\ Len(gone) \in Nat
           /\ Head(rest) \in AgentNames /\ Head(rest) = rest[1]
           /\ Tail(rest) \in Seq(AgentNames) /\ Len(Tail(rest)) = Len(rest) - 1
           /\ \A i \in 1..(Len(rest) - 1) : Tail(rest)[i] = rest[i + 1]
           /\ Append(gone, Head(rest)) \in Seq(AgentNames)
           /\ Len(Append(gone, Head(rest))) = Len(gone) + 1
           /\ \A i \in 1..Len(gone) : Append(gone, Head(rest))[i] = gone[i]
           /\ Append(gone, Head(rest))[Len(gone) + 1] = rest[1]
           /\ DOMAIN rest = 1..Len(rest) /\ DOMAIN gone = 1..Len(gone)
<1>1. Len(rest) \in Nat /\ Len(rest) > 0 /\ Len(gone) \in Nat
  OBVIOUS
<1>2. Head(rest) \in AgentNames /\ Head(rest) = rest[1]
  OBVIOUS
<1>3. /\ Tail(rest) \in Seq(AgentNames) /\ Len(Tail(rest)) = Len(rest) - 1
      /\ \A i \in 1..(Len(rest) - 1) : Tail(rest)[i] = rest[i + 1]
  OBVIOUS
<1>4. \A e \in AgentNames :
         /\ Append(gone, e) \in Seq(AgentNames)
         /\ Len(Append(gone, e)) = Len(gone) + 1
         /\ \A i \in 1..Len(gone) : Append(gone, e)[i] = gone[i]
         /\ Append(gone, e)[Len(gone) + 1] = e
  OBVIOUS
<1> QED
  BY <1>1, <1>2, <1>3, <1>4

\* A task stays right when its next agent answers it ...
LEMMA AnswerMovesOn ==
    ASSUME NEW by, NEW gone \in Seq(AgentNames), NEW rest \in Seq(AgentNames),
           TaskIsRight(by, gone, rest, "no")
    PROVE  TaskIsRight(by, Append(gone, Head(rest)), Tail(rest),
                       IF Len(rest) = 1 THEN "Ok" ELSE "no")
<1> DEFINE gone2 == Append(gone, Head(rest))
           rest2 == Tail(rest)
<1>1. rest # <<>>
  BY DEF TaskIsRight
<1>2. /\ Len(rest) \in Nat /\ Len(rest) > 0 /\ Len(gone) \in Nat
      /\ rest2 \in Seq(AgentNames) /\ Len(rest2) = Len(rest) - 1
      /\ \A i \in 1..(Len(rest) - 1) : rest2[i] = rest[i + 1]
      /\ gone2 \in Seq(AgentNames) /\ Len(gone2) = Len(gone) + 1
      /\ \A i \in 1..Len(gone) : gone2[i] = gone[i]
      /\ gone2[Len(gone) + 1] = rest[1]
      /\ DOMAIN rest = 1..Len(rest) /\ DOMAIN gone = 1..Len(gone)
  BY <1>1, FirstAndRest
<1> HIDE DEF gone2, rest2
<1>3. DOMAIN gone2 = 1..Len(gone2) /\ DOMAIN rest2 = 1..Len(rest2)
  BY <1>2
<1>4. by = "Pipeline" => ThroughPipeline(gone2, rest2)
  <2> SUFFICES ASSUME ThroughPipeline(gone, rest) PROVE ThroughPipeline(gone2, rest2)
    BY DEF TaskIsRight
  <2>1. Len(gone2) + Len(rest2) = Len(Pipeline)
    <3>1. /\ Len(gone) \in Nat /\ Len(rest) \in Nat
          /\ Len(gone2) = Len(gone) + 1 /\ Len(rest2) = Len(rest) - 1
      BY <1>2
    <3>2. Len(gone) + Len(rest) = Len(Pipeline)
      BY DEF ThroughPipeline
    <3>3. Len(gone2) + Len(rest2) = Len(gone) + Len(rest)
      BY <3>1
    <3> QED
      BY <3>2, <3>3
  <2>2. ASSUME NEW i \in 1..Len(gone2) PROVE gone2[i] = Pipeline[i]
    <3>1. CASE i \in 1..Len(gone)
      BY <1>2, <3>1 DEF ThroughPipeline
    <3>2. CASE i = Len(gone) + 1
      <4>1. 1 \in 1..Len(rest)
        BY <1>2
      <4> QED
        BY <1>2, <3>2, <4>1 DEF ThroughPipeline
    <3> QED
      BY <1>2, <3>1, <3>2
  <2>3. ASSUME NEW i \in 1..Len(rest2) PROVE rest2[i] = Pipeline[Len(gone2) + i]
    <3>1. i + 1 \in 1..Len(rest) /\ i \in 1..(Len(rest) - 1) /\ Len(gone) + (i + 1) = Len(gone2) + i
      BY <1>2
    <3>2. rest[i + 1] = Pipeline[Len(gone) + (i + 1)]
      BY <3>1 DEF ThroughPipeline
    <3> QED
      BY <1>2, <3>1, <3>2
  <2> QED
    BY <2>1, <2>2, <2>3 DEF ThroughPipeline
<1>5. by = "FanOut" => OnceEach(gone2, rest2)
  <2> SUFFICES ASSUME OnceEach(gone, rest) PROVE OnceEach(gone2, rest2)
    BY DEF TaskIsRight
  <2>1. \A i, j \in 1..Len(rest) : i # j => rest[i] # rest[j]
    BY <1>2 DEF OnceEach, Once
  <2>2. /\ \A i, j \in 1..Len(gone) : i # j => gone[i] # gone[j]
        /\ \A i \in 1..Len(gone), j \in 1..Len(rest) : gone[i] # rest[j]
    BY <1>2 DEF OnceEach, Once
  <2>3. 1 \in 1..Len(rest)
    BY <1>2
  <2>4. \A i \in 1..Len(rest2) : i + 1 \in 1..Len(rest) /\ i + 1 # 1 /\ rest2[i] = rest[i + 1]
    BY <1>2
  <2>5. \A i \in 1..Len(gone2) : \/ i \in 1..Len(gone) /\ gone2[i] = gone[i]
                                 \/ i = Len(gone) + 1 /\ gone2[i] = rest[1]
    BY <1>2
  <2>6. Once(gone2)
    BY <1>3, <2>2, <2>3, <2>5 DEF Once
  <2>7. Once(rest2)
    <3>1. ASSUME NEW i \in 1..Len(rest2), NEW j \in 1..Len(rest2), i # j
          PROVE  rest2[i] # rest2[j]
      <4>1. i + 1 # j + 1
        BY <3>1
      <4> QED
        BY <2>1, <2>4, <4>1
    <3> QED
      BY <1>3, <3>1 DEF Once
  <2>8. \A i \in 1..Len(gone2), j \in 1..Len(rest2) : gone2[i] # rest2[j]
    BY <2>1, <2>2, <2>3, <2>4, <2>5
  <2> QED
    BY <1>3, <2>6, <2>7, <2>8 DEF OnceEach
<1>6. CASE Len(rest) = 1
  <2>1. Len(rest2) = 0
    BY <1>2, <1>6
  <2>2. by = "Pipeline" => gone2 = Pipeline
    <3> SUFFICES ASSUME ThroughPipeline(gone2, rest2) PROVE gone2 = Pipeline
      BY <1>4
    <3>1. Pipeline \in Seq(AgentNames)
      BY AgentsAssumption
    <3>2. Len(gone2) \in Nat
      BY <1>2
    <3>3. Len(gone2) + Len(rest2) = Len(Pipeline)
      BY DEF ThroughPipeline
    <3>4. Len(gone2) = Len(Pipeline)
      BY <2>1, <3>2, <3>3
    <3>5. \A i \in 1..Len(gone2) : gone2[i] = Pipeline[i]
      BY DEF ThroughPipeline
    <3> QED
      BY <1>2, <3>1, <3>4, <3>5, SeqEqual
  <2>3. by = "FanOut" => Once(gone2)
    BY <1>5 DEF OnceEach
  <2>4. TaskIsRight(by, gone2, rest2, "Ok")
    BY <2>2, <2>3 DEF TaskIsRight
  <2> QED
    BY <1>6, <2>4 DEF gone2, rest2
<1>7. CASE Len(rest) # 1
  <2>1. rest2 # <<>>
    <3>1. Len(rest2) # 0
      BY <1>2, <1>7
    <3> QED
      BY <3>1
  <2>2. TaskIsRight(by, gone2, rest2, "no")
    BY <1>4, <1>5, <2>1 DEF TaskIsRight
  <2> QED
    BY <1>7, <2>2 DEF gone2, rest2
<1> QED
  BY <1>6, <1>7

\* ... and when a fan-out goes on without the answer of one.
LEMMA SkipMovesOn ==
    ASSUME NEW gone \in Seq(AgentNames), NEW rest \in Seq(AgentNames),
           TaskIsRight("FanOut", gone, rest, "no")
    PROVE  TaskIsRight("FanOut", gone, Tail(rest), IF Len(rest) = 1 THEN "Ok" ELSE "no")
<1> DEFINE rest2 == Tail(rest)
<1>1. rest # <<>> /\ OnceEach(gone, rest)
  BY DEF TaskIsRight
<1>2. /\ Len(rest) \in Nat /\ Len(rest) > 0
      /\ rest2 \in Seq(AgentNames) /\ Len(rest2) = Len(rest) - 1
      /\ \A i \in 1..(Len(rest) - 1) : rest2[i] = rest[i + 1]
      /\ DOMAIN rest = 1..Len(rest)
  BY <1>1, FirstAndRest
<1> HIDE DEF rest2
<1>3. DOMAIN rest2 = 1..Len(rest2)
  BY <1>2
<1>4. \A i \in DOMAIN rest2 : i \in Int /\ i + 1 \in DOMAIN rest /\ rest2[i] = rest[i + 1]
  BY <1>2, <1>3
<1>5. OnceEach(gone, rest2)
  <2>1. ASSUME NEW i \in DOMAIN rest2, NEW j \in DOMAIN rest2, i # j
        PROVE  rest2[i] # rest2[j]
    <3>1. i + 1 # j + 1
      BY <1>4, <2>1
    <3> QED
      BY <1>1, <1>4, <3>1 DEF OnceEach, Once
  <2>2. ASSUME NEW i \in DOMAIN gone, NEW j \in DOMAIN rest2 PROVE gone[i] # rest2[j]
    BY <1>1, <1>4 DEF OnceEach
  <2> QED
    BY <1>1, <2>1, <2>2 DEF OnceEach, Once
<1>6. CASE Len(rest) = 1
  <2>1. TaskIsRight("FanOut", gone, rest2, "Ok")
    BY <1>5 DEF TaskIsRight, OnceEach
  <2> QED
    BY <1>6, <2>1 DEF rest2
<1>7. CASE Len(rest) # 1
  <2>1. rest2 # <<>>
    <3>1. Len(rest2) # 0
      BY <1>2, <1>7
    <3> QED
      BY <3>1
  <2>2. TaskIsRight("FanOut", gone, rest2, "no")
    BY <1>5, <2>1 DEF TaskIsRight
  <2> QED
    BY <1>7, <2>2 DEF rest2
<1> QED
  BY <1>6, <1>7

\* What becomes of the task of c is nothing to the others.
LEMMA TaskChanges ==
    ASSUME AgentsIInv, NEW c \in Askers, strategy' = strategy,
           NEW gone \in Seq(AgentNames), NEW rest \in Seq(AgentNames),
           NEW end \in {"no", "Ok", "Err", "Stream"},
           TaskIsRight(strategy, gone, rest, end),
           trail' = [trail EXCEPT ![c] = gone],
           todo' = [todo EXCEPT ![c] = rest],
           ended' = [ended EXCEPT ![c] = end]
    PROVE  /\ todo' \in [Askers -> Seq(AgentNames)]
           /\ trail' \in [Askers -> Seq(AgentNames)]
           /\ ended' \in [Askers -> {"no", "Ok", "Err", "Stream"}]
           /\ \A d \in Askers : TaskIsRight(strategy', trail'[d], todo'[d], ended'[d])
<1>1. /\ todo \in [Askers -> Seq(AgentNames)]
      /\ trail \in [Askers -> Seq(AgentNames)]
      /\ ended \in [Askers -> {"no", "Ok", "Err", "Stream"}]
  BY DEF AgentsIInv, AgentsTypeOK
<1>2. /\ todo' \in [Askers -> Seq(AgentNames)]
      /\ trail' \in [Askers -> Seq(AgentNames)]
      /\ ended' \in [Askers -> {"no", "Ok", "Err", "Stream"}]
  BY <1>1
<1>3. ASSUME NEW d \in Askers
      PROVE  TaskIsRight(strategy', trail'[d], todo'[d], ended'[d])
  <2>1. CASE d = c
    <3>1. trail'[d] = gone /\ todo'[d] = rest /\ ended'[d] = end
      BY <1>1, <2>1
    <3> QED
      BY <3>1
  <2>2. CASE d # c
    <3>1. trail'[d] = trail[d] /\ todo'[d] = todo[d] /\ ended'[d] = ended[d]
      BY <1>1, <2>2
    <3>2. TaskIsRight(strategy, trail[d], todo[d], ended[d])
      BY DEF AgentsIInv
    <3> QED
      BY <3>1, <3>2
  <2> QED
    BY <2>1, <2>2
<1> QED
  BY <1>2, <1>3

\* The agents in an order of the map: each of them once.
LEMMA OrdersAre ==
    ASSUME NEW S \in SUBSET AgentNames, NEW order \in SetToSeqs(S)
    PROVE  order \in Seq(AgentNames) /\ Once(order)
<1> DEFINE n == Cardinality(S)
<1>1. n \in Nat
  BY AgentsAssumption, FS_Subset, FS_CardinalityType
<1>2. order \in [1..n -> S] /\ \A i, j \in 1..n : i # j => order[i] # order[j]
  BY DEF SetToSeqs
<1> HIDE DEF n
<1>3. order \in [1..n -> AgentNames]
  BY <1>2
<1>4. order \in Seq(AgentNames)
  BY <1>1, <1>3
<1>5. DOMAIN order = 1..n
  BY <1>2
<1> QED
  BY <1>2, <1>4, <1>5 DEF Once

LEMMA AgentsStart == AgentsInit => AgentsIInv
<1> SUFFICES ASSUME AgentsInit PROVE AgentsIInv
  OBVIOUS
<1>1. /\ strategy \in Strategies /\ agents = <<>> /\ changes = 0 /\ index = 0 /\ routes = 0
      /\ todo = [c \in Askers |-> <<>>] /\ trail = [c \in Askers |-> <<>>]
      /\ ended = [c \in Askers |-> "Ok"] /\ turns = [a \in AgentNames |-> 0]
  BY DEF AgentsInit
<1>2. <<>> \in Seq(AgentNames) /\ Len(<<>>) = 0 /\ 1..0 = {}
  OBVIOUS
<1>3. AgentsTypeOK /\ index <= routes
  <2>1. 0 \in 0..MaxChanges /\ 0 \in 0..MaxRoutes /\ 0 \in Nat
    BY AgentsAssumption
  <2> QED
    BY <1>1, <1>2, <2>1 DEF AgentsTypeOK
<1>4. Once(agents) /\ Laps
  BY <1>1, <1>2 DEF Once, Laps
<1>5. ASSUME NEW c \in Askers PROVE TaskIsRight(strategy, trail[c], todo[c], ended[c])
  <2>1. trail[c] = <<>> /\ ended[c] = "Ok"
    BY <1>1
  <2> QED
    BY <2>1 DEF TaskIsRight
<1> QED
  BY <1>3, <1>4, <1>5 DEF AgentsIInv

\* No task is under way while the agents change.
LEMMA ChangeKeeps ==
    ASSUME AgentsIInv, NEW S \in SUBSET AgentNames, Change(S)
    PROVE  AgentsIInv'
<1>1. /\ changes < MaxChanges /\ changes' = changes + 1
      /\ agents' \in SetToSeqs(S) /\ turns' = [a \in AgentNames |-> 0]
      /\ UNCHANGED <<strategy, index, routes, todo, trail, ended>>
  BY DEF Change
<1>2. agents' \in Seq(AgentNames) /\ Once(agents')
  BY <1>1, OrdersAre
<1>3. AgentsTypeOK' /\ index' <= routes'
  <2>1. changes' \in 0..MaxChanges
    BY <1>1, AgentsAssumption DEF AgentsIInv, AgentsTypeOK
  <2>2. turns' \in [AgentNames -> Nat]
    BY <1>1
  <2> QED
    BY <1>1, <1>2, <2>1, <2>2 DEF AgentsIInv, AgentsTypeOK
<1>4. Laps'
  <2>1. \A p \in 1..Len(agents') : agents'[p] \in AgentNames
    BY <1>2, ElementOfSeq
  <2>2. \A p \in 1..Len(agents') : turns'[agents'[p]] = 0
    BY <1>1, <2>1
  <2> QED
    BY <2>2 DEF Laps
<1>5. \A c \in Askers : TaskIsRight(strategy', trail'[c], todo'[c], ended'[c])
  BY <1>1 DEF AgentsIInv
<1> QED
  BY <1>2, <1>3, <1>4, <1>5 DEF AgentsIInv

\* Whose turn it is was last in the lap from there on, and has had it then: the
\* laps in numbers, of the places p and q when the first cur of n had their turn.
LEMMA FirstOfLap ==
    ASSUME NEW n \in Nat, NEW cur \in 0..(n - 1), NEW q \in 1..n
    PROVE  TurnBefore(cur + 1, q, cur)
BY DEF TurnBefore

LEMMA LastOfLap ==
    ASSUME NEW n \in Nat, NEW cur \in 0..(n - 1), NEW q \in 1..n,
           TurnBefore(cur + 1, q, IF cur + 1 = n THEN 0 ELSE cur + 1)
    PROVE  q = cur + 1
BY DEF TurnBefore

LEMMA RestOfLap ==
    ASSUME NEW n \in Nat, NEW cur \in 0..(n - 1),
           NEW p \in 1..n, NEW q \in 1..n, p # cur + 1, q # cur + 1,
           TurnBefore(p, q, IF cur + 1 = n THEN 0 ELSE cur + 1)
    PROVE  TurnBefore(p, q, cur)
BY DEF TurnBefore

LEMMA TurnKeepsLaps ==
    ASSUME AgentsIInv, strategy = "RoundRobin", UNCHANGED <<strategy, agents>>,
           agents # <<>>, NEW stream, Turn(stream)
    PROVE  /\ index' = index + 1 /\ turns' \in [AgentNames -> Nat]
           /\ agents[(index % Len(agents)) + 1] \in AgentNames
           /\ Laps'
<1> DEFINE n == Len(agents)
           cur == index % Len(agents)
           whose == agents[cur + 1]
<1>1. /\ agents \in Seq(AgentNames) /\ Once(agents) /\ index \in Nat
      /\ turns \in [AgentNames -> Nat] /\ n \in Nat /\ n > 0
      /\ DOMAIN agents = 1..n
  <2>1. index \in 0..MaxRoutes /\ MaxRoutes \in Nat
    BY AgentsAssumption DEF AgentsIInv, AgentsTypeOK
  <2>2. Len(agents) \in Nat /\ Len(agents) > 0 /\ DOMAIN agents = 1..Len(agents)
    BY DEF AgentsIInv, AgentsTypeOK
  <2> QED
    BY <2>1, <2>2 DEF AgentsIInv, AgentsTypeOK
<1>2. /\ index' = index + 1
      /\ turns' = [turns EXCEPT ![whose] = @ + 1]
  BY DEF Turn
<1>3. /\ cur \in 0..(n - 1)
      /\ (index + 1) % n = IF cur + 1 = n THEN 0 ELSE cur + 1
  BY <1>1, NextInLap
<1>4. /\ \A p, q \in 1..n : turns[agents[p]] <= turns[agents[q]] + 1
      /\ \A p, q \in 1..n : TurnBefore(p, q, cur) => turns[agents[p]] <= turns[agents[q]]
  BY DEF AgentsIInv, Laps
<1>5. index' % Len(agents') = IF cur + 1 = n THEN 0 ELSE cur + 1
  BY <1>2, <1>3
<1>6. cur + 1 \in 1..n
  <2>1. n \in Nat /\ cur \in 0..(n - 1)
    BY <1>1, <1>3
  <2> HIDE DEF n, cur
  <2> QED
    BY <2>1
<1>7. /\ \A p \in 1..n : agents[p] \in AgentNames
      /\ \A p \in 1..n : agents[p] = whose => p = cur + 1
  BY <1>1, <1>6, ElementOfSeq DEF Once
<1>8. whose \in AgentNames
  BY <1>6, <1>7
<1>9. /\ turns' \in [AgentNames -> Nat]
      /\ turns'[whose] = turns[whose] + 1
      /\ \A p \in 1..n : p # cur + 1 => turns'[agents[p]] = turns[agents[p]]
  BY <1>1, <1>2, <1>7, <1>8
<1>10. \A p \in 1..n : turns[agents[p]] \in Nat
  BY <1>1, <1>7
<1>11. agents' = agents /\ Len(agents') = n /\ turns[whose] \in Nat
  BY <1>1, <1>8
<1> HIDE DEF n, cur
<1>12. ASSUME NEW p \in 1..n, NEW q \in 1..n
       PROVE  /\ turns'[agents[p]] <= turns'[agents[q]] + 1
              /\ TurnBefore(p, q, IF cur + 1 = n THEN 0 ELSE cur + 1)
                   => turns'[agents[p]] <= turns'[agents[q]]
  <2>1. /\ turns[agents[p]] \in Nat /\ turns[agents[q]] \in Nat
        /\ turns[agents[p]] <= turns[agents[q]] + 1
    BY <1>4, <1>10
  <2>2. CASE p = cur + 1 /\ q = cur + 1
    <3>1. turns'[agents[p]] = turns'[agents[q]] /\ turns'[agents[p]] \in Nat
      BY <1>7, <1>9, <2>2
    <3> QED
      BY <3>1
  <2>3. CASE p = cur + 1 /\ q # cur + 1
    <3>1. turns'[agents[p]] = turns[agents[p]] + 1 /\ turns'[agents[q]] = turns[agents[q]]
      BY <1>9, <2>3
    <3>2. TurnBefore(p, q, cur)
      BY <1>1, <1>3, <2>3, FirstOfLap
    <3>3. turns[agents[p]] <= turns[agents[q]]
      BY <1>4, <3>2
    <3>4. ~TurnBefore(p, q, IF cur + 1 = n THEN 0 ELSE cur + 1)
      BY <1>1, <1>3, <2>3, LastOfLap
    <3>5. turns'[agents[p]] <= turns'[agents[q]] + 1
      BY <2>1, <3>1, <3>3
    <3> QED
      BY <3>4, <3>5
  <2>4. CASE p # cur + 1 /\ q = cur + 1
    <3>1. turns'[agents[p]] = turns[agents[p]] /\ turns'[agents[q]] = turns[agents[q]] + 1
      BY <1>9, <2>4
    <3>2. turns'[agents[p]] <= turns'[agents[q]] /\ turns'[agents[p]] <= turns'[agents[q]] + 1
      BY <2>1, <3>1
    <3> QED
      BY <3>2
  <2>5. CASE p # cur + 1 /\ q # cur + 1
    <3>1. turns'[agents[p]] = turns[agents[p]] /\ turns'[agents[q]] = turns[agents[q]]
      BY <1>9, <2>5
    <3>2. TurnBefore(p, q, IF cur + 1 = n THEN 0 ELSE cur + 1) => TurnBefore(p, q, cur)
      BY <1>1, <1>3, <2>5, RestOfLap
    <3> QED
      BY <1>4, <2>1, <3>1, <3>2
  <2> QED
    BY <2>2, <2>3, <2>4, <2>5
<1>13. Laps'
  BY <1>5, <1>11, <1>12 DEF Laps
<1>14. agents[(index % Len(agents)) + 1] = whose
  BY DEF cur
<1> QED
  BY <1>2, <1>8, <1>9, <1>13, <1>14

\* Where a task may go when it is routed.
LEMMA BeginsRight ==
    ASSUME AgentsIInv, NEW c \in Askers, NEW to \in Seq(AgentNames), to # <<>>,
           strategy' = strategy, Begins(c, to),
           strategy = "Pipeline" => to = Pipeline,
           strategy = "FanOut" => Once(to)
    PROVE  /\ todo' \in [Askers -> Seq(AgentNames)]
           /\ trail' \in [Askers -> Seq(AgentNames)]
           /\ ended' \in [Askers -> {"no", "Ok", "Err", "Stream"}]
           /\ \A d \in Askers : TaskIsRight(strategy', trail'[d], todo'[d], ended'[d])
<1>1. /\ todo' = [todo EXCEPT ![c] = to] /\ trail' = [trail EXCEPT ![c] = <<>>]
      /\ ended' = [ended EXCEPT ![c] = "no"]
  BY DEF Begins
<1>2. <<>> \in Seq(AgentNames) /\ Len(<<>>) = 0 /\ DOMAIN <<>> = {} /\ 1..0 = {}
  OBVIOUS
<1>3. strategy = "Pipeline" => ThroughPipeline(<<>>, to)
  <2> SUFFICES ASSUME strategy = "Pipeline" PROVE ThroughPipeline(<<>>, Pipeline)
    OBVIOUS
  <2>1. Len(Pipeline) \in Nat
    BY AgentsAssumption
  <2>2. 0 + Len(Pipeline) = Len(Pipeline) /\ \A i \in 1..Len(Pipeline) : 0 + i = i
    BY <2>1
  <2> QED
    BY <1>2, <2>2 DEF ThroughPipeline
<1>4. strategy = "FanOut" => OnceEach(<<>>, to)
  BY <1>2 DEF OnceEach, Once
<1>5. TaskIsRight(strategy, <<>>, to, "no")
  BY <1>3, <1>4 DEF TaskIsRight
<1> QED
  BY <1>1, <1>2, <1>5, TaskChanges

LEMMA FailsRight ==
    ASSUME AgentsIInv, NEW c \in Askers, strategy' = strategy, Fails(c)
    PROVE  /\ todo' \in [Askers -> Seq(AgentNames)]
           /\ trail' \in [Askers -> Seq(AgentNames)]
           /\ ended' \in [Askers -> {"no", "Ok", "Err", "Stream"}]
           /\ \A d \in Askers : TaskIsRight(strategy', trail'[d], todo'[d], ended'[d])
<1>1. /\ todo' = [todo EXCEPT ![c] = <<>>] /\ trail' = [trail EXCEPT ![c] = <<>>]
      /\ ended' = [ended EXCEPT ![c] = "Err"]
  BY DEF Fails
<1>2. <<>> \in Seq(AgentNames)
  OBVIOUS
<1>3. TaskIsRight(strategy, <<>>, <<>>, "Err")
  BY DEF TaskIsRight
<1> QED
  BY <1>1, <1>2, <1>3, TaskChanges

LEMMA StartsRight ==
    ASSUME AgentsIInv, NEW c \in Askers, NEW agent \in AgentNames, NEW stream \in BOOLEAN,
           strategy' = strategy, strategy \in {"RoundRobin", "ChannelBased"},
           Starts(c, agent, stream)
    PROVE  /\ todo' \in [Askers -> Seq(AgentNames)]
           /\ trail' \in [Askers -> Seq(AgentNames)]
           /\ ended' \in [Askers -> {"no", "Ok", "Err", "Stream"}]
           /\ \A d \in Askers : TaskIsRight(strategy', trail'[d], todo'[d], ended'[d])
<1>1. <<agent>> \in Seq(AgentNames) /\ <<agent>> # <<>>
  OBVIOUS
<1>2. CASE stream
  <2>1. todo \in [Askers -> Seq(AgentNames)]
    BY DEF AgentsIInv, AgentsTypeOK
  <2>2. /\ ended' = [ended EXCEPT ![c] = "Stream"]
        /\ trail' = [trail EXCEPT ![c] = <<agent>>] /\ todo' = [todo EXCEPT ![c] = todo[c]]
    BY <1>2, <2>1 DEF Starts
  <2>3. todo[c] \in Seq(AgentNames) /\ TaskIsRight(strategy, <<agent>>, todo[c], "Stream")
    BY <2>1 DEF TaskIsRight
  <2> QED
    BY <1>1, <2>2, <2>3, TaskChanges
<1>3. CASE ~stream
  <2>1. Begins(c, <<agent>>)
    BY <1>3 DEF Starts
  <2>2. strategy # "Pipeline" /\ strategy # "FanOut"
    OBVIOUS
  <2> QED
    BY <1>1, <2>1, <2>2, BeginsRight
<1> QED
  BY <1>2, <1>3

LEMMA RouteKeeps ==
    ASSUME AgentsIInv, NEW c \in Askers, NEW stream \in BOOLEAN, RouteTask(c, stream)
    PROVE  AgentsIInv'
<1>1. /\ routes < MaxRoutes /\ routes' = routes + 1
      /\ UNCHANGED <<strategy, agents, changes>>
  BY DEF RouteTask
<1>2. routes' \in 0..MaxRoutes /\ index + 1 <= routes' /\ index <= routes'
      /\ index + 1 \in 0..MaxRoutes /\ index \in 0..MaxRoutes
  BY <1>1, AgentsAssumption DEF AgentsIInv, AgentsTypeOK
<1>3. /\ agents \in Seq(AgentNames) /\ Once(agents) /\ changes \in 0..MaxChanges
      /\ strategy \in Strategies /\ turns \in [AgentNames -> Nat] /\ Laps
  BY DEF AgentsIInv, AgentsTypeOK
<1> DEFINE Right == /\ todo' \in [Askers -> Seq(AgentNames)]
                    /\ trail' \in [Askers -> Seq(AgentNames)]
                    /\ ended' \in [Askers -> {"no", "Ok", "Err", "Stream"}]
                    /\ \A d \in Askers : TaskIsRight(strategy', trail'[d], todo'[d], ended'[d])
           Shared == /\ turns' \in [AgentNames -> Nat]
                     /\ index' \in 0..MaxRoutes /\ index' <= routes' /\ Laps'
<1>4. SUFFICES Right /\ Shared
  BY <1>1, <1>2, <1>3 DEF AgentsIInv, AgentsTypeOK
<1>5. ASSUME UNCHANGED <<index, turns>> PROVE Shared
  BY <1>1, <1>2, <1>3, <1>5 DEF Laps
<1>6. CASE NextRoundRobin(c, stream)
  <2>1. CASE agents = <<>>
    <3>1. Fails(c) /\ UNCHANGED <<index, turns>>
      BY <1>6, <2>1 DEF NextRoundRobin
    <3>2. Right
      BY <1>1, <3>1, FailsRight
    <3> QED
      BY <1>5, <3>1, <3>2
  <2>2. CASE agents # <<>>
    <3>1. /\ strategy = "RoundRobin" /\ Turn(stream)
          /\ Starts(c, agents[(index % Len(agents)) + 1], stream)
      BY <1>6, <2>2 DEF NextRoundRobin
    <3>2. /\ index' = index + 1 /\ turns' \in [AgentNames -> Nat] /\ Laps'
          /\ agents[(index % Len(agents)) + 1] \in AgentNames
      BY <1>1, <2>2, <3>1, TurnKeepsLaps
    <3>3. Right
      BY <1>1, <3>1, <3>2, StartsRight
    <3>4. index' \in 0..MaxRoutes /\ index' <= routes'
      BY <1>2, <3>2
    <3> QED
      BY <3>2, <3>3, <3>4
  <2> QED
    BY <2>1, <2>2
<1>7. CASE FindAgentForChannel(c, stream)
  <2>1. strategy = "ChannelBased" /\ UNCHANGED <<index, turns>>
    BY <1>7 DEF FindAgentForChannel
  <2>2. CASE Fails(c)
    BY <1>1, <1>5, <2>1, <2>2, FailsRight
  <2>3. CASE ~Fails(c)
    <3>1. PICK i \in DOMAIN agents : Starts(c, agents[i], stream)
      BY <1>7, <2>3 DEF FindAgentForChannel
    <3>2. agents[i] \in AgentNames
      BY <1>3, ElementOfSeq
    <3>3. Right
      BY <1>1, <2>1, <3>1, <3>2, StartsRight
    <3> QED
      BY <1>5, <2>1, <3>3
  <2> QED
    BY <2>2, <2>3
<1>8. CASE RouteFanOut(c, stream)
  <2>1. strategy = "FanOut" /\ UNCHANGED <<index, turns>>
    BY <1>8 DEF RouteFanOut
  <2>2. CASE Fails(c)
    BY <1>1, <1>5, <2>1, <2>2, FailsRight
  <2>3. CASE ~Fails(c)
    <3>1. agents # <<>> /\ Begins(c, agents)
      BY <1>8, <2>3 DEF RouteFanOut
    <3>2. Right
      BY <1>1, <1>3, <2>1, <3>1, BeginsRight
    <3> QED
      BY <1>5, <2>1, <3>2
  <2> QED
    BY <2>2, <2>3
<1>9. CASE RoutePipeline(c, stream)
  <2>1. strategy = "Pipeline" /\ UNCHANGED <<index, turns>>
    BY <1>9 DEF RoutePipeline
  <2>2. CASE Fails(c)
    BY <1>1, <1>5, <2>1, <2>2, FailsRight
  <2>3. CASE ~Fails(c)
    <3>1. Pipeline # <<>> /\ Begins(c, Pipeline)
      BY <1>9, <2>3 DEF RoutePipeline
    <3>2. Pipeline \in Seq(AgentNames)
      BY AgentsAssumption
    <3>3. Right
      BY <1>1, <2>1, <3>1, <3>2, BeginsRight
    <3> QED
      BY <1>5, <2>1, <3>3
  <2> QED
    BY <2>2, <2>3
<1> QED
  BY <1>6, <1>7, <1>8, <1>9 DEF RouteTask

\* What the agents share stays as it is while they work.
LEMMA WorkKeeps ==
    ASSUME AgentsIInv, UNCHANGED <<strategy, agents, changes, index, routes, turns>>,
           todo' \in [Askers -> Seq(AgentNames)],
           trail' \in [Askers -> Seq(AgentNames)],
           ended' \in [Askers -> {"no", "Ok", "Err", "Stream"}],
           \A d \in Askers : TaskIsRight(strategy', trail'[d], todo'[d], ended'[d])
    PROVE  AgentsIInv'
<1>1. AgentsTypeOK' /\ index' <= routes'
  BY DEF AgentsIInv, AgentsTypeOK
<1>2. Once(agents') /\ Laps'
  BY DEF AgentsIInv, Laps
<1> QED
  BY <1>1, <1>2 DEF AgentsIInv

LEMMA HandledKeeps ==
    ASSUME AgentsIInv, NEW c \in Askers, AgentAnswers(c)
    PROVE  AgentsIInv'
<1> DEFINE end == IF Len(todo[c]) = 1 THEN "Ok" ELSE "no"
<1>1. /\ ended[c] = "no" /\ UNCHANGED <<strategy, agents, changes, index, routes, turns>>
      /\ todo' = [todo EXCEPT ![c] = Tail(todo[c])]
      /\ trail' = [trail EXCEPT ![c] = Append(trail[c], Head(todo[c]))]
      /\ ended' = [ended EXCEPT ![c] = end]
  BY DEF AgentAnswers, Idle, AgentsIInv, AgentsTypeOK
<1>2. /\ todo[c] \in Seq(AgentNames) /\ trail[c] \in Seq(AgentNames)
      /\ TaskIsRight(strategy, trail[c], todo[c], "no")
  BY <1>1 DEF AgentsIInv, AgentsTypeOK
<1>3. todo[c] # <<>>
  BY <1>2 DEF TaskIsRight
<1>4. /\ Tail(todo[c]) \in Seq(AgentNames)
      /\ Append(trail[c], Head(todo[c])) \in Seq(AgentNames)
  BY <1>2, <1>3, FirstAndRest
<1>5. TaskIsRight(strategy, Append(trail[c], Head(todo[c])), Tail(todo[c]), end)
  BY <1>2, AnswerMovesOn
<1>6. end \in {"no", "Ok", "Err", "Stream"}
  OBVIOUS
<1> HIDE DEF end
<1> QED
  BY <1>1, <1>4, <1>5, <1>6, TaskChanges, WorkKeeps

LEMMA UnhandledKeeps ==
    ASSUME AgentsIInv, NEW c \in Askers, AgentFails(c)
    PROVE  AgentsIInv'
<1>1. ended[c] = "no" /\ UNCHANGED <<strategy, agents, changes, index, routes, turns>>
  BY DEF AgentFails, Idle
<1>2. CASE strategy = "FanOut" /\ (Len(todo[c]) > 1 \/ trail[c] # <<>>)
  <2> DEFINE end == IF Len(todo[c]) = 1 THEN "Ok" ELSE "no"
  <2>1. trail = [trail EXCEPT ![c] = trail[c]]
    BY DEF AgentsIInv, AgentsTypeOK
  <2>2. /\ todo' = [todo EXCEPT ![c] = Tail(todo[c])]
        /\ trail' = [trail EXCEPT ![c] = trail[c]]
        /\ ended' = [ended EXCEPT ![c] = end]
    BY <1>2, <2>1 DEF AgentFails, AgentsIInv, AgentsTypeOK
  <2>3. /\ todo[c] \in Seq(AgentNames) /\ trail[c] \in Seq(AgentNames)
        /\ TaskIsRight("FanOut", trail[c], todo[c], "no")
    BY <1>1, <1>2 DEF AgentsIInv, AgentsTypeOK
  <2>4. todo[c] # <<>>
    BY <2>3 DEF TaskIsRight
  <2>5. Tail(todo[c]) \in Seq(AgentNames)
    BY <2>3, <2>4, FirstAndRest
  <2>6. TaskIsRight(strategy, trail[c], Tail(todo[c]), end)
    BY <1>2, <2>3, SkipMovesOn
  <2>7. end \in {"no", "Ok", "Err", "Stream"}
    OBVIOUS
  <2> HIDE DEF end
  <2> QED
    BY <1>1, <2>2, <2>3, <2>5, <2>6, <2>7, TaskChanges, WorkKeeps
<1>3. CASE ~(strategy = "FanOut" /\ (Len(todo[c]) > 1 \/ trail[c] # <<>>))
  <2>1. Fails(c)
    BY <1>3 DEF AgentFails
  <2> QED
    BY <1>1, <2>1, FailsRight, WorkKeeps
<1> QED
  BY <1>2, <1>3

LEMMA AgentsStep == AgentsIInv /\ [AgentsNext]_agentVars => AgentsIInv'
<1> SUFFICES ASSUME AgentsIInv, [AgentsNext]_agentVars PROVE AgentsIInv'
  OBVIOUS
<1>1. ASSUME NEW a \in AgentNames, RegisterAgent(a) \/ RemoveAgent(a) PROVE AgentsIInv'
  <2>1. ToSet(agents) \in SUBSET AgentNames
    <3>1. agents \in Seq(AgentNames)
      BY DEF AgentsIInv, AgentsTypeOK
    <3>2. \A i \in DOMAIN agents : agents[i] \in AgentNames
      BY <3>1, ElementOfSeq
    <3> QED
      BY <3>2 DEF ToSet
  <2> HIDE DEF AgentsIInv
  <2>2. /\ ToSet(agents) \cup {a} \in SUBSET AgentNames
        /\ ToSet(agents) \ {a} \in SUBSET AgentNames
    BY <2>1
  <2> QED
    BY <1>1, <2>2, ChangeKeeps DEF RegisterAgent, RemoveAgent
<1>2. CASE UNCHANGED agentVars
  BY <1>2, WorkKeeps DEF agentVars, AgentsIInv, AgentsTypeOK
<1> QED
  BY <1>1, <1>2, RouteKeeps, HandledKeeps, UnhandledKeeps DEF AgentsNext

LEMMA AgentsAreRight == AgentsIInv => SharedInTurn /\ WholeTrail
<1> SUFFICES ASSUME AgentsIInv PROVE SharedInTurn /\ WholeTrail
  OBVIOUS
<1>1. SharedInTurn
  <2> SUFFICES ASSUME strategy = "RoundRobin", NEW a \in ToSet(agents), NEW b \in ToSet(agents)
               PROVE  turns[a] <= turns[b] + 1
    BY DEF SharedInTurn
  <2>1. PICK p \in DOMAIN agents, q \in DOMAIN agents : a = agents[p] /\ b = agents[q]
    BY DEF ToSet
  <2>2. DOMAIN agents = 1..Len(agents)
    BY DEF AgentsIInv, AgentsTypeOK
  <2> QED
    BY <2>1, <2>2 DEF AgentsIInv, Laps
<1>2. WholeTrail
  BY DEF AgentsIInv, TaskIsRight, Once, WholeTrail
<1> QED
  BY <1>1, <1>2

LEMMA TalkStep ==
    AgentsIInv /\ MemoryIInv /\ [Next]_vars => AgentsIInv' /\ MemoryIInv'
<1> SUFFICES ASSUME AgentsIInv, MemoryIInv, [Next]_vars PROVE AgentsIInv' /\ MemoryIInv'
  OBVIOUS
<1>1. [AgentsNext]_agentVars /\ [MemoryNext]_memoryVars
  <2>1. CASE UNCHANGED talkVars
    BY <2>1 DEF talkVars
  <2>2. CASE TalkNext
    BY <2>2 DEF TalkNext
  <2>3. UNCHANGED talkVars \/ TalkNext
    BY DEF Next, MarketNext, KeptNext, WebNext, HostNext, ClientNext, vars
  <2> QED
    BY <2>1, <2>2, <2>3
<1> QED
  BY <1>1, AgentsStep, MemoryStep

\* AgentsInTurn, for any agents, askers, pipeline and size of the memory: routed in
\* turn, no agent is two tasks ahead of another; an answer went through the whole
\* pipeline, or comes from each agent once; and the memory of a conversation keeps
\* what is recent (orchestrator.rs:61-211, memory.rs:55-96).
THEOREM TurnsAreShared == Spec => []AgentsInTurn
<1>1. Init => AgentsIInv /\ MemoryIInv
  <2>1. Init => AgentsInit /\ MemoryInit
    BY DEF Init
  <2> QED
    BY <2>1, AgentsStart, MemoryStart
<1>2. AgentsIInv /\ MemoryIInv => AgentsInTurn
  BY AgentsAreRight DEF MemoryIInv, AgentsInTurn
<1> QED
  BY <1>1, <1>2, TalkStep, PTL DEF Spec

-----------------------------------------------------------------------------
(* All of the parts, whichever moves.                                      *)

TypesIInv ==
    /\ part \in Parts
    /\ RateIInv /\ CallsIInv /\ ManagerIInv /\ WsIInv
    /\ LifeIInv /\ StateIInv /\ TokenIInv /\ ResolverIInv
    /\ RouterIInv /\ AgentsIInv /\ MemoryIInv
    /\ SharedIInv /\ ReadIInv

LEMMA TypesStart == Init => TypesIInv
<1> SUFFICES ASSUME Init PROVE TypesIInv
  OBVIOUS
<1>1. RateInit /\ ExchangeInit /\ WsInit /\ part \in Parts
  BY DEF Init, ExchangeInit
<1>2. LifeInit /\ StateInit /\ TokenInit
  BY DEF Init
<1>3. RouterInit /\ AgentsInit /\ MemoryInit
  BY DEF Init
<1>4. RateIInv /\ CallsIInv /\ ManagerIInv /\ WsIInv
  BY <1>1, RateStart, CallsStart, ManagerStart, ReplayStart
<1>5. LifeIInv /\ StateIInv /\ TokenIInv /\ ResolverIInv
  BY <1>2, LifeStart, StateStart, TokenStart, ResolverServed
<1>6. RouterIInv /\ AgentsIInv /\ MemoryIInv
  BY <1>3, RouterStart, AgentsStart, MemoryStart
<1> QED
  BY <1>1, <1>4, <1>5, <1>6, SharedStart, ReadStart DEF TypesIInv

\* The limiter serves the exchange or runs by itself; the calls of the exchange
\* and its stream are apart.
LEMMA MarketTypes ==
    RateIInv /\ CallsIInv /\ ManagerIInv /\ WsIInv /\ [Next]_vars
      => RateIInv' /\ CallsIInv' /\ ManagerIInv' /\ WsIInv'
<1> SUFFICES ASSUME RateIInv, CallsIInv, ManagerIInv, WsIInv, [Next]_vars
             PROVE  ManagerIInv' /\ WsIInv'
  BY MarketStep
<1>1. [WsNext]_wsVars /\ (ExchangeNext \/ UNCHANGED exchangeVars)
  <2>1. CASE UNCHANGED marketVars
    BY <2>1 DEF marketVars
  <2>2. CASE MarketNext
    BY <2>2 DEF MarketNext
  <2>3. UNCHANGED marketVars \/ MarketNext
    BY DEF Next, KeptNext, TalkNext, WebNext, HostNext, ClientNext, vars
  <2> QED
    BY <2>1, <2>2, <2>3
<1>2. CallsTyped
  BY DEF CallsIInv
<1> QED
  BY <1>1, <1>2, ReplayStep, ManagerStep, ManagerMoves

LEMMA KeptTypes ==
    LifeIInv /\ StateIInv /\ TokenIInv /\ ResolverIInv /\ [Next]_vars
      => LifeIInv' /\ StateIInv' /\ TokenIInv' /\ ResolverIInv'
<1> SUFFICES ASSUME LifeIInv, StateIInv, TokenIInv, ResolverIInv, [Next]_vars
             PROVE  LifeIInv' /\ StateIInv' /\ TokenIInv'
  BY ResolverServed
<1>1. [LifeNext]_lifeVars /\ [StateNext]_stateVars /\ [TokenNext]_tokenVars
  <2>1. CASE UNCHANGED keptVars
    BY <2>1 DEF keptVars
  <2>2. CASE KeptNext
    BY <2>2 DEF KeptNext
  <2>3. UNCHANGED keptVars \/ KeptNext
    BY DEF Next, MarketNext, TalkNext, WebNext, HostNext, ClientNext, vars
  <2> QED
    BY <2>1, <2>2, <2>3
<1> QED
  BY <1>1, LifeStep, StateStep, TokenStep

LEMMA TypesStep == TypesIInv /\ [Next]_vars => TypesIInv'
<1> SUFFICES ASSUME TypesIInv, [Next]_vars PROVE TypesIInv'
  OBVIOUS
<1>1. [RouterNext]_<<routerVars, authVars>>
  <2>1. CASE UNCHANGED talkVars
    BY <2>1 DEF talkVars
  <2>2. CASE TalkNext
    BY <2>2 DEF TalkNext
  <2>3. UNCHANGED talkVars \/ TalkNext
    BY DEF Next, MarketNext, KeptNext, WebNext, HostNext, ClientNext, vars
  <2> QED
    BY <2>1, <2>2, <2>3
<1>2. RateIInv' /\ CallsIInv' /\ ManagerIInv' /\ WsIInv'
  BY MarketTypes DEF TypesIInv
<1>3. LifeIInv' /\ StateIInv' /\ TokenIInv' /\ ResolverIInv'
  BY KeptTypes DEF TypesIInv
<1>4. RouterIInv' /\ AgentsIInv' /\ MemoryIInv'
  BY <1>1, RouterStep, TalkStep DEF TypesIInv
<1>5. SharedIInv' /\ ReadIInv'
  BY SharedStep, ReadStep DEF TypesIInv
<1>6. part' \in Parts
  BY DEF TypesIInv, Next, MarketNext, KeptNext, TalkNext, WebNext, HostNext, ClientNext, vars
<1> QED
  BY <1>2, <1>3, <1>4, <1>5, <1>6 DEF TypesIInv

\* One of the parts moves, and each has its types.
LEMMA TypesRight == TypesIInv => TypeOK
<1> SUFFICES ASSUME TypesIInv PROVE TypeOK
  OBVIOUS
<1>0. part \in Parts
  BY DEF TypesIInv
<1>1. RateTypeOK /\ ExchangeTypeOK /\ WsTypeOK
  BY ExchangeTyped DEF TypesIInv, RateIInv, CallsIInv, WsIInv
<1>2. LifeTypeOK /\ StateTypeOK /\ TokenTypeOK /\ ResolverTypeOK
  BY DEF TypesIInv, LifeIInv, StateIInv, TokenIInv, ResolverIInv
<1>3. RouterTypeOK /\ AgentsTypeOK /\ MemoryTypeOK
  BY DEF TypesIInv, RouterIInv, AgentsIInv, MemoryIInv
<1>4. AiTypeOK /\ ContentTypeOK /\ WireTypeOK /\ SettingsTypeOK
  BY AiRight, ContentTyped, WireRight, SettingsRight DEF TypesIInv, ReadIInv
<1>5. MetricsTypeOK /\ ManagedTypeOK /\ HooksTypeOK
  BY MetricsRight, ManagedRight, HooksRight DEF TypesIInv, SharedIInv
<1>6. part = "subscription" => ChannelObjectTypeOK
  BY ChannelRight DEF TypesIInv, SharedIInv, ClientsIInv
<1>7. part = "tasks" => AgentClientTypeOK
  BY AnswersTyped DEF TypesIInv, ReadIInv
<1> QED
  BY <1>0, <1>1, <1>2, <1>3, <1>4, <1>5, <1>6, <1>7 DEF TypeOK, Parts

\* TypeOK of all of the libraries, for any sizes of them: among the rest, a delay
\* before another try is never above its ceiling and the permits of a fetch are never
\* more than there were (crates/mtw-exchange/src/providers/bitvavo/ws.rs, manager.rs),
\* and an event of a stream has no lines but those of its body
\* (crates/mtw-http/src/stages/stream.rs).
THEOREM ServicesTypeCorrect == Spec => []TypeOK
<1>1. TypesIInv /\ [Next]_vars => TypesIInv'
  BY TypesStep
<1> QED
  BY TypesStart, <1>1, TypesRight, PTL DEF Spec

=============================================================================
