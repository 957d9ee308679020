------------------------------ MODULE Lifecycle -------------------------------
(***************************************************************************)
(* MtwServer and its ModuleRegistry (crates/mtw-core/src/server.rs and     *)
(* module.rs): modules are registered, loaded and started in order, one    *)
(* failure ends run(), and are stopped in reverse order, failures or not.  *)
(* One of them may be the exchange module (mtw-exchange/src/module.rs),    *)
(* whose forwarder task lives from on_start() to on_stop().                *)
(***************************************************************************)
EXTENDS Naturals, Sequences, FiniteSets, SequencesExt

CONSTANTS Modules,    \* names of modules
          Exchanges,  \* those of them that are exchange modules
          MaxRuns     \* bound: how often the application calls run()

ASSUME LifecycleAssumption == Exchanges \subseteq Modules /\ MaxRuns \in Nat

VARIABLES
    loadOrder,  \* the registered modules, in order
    state,      \* what each module was asked last: "new", "loaded", ...
    main,       \* where run() is
    next,       \* the module that is next
    failed,     \* history: a load or start has failed and nothing was stopped since
    manager,    \* the modules whose ExchangeManager still has its receiver
    forwarder,  \* the modules whose forwarder task runs
    stopOrder,  \* history: the modules stopped, in order
    runs        \* calls of run()

lifeVars == <<loadOrder, state, main, next, failed, manager, forwarder, stopOrder, runs>>

LifeTypeOK ==
    /\ loadOrder \in Seq(Modules)
    /\ state \in [Modules -> {"new", "loaded", "started", "stopped"}]
    /\ main \in {"building", "loading", "starting", "running", "stopping", "ended", "error",
                "unbuilt"}
    /\ next \in 0..(Len(loadOrder) + 1)
    /\ failed \in BOOLEAN
    /\ manager \subseteq Exchanges /\ forwarder \subseteq Exchanges
    /\ stopOrder \in Seq(Modules)
    /\ runs \in 0..MaxRuns

LifeInit ==
    /\ loadOrder = <<>>
    /\ state = [m \in Modules |-> "new"]
    /\ main = "building" /\ next = 0 /\ failed = FALSE
    /\ manager = {} /\ forwarder = {}
    /\ stopOrder = <<>> /\ runs = 0

-----------------------------------------------------------------------------

\* A name can be registered once; build() gives up on the second.
Register(m) ==
    /\ main = "building"
    /\ IF m \in ToSet(loadOrder)
       THEN main' = "unbuilt" /\ UNCHANGED loadOrder
       ELSE loadOrder' = Append(loadOrder, m) /\ UNCHANGED main
    /\ UNCHANGED <<state, next, failed, manager, forwarder, stopOrder, runs>>

\* An application may run the server again after it ended, or failed.
Run ==
    /\ main \in {"building", "ended", "error"} /\ runs < MaxRuns
    /\ runs' = runs + 1
    /\ main' = "loading" /\ next' = 1
    /\ stopOrder' = <<>>
    /\ UNCHANGED <<loadOrder, state, failed, manager, forwarder>>

Here(m) == next <= Len(loadOrder) /\ m = loadOrder[next]

\* A new manager takes the place of the old one.
LoadModule(m) ==
    /\ main = "loading" /\ Here(m)
    /\ \/ /\ state' = [state EXCEPT ![m] = "loaded"]
          /\ manager' = IF m \in Exchanges THEN manager \cup {m} ELSE manager
          /\ next' = next + 1 /\ UNCHANGED <<main, failed>>
       \/ /\ main' = "error" /\ failed' = TRUE
          /\ m \notin Exchanges
          /\ UNCHANGED <<state, manager, next>>
    /\ UNCHANGED <<loadOrder, forwarder, stopOrder, runs>>

LoadEnds ==
    /\ main = "loading" /\ next > Len(loadOrder)
    /\ main' = "starting" /\ next' = 1
    /\ UNCHANGED <<loadOrder, state, failed, manager, forwarder, stopOrder, runs>>

\* The exchange module takes the receiver, once, for its forwarder.
StartModule(m) ==
    /\ main = "starting" /\ Here(m)
    /\ \/ /\ state' = [state EXCEPT ![m] = "started"]
          /\ forwarder' = IF m \in manager THEN forwarder \cup {m} ELSE forwarder
          /\ manager' = manager \ {m}
          /\ next' = next + 1 /\ UNCHANGED <<main, failed>>
       \/ /\ main' = "error" /\ failed' = TRUE
          /\ m \notin Exchanges
          /\ UNCHANGED <<state, manager, forwarder, next>>
    /\ UNCHANGED <<loadOrder, stopOrder, runs>>

StartEnds ==
    /\ main = "starting" /\ next > Len(loadOrder)
    /\ main' = "running"
    /\ UNCHANGED <<loadOrder, state, next, failed, manager, forwarder, stopOrder, runs>>

\* Ctrl-C; or shutdown() called by the application, which a failed start
\* leaves to it.
Stop ==
    /\ main \in {"running", "error"}
    /\ main' = "stopping" /\ next' = Len(loadOrder)
    /\ stopOrder' = <<>>
    /\ UNCHANGED <<loadOrder, state, failed, manager, forwarder, runs>>

Stopped(m) ==
    /\ stopOrder' = Append(stopOrder, m)
    /\ forwarder' = forwarder \ {m}
    /\ UNCHANGED <<loadOrder, failed, manager, runs>>

\* Fault: the first module that cannot stop ends the shutdown.
StopModuleOrQuit(m) ==
    /\ main = "stopping" /\ next > 0 /\ Here(m)
    /\ Stopped(m)
    /\ \/ state' = [state EXCEPT ![m] = "stopped"] /\ next' = next - 1 /\ UNCHANGED main
       \/ m \notin Exchanges /\ main' = "ended" /\ UNCHANGED <<state, next>>

\* A module that cannot stop is only logged.
StopModule(m) ==
    /\ main = "stopping" /\ next > 0 /\ Here(m)
    /\ Stopped(m)
    /\ state' = [state EXCEPT ![m] = "stopped"]
    /\ next' = next - 1 /\ UNCHANGED main

StopEnds ==
    /\ main = "stopping" /\ next = 0
    /\ main' = "ended" /\ failed' = FALSE
    /\ UNCHANGED <<loadOrder, state, next, manager, forwarder, stopOrder, runs>>

LifeNext ==
    \/ \E m \in Modules : Register(m) \/ LoadModule(m) \/ StartModule(m) \/ StopModule(m)
    \/ Run \/ LoadEnds \/ StartEnds \/ Stop \/ StopEnds

LifeSpec == LifeInit /\ [][LifeNext]_lifeVars

-----------------------------------------------------------------------------

Started(m) == state[m] = "started"

\* A shutdown is complete: each module is stopped once, in the reverse of the
\* order it was started in, whatever the others answer; and run() never loads
\* the modules again while one is still started or a forwarder task runs,
\* unless a failed load or start ended the run() before, which stops nothing
\* (server.rs:63-105, module.rs:186-196).
ShutdownIsComplete ==
    /\ main = "ended" => stopOrder = Reverse(loadOrder)
    /\ main \in {"building", "unbuilt", "loading", "ended"} /\ ~failed =>
          forwarder = {} /\ \A m \in Modules : ~Started(m)

===============================================================================
