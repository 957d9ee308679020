------------------------------- MODULE Resolver -------------------------------
(***************************************************************************)
(* DependencyResolver of crates/mtw-registry/src/resolver.rs: resolve()    *)
(* collects what the required modules need, breadth first, and sorts it by *)
(* Kahn's algorithm.  Modules are numbered in the order of their names.    *)
(***************************************************************************)
EXTENDS Naturals, Sequences, FiniteSets, SequencesExt

CONSTANTS Names,        \* the names modules and dependencies may have
          Registries,   \* the registries: what is known, its versions and needs
          MaxRequired   \* bound: names asked for at once

\* A version as its manifest has it, one to three numbers; and a constraint.
Versions == {v \in Seq(Nat) : Len(v) \in 1..3}
Constraints == [op : {"*", "^", "~", "="}, version : Versions]

ASSUME ResolverAssumption ==
    /\ Names \subseteq Nat /\ IsFiniteSet(Names) /\ MaxRequired \in Nat
    /\ \A r \in Registries :
          /\ DOMAIN r \subseteq Names
          /\ \A m \in DOMAIN r :
                /\ r[m].version \in Versions /\ IsFiniteSet(r[m].needs)
                /\ r[m].needs \subseteq Names \X Constraints

VARIABLES
    registry,     \* the modules added, by name: [version, needs]
    required,     \* the names resolve() was called with
    step,         \* where it is: "required", "collecting", "sorting", an error, "ok"
    allDeps,      \* all_deps
    queue,        \* the queue of either loop
    inDegree,     \* in_degree
    installOrder  \* install_order

resolverVars == <<registry, required, step, allDeps, queue, inDegree, installOrder>>

Errors == {"not found", "conflict", "circular"}

ResolverTypeOK ==
    /\ registry \in Registries
    /\ required \in Seq(Names)
    /\ step \in {"required", "collecting", "sorting", "ok"} \cup Errors
    /\ allDeps \subseteq Names
    /\ queue \in Seq(Names)
    /\ inDegree \in [allDeps -> Nat] \/ step \in {"required", "collecting"} \cup Errors
    /\ installOrder \in Seq(allDeps)

\* What resolve() may be called with.
Requests == UNION {[1..n -> Names] : n \in 0..MaxRequired}

ResolverInit ==
    /\ registry \in Registries
    /\ required \in Requests
    /\ step = "required"
    /\ allDeps = {} /\ queue = <<>> /\ inDegree = <<>> /\ installOrder = <<>>

-----------------------------------------------------------------------------
(* Versions.                                                               *)

\* Numbers that are missing count as zero.
Part(v, i) == IF i \in DOMAIN v THEN v[i] ELSE 0

CaretMatch(a, c) ==
    /\ Part(a, 1) = Part(c, 1)
    /\ \/ Part(a, 1) # 0 /\ Part(a, 2) > Part(c, 2)
       \/ Part(a, 2) = Part(c, 2) /\ Part(a, 3) >= Part(c, 3)

TildeMatch(a, c) ==
    /\ Part(a, 1) = Part(c, 1) /\ Part(a, 2) = Part(c, 2)
    /\ Part(a, 3) >= Part(c, 3)

\* A full version without a prefix must be the same; a partial one is a caret.
VersionMatches(a, c) ==
    \/ c.op = "*"
    \/ c.op = "~" /\ TildeMatch(a, c.version)
    \/ c.op = "^" /\ CaretMatch(a, c.version)
    \/ c.op = "=" /\ Len(c.version) < 3 /\ CaretMatch(a, c.version)
    \/ c.op = "=" /\ Len(c.version) = 3 /\ a = c.version

-----------------------------------------------------------------------------
(* resolve().                                                              *)

Known == DOMAIN registry
Needs(m) == registry[m].needs
Met(need) == need[1] \in Known /\ VersionMatches(registry[need[1]].version, need[2])

CheckRequired ==
    /\ step = "required"
    /\ IF ToSet(required) \subseteq Known
       THEN step' = "collecting" /\ queue' = required
       ELSE step' = "not found" /\ UNCHANGED queue
    /\ UNCHANGED <<registry, required, allDeps, inDegree, installOrder>>

\* A name that has been seen is skipped.  The others' dependencies are checked
\* in the order the manifest gives them, and the first bad one ends resolve().
Visit ==
    /\ step = "collecting" /\ queue # <<>>
    /\ LET m == Head(queue) IN
       IF m \in allDeps
       THEN queue' = Tail(queue) /\ UNCHANGED <<step, allDeps>>
       ELSE /\ allDeps' = allDeps \cup {m}
            /\ IF \A need \in Needs(m) : Met(need)
               THEN /\ \E s \in SetToSeqs({need[1] : need \in Needs(m)}) : queue' = Tail(queue) \o s
                    /\ UNCHANGED step
               ELSE /\ \E need \in Needs(m) :
                          /\ ~Met(need)
                          /\ step' = IF need[1] \in Known THEN "conflict" ELSE "not found"
                    /\ UNCHANGED queue
    /\ UNCHANGED <<registry, required, inDegree, installOrder>>

\* Fault: a module that needs another twice waits for it once.
DegreeByName(m) == Cardinality({need[1] : need \in Needs(m)})

\* An edge for each dependency, two of one name included.
Degree(m) == Cardinality(Needs(m))
Edges(from, to) == Cardinality({need \in Needs(to) : need[1] = from})

\* The names of a set, in ascending order.
Sorted(S) == {s \in SetToSeqs(S) : \A i, j \in DOMAIN s : i < j => s[i] < s[j]}

BeginSort ==
    /\ step = "collecting" /\ queue = <<>>
    /\ step' = "sorting"
    /\ inDegree' = [m \in allDeps |-> Degree(m)]
    /\ queue' \in Sorted({m \in allDeps : Degree(m) = 0})
    /\ UNCHANGED <<registry, required, allDeps, installOrder>>

\* The next module is installed, and what waited for it alone is queued.
Install ==
    /\ step = "sorting" /\ queue # <<>>
    /\ LET m == Head(queue)
           left(n) == inDegree[n] - Edges(m, n)
       IN /\ installOrder' = Append(installOrder, m)
          /\ inDegree' = [n \in allDeps |-> left(n)]
          /\ \E s \in Sorted({n \in allDeps : Edges(m, n) > 0 /\ left(n) = 0}) :
                queue' = Tail(queue) \o s
    /\ UNCHANGED <<registry, required, step, allDeps>>

EndSort ==
    /\ step = "sorting" /\ queue = <<>>
    /\ step' = IF Len(installOrder) = Cardinality(allDeps) THEN "ok" ELSE "circular"
    /\ UNCHANGED <<registry, required, allDeps, queue, inDegree, installOrder>>

ResolverNext == CheckRequired \/ Visit \/ BeginSort \/ Install \/ EndSort

ResolverSpec == ResolverInit /\ [][ResolverNext]_resolverVars

-----------------------------------------------------------------------------
(* What resolve() is to return, without its algorithm.                     *)

Closed(S) ==
    /\ ToSet(required) \subseteq S
    /\ \A m \in S \cap Known : \A need \in Needs(m) : need[1] \in S

\* The names that are required, directly or not.
Needed == {m \in Names : \A S \in SUBSET Names : Closed(S) => m \in S}

Bad(need) == ~Met(need)
Circle(S) == S # {} /\ \A m \in S : \E need \in Needs(m) : need[1] \in S

\* Each dependency is installed, in a version that matches, before what needs it.
DependenciesFirst ==
    \A i \in DOMAIN installOrder : \A need \in Needs(installOrder[i]) :
       Met(need) /\ \E j \in 1..(i - 1) : installOrder[j] = need[1]

\* resolve() installs what is needed and nothing else, once each and
\* dependencies first, or fails for a reason: something needed is missing,
\* or in another version, or needs itself (resolver.rs:57-160).
ResolvesOrTellsWhy ==
    /\ DependenciesFirst
    /\ step = "ok" => ToSet(installOrder) = Needed /\ Len(installOrder) = Cardinality(Needed)
    /\ step = "circular" => \E S \in SUBSET Needed : Circle(S)
    /\ step = "not found" => ~(Needed \subseteq Known)
    /\ step = "conflict" => \E m \in Needed \cap Known : \E need \in Needs(m) : Bad(need)

===============================================================================
