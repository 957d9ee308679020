--------------------------------- MODULE Hooks ---------------------------------
(***************************************************************************)
(* The hook registry of crates/mtw-core/src/hooks.rs: a list behind a fair *)
(* read-write lock.  A call holds the lock for reading while its hooks run *)
(* and registering takes it for writing, for the one moment of the push.   *)
(***************************************************************************)
EXTENDS Naturals, FiniteSets, SequencesExt

CONSTANTS HookTasks,   \* the tasks that use the registry
          HookKinds,   \* what the hooks that may be registered do
          MaxHookCalls \* bound: calls, registrations among them

\* A hook lets a message pass, rejects it, fails, or, when it is not told of an
\* error, uses the registry itself: it reports one or registers another hook.
ASSUME HooksAssumption ==
    /\ HookKinds \subseteq {"pass", "reject", "fail", "report", "enrol"}
    /\ MaxHookCalls \in Nat

VARIABLES
    hooks,       \* the registered hooks
    waitingFor,  \* the queue of the lock: who, and what for
    holding,     \* how many times each task holds the lock for reading
    hookCalls,   \* what each task is at
    asked,       \* history: calls made so far, and the registrations among them
    outcomes     \* history: how the calls ended

hookVars == <<hooks, waitingFor, holding, hookCalls, asked, outcomes>>

AtRest == [of |-> "nothing"]

\* before_message; on_connect, on_disconnect and after_message; on_error.
CallKinds == {"before", "notify", "error"}

HooksTypeOK ==
    /\ hooks \in Seq(HookKinds)
    /\ \A i \in DOMAIN waitingFor : waitingFor[i].who \in HookTasks
    /\ holding \in [HookTasks -> 0..2]
    /\ \A t \in HookTasks : hookCalls[t] = AtRest \/ hookCalls[t].ran \in 0..Len(hooks)
    /\ asked.all \in 0..MaxHookCalls /\ asked.registered \in 0..asked.all
    /\ \A o \in outcomes : o.of \in CallKinds

HooksInit ==
    /\ hooks = <<>> /\ waitingFor = <<>>
    /\ holding = [t \in HookTasks |-> 0]
    /\ hookCalls = [t \in HookTasks |-> AtRest]
    /\ asked = [all |-> 0, registered |-> 0] /\ outcomes = {}

Queued(t) == \E i \in DOMAIN waitingFor : waitingFor[i].who = t

-----------------------------------------------------------------------------

Ask(registers) ==
    /\ asked.all < MaxHookCalls
    /\ asked' = [all |-> asked.all + 1,
                 registered |-> asked.registered + IF registers THEN 1 ELSE 0]

Join(t, wants) == waitingFor' = Append(waitingFor, [who |-> t, wants |-> wants])

\* register(): waits for the lock.
AskToRegister(t) ==
    /\ hookCalls[t] = AtRest /\ ~Queued(t)
    /\ Ask(TRUE)
    /\ \E k \in HookKinds : Join(t, k)
    /\ UNCHANGED <<hooks, holding, hookCalls, outcomes>>

AskToCall(t) ==
    /\ hookCalls[t] = AtRest /\ ~Queued(t)
    /\ Ask(FALSE)
    /\ \E k \in CallKinds : hookCalls' = [hookCalls EXCEPT ![t] = [of |-> k, ran |-> 0,
                                                           after |-> asked.registered]]
    /\ Join(t, "read")
    /\ UNCHANGED <<hooks, holding, outcomes>>

\* Fault: whoever wants to read need not queue.
MayReadUnfairly(i) == waitingFor[i].wants = "read"

\* The lock is given in the order of the queue; there is no time at which it is
\* held for writing.
MayRead(i) == i = 1 /\ waitingFor[i].wants = "read"

Read ==
    \E i \in DOMAIN waitingFor :
       /\ MayRead(i)
       /\ holding' = [holding EXCEPT ![waitingFor[i].who] = @ + 1]
       /\ waitingFor' = RemoveAt(waitingFor, i)
       /\ UNCHANGED <<hooks, hookCalls, asked, outcomes>>

Enrol ==
    /\ waitingFor # <<>> /\ Head(waitingFor).wants # "read"
    /\ \A t \in HookTasks : holding[t] = 0
    /\ hooks' = Append(hooks, Head(waitingFor).wants)
    /\ waitingFor' = Tail(waitingFor)
    /\ UNCHANGED <<holding, hookCalls, asked, outcomes>>

-----------------------------------------------------------------------------

Running(t) == hookCalls[t] # AtRest /\ holding[t] > 0 /\ ~Queued(t)
NextHook(t) == hooks[hookCalls[t].ran + 1]

\* What a hook answers ends the call, except that nobody asks on_error.
Ends(call, kind) == (kind = "fail" /\ call # "error") \/ (kind = "reject" /\ call = "before")

CallsBack(call, kind) == kind \in {"report", "enrol"} /\ call # "error"

RunHook(t) ==
    /\ Running(t) /\ holding[t] = 1 /\ hookCalls[t].ran < Len(hooks)
    /\ ~Ends(hookCalls[t].of, NextHook(t)) /\ ~CallsBack(hookCalls[t].of, NextHook(t))
    /\ hookCalls' = [hookCalls EXCEPT ![t].ran = @ + 1]
    /\ UNCHANGED <<hooks, waitingFor, holding, asked, outcomes>>

\* A hook that calls the registry waits for the lock, while its task holds it.
CallBack(t) ==
    /\ Running(t) /\ holding[t] = 1 /\ hookCalls[t].ran < Len(hooks)
    /\ CallsBack(hookCalls[t].of, NextHook(t))
    /\ \/ NextHook(t) = "report" /\ Join(t, "read")
       \/ NextHook(t) = "enrol" /\ Join(t, "pass")
    /\ UNCHANGED <<hooks, holding, hookCalls, asked, outcomes>>

\* Once the inner call, which ends by itself, is over the outer one goes on.
CalledBack(t) ==
    /\ Running(t) /\ holding[t] = 2
    /\ holding' = [holding EXCEPT ![t] = 1]
    /\ hookCalls' = [hookCalls EXCEPT ![t].ran = @ + 1]
    /\ UNCHANGED <<hooks, waitingFor, asked, outcomes>>

Conclude(t, ended) ==
    /\ outcomes' = outcomes \cup {[of |-> hookCalls[t].of, ran |-> hookCalls[t].ran,
                                   after |-> hookCalls[t].after, saw |-> hooks, ended |-> ended]}
    /\ holding' = [holding EXCEPT ![t] = 0]
    /\ hookCalls' = [hookCalls EXCEPT ![t] = AtRest]
    /\ UNCHANGED <<hooks, waitingFor, asked>>

EndCall(t) ==
    /\ Running(t) /\ holding[t] = 1
    /\ \/ hookCalls[t].ran = Len(hooks) /\ Conclude(t, FALSE)
       \/ hookCalls[t].ran < Len(hooks) /\ Ends(hookCalls[t].of, NextHook(t)) /\ Conclude(t, TRUE)

HooksNext ==
    \/ Read \/ Enrol
    \/ \E t \in HookTasks :
          \/ AskToRegister(t) \/ AskToCall(t)
          \/ RunHook(t) \/ CallBack(t) \/ CalledBack(t) \/ EndCall(t)

HooksSpec == HooksInit /\ [][HooksNext]_hookVars

-----------------------------------------------------------------------------

\* A call that is over has run every hook whose registration was asked for before
\* it, or those before the first that ended it, and no hook came in between.
HooksInOrder ==
    \A o \in outcomes :
       /\ Len(o.saw) >= o.after
       /\ \A i \in 1..o.ran : ~Ends(o.of, o.saw[i])
       /\ IF o.ended THEN Ends(o.of, o.saw[o.ran + 1]) ELSE o.ran = Len(o.saw)

\* The registry comes to a halt only if a hook has called it: to register, or to
\* report an error while a registration waits for that very call to end.
HaltsOnlyByCallBack ==
    LET Wants(i) == waitingFor[i].wants
        moves == \/ Wants(1) = "read" \/ \A t \in HookTasks : holding[t] = 0
                 \/ \E t \in HookTasks : Running(t)
    IN waitingFor # <<>> =>
          \/ moves
          \/ \E i \in DOMAIN waitingFor :
                /\ holding[waitingFor[i].who] > 0
                /\ \E j \in 1..i : Wants(j) # "read"

\* Hooks are run as registered, whole, and to the end unless one calls back.
HooksHold == HooksInOrder /\ HaltsOnlyByCallBack

================================================================================
