-------------------------------- MODULE Agents --------------------------------
(***************************************************************************)
(* AgentOrchestrator of crates/mtw-ai/src/orchestrator.rs: tasks of        *)
(* several callers are routed to agents by channel, in turn, to all of     *)
(* them or through a pipeline.  Agents are external: each call of one      *)
(* succeeds or fails.  Their map is iterated in an order of its own, that  *)
(* may change when it does.                                                *)
(***************************************************************************)
EXTENDS AgentMemory, SequencesExt, FiniteSets

CONSTANTS AgentNames,   \* the agents
          Askers,       \* the tasks that route
          Accepting,    \* the agents that accept the channel in question
          Pipeline,     \* the agents of a pipeline, by name
          Strategies,   \* the strategies to consider
          MaxRoutes,    \* bound: tasks routed
          MaxChanges    \* bound: agents registered and removed

ASSUME AgentsAssumption ==
    /\ Strategies \subseteq {"ChannelBased", "Pipeline", "FanOut", "RoundRobin"}
    /\ Accepting \subseteq AgentNames /\ Pipeline \in Seq(AgentNames)
    /\ IsFiniteSet(AgentNames)
    /\ MaxRoutes \in Nat /\ MaxChanges \in Nat

VARIABLES
    strategy,   \* the strategy
    agents,     \* the registered agents, as the map is iterated
    changes,    \* registrations and removals
    index,      \* round_robin_index
    routes,     \* tasks routed
    todo,       \* of each asker: the agents its task has still to go to
    trail,      \* ... those that have handled it
    ended,      \* ... and how it ended: "Ok", "Err", a "Stream", or "no" yet
    turns       \* history: tasks each agent was given in turn

agentVars == <<strategy, agents, changes, index, routes, todo, trail, ended, turns>>

AgentsTypeOK ==
    /\ strategy \in Strategies
    /\ agents \in Seq(AgentNames)
    /\ changes \in 0..MaxChanges
    /\ index \in 0..MaxRoutes /\ routes \in 0..MaxRoutes
    /\ todo \in [Askers -> Seq(AgentNames)]
    /\ trail \in [Askers -> Seq(AgentNames)]
    /\ ended \in [Askers -> {"no", "Ok", "Err", "Stream"}]
    /\ turns \in [AgentNames -> Nat]

AgentsInit ==
    /\ strategy \in Strategies
    /\ agents = <<>> /\ changes = 0
    /\ index = 0 /\ routes = 0
    /\ todo = [c \in Askers |-> <<>>]
    /\ trail = [c \in Askers |-> <<>>]
    /\ ended = [c \in Askers |-> "Ok"]
    /\ turns = [a \in AgentNames |-> 0]

-----------------------------------------------------------------------------

Idle(c) == ended[c] # "no"

\* register_agent() and remove_agent() have the orchestrator to themselves.
Change(registered) ==
    /\ \A c \in Askers : Idle(c)
    /\ changes < MaxChanges /\ changes' = changes + 1
    /\ agents' \in SetToSeqs(registered)
    /\ turns' = [a \in AgentNames |-> 0]
    /\ UNCHANGED <<strategy, index, routes, todo, trail, ended>>
RegisterAgent(a) == a \notin ToSet(agents) /\ Change(ToSet(agents) \cup {a})
RemoveAgent(a) == a \in ToSet(agents) /\ Change(ToSet(agents) \ {a})

Begins(c, to) ==
    /\ todo' = [todo EXCEPT ![c] = to]
    /\ trail' = [trail EXCEPT ![c] = <<>>]
    /\ ended' = [ended EXCEPT ![c] = "no"]
Fails(c) ==
    /\ todo' = [todo EXCEPT ![c] = <<>>]
    /\ trail' = [trail EXCEPT ![c] = <<>>]
    /\ ended' = [ended EXCEPT ![c] = "Err"]

\* Fault: only route() moves on to the next agent.
TurnOfRoutes(stream) ==
    /\ index' = IF stream THEN index ELSE index + 1
    /\ turns' = [turns EXCEPT ![agents[(index % Len(agents)) + 1]] = @ + 1]

\* fetch_add() on the index.
Turn(stream) ==
    /\ index' = index + 1
    /\ turns' = [turns EXCEPT ![agents[(index % Len(agents)) + 1]] = @ + 1]

\* A stream is the agent's own from here on.
Starts(c, agent, stream) ==
    IF stream
    THEN /\ ended' = [ended EXCEPT ![c] = "Stream"]
         /\ trail' = [trail EXCEPT ![c] = <<agent>>]
         /\ UNCHANGED todo
    ELSE Begins(c, <<agent>>)

NextRoundRobin(c, stream) ==
    /\ strategy = "RoundRobin"
    /\ IF agents = <<>>
       THEN Fails(c) /\ UNCHANGED <<index, turns>>
       ELSE Starts(c, agents[(index % Len(agents)) + 1], stream) /\ Turn(stream)

\* The first agent of the map that accepts the channel.
FindAgentForChannel(c, stream) ==
    /\ strategy = "ChannelBased" /\ UNCHANGED <<index, turns>>
    /\ \/ ToSet(agents) \cap Accepting = {} /\ Fails(c)
       \/ \E i \in DOMAIN agents :
             /\ agents[i] \in Accepting
             /\ \A j \in 1..(i - 1) : agents[j] \notin Accepting
             /\ Starts(c, agents[i], stream)

\* Neither of these streams.
RouteFanOut(c, stream) ==
    /\ strategy = "FanOut" /\ UNCHANGED <<index, turns>>
    /\ IF stream \/ agents = <<>> THEN Fails(c) ELSE Begins(c, agents)
RoutePipeline(c, stream) ==
    /\ strategy = "Pipeline" /\ UNCHANGED <<index, turns>>
    /\ IF stream \/ Pipeline = <<>> THEN Fails(c) ELSE Begins(c, Pipeline)

RouteTask(c, stream) ==
    /\ Idle(c) /\ routes < MaxRoutes /\ routes' = routes + 1
    /\ \/ NextRoundRobin(c, stream) \/ FindAgentForChannel(c, stream)
       \/ RouteFanOut(c, stream) \/ RoutePipeline(c, stream)
    /\ UNCHANGED <<strategy, agents, changes>>

\* An agent answers, and the task goes on or ends.  A pipeline hands the answer
\* to its next agent; a fan-out collects it.
AgentAnswers(c) ==
    /\ ~Idle(c) /\ Head(todo[c]) \in ToSet(agents)
    /\ todo' = [todo EXCEPT ![c] = Tail(@)]
    /\ trail' = [trail EXCEPT ![c] = Append(@, Head(todo[c]))]
    /\ ended' = [ended EXCEPT ![c] = IF Len(todo[c]) = 1 THEN "Ok" ELSE "no"]
    /\ UNCHANGED <<strategy, agents, changes, index, routes, turns>>

\* A failure ends the task; a fan-out goes on, and fails if all of them do.  A
\* pipeline may name an agent that is not there.
AgentFails(c) ==
    /\ ~Idle(c)
    /\ IF strategy = "FanOut" /\ (Len(todo[c]) > 1 \/ trail[c] # <<>>)
       THEN /\ todo' = [todo EXCEPT ![c] = Tail(@)]
            /\ ended' = [ended EXCEPT ![c] = IF Len(todo[c]) = 1 THEN "Ok" ELSE "no"]
            /\ UNCHANGED trail
       ELSE Fails(c)
    /\ UNCHANGED <<strategy, agents, changes, index, routes, turns>>

AgentsNext ==
    \/ \E a \in AgentNames : RegisterAgent(a) \/ RemoveAgent(a)
    \/ \E c \in Askers :
          AgentAnswers(c) \/ AgentFails(c) \/ \E stream \in BOOLEAN : RouteTask(c, stream)

AgentsSpec == AgentsInit /\ [][AgentsNext]_agentVars

-----------------------------------------------------------------------------

\* While the agents stay the same, none of them gets two tasks more than
\* another, however routes and streams of several callers mix.
SharedInTurn ==
    strategy = "RoundRobin" =>
       \A a, b \in ToSet(agents) : turns[a] <= turns[b] + 1

\* What a pipeline returns went through all of its agents, in order; what a
\* fan-out returns comes from agents of the map, each of them once.
WholeTrail ==
    \A c \in Askers : ended[c] = "Ok" /\ trail[c] # <<>> =>
       /\ strategy = "Pipeline" => trail[c] = Pipeline
       /\ strategy = "FanOut" => \A i, j \in DOMAIN trail[c] : i # j => trail[c][i] # trail[c][j]

\* Work is shared and passed on as the strategy says, and the memory of a
\* conversation keeps what is recent (orchestrator.rs:61-211, memory.rs:55-96).
AgentsInTurn == SharedInTurn /\ WholeTrail /\ RecentKept

===============================================================================
