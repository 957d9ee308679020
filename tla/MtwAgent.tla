------------------------------- MODULE MtwAgent --------------------------------
(***************************************************************************)
(* MtwAgentClient of packages/client/src/agent.ts: tasks for an agent, the *)
(* answer of each collected by send() or handed on piece by piece by       *)
(* stream(), with the tools the agent calls run on the way.  The agent is  *)
(* external: it gives the pieces 1, 2, ... of each answer.  The context of *)
(* a task and what a piece says are left out.                              *)
(***************************************************************************)
EXTENDS ClientLink

CONSTANTS MaxTasks,  \* bound: calls of send() and stream()
          MaxPieces  \* bound: pieces of each answer

ASSUME AgentClientAssumption == MaxTasks \in Nat /\ MaxPieces \in [1..MaxTasks -> Nat]

VARIABLES
    tasks,         \* how each call stands: see Standing
    taskListeners, \* the tasks the connection has a listener of
    isStreaming,   \* _isStreaming
    queues,        \* what a stream was told and its caller has not asked for
    collected,     \* the pieces a task has in its answer, or has yielded
    tools,         \* the tool calls whose handlers run, each <<task, piece>>
    heardOf,       \* history: the tool calls a listener was told of
    results,       \* history: how many results were sent for each tool call
    unsent,        \* history: tool calls whose result found no connection
    atAgent,       \* the tasks the agent answers on this connection
    pieces,        \* how many pieces it has given of each
    manyStreams    \* history: two streams were under way at the same time

listenVars == <<tasks, taskListeners, isStreaming, queues, collected, manyStreams>>
toolVars == <<tools, heardOf, results, unsent>>
farVars == <<atAgent, pieces>>
agentClientVars == <<linkVars, listenVars, toolVars, farVars>>

TaskIds == 1..MaxTasks
Calls == UNION {{t} \X (1..MaxPieces[t]) : t \in TaskIds}

UnderWay == {"sent", "asked", "yielded"}
Standing == {"none", "complete", "error", "timeout", "refused send", "refused stream",
             "abandoned"} \cup UnderWay

AgentClientTypeOK ==
    /\ LinkTypeOK
    /\ tasks \in [TaskIds -> Standing] /\ taskListeners \subseteq TaskIds
    /\ isStreaming \in BOOLEAN /\ manyStreams \in BOOLEAN
    /\ \A t \in TaskIds : collected[t] \in Seq(1..MaxPieces[t])
    /\ tools \subseteq Calls /\ heardOf \subseteq Calls /\ unsent \subseteq Calls
    /\ results \in [Calls -> Nat]
    /\ atAgent \subseteq TaskIds /\ \A t \in TaskIds : pieces[t] \in 0..MaxPieces[t]

AgentClientInit ==
    /\ LinkInit
    /\ tasks = [t \in TaskIds |-> "none"] /\ taskListeners = {}
    /\ isStreaming = FALSE /\ manyStreams = FALSE
    /\ queues = [t \in TaskIds |-> <<>>] /\ collected = [t \in TaskIds |-> <<>>]
    /\ tools = {} /\ heardOf = {} /\ unsent = {} /\ results = [c \in Calls |-> 0]
    /\ atAgent = {} /\ pieces = [t \in TaskIds |-> 0]

Streams == {t \in TaskIds : tasks[t] \in {"asked", "yielded"}}

-----------------------------------------------------------------------------
(* The application.                                                        *)

Unused(t) == tasks[t] = "none" /\ \A u \in 1..(t - 1) : tasks[u] # "none"

\* connection.send() throws when it is not connected.
Submit(t) == uplink' = IF linkUp THEN Append(uplink, t) ELSE uplink

\* send() takes its listener away again if the task cannot be sent.
SendTask(t) ==
    /\ Unused(t) /\ Submit(t)
    /\ tasks' = [tasks EXCEPT ![t] = IF linkUp THEN "sent" ELSE "refused send"]
    /\ taskListeners' = IF linkUp THEN taskListeners \cup {t} ELSE taskListeners
    /\ UNCHANGED <<linkUp, era, downlink, isStreaming, queues, collected, manyStreams, toolVars,
                   farVars>>

\* stream(), when its caller first asks: if the task cannot be sent it throws, and
\* only isStreaming is set back.
StreamTask(t) ==
    /\ Unused(t) /\ Submit(t)
    /\ tasks' = [tasks EXCEPT ![t] = IF linkUp THEN "asked" ELSE "refused stream"]
    /\ taskListeners' = taskListeners \cup {t}
    /\ isStreaming' = linkUp
    /\ manyStreams' = (manyStreams \/ Streams # {})
    /\ UNCHANGED <<linkUp, era, downlink, queues, collected, toolVars, farVars>>

\* Fault: the listener of a task that timed out stays.
StaysListening(t) == taskListeners

\* unsub().
StopListening(t) == taskListeners \ {t}

SendTimesOut(t) ==
    /\ tasks[t] = "sent"
    /\ tasks' = [tasks EXCEPT ![t] = "timeout"]
    /\ taskListeners' = StopListening(t)
    /\ UNCHANGED <<linkVars, isStreaming, queues, collected, manyStreams, toolVars, farVars>>

\* Fault: queue.pop().
Pop(q) == [item |-> Last(q), rest |-> Front(q)]

\* queue.shift().
Shift(q) == [item |-> Head(q), rest |-> Tail(q)]

\* The loop of stream() once there is something in the queue: it yields a piece, or
\* returns or throws and sets isStreaming back, whoever else may stream.
TakeItem(t) ==
    /\ tasks[t] = "asked" /\ queues[t] # <<>>
    /\ queues' = [queues EXCEPT ![t] = Shift(@).rest]
    /\ LET item == Shift(queues[t]).item
       IN \/ /\ item.is = "piece"
             /\ collected' = [collected EXCEPT ![t] = Append(@, item.number)]
             /\ tasks' = [tasks EXCEPT ![t] = "yielded"]
             /\ UNCHANGED <<taskListeners, isStreaming>>
          \/ /\ item.is \in {"complete", "error"}
             /\ tasks' = [tasks EXCEPT ![t] = item.is]
             /\ taskListeners' = StopListening(t) /\ isStreaming' = FALSE
             /\ UNCHANGED collected
    /\ UNCHANGED <<linkVars, manyStreams, toolVars, farVars>>

AskForMore(t) ==
    /\ tasks[t] = "yielded" /\ tasks' = [tasks EXCEPT ![t] = "asked"]
    /\ UNCHANGED <<linkVars, taskListeners, isStreaming, queues, collected, manyStreams, toolVars,
                   farVars>>

\* A caller that leaves its loop: the generator ends at the yield it stands at, by
\* its finally, and the listener stays.
Abandon(t) ==
    /\ tasks[t] = "yielded" /\ tasks' = [tasks EXCEPT ![t] = "abandoned"]
    /\ isStreaming' = FALSE
    /\ UNCHANGED <<linkVars, taskListeners, queues, collected, manyStreams, toolVars, farVars>>

-----------------------------------------------------------------------------
(* What the connection brings.                                             *)

\* The result of a tool, with the id of its task: sent if there is a connection by
\* then, whichever it is.  What the agent makes of it is its own affair.
SendResults(calls) ==
    /\ results' = [c \in Calls |-> results[c] + IF linkUp /\ c \in calls THEN 1 ELSE 0]
    /\ unsent' = IF linkUp THEN unsent ELSE unsent \cup calls

\* handleToolCall(): a tool that is registered is run, another answered at once.
HandleToolCall(frame) ==
    LET call == <<frame.of, frame.number>>
    IN /\ heardOf' = heardOf \cup {call}
       /\ IF frame.known THEN tools' = tools \cup {call} /\ UNCHANGED <<results, unsent>>
          ELSE SendResults({call}) /\ UNCHANGED tools

\* The handler returns or throws: a result or an error is sent.
ToolEnds(call) ==
    /\ call \in tools /\ tools' = tools \ {call}
    /\ SendResults({call})
    /\ UNCHANGED <<linkVars, listenVars, heardOf, farVars>>

IsEnd(frame) == frame.is \in {"complete", "error"}
AnswerItem(is, number) == [is |-> is, number |-> number]

\* What a frame tells its listener: a piece, the end, or a last piece and the end.
Items(frame) ==
    (IF frame.number > 0 THEN <<AnswerItem("piece", frame.number)>> ELSE <<>>)
      \o (IF IsEnd(frame) THEN <<AnswerItem(frame.is, 0)>> ELSE <<>>)
Piece(frame) == IF frame.number > 0 THEN <<frame.number>> ELSE <<>>

\* The listener of listenForTask(): send() collects and ends with the frame, a
\* stream leaves what it is told in its queue, also when nobody asks any more.
Listener(frame) ==
    LET t == frame.of
    IN \/ /\ tasks[t] = "sent"
          /\ collected' = [collected EXCEPT ![t] = @ \o Piece(frame)]
          /\ IF IsEnd(frame)
             THEN tasks' = [tasks EXCEPT ![t] = frame.is] /\ taskListeners' = StopListening(t)
             ELSE UNCHANGED <<tasks, taskListeners>>
          /\ UNCHANGED queues
       \/ /\ tasks[t] # "sent"
          /\ queues' = [queues EXCEPT ![t] = @ \o Items(frame)]
          /\ UNCHANGED <<tasks, taskListeners, collected>>

ReceiveAnswer ==
    /\ downlink # <<>> /\ downlink' = Tail(downlink)
    /\ LET frame == Head(downlink)
       IN IF frame.of \notin taskListeners
          THEN UNCHANGED <<listenVars, toolVars>>
          ELSE /\ Listener(frame)
               /\ IF frame.is = "tool" THEN HandleToolCall(frame)
                  ELSE UNCHANGED toolVars
    /\ UNCHANGED <<linkUp, era, uplink, isStreaming, manyStreams, farVars>>

\* The tasks are not told.
AgentLinkLost == LinkLost /\ atAgent' = {} /\ UNCHANGED <<listenVars, toolVars, pieces>>
AgentLinkRestored == LinkRestored /\ UNCHANGED <<listenVars, toolVars, farVars>>

-----------------------------------------------------------------------------
(* The agent.                                                              *)

AgentTakes ==
    /\ uplink # <<>> /\ uplink' = Tail(uplink)
    /\ atAgent' = atAgent \cup {Head(uplink)}
    /\ UNCHANGED <<linkUp, era, downlink, listenVars, toolVars, pieces>>

\* A piece, a call of a tool, or the end with a last piece or without.
AgentGives(t) ==
    /\ t \in atAgent
    /\ \E is \in {"chunk", "tool", "complete", "error"}, more \in BOOLEAN, known \in BOOLEAN :
          /\ is \in {"chunk", "tool"} => more
          /\ is = "error" => ~more
          /\ is # "tool" => known
          /\ more => pieces[t] < MaxPieces[t]
          /\ pieces' = [pieces EXCEPT ![t] = @ + IF more THEN 1 ELSE 0]
          /\ Bring([is |-> is, of |-> t, number |-> IF more THEN pieces[t] + 1 ELSE 0,
                    known |-> known])
          /\ atAgent' = IF is \in {"complete", "error"} THEN atAgent \ {t} ELSE atAgent
    /\ UNCHANGED <<linkUp, era, uplink, listenVars, toolVars>>

AgentClientNext ==
    \/ \E t \in TaskIds :
          \/ SendTask(t) \/ StreamTask(t) \/ SendTimesOut(t)
          \/ TakeItem(t) \/ AskForMore(t) \/ Abandon(t)
          \/ AgentGives(t)
    \/ \E call \in Calls : ToolEnds(call)
    \/ ReceiveAnswer \/ AgentLinkLost \/ AgentLinkRestored \/ AgentTakes

AgentClientSpec == AgentClientInit /\ [][AgentClientNext]_agentClientVars

-----------------------------------------------------------------------------

\* An answer is the pieces the agent gave, each once and in order; one that is
\* complete lacks none of them, and of one the agent still gives the rest is in the
\* queue or on its way (agent.ts:99-124, 186-240).
AnswersWhole ==
    \A t \in TaskIds :
       LET got == Len(collected[t])
           held == Len(queues[t])
           coming == {i \in DOMAIN downlink : downlink[i].of = t /\ downlink[i].number > 0}
       IN /\ \A k \in 1..got : collected[t][k] = k
          /\ \A k \in 1..held : \/ queues[t][k] = AnswerItem("piece", got + k)
                                \/ k = held /\ IsEnd(queues[t][k])
          /\ tasks[t] = "complete" => got = pieces[t]
          /\ t \in atAgent /\ t \in taskListeners =>
                /\ {downlink[i].number : i \in coming} = (got + held + 1)..pieces[t]
                /\ \A i, j \in coming : i < j => downlink[i].number < downlink[j].number

\* A call of a tool that reaches its task is answered once, unless there is no
\* connection when its handler ends (agent.ts:412-454).
ToolsAnsweredOnce ==
    \A c \in Calls :
       results[c] = IF c \in heardOf \ (tools \cup unsent) THEN 1 ELSE 0

\* A listener is there while its task is under way and goes with it, but for those
\* of streams that were abandoned or could not be sent (agent.ts:94-131, 203-253).
ListenersBelong ==
    taskListeners = {t \in TaskIds : tasks[t] \in UnderWay \cup {"abandoned", "refused stream"}}

\* isStreaming tells whether a stream is under way, as long as no two are
\* (agent.ts:64, 154, 250).
StreamingTold == ~manyStreams => (isStreaming <=> Streams # {})

TasksApart == ToolsAnsweredOnce /\ ListenersBelong /\ StreamingTold

===============================================================================
