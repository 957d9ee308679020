------------------------ MODULE ClientObjects_proofs ------------------------
(***************************************************************************)
(* The objects of packages/client on top of its connection, for any number *)
(* of calls and of connections: the tasks of an agent and what becomes of  *)
(* their answers, and a channel that is subscribed to again after a loss.  *)
(***************************************************************************)
EXTENDS Services, SequenceTheorems, FiniteSetTheorems, TLAPS

-----------------------------------------------------------------------------
(* The tasks of MtwAgentClient.  A frame that calls a tool is of a piece   *)
(* the agent has given and no listener was told of: so no tool is run, and *)
(* no result sent, twice.                                                  *)

AnswerFrame == [is : {"chunk", "tool", "complete", "error"}, of : TaskIds, number : Nat,
                known : BOOLEAN]

TasksShape ==
    /\ LinkTypeOK
    /\ tasks \in [TaskIds -> Standing]
    /\ isStreaming \in BOOLEAN /\ manyStreams \in BOOLEAN
    /\ heardOf \subseteq Calls /\ results \in [Calls -> Nat]
    /\ atAgent \subseteq TaskIds /\ uplink \in Seq(TaskIds) /\ downlink \in Seq(AnswerFrame)
    /\ pieces \in [TaskIds -> Nat] /\ \A t \in TaskIds : pieces[t] <= MaxPieces[t]

\* A frame brings a piece that was given, and no tool call a listener was told of.
BringsNews(frame, given, notified) ==
    /\ frame.number <= given[frame.of]
    /\ frame.is = "tool" => frame.number > 0
    /\ frame.number > 0 => <<frame.of, frame.number>> \notin notified

SamePiece(f, g) == f.of = g.of /\ f.number = g.number

FramesNew ==
    /\ \A i \in 1..Len(downlink) : BringsNews(downlink[i], pieces, heardOf)
    /\ \A i, j \in 1..Len(downlink) :
          downlink[i].number > 0 /\ SamePiece(downlink[i], downlink[j]) => i = j
    /\ \A c \in heardOf : c[2] <= pieces[c[1]]

ToolsKept ==
    /\ tools \subseteq heardOf /\ unsent \subseteq heardOf /\ tools \cap unsent = {}
    /\ ToolsAnsweredOnce

StreamsKept ==
    /\ ~manyStreams => \A t, u \in Streams : t = u
    /\ StreamingTold

TasksIInv == TasksShape /\ FramesNew /\ ToolsKept /\ ListenersBelong /\ StreamsKept

\* A tool call is a task and one of its pieces.
LEMMA CallsAre ==
  ASSUME NEW t, NEW n
  PROVE  <<t, n>> \in Calls <=> t \in TaskIds /\ n \in 1..MaxPieces[t]
  <1>1. <<t, n>> \in Calls <=> \E u \in TaskIds : <<t, n>> \in {u} \X (1..MaxPieces[u])
    BY DEF Calls
  <1> QED  BY <1>1

\* What TasksIInv says of the sequences and numbers in it, in the form the steps use.
LEMMA TasksParts ==
  ASSUME TasksShape
  PROVE  /\ Len(downlink) \in Nat /\ DOMAIN downlink = 1..Len(downlink)
         /\ \A i \in 1..Len(downlink) : downlink[i] \in AnswerFrame
         /\ \A t \in TaskIds : pieces[t] \in Nat /\ MaxPieces[t] \in Nat
  <1>1. downlink \in Seq(AnswerFrame)  BY DEF TasksShape
  <1>2. Len(downlink) \in Nat  BY <1>1
  <1>3. DOMAIN downlink = 1..Len(downlink)  BY <1>1
  <1>4. \A i \in 1..Len(downlink) : downlink[i] \in AnswerFrame  BY <1>1, ElementOfSeq
  <1>5. \A t \in TaskIds : pieces[t] \in Nat  BY DEF TasksShape
  <1>6. \A t \in TaskIds : MaxPieces[t] \in Nat  BY AgentClientAssumption DEF TaskIds
  <1> QED  BY <1>2, <1>3, <1>4, <1>5, <1>6

\* How a task stands from now on: it has its listener or has not, and counts as a
\* stream or does not.
LEMMA TaskStands ==
  ASSUME TasksShape, ListenersBelong, NEW t \in TaskIds, NEW s \in Standing,
         tasks' = [tasks EXCEPT ![t] = s],
         taskListeners' = IF s \in UnderWay \cup {"abandoned", "refused stream"}
                          THEN taskListeners \cup {t} ELSE taskListeners \ {t}
  PROVE  /\ tasks' \in [TaskIds -> Standing] /\ ListenersBelong'
         /\ Streams' = IF s \in {"asked", "yielded"} THEN Streams \cup {t} ELSE Streams \ {t}
  <1>1. /\ tasks \in [TaskIds -> Standing]
        /\ tasks'[t] = s /\ \A u \in TaskIds \ {t} : tasks'[u] = tasks[u]
        /\ tasks' \in [TaskIds -> Standing]
    BY DEF TasksShape
  <1>2. ListenersBelong'  BY <1>1 DEF ListenersBelong
  <1>3. Streams' = IF s \in {"asked", "yielded"} THEN Streams \cup {t} ELSE Streams \ {t}
    BY <1>1 DEF Streams
  <1> QED  BY <1>1, <1>2, <1>3

\* A step of the application: frames and tool calls rest.
LEMMA ApplicationKeeps ==
  ASSUME TasksIInv, NEW t \in TaskIds,
         \/ SendTask(t) \/ StreamTask(t) \/ SendTimesOut(t)
         \/ TakeItem(t) \/ AskForMore(t) \/ Abandon(t)
  PROVE  TasksIInv'
  <1> DEFINE Listening == UnderWay \cup {"abandoned", "refused stream"}
             Streaming == {"asked", "yielded"}
  <1>1. /\ TasksShape /\ FramesNew /\ ToolsKept /\ ListenersBelong /\ StreamsKept
        /\ tasks \in [TaskIds -> Standing] /\ linkUp \in BOOLEAN
        /\ taskListeners = {u \in TaskIds : tasks[u] \in Listening}
        /\ Streams = {u \in TaskIds : tasks[u] \in Streaming}
    BY DEF TasksIInv, TasksShape, LinkTypeOK, ListenersBelong, Streams
  <1>2. /\ UNCHANGED <<linkUp, era, downlink, tools, heardOf, results, unsent, atAgent, pieces>>
        /\ uplink' = uplink \/ (linkUp /\ uplink' = Append(uplink, t))
    BY <1>1 DEF SendTask, StreamTask, SendTimesOut, TakeItem, AskForMore, Abandon, Submit, linkVars,
           toolVars, farVars
  <1>3. LinkTypeOK' /\ uplink' \in Seq(TaskIds)
    <2>1. uplink \in Seq(TaskIds) /\ LinkTypeOK  BY <1>1 DEF TasksShape
    <2>2. Append(uplink, t) \in Seq(TaskIds)  BY <2>1
    <2>3. LinkTypeOK'  BY <1>2, <2>1 DEF LinkTypeOK
    <2> QED  BY <1>2, <2>1, <2>2, <2>3
  <1>4. FramesNew' /\ ToolsKept'
    BY <1>1, <1>2 DEF FramesNew, ToolsKept, ToolsAnsweredOnce
  <1>5. PICK s \in Standing :
          /\ tasks' = [tasks EXCEPT ![t] = s]
          /\ taskListeners' = IF s \in Listening THEN taskListeners \cup {t} ELSE taskListeners \ {t}
          /\ \/ /\ UNCHANGED <<isStreaming, manyStreams>>
                /\ s \in Streaming <=> tasks[t] \in Streaming
             \/ /\ isStreaming' = FALSE /\ manyStreams' = manyStreams
                /\ s \notin Streaming /\ tasks[t] \in Streaming
             \/ /\ isStreaming' = linkUp /\ manyStreams' = (manyStreams \/ Streams # {})
                /\ s \in Streaming <=> linkUp
    <2>1. CASE SendTask(t)
      <3> DEFINE w == IF linkUp THEN "sent" ELSE "refused send"
      <3>1. tasks[t] = "none" /\ t \notin taskListeners
        BY <1>1, <2>1 DEF SendTask, Unused, UnderWay
      <3>2. w \in Standing /\ (w \in Listening <=> linkUp) /\ w \notin Streaming
        BY <1>1 DEF Standing, UnderWay
      <3>3. /\ tasks' = [tasks EXCEPT ![t] = w] /\ UNCHANGED <<isStreaming, manyStreams>>
            /\ taskListeners' = IF linkUp THEN taskListeners \cup {t} ELSE taskListeners \ {t}
        BY <2>1, <3>1 DEF SendTask
      <3> QED  BY <3>1, <3>2, <3>3
    <2>2. CASE StreamTask(t)
      <3> DEFINE w == IF linkUp THEN "asked" ELSE "refused stream"
      <3>1. w \in Standing /\ w \in Listening /\ (w \in Streaming <=> linkUp)
        BY <1>1 DEF Standing, UnderWay
      <3>2. /\ tasks' = [tasks EXCEPT ![t] = w] /\ taskListeners' = taskListeners \cup {t}
            /\ isStreaming' = linkUp /\ manyStreams' = (manyStreams \/ Streams # {})
        BY <2>2 DEF StreamTask
      <3> QED  BY <3>1, <3>2
    <2>3. CASE SendTimesOut(t)
      <3>1. "timeout" \in Standing /\ "timeout" \notin Listening /\ "timeout" \notin Streaming
        BY DEF Standing, UnderWay
      <3>2. /\ tasks' = [tasks EXCEPT ![t] = "timeout"] /\ taskListeners' = taskListeners \ {t}
            /\ UNCHANGED <<isStreaming, manyStreams>> /\ tasks[t] = "sent"
        BY <2>3 DEF SendTimesOut, StopListening
      <3> QED  BY <3>1, <3>2
    <2>4. CASE TakeItem(t)
      <3>1. tasks[t] = "asked" /\ t \in taskListeners /\ UNCHANGED manyStreams
        BY <1>1, <2>4 DEF TakeItem, UnderWay
      <3>2. CASE UNCHANGED <<taskListeners, isStreaming>> /\ tasks' = [tasks EXCEPT ![t] = "yielded"]
        <4>1. "yielded" \in Standing /\ "yielded" \in Listening  BY DEF Standing, UnderWay
        <4> QED  BY <3>1, <3>2, <4>1
      <3>3. ASSUME NEW e \in {"complete", "error"}, tasks' = [tasks EXCEPT ![t] = e],
                   taskListeners' = taskListeners \ {t}, isStreaming' = FALSE
            PROVE  \E s \in Standing :
                     /\ tasks' = [tasks EXCEPT ![t] = s]
                     /\ taskListeners' = IF s \in Listening THEN taskListeners \cup {t}
                                         ELSE taskListeners \ {t}
                     /\ isStreaming' = FALSE /\ manyStreams' = manyStreams
                     /\ s \notin Streaming /\ tasks[t] \in Streaming
        <4>1. e \in Standing /\ e \notin Listening /\ e \notin Streaming  BY DEF Standing, UnderWay
        <4> QED  BY <3>1, <3>3, <4>1
      <3>4. \/ UNCHANGED <<taskListeners, isStreaming>> /\ tasks' = [tasks EXCEPT ![t] = "yielded"]
            \/ \E e \in {"complete", "error"} :
                  /\ tasks' = [tasks EXCEPT ![t] = e]
                  /\ taskListeners' = taskListeners \ {t} /\ isStreaming' = FALSE
        BY <2>4 DEF TakeItem, StopListening
      <3> QED  BY <3>2, <3>3, <3>4
    <2>5. CASE AskForMore(t)
      <3>1. /\ tasks[t] = "yielded" /\ tasks' = [tasks EXCEPT ![t] = "asked"]
            /\ UNCHANGED <<taskListeners, isStreaming, manyStreams>>
        BY <2>5 DEF AskForMore
      <3>2. "asked" \in Standing /\ "asked" \in Listening /\ t \in taskListeners
        BY <1>1, <3>1 DEF Standing, UnderWay
      <3> QED  BY <3>1, <3>2
    <2>6. CASE Abandon(t)
      <3>1. /\ tasks[t] = "yielded" /\ tasks' = [tasks EXCEPT ![t] = "abandoned"]
            /\ UNCHANGED <<taskListeners, manyStreams>> /\ isStreaming' = FALSE
        BY <2>6 DEF Abandon
      <3>2. "abandoned" \in Standing /\ "abandoned" \in Listening /\ t \in taskListeners
        BY <1>1, <3>1 DEF Standing, UnderWay
      <3> QED  BY <3>1, <3>2
    <2> QED  BY <2>1, <2>2, <2>3, <2>4, <2>5, <2>6
  <1>6. /\ tasks' \in [TaskIds -> Standing] /\ ListenersBelong'
        /\ Streams' = IF s \in Streaming THEN Streams \cup {t} ELSE Streams \ {t}
    BY <1>1, <1>5, TaskStands
  <1>7. t \in Streams <=> tasks[t] \in Streaming  BY <1>1
  <1>8. isStreaming' \in BOOLEAN /\ manyStreams' \in BOOLEAN /\ StreamsKept'
    <2>1. isStreaming \in BOOLEAN /\ manyStreams \in BOOLEAN  BY <1>1 DEF TasksShape
    <2>2. ~manyStreams => (\A v, u \in Streams : v = u) /\ (isStreaming <=> Streams # {})
      BY <1>1 DEF StreamsKept, StreamingTold
    <2>3. isStreaming' \in BOOLEAN /\ manyStreams' \in BOOLEAN  BY <1>1, <1>5, <2>1
    <2>4. ~manyStreams' => (\A v, u \in Streams' : v = u) /\ (isStreaming' <=> Streams' # {})
      BY <1>1, <1>5, <1>6, <1>7, <2>1, <2>2
    <2> QED  BY <2>3, <2>4 DEF StreamsKept, StreamingTold
  <1>9. TasksShape'  BY <1>1, <1>2, <1>3, <1>6, <1>8 DEF TasksShape
  <1> QED  BY <1>4, <1>6, <1>8, <1>9 DEF TasksIInv

\* What the listeners and the streams are told rests.
LEMMA ListenersRest ==
  ASSUME ListenersBelong, StreamsKept,
         UNCHANGED <<tasks, taskListeners, isStreaming, manyStreams>>
  PROVE  ListenersBelong' /\ StreamsKept'
  BY DEF ListenersBelong, StreamsKept, StreamingTold, Streams

\* A tool has ended: its result is sent, or finds no connection.
LEMMA ToolEndsKeeps ==
  ASSUME TasksIInv, NEW c \in Calls, ToolEnds(c)
  PROVE  TasksIInv'
  <1>1. /\ TasksShape /\ FramesNew /\ ToolsKept /\ ListenersBelong /\ StreamsKept
        /\ c \in tools /\ tools' = tools \ {c} /\ SendResults({c})
        /\ UNCHANGED <<linkUp, era, uplink, downlink, tasks, taskListeners, isStreaming, manyStreams,
                       heardOf, atAgent, pieces>>
    BY DEF TasksIInv, ToolEnds, linkVars, listenVars, farVars
  <1>2. /\ ToolsAnsweredOnce /\ results \in [Calls -> Nat]
        /\ tools \subseteq heardOf /\ unsent \subseteq heardOf /\ tools \cap unsent = {}
        /\ heardOf \subseteq Calls
    BY <1>1 DEF TasksShape, ToolsKept
  <1>3. results[c] = 0 /\ c \in heardOf /\ c \notin unsent
    BY <1>1, <1>2 DEF ToolsAnsweredOnce
  <1>4. /\ results' = [d \in Calls |-> results[d] + (IF linkUp /\ d \in {c} THEN 1 ELSE 0)]
        /\ unsent' = IF linkUp THEN unsent ELSE unsent \cup {c}
    BY <1>1 DEF SendResults
  <1>5. ToolsKept'
    <2>1. tools' \subseteq heardOf' /\ unsent' \subseteq heardOf' /\ tools' \cap unsent' = {}
      BY <1>1, <1>2, <1>3, <1>4
    <2>2. ASSUME NEW d \in Calls
          PROVE  results'[d] = IF d \in heardOf' \ (tools' \cup unsent') THEN 1 ELSE 0
      <3>1. results[d] = IF d \in heardOf \ (tools \cup unsent) THEN 1 ELSE 0
        BY <1>2 DEF ToolsAnsweredOnce
      <3>2. CASE d = c  BY <1>1, <1>3, <1>4, <3>2
      <3>3. CASE d # c
        <4>1. results'[d] = results[d]  BY <1>2, <1>4, <3>3
        <4>2. d \in heardOf' \ (tools' \cup unsent') <=> d \in heardOf \ (tools \cup unsent)
          BY <1>1, <1>4, <3>3
        <4> QED  BY <3>1, <4>1, <4>2
      <3> QED  BY <3>2, <3>3
    <2> QED  BY <2>1, <2>2 DEF ToolsKept, ToolsAnsweredOnce
  <1>6. results' \in [Calls -> Nat]  BY <1>2, <1>4
  <1>7. TasksShape'  BY <1>1, <1>6 DEF TasksShape, LinkTypeOK
  <1>8. FramesNew'  BY <1>1 DEF FramesNew
  <1> QED  BY <1>1, <1>5, <1>7, <1>8, ListenersRest DEF TasksIInv

\* The first frame is taken, and what is heard of is no other frame's.
LEMMA FramesShrink ==
  ASSUME TasksShape, FramesNew, downlink # <<>>, downlink' = Tail(downlink),
         heardOf' \ heardOf \subseteq {<<downlink[1].of, downlink[1].number>>},
         heardOf' # heardOf => downlink[1].number > 0, pieces' = pieces
  PROVE  downlink' \in Seq(AnswerFrame) /\ FramesNew'
  <1> DEFINE n == Len(downlink)
  <1>1. /\ n \in Nat /\ DOMAIN downlink = 1..n /\ \A i \in 1..n : downlink[i] \in AnswerFrame
        /\ downlink \in Seq(AnswerFrame)
        /\ \A t \in TaskIds : pieces[t] \in Nat
    BY TasksParts DEF TasksShape
  <1>2. n # 0  BY <1>1
  <1>3. /\ Len(downlink') = n - 1 /\ downlink' \in Seq(AnswerFrame)
        /\ \A i \in 1..(n - 1) : downlink'[i] = downlink[i + 1]
    BY <1>1
  <1>4. \A i, j \in 1..n : downlink[i].number > 0 /\ SamePiece(downlink[i], downlink[j]) => i = j
    BY DEF FramesNew
  <1>5. \A i \in 1..n : BringsNews(downlink[i], pieces, heardOf)  BY DEF FramesNew
  <1> HIDE DEF n
  <1>6. ASSUME NEW i \in 1..(n - 1) PROVE BringsNews(downlink'[i], pieces', heardOf')
    <2>1. i + 1 \in 1..n /\ 1 \in 1..n /\ i + 1 # 1 /\ downlink'[i] = downlink[i + 1]
      BY <1>1, <1>2, <1>3
    <2> DEFINE f == downlink[i + 1]
               g == downlink[1]
    <2>2. BringsNews(f, pieces, heardOf)  BY <1>5, <2>1
    <2>3. f.number > 0 => ~SamePiece(f, g)  BY <1>4, <2>1
    <2> HIDE DEF f
    <2>4. f.number > 0 => <<f.of, f.number>> # <<g.of, g.number>>  BY <2>3 DEF SamePiece
    <2>5. BringsNews(f, pieces', heardOf')  BY <2>2, <2>4 DEF BringsNews
    <2> QED  BY <2>1, <2>5 DEF f
  <1>7. ASSUME NEW i \in 1..(n - 1), NEW j \in 1..(n - 1),
               downlink'[i].number > 0, SamePiece(downlink'[i], downlink'[j])
        PROVE  i = j
    <2>1. i + 1 \in 1..n /\ j + 1 \in 1..n  BY <1>1
    <2>2. downlink'[i] = downlink[i + 1] /\ downlink'[j] = downlink[j + 1]  BY <1>3
    <2>3. i + 1 = j + 1
      <3> DEFINE a == i + 1
                 b == j + 1
      <3>1. a \in 1..n /\ b \in 1..n /\ downlink[a].number > 0 /\ SamePiece(downlink[a], downlink[b])
        BY <1>7, <2>1, <2>2
      <3> HIDE DEF a, b
      <3>2. a = b  BY <1>4, <3>1
      <3> QED  BY <3>2 DEF a, b
    <2> QED  BY <2>3
  <1>8. \A c \in heardOf' : c[2] <= pieces'[c[1]]
    <2>1. \A c \in heardOf : c[2] <= pieces[c[1]]  BY DEF FramesNew
    <2>2. 1 \in 1..n  BY <1>1, <1>2
    <2>3. downlink[1].number <= pieces[downlink[1].of]  BY <1>5, <2>2 DEF BringsNews
    <2> QED  BY <2>1, <2>3
  <1> QED  BY <1>3, <1>6, <1>7, <1>8 DEF FramesNew

LEMMA ReceiveAnswerKeeps ==
  ASSUME TasksIInv, ReceiveAnswer
  PROVE  TasksIInv'
  <1> DEFINE f == downlink[1]
             t == f.of
             c == <<f.of, f.number>>
  <1>1. /\ TasksShape /\ FramesNew /\ ToolsKept /\ ListenersBelong /\ StreamsKept
        /\ downlink # <<>> /\ downlink' = Tail(downlink)
        /\ UNCHANGED <<linkUp, era, uplink, isStreaming, manyStreams, atAgent, pieces>>
    BY DEF TasksIInv, ReceiveAnswer, farVars
  <1>2. /\ Len(downlink) \in Nat /\ Len(downlink) # 0 /\ f \in AnswerFrame /\ Head(downlink) = f
        /\ \A u \in TaskIds : pieces[u] \in Nat /\ MaxPieces[u] \in Nat
        /\ \A u \in TaskIds : pieces[u] <= MaxPieces[u]
    <2>1. Len(downlink) \in Nat /\ Len(downlink) # 0  BY <1>1, TasksParts DEF TasksShape
    <2>2. 1 \in 1..Len(downlink)  BY <2>1
    <2>3. f \in AnswerFrame  BY <1>1, <2>2, TasksParts
    <2>4. Head(downlink) = f  BY <1>1 DEF TasksShape
    <2> QED  BY <1>1, <2>1, <2>3, <2>4, TasksParts DEF TasksShape
  <1>3. linkUp  BY <1>1 DEF TasksShape, LinkTypeOK
  <1>4. t \in TaskIds /\ f.number \in Nat  BY <1>2 DEF AnswerFrame
  <1>5. BringsNews(f, pieces, heardOf)
    <2>1. 1 \in 1..Len(downlink)  BY <1>2
    <2> QED  BY <1>1, <2>1 DEF FramesNew
  <1>6. /\ ToolsAnsweredOnce /\ results \in [Calls -> Nat]
        /\ tools \subseteq heardOf /\ unsent \subseteq heardOf /\ tools \cap unsent = {}
        /\ heardOf \subseteq Calls
    BY <1>1 DEF TasksShape, ToolsKept
  <1>7. ASSUME f.is = "tool"
        PROVE  c \in Calls /\ c \notin heardOf /\ results[c] = 0
    <2>1. f.number > 0 /\ f.number <= pieces[t] /\ c \notin heardOf
      BY <1>5, <1>7 DEF BringsNews
    <2>2. f.number \in 1..MaxPieces[t]
      <3> HIDE DEF t, f
      <3> QED  BY <1>2, <1>4, <2>1
    <2>3. c \in Calls  BY <1>4, <2>2, CallsAre
    <2> QED  BY <1>6, <2>1, <2>3 DEF ToolsAnsweredOnce
  <1>8. PICK e \in {"none", "runs", "answered"} :
          CASE e = "none" -> UNCHANGED <<heardOf, tools, results, unsent>>
            [] e = "runs" -> /\ heardOf' = heardOf \cup {c} /\ tools' = tools \cup {c}
                             /\ f.is = "tool" /\ UNCHANGED <<results, unsent>>
            [] OTHER -> /\ heardOf' = heardOf \cup {c} /\ f.is = "tool" /\ UNCHANGED <<tools, unsent>>
                        /\ results' = [d \in Calls |-> results[d] + IF d = c THEN 1 ELSE 0]
    <2>1. CASE UNCHANGED <<heardOf, tools, results, unsent>>  BY <2>1
    <2>2. CASE f.is = "tool" /\ HandleToolCall(f)
      <3>1. CASE f.known
        <4>1. /\ heardOf' = heardOf \cup {c} /\ tools' = tools \cup {c}
              /\ UNCHANGED <<results, unsent>>
          BY <2>2, <3>1 DEF HandleToolCall
        <4> HIDE DEF c, f
        <4> QED  BY <2>2, <4>1
      <3>2. CASE ~f.known
        <4>1. heardOf' = heardOf \cup {c} /\ SendResults({c}) /\ UNCHANGED tools
          BY <2>2, <3>2 DEF HandleToolCall
        <4>2. results' = [d \in Calls |-> results[d] + IF linkUp /\ d \in {c} THEN 1 ELSE 0]
              /\ unsent' = unsent
          BY <1>3, <4>1 DEF SendResults
        <4>3. results' = [d \in Calls |-> results[d] + IF d = c THEN 1 ELSE 0]
          BY <1>3, <4>2
        <4> HIDE DEF c, f
        <4> QED  BY <2>2, <4>1, <4>2, <4>3
      <3> QED  BY <3>1, <3>2
    <2> QED  BY <1>1, <1>2, <2>1, <2>2 DEF ReceiveAnswer, toolVars
  <1>9. ToolsKept' /\ results' \in [Calls -> Nat] /\ heardOf' \subseteq Calls
    <2> HIDE DEF c, f, t
    <2>1. CASE e = "none"
      <3>1. UNCHANGED <<heardOf, tools, results, unsent>>  BY <1>8, <2>1
      <3> QED  BY <1>1, <1>6, <3>1 DEF ToolsKept, ToolsAnsweredOnce
    <2>2. CASE e = "runs"
      <3>1. /\ heardOf' = heardOf \cup {c} /\ tools' = tools \cup {c} /\ UNCHANGED <<results, unsent>>
            /\ f.is = "tool"
        BY <1>8, <2>2
      <3>2. c \in Calls /\ c \notin heardOf /\ results[c] = 0  BY <1>7, <3>1
      <3>3. ASSUME NEW d \in Calls
            PROVE  results'[d] = IF d \in heardOf' \ (tools' \cup unsent') THEN 1 ELSE 0
        <4>1. results[d] = IF d \in heardOf \ (tools \cup unsent) THEN 1 ELSE 0
          BY <1>6 DEF ToolsAnsweredOnce
        <4>2. d \in heardOf' \ (tools' \cup unsent') <=> d \in heardOf \ (tools \cup unsent)
          BY <3>1, <3>2, <1>6
        <4> QED  BY <3>1, <4>1, <4>2
      <3> QED  BY <1>6, <3>1, <3>2, <3>3 DEF ToolsKept, ToolsAnsweredOnce
    <2>3. CASE e = "answered"
      <3>1. /\ heardOf' = heardOf \cup {c} /\ UNCHANGED <<tools, unsent>> /\ f.is = "tool"
            /\ results' = [d \in Calls |-> results[d] + IF d = c THEN 1 ELSE 0]
        BY <1>8, <2>3
      <3>2. c \in Calls /\ c \notin heardOf /\ results[c] = 0  BY <1>7, <3>1
      <3>3. ASSUME NEW d \in Calls
            PROVE  results'[d] = IF d \in heardOf' \ (tools' \cup unsent') THEN 1 ELSE 0
        <4>1. results[d] = IF d \in heardOf \ (tools \cup unsent) THEN 1 ELSE 0
          BY <1>6 DEF ToolsAnsweredOnce
        <4>2. CASE d = c  BY <1>6, <3>1, <3>2, <4>2
        <4>3. CASE d # c
          <5>1. results'[d] = results[d]  BY <1>6, <3>1, <4>3
          <5>2. d \in heardOf' \ (tools' \cup unsent') <=> d \in heardOf \ (tools \cup unsent)
            BY <3>1, <4>3
          <5> QED  BY <4>1, <5>1, <5>2
        <4> QED  BY <4>2, <4>3
      <3>4. results' \in [Calls -> Nat]  BY <1>6, <3>1
      <3> QED  BY <1>6, <3>1, <3>2, <3>3, <3>4 DEF ToolsKept, ToolsAnsweredOnce
    <2> QED  BY <2>1, <2>2, <2>3
  <1>10. FramesNew' /\ downlink' \in Seq(AnswerFrame)
    <2>1. heardOf' = heardOf \/ (heardOf' = heardOf \cup {c} /\ f.is = "tool")
      <3> HIDE DEF c, f
      <3> QED  BY <1>8
    <2>2. f.is = "tool" => f.number > 0  BY <1>5 DEF BringsNews
    <2>3. heardOf' \ heardOf \subseteq {<<downlink[1].of, downlink[1].number>>}
      BY <2>1
    <2>4. heardOf' # heardOf => downlink[1].number > 0  BY <2>1, <2>2
    <2> QED  BY <1>1, <2>3, <2>4, FramesShrink
  <1>11. tasks' \in [TaskIds -> Standing] /\ ListenersBelong' /\ Streams' = Streams
    <2>1. CASE UNCHANGED <<tasks, taskListeners>>
      BY <1>1, <2>1 DEF ListenersBelong, Streams, TasksShape
    <2>2. CASE /\ tasks[t] = "sent" /\ f.is \in {"complete", "error"}
               /\ tasks' = [tasks EXCEPT ![t] = f.is] /\ taskListeners' = StopListening(t)
      <3>1. PICK s \in {"complete", "error"} : s = f.is  BY <2>2
      <3> HIDE DEF f, t
      <3>2. s \in Standing /\ s \notin UnderWay \cup {"abandoned", "refused stream"}
        BY DEF Standing, UnderWay
      <3>3. taskListeners' = IF s \in UnderWay \cup {"abandoned", "refused stream"}
                             THEN taskListeners \cup {t} ELSE taskListeners \ {t}
        BY <2>2, <3>2 DEF StopListening
      <3>4. tasks' = [tasks EXCEPT ![t] = s]  BY <2>2, <3>1
      <3>5. tasks' \in [TaskIds -> Standing] /\ ListenersBelong' /\ Streams' = Streams \ {t}
        <4>1. /\ tasks' \in [TaskIds -> Standing] /\ ListenersBelong'
              /\ Streams' = IF s \in {"asked", "yielded"} THEN Streams \cup {t} ELSE Streams \ {t}
          BY <1>1, <1>4, <3>2, <3>3, <3>4, TaskStands
        <4> QED  BY <4>1
      <3>6. t \notin Streams  BY <2>2 DEF Streams
      <3> QED  BY <3>5, <3>6
    <2> QED  BY <1>2, <2>1, <2>2 DEF ReceiveAnswer, Listener, IsEnd, listenVars
  <1>12. StreamsKept'
    <2>1. UNCHANGED <<Streams, isStreaming, manyStreams>>  BY <1>1, <1>11
    <2> QED  BY <1>1, <2>1 DEF StreamsKept, StreamingTold
  <1>13. TasksShape'
    <2>1. LinkTypeOK'  BY <1>1, <1>3 DEF TasksShape, LinkTypeOK
    <2> QED  BY <1>1, <1>9, <1>10, <1>11, <2>1 DEF TasksShape
  <1> QED  BY <1>9, <1>10, <1>11, <1>12, <1>13 DEF TasksIInv

\* The connection is lost or restored, or the agent takes a task.
LEMMA TaskLinkKeeps ==
  ASSUME TasksIInv, AgentLinkLost \/ AgentLinkRestored \/ AgentTakes
  PROVE  TasksIInv'
  <1>1. /\ TasksShape /\ FramesNew /\ ToolsKept /\ ListenersBelong /\ StreamsKept
        /\ UNCHANGED <<tasks, taskListeners, isStreaming, manyStreams, tools, heardOf, results, unsent,
                       pieces>>
    BY DEF TasksIInv, AgentLinkLost, AgentLinkRestored, AgentTakes, listenVars, toolVars, farVars
  <1>2. ToolsKept'  BY <1>1 DEF ToolsKept, ToolsAnsweredOnce
  <1>3. uplink \in Seq(TaskIds) /\ downlink \in Seq(AnswerFrame) /\ LinkTypeOK /\ atAgent \subseteq TaskIds
    BY <1>1 DEF TasksShape
  <1>4. /\ downlink' = downlink \/ downlink' = <<>>
        /\ LinkTypeOK' /\ uplink' \in Seq(TaskIds) /\ atAgent' \subseteq TaskIds
    <2>1. CASE AgentLinkLost
      <3>1. uplink' = <<>> /\ downlink' = <<>> /\ era' = era /\ linkUp' = FALSE /\ atAgent' = {}
        BY <2>1 DEF AgentLinkLost, LinkLost
      <3>2. LinkTypeOK'  BY <1>3, <3>1 DEF LinkTypeOK
      <3>3. uplink' \in Seq(TaskIds)  BY <3>1
      <3> QED  BY <3>1, <3>2, <3>3
    <2>2. CASE AgentLinkRestored
      <3>1. /\ ~linkUp /\ linkUp' = TRUE /\ era < MaxEras /\ era' = era + 1
            /\ UNCHANGED <<uplink, downlink, atAgent>>
        BY <2>2 DEF AgentLinkRestored, LinkRestored, farVars
      <3>2. era + 1 \in 1..MaxEras  BY <1>3, <3>1, LinkAssumption DEF LinkTypeOK
      <3> QED  BY <1>3, <3>1, <3>2 DEF LinkTypeOK
    <2>3. CASE AgentTakes
      <3>1. /\ uplink # <<>> /\ uplink' = Tail(uplink) /\ atAgent' = atAgent \cup {Head(uplink)}
            /\ UNCHANGED <<linkUp, era, downlink>>
        BY <2>3 DEF AgentTakes
      <3>2. Tail(uplink) \in Seq(TaskIds) /\ Head(uplink) \in TaskIds  BY <1>3, <3>1
      <3> QED  BY <1>3, <3>1, <3>2 DEF LinkTypeOK
    <2> QED  BY <1>1, <2>1, <2>2, <2>3
  <1>5. downlink' \in Seq(AnswerFrame) /\ FramesNew'
    <2>1. CASE downlink' = downlink  BY <1>1, <1>3, <2>1 DEF FramesNew
    <2>2. CASE downlink' = <<>>
      <3>1. Len(downlink') = 0  BY <2>2
      <3>2. \A c \in heardOf : c[2] <= pieces[c[1]]  BY <1>1 DEF FramesNew
      <3> QED  BY <1>1, <2>2, <3>1, <3>2 DEF FramesNew
    <2> QED  BY <1>4, <2>1, <2>2
  <1>6. TasksShape'  BY <1>1, <1>4, <1>5 DEF TasksShape
  <1> QED  BY <1>1, <1>2, <1>5, <1>6, ListenersRest DEF TasksIInv

\* The frame the agent gives brings a piece that no other does.
LEMMA FramesGrow ==
  ASSUME TasksShape, FramesNew, NEW t \in TaskIds, NEW f \in AnswerFrame,
         downlink' = Append(downlink, f), heardOf' = heardOf,
         f.of = t, f.is = "tool" => f.number > 0,
         \/ f.number = 0 /\ pieces' = pieces
         \/ f.number = pieces[t] + 1 /\ pieces' = [pieces EXCEPT ![t] = @ + 1]
  PROVE  downlink' \in Seq(AnswerFrame) /\ FramesNew'
  <1> DEFINE n == Len(downlink)
  <1>1. /\ n \in Nat /\ \A i \in 1..n : downlink[i] \in AnswerFrame
        /\ \A u \in TaskIds : pieces[u] \in Nat
    BY TasksParts
  <1>2. /\ downlink \in Seq(AnswerFrame) /\ pieces \in [TaskIds -> Nat] /\ heardOf \subseteq Calls
    BY DEF TasksShape
  <1>3. /\ downlink' \in Seq(AnswerFrame) /\ Len(downlink') = n + 1 /\ downlink'[n + 1] = f
        /\ \A i \in 1..n : downlink'[i] = downlink[i]
    BY <1>2
  <1>4. \A i, j \in 1..n : downlink[i].number > 0 /\ SamePiece(downlink[i], downlink[j]) => i = j
    BY DEF FramesNew
  <1>5. \A i \in 1..n : BringsNews(downlink[i], pieces, heardOf)  BY DEF FramesNew
  <1>6. \A c \in heardOf : c[2] <= pieces[c[1]]  BY DEF FramesNew
  <1>7. \A u \in TaskIds : pieces'[u] \in Nat /\ pieces[u] <= pieces'[u]  BY <1>1, <1>2
  <1>8. f.number \in Nat /\ f.number <= pieces'[t] /\ (f.number > 0 => f.number > pieces[t])
    BY <1>1, <1>2 DEF AnswerFrame
  <1> HIDE DEF n
  <1>9. BringsNews(f, pieces', heardOf')
    <2>1. f.number > 0 => <<t, f.number>> \notin heardOf
      <3> SUFFICES ASSUME f.number > 0, <<t, f.number>> \in heardOf PROVE FALSE  OBVIOUS
      <3>1. f.number <= pieces[t]  BY <1>6
      <3> QED  BY <1>1, <1>8, <3>1
    <2> QED  BY <1>8, <2>1 DEF BringsNews
  <1>10. ASSUME NEW i \in 1..n
         PROVE  BringsNews(downlink[i], pieces', heardOf') /\ (f.number > 0 => ~SamePiece(downlink[i], f))
    <2> DEFINE g == downlink[i]
    <2>1. g \in AnswerFrame /\ BringsNews(g, pieces, heardOf)  BY <1>1, <1>5
    <2> HIDE DEF g
    <2>2. g.of \in TaskIds /\ g.number \in Nat /\ g.number <= pieces[g.of]
      BY <2>1 DEF AnswerFrame, BringsNews
    <2>3. g.number <= pieces'[g.of]
      <3>1. pieces[g.of] \in Nat /\ pieces'[g.of] \in Nat /\ pieces[g.of] <= pieces'[g.of]
        BY <1>1, <1>7, <2>2
      <3> QED  BY <2>2, <3>1
    <2>4. BringsNews(g, pieces', heardOf')  BY <2>1, <2>3 DEF BringsNews
    <2>5. f.number > 0 => ~SamePiece(g, f)
      <3> SUFFICES ASSUME f.number > 0, g.of = t, g.number = f.number PROVE FALSE  BY DEF SamePiece
      <3>1. g.number <= pieces[t] /\ g.number > pieces[t]  BY <1>8, <2>2
      <3> QED  BY <1>1, <2>2, <3>1
    <2> QED  BY <2>4, <2>5 DEF g
  <1>11. \A i \in 1..(n + 1) : BringsNews(downlink'[i], pieces', heardOf')
    <2>1. \A i \in 1..(n + 1) : i \in 1..n \/ i = n + 1  BY <1>1
    <2> QED  BY <1>3, <1>9, <1>10, <2>1
  <1>12. ASSUME NEW i \in 1..(n + 1), NEW j \in 1..(n + 1),
                downlink'[i].number > 0, SamePiece(downlink'[i], downlink'[j])
         PROVE  i = j
    <2>1. (i \in 1..n \/ i = n + 1) /\ (j \in 1..n \/ j = n + 1)  BY <1>1
    <2>2. CASE i \in 1..n /\ j \in 1..n
      <3>1. downlink'[i] = downlink[i] /\ downlink'[j] = downlink[j]  BY <1>3, <2>2
      <3> QED  BY <1>4, <1>12, <2>2, <3>1
    <2>3. CASE i \in 1..n /\ j = n + 1
      <3>1. downlink'[i] = downlink[i] /\ downlink'[j] = f  BY <1>3, <2>3
      <3>2. SamePiece(downlink[i], f) /\ f.number > 0  BY <1>12, <3>1 DEF SamePiece
      <3> QED  BY <1>10, <2>3, <3>2
    <2>4. CASE i = n + 1 /\ j \in 1..n
      <3>1. downlink'[i] = f /\ downlink'[j] = downlink[j]  BY <1>3, <2>4
      <3>2. SamePiece(downlink[j], f) /\ f.number > 0  BY <1>12, <3>1 DEF SamePiece
      <3> QED  BY <1>10, <2>4, <3>2
    <2> QED  BY <2>1, <2>2, <2>3, <2>4
  <1>13. \A c \in heardOf' : c[2] <= pieces'[c[1]]
    <2>1. ASSUME NEW c \in heardOf PROVE c[2] <= pieces'[c[1]]
      <3>1. c[1] \in TaskIds /\ c[2] \in Nat
        <4>1. PICK u \in TaskIds : c \in {u} \X (1..MaxPieces[u])  BY <1>2 DEF Calls
        <4>2. c[1] = u /\ c[2] \in 1..MaxPieces[u]  BY <4>1
        <4> QED  BY <4>2
      <3>2. c[2] <= pieces[c[1]] /\ pieces[c[1]] \in Nat  BY <1>1, <1>6, <3>1
      <3>3. pieces'[c[1]] \in Nat /\ pieces[c[1]] <= pieces'[c[1]]  BY <1>7, <3>1
      <3> QED  BY <3>1, <3>2, <3>3
    <2> QED  BY <2>1
  <1> QED  BY <1>3, <1>11, <1>12, <1>13 DEF FramesNew

LEMMA AgentGivesKeeps ==
  ASSUME TasksIInv, NEW t \in TaskIds, AgentGives(t)
  PROVE  TasksIInv'
  <1>1. /\ TasksShape /\ FramesNew /\ ToolsKept /\ ListenersBelong /\ StreamsKept
        /\ t \in atAgent
        /\ UNCHANGED <<linkUp, era, uplink, tasks, taskListeners, isStreaming, manyStreams, tools,
                       heardOf, results, unsent>>
    BY DEF TasksIInv, AgentGives, listenVars, toolVars
  <1>2. PICK is \in {"chunk", "tool", "complete", "error"}, more \in BOOLEAN, known \in BOOLEAN :
          /\ is \in {"chunk", "tool"} => more
          /\ more => pieces[t] < MaxPieces[t]
          /\ pieces' = [pieces EXCEPT ![t] = @ + IF more THEN 1 ELSE 0]
          /\ Bring([is |-> is, of |-> t, number |-> IF more THEN pieces[t] + 1 ELSE 0,
                    known |-> known])
          /\ atAgent' = IF is \in {"complete", "error"} THEN atAgent \ {t} ELSE atAgent
    BY DEF AgentGives
  <1> DEFINE f == [is |-> is, of |-> t, number |-> IF more THEN pieces[t] + 1 ELSE 0, known |-> known]
  <1>3. /\ pieces \in [TaskIds -> Nat] /\ MaxPieces[t] \in Nat
        /\ \A u \in TaskIds : pieces[u] <= MaxPieces[u]
        /\ linkUp /\ downlink' = Append(downlink, f)
    BY <1>1, <1>2, TasksParts DEF TasksShape, Bring
  <1>4. f \in AnswerFrame /\ f.of = t /\ (f.is = "tool" => f.number > 0)
    BY <1>2, <1>3 DEF AnswerFrame
  <1>5. \/ f.number = 0 /\ pieces' = pieces
        \/ f.number = pieces[t] + 1 /\ pieces' = [pieces EXCEPT ![t] = @ + 1]
    <2>1. CASE more  BY <1>2, <1>3, <2>1
    <2>2. CASE ~more
      <3>1. pieces' = [pieces EXCEPT ![t] = @ + 0] /\ pieces[t] + 0 = pieces[t]
        BY <1>2, <1>3, <2>2
      <3>2. pieces' = pieces  BY <1>3, <3>1
      <3> QED  BY <2>2, <3>2
    <2> QED  BY <1>2, <2>1, <2>2
  <1>6. pieces' \in [TaskIds -> Nat] /\ \A u \in TaskIds : pieces'[u] <= MaxPieces[u]
    BY <1>2, <1>3
  <1> HIDE DEF f
  <1>7. downlink' \in Seq(AnswerFrame) /\ FramesNew'
    BY <1>1, <1>3, <1>4, <1>5, FramesGrow
  <1>8. TasksShape'
    <2>1. LinkTypeOK'  BY <1>1, <1>3 DEF TasksShape, LinkTypeOK
    <2>2. atAgent' \subseteq TaskIds  BY <1>1, <1>2 DEF TasksShape
    <2> QED  BY <1>1, <1>6, <1>7, <2>1, <2>2 DEF TasksShape
  <1>9. ToolsKept'  BY <1>1 DEF ToolsKept, ToolsAnsweredOnce
  <1> QED  BY <1>1, <1>7, <1>8, <1>9, ListenersRest DEF TasksIInv

LEMMA TasksStart == AgentClientInit => TasksIInv
  <1>1. SUFFICES ASSUME AgentClientInit PROVE TasksIInv  OBVIOUS
  <1>2. /\ linkUp = TRUE /\ era = 1 /\ uplink = <<>> /\ downlink = <<>>
        /\ tasks = [t \in TaskIds |-> "none"] /\ taskListeners = {}
        /\ isStreaming = FALSE /\ manyStreams = FALSE
        /\ tools = {} /\ heardOf = {} /\ unsent = {} /\ results = [c \in Calls |-> 0]
        /\ atAgent = {} /\ pieces = [t \in TaskIds |-> 0]
    BY <1>1 DEF AgentClientInit, LinkInit
  <1>3. TasksShape
    <2>1. era \in 1..MaxEras  BY <1>2, LinkAssumption
    <2>2. "none" \in Standing  BY DEF Standing
    <2>3. \A t \in TaskIds : MaxPieces[t] \in Nat  BY AgentClientAssumption DEF TaskIds
    <2>4. \A t \in TaskIds : 0 <= MaxPieces[t]  BY <2>3
    <2>5. LinkTypeOK  BY <1>2, <2>1 DEF LinkTypeOK
    <2>6. uplink \in Seq(TaskIds) /\ downlink \in Seq(AnswerFrame)  BY <1>2
    <2>7. tasks \in [TaskIds -> Standing] /\ results \in [Calls -> Nat]  BY <1>2, <2>2
    <2>8. pieces \in [TaskIds -> Nat] /\ \A t \in TaskIds : pieces[t] <= MaxPieces[t]  BY <1>2, <2>4
    <2> QED  BY <1>2, <2>5, <2>6, <2>7, <2>8 DEF TasksShape
  <1>4. FramesNew
    <2>1. Len(downlink) = 0  BY <1>2
    <2> QED  BY <1>2, <2>1 DEF FramesNew
  <1>5. ToolsKept  BY <1>2 DEF ToolsKept, ToolsAnsweredOnce
  <1>6. ListenersBelong  BY <1>2 DEF ListenersBelong, UnderWay
  <1>7. StreamsKept  BY <1>2 DEF StreamsKept, StreamingTold, Streams
  <1> QED  BY <1>3, <1>4, <1>5, <1>6, <1>7 DEF TasksIInv

LEMMA TasksStep ==
  ASSUME TasksIInv, [AgentClientNext]_agentClientVars
  PROVE  TasksIInv'
  <1>1. CASE AgentClientNext
    BY <1>1, ApplicationKeeps, AgentGivesKeeps, ToolEndsKeeps, ReceiveAnswerKeeps, TaskLinkKeeps
    DEF AgentClientNext
  <1>2. CASE UNCHANGED agentClientVars
    <2>1. UNCHANGED <<linkUp, era, uplink, downlink, tasks, taskListeners, isStreaming, manyStreams,
                      tools, heardOf, results, unsent, atAgent, pieces>>
      BY <1>2 DEF agentClientVars, linkVars, listenVars, toolVars, farVars
    <2>2. TasksShape'  BY <2>1 DEF TasksIInv, TasksShape, LinkTypeOK
    <2>3. FramesNew' /\ ToolsKept'  BY <2>1 DEF TasksIInv, FramesNew, ToolsKept, ToolsAnsweredOnce
    <2> QED  BY <2>1, <2>2, <2>3, ListenersRest DEF TasksIInv
  <1> QED  BY <1>1, <1>2

LEMMA TasksRight == TasksIInv => TasksApart
  BY DEF TasksIInv, ToolsKept, StreamsKept, TasksApart

-----------------------------------------------------------------------------
(* What becomes of the answers.  While frames of an answer may come, those *)
(* on their way are the pieces the listener has not heard, in order; the   *)
(* end comes behind all of them.  So what is heard is whole at the end.    *)

StreamItem == [is : {"piece", "complete", "error"}, number : Nat]

\* The end has been heard of.
EndHeard(pending) == pending # <<>> /\ IsEnd(pending[Len(pending)])

\* How a task stands to its answer: what it has, what it has in its queue, whether
\* it listens, the pieces given, whether it is still to be taken by the agent,
\* whether anything may come, and the pieces on their way.
AnswerStands(has, pending, standing, listens, all, waits, live, coming) ==
    /\ \A k \in 1..Len(has) : has[k] = k
    /\ \A k \in 1..Len(pending) : \/ pending[k] = AnswerItem("piece", Len(has) + k)
                                  \/ k = Len(pending) /\ IsEnd(pending[k])
    /\ standing = "sent" => pending = <<>>
    /\ standing = "none" => ~waits
    /\ standing = "none" \/ waits => all = 0 /\ has = <<>> /\ pending = <<>> /\ ~live
    /\ ~EndHeard(pending) => Len(has) + Len(pending) <= all
    /\ listens /\ live => \A n \in 1..all : n > Len(has) + Len(pending) <=> n \in coming
    /\ EndHeard(pending) => ~live /\ Len(has) + Len(pending) = all + 1
    /\ standing = "complete" => ~live /\ ~waits /\ Len(has) = all

Waits(t) == \E i \in 1..Len(uplink) : uplink[i] = t
Live(t) == t \in atAgent \/ \E i \in 1..Len(downlink) : downlink[i].of = t
Coming(t) == {n \in 1..pieces[t] :
                \E i \in 1..Len(downlink) : downlink[i].of = t /\ downlink[i].number = n}

TaskFits(t) ==
    AnswerStands(collected[t], queues[t], tasks[t], t \in taskListeners, pieces[t],
                 Waits(t), Live(t), Coming(t))
EachFits == \A t \in TaskIds : TaskFits(t)

\* The frames of an answer come in the order of its pieces, and its end comes last.
FramesInOrder ==
    /\ \A i, j \in 1..Len(downlink) : i < j /\ downlink[i].of = downlink[j].of =>
          /\ ~IsEnd(downlink[i])
          /\ downlink[i].number > 0 /\ downlink[j].number > 0 =>
               downlink[i].number < downlink[j].number
    /\ \A i \in 1..Len(downlink) : IsEnd(downlink[i]) => downlink[i].of \notin atAgent

SentOnce == \A i, j \in 1..Len(uplink) : uplink[i] = uplink[j] => i = j

AnswersShape == collected \in [TaskIds -> Seq(Nat)] /\ queues \in [TaskIds -> Seq(StreamItem)]

AnswersIInv == TasksIInv /\ AnswersShape /\ EachFits /\ FramesInOrder /\ SentOnce

\* Less may come, or the task stands differently: what it has is still right.
LEMMA StandsOn ==
  ASSUME NEW has, NEW pending, NEW s, NEW l, NEW all, NEW w, NEW live, NEW c,
         NEW s2, NEW l2, NEW w2, NEW live2, NEW c2,
         AnswerStands(has, pending, s, l, all, w, live, c),
         s2 = s \/ s2 \notin {"none", "sent", "complete"},
         w2 => w, live2 => live, l2 /\ live2 => l /\ c2 = c
  PROVE  AnswerStands(has, pending, s2, l2, all, w2, live2, c2)
  BY DEF AnswerStands

\* A task is sent, or cannot be.
LEMMA StandsSent ==
  ASSUME NEW has, NEW pending, NEW l, NEW all, NEW w, NEW live, NEW c, NEW s2, NEW l2, NEW w2,
         AnswerStands(has, pending, "none", l, all, w, live, c), s2 \notin {"none", "complete"}
  PROVE  AnswerStands(has, pending, s2, l2, all, w2, live, c)
  <1>1. has = <<>> /\ pending = <<>> /\ all = 0 /\ ~live  BY DEF AnswerStands
  <1>2. ~EndHeard(pending)  BY <1>1 DEF EndHeard
  <1> QED  BY <1>1, <1>2 DEF AnswerStands

\* The agent takes it.
LEMMA StandsTaken ==
  ASSUME NEW has, NEW pending, NEW s, NEW l, NEW all, NEW w, NEW live, NEW c, NEW w2, NEW live2, NEW c2,
         AnswerStands(has, pending, s, l, all, w, live, c), w, ~w2
  PROVE  AnswerStands(has, pending, s, l, all, w2, live2, c2)
  <1>1. has = <<>> /\ pending = <<>> /\ all = 0 /\ s # "none" /\ s # "complete"
    BY DEF AnswerStands
  <1>2. ~EndHeard(pending)  BY <1>1 DEF EndHeard
  <1>3. \A n \in 1..all : FALSE  BY <1>1
  <1> QED  BY <1>1, <1>2, <1>3 DEF AnswerStands

\* The agent gives a piece.
LEMMA StandsGiven ==
  ASSUME NEW has \in Seq(Nat), NEW pending \in Seq(StreamItem), NEW s, NEW l, NEW all \in Nat, NEW w,
         NEW live, NEW c, NEW c2, NEW live2,
         AnswerStands(has, pending, s, l, all, w, live, c), live,
         \A n \in 1..all : n \in c2 <=> n \in c, all + 1 \in c2
  PROVE  AnswerStands(has, pending, s, l, all + 1, w, live2, c2)
  <1>1. Len(has) \in Nat /\ Len(pending) \in Nat  BY LenProperties
  <1>2. ~EndHeard(pending) /\ s # "none" /\ ~w /\ s # "complete"  BY DEF AnswerStands
  <1>3. Len(has) + Len(pending) <= all + 1 /\ all + 1 > Len(has) + Len(pending)
    BY <1>1, <1>2 DEF AnswerStands
  <1>4. ASSUME l, NEW n \in 1..(all + 1) PROVE n > Len(has) + Len(pending) <=> n \in c2
    <2>1. n = all + 1 \/ n \in 1..all  BY <1>4
    <2>2. n \in 1..all => (n > Len(has) + Len(pending) <=> n \in c)  BY <1>4 DEF AnswerStands
    <2> QED  BY <1>3, <2>1, <2>2
  <1> QED  BY <1>2, <1>3, <1>4 DEF AnswerStands

\* The listener hears the next piece.
LEMMA NextPiece ==
  ASSUME NEW has \in Seq(Nat), NEW pending \in Seq(StreamItem), NEW s, NEW all \in Nat, NEW w,
         NEW l, NEW live, NEW c, NEW n \in c,
         AnswerStands(has, pending, s, l, all, w, live, c), l, live,
         c \subseteq 1..all, \A m \in c : n <= m
  PROVE  n = Len(has) + Len(pending) + 1 /\ ~EndHeard(pending) /\ n \in 1..all
  <1> DEFINE k == Len(has) + Len(pending)
  <1>1. k \in Nat  BY LenProperties
  <1>2. ~EndHeard(pending) /\ \A m \in 1..all : m > k <=> m \in c  BY DEF AnswerStands
  <1> HIDE DEF k
  <1>3. n \in 1..all /\ n > k  BY <1>2
  <1>4. k + 1 \in 1..all /\ k + 1 > k  BY <1>1, <1>3
  <1>5. n <= k + 1  BY <1>2, <1>4
  <1>6. n = k + 1  BY <1>1, <1>3, <1>5
  <1> QED  BY <1>2, <1>3, <1>6 DEF k

\* send() has it in its answer ...
LEMMA StandsCollected ==
  ASSUME NEW has \in Seq(Nat), NEW pending \in Seq(StreamItem), NEW all \in Nat, NEW w,
         NEW l, NEW live, NEW c, NEW n \in c, NEW c2, NEW s2,
         AnswerStands(has, pending, "sent", l, all, w, live, c), l, live,
         c \subseteq 1..all, \A m \in c : n <= m, c2 = c \ {n}
  PROVE  Append(has, n) \in Seq(Nat) /\ AnswerStands(Append(has, n), pending, "sent", l, all, w, live, c2)
  <1>1. n = Len(has) + Len(pending) + 1 /\ ~EndHeard(pending) /\ n \in 1..all  BY NextPiece
  <1>2. pending = <<>> /\ Len(pending) = 0 /\ Len(has) \in Nat  BY LenProperties DEF AnswerStands
  <1> DEFINE h == Append(has, n)
  <1>3. /\ h \in Seq(Nat) /\ Len(h) = Len(has) + 1 /\ h[Len(has) + 1] = n
        /\ \A k \in 1..Len(has) : h[k] = has[k]
    BY <1>1
  <1> HIDE DEF h
  <1>4. ASSUME NEW k \in 1..Len(h) PROVE h[k] = k
    <2>1. k \in 1..Len(has) \/ k = Len(has) + 1  BY <1>2, <1>3
    <2>2. k \in 1..Len(has) => has[k] = k  BY DEF AnswerStands
    <2> QED  BY <1>1, <1>2, <1>3, <2>1, <2>2
  <1>5. ASSUME NEW m \in 1..all PROVE m > Len(h) + Len(pending) <=> m \in c2
    <2>1. m > Len(has) + Len(pending) <=> m \in c  BY DEF AnswerStands
    <2> QED  BY <1>1, <1>2, <1>3, <2>1
  <1>6. ~w  BY DEF AnswerStands
  <1>7. Len(h) + Len(pending) <= all  BY <1>1, <1>2, <1>3
  <1>8. AnswerStands(h, pending, "sent", l, all, w, live, c2)
    BY <1>1, <1>2, <1>4, <1>5, <1>6, <1>7 DEF AnswerStands
  <1> QED  BY <1>3, <1>8 DEF h

\* ... a stream has it in its queue.
LEMMA StandsQueued ==
  ASSUME NEW has \in Seq(Nat), NEW pending \in Seq(StreamItem), NEW s, NEW all \in Nat, NEW w,
         NEW l, NEW live, NEW c, NEW n \in c, NEW c2,
         AnswerStands(has, pending, s, l, all, w, live, c), l, live, s # "sent",
         c \subseteq 1..all, \A m \in c : n <= m, c2 = c \ {n}
  PROVE  LET p == Append(pending, AnswerItem("piece", n))
         IN p \in Seq(StreamItem) /\ AnswerStands(has, p, s, l, all, w, live, c2)
  <1>1. n = Len(has) + Len(pending) + 1 /\ ~EndHeard(pending) /\ n \in 1..all  BY NextPiece
  <1>2. Len(pending) \in Nat /\ Len(has) \in Nat  BY LenProperties
  <1> DEFINE e == AnswerItem("piece", n)
             p == Append(pending, e)
  <1>3. e \in StreamItem /\ e.is = "piece"  BY <1>1 DEF AnswerItem, StreamItem
  <1> HIDE DEF e
  <1>4. /\ p \in Seq(StreamItem) /\ Len(p) = Len(pending) + 1 /\ p[Len(pending) + 1] = e
        /\ \A k \in 1..Len(pending) : p[k] = pending[k]
    BY <1>3
  <1>5. p # <<>>  BY <1>2, <1>4
  <1> HIDE DEF p
  <1>6. ~EndHeard(p)  BY <1>3, <1>4 DEF EndHeard, IsEnd
  <1>7. ASSUME NEW k \in 1..Len(p) PROVE p[k] = AnswerItem("piece", Len(has) + k)
    <2>1. CASE k \in 1..Len(pending)
      <3>1. pending[k] = AnswerItem("piece", Len(has) + k) \/ (k = Len(pending) /\ IsEnd(pending[k]))
        BY <2>1 DEF AnswerStands
      <3>2. pending # <<>>  BY <2>1
      <3>3. ~(k = Len(pending) /\ IsEnd(pending[k]))  BY <1>1, <3>2 DEF EndHeard
      <3> QED  BY <1>4, <2>1, <3>1, <3>3
    <2>2. CASE k = Len(pending) + 1
      <3>1. n = Len(has) + k  BY <1>1, <1>2, <2>2
      <3> QED  BY <1>4, <2>2, <3>1 DEF e
    <2> QED  BY <1>2, <1>4, <2>1, <2>2
  <1>8. ASSUME NEW m \in 1..all PROVE m > Len(has) + Len(p) <=> m \in c2
    <2>1. m > Len(has) + Len(pending) <=> m \in c  BY DEF AnswerStands
    <2> QED  BY <1>1, <1>2, <1>4, <2>1
  <1>9. ~w /\ s # "none" /\ s # "complete" /\ \A k \in 1..Len(has) : has[k] = k  BY DEF AnswerStands
  <1>10. Len(has) + Len(p) <= all  BY <1>1, <1>2, <1>4
  <1>11. AnswerStands(has, p, s, l, all, w, live, c2)
    BY <1>6, <1>7, <1>8, <1>9, <1>10 DEF AnswerStands
  <1> QED  BY <1>4, <1>11 DEF p, e

\* All that was given has been heard when nothing is on its way.
LEMMA AllHeard ==
  ASSUME NEW has \in Seq(Nat), NEW pending \in Seq(StreamItem), NEW s, NEW all \in Nat, NEW w,
         NEW l, NEW live, NEW c,
         AnswerStands(has, pending, s, l, all, w, live, c), l, live, c = {}
  PROVE  Len(has) + Len(pending) = all /\ ~EndHeard(pending) /\ ~w /\ s # "none" /\ s # "complete"
  <1>1. Len(has) + Len(pending) \in Nat  BY LenProperties
  <1>2. ~EndHeard(pending) /\ Len(has) + Len(pending) <= all  BY DEF AnswerStands
  <1>3. \A n \in 1..all : ~(n > Len(has) + Len(pending))  BY DEF AnswerStands
  <1>4. ~(all > Len(has) + Len(pending))
    <2>1. all > Len(has) + Len(pending) => all \in 1..all  BY <1>1
    <2> QED  BY <1>3, <2>1
  <1>5. ~w /\ s # "none" /\ s # "complete"  BY DEF AnswerStands
  <1> QED  BY <1>1, <1>2, <1>4, <1>5

\* The end comes: send() is over with it ...
LEMMA StandsDone ==
  ASSUME NEW has \in Seq(Nat), NEW pending \in Seq(StreamItem), NEW all \in Nat, NEW w,
         NEW l, NEW live, NEW c, NEW s2 \in {"complete", "error"}, NEW l2, NEW live2, NEW c2,
         AnswerStands(has, pending, "sent", l, all, w, live, c), l, live, c = {}, ~live2
  PROVE  AnswerStands(has, pending, s2, l2, all, w, live2, c2)
  <1>1. Len(has) + Len(pending) = all /\ ~EndHeard(pending) /\ ~w  BY AllHeard
  <1>2. pending = <<>> /\ Len(pending) = 0 /\ Len(has) \in Nat  BY LenProperties DEF AnswerStands
  <1>3. Len(has) = all  BY <1>1, <1>2
  <1> QED  BY <1>1, <1>2, <1>3 DEF AnswerStands

\* ... and a stream has it behind everything else.
LEMMA StandsClosed ==
  ASSUME NEW has \in Seq(Nat), NEW pending \in Seq(StreamItem), NEW s, NEW all \in Nat, NEW w,
         NEW l, NEW live, NEW c, NEW e \in StreamItem, IsEnd(e), NEW l2, NEW live2, NEW c2,
         AnswerStands(has, pending, s, l, all, w, live, c), l, live, c = {}, ~live2, s # "sent"
  PROVE  LET p == Append(pending, e)
         IN p \in Seq(StreamItem) /\ AnswerStands(has, p, s, l2, all, w, live2, c2)
  <1> DEFINE p == Append(pending, e)
  <1>1. Len(has) + Len(pending) = all /\ ~EndHeard(pending) /\ ~w /\ s # "none" /\ s # "complete"
    BY AllHeard
  <1>2. Len(pending) \in Nat /\ Len(has) \in Nat  BY LenProperties
  <1>3. /\ p \in Seq(StreamItem) /\ Len(p) = Len(pending) + 1 /\ p[Len(pending) + 1] = e
        /\ \A k \in 1..Len(pending) : p[k] = pending[k]
    OBVIOUS
  <1>4. p # <<>>  BY <1>2, <1>3
  <1> HIDE DEF p
  <1>5. EndHeard(p) /\ Len(has) + Len(p) = all + 1  BY <1>1, <1>2, <1>3, <1>4 DEF EndHeard
  <1>6. ASSUME NEW k \in 1..Len(p)
        PROVE  p[k] = AnswerItem("piece", Len(has) + k) \/ (k = Len(p) /\ IsEnd(p[k]))
    <2>1. CASE k \in 1..Len(pending)
      <3>1. pending[k] = AnswerItem("piece", Len(has) + k) \/ (k = Len(pending) /\ IsEnd(pending[k]))
        BY <2>1 DEF AnswerStands
      <3>2. pending # <<>>  BY <2>1
      <3>3. ~(k = Len(pending) /\ IsEnd(pending[k]))  BY <1>1, <3>2 DEF EndHeard
      <3> QED  BY <1>3, <2>1, <3>1, <3>3
    <2>2. CASE k = Len(pending) + 1  BY <1>3, <2>2
    <2> QED  BY <1>2, <1>3, <2>1, <2>2
  <1>7. \A k \in 1..Len(has) : has[k] = k  BY DEF AnswerStands
  <1>8. AnswerStands(has, p, s, l2, all, w, live2, c2)
    BY <1>1, <1>5, <1>6, <1>7 DEF AnswerStands
  <1> QED  BY <1>3, <1>8 DEF p

\* A stream yields the first piece of its queue ...
LEMMA StandsYielded ==
  ASSUME NEW has \in Seq(Nat), NEW pending \in Seq(StreamItem), NEW s, NEW all \in Nat, NEW w,
         NEW l, NEW live, NEW c,
         AnswerStands(has, pending, s, l, all, w, live, c), pending # <<>>, Head(pending).is = "piece"
  PROVE  LET h == Append(has, Head(pending).number)
             p == Tail(pending)
         IN /\ h \in Seq(Nat) /\ p \in Seq(StreamItem)
            /\ AnswerStands(h, p, "yielded", l, all, w, live, c)
  <1> DEFINE n == Head(pending).number
             h == Append(has, n)
             p == Tail(pending)
  <1>1. Len(pending) \in Nat \ {0} /\ Len(has) \in Nat /\ Head(pending) = pending[1]
    BY LenProperties, EmptySeq
  <1>2. /\ p \in Seq(StreamItem) /\ Len(p) = Len(pending) - 1
        /\ \A k \in 1..Len(p) : p[k] = pending[k + 1]
    BY <1>1
  <1>3. 1 \in 1..Len(pending) /\ ~IsEnd(pending[1])  BY <1>1 DEF IsEnd
  <1>4. pending[1] = AnswerItem("piece", Len(has) + 1)  BY <1>3 DEF AnswerStands
  <1>5. n = Len(has) + 1  BY <1>1, <1>4 DEF AnswerItem
  <1> HIDE DEF n
  <1>6. /\ h \in Seq(Nat) /\ Len(h) = Len(has) + 1 /\ h[Len(has) + 1] = n
        /\ \A k \in 1..Len(has) : h[k] = has[k]
    BY <1>1, <1>5
  <1> HIDE DEF h, p
  <1>7. Len(h) + Len(p) = Len(has) + Len(pending)  BY <1>1, <1>2, <1>6
  <1>8. EndHeard(p) <=> EndHeard(pending)
    <2>1. CASE p = <<>>
      <3>1. Len(pending) = 1  BY <1>1, <1>2, <2>1
      <3> QED  BY <1>3, <2>1, <3>1 DEF EndHeard
    <2>2. CASE p # <<>>
      <3>1. Len(p) # 0 /\ Len(p) \in Nat  BY <1>2, <2>2, LenProperties, EmptySeq
      <3>2. Len(p) \in 1..Len(p) /\ Len(p) + 1 = Len(pending)  BY <1>1, <1>2, <3>1
      <3> QED  BY <1>2, <2>2, <3>2 DEF EndHeard
    <2> QED  BY <2>1, <2>2
  <1>9. ASSUME NEW k \in 1..Len(h) PROVE h[k] = k
    <2>1. k \in 1..Len(has) \/ k = Len(has) + 1  BY <1>1, <1>6
    <2>2. k \in 1..Len(has) => has[k] = k  BY DEF AnswerStands
    <2> QED  BY <1>5, <1>6, <2>1, <2>2
  <1>10. ASSUME NEW k \in 1..Len(p)
         PROVE  p[k] = AnswerItem("piece", Len(h) + k) \/ (k = Len(p) /\ IsEnd(p[k]))
    <2>1. k + 1 \in 1..Len(pending) /\ (k + 1 = Len(pending) => k = Len(p))
          /\ Len(has) + (k + 1) = Len(h) + k
      BY <1>1, <1>2, <1>6
    <2>2. \/ pending[k + 1] = AnswerItem("piece", Len(has) + (k + 1))
          \/ k + 1 = Len(pending) /\ IsEnd(pending[k + 1])
      BY <2>1 DEF AnswerStands
    <2> QED  BY <1>2, <2>1, <2>2
  <1>11. ~(s = "none" \/ w)  BY DEF AnswerStands
  <1>12. AnswerStands(h, p, "yielded", l, all, w, live, c)
    BY <1>7, <1>8, <1>9, <1>10, <1>11 DEF AnswerStands
  <1> QED  BY <1>2, <1>6, <1>12 DEF h, p, n

\* ... or ends with the end that is in it, and then there is nothing else.
LEMMA StandsReturned ==
  ASSUME NEW has \in Seq(Nat), NEW pending \in Seq(StreamItem), NEW s, NEW all \in Nat, NEW w,
         NEW l, NEW live, NEW c, NEW s2 \in {"complete", "error"}, NEW l2,
         AnswerStands(has, pending, s, l, all, w, live, c), pending # <<>>, Head(pending).is = s2
  PROVE  Tail(pending) \in Seq(StreamItem) /\ AnswerStands(has, Tail(pending), s2, l2, all, w, live, c)
  <1>1. Len(pending) \in Nat \ {0} /\ Len(has) \in Nat /\ Head(pending) = pending[1]
    BY LenProperties, EmptySeq
  <1>2. 1 \in 1..Len(pending) /\ IsEnd(pending[1]) /\ pending[1].is # "piece"  BY <1>1 DEF IsEnd
  <1>3. pending[1] # AnswerItem("piece", Len(has) + 1)  BY <1>2 DEF AnswerItem
  <1>4. Len(pending) = 1  BY <1>2, <1>3 DEF AnswerStands
  <1>5. EndHeard(pending)  BY <1>2, <1>4 DEF EndHeard
  <1>6. ~live /\ Len(has) = all
    <2>1. ~live /\ Len(has) + Len(pending) = all + 1  BY <1>5 DEF AnswerStands
    <2> QED  BY <1>1, <1>4, <2>1
  <1>7. Tail(pending) \in Seq(StreamItem) /\ Tail(pending) = <<>>
    <2>1. Tail(pending) \in Seq(StreamItem) /\ Len(Tail(pending)) = 0  BY <1>1, <1>4
    <2> QED  BY <2>1, EmptySeq
  <1>8. ~w  BY DEF AnswerStands
  <1>9. ~EndHeard(<<>>) /\ Len(<<>>) = 0  BY DEF EndHeard
  <1>10. \A k \in 1..Len(has) : has[k] = k  BY DEF AnswerStands
  <1>11. AnswerStands(has, <<>>, s2, l2, all, w, live, c)
    BY <1>1, <1>6, <1>8, <1>9, <1>10 DEF AnswerStands
  <1> QED  BY <1>7, <1>11

-----------------------------------------------------------------------------

\* A task that a step does not concern, or only lets go of.
LEMMA TaskRests ==
  ASSUME NEW u \in TaskIds, TaskFits(u),
         collected'[u] = collected[u], queues'[u] = queues[u], pieces'[u] = pieces[u],
         tasks'[u] = tasks[u] \/ tasks'[u] \notin {"none", "sent", "complete"},
         Waits(u)' => Waits(u), Live(u)' => Live(u),
         u \in taskListeners' /\ Live(u)' => u \in taskListeners /\ Coming(u)' = Coming(u)
  PROVE  TaskFits(u)'
  BY DEF TaskFits, AnswerStands

\* The frames rest.
LEMMA FramesRest ==
  ASSUME UNCHANGED <<downlink, atAgent, pieces>>
  PROVE  /\ \A u \in TaskIds : /\ Live(u)' <=> Live(u)
                               /\ Coming(u)' = Coming(u) /\ pieces'[u] = pieces[u]
         /\ FramesInOrder => FramesInOrder'
  <1>1. \A u \in TaskIds : (Live(u)' <=> Live(u)) /\ pieces'[u] = pieces[u]  BY DEF Live
  <1>2. \A u \in TaskIds : Coming(u)' = Coming(u)  BY DEF Coming
  <1>3. FramesInOrder => FramesInOrder'  BY DEF FramesInOrder
  <1> QED  BY <1>1, <1>2, <1>3

\* The application sends a task.
LEMMA SentFits ==
  ASSUME AnswersIInv, NEW t \in TaskIds, SendTask(t) \/ StreamTask(t)
  PROVE  AnswersShape' /\ EachFits' /\ FramesInOrder' /\ SentOnce'
  <1>1. /\ Unused(t) /\ Submit(t) /\ UNCHANGED <<downlink, atAgent, pieces, collected, queues>>
        /\ \E s \in {"sent", "asked", "refused send", "refused stream"} :
              tasks' = [tasks EXCEPT ![t] = s]
        /\ taskListeners' \in {taskListeners, taskListeners \cup {t}}
    BY DEF SendTask, StreamTask, farVars, toolVars
  <1>2. /\ tasks[t] = "none" /\ tasks'[t] \notin {"none", "complete"}
        /\ \A u \in TaskIds \ {t} : tasks'[u] = tasks[u]
    BY <1>1 DEF Unused, AnswersIInv, TasksIInv, TasksShape
  <1>3. TaskFits(t) /\ uplink \in Seq(TaskIds)
    BY DEF AnswersIInv, EachFits, TasksIInv, TasksShape
  <1>4. ~Waits(t)  BY <1>2, <1>3 DEF TaskFits, AnswerStands
  <1>5. uplink' = uplink \/ uplink' = Append(uplink, t)  BY <1>1 DEF Submit
  <1>6. \A u \in TaskIds \ {t} : Waits(u)' => Waits(u)
    BY <1>3, <1>5 DEF Waits
  <1>7. SentOnce'
    <2>1. SentOnce /\ \A i \in 1..Len(uplink) : uplink[i] # t  BY <1>4 DEF AnswersIInv, Waits
    <2> QED  BY <1>3, <1>5, <2>1 DEF SentOnce
  <1>8. FramesInOrder'  BY <1>1, FramesRest DEF AnswersIInv
  <1>9. ASSUME NEW u \in TaskIds \ {t} PROVE TaskFits(u)'
    <2>1. TaskFits(u) /\ (u \in taskListeners' => u \in taskListeners)
      BY <1>1 DEF AnswersIInv, EachFits
    <2> QED  BY <1>1, <1>2, <1>6, <2>1, TaskRests, FramesRest
  <1>10. TaskFits(t)'
    <2>1. Live(t)' <=> Live(t)  BY <1>1, FramesRest
    <2>2. /\ collected[t] = <<>> /\ queues[t] = <<>> /\ pieces[t] = 0 /\ ~Live(t)
      BY <1>2, <1>3 DEF TaskFits, AnswerStands
    <2>3. ~EndHeard(<<>>)  BY DEF EndHeard
    <2>4. collected'[t] = <<>> /\ queues'[t] = <<>> /\ pieces'[t] = 0  BY <1>1, <2>2
    <2> QED  BY <1>2, <2>1, <2>2, <2>3, <2>4 DEF TaskFits, AnswerStands
  <1>11. AnswersShape'  BY <1>1 DEF AnswersIInv, AnswersShape
  <1> QED  BY <1>7, <1>8, <1>9, <1>10, <1>11 DEF EachFits

\* It gives a task up, or asks a stream for more.
LEMMA LeftFits ==
  ASSUME AnswersIInv, NEW t \in TaskIds, SendTimesOut(t) \/ AskForMore(t) \/ Abandon(t)
  PROVE  AnswersShape' /\ EachFits' /\ FramesInOrder' /\ SentOnce'
  <1>1. /\ UNCHANGED <<uplink, downlink, atAgent, pieces, collected, queues>>
        /\ \E s \in {"timeout", "asked", "abandoned"} : tasks' = [tasks EXCEPT ![t] = s]
        /\ taskListeners' \subseteq taskListeners
    BY DEF SendTimesOut, AskForMore, Abandon, farVars, toolVars, linkVars, StopListening
  <1>2. \A u \in TaskIds : tasks'[u] = tasks[u] \/ tasks'[u] \notin {"none", "sent", "complete"}
    BY <1>1 DEF AnswersIInv, TasksIInv, TasksShape
  <1>3. \A u \in TaskIds : Waits(u)' <=> Waits(u)  BY <1>1 DEF Waits
  <1>4. ASSUME NEW u \in TaskIds PROVE TaskFits(u)'
    <2>1. TaskFits(u) /\ (u \in taskListeners' => u \in taskListeners)
      BY <1>1 DEF AnswersIInv, EachFits
    <2> QED  BY <1>1, <1>2, <1>3, <2>1, TaskRests, FramesRest
  <1>5. SentOnce' /\ AnswersShape'  BY <1>1 DEF AnswersIInv, SentOnce, AnswersShape
  <1> QED  BY <1>1, <1>4, <1>5, FramesRest DEF EachFits, AnswersIInv

\* A stream takes what is first in its queue.
LEMMA TakeItemFits ==
  ASSUME AnswersIInv, NEW t \in TaskIds, TakeItem(t)
  PROVE  AnswersShape' /\ EachFits' /\ FramesInOrder' /\ SentOnce'
  <1> DEFINE item == Head(queues[t])
  <1>1. /\ UNCHANGED <<uplink, downlink, atAgent, pieces>> /\ queues[t] # <<>>
        /\ queues' = [queues EXCEPT ![t] = Tail(queues[t])]
        /\ \/ /\ item.is = "piece" /\ collected' = [collected EXCEPT ![t] = Append(collected[t], item.number)]
              /\ tasks' = [tasks EXCEPT ![t] = "yielded"] /\ taskListeners' = taskListeners
           \/ /\ item.is \in {"complete", "error"} /\ tasks' = [tasks EXCEPT ![t] = item.is]
              /\ taskListeners' = taskListeners \ {t} /\ collected' = collected
    BY DEF TakeItem, Shift, farVars, toolVars, linkVars, StopListening
  <1>2. /\ collected \in [TaskIds -> Seq(Nat)] /\ queues \in [TaskIds -> Seq(StreamItem)]
        /\ tasks \in [TaskIds -> Standing] /\ pieces \in [TaskIds -> Nat]
    BY DEF AnswersIInv, AnswersShape, TasksIInv, TasksShape
  <1>3. \A u \in TaskIds : Waits(u)' <=> Waits(u)  BY <1>1 DEF Waits
  <1>4. ASSUME NEW u \in TaskIds \ {t} PROVE TaskFits(u)'
    <2>1. TaskFits(u) /\ (u \in taskListeners' => u \in taskListeners)
      BY <1>1 DEF AnswersIInv, EachFits
    <2>2. collected'[u] = collected[u] /\ queues'[u] = queues[u] /\ tasks'[u] = tasks[u]
      BY <1>1, <1>2
    <2> QED  BY <1>1, <1>3, <2>1, <2>2, TaskRests, FramesRest
  <1>5. /\ collected[t] \in Seq(Nat) /\ queues[t] \in Seq(StreamItem) /\ pieces[t] \in Nat
        /\ AnswerStands(collected[t], queues[t], tasks[t], t \in taskListeners, pieces[t],
                        Waits(t), Live(t), Coming(t))
    BY <1>2 DEF AnswersIInv, EachFits, TaskFits
  <1>6. Live(t)' = Live(t) /\ Coming(t)' = Coming(t) /\ pieces'[t] = pieces[t] /\ Waits(t)' = Waits(t)
    BY <1>1 DEF Live, Coming, Waits
  <1>7. ASSUME item.is = "piece" PROVE TaskFits(t)' /\ AnswersShape'
    <2>1. /\ Append(collected[t], item.number) \in Seq(Nat) /\ Tail(queues[t]) \in Seq(StreamItem)
          /\ AnswerStands(Append(collected[t], item.number), Tail(queues[t]), "yielded",
                          t \in taskListeners, pieces[t], Waits(t), Live(t), Coming(t))
      BY <1>1, <1>5, <1>7, StandsYielded
    <2>2. /\ collected'[t] = Append(collected[t], item.number) /\ queues'[t] = Tail(queues[t])
          /\ tasks'[t] = "yielded" /\ taskListeners' = taskListeners
      BY <1>1, <1>2, <1>7
    <2>3. TaskFits(t)'  BY <1>6, <2>1, <2>2 DEF TaskFits
    <2>4. AnswersShape'  BY <1>1, <1>2, <1>7, <2>1 DEF AnswersShape
    <2> QED  BY <2>3, <2>4
  <1>8. ASSUME item.is \in {"complete", "error"} PROVE TaskFits(t)' /\ AnswersShape'
    <2>1. /\ Tail(queues[t]) \in Seq(StreamItem)
          /\ AnswerStands(collected[t], Tail(queues[t]), item.is,
                          t \in taskListeners', pieces[t], Waits(t), Live(t), Coming(t))
      <3>1. queues[t] # <<>>  BY <1>1
      <3> QED  BY <3>1, <1>5, <1>8, StandsReturned, Zenon
    <2>2. /\ collected' = collected /\ queues'[t] = Tail(queues[t]) /\ tasks'[t] = item.is
      BY <1>1, <1>2, <1>8
    <2>3. TaskFits(t)'  BY <1>6, <2>1, <2>2 DEF TaskFits
    <2>4. AnswersShape'  BY <1>1, <1>2, <1>8, <2>1 DEF AnswersShape
    <2> QED  BY <2>3, <2>4
  <1>9. SentOnce' /\ FramesInOrder'  BY <1>1, FramesRest DEF AnswersIInv, SentOnce
  <1> QED  BY <1>1, <1>4, <1>7, <1>8, <1>9 DEF EachFits

\* The connection goes and comes.
LEMMA LinkFits ==
  ASSUME AnswersIInv, AgentLinkLost \/ AgentLinkRestored
  PROVE  AnswersShape' /\ EachFits' /\ FramesInOrder' /\ SentOnce'
  <1>1. /\ UNCHANGED <<collected, queues, tasks, taskListeners, pieces>>
        /\ \/ uplink' = <<>> /\ downlink' = <<>> /\ atAgent' = {}
           \/ UNCHANGED <<uplink, downlink, atAgent>>
    BY DEF AgentLinkLost, AgentLinkRestored, LinkLost, LinkRestored, listenVars, farVars
  <1>2. AnswersShape'  BY <1>1 DEF AnswersIInv, AnswersShape
  <1>3. CASE uplink' = <<>> /\ downlink' = <<>> /\ atAgent' = {}
    <2>1. \A i \in 1..Len(uplink') : FALSE  BY <1>3
    <2>2. \A i \in 1..Len(downlink') : FALSE  BY <1>3
    <2>3. \A u \in TaskIds : ~Waits(u)' /\ ~Live(u)'  BY <1>3, <2>1, <2>2 DEF Waits, Live
    <2>4. EachFits'  BY <1>1, <2>3, TaskRests DEF EachFits, AnswersIInv
    <2> QED  BY <1>2, <2>1, <2>2, <2>4 DEF SentOnce, FramesInOrder
  <1>4. CASE UNCHANGED <<uplink, downlink, atAgent>>
    <2>1. \A u \in TaskIds : Waits(u)' <=> Waits(u)  BY <1>4 DEF Waits
    <2>2. EachFits'  BY <1>1, <1>4, <2>1, TaskRests, FramesRest DEF EachFits, AnswersIInv
    <2>3. SentOnce'  BY <1>4 DEF SentOnce, AnswersIInv
    <2> QED  BY <1>1, <1>2, <1>4, <2>2, <2>3, FramesRest DEF AnswersIInv
  <1> QED  BY <1>1, <1>3, <1>4

\* The agent takes a task: nothing of its answer is on its way.
LEMMA TakenFits ==
  ASSUME AnswersIInv, AgentTakes
  PROVE  AnswersShape' /\ EachFits' /\ FramesInOrder' /\ SentOnce'
  <1>2. uplink # <<>> /\ uplink \in Seq(TaskIds) /\ SentOnce
    BY DEF AgentTakes, AnswersIInv, TasksIInv, TasksShape
  <1>0. PICK t \in TaskIds : t = Head(uplink)  BY <1>2
  <1>1. /\ uplink # <<>> /\ uplink' = Tail(uplink) /\ atAgent' = atAgent \cup {t}
        /\ UNCHANGED <<downlink, collected, queues, tasks, taskListeners, pieces>>
    BY <1>0 DEF AgentTakes, listenVars
  <1>3. /\ Len(uplink) \in Nat \ {0} /\ t = uplink[1] /\ t \in TaskIds
        /\ Len(uplink') = Len(uplink) - 1 /\ \A i \in 1..Len(uplink') : uplink'[i] = uplink[i + 1]
    <2>1. Len(uplink) \in Nat \ {0}  BY <1>1, <1>2, LenProperties, EmptySeq
    <2> QED  BY <1>0, <1>1, <1>2, <2>1
  <1>4. \A u \in TaskIds : Waits(u)' => Waits(u)
    <2>1. \A i \in 1..Len(uplink') : i + 1 \in 1..Len(uplink)  BY <1>3
    <2> QED  BY <1>3, <2>1 DEF Waits
  <1>5. Waits(t) /\ ~Waits(t)'
    <2>1. ASSUME NEW i \in 1..Len(uplink'), uplink'[i] = t PROVE FALSE
      <3>1. i + 1 \in 1..Len(uplink) /\ 1 \in 1..Len(uplink) /\ i + 1 # 1  BY <1>3
      <3> QED  BY <1>2, <1>3, <2>1, <3>1 DEF SentOnce
    <2> QED  BY <1>3, <2>1 DEF Waits
  <1>6. SentOnce'
    <2> SUFFICES ASSUME NEW i \in 1..Len(uplink'), NEW j \in 1..Len(uplink'), uplink'[i] = uplink'[j]
                 PROVE  i = j
      BY DEF SentOnce
    <2>1. i + 1 \in 1..Len(uplink) /\ j + 1 \in 1..Len(uplink)  BY <1>3
    <2>2. uplink[i + 1] = uplink[j + 1]  BY <1>3
    <2>3. i + 1 = j + 1  BY <1>2, <2>1, <2>2 DEF SentOnce
    <2> QED  BY <2>3
  <1>7. TaskFits(t)  BY <1>3 DEF AnswersIInv, EachFits
  <1>8. ~Live(t)  BY <1>5, <1>7 DEF TaskFits, AnswerStands
  <1>9. FramesInOrder'
    <2>1. \A i \in 1..Len(downlink) : downlink[i].of # t  BY <1>8 DEF Live
    <2> QED  BY <1>1, <2>1 DEF FramesInOrder, AnswersIInv
  <1>10. TaskFits(t)'
    <2>1. AnswerStands(collected[t], queues[t], tasks[t], t \in taskListeners, pieces[t],
                       TRUE, Live(t), Coming(t))
      BY <1>5, <1>7 DEF TaskFits, AnswerStands
    <2>2. AnswerStands(collected[t], queues[t], tasks[t], t \in taskListeners, pieces[t],
                       FALSE, Live(t)', Coming(t)')
      BY <2>1, StandsTaken, Zenon
    <2> QED  BY <1>1, <1>5, <2>2 DEF TaskFits, AnswerStands
  <1>11. ASSUME NEW u \in TaskIds, u # t PROVE TaskFits(u)'
    <2>1. TaskFits(u)  BY DEF AnswersIInv, EachFits
    <2>2. (Live(u)' <=> Live(u)) /\ Coming(u)' = Coming(u)  BY <1>1, <1>11 DEF Live, Coming
    <2> QED  BY <1>1, <1>4, <2>1, <2>2, TaskRests
  <1>12. AnswersShape'  BY <1>1 DEF AnswersIInv, AnswersShape
  <1> QED  BY <1>6, <1>9, <1>10, <1>11, <1>12 DEF EachFits

\* The agent gives a piece, the end, or both.
LEMMA GivenFits ==
  ASSUME AnswersIInv, NEW t \in TaskIds, AgentGives(t)
  PROVE  AnswersShape' /\ EachFits' /\ FramesInOrder' /\ SentOnce'
  <1>1. PICK is \in {"chunk", "tool", "complete", "error"}, more \in BOOLEAN, known \in BOOLEAN :
          /\ pieces' = [pieces EXCEPT ![t] = @ + IF more THEN 1 ELSE 0]
          /\ Bring([is |-> is, of |-> t, number |-> IF more THEN pieces[t] + 1 ELSE 0,
                    known |-> known])
          /\ atAgent' = IF is \in {"complete", "error"} THEN atAgent \ {t} ELSE atAgent
    BY DEF AgentGives
  <1> DEFINE n == IF more THEN pieces[t] + 1 ELSE 0
             f == [is |-> is, of |-> t, number |-> n, known |-> known]
  <1>2. /\ downlink \in Seq(AnswerFrame) /\ pieces \in [TaskIds -> Nat]
        /\ UNCHANGED <<uplink, collected, queues, tasks, taskListeners>> /\ t \in atAgent
    BY DEF AnswersIInv, TasksIInv, TasksShape, AgentGives, listenVars
  <1>3. f \in AnswerFrame  BY <1>1, <1>2 DEF AnswerFrame
  <1>4. downlink' = Append(downlink, f)  BY <1>1 DEF Bring
  <1>5. f.is = is /\ f.of = t /\ f.number = n /\ (IsEnd(f) <=> is \in {"complete", "error"})
    BY DEF IsEnd
  <1>6. /\ pieces'[t] = IF more THEN pieces[t] + 1 ELSE pieces[t]
        /\ \A u \in TaskIds \ {t} : pieces'[u] = pieces[u]
        /\ pieces[t] \in Nat
    BY <1>1, <1>2
  <1> HIDE DEF f
  <1> DEFINE d == Len(downlink)
  <1>7. /\ d \in Nat /\ Len(downlink') = d + 1 /\ downlink'[d + 1] = f
        /\ \A i \in 1..d : downlink'[i] = downlink[i] /\ downlink[i] \in AnswerFrame
        /\ \A i \in 1..Len(downlink') : i \in 1..d \/ i = d + 1
    <2>1. d \in Nat  BY <1>2, LenProperties
    <2>2. \A i \in 1..d : downlink[i] \in AnswerFrame  BY <1>2, ElementOfSeq
    <2> QED  BY <1>2, <1>3, <1>4, <2>1, <2>2
  <1> HIDE DEF d
  <1>8. FramesInOrder /\ \A i \in 1..d : BringsNews(downlink[i], pieces, heardOf)
    BY DEF AnswersIInv, TasksIInv, FramesNew, d
  <1>9. \A i \in 1..d : downlink[i].of = t => downlink[i].number <= pieces[t]
    BY <1>8 DEF BringsNews
  <1>10. FramesInOrder'
    <2>1. ASSUME NEW i \in 1..Len(downlink'), NEW j \in 1..Len(downlink'), i < j,
                 downlink'[i].of = downlink'[j].of
          PROVE  /\ ~IsEnd(downlink'[i])
                 /\ downlink'[i].number > 0 /\ downlink'[j].number > 0 =>
                      downlink'[i].number < downlink'[j].number
      <3>1. i \in 1..d  BY <1>7, <2>1
      <3>2. CASE j \in 1..d  BY <1>7, <1>8, <2>1, <3>1, <3>2 DEF FramesInOrder, d
      <3>3. CASE j = d + 1
        <4>1. downlink[i].of = t  BY <1>5, <1>7, <2>1, <3>1, <3>3
        <4>2. ~IsEnd(downlink[i])  BY <1>2, <1>8, <3>1, <4>1 DEF FramesInOrder, d
        <4>3. downlink[i].number <= pieces[t] /\ downlink[i].number \in Nat
          BY <1>7, <1>9, <3>1, <4>1 DEF AnswerFrame
        <4> QED  BY <1>5, <1>6, <1>7, <3>1, <3>3, <4>2, <4>3
      <3> QED  BY <1>7, <3>2, <3>3
    <2>2. ASSUME NEW i \in 1..Len(downlink'), IsEnd(downlink'[i]) PROVE downlink'[i].of \notin atAgent'
      <3>1. CASE i \in 1..d
        <4>1. downlink[i].of \notin atAgent  BY <1>7, <1>8, <2>2, <3>1 DEF FramesInOrder, d
        <4> QED  BY <1>1, <1>7, <3>1, <4>1
      <3>2. CASE i = d + 1  BY <1>1, <1>5, <1>7, <2>2, <3>2
      <3> QED  BY <1>7, <3>1, <3>2
    <2> QED  BY <2>1, <2>2 DEF FramesInOrder
  <1>11. \A u \in TaskIds : Waits(u)' <=> Waits(u)  BY <1>2 DEF Waits
  <1>12. ASSUME NEW u \in TaskIds, u # t PROVE TaskFits(u)'
    <2>1. TaskFits(u)  BY DEF AnswersIInv, EachFits
    <2>2. u \in atAgent' <=> u \in atAgent  BY <1>1, <1>12
    <2>3. /\ \A i \in 1..d : i \in 1..Len(downlink') /\ downlink'[i].of = downlink[i].of
                             /\ downlink'[i].number = downlink[i].number
          /\ \A i \in 1..Len(downlink') : downlink'[i].of = u => i \in 1..d
      BY <1>5, <1>7, <1>12
    <2>4. Live(u)' <=> Live(u)  BY <2>2, <2>3 DEF Live, d
    <2>5. Coming(u)' = Coming(u)  BY <1>6, <1>12, <2>3 DEF Coming, d
    <2> QED  BY <1>2, <1>6, <1>11, <1>12, <2>1, <2>4, <2>5, TaskRests
  <1>13. TaskFits(t)'
    <2>1. TaskFits(t) /\ Live(t)  BY <1>2 DEF AnswersIInv, EachFits, Live
    <2>2. collected[t] \in Seq(Nat) /\ queues[t] \in Seq(StreamItem)
      BY DEF AnswersIInv, AnswersShape
    <2>3. ASSUME NEW m \in 1..pieces[t] PROVE m \in Coming(t)' <=> m \in Coming(t)
      <3>1. m # n /\ m \in 1..pieces'[t]  BY <1>6, <2>3
      <3>2. /\ \A i \in 1..d : i \in 1..Len(downlink') /\ downlink'[i].of = downlink[i].of
                               /\ downlink'[i].number = downlink[i].number
            /\ \A i \in 1..Len(downlink') : downlink'[i].number = m => i \in 1..d
        BY <1>5, <1>7, <3>1
      <3> QED  BY <3>1, <3>2 DEF Coming, d
    <2>4. CASE more
      <3>1. pieces'[t] = pieces[t] + 1 /\ n = pieces[t] + 1  BY <1>6, <2>4
      <3>2. n \in Coming(t)'
        <4>1. d + 1 \in 1..Len(downlink') /\ n \in 1..pieces'[t]  BY <1>6, <1>7, <3>1
        <4> QED  BY <1>5, <1>7, <4>1 DEF Coming
      <3>3. AnswerStands(collected[t], queues[t], tasks[t], t \in taskListeners, pieces[t] + 1,
                         Waits(t), Live(t)', Coming(t)')
        BY <1>6, <2>1, <2>2, <2>3, <3>1, <3>2, StandsGiven, Zenon DEF TaskFits
      <3> QED  BY <1>2, <1>11, <3>1, <3>3 DEF TaskFits, AnswerStands
    <2>5. CASE ~more
      <3>1. pieces'[t] = pieces[t]  BY <1>6, <2>5
      <3>2. Coming(t)' = Coming(t)
        <4>1. \A m \in Coming(t)' : m \in 1..pieces[t]  BY <3>1 DEF Coming
        <4>2. \A m \in Coming(t) : m \in 1..pieces[t]  BY DEF Coming
        <4> QED  BY <2>3, <4>1, <4>2
      <3> QED  BY <1>2, <1>11, <2>1, <3>1, <3>2, TaskRests
    <2> QED  BY <2>4, <2>5
  <1>14. SentOnce' /\ AnswersShape'  BY <1>2 DEF AnswersIInv, SentOnce, AnswersShape
  <1> QED  BY <1>10, <1>12, <1>13, <1>14 DEF EachFits

LEMMA JoinOneOrTwo ==
  ASSUME NEW S, NEW s \in Seq(S), NEW e \in S, NEW g \in S
  PROVE  /\ s \o <<>> = s /\ s \o <<e>> = Append(s, e)
         /\ <<e>> \o <<>> = <<e>> /\ <<>> \o <<e>> = <<e>>
         /\ s \o (<<e>> \o <<g>>) = Append(Append(s, e), g)
  <1>1. s \o <<>> = s  OBVIOUS
  <1>2. s \o <<e>> = Append(s, e)  OBVIOUS
  <1>3. <<e>> \o <<>> = <<e>> /\ <<>> \o <<e>> = <<e>>  OBVIOUS
  <1>4. s \o (<<e>> \o <<g>>) = Append(Append(s, e), g)  OBVIOUS
  <1> QED  BY <1>1, <1>2, <1>3, <1>4

\* The frame that comes next, of a task that listens: if it has a piece it is the
\* next of those on their way; if it is the end nothing is behind it.
LEMMA NextFrame ==
  ASSUME AnswersIInv, downlink # <<>>, downlink' = Tail(downlink), UNCHANGED <<atAgent, pieces>>,
         NEW f, f = Head(downlink), NEW t, t = f.of
  PROVE  /\ f \in AnswerFrame /\ t \in TaskIds /\ Live(t) /\ Coming(t) \subseteq 1..pieces[t]
         /\ f.number > 0 => /\ f.number \in Coming(t) /\ \A m \in Coming(t) : f.number <= m
                            /\ Coming(t)' = Coming(t) \ {f.number}
         /\ f.number = 0 => Coming(t)' = Coming(t)
         /\ IsEnd(f) => ~Live(t)' /\ Coming(t)' = {}
         /\ \A u \in TaskIds : Live(u)' => Live(u)
         /\ \A u \in TaskIds \ {t} : (Live(u)' <=> Live(u)) /\ Coming(u)' = Coming(u)
         /\ FramesInOrder'
  <1> DEFINE d == Len(downlink)
  <1>1. downlink \in Seq(AnswerFrame)  BY DEF AnswersIInv, TasksIInv, TasksShape
  <1>2. /\ d \in Nat \ {0} /\ f = downlink[1] /\ Len(downlink') = d - 1
        /\ \A i \in 1..Len(downlink') : downlink'[i] = downlink[i + 1]
    <2>1. d \in Nat \ {0}  BY <1>1, LenProperties, EmptySeq
    <2> QED  BY <1>1, <2>1
  <1>3. \A i \in 1..d : downlink[i] \in AnswerFrame  BY <1>1, ElementOfSeq
  <1>4. 1 \in 1..d /\ f \in AnswerFrame  BY <1>2, <1>3
  <1>5. t \in TaskIds /\ f.number \in Nat  BY <1>4 DEF AnswerFrame
  <1> HIDE DEF d
  <1>6. FramesInOrder /\ \A i \in 1..d : BringsNews(downlink[i], pieces, heardOf)
    BY DEF AnswersIInv, TasksIInv, FramesNew, d
  <1>7. \A i \in 1..Len(downlink') : i + 1 \in 1..d /\ 1 < i + 1 /\ downlink'[i] = downlink[i + 1]
    BY <1>2
  <1>8. \A i \in 1..d : i # 1 => /\ i - 1 \in 1..Len(downlink') /\ downlink'[i - 1] = downlink[i]
    BY <1>2
  <1>9. \A i \in 2..d : downlink[i].of = t =>
           ~IsEnd(f) /\ (f.number > 0 /\ downlink[i].number > 0 => f.number < downlink[i].number)
    <2>1. \A i \in 2..d : i \in 1..d /\ 1 < i  BY <1>2
    <2> QED  BY <1>2, <1>4, <1>6, <2>1 DEF FramesInOrder, d
  <1>10. FramesInOrder'
    <2>1. ASSUME NEW i \in 1..Len(downlink'), NEW j \in 1..Len(downlink'), i < j,
                 downlink'[i].of = downlink'[j].of
          PROVE  /\ ~IsEnd(downlink'[i])
                 /\ downlink'[i].number > 0 /\ downlink'[j].number > 0 =>
                      downlink'[i].number < downlink'[j].number
      <3>1. i + 1 < j + 1  BY <2>1
      <3> QED  BY <1>6, <1>7, <2>1, <3>1 DEF FramesInOrder, d
    <2>2. \A i \in 1..Len(downlink') : IsEnd(downlink'[i]) => downlink'[i].of \notin atAgent'
      BY <1>6, <1>7 DEF FramesInOrder, d
    <2> QED  BY <2>1, <2>2 DEF FramesInOrder
  <1>11. \A u \in TaskIds : Live(u)' => Live(u)  BY <1>7 DEF Live, d
  <1>12. ASSUME NEW u \in TaskIds, u # t PROVE (Live(u)' <=> Live(u)) /\ Coming(u)' = Coming(u)
    <2>1. \A i \in 1..d : downlink[i].of = u => i # 1  BY <1>2, <1>12
    <2>2. Live(u)' <=> Live(u)  BY <1>7, <1>8, <2>1 DEF Live, d
    <2>3. Coming(u)' = Coming(u)  BY <1>7, <1>8, <2>1 DEF Coming, d
    <2> QED  BY <2>2, <2>3
  <1>13. Live(t) /\ Coming(t) \subseteq 1..pieces[t]  BY <1>2, <1>4 DEF Live, Coming, d
  <1>14. ASSUME f.number > 0
         PROVE  /\ f.number \in Coming(t) /\ \A m \in Coming(t) : f.number <= m
                /\ Coming(t)' = Coming(t) \ {f.number}
    <2>1. f.number <= pieces[t]  BY <1>2, <1>4, <1>6 DEF BringsNews
    <2>2. pieces[t] \in Nat  BY <1>5 DEF AnswersIInv, TasksIInv, TasksShape
    <2>3. f.number \in 1..pieces[t]  BY <1>5, <1>14, <2>1, <2>2
    <2>4. f.number \in Coming(t)  BY <1>2, <1>4, <2>3 DEF Coming, d
    <2>5. ASSUME NEW m \in Coming(t) PROVE m = f.number \/ (f.number < m /\ m \in Coming(t)')
      <3>1. PICK i \in 1..d : downlink[i].of = t /\ downlink[i].number = m  BY DEF Coming, d
      <3>2. CASE i = 1  BY <1>2, <3>1, <3>2
      <3>3. CASE i # 1
        <4>1. m \in 1..pieces[t] /\ m > 0  BY <2>2 DEF Coming
        <4>2. i \in 2..d  BY <1>2, <3>3
        <4>3. f.number < m  BY <1>9, <1>14, <3>1, <4>1, <4>2
        <4>4. m \in Coming(t)'  BY <1>8, <3>1, <3>3, <4>1 DEF Coming
        <4> QED  BY <4>3, <4>4
      <3> QED  BY <3>2, <3>3
    <2>6. ASSUME NEW m \in Coming(t)' PROVE m # f.number /\ m \in Coming(t)
      <3>1. PICK i \in 1..Len(downlink') : downlink'[i].of = t /\ downlink'[i].number = m
        BY DEF Coming
      <3>2. m \in 1..pieces[t] /\ m > 0  BY <2>2 DEF Coming
      <3>3. i + 1 \in 2..d  BY <1>2, <1>7
      <3>4. f.number < m  BY <1>7, <1>9, <1>14, <3>1, <3>2, <3>3
      <3>5. m \in Coming(t)  BY <1>7, <3>1, <3>2 DEF Coming, d
      <3> QED  BY <1>5, <3>2, <3>4, <3>5
    <2>7. \A m \in Coming(t) : f.number <= m
      <3>1. \A m \in Coming(t) : m \in Nat  BY <2>2 DEF Coming
      <3> QED  BY <1>5, <2>5, <3>1
    <2>8. Coming(t)' = Coming(t) \ {f.number}  BY <2>5, <2>6
    <2> QED  BY <2>4, <2>7, <2>8
  <1>15. ASSUME f.number = 0 PROVE Coming(t)' = Coming(t)
    <2>1. ASSUME NEW m \in Coming(t)' PROVE m \in Coming(t)
      BY <1>7 DEF Coming, d
    <2>2. ASSUME NEW m \in Coming(t) PROVE m \in Coming(t)'
      <3>1. PICK i \in 1..d : downlink[i].of = t /\ downlink[i].number = m  BY DEF Coming, d
      <3>2. m \in 1..pieces[t] /\ m # 0
        BY <1>5 DEF Coming, AnswersIInv, TasksIInv, TasksShape
      <3>3. i # 1  BY <1>2, <1>15, <3>1, <3>2
      <3> QED  BY <1>8, <3>1, <3>2, <3>3 DEF Coming
    <2> QED  BY <2>1, <2>2
  <1>16. ASSUME IsEnd(f) PROVE ~Live(t)' /\ Coming(t)' = {}
    <2>1. ASSUME NEW i \in 1..Len(downlink'), downlink'[i].of = t PROVE FALSE
      <3>1. i + 1 \in 2..d  BY <1>2, <1>7
      <3> QED  BY <1>7, <1>9, <1>16, <2>1, <3>1
    <2>2. t \notin atAgent  BY <1>2, <1>4, <1>6, <1>16 DEF FramesInOrder, d
    <2> QED  BY <2>1, <2>2 DEF Live, Coming
  <1> QED  BY <1>4, <1>5, <1>10, <1>11, <1>12, <1>13, <1>14, <1>15, <1>16

\* The client gets a frame.
LEMMA HeardFits ==
  ASSUME AnswersIInv, ReceiveAnswer
  PROVE  AnswersShape' /\ EachFits' /\ FramesInOrder' /\ SentOnce'
  <1>1. PICK f : f = Head(downlink)  OBVIOUS
  <1>2. PICK t : t = f.of  OBVIOUS
  <1>3. /\ downlink # <<>> /\ downlink' = Tail(downlink) /\ UNCHANGED <<uplink, atAgent, pieces>>
        /\ IF t \notin taskListeners THEN UNCHANGED <<tasks, taskListeners, queues, collected>>
           ELSE Listener(f)
    BY <1>1, <1>2 DEF ReceiveAnswer, farVars, listenVars
  <1>4. /\ f \in AnswerFrame /\ t \in TaskIds /\ Live(t) /\ Coming(t) \subseteq 1..pieces[t]
        /\ f.number > 0 => /\ f.number \in Coming(t) /\ \A m \in Coming(t) : f.number <= m
                           /\ Coming(t)' = Coming(t) \ {f.number}
        /\ f.number = 0 => Coming(t)' = Coming(t)
        /\ IsEnd(f) => ~Live(t)' /\ Coming(t)' = {}
        /\ \A u \in TaskIds : Live(u)' => Live(u)
        /\ \A u \in TaskIds \ {t} : (Live(u)' <=> Live(u)) /\ Coming(u)' = Coming(u)
        /\ FramesInOrder'
    BY <1>1, <1>2, <1>3, NextFrame
  <1>5. \A u \in TaskIds : Waits(u)' <=> Waits(u)  BY <1>3 DEF Waits
  <1>6. SentOnce'  BY <1>3 DEF SentOnce, AnswersIInv
  <1>7. \A u \in TaskIds : TaskFits(u)  BY DEF AnswersIInv, EachFits
  <1>8. CASE t \notin taskListeners
    <2>1. EachFits'  BY <1>3, <1>4, <1>5, <1>7, <1>8, TaskRests DEF EachFits
    <2>2. AnswersShape'  BY <1>3, <1>8 DEF AnswersShape, AnswersIInv
    <2> QED  BY <1>4, <1>6, <2>1, <2>2
  <1>9. CASE t \in taskListeners
    <2>1. /\ collected \in [TaskIds -> Seq(Nat)] /\ queues \in [TaskIds -> Seq(StreamItem)]
          /\ tasks \in [TaskIds -> Standing] /\ pieces \in [TaskIds -> Nat]
      BY DEF AnswersIInv, AnswersShape, TasksIInv, TasksShape
    <2>2. f.number \in Nat /\ pieces[t] \in Nat  BY <1>4, <2>1 DEF AnswerFrame
    <2> DEFINE has == collected[t]
               pending == queues[t]
               all == pieces[t]
               e == AnswerItem("piece", f.number)
               g == AnswerItem(f.is, 0)
    <2>3. has \in Seq(Nat) /\ pending \in Seq(StreamItem)  BY <1>4, <2>1
    <2>4. e \in StreamItem /\ (IsEnd(f) => g \in StreamItem /\ IsEnd(g) /\ f.is \in {"complete", "error"})
      BY <2>2 DEF AnswerItem, StreamItem, IsEnd
    <2>5. AnswerStands(has, pending, tasks[t], TRUE, all, Waits(t), TRUE, Coming(t))
      BY <1>4, <1>7, <1>9 DEF TaskFits, AnswerStands
    <2>6. ASSUME tasks[t] = "sent"
          PROVE  /\ collected' = [collected EXCEPT ![t] = has \o Piece(f)] /\ queues' = queues
                 /\ IF IsEnd(f) THEN /\ tasks' = [tasks EXCEPT ![t] = f.is]
                                     /\ taskListeners' = taskListeners \ {t}
                    ELSE UNCHANGED <<tasks, taskListeners>>
      BY <1>2, <1>3, <1>9, <2>6 DEF Listener, StopListening
    <2>7. ASSUME tasks[t] # "sent"
          PROVE  /\ queues' = [queues EXCEPT ![t] = pending \o Items(f)]
                 /\ UNCHANGED <<tasks, taskListeners, collected>>
      BY <1>2, <1>3, <1>9, <2>7 DEF Listener
    <2> HIDE DEF e, g, has, pending, all
    <2>8. ASSUME tasks[t] = "sent"
          PROVE  /\ has \o Piece(f) \in Seq(Nat)
                 /\ AnswerStands(has \o Piece(f), pending, "sent", TRUE, all, Waits(t), TRUE, Coming(t)')
      <3>1. AnswerStands(has, pending, "sent", TRUE, all, Waits(t), TRUE, Coming(t))  BY <2>5, <2>8
      <3>2. CASE f.number > 0
        <4>1. has \o Piece(f) = Append(has, f.number)  BY <2>2, <2>3, <3>2, JoinOneOrTwo DEF Piece
        <4>2. /\ f.number \in Coming(t) /\ \A m \in Coming(t) : f.number <= m
              /\ Coming(t)' = Coming(t) \ {f.number} /\ Coming(t) \subseteq 1..all
          BY <1>4, <3>2 DEF all
        <4>3. all \in Nat  BY <2>2 DEF all
        <4>4. /\ Append(has, f.number) \in Seq(Nat)
              /\ AnswerStands(Append(has, f.number), pending, "sent", TRUE, all, Waits(t), TRUE, Coming(t)')
          BY <2>3, <3>1, <4>2, <4>3, StandsCollected, Zenon
        <4> QED  BY <4>1, <4>4
      <3>3. CASE f.number = 0
        <4>1. has \o Piece(f) = has  BY <2>3, <3>3 DEF Piece
        <4> QED  BY <1>4, <2>3, <3>1, <3>3, <4>1
      <3>4. f.number > 0 \/ f.number = 0  BY <2>2
      <3> QED  BY <3>2, <3>3, <3>4
    <2>9. ASSUME tasks[t] # "sent"
          PROVE  LET p == IF f.number > 0 THEN Append(pending, e) ELSE pending
                 IN /\ p \in Seq(StreamItem)
                    /\ AnswerStands(has, p, tasks[t], TRUE, all, Waits(t), TRUE, Coming(t)')
                    /\ pending \o Items(f) = IF IsEnd(f) THEN Append(p, g) ELSE p
      <3>1. CASE f.number > 0
        <4>1. /\ f.number \in Coming(t) /\ \A m \in Coming(t) : f.number <= m
              /\ Coming(t)' = Coming(t) \ {f.number} /\ Coming(t) \subseteq 1..all /\ all \in Nat
          BY <1>4, <2>2, <3>1 DEF all
        <4>2. /\ Append(pending, e) \in Seq(StreamItem)
              /\ AnswerStands(has, Append(pending, e), tasks[t], TRUE, all, Waits(t), TRUE, Coming(t)')
          BY <2>3, <2>5, <2>9, <4>1, StandsQueued, Zenon DEF e
        <4>3. Items(f) = <<e>> \o (IF IsEnd(f) THEN <<g>> ELSE <<>>)  BY <3>1 DEF Items, e, g
        <4>4. CASE IsEnd(f)
          <5>1. pending \o (<<e>> \o <<g>>) = Append(Append(pending, e), g)
            BY <2>3, <2>4, <4>4, JoinOneOrTwo
          <5> QED  BY <3>1, <4>2, <4>3, <4>4, <5>1
        <4>5. CASE ~IsEnd(f)
          <5>1. <<e>> \o <<>> = <<e>> /\ pending \o <<e>> = Append(pending, e)
            BY <2>3, <2>4, JoinOneOrTwo
          <5> QED  BY <3>1, <4>2, <4>3, <4>5, <5>1
        <4> QED  BY <4>4, <4>5
      <3>2. CASE f.number = 0
        <4>1. Items(f) = <<>> \o (IF IsEnd(f) THEN <<g>> ELSE <<>>)  BY <3>2 DEF Items, g
        <4>2. pending \o Items(f) = IF IsEnd(f) THEN Append(pending, g) ELSE pending
          <5>1. CASE IsEnd(f)
            <6>1. <<>> \o <<g>> = <<g>> /\ pending \o <<g>> = Append(pending, g)
              BY <2>3, <2>4, <5>1, JoinOneOrTwo
            <6> QED  BY <4>1, <5>1, <6>1
          <5>2. CASE ~IsEnd(f)
            <6>1. Items(f) = <<>> /\ pending \o <<>> = pending  BY <2>3, <4>1, <5>2
            <6> QED  BY <5>2, <6>1
          <5> QED  BY <5>1, <5>2
        <4> QED  BY <1>4, <2>3, <2>5, <3>2, <4>2
      <3>3. f.number > 0 \/ f.number = 0  BY <2>2
      <3> QED  BY <3>1, <3>2, <3>3
    <2>10. TaskFits(t)' /\ AnswersShape'
      <3>1. CASE tasks[t] = "sent"
        <4>1. /\ collected'[t] = has \o Piece(f) /\ queues'[t] = pending /\ pieces'[t] = all
              /\ collected' \in [TaskIds -> Seq(Nat)] /\ queues' \in [TaskIds -> Seq(StreamItem)]
              /\ has \o Piece(f) \in Seq(Nat)
          BY <1>3, <1>4, <2>1, <2>6, <2>8, <3>1 DEF pending, all
        <4>2. CASE IsEnd(f)
          <5>1. tasks'[t] = f.is /\ f.is \in {"complete", "error"}
            BY <1>4, <2>1, <2>4, <2>6, <3>1, <4>2
          <5>2. Coming(t)' = {} /\ ~Live(t)' /\ all \in Nat  BY <1>4, <2>2, <4>2 DEF all
          <5>3. AnswerStands(has \o Piece(f), pending, f.is, FALSE, all, Waits(t), FALSE, {})
            BY <2>3, <2>8, <3>1, <4>1, <5>1, <5>2, StandsDone
          <5>4. AnswerStands(has \o Piece(f), pending, f.is, t \in taskListeners', all, Waits(t)', Live(t)', Coming(t)')
            BY <1>4, <1>5, <5>2, <5>3 DEF AnswerStands
          <5> QED  BY <4>1, <5>1, <5>4 DEF TaskFits, AnswersShape
        <4>3. CASE ~IsEnd(f)
          <5>1. tasks'[t] = "sent"  BY <2>6, <3>1, <4>3
          <5>2. AnswerStands(has \o Piece(f), pending, "sent", t \in taskListeners', all, Waits(t)', Live(t)', Coming(t)')
            BY <1>4, <1>5, <2>8, <3>1 DEF AnswerStands
          <5> QED  BY <4>1, <5>1, <5>2 DEF TaskFits, AnswersShape
        <4> QED  BY <4>2, <4>3
      <3>2. CASE tasks[t] # "sent"
        <4> DEFINE p == IF f.number > 0 THEN Append(pending, e) ELSE pending
                   q == IF IsEnd(f) THEN Append(p, g) ELSE p
        <4>1. /\ p \in Seq(StreamItem)
              /\ AnswerStands(has, p, tasks[t], TRUE, all, Waits(t), TRUE, Coming(t)')
              /\ pending \o Items(f) = q
          BY <2>9, <3>2
        <4> HIDE DEF p
        <4>2. q \in Seq(StreamItem)  BY <2>4, <4>1
        <4>3. /\ queues'[t] = q /\ collected'[t] = has /\ pieces'[t] = all /\ tasks'[t] = tasks[t]
              /\ AnswersShape'
          BY <1>3, <1>4, <2>1, <2>7, <3>2, <4>1, <4>2 DEF has, all, AnswersShape
        <4>4. CASE IsEnd(f)
          <5>1. Coming(t)' = {} /\ ~Live(t)' /\ all \in Nat  BY <1>4, <2>2, <4>4 DEF all
          <5>2. AnswerStands(has, Append(p, g), tasks[t], FALSE, all, Waits(t), FALSE, {})
            BY <2>3, <2>4, <3>2, <4>1, <4>4, <5>1, StandsClosed
          <5>3. AnswerStands(has, Append(p, g), tasks[t], t \in taskListeners', all, Waits(t)', Live(t)', Coming(t)')
            BY <1>4, <1>5, <5>1, <5>2 DEF AnswerStands
          <5> QED  BY <4>3, <4>4, <5>3 DEF TaskFits
        <4>5. CASE ~IsEnd(f)
          <5>1. AnswerStands(has, p, tasks[t], t \in taskListeners', all, Waits(t)', Live(t)', Coming(t)')
            BY <1>4, <1>5, <4>1 DEF AnswerStands
          <5> QED  BY <4>3, <4>5, <5>1 DEF TaskFits
        <4> QED  BY <4>4, <4>5
      <3> QED  BY <3>1, <3>2
    <2>11. ASSUME NEW u \in TaskIds, u # t PROVE TaskFits(u)'
      <3>1. /\ collected'[u] = collected[u] /\ queues'[u] = queues[u] /\ tasks'[u] = tasks[u]
            /\ (u \in taskListeners' => u \in taskListeners) /\ pieces'[u] = pieces[u]
        BY <1>3, <2>1, <2>6, <2>7, <2>11
      <3> QED  BY <1>4, <1>5, <1>7, <2>11, <3>1, TaskRests
    <2> QED  BY <1>4, <1>6, <2>10, <2>11 DEF EachFits
  <1> QED  BY <1>8, <1>9

LEMMA AnswersStart == AgentClientInit => AnswersIInv
  <1> SUFFICES ASSUME AgentClientInit PROVE AnswersIInv  OBVIOUS
  <1>1. TasksIInv  BY TasksStart
  <1>2. /\ uplink = <<>> /\ downlink = <<>> /\ atAgent = {} /\ tasks = [t \in TaskIds |-> "none"]
        /\ collected = [t \in TaskIds |-> <<>>] /\ queues = [t \in TaskIds |-> <<>>]
        /\ pieces = [t \in TaskIds |-> 0]
    BY DEF AgentClientInit, LinkInit
  <1>3. AnswersShape  BY <1>2 DEF AnswersShape
  <1>4. (\A i \in 1..Len(uplink) : FALSE) /\ (\A i \in 1..Len(downlink) : FALSE)  BY <1>2
  <1>5. FramesInOrder /\ SentOnce  BY <1>4 DEF FramesInOrder, SentOnce
  <1>6. ASSUME NEW t \in TaskIds PROVE TaskFits(t)
    <2>1. ~Waits(t) /\ ~Live(t)  BY <1>2, <1>4 DEF Waits, Live
    <2>2. collected[t] = <<>> /\ queues[t] = <<>> /\ tasks[t] = "none" /\ pieces[t] = 0  BY <1>2
    <2>3. ~EndHeard(<<>>)  BY DEF EndHeard
    <2> QED  BY <2>1, <2>2, <2>3 DEF TaskFits, AnswerStands
  <1> QED  BY <1>1, <1>3, <1>5, <1>6 DEF AnswersIInv, EachFits

LEMMA AnswersStep ==
  ASSUME AnswersIInv, [AgentClientNext]_agentClientVars
  PROVE  AnswersIInv'
  <1>1. TasksIInv'  BY TasksStep DEF AnswersIInv
  <1>2. ASSUME UNCHANGED <<linkVars, listenVars, farVars>>
        PROVE  AnswersShape' /\ EachFits' /\ FramesInOrder' /\ SentOnce'
    <2>1. UNCHANGED <<uplink, downlink, atAgent, pieces, collected, queues, tasks, taskListeners>>
      BY <1>2 DEF linkVars, listenVars, farVars
    <2>2. \A u \in TaskIds : Waits(u)' <=> Waits(u)  BY <2>1 DEF Waits
    <2>3. EachFits'  BY <2>1, <2>2, TaskRests, FramesRest DEF EachFits, AnswersIInv
    <2>4. SentOnce' /\ AnswersShape'  BY <2>1 DEF SentOnce, AnswersShape, AnswersIInv
    <2> QED  BY <2>1, <2>3, <2>4, FramesRest DEF AnswersIInv
  <1>3. CASE UNCHANGED agentClientVars  BY <1>1, <1>2, <1>3 DEF agentClientVars, AnswersIInv
  <1>4. CASE \E c \in Calls : ToolEnds(c)
    <2>1. UNCHANGED <<linkVars, listenVars, farVars>>  BY <1>4 DEF ToolEnds
    <2> QED  BY <1>1, <1>2, <2>1 DEF AnswersIInv
  <1>5. CASE \E t \in TaskIds : SendTask(t) \/ StreamTask(t)
    BY <1>1, <1>5, SentFits DEF AnswersIInv
  <1>6. CASE \E t \in TaskIds : SendTimesOut(t) \/ AskForMore(t) \/ Abandon(t)
    BY <1>1, <1>6, LeftFits DEF AnswersIInv
  <1>7. CASE \E t \in TaskIds : TakeItem(t)  BY <1>1, <1>7, TakeItemFits DEF AnswersIInv
  <1>8. CASE \E t \in TaskIds : AgentGives(t)  BY <1>1, <1>8, GivenFits DEF AnswersIInv
  <1>9. CASE ReceiveAnswer  BY <1>1, <1>9, HeardFits DEF AnswersIInv
  <1>10. CASE AgentLinkLost \/ AgentLinkRestored  BY <1>1, <1>10, LinkFits DEF AnswersIInv
  <1>11. CASE AgentTakes  BY <1>1, <1>11, TakenFits DEF AnswersIInv
  <1> QED  BY <1>3, <1>4, <1>5, <1>6, <1>7, <1>8, <1>9, <1>10, <1>11 DEF AgentClientNext

LEMMA AnswersRight == AnswersIInv => AnswersWhole
  <1> SUFFICES ASSUME AnswersIInv PROVE AnswersWhole  OBVIOUS
  <1> SUFFICES ASSUME NEW t \in TaskIds
               PROVE  LET h == Len(collected[t])
                          q == Len(queues[t])
                          coming == {i \in DOMAIN downlink : downlink[i].of = t /\ downlink[i].number > 0}
                      IN /\ \A k \in 1..h : collected[t][k] = k
                         /\ \A k \in 1..q : \/ queues[t][k] = AnswerItem("piece", h + k)
                                            \/ k = q /\ IsEnd(queues[t][k])
                         /\ tasks[t] = "complete" => h = pieces[t]
                         /\ t \in atAgent /\ t \in taskListeners =>
                               /\ {downlink[i].number : i \in coming} = (h + q + 1)..pieces[t]
                               /\ \A i, j \in coming : i < j => downlink[i].number < downlink[j].number
    BY DEF AnswersWhole
  <1> DEFINE h == Len(collected[t])
             q == Len(queues[t])
             d == Len(downlink)
             coming == {i \in DOMAIN downlink : downlink[i].of = t /\ downlink[i].number > 0}
  <1>1. TaskFits(t) /\ collected[t] \in Seq(Nat) /\ queues[t] \in Seq(StreamItem)
    BY DEF AnswersIInv, EachFits, AnswersShape
  <1>2. h \in Nat /\ q \in Nat  BY <1>1, LenProperties
  <1>3. /\ \A k \in 1..h : collected[t][k] = k
        /\ \A k \in 1..q : \/ queues[t][k] = AnswerItem("piece", h + k)
                           \/ k = q /\ IsEnd(queues[t][k])
        /\ tasks[t] = "complete" => h = pieces[t]
    BY <1>1 DEF TaskFits, AnswerStands
  <1>4. /\ TasksShape /\ FramesInOrder /\ DOMAIN downlink = 1..d
        /\ \A i \in 1..d : downlink[i] \in AnswerFrame
        /\ \A i \in 1..d : downlink[i].number <= pieces[downlink[i].of]
    BY TasksParts DEF AnswersIInv, TasksIInv, FramesNew, BringsNews
  <1>5. \A i, j \in coming : i < j => downlink[i].number < downlink[j].number
    BY <1>4 DEF FramesInOrder
  <1>6. ASSUME t \in atAgent, t \in taskListeners
        PROVE  {downlink[i].number : i \in coming} = (h + q + 1)..pieces[t]
    <2>1. \A n \in 1..pieces[t] : n > h + q <=> n \in Coming(t)
      BY <1>1, <1>6 DEF TaskFits, AnswerStands, Live
    <2>2. pieces[t] \in Nat  BY <1>4 DEF TasksShape
    <2> HIDE DEF h, q
    <2>3. ASSUME NEW j \in coming PROVE downlink[j].number \in (h + q + 1)..pieces[t]
      <3> DEFINE n == downlink[j].number
      <3>1. j \in 1..d /\ downlink[j].of = t /\ n > 0 /\ n \in Nat  BY <1>4 DEF AnswerFrame
      <3>2. n <= pieces[t]  BY <1>4, <3>1
      <3>3. n \in 1..pieces[t] /\ n \in Coming(t)  BY <2>2, <3>1, <3>2 DEF Coming
      <3> HIDE DEF n
      <3>4. n > h + q  BY <2>1, <3>3
      <3>5. n \in (h + q + 1)..pieces[t]  BY <1>2, <2>2, <3>3, <3>4
      <3> QED  BY <3>5 DEF n
    <2>4. ASSUME NEW n \in (h + q + 1)..pieces[t] PROVE \E i \in coming : n = downlink[i].number
      <3>1. n \in 1..pieces[t] /\ n > h + q /\ n > 0  BY <1>2, <2>2
      <3>2. n \in Coming(t)  BY <2>1, <3>1
      <3> QED  BY <1>4, <3>1, <3>2 DEF Coming
    <2> HIDE DEF coming
    <2> QED  BY <2>3, <2>4
  <1> QED  BY <1>3, <1>5, <1>6

\* What a task has in its answer are pieces of it.
LEMMA AnswersTyped == AnswersIInv => AgentClientTypeOK
  <1> SUFFICES ASSUME AnswersIInv PROVE AgentClientTypeOK  OBVIOUS
  <1>1. TasksShape /\ ToolsKept /\ ListenersBelong  BY DEF AnswersIInv, TasksIInv
  <1>2. taskListeners \subseteq TaskIds  BY <1>1 DEF ListenersBelong
  <1>3. tools \subseteq Calls /\ unsent \subseteq Calls  BY <1>1 DEF TasksShape, ToolsKept
  <1>4. ASSUME NEW t \in TaskIds PROVE pieces[t] \in 0..MaxPieces[t]
    BY <1>1, TasksParts DEF TasksShape
  <1>5. ASSUME NEW t \in TaskIds PROVE collected[t] \in Seq(1..MaxPieces[t])
    <2> DEFINE h == collected[t]
               q == queues[t]
               w == Waits(t)
               l == t \in taskListeners
    <2>1. h \in Seq(Nat) /\ q \in Seq(StreamItem) /\ pieces[t] \in Nat /\ MaxPieces[t] \in Nat
          /\ pieces[t] <= MaxPieces[t]
      BY <1>1, TasksParts DEF AnswersIInv, AnswersShape, TasksShape
    <2>2. AnswerStands(h, q, tasks[t], l, pieces[t], w, Live(t), Coming(t))
      BY DEF AnswersIInv, EachFits, TaskFits
    <2> HIDE DEF h, q, w, l
    <2>3. Len(h) \in Nat /\ Len(q) \in Nat /\ (q # <<>> => Len(q) # 0)
      BY <2>1, LenProperties, EmptySeq
    <2>4. Len(h) <= pieces[t]
      <3>1. CASE EndHeard(q)
        <4>1. Len(h) + Len(q) = pieces[t] + 1 /\ q # <<>>  BY <2>2, <3>1 DEF AnswerStands, EndHeard
        <4> QED  BY <2>1, <2>3, <4>1
      <3>2. CASE ~EndHeard(q)
        <4>1. Len(h) + Len(q) <= pieces[t]  BY <2>2, <3>2 DEF AnswerStands
        <4> QED  BY <2>1, <2>3, <4>1
      <3> QED  BY <3>1, <3>2
    <2>5. \A k \in 1..Len(h) : h[k] = k  BY <2>2 DEF AnswerStands
    <2>6. ASSUME NEW k \in 1..Len(h) PROVE h[k] \in 1..MaxPieces[t]
      <3>1. k \in 1..MaxPieces[t]  BY <2>1, <2>3, <2>4
      <3> QED  BY <2>5, <3>1
    <2>7. h = [k \in 1..Len(h) |-> h[k]]  BY <2>1
    <2>8. h \in [1..Len(h) -> 1..MaxPieces[t]]  BY <2>6, <2>7
    <2>9. h \in Seq(1..MaxPieces[t])  BY <2>3, <2>8, SeqDef, Zenon
    <2> QED  BY <2>9 DEF h
  <1> QED  BY <1>1, <1>2, <1>3, <1>4, <1>5 DEF AgentClientTypeOK, TasksShape

-----------------------------------------------------------------------------
(* The channel object of packages/client.  What follows the answer to a    *)
(* call that waits is what the channel will be told once it has the        *)
(* answer; so what holds of all frames while it is subscribed holds of     *)
(* those behind the answer before it is.                                   *)

ChannelRequest ==
    [is : {"unsubscribe"}, call : {0}] \cup [is : {"subscribe"}, call : SubscribeIds]

AckFrame == [is : {"ack"}, call : SubscribeIds, history : Seq(Numbers), at : 0..MaxSaid]
RefusalFrame == [is : {"error"}, call : SubscribeIds]
PublishFrame == [is : {"publish"}, number : Numbers]
PresenceFrame == [is : {"join", "leave"}, who : Others]
ChannelFrame == AckFrame \cup RefusalFrame \cup PublishFrame \cup PresenceFrame

ChannelShape ==
    /\ LinkTypeOK
    /\ uplink \in Seq(ChannelRequest) /\ downlink \in Seq(ChannelFrame)
    /\ active \in BOOLEAN /\ connectionUnsub \in {0} \cup SubscribeIds
    /\ channelListeners \subseteq SubscribeIds
    /\ subscribeCalls \in [SubscribeIds -> {"none", "waiting", "subscribed", "failed"}]
    /\ toldOf \in Seq(Numbers) /\ present \subseteq Others /\ here \subseteq Others
    /\ isMember \in BOOLEAN /\ spoken \in 0..MaxSaid /\ presences \in 0..MaxPresence
    /\ since \in 0..MaxSaid /\ subscribedIn \in 0..MaxEras
    /\ overlap \in BOOLEAN /\ unanswered \in BOOLEAN
    /\ subscribedIn <= era /\ (isMember => linkUp)

\* From the i-th frame on, the messages after the low-th come, to the last.
Brings(frames, i, low, last) ==
    /\ \A j \in i..Len(frames) : frames[j].is = "publish" => frames[j].number \in (low + 1)..last
    /\ \A n \in (low + 1)..last :
          \E j \in i..Len(frames) : frames[j].is = "publish" /\ frames[j].number = n
    /\ \A j, k \in i..Len(frames) :
          j < k /\ frames[j].is = "publish" /\ frames[k].is = "publish" =>
             frames[j].number < frames[k].number

TellsAbout(frame, m) == frame.is \in {"join", "leave"} /\ frame.who = m

\* From the i-th frame on, the last that tells of a member is right.
TellsRight(frames, i, there) ==
    \A m \in Others : \A j \in i..Len(frames) :
       TellsAbout(frames[j], m) /\ (\A k \in (j + 1)..Len(frames) : ~TellsAbout(frames[k], m)) =>
          (frames[j].is = "join" <=> m \in there)

\* What was handed on are the last messages up to the low-th, those since the
\* subscription among them.
HandedOn(msgs, from, low) ==
    /\ Len(msgs) + from >= low
    /\ \A i \in 1..Len(msgs) : msgs[i] = low - Len(msgs) + i

KnowsRight(frames, known, there) ==
    \A m \in known : (\A j \in 1..Len(frames) : ~TellsAbout(frames[j], m)) => m \in there

NoFarewell(requests, i) == \A j \in i..Len(requests) : requests[j].is # "unsubscribe"

OneWaits ==
    /\ \A j, k \in WaitingCalls : j = k
    /\ active => WaitingCalls = {}
    /\ channelListeners = IF active THEN {connectionUnsub} ELSE {}
    /\ ~active => present = {}

\* A request waits for its only answer, or its call has given up.
RequestFits(i) ==
    LET k == uplink[i].call
    IN uplink[i].is = "subscribe" =>
          /\ subscribeCalls[k] = "waiting" \/ (subscribeCalls[k] = "failed" /\ unanswered)
          /\ subscribeCalls[k] = "waiting" => NoFarewell(uplink, i)
          /\ \A j \in 1..Len(downlink) :
                downlink[j].is \in {"ack", "error"} => downlink[j].call # k

AnswerFits(i) ==
    LET f == downlink[i]
    IN f.is \in {"ack", "error"} =>
          /\ subscribeCalls[f.call] # "none"
          /\ f.is = "ack" /\ subscribeCalls[f.call] = "waiting" =>
                /\ isMember /\ NoFarewell(uplink, 1)
                /\ HandedOn(f.history, f.at, f.at) /\ f.at <= spoken
                /\ Brings(downlink, i + 1, f.at, spoken) /\ TellsRight(downlink, i + 1, here)

RequestsFit ==
    /\ \A i \in 1..Len(uplink) : RequestFits(i)
    /\ \A i, j \in 1..Len(uplink) :
          uplink[i].is = "subscribe" /\ uplink[j].is = "subscribe"
          /\ uplink[i].call = uplink[j].call => i = j

AnswersFit ==
    /\ \A i \in 1..Len(downlink) : AnswerFits(i)
    /\ \A i, j \in 1..Len(downlink) :
          downlink[i].is \in {"ack", "error"} /\ downlink[j].is \in {"ack", "error"}
          /\ downlink[i].call = downlink[j].call => i = j

\* The server has it among its members for a reason.
MemberFits ==
    isMember /\ ~active =>
       \/ unanswered \/ ~NoFarewell(uplink, 1)
       \/ \E i \in 1..Len(downlink) :
             downlink[i].is = "ack" /\ subscribeCalls[downlink[i].call] = "waiting"

SubscriptionFits ==
    StillSubscribed =>
       /\ isMember /\ NoFarewell(uplink, 1)
       /\ \E n \in 0..spoken : HandedOn(toldOf, since, n) /\ Brings(downlink, 1, n, spoken)
       /\ TellsRight(downlink, 1, here) /\ KnowsRight(downlink, present, here)

ChannelFits == OneWaits /\ RequestsFit /\ AnswersFit /\ MemberFits /\ SubscriptionFits

ChannelIInv == ChannelShape /\ (~overlap => ChannelFits)

\* What a sequence is with one more at its end, and without its first.
LEMMA OneMoreFrame ==
  ASSUME NEW S, NEW s \in Seq(S), NEW x \in S
  PROVE  /\ Append(s, x) \in Seq(S) /\ Len(Append(s, x)) = Len(s) + 1 /\ Len(s) \in Nat
         /\ \A j \in 1..Len(s) : Append(s, x)[j] = s[j]
         /\ Append(s, x)[Len(s) + 1] = x
  OBVIOUS

LEMMA OneFrameLess ==
  ASSUME NEW S, NEW s \in Seq(S), s # <<>>
  PROVE  /\ Tail(s) \in Seq(S) /\ Len(Tail(s)) = Len(s) - 1 /\ Len(s) \in Nat \ {0}
         /\ \A j \in 1..(Len(s) - 1) : Tail(s)[j] = s[j + 1]
         /\ Head(s) = s[1] /\ s[1] \in S
  OBVIOUS

\* One more frame, and what it does to the messages that come.
LEMMA BringsMore ==
  ASSUME NEW S, NEW fs \in Seq(S), NEW f \in S, NEW i \in Nat, i >= 1, i <= Len(fs) + 1,
         NEW low \in Nat, NEW last \in Nat, low <= last, Brings(fs, i, low, last)
  PROVE  /\ f.is # "publish" => Brings(Append(fs, f), i, low, last)
         /\ f.is = "publish" /\ f.number = last + 1 => Brings(Append(fs, f), i, low, last + 1)
  <1> DEFINE n == Len(fs)
             gs == Append(fs, f)
  <1>1. /\ n \in Nat /\ Len(gs) = n + 1 /\ gs[n + 1] = f /\ \A j \in 1..n : gs[j] = fs[j]
    BY OneMoreFrame
  <1>2. /\ \A j \in i..n : fs[j].is = "publish" => fs[j].number \in (low + 1)..last
        /\ \A m \in (low + 1)..last : \E j \in i..n : fs[j].is = "publish" /\ fs[j].number = m
        /\ \A j, k \in i..n :
              j < k /\ fs[j].is = "publish" /\ fs[k].is = "publish" => fs[j].number < fs[k].number
    BY DEF Brings
  <1> HIDE DEF n, gs
  <1>3. \A j \in i..n : j \in i..(n + 1) /\ gs[j] = fs[j]  BY <1>1
  <1>4. n + 1 \in i..(n + 1) /\ \A j \in i..(n + 1) : j \in i..n \/ j = n + 1  BY <1>1 DEF n
  <1>5. ASSUME f.is # "publish" PROVE Brings(gs, i, low, last)
    <2>1. \A j \in i..(n + 1) : gs[j].is = "publish" => j \in i..n  BY <1>1, <1>4, <1>5
    <2>2. \A j \in i..(n + 1) : gs[j].is = "publish" => gs[j].number \in (low + 1)..last
      BY <1>2, <1>3, <2>1
    <2>3. \A m \in (low + 1)..last : \E j \in i..(n + 1) : gs[j].is = "publish" /\ gs[j].number = m
      BY <1>2, <1>3
    <2>4. \A j, k \in i..(n + 1) :
             j < k /\ gs[j].is = "publish" /\ gs[k].is = "publish" => gs[j].number < gs[k].number
      BY <1>2, <1>3, <2>1
    <2> QED  BY <1>1, <2>2, <2>3, <2>4 DEF Brings
  <1>6. ASSUME f.is = "publish", f.number = last + 1 PROVE Brings(gs, i, low, last + 1)
    <2>1. ASSUME NEW j \in i..(n + 1), gs[j].is = "publish"
          PROVE  gs[j].number \in (low + 1)..(last + 1)
      <3>1. CASE j \in i..n
        <4>1. gs[j].number \in (low + 1)..last  BY <1>2, <1>3, <2>1, <3>1
        <4> QED  BY <4>1
      <3>2. CASE j = n + 1  BY <1>1, <1>6, <3>2
      <3> QED  BY <1>4, <3>1, <3>2
    <2>2. ASSUME NEW m \in (low + 1)..(last + 1)
          PROVE  \E j \in i..(n + 1) : gs[j].is = "publish" /\ gs[j].number = m
      <3>1. CASE m = last + 1  BY <1>1, <1>4, <1>6, <3>1
      <3>2. CASE m # last + 1
        <4>1. m \in (low + 1)..last  BY <3>2
        <4> QED  BY <1>2, <1>3, <4>1
      <3> QED  BY <3>1, <3>2
    <2>3. ASSUME NEW j \in i..(n + 1), NEW k \in i..(n + 1), j < k,
                 gs[j].is = "publish", gs[k].is = "publish"
          PROVE  gs[j].number < gs[k].number
      <3>1. j \in i..n  BY <1>1, <1>4, <2>3
      <3>2. CASE k \in i..n  BY <1>2, <1>3, <2>3, <3>1, <3>2
      <3>3. CASE k = n + 1
        <4>1. gs[j].number \in (low + 1)..last  BY <1>2, <1>3, <2>3, <3>1
        <4>2. gs[k].number = last + 1  BY <1>1, <1>6, <3>3
        <4> QED  BY <4>1, <4>2
      <3> QED  BY <1>4, <3>2, <3>3
    <2> QED  BY <1>1, <2>1, <2>2, <2>3 DEF Brings
  <1> QED  BY <1>5, <1>6 DEF gs

\* Without the first frame, the others move up by one.
LEMMA BringsMoved ==
  ASSUME NEW S, NEW fs \in Seq(S), fs # <<>>, NEW i \in Nat, i >= 1,
         NEW low \in Nat, NEW last \in Nat, Brings(fs, i + 1, low, last)
  PROVE  Brings(Tail(fs), i, low, last)
  <1> DEFINE n == Len(fs)
             gs == Tail(fs)
  <1>1. /\ n \in Nat /\ Len(gs) = n - 1 /\ \A j \in 1..(n - 1) : gs[j] = fs[j + 1]
    BY OneFrameLess
  <1>2. /\ \A j \in (i + 1)..n : fs[j].is = "publish" => fs[j].number \in (low + 1)..last
        /\ \A m \in (low + 1)..last : \E j \in (i + 1)..n : fs[j].is = "publish" /\ fs[j].number = m
        /\ \A j, k \in (i + 1)..n :
              j < k /\ fs[j].is = "publish" /\ fs[k].is = "publish" => fs[j].number < fs[k].number
    BY DEF Brings
  <1> HIDE DEF n, gs
  <1>3. \A j \in i..(n - 1) : j + 1 \in (i + 1)..n /\ gs[j] = fs[j + 1]  BY <1>1
  <1>4. \A j \in (i + 1)..n : j - 1 \in i..(n - 1) /\ gs[j - 1] = fs[j]
    <2>1. ASSUME NEW j \in (i + 1)..n PROVE j - 1 \in i..(n - 1) /\ gs[j - 1] = fs[j]
      <3>1. j - 1 \in i..(n - 1) /\ (j - 1) + 1 = j  BY <1>1
      <3> QED  BY <1>3, <3>1
    <2> QED  BY <2>1
  <1>5. \A j \in i..(n - 1) : gs[j].is = "publish" => gs[j].number \in (low + 1)..last
    BY <1>2, <1>3
  <1>6. \A m \in (low + 1)..last : \E j \in i..(n - 1) : gs[j].is = "publish" /\ gs[j].number = m
    <2>1. ASSUME NEW m \in (low + 1)..last
          PROVE  \E j \in i..(n - 1) : gs[j].is = "publish" /\ gs[j].number = m
      <3>1. PICK j \in (i + 1)..n : fs[j].is = "publish" /\ fs[j].number = m  BY <1>2
      <3>2. j - 1 \in i..(n - 1) /\ gs[j - 1] = fs[j]  BY <1>4
      <3> QED  BY <3>1, <3>2
    <2> QED  BY <2>1
  <1>7. ASSUME NEW j \in i..(n - 1), NEW k \in i..(n - 1), j < k,
               gs[j].is = "publish", gs[k].is = "publish"
        PROVE  gs[j].number < gs[k].number
    <2> DEFINE a == j + 1
               b == k + 1
    <2>1. a \in (i + 1)..n /\ b \in (i + 1)..n /\ a < b /\ gs[j] = fs[a] /\ gs[k] = fs[b]
      BY <1>3, <1>7
    <2> HIDE DEF a, b
    <2> QED  BY <1>2, <1>7, <2>1
  <1> QED  BY <1>1, <1>5, <1>6, <1>7 DEF Brings, gs

\* The first frame: the next message, or none.
LEMMA BringsFirst ==
  ASSUME NEW S, NEW fs \in Seq(S), fs # <<>>,
         NEW low \in Nat, NEW last \in Nat, Brings(fs, 1, low, last)
  PROVE  /\ fs[1].is # "publish" => Brings(Tail(fs), 1, low, last)
         /\ fs[1].is = "publish" =>
               fs[1].number = low + 1 /\ low + 1 <= last /\ Brings(Tail(fs), 1, low + 1, last)
  <1> DEFINE n == Len(fs)
  <1>1. n \in Nat /\ n >= 1  BY OneFrameLess
  <1>2. /\ \A j \in 1..n : fs[j].is = "publish" => fs[j].number \in (low + 1)..last
        /\ \A m \in (low + 1)..last : \E j \in 1..n : fs[j].is = "publish" /\ fs[j].number = m
        /\ \A j, k \in 1..n :
              j < k /\ fs[j].is = "publish" /\ fs[k].is = "publish" => fs[j].number < fs[k].number
    BY DEF Brings
  <1> HIDE DEF n
  <1>3. \A j \in 1..n : j = 1 \/ j \in 2..n  BY <1>1
  <1>4. \A j \in 2..n : j \in 1..n /\ 1 < j  BY <1>1
  <1>5. 1 \in 1..n  BY <1>1
  <1>6. ASSUME fs[1].is # "publish" PROVE Brings(fs, 2, low, last)
    <2>1. \A m \in (low + 1)..last : \E j \in 2..n : fs[j].is = "publish" /\ fs[j].number = m
      BY <1>2, <1>3, <1>6
    <2> QED  BY <1>2, <1>4, <2>1 DEF Brings, n
  <1>7. ASSUME fs[1].is = "publish"
        PROVE  fs[1].number = low + 1 /\ low + 1 <= last /\ Brings(fs, 2, low + 1, last)
    <2>1. fs[1].number \in (low + 1)..last  BY <1>2, <1>5, <1>7
    <2>2. low + 1 <= last /\ low + 1 \in (low + 1)..last  BY <2>1
    <2>3. PICK j \in 1..n : fs[j].is = "publish" /\ fs[j].number = low + 1  BY <1>2, <2>2
    <2>4. j = 1
      <3> SUFFICES ASSUME j \in 2..n PROVE FALSE  BY <1>3
      <3>1. fs[1].number < fs[j].number  BY <1>2, <1>4, <1>5, <1>7, <2>3
      <3> QED  BY <2>1, <2>3, <3>1
    <2>5. fs[1].number = low + 1  BY <2>3, <2>4
    <2>6. ASSUME NEW k \in 2..n, fs[k].is = "publish" PROVE fs[k].number \in (low + 1 + 1)..last
      <3>1. fs[1].number < fs[k].number  BY <1>2, <1>4, <1>5, <1>7, <2>6
      <3>2. fs[k].number \in (low + 1)..last  BY <1>2, <1>4, <2>6
      <3> QED  BY <2>5, <3>1, <3>2
    <2>7. ASSUME NEW m \in (low + 1 + 1)..last
          PROVE  \E k \in 2..n : fs[k].is = "publish" /\ fs[k].number = m
      <3>1. m \in (low + 1)..last /\ m # low + 1  BY <2>7
      <3> QED  BY <1>2, <1>3, <2>5, <3>1
    <2>8. ASSUME NEW k \in 2..n, NEW l \in 2..n, k < l, fs[k].is = "publish", fs[l].is = "publish"
          PROVE  fs[k].number < fs[l].number
      <3>1. k \in 1..n /\ l \in 1..n  BY <1>4
      <3> QED  BY <1>2, <2>8, <3>1
    <2> QED  BY <2>2, <2>5, <2>6, <2>7, <2>8 DEF Brings, n
  <1>8. 1 + 1 = 2 /\ 1 \in Nat /\ 1 >= 1 /\ low + 1 \in Nat  OBVIOUS
  <1> QED  BY <1>6, <1>7, <1>8, BringsMoved

\* The same of what tells of the members.
LEMMA TellsMore ==
  ASSUME NEW S, NEW fs \in Seq(S), NEW f \in S, NEW i \in Nat, i >= 1, i <= Len(fs) + 1,
         NEW there, NEW since2, TellsRight(fs, i, there),
         \A m \in Others : IF TellsAbout(f, m) THEN f.is = "join" <=> m \in since2
                           ELSE m \in since2 <=> m \in there
  PROVE  TellsRight(Append(fs, f), i, since2)
  <1> DEFINE n == Len(fs)
             gs == Append(fs, f)
  <1>1. /\ n \in Nat /\ Len(gs) = n + 1 /\ gs[n + 1] = f /\ \A j \in 1..n : gs[j] = fs[j]
    BY OneMoreFrame
  <1>2. \A m \in Others : \A j \in i..n :
           TellsAbout(fs[j], m) /\ (\A k \in (j + 1)..n : ~TellsAbout(fs[k], m)) =>
              (fs[j].is = "join" <=> m \in there)
    BY DEF TellsRight
  <1> HIDE DEF n, gs
  <1>3. \A j \in i..n : gs[j] = fs[j]  BY <1>1
  <1>4. n + 1 \in i..(n + 1) /\ \A j \in i..(n + 1) : j \in i..n \/ j = n + 1  BY <1>1 DEF n
  <1>5. ASSUME NEW m \in Others, NEW j \in i..(n + 1), TellsAbout(gs[j], m),
               \A k \in (j + 1)..(n + 1) : ~TellsAbout(gs[k], m)
        PROVE  gs[j].is = "join" <=> m \in since2
    <2>1. CASE j = n + 1  BY <1>1, <1>5, <2>1
    <2>2. CASE j \in i..n
      <3>1. n + 1 \in (j + 1)..(n + 1) /\ \A k \in (j + 1)..n : k \in (j + 1)..(n + 1) /\ k \in i..n
        BY <1>1, <2>2
      <3>2. ~TellsAbout(f, m)  BY <1>1, <1>5, <3>1
      <3>3. \A k \in (j + 1)..n : ~TellsAbout(fs[k], m)  BY <1>3, <1>5, <3>1
      <3>4. TellsAbout(fs[j], m) /\ gs[j] = fs[j]  BY <1>3, <1>5, <2>2
      <3>5. fs[j].is = "join" <=> m \in there  BY <1>2, <2>2, <3>3, <3>4
      <3> QED  BY <3>2, <3>4, <3>5
    <2> QED  BY <1>4, <2>1, <2>2
  <1>6. TellsRight(gs, i, since2)  BY <1>1, <1>5 DEF TellsRight
  <1> QED  BY <1>6 DEF gs

LEMMA TellsMoved ==
  ASSUME NEW S, NEW fs \in Seq(S), fs # <<>>, NEW i \in Nat, i >= 1,
         NEW there, TellsRight(fs, i + 1, there)
  PROVE  TellsRight(Tail(fs), i, there)
  <1> DEFINE n == Len(fs)
             gs == Tail(fs)
  <1>1. /\ n \in Nat /\ Len(gs) = n - 1 /\ \A j \in 1..(n - 1) : gs[j] = fs[j + 1]
    BY OneFrameLess
  <1>2. \A m \in Others : \A j \in (i + 1)..n :
           TellsAbout(fs[j], m) /\ (\A k \in (j + 1)..n : ~TellsAbout(fs[k], m)) =>
              (fs[j].is = "join" <=> m \in there)
    BY DEF TellsRight
  <1> HIDE DEF n, gs
  <1>3. ASSUME NEW m \in Others, NEW j \in i..(n - 1), TellsAbout(gs[j], m),
               \A k \in (j + 1)..(n - 1) : ~TellsAbout(gs[k], m)
        PROVE  gs[j].is = "join" <=> m \in there
    <2> DEFINE a == j + 1
    <2>1. a \in (i + 1)..n /\ gs[j] = fs[a]  BY <1>1
    <2>2. ASSUME NEW k \in (a + 1)..n PROVE ~TellsAbout(fs[k], m)
      <3> DEFINE b == k - 1
      <3>1. b \in (j + 1)..(n - 1) /\ b + 1 = k /\ b \in 1..(n - 1)  BY <1>1
      <3>2. gs[b] = fs[k]  BY <1>1, <3>1
      <3> HIDE DEF b
      <3> QED  BY <1>3, <3>1, <3>2
    <2> HIDE DEF a
    <2> QED  BY <1>2, <1>3, <2>1, <2>2
  <1> QED  BY <1>1, <1>3 DEF TellsRight, gs

\* The first frame, and the members the channel knows after it.
LEMMA TellsFirst ==
  ASSUME NEW S, NEW fs \in Seq(S), fs # <<>>, NEW there, NEW known \in SUBSET Others,
         TellsRight(fs, 1, there), KnowsRight(fs, known, there)
  PROVE  /\ TellsRight(Tail(fs), 1, there)
         /\ fs[1].is \notin {"join", "leave"} => KnowsRight(Tail(fs), known, there)
         /\ fs[1].is = "join" /\ fs[1].who \in Others =>
               KnowsRight(Tail(fs), known \cup {fs[1].who}, there)
         /\ fs[1].is = "leave" => KnowsRight(Tail(fs), known \ {fs[1].who}, there)
  <1> DEFINE n == Len(fs)
             gs == Tail(fs)
  <1>1. /\ n \in Nat \ {0} /\ Len(gs) = n - 1 /\ \A j \in 1..(n - 1) : gs[j] = fs[j + 1]
    BY OneFrameLess
  <1>2. \A m \in Others : \A j \in 1..n :
           TellsAbout(fs[j], m) /\ (\A k \in (j + 1)..n : ~TellsAbout(fs[k], m)) =>
              (fs[j].is = "join" <=> m \in there)
    BY DEF TellsRight
  <1>3. \A m \in known : (\A j \in 1..n : ~TellsAbout(fs[j], m)) => m \in there  BY DEF KnowsRight
  <1>4. TellsRight(gs, 1, there)
    <2>1. 1 \in Nat /\ 1 >= 1 /\ 1 + 1 = 2  OBVIOUS
    <2>2. TellsRight(fs, 2, there)
      <3>1. \A j \in 2..n : j \in 1..n  BY <1>1
      <3> QED  BY <1>2, <3>1 DEF TellsRight
    <2> QED  BY <2>1, <2>2, TellsMoved
  <1> HIDE DEF n, gs
  <1>5. ASSUME NEW m, \A j \in 1..(n - 1) : ~TellsAbout(gs[j], m), NEW j \in 2..n
        PROVE  ~TellsAbout(fs[j], m)
    <2> DEFINE a == j - 1
    <2>1. a \in 1..(n - 1) /\ a + 1 = j  BY <1>1
    <2>2. gs[a] = fs[j]  BY <1>1, <2>1
    <2> HIDE DEF a
    <2> QED  BY <1>5, <2>1, <2>2
  <1>6. 1 \in 1..n /\ 1 + 1 = 2 /\ \A j \in 1..n : j = 1 \/ j \in 2..n  BY <1>1
  <1>7. ASSUME NEW m \in known, ~TellsAbout(fs[1], m), \A j \in 1..(n - 1) : ~TellsAbout(gs[j], m)
        PROVE  m \in there
    <2>1. \A j \in 1..n : ~TellsAbout(fs[j], m)  BY <1>5, <1>6, <1>7
    <2> QED  BY <1>3, <2>1
  <1>8. ASSUME fs[1].is = "join", fs[1].who \in Others,
               \A j \in 1..(n - 1) : ~TellsAbout(gs[j], fs[1].who)
        PROVE  fs[1].who \in there
    <2>1. TellsAbout(fs[1], fs[1].who)  BY <1>8 DEF TellsAbout
    <2>2. \A k \in 2..n : ~TellsAbout(fs[k], fs[1].who)  BY <1>5, <1>8
    <2> QED  BY <1>2, <1>6, <1>8, <2>1, <2>2
  <1>9. fs[1].is \notin {"join", "leave"} => KnowsRight(gs, known, there)
    BY <1>1, <1>7 DEF KnowsRight, TellsAbout
  <1>10. ASSUME fs[1].is = "join", fs[1].who \in Others
         PROVE  KnowsRight(gs, known \cup {fs[1].who}, there)
    <2>1. ASSUME NEW m \in known \cup {fs[1].who}, \A j \in 1..(n - 1) : ~TellsAbout(gs[j], m)
          PROVE  m \in there
      <3>1. CASE m = fs[1].who  BY <1>8, <1>10, <2>1, <3>1
      <3>2. CASE m # fs[1].who
        <4>1. ~TellsAbout(fs[1], m)  BY <3>2 DEF TellsAbout
        <4> QED  BY <1>7, <2>1, <3>2, <4>1
      <3> QED  BY <3>1, <3>2
    <2> QED  BY <1>1, <2>1 DEF KnowsRight
  <1>11. fs[1].is = "leave" => KnowsRight(gs, known \ {fs[1].who}, there)
    <2>1. \A m \in known \ {fs[1].who} : ~TellsAbout(fs[1], m)  BY DEF TellsAbout
    <2> QED  BY <1>1, <1>7, <2>1 DEF KnowsRight
  <1> QED  BY <1>4, <1>9, <1>10, <1>11 DEF gs

\* One more frame of a member that the channel knows.
LEMMA KnowsMore ==
  ASSUME NEW S, NEW fs \in Seq(S), NEW f \in S, NEW known \in SUBSET Others,
         NEW there, NEW since2, KnowsRight(fs, known, there),
         \A m \in Others : TellsAbout(f, m) \/ (m \in since2 <=> m \in there)
  PROVE  KnowsRight(Append(fs, f), known, since2)
  <1> DEFINE n == Len(fs)
             gs == Append(fs, f)
  <1>1. /\ n \in Nat /\ Len(gs) = n + 1 /\ gs[n + 1] = f /\ \A j \in 1..n : gs[j] = fs[j]
    BY OneMoreFrame
  <1>2. \A m \in known : (\A j \in 1..n : ~TellsAbout(fs[j], m)) => m \in there  BY DEF KnowsRight
  <1> HIDE DEF n, gs
  <1>3. n + 1 \in 1..(n + 1) /\ \A j \in 1..n : j \in 1..(n + 1)  BY <1>1
  <1>4. ASSUME NEW m \in known, \A j \in 1..(n + 1) : ~TellsAbout(gs[j], m) PROVE m \in since2
    <2>1. ~TellsAbout(f, m)  BY <1>1, <1>3, <1>4
    <2>2. \A j \in 1..n : ~TellsAbout(fs[j], m)  BY <1>1, <1>3, <1>4
    <2> QED  BY <1>2, <2>1, <2>2
  <1> QED  BY <1>1, <1>4 DEF KnowsRight, gs

LEMMA HandedOnNext ==
  ASSUME NEW S, NEW msgs \in Seq(S), NEW from \in Nat, NEW low \in Nat, HandedOn(msgs, from, low),
         low + 1 \in S
  PROVE  HandedOn(Append(msgs, low + 1), from, low + 1)
  <1> DEFINE n == Len(msgs)
             more == Append(msgs, low + 1)
  <1>1. /\ n \in Nat /\ Len(more) = n + 1 /\ more[n + 1] = low + 1
        /\ \A j \in 1..n : more[j] = msgs[j]
    BY OneMoreFrame
  <1>2. n + from >= low /\ \A j \in 1..n : msgs[j] = low - n + j  BY DEF HandedOn
  <1> HIDE DEF n, more
  <1>3. (n + 1) + from >= low + 1  BY <1>1, <1>2
  <1>4. ASSUME NEW j \in 1..(n + 1) PROVE more[j] = (low + 1) - (n + 1) + j
    <2>1. CASE j \in 1..n
      <3>1. more[j] = low - n + j  BY <1>1, <1>2, <2>1
      <3> QED  BY <1>1, <3>1
    <2>2. CASE j = n + 1  BY <1>1, <2>2
    <2> QED  BY <1>1, <2>1, <2>2
  <1>5. HandedOn(more, from, low + 1)  BY <1>1, <1>3, <1>4 DEF HandedOn
  <1> QED  BY <1>5 DEF more

LEMMA FrameKinds ==
  ASSUME NEW f \in ChannelFrame
  PROVE  /\ f.is \in {"ack", "error", "publish", "join", "leave"}
         /\ f.is = "ack" => f.call \in SubscribeIds /\ f.at \in 0..MaxSaid /\ f.history \in Seq(Numbers)
         /\ f.is = "error" => f.call \in SubscribeIds
         /\ f.is = "publish" => f.number \in Numbers
         /\ f.is \in {"join", "leave"} => f.who \in Others
  BY DEF ChannelFrame, AckFrame, RefusalFrame, PublishFrame, PresenceFrame

LEMMA ChannelParts ==
  ASSUME ChannelShape
  PROVE  /\ uplink \in Seq(ChannelRequest) /\ downlink \in Seq(ChannelFrame)
         /\ Len(uplink) \in Nat /\ Len(downlink) \in Nat
         /\ \A i \in 1..Len(downlink) : downlink[i] \in ChannelFrame
         /\ \A i \in 1..Len(uplink) : uplink[i] \in ChannelRequest
         /\ \A i \in 1..Len(uplink) :
               /\ uplink[i].is \in {"subscribe", "unsubscribe"}
               /\ uplink[i].is = "subscribe" => uplink[i].call \in SubscribeIds
         /\ MaxSaid \in Nat /\ MaxPresence \in Nat /\ MaxSubscribes \in Nat /\ MaxEras \in Nat \ {0}
         /\ spoken \in Nat /\ era \in Nat /\ since \in Nat /\ toldOf \in Seq(Numbers)
  <1>1. uplink \in Seq(ChannelRequest) /\ downlink \in Seq(ChannelFrame)  BY DEF ChannelShape
  <1>2. Len(uplink) \in Nat /\ Len(downlink) \in Nat  BY <1>1
  <1>3. \A i \in 1..Len(downlink) : downlink[i] \in ChannelFrame  BY <1>1, ElementOfSeq
  <1>4. \A i \in 1..Len(uplink) : uplink[i] \in ChannelRequest  BY <1>1, ElementOfSeq
  <1>5. \A i \in 1..Len(uplink) :
           /\ uplink[i].is \in {"subscribe", "unsubscribe"}
           /\ uplink[i].is = "subscribe" => uplink[i].call \in SubscribeIds
    BY <1>4 DEF ChannelRequest
  <1>6. MaxSaid \in Nat /\ MaxPresence \in Nat /\ MaxSubscribes \in Nat /\ MaxEras \in Nat \ {0}
    BY ChannelObjectAssumption, LinkAssumption
  <1>7. spoken \in Nat /\ era \in Nat /\ since \in Nat /\ toldOf \in Seq(Numbers)
    BY <1>6 DEF ChannelShape, LinkTypeOK
  <1> QED  BY <1>1, <1>2, <1>3, <1>4, <1>5, <1>6, <1>7

\* What a frame that comes says is so.
SaysSo(f, low, low2, there, since2) ==
    /\ IF f.is = "publish" THEN low2 = low + 1 /\ f.number = low2 ELSE low2 = low
    /\ \A m \in Others : IF TellsAbout(f, m) THEN f.is = "join" <=> m \in since2
                         ELSE m \in since2 <=> m \in there

\* One more frame comes while the server has the channel's client as a member.
LEMMA FrameComes ==
  ASSUME ChannelShape, AnswersFit, SubscriptionFits,
         NEW f \in ChannelFrame, downlink' = Append(downlink, f),
         SaysSo(f, spoken, spoken', here, here'),
         UNCHANGED <<linkUp, era, objectVars, channelHistory>>,
         isMember => isMember', NoFarewell(uplink, 1) => NoFarewell(uplink', 1),
         f.is \in {"ack", "error"} =>
            /\ subscribeCalls[f.call] # "none"
            /\ \A j \in 1..Len(downlink) :
                  downlink[j].is \in {"ack", "error"} => downlink[j].call # f.call,
         f.is = "ack" /\ subscribeCalls[f.call] = "waiting" =>
            isMember' /\ NoFarewell(uplink', 1) /\ f.at = spoken /\ HandedOn(f.history, f.at, f.at)
  PROVE  downlink' \in Seq(ChannelFrame) /\ AnswersFit' /\ SubscriptionFits'
  <1> DEFINE n == Len(downlink)
  <1>1. UNCHANGED <<linkUp, era, active, connectionUnsub, channelListeners, subscribeCalls, toldOf,
                    present, since, subscribedIn, overlap, unanswered>>
    BY DEF objectVars, channelHistory
  <1>2. /\ n \in Nat /\ downlink \in Seq(ChannelFrame) /\ spoken \in Nat
        /\ \A i \in 1..n : downlink[i] \in ChannelFrame
        /\ MaxSaid \in Nat
    BY ChannelParts
  <1>3. /\ downlink' \in Seq(ChannelFrame) /\ Len(downlink') = n + 1 /\ downlink'[n + 1] = f
        /\ \A i \in 1..n : downlink'[i] = downlink[i]
    BY <1>2, OneMoreFrame
  <1>4. ASSUME NEW i \in Nat, i >= 1, i <= n + 1, NEW low \in Nat, low <= spoken,
               Brings(downlink, i, low, spoken)
        PROVE  Brings(downlink', i, low, spoken')
    <2>1. /\ f.is # "publish" => Brings(Append(downlink, f), i, low, spoken)
          /\ f.is = "publish" /\ f.number = spoken + 1 => Brings(Append(downlink, f), i, low, spoken + 1)
      BY <1>2, <1>4, BringsMore
    <2> QED  BY <2>1 DEF SaysSo
  <1>5. ASSUME NEW i \in Nat, i >= 1, i <= n + 1, TellsRight(downlink, i, here)
        PROVE  TellsRight(downlink', i, here')
    <2>1. \A m \in Others : IF TellsAbout(f, m) THEN f.is = "join" <=> m \in here'
                            ELSE m \in here' <=> m \in here
      BY DEF SaysSo
    <2> QED  BY <1>2, <1>5, <2>1, TellsMore
  <1>6. SubscriptionFits'
    <2>1. CASE ~StillSubscribed
      <3>1. ~StillSubscribed'  BY <1>1, <2>1 DEF StillSubscribed
      <3> QED  BY <3>1 DEF SubscriptionFits
    <2>2. CASE StillSubscribed
      <3>1. /\ isMember /\ NoFarewell(uplink, 1)
            /\ TellsRight(downlink, 1, here) /\ KnowsRight(downlink, present, here)
        BY <2>2 DEF SubscriptionFits
      <3>2. PICK low \in 0..spoken : HandedOn(toldOf, since, low) /\ Brings(downlink, 1, low, spoken)
        BY <2>2 DEF SubscriptionFits
      <3>3. 1 \in Nat /\ 1 >= 1 /\ 1 <= n + 1 /\ low \in Nat /\ low <= spoken  BY <1>2, <3>2
      <3>4. Brings(downlink', 1, low, spoken') /\ TellsRight(downlink', 1, here')
        BY <1>4, <1>5, <3>1, <3>2, <3>3
      <3>5. KnowsRight(downlink', present, here')
        <4>1. \A m \in Others : TellsAbout(f, m) \/ (m \in here' <=> m \in here)  BY DEF SaysSo
        <4>2. present \in SUBSET Others  BY DEF ChannelShape
        <4> QED  BY <1>2, <3>1, <4>1, <4>2, KnowsMore
      <3>6. low \in 0..spoken' /\ HandedOn(toldOf', since', low)  BY <1>1, <1>2, <3>2 DEF SaysSo
      <3> QED  BY <1>1, <3>1, <3>4, <3>5, <3>6 DEF SubscriptionFits
    <2> QED  BY <2>1, <2>2
  <1>7. ASSUME NEW i \in 1..n PROVE AnswerFits(i)'
    <2> DEFINE g == downlink[i]
    <2>1. AnswerFits(i) /\ g \in ChannelFrame /\ downlink'[i] = g  BY <1>2, <1>3 DEF AnswersFit
    <2>2. i + 1 \in Nat /\ i + 1 >= 1 /\ i + 1 <= n + 1  BY <1>2
    <2>3. ASSUME g.is = "ack", subscribeCalls[g.call] = "waiting"
          PROVE  /\ isMember' /\ NoFarewell(uplink', 1)
                 /\ HandedOn(g.history, g.at, g.at) /\ g.at <= spoken'
                 /\ Brings(downlink', i + 1, g.at, spoken') /\ TellsRight(downlink', i + 1, here')
      <3>1. /\ isMember /\ NoFarewell(uplink, 1)
            /\ HandedOn(g.history, g.at, g.at) /\ g.at <= spoken
            /\ Brings(downlink, i + 1, g.at, spoken) /\ TellsRight(downlink, i + 1, here)
        BY <2>1, <2>3 DEF AnswerFits
      <3>2. g.at \in Nat  BY <1>2, <2>1, <2>3, FrameKinds
      <3>3. g.at <= spoken'
        <4>1. spoken' = spoken \/ spoken' = spoken + 1  BY DEF SaysSo
        <4> HIDE DEF g
        <4> QED  BY <1>2, <3>1, <3>2, <4>1
      <3> HIDE DEF g
      <3>4. Brings(downlink', i + 1, g.at, spoken')  BY <1>4, <2>2, <3>1, <3>2
      <3>5. TellsRight(downlink', i + 1, here')  BY <1>5, <2>2, <3>1
      <3> QED  BY <3>1, <3>3, <3>4, <3>5
    <2>4. g.is \in {"ack", "error"} => subscribeCalls[g.call] # "none"  BY <2>1 DEF AnswerFits
    <2> QED  BY <1>1, <2>1, <2>3, <2>4 DEF AnswerFits
  <1>8. ASSUME NEW p \in Nat, p = n + 1 PROVE AnswerFits(p)'
    <2>1. ASSUME f.is = "ack", subscribeCalls[f.call] = "waiting"
          PROVE  /\ isMember' /\ NoFarewell(uplink', 1)
                 /\ HandedOn(f.history, f.at, f.at) /\ f.at <= spoken'
                 /\ Brings(downlink', p + 1, f.at, spoken') /\ TellsRight(downlink', p + 1, here')
      <3>1. /\ isMember' /\ NoFarewell(uplink', 1) /\ HandedOn(f.history, f.at, f.at)
            /\ f.at = spoken /\ spoken' = spoken
        BY <2>1 DEF SaysSo
      <3>2. (p + 1)..(n + 1) = {} /\ (f.at + 1)..spoken' = {} /\ f.at <= spoken'
        BY <1>2, <1>8, <3>1
      <3>3. Brings(downlink', p + 1, f.at, spoken') /\ TellsRight(downlink', p + 1, here')
        BY <1>3, <3>2 DEF Brings, TellsRight
      <3> QED  BY <3>1, <3>2, <3>3
    <2>2. downlink'[p] = f  BY <1>3, <1>8
    <2> HIDE DEF n
    <2> QED  BY <1>1, <2>1, <2>2 DEF AnswerFits
  <1>9. AnswersFit'
    <2> HIDE DEF n
    <2>1. \A i \in 1..(n + 1) : i \in 1..n \/ i = n + 1  BY <1>2
    <2>2. ASSUME NEW i \in 1..(n + 1) PROVE AnswerFits(i)'
      <3>1. i \in Nat  BY <1>2 DEF n
      <3> QED  BY <1>7, <1>8, <2>1, <3>1
    <2>3. ASSUME NEW i \in 1..(n + 1), NEW j \in 1..(n + 1),
                 downlink'[i].is \in {"ack", "error"}, downlink'[j].is \in {"ack", "error"},
                 downlink'[i].call = downlink'[j].call
          PROVE  i = j
      <3>1. CASE i \in 1..n /\ j \in 1..n
        <4>1. downlink'[i] = downlink[i] /\ downlink'[j] = downlink[j]  BY <1>3, <3>1
        <4> QED  BY <2>3, <3>1, <4>1 DEF AnswersFit, n
      <3>2. CASE i \in 1..n /\ j = n + 1
        <4>1. downlink'[i] = downlink[i] /\ downlink'[j] = f  BY <1>3, <3>2
        <4> QED  BY <2>3, <3>2, <4>1 DEF n
      <3>3. CASE i = n + 1 /\ j \in 1..n
        <4>1. downlink'[i] = f /\ downlink'[j] = downlink[j]  BY <1>3, <3>3
        <4> QED  BY <2>3, <3>3, <4>1 DEF n
      <3> QED  BY <2>1, <3>1, <3>2, <3>3
    <2> QED  BY <1>3, <2>2, <2>3 DEF AnswersFit
  <1> QED  BY <1>3, <1>6, <1>9

\* The first frame is taken; no call begins to wait by that.
LEMMA AnswersMove ==
  ASSUME ChannelShape, AnswersFit, downlink # <<>>, downlink' = Tail(downlink),
         UNCHANGED <<uplink, isMember, spoken, here>>,
         \A k \in SubscribeIds : subscribeCalls'[k] = "waiting" => subscribeCalls[k] = "waiting",
         \A k \in SubscribeIds : subscribeCalls[k] # "none" => subscribeCalls'[k] # "none"
  PROVE  downlink' \in Seq(ChannelFrame) /\ AnswersFit'
  <1> DEFINE n == Len(downlink)
  <1>1. /\ n \in Nat /\ downlink \in Seq(ChannelFrame) /\ spoken \in Nat
        /\ \A i \in 1..n : downlink[i] \in ChannelFrame
    BY ChannelParts
  <1>2. /\ downlink' \in Seq(ChannelFrame) /\ Len(downlink') = n - 1
        /\ \A j \in 1..(n - 1) : downlink'[j] = downlink[j + 1]
    BY <1>1, OneFrameLess
  <1>3. ASSUME NEW i \in 1..(n - 1) PROVE AnswerFits(i)'
    <2> DEFINE g == downlink[i + 1]
    <2>1. i + 1 \in 1..n /\ i + 1 \in Nat /\ i \in Nat /\ i >= 1 /\ downlink'[i] = g
      BY <1>1, <1>2
    <2>2. AnswerFits(i + 1) /\ g \in ChannelFrame  BY <1>1, <2>1 DEF AnswersFit
    <2>3. g.is \in {"ack", "error"} => g.call \in SubscribeIds /\ subscribeCalls'[g.call] # "none"
      BY <2>2, FrameKinds DEF AnswerFits
    <2>4. ASSUME g.is = "ack", subscribeCalls'[g.call] = "waiting"
          PROVE  /\ isMember' /\ NoFarewell(uplink', 1)
                 /\ HandedOn(g.history, g.at, g.at) /\ g.at <= spoken'
                 /\ Brings(downlink', i + 1, g.at, spoken') /\ TellsRight(downlink', i + 1, here')
      <3>1. subscribeCalls[g.call] = "waiting" /\ g.at \in Nat
        BY <1>1, <2>2, <2>3, <2>4, FrameKinds
      <3>2. /\ isMember /\ NoFarewell(uplink, 1)
            /\ HandedOn(g.history, g.at, g.at) /\ g.at <= spoken
            /\ Brings(downlink, (i + 1) + 1, g.at, spoken) /\ TellsRight(downlink, (i + 1) + 1, here)
        BY <2>2, <2>4, <3>1 DEF AnswerFits
      <3>3. i + 1 >= 1  BY <2>1
      <3> HIDE DEF g
      <3>4. Brings(downlink', i + 1, g.at, spoken)
        BY <1>1, <2>1, <3>1, <3>2, <3>3, BringsMoved
      <3>5. TellsRight(downlink', i + 1, here)
        BY <1>1, <2>1, <3>2, <3>3, TellsMoved
      <3> QED  BY <3>2, <3>4, <3>5
    <2> QED  BY <2>1, <2>3, <2>4 DEF AnswerFits
  <1>4. ASSUME NEW i \in 1..(n - 1), NEW j \in 1..(n - 1),
               downlink'[i].is \in {"ack", "error"}, downlink'[j].is \in {"ack", "error"},
               downlink'[i].call = downlink'[j].call
        PROVE  i = j
    <2>1. i + 1 \in 1..n /\ j + 1 \in 1..n  BY <1>1
    <2>2. downlink'[i] = downlink[i + 1] /\ downlink'[j] = downlink[j + 1]  BY <1>2
    <2>3. PICK a \in 1..n, b \in 1..n : a = i + 1 /\ b = j + 1  BY <2>1
    <2>4. a = b  BY <1>4, <2>2, <2>3 DEF AnswersFit
    <2> QED  BY <2>3, <2>4
  <1> HIDE DEF n
  <1> QED  BY <1>2, <1>3, <1>4 DEF AnswersFit

LEMMA RequestsMove ==
  ASSUME ChannelShape, RequestsFit, downlink # <<>>, downlink' = Tail(downlink),
         UNCHANGED <<uplink, unanswered>>,
         \A k \in SubscribeIds :
            \/ subscribeCalls'[k] = subscribeCalls[k]
            \/ downlink[1].is \in {"ack", "error"} /\ downlink[1].call = k
  PROVE  RequestsFit'
  <1> DEFINE n == Len(downlink)
  <1>1. n \in Nat \ {0} /\ \A j \in 1..(n - 1) : downlink'[j] = downlink[j + 1]
    BY ChannelParts, OneFrameLess
  <1>2. Len(downlink') = n - 1  BY ChannelParts, OneFrameLess
  <1>3. ASSUME NEW i \in 1..Len(uplink), uplink[i].is = "subscribe"
        PROVE  LET k == uplink[i].call
               IN /\ subscribeCalls'[k] = "waiting" \/ (subscribeCalls'[k] = "failed" /\ unanswered)
                  /\ subscribeCalls'[k] = "waiting" => NoFarewell(uplink, i)
                  /\ \A j \in 1..(n - 1) :
                        downlink'[j].is \in {"ack", "error"} => downlink'[j].call # k
    <2> DEFINE k == uplink[i].call
    <2>1. /\ k \in SubscribeIds
          /\ subscribeCalls[k] = "waiting" \/ (subscribeCalls[k] = "failed" /\ unanswered)
          /\ subscribeCalls[k] = "waiting" => NoFarewell(uplink, i)
          /\ \A j \in 1..n : downlink[j].is \in {"ack", "error"} => downlink[j].call # k
      BY <1>3, ChannelParts DEF RequestsFit, RequestFits
    <2>2. 1 \in 1..n /\ \A j \in 1..(n - 1) : j + 1 \in 1..n  BY <1>1
    <2>3. subscribeCalls'[k] = subscribeCalls[k]  BY <2>1, <2>2
    <2>4. \A j \in 1..(n - 1) : downlink'[j].is \in {"ack", "error"} => downlink'[j].call # k
      BY <1>1, <2>1, <2>2
    <2> QED  BY <2>1, <2>3, <2>4
  <1>4. \A i \in 1..Len(uplink) : RequestFits(i)'
    <2> HIDE DEF n
    <2> QED  BY <1>2, <1>3 DEF RequestFits
  <1> QED  BY <1>4 DEF RequestsFit

\* The answer to a call leaves the state in its shape.
LEMMA AnsweredShape ==
  ASSUME ChannelShape, downlink # <<>>, downlink' = Tail(downlink),
         \/ downlink[1].is = "ack" /\ Subscribed(downlink[1])
         \/ downlink[1].is = "error" /\ SubscribeRefused(downlink[1]),
         UNCHANGED <<linkUp, era, uplink, roomVars, overlap, unanswered>>
  PROVE  ChannelShape'
  <1> DEFINE f == downlink[1]
             k == f.call
  <1>1. f \in ChannelFrame /\ downlink' \in Seq(ChannelFrame)  BY ChannelParts, OneFrameLess
  <1>2. LinkTypeOK'  BY DEF ChannelShape, LinkTypeOK
  <1>3. k \in SubscribeIds /\ (f.is = "ack" => f.at \in 0..MaxSaid /\ f.history \in Seq(Numbers))
    BY <1>1, FrameKinds
  <1>4. UNCHANGED <<isMember, spoken, here, presences, present>>
    BY DEF roomVars, Subscribed, SubscribeRefused
  <1>5. CASE Subscribed(f) /\ f.is = "ack"
    <2>1. /\ subscribeCalls' = [subscribeCalls EXCEPT ![k] = "subscribed"]
          /\ channelListeners' = channelListeners \cup {k} /\ connectionUnsub' = k /\ active' = TRUE
          /\ toldOf' = f.history /\ since' = f.at /\ subscribedIn' = era
      BY <1>5 DEF Subscribed
    <2>2. era \in 0..MaxEras /\ era <= era  BY ChannelParts DEF ChannelShape, LinkTypeOK
    <2> HIDE DEF k, f
    <2>3. subscribeCalls' \in [SubscribeIds -> {"none", "waiting", "subscribed", "failed"}]
      BY <1>3, <2>1 DEF ChannelShape
    <2>4. /\ toldOf' \in Seq(Numbers) /\ since' \in 0..MaxSaid /\ subscribedIn' \in 0..MaxEras
          /\ subscribedIn' <= era' /\ channelListeners' \subseteq SubscribeIds
          /\ connectionUnsub' \in {0} \cup SubscribeIds /\ active' \in BOOLEAN
      BY <1>3, <1>5, <2>1, <2>2 DEF ChannelShape
    <2> QED  BY <1>1, <1>2, <1>4, <2>3, <2>4 DEF ChannelShape
  <1>6. CASE SubscribeRefused(f)
    <2>1. /\ subscribeCalls' = [subscribeCalls EXCEPT ![k] = "failed"]
          /\ UNCHANGED <<active, connectionUnsub, channelListeners, toldOf, since, subscribedIn>>
      BY <1>6 DEF SubscribeRefused
    <2> HIDE DEF k, f
    <2>2. subscribeCalls' \in [SubscribeIds -> {"none", "waiting", "subscribed", "failed"}]
      BY <1>3, <2>1 DEF ChannelShape
    <2> QED  BY <1>1, <1>2, <1>4, <2>1, <2>2 DEF ChannelShape
  <1> QED  BY <1>5, <1>6

\* The answer to the call that waits.
LEMMA SubscribedKeeps ==
  ASSUME ChannelShape, ChannelFits, downlink # <<>>, downlink' = Tail(downlink),
         downlink[1].is = "ack", subscribeCalls[downlink[1].call] = "waiting",
         Subscribed(downlink[1]), UNCHANGED <<linkUp, era, uplink, roomVars, overlap, unanswered>>
  PROVE  ChannelFits'
  <1> DEFINE f == downlink[1]
             k == f.call
  <1>1. /\ OneWaits /\ RequestsFit /\ AnswersFit /\ MemberFits /\ SubscriptionFits
        /\ UNCHANGED <<isMember, spoken, here, presences, present>>
        /\ subscribeCalls' = [subscribeCalls EXCEPT ![k] = "subscribed"]
        /\ channelListeners' = channelListeners \cup {k} /\ connectionUnsub' = k /\ active' = TRUE
        /\ toldOf' = f.history /\ since' = f.at /\ subscribedIn' = era
    BY DEF ChannelFits, roomVars, Subscribed
  <1>2. /\ Len(downlink) \in Nat \ {0} /\ 1 \in 1..Len(downlink) /\ f \in ChannelFrame
        /\ downlink \in Seq(ChannelFrame) /\ spoken \in Nat /\ MaxSaid \in Nat
    <2>1. Len(downlink) \in Nat \ {0} /\ f \in ChannelFrame /\ downlink \in Seq(ChannelFrame)
      BY ChannelParts, OneFrameLess
    <2> HIDE DEF f
    <2> QED  BY <2>1, ChannelParts
  <1>3. k \in SubscribeIds /\ f.at \in 0..MaxSaid /\ f.history \in Seq(Numbers)
    BY <1>2, FrameKinds
  <1>4. /\ isMember /\ NoFarewell(uplink, 1)
        /\ HandedOn(f.history, f.at, f.at) /\ f.at <= spoken
        /\ Brings(downlink, 1 + 1, f.at, spoken) /\ TellsRight(downlink, 1 + 1, here)
    BY <1>1, <1>2 DEF AnswersFit, AnswerFits
  <1>5. /\ subscribeCalls \in [SubscribeIds -> {"none", "waiting", "subscribed", "failed"}]
        /\ subscribeCalls'[k] = "subscribed"
        /\ \A j \in SubscribeIds \ {k} : subscribeCalls'[j] = subscribeCalls[j]
        /\ subscribeCalls' \in [SubscribeIds -> {"none", "waiting", "subscribed", "failed"}]
    <2> HIDE DEF k
    <2> QED  BY <1>1, <1>3 DEF ChannelShape
  <1> HIDE DEF k
  <1>6. WaitingCalls = {k}  BY <1>1, <1>3 DEF OneWaits, WaitingCalls, k
  <1>7. WaitingCalls' = {}  BY <1>5, <1>6 DEF WaitingCalls
  <1>8. ~active /\ channelListeners = {} /\ present = {}  BY <1>1, <1>6 DEF OneWaits, ChannelShape
  <1>9. OneWaits'
    <2>1. channelListeners' = {connectionUnsub'}  BY <1>1, <1>8
    <2> QED  BY <1>1, <1>7, <2>1 DEF OneWaits
  <1>10. downlink' \in Seq(ChannelFrame) /\ AnswersFit'
    BY <1>1, <1>5, AnswersMove
  <1>11. RequestsFit'
    <2>1. \A j \in SubscribeIds :
             \/ subscribeCalls'[j] = subscribeCalls[j]
             \/ downlink[1].is \in {"ack", "error"} /\ downlink[1].call = j
      BY <1>5 DEF k
    <2> QED  BY <1>1, <2>1, RequestsMove
  <1>12. MemberFits'  BY <1>1 DEF MemberFits
  <1>13. SubscriptionFits'
    <2>1. 1 \in Nat /\ 1 >= 1 /\ f.at \in Nat  BY <1>2, <1>3
    <2>2. Brings(downlink', 1, f.at, spoken) /\ TellsRight(downlink', 1, here)
      <3> HIDE DEF f
      <3> QED  BY <1>2, <1>4, <2>1, BringsMoved, TellsMoved
    <2>3. KnowsRight(downlink', present', here')  BY <1>1, <1>8 DEF KnowsRight
    <2>4. f.at \in 0..spoken  BY <1>2, <1>4, <2>1
    <2>5. HandedOn(toldOf', since', f.at) /\ Brings(downlink', 1, f.at, spoken')
      BY <1>1, <1>4, <2>2
    <2>6. PICK low \in 0..spoken' : HandedOn(toldOf', since', low) /\ Brings(downlink', 1, low, spoken')
      <3> HIDE DEF f
      <3> QED  BY <1>1, <2>4, <2>5
    <2> QED  BY <1>1, <1>4, <2>2, <2>3, <2>6 DEF SubscriptionFits
  <1> QED  BY <1>9, <1>10, <1>11, <1>12, <1>13 DEF ChannelFits

\* The call that waits is refused.
LEMMA RefusedKeeps ==
  ASSUME ChannelShape, ChannelFits, downlink # <<>>, downlink' = Tail(downlink),
         downlink[1].is = "error", subscribeCalls[downlink[1].call] = "waiting",
         SubscribeRefused(downlink[1]),
         UNCHANGED <<linkUp, era, uplink, roomVars, overlap, unanswered>>
  PROVE  ChannelFits'
  <1> DEFINE k == downlink[1].call
  <1>1. /\ OneWaits /\ RequestsFit /\ AnswersFit /\ MemberFits
        /\ UNCHANGED <<isMember, spoken, here, presences, present, active, connectionUnsub,
                       channelListeners, toldOf, since, subscribedIn>>
        /\ subscribeCalls' = [subscribeCalls EXCEPT ![k] = "failed"]
    BY DEF ChannelFits, roomVars, SubscribeRefused
  <1>2. /\ Len(downlink) \in Nat \ {0} /\ 1 \in 1..Len(downlink) /\ downlink[1] \in ChannelFrame
    <2>1. Len(downlink) \in Nat \ {0} /\ downlink[1] \in ChannelFrame
      BY ChannelParts, OneFrameLess
    <2> QED  BY <2>1
  <1>3. k \in SubscribeIds  BY <1>2, FrameKinds
  <1>4. /\ subscribeCalls \in [SubscribeIds -> {"none", "waiting", "subscribed", "failed"}]
        /\ subscribeCalls'[k] = "failed"
        /\ \A j \in SubscribeIds \ {k} : subscribeCalls'[j] = subscribeCalls[j]
        /\ subscribeCalls' \in [SubscribeIds -> {"none", "waiting", "subscribed", "failed"}]
    <2> HIDE DEF k
    <2> QED  BY <1>1, <1>3 DEF ChannelShape
  <1> HIDE DEF k
  <1>5. WaitingCalls = {k}  BY <1>1, <1>3 DEF OneWaits, WaitingCalls, k
  <1>6. WaitingCalls' = {}  BY <1>4, <1>5 DEF WaitingCalls
  <1>7. ~active  BY <1>1, <1>5 DEF OneWaits
  <1>8. OneWaits'  BY <1>1, <1>6 DEF OneWaits
  <1>9. downlink' \in Seq(ChannelFrame) /\ AnswersFit'
    BY <1>1, <1>4, AnswersMove
  <1>10. RequestsFit'
    <2>1. \A j \in SubscribeIds :
             \/ subscribeCalls'[j] = subscribeCalls[j]
             \/ downlink[1].is \in {"ack", "error"} /\ downlink[1].call = j
      BY <1>4 DEF k
    <2> QED  BY <1>1, <2>1, RequestsMove
  <1>11. MemberFits'
    <2>1. ASSUME NEW i \in 1..Len(downlink), downlink[i].is = "ack",
                 subscribeCalls[downlink[i].call] = "waiting"
          PROVE  FALSE
      <3>1. downlink[i].call \in SubscribeIds  BY <2>1, ChannelParts, FrameKinds
      <3>2. downlink[i].call = k  BY <1>5, <2>1, <3>1 DEF WaitingCalls
      <3>3. i = 1  BY <1>1, <1>2, <2>1, <3>2 DEF AnswersFit, k
      <3> QED  BY <2>1, <3>3
    <2> QED  BY <1>1, <2>1 DEF MemberFits
  <1>12. SubscriptionFits'
    <2>1. ~StillSubscribed'  BY <1>1, <1>7 DEF StillSubscribed
    <2> QED  BY <2>1 DEF SubscriptionFits
  <1> QED  BY <1>8, <1>9, <1>10, <1>11, <1>12 DEF ChannelFits

\* What the handler is given of one message, and when.
LEMMA HandedIs ==
  ASSUME ChannelShape, NEW n \in Numbers
  PROVE  /\ Handed(n) \in Seq(Numbers)
         /\ channelListeners = {} => Handed(n) = toldOf
         /\ \A k : channelListeners = {k} => Handed(n) = Append(toldOf, n)
  <1> DEFINE c == Cardinality(channelListeners)
             m == [i \in 1..c |-> n]
  <1>1. toldOf \in Seq(Numbers) /\ channelListeners \subseteq SubscribeIds  BY DEF ChannelShape
  <1>2. IsFiniteSet(SubscribeIds)
    <2>1. MaxSubscribes \in Int /\ 1 \in Int  BY ChannelParts
    <2> QED  BY <2>1, FS_Interval DEF SubscribeIds
  <1>3. IsFiniteSet(channelListeners)  BY <1>1, <1>2, FS_Subset
  <1>4. c \in Nat  BY <1>3, FS_CardinalityType
  <1>5. Handed(n) = toldOf \o m  BY DEF Handed
  <1> HIDE DEF c
  <1>6. m \in Seq(Numbers) /\ Len(m) = c /\ \A i \in 1..c : m[i] = n
    BY <1>4, SeqDef
  <1>7. ASSUME channelListeners = {} PROVE toldOf \o m = toldOf
    <2>1. c = 0  BY <1>7, FS_EmptySet DEF c
    <2>2. m = <<>>  BY <2>1
    <2> HIDE DEF m
    <2> QED  BY <1>1, <2>2
  <1>8. ASSUME NEW k, channelListeners = {k} PROVE toldOf \o m = Append(toldOf, n)
    <2>1. c = 1  BY <1>8, FS_Singleton DEF c
    <2>2. m = <<n>>  BY <2>1
    <2> HIDE DEF m
    <2> QED  BY <1>1, <2>2
  <1> HIDE DEF m
  <1>9. toldOf \o m \in Seq(Numbers)  BY <1>1, <1>6
  <1> QED  BY <1>5, <1>7, <1>8, <1>9

\* What is told to the channel, or to nobody.
LEMMA IncomingKeeps ==
  ASSUME ChannelShape, downlink # <<>>, downlink' = Tail(downlink),
         ~(downlink[1].is \in {"ack", "error"} /\ subscribeCalls[downlink[1].call] = "waiting"),
         Incoming(downlink[1]), UNCHANGED <<linkUp, era, uplink, roomVars, overlap, unanswered>>
  PROVE  ChannelShape' /\ (ChannelFits => ChannelFits')
  <1> DEFINE f == downlink[1]
             n == Len(downlink)
  <1>1. /\ UNCHANGED <<isMember, spoken, here, presences, active, connectionUnsub,
                       channelListeners, subscribeCalls, since, subscribedIn>>
        /\ toldOf' = IF f.is = "publish" THEN Handed(f.number) ELSE toldOf
        /\ present' = IF channelListeners = {} THEN present
                      ELSE CASE f.is = "join" -> present \cup {f.who}
                             [] f.is = "leave" -> present \ {f.who}
                             [] OTHER -> present
    BY DEF roomVars, Incoming
  <1>2. /\ n \in Nat \ {0} /\ f \in ChannelFrame /\ downlink \in Seq(ChannelFrame)
        /\ downlink' \in Seq(ChannelFrame) /\ Len(downlink') = n - 1
        /\ \A j \in 1..(n - 1) : downlink'[j] = downlink[j + 1]
    BY ChannelParts, OneFrameLess
  <1>3. /\ f.is = "publish" => f.number \in Numbers
        /\ f.is \in {"join", "leave"} => f.who \in Others
    BY <1>2, FrameKinds
  <1>4. ChannelShape'
    <2>1. toldOf' \in Seq(Numbers) /\ present' \subseteq Others
      <3>1. f.is = "publish" => Handed(f.number) \in Seq(Numbers)  BY <1>3, HandedIs
      <3> HIDE DEF f
      <3>2. toldOf' \in Seq(Numbers)  BY <1>1, <3>1 DEF ChannelShape
      <3>3. present' \subseteq Others  BY <1>1, <1>3 DEF ChannelShape
      <3> QED  BY <3>2, <3>3
    <2>2. LinkTypeOK'  BY DEF ChannelShape, LinkTypeOK
    <2> QED  BY <1>1, <1>2, <2>1, <2>2 DEF ChannelShape
  <1>5. ASSUME ChannelFits PROVE ChannelFits'
    <2>1. OneWaits /\ RequestsFit /\ AnswersFit /\ MemberFits /\ SubscriptionFits
      BY <1>5 DEF ChannelFits
    <2>2. WaitingCalls' = WaitingCalls  BY <1>1 DEF WaitingCalls
    <2>3. OneWaits'
      <3>1. ~active => channelListeners = {} /\ present = {}  BY <2>1 DEF OneWaits
      <3>2. ~active => present' = {}
        <4> HIDE DEF f
        <4> QED  BY <1>1, <3>1
      <3> QED  BY <1>1, <2>1, <2>2, <3>2 DEF OneWaits
    <2>4. AnswersFit'  BY <1>1, <2>1, AnswersMove
    <2>5. RequestsFit'  BY <1>1, <2>1, RequestsMove
    <2>6. MemberFits'
      <3>1. ASSUME NEW i \in 1..n, downlink[i].is = "ack", subscribeCalls[downlink[i].call] = "waiting"
            PROVE  \E j \in 1..(n - 1) : downlink'[j] = downlink[i]
        <4>1. i # 1  BY <3>1
        <4> DEFINE j == i - 1
        <4>2. j \in 1..(n - 1) /\ j + 1 = i  BY <1>2, <4>1
        <4>3. downlink'[j] = downlink[i]  BY <1>2, <4>2
        <4> QED  BY <4>2, <4>3
      <3> HIDE DEF n
      <3>2. \A i \in 1..n : downlink[i].is = "ack" /\ subscribeCalls[downlink[i].call] = "waiting" =>
               \E j \in 1..(n - 1) : downlink'[j].is = "ack"
                                     /\ subscribeCalls[downlink'[j].call] = "waiting"
        BY <3>1
      <3> QED  BY <1>1, <1>2, <2>1, <3>2 DEF MemberFits, n
    <2>7. CASE ~StillSubscribed
      <3>1. SubscriptionFits'  BY <1>1, <2>7 DEF SubscriptionFits, StillSubscribed
      <3> QED  BY <2>3, <2>4, <2>5, <2>6, <3>1 DEF ChannelFits
    <2>8. CASE StillSubscribed
      <3>1. /\ isMember /\ NoFarewell(uplink, 1)
            /\ TellsRight(downlink, 1, here) /\ KnowsRight(downlink, present, here)
        BY <2>1, <2>8 DEF SubscriptionFits
      <3>2. PICK low \in 0..spoken : HandedOn(toldOf, since, low) /\ Brings(downlink, 1, low, spoken)
        BY <2>1, <2>8 DEF SubscriptionFits
      <3>3. channelListeners = {connectionUnsub}  BY <2>1, <2>8 DEF OneWaits, StillSubscribed
      <3>4. spoken \in Nat /\ low \in Nat /\ since \in Nat /\ toldOf \in Seq(Numbers) /\ MaxSaid \in Nat
        <4>1. spoken \in Nat /\ since \in Nat /\ toldOf \in Seq(Numbers) /\ MaxSaid \in Nat
          BY ChannelParts
        <4> QED  BY <3>2, <4>1
      <3>5. \E m \in 0..spoken : HandedOn(toldOf', since, m) /\ Brings(downlink', 1, m, spoken)
        <4>1. /\ f.is # "publish" => Brings(Tail(downlink), 1, low, spoken)
              /\ f.is = "publish" => f.number = low + 1 /\ low + 1 <= spoken
                                     /\ Brings(Tail(downlink), 1, low + 1, spoken)
          BY <1>2, <3>2, <3>4, BringsFirst
        <4>2. CASE f.is # "publish"  BY <1>1, <3>2, <4>1, <4>2
        <4>3. CASE f.is = "publish"
          <5>1. toldOf' = Append(toldOf, low + 1) /\ low + 1 \in Numbers
            BY <1>1, <1>3, <3>3, <4>1, <4>3, HandedIs
          <5>2. HandedOn(toldOf', since, low + 1)  BY <3>2, <3>4, <5>1, HandedOnNext
          <5>3. low + 1 \in 0..spoken  BY <3>4, <4>1, <4>3
          <5> HIDE DEF f
          <5> QED  BY <4>1, <4>3, <5>2, <5>3
        <4> QED  BY <4>2, <4>3
      <3>6. TellsRight(downlink', 1, here) /\ KnowsRight(downlink', present', here)
        <4>1. present \in SUBSET Others  BY DEF ChannelShape
        <4>2. /\ TellsRight(Tail(downlink), 1, here)
              /\ f.is \notin {"join", "leave"} => KnowsRight(Tail(downlink), present, here)
              /\ f.is = "join" /\ f.who \in Others =>
                    KnowsRight(Tail(downlink), present \cup {f.who}, here)
              /\ f.is = "leave" => KnowsRight(Tail(downlink), present \ {f.who}, here)
          BY <1>2, <3>1, <4>1, TellsFirst
        <4> HIDE DEF f
        <4> QED  BY <1>1, <1>3, <3>3, <4>2
      <3>7. SubscriptionFits'
        <4>1. /\ isMember' /\ NoFarewell(uplink', 1)
              /\ TellsRight(downlink', 1, here') /\ KnowsRight(downlink', present', here')
              /\ \E m \in 0..spoken' : HandedOn(toldOf', since', m) /\ Brings(downlink', 1, m, spoken')
          BY <1>1, <3>1, <3>5, <3>6
        <4> QED  BY <4>1 DEF SubscriptionFits
      <3> QED  BY <2>3, <2>4, <2>5, <2>6, <3>7 DEF ChannelFits
    <2> QED  BY <2>7, <2>8
  <1> QED  BY <1>4, <1>5

LEMMA ReceiveFrameKeeps ==
  ASSUME ChannelIInv, ReceiveFrame
  PROVE  ChannelIInv'
  <1> DEFINE f == downlink[1]
             waiting == f.is \in {"ack", "error"} /\ subscribeCalls[f.call] = "waiting"
  <1>1. /\ ChannelShape /\ (~overlap => ChannelFits)
        /\ downlink # <<>> /\ downlink' = Tail(downlink)
        /\ UNCHANGED <<linkUp, era, uplink, roomVars, overlap, unanswered>>
    BY DEF ChannelIInv, ReceiveFrame
  <1>2. Head(downlink) = f  BY <1>1, ChannelParts, OneFrameLess
  <1>3. CASE ~waiting
    <2>1. Incoming(f)  BY <1>2, <1>3 DEF ReceiveFrame
    <2>2. ChannelShape' /\ (ChannelFits => ChannelFits')
      BY <1>1, <1>3, <2>1, IncomingKeeps
    <2> QED  BY <1>1, <2>2 DEF ChannelIInv
  <1>4. CASE waiting /\ f.is = "ack"
    <2>1. Subscribed(f)  BY <1>2, <1>4 DEF ReceiveFrame
    <2>2. ChannelFits => ChannelFits'
      BY <1>1, <1>4, <2>1, SubscribedKeeps
    <2>3. ChannelShape'  BY <1>1, <1>4, <2>1, AnsweredShape
    <2> QED  BY <1>1, <2>2, <2>3 DEF ChannelIInv
  <1>5. CASE waiting /\ f.is = "error"
    <2>1. SubscribeRefused(f)  BY <1>2, <1>5 DEF ReceiveFrame
    <2>2. ChannelFits => ChannelFits'
      BY <1>1, <1>5, <2>1, RefusedKeeps
    <2>3. ChannelShape'  BY <1>1, <1>5, <2>1, AnsweredShape
    <2> QED  BY <1>1, <2>2, <2>3 DEF ChannelIInv
  <1> QED  BY <1>3, <1>4, <1>5

\* A request more.
LEMMA RequestGoes ==
  ASSUME ChannelShape, NEW r \in ChannelRequest, uplink' = Append(uplink, r)
  PROVE  /\ uplink' \in Seq(ChannelRequest) /\ Len(uplink') = Len(uplink) + 1
         /\ Len(uplink) \in Nat /\ uplink'[Len(uplink) + 1] = r
         /\ \A i \in 1..Len(uplink) : uplink'[i] = uplink[i]
         /\ ~NoFarewell(uplink, 1) => ~NoFarewell(uplink', 1)
  <1> DEFINE n == Len(uplink)
  <1>1. /\ uplink' \in Seq(ChannelRequest) /\ Len(uplink') = n + 1 /\ n \in Nat /\ uplink'[n + 1] = r
        /\ \A i \in 1..n : uplink'[i] = uplink[i]
    BY ChannelParts, OneMoreFrame
  <1>2. ASSUME NEW j \in 1..n, uplink[j].is = "unsubscribe" PROVE ~NoFarewell(uplink', 1)
    <2>1. j \in 1..(n + 1) /\ uplink'[j] = uplink[j]  BY <1>1
    <2> QED  BY <1>1, <1>2, <2>1 DEF NoFarewell
  <1>3. ~NoFarewell(uplink, 1) => ~NoFarewell(uplink', 1)  BY <1>2 DEF NoFarewell
  <1> QED  BY <1>1, <1>3

LEMMA SubscribeKeeps ==
  ASSUME ChannelIInv, NEW k \in SubscribeIds, SubscribeChannel(k)
  PROVE  ChannelIInv'
  <1> DEFINE n == Len(uplink)
             r == [is |-> "subscribe", call |-> k]
  <1>1. /\ ChannelShape /\ subscribeCalls[k] = "none" /\ ~active /\ linkUp
        /\ subscribeCalls' = [subscribeCalls EXCEPT ![k] = "waiting"]
        /\ uplink' = Append(uplink, r)
        /\ overlap' = (overlap \/ WaitingCalls # {})
        /\ UNCHANGED <<linkUp, era, downlink, active, connectionUnsub, channelListeners, toldOf,
                   present, isMember, spoken, here, presences, since, subscribedIn, unanswered>>
    BY DEF ChannelIInv, SubscribeChannel, roomVars
  <1>2. r \in ChannelRequest  BY DEF ChannelRequest
  <1>3. /\ uplink' \in Seq(ChannelRequest) /\ Len(uplink') = n + 1 /\ n \in Nat /\ uplink'[n + 1] = r
        /\ \A i \in 1..n : uplink'[i] = uplink[i]
        /\ ~NoFarewell(uplink, 1) => ~NoFarewell(uplink', 1)
    BY <1>1, <1>2, RequestGoes
  <1>4. /\ subscribeCalls \in [SubscribeIds -> {"none", "waiting", "subscribed", "failed"}]
        /\ subscribeCalls'[k] = "waiting"
        /\ \A j \in SubscribeIds \ {k} : subscribeCalls'[j] = subscribeCalls[j]
        /\ subscribeCalls' \in [SubscribeIds -> {"none", "waiting", "subscribed", "failed"}]
    BY <1>1 DEF ChannelShape
  <1>5. ChannelShape'
    <2>1. LinkTypeOK'  BY <1>1 DEF ChannelShape, LinkTypeOK
    <2>2. overlap' \in BOOLEAN  BY <1>1
    <2> QED  BY <1>1, <1>3, <1>4, <2>1, <2>2 DEF ChannelShape
  <1>6. ASSUME ~overlap' PROVE ChannelFits'
    <2>1. WaitingCalls = {} /\ OneWaits /\ RequestsFit /\ AnswersFit /\ MemberFits
      BY <1>1, <1>6 DEF ChannelIInv, ChannelFits
    <2>2. \A j \in SubscribeIds : subscribeCalls[j] # "waiting"  BY <2>1 DEF WaitingCalls
    <2>3. WaitingCalls' = {k}  BY <1>4, <2>2 DEF WaitingCalls
    <2>4. OneWaits'  BY <1>1, <2>1, <2>3 DEF OneWaits
    <2>5. \A i \in 1..Len(downlink) :
             downlink[i].is \in {"ack", "error"} =>
                /\ downlink[i].call \in SubscribeIds /\ downlink[i].call # k
                /\ subscribeCalls'[downlink[i].call] # "none"
                /\ subscribeCalls'[downlink[i].call] # "waiting"
      <3>1. ASSUME NEW i \in 1..Len(downlink), downlink[i].is \in {"ack", "error"}
            PROVE  downlink[i].call \in SubscribeIds /\ subscribeCalls[downlink[i].call] # "none"
        <4>1. downlink[i] \in ChannelFrame  BY <1>1, ChannelParts
        <4>2. downlink[i].call \in SubscribeIds  BY <3>1, <4>1, FrameKinds
        <4> QED  BY <2>1, <3>1, <4>2 DEF AnswersFit, AnswerFits
      <3> QED  BY <1>1, <1>4, <2>2, <3>1
    <2>6. AnswersFit'
      <3>1. \A i \in 1..Len(downlink) : AnswerFits(i)'  BY <1>1, <2>5 DEF AnswerFits
      <3> QED  BY <1>1, <2>1, <3>1 DEF AnswersFit
    <2>7. ASSUME NEW i \in 1..n, uplink[i].is = "subscribe"
          PROVE  /\ uplink[i].call \in SubscribeIds \ {k}
                 /\ subscribeCalls'[uplink[i].call] = "failed" /\ unanswered
                 /\ \A j \in 1..Len(downlink) :
                       downlink[j].is \in {"ack", "error"} => downlink[j].call # uplink[i].call
      <3>1. uplink[i].call \in SubscribeIds  BY <1>1, <2>7, ChannelParts
      <3>2. /\ subscribeCalls[uplink[i].call] = "failed" /\ unanswered
            /\ \A j \in 1..Len(downlink) :
                  downlink[j].is \in {"ack", "error"} => downlink[j].call # uplink[i].call
        BY <2>1, <2>2, <2>7, <3>1 DEF RequestsFit, RequestFits
      <3> QED  BY <1>1, <1>4, <3>1, <3>2
    <2> HIDE DEF n
    <2>8. \A i \in 1..(n + 1) : i \in 1..n \/ i = n + 1  BY <1>3
    <2>9. ASSUME NEW i \in 1..(n + 1) PROVE RequestFits(i)'
      <3>1. CASE i \in 1..n
        <4>1. uplink'[i] = uplink[i]  BY <1>3, <3>1
        <4> QED  BY <1>1, <2>7, <3>1, <4>1 DEF RequestFits
      <3>2. CASE i = n + 1
        <4>1. uplink'[i].is = "subscribe" /\ uplink'[i].call = k  BY <1>3, <3>2
        <4>2. NoFarewell(uplink', i)
          <5>1. \A j \in i..(n + 1) : j = i  BY <1>3, <3>2
          <5> QED  BY <1>3, <4>1, <5>1 DEF NoFarewell
        <4> QED  BY <1>1, <1>4, <2>5, <4>1, <4>2 DEF RequestFits
      <3> QED  BY <2>8, <3>1, <3>2
    <2>10. ASSUME NEW i \in 1..(n + 1), NEW j \in 1..(n + 1), uplink'[i].is = "subscribe",
                  uplink'[j].is = "subscribe", uplink'[i].call = uplink'[j].call
           PROVE  i = j
      <3>1. CASE i \in 1..n /\ j \in 1..n
        <4>1. uplink'[i] = uplink[i] /\ uplink'[j] = uplink[j]  BY <1>3, <3>1
        <4> QED  BY <2>1, <2>10, <3>1, <4>1 DEF RequestsFit, n
      <3>2. CASE i \in 1..n /\ j = n + 1
        <4>1. uplink'[i] = uplink[i] /\ uplink'[j].call = k  BY <1>3, <3>2
        <4> QED  BY <2>7, <2>10, <3>2, <4>1
      <3>3. CASE i = n + 1 /\ j \in 1..n
        <4>1. uplink'[j] = uplink[j] /\ uplink'[i].call = k  BY <1>3, <3>3
        <4> QED  BY <2>7, <2>10, <3>3, <4>1
      <3> QED  BY <2>8, <3>1, <3>2, <3>3
    <2>11. RequestsFit'  BY <1>3, <2>9, <2>10 DEF RequestsFit
    <2>12. MemberFits'
      <3>1. ASSUME NEW i \in 1..Len(downlink), downlink[i].is = "ack"
            PROVE  subscribeCalls[downlink[i].call] # "waiting"
        <4>1. downlink[i].call \in SubscribeIds  BY <1>1, <3>1, ChannelParts, FrameKinds
        <4> QED  BY <2>2, <4>1
      <3>2. isMember /\ ~active => unanswered \/ ~NoFarewell(uplink, 1)
        BY <2>1, <3>1 DEF MemberFits
      <3>3. isMember' /\ ~active' => unanswered' \/ ~NoFarewell(uplink', 1)
        BY <1>1, <1>3, <3>2
      <3> QED  BY <3>3 DEF MemberFits
    <2>13. SubscriptionFits'
      <3>1. ~StillSubscribed'  BY <1>1 DEF StillSubscribed
      <3> QED  BY <3>1 DEF SubscriptionFits
    <2> QED  BY <2>4, <2>6, <2>11, <2>12, <2>13 DEF ChannelFits
  <1> QED  BY <1>5, <1>6 DEF ChannelIInv

LEMMA TimesOutKeeps ==
  ASSUME ChannelIInv, NEW k \in SubscribeIds, SubscribeTimesOut(k)
  PROVE  ChannelIInv'
  <1>1. /\ ChannelShape /\ subscribeCalls[k] = "waiting" /\ unanswered' = TRUE
        /\ subscribeCalls' = [subscribeCalls EXCEPT ![k] = "failed"]
        /\ UNCHANGED <<linkUp, era, uplink, downlink, active, connectionUnsub, channelListeners, toldOf,
                       present, isMember, spoken, here, presences, since, subscribedIn, overlap>>
    BY DEF ChannelIInv, SubscribeTimesOut, linkVars, roomVars
  <1>2. /\ subscribeCalls \in [SubscribeIds -> {"none", "waiting", "subscribed", "failed"}]
        /\ subscribeCalls'[k] = "failed"
        /\ \A j \in SubscribeIds \ {k} : subscribeCalls'[j] = subscribeCalls[j]
        /\ subscribeCalls' \in [SubscribeIds -> {"none", "waiting", "subscribed", "failed"}]
    BY <1>1 DEF ChannelShape
  <1>3. ChannelShape'
    <2>1. LinkTypeOK'  BY <1>1 DEF ChannelShape, LinkTypeOK
    <2> QED  BY <1>1, <1>2, <2>1 DEF ChannelShape
  <1>4. ASSUME ~overlap' PROVE ChannelFits'
    <2>1. OneWaits /\ RequestsFit /\ AnswersFit /\ MemberFits /\ SubscriptionFits
      BY <1>1, <1>4 DEF ChannelIInv, ChannelFits
    <2>2. WaitingCalls' \subseteq WaitingCalls  BY <1>2 DEF WaitingCalls
    <2>3. OneWaits'  BY <1>1, <2>1, <2>2 DEF OneWaits
    <2>4. AnswersFit'
      <3>1. ASSUME NEW i \in 1..Len(downlink) PROVE AnswerFits(i)'
        <4>1. AnswerFits(i) /\ downlink[i] \in ChannelFrame  BY <1>1, <2>1, ChannelParts DEF AnswersFit
        <4>2. downlink[i].is \in {"ack", "error"} => downlink[i].call \in SubscribeIds
          BY <4>1, FrameKinds
        <4> QED  BY <1>1, <1>2, <4>1, <4>2 DEF AnswerFits
      <3> QED  BY <1>1, <2>1, <3>1 DEF AnswersFit
    <2>5. RequestsFit'
      <3>1. ASSUME NEW i \in 1..Len(uplink) PROVE RequestFits(i)'
        <4>1. RequestFits(i) /\ (uplink[i].is = "subscribe" => uplink[i].call \in SubscribeIds)
          BY <1>1, <2>1, ChannelParts DEF RequestsFit
        <4> QED  BY <1>1, <1>2, <4>1 DEF RequestFits
      <3> QED  BY <1>1, <2>1, <3>1 DEF RequestsFit
    <2>6. MemberFits'  BY <1>1 DEF MemberFits
    <2>7. SubscriptionFits'  BY <1>1, <2>1 DEF SubscriptionFits, StillSubscribed
    <2> QED  BY <2>3, <2>4, <2>5, <2>6, <2>7 DEF ChannelFits
  <1> QED  BY <1>3, <1>4 DEF ChannelIInv

LEMMA UnsubscribeKeeps ==
  ASSUME ChannelIInv, UnsubscribeChannel
  PROVE  ChannelIInv'
  <1> DEFINE n == Len(uplink)
             r == [is |-> "unsubscribe", call |-> 0]
  <1>1. /\ ChannelShape /\ active /\ active' = FALSE /\ present' = {}
        /\ channelListeners' = channelListeners \ {connectionUnsub} /\ connectionUnsub' = 0
        /\ uplink' = IF linkUp THEN Append(uplink, r) ELSE uplink
        /\ UNCHANGED <<linkUp, era, downlink, subscribeCalls, toldOf, isMember, spoken, here, presences,
                       since, subscribedIn, overlap, unanswered>>
    BY DEF ChannelIInv, UnsubscribeChannel, NoLongerListening, roomVars, channelHistory
  <1>2. r \in ChannelRequest  BY DEF ChannelRequest
  <1>3. linkUp => /\ uplink' \in Seq(ChannelRequest) /\ Len(uplink') = n + 1 /\ uplink'[n + 1] = r
                  /\ \A i \in 1..n : uplink'[i] = uplink[i]
    BY <1>1, <1>2, RequestGoes
  <1>4. n \in Nat /\ uplink \in Seq(ChannelRequest)  BY <1>1, ChannelParts
  <1>5. ChannelShape'
    <2>1. LinkTypeOK'  BY <1>1 DEF ChannelShape, LinkTypeOK
    <2>2. uplink' \in Seq(ChannelRequest)  BY <1>1, <1>3, <1>4
    <2> QED  BY <1>1, <2>1, <2>2 DEF ChannelShape
  <1>6. ASSUME ~overlap' PROVE ChannelFits'
    <2>1. WaitingCalls = {} /\ OneWaits /\ RequestsFit /\ AnswersFit
      BY <1>1, <1>6 DEF ChannelIInv, ChannelFits, OneWaits
    <2>2. \A j \in SubscribeIds : subscribeCalls[j] # "waiting"  BY <2>1 DEF WaitingCalls
    <2>3. OneWaits'  BY <1>1, <2>1 DEF OneWaits, WaitingCalls
    <2>4. AnswersFit'
      <3>1. ASSUME NEW i \in 1..Len(downlink) PROVE AnswerFits(i)'
        <4>1. AnswerFits(i) /\ downlink[i] \in ChannelFrame  BY <1>1, <2>1, ChannelParts DEF AnswersFit
        <4>2. downlink[i].is \in {"ack", "error"} => downlink[i].call \in SubscribeIds
          BY <4>1, FrameKinds
        <4> QED  BY <1>1, <2>2, <4>1, <4>2 DEF AnswerFits
      <3> QED  BY <1>1, <2>1, <3>1 DEF AnswersFit
    <2>5. ASSUME NEW i \in 1..n, uplink[i].is = "subscribe"
          PROVE  /\ subscribeCalls[uplink[i].call] = "failed" /\ unanswered
                 /\ \A j \in 1..Len(downlink) :
                       downlink[j].is \in {"ack", "error"} => downlink[j].call # uplink[i].call
      <3>1. uplink[i].call \in SubscribeIds  BY <1>1, <2>5, ChannelParts
      <3> QED  BY <2>1, <2>2, <2>5, <3>1 DEF RequestsFit, RequestFits
    <2>6. \A i \in 1..Len(uplink') : uplink'[i].is = "subscribe" => i \in 1..n /\ uplink'[i] = uplink[i]
      <3>1. CASE linkUp
        <4> HIDE DEF n
        <4>1. \A i \in 1..(n + 1) : i \in 1..n \/ i = n + 1  BY <1>4
        <4>2. uplink'[n + 1].is # "subscribe"  BY <1>3, <3>1
        <4> QED  BY <1>3, <3>1, <4>1, <4>2
      <3>2. CASE ~linkUp  BY <1>1, <3>2
      <3> QED  BY <3>1, <3>2
    <2> HIDE DEF n
    <2>7. RequestsFit'
      <3>1. ASSUME NEW i \in 1..Len(uplink') PROVE RequestFits(i)'
        <4>1. CASE uplink'[i].is = "subscribe"
          <5>1. i \in 1..n /\ uplink'[i] = uplink[i] /\ uplink[i].is = "subscribe"  BY <2>6, <4>1
          <5> QED  BY <1>1, <2>5, <5>1 DEF RequestFits
        <4>2. CASE uplink'[i].is # "subscribe"  BY <4>2 DEF RequestFits
        <4> QED  BY <4>1, <4>2
      <3>2. ASSUME NEW i \in 1..Len(uplink'), NEW j \in 1..Len(uplink'), uplink'[i].is = "subscribe",
                   uplink'[j].is = "subscribe", uplink'[i].call = uplink'[j].call
            PROVE  i = j
        <4>1. i \in 1..n /\ uplink'[i] = uplink[i] /\ j \in 1..n /\ uplink'[j] = uplink[j]
          BY <2>6, <3>2
        <4> QED  BY <2>1, <3>2, <4>1 DEF RequestsFit, n
      <3> QED  BY <3>1, <3>2 DEF RequestsFit
    <2>8. MemberFits'
      <3>1. CASE ~linkUp
        <4>1. ~isMember'  BY <1>1, <3>1 DEF ChannelShape
        <4> QED  BY <4>1 DEF MemberFits
      <3>2. CASE linkUp
        <4>1. n + 1 \in 1..Len(uplink') /\ uplink'[n + 1].is = "unsubscribe"  BY <1>3, <1>4, <3>2
        <4>2. ~NoFarewell(uplink', 1)  BY <4>1 DEF NoFarewell
        <4> QED  BY <4>2 DEF MemberFits
      <3> QED  BY <3>1, <3>2
    <2>9. SubscriptionFits'  BY <1>1 DEF SubscriptionFits, StillSubscribed
    <2> QED  BY <2>3, <2>4, <2>7, <2>8, <2>9 DEF ChannelFits
  <1> QED  BY <1>5, <1>6 DEF ChannelIInv

LEMMA ChannelLinkKeeps ==
  ASSUME ChannelIInv, ChannelLinkLost \/ ChannelLinkRestored
  PROVE  ChannelIInv'
  <1>1. ChannelShape /\ (~overlap => ChannelFits)  BY DEF ChannelIInv
  <1>2. CASE ChannelLinkLost
    <2>1. /\ linkUp' = FALSE /\ uplink' = <<>> /\ downlink' = <<>> /\ isMember' = FALSE
          /\ subscribeCalls' = [k \in SubscribeIds |-> IF k \in WaitingCalls THEN "failed"
                                                       ELSE subscribeCalls[k]]
          /\ unanswered' = FALSE
          /\ UNCHANGED <<era, active, connectionUnsub, channelListeners, toldOf, present, spoken, here,
                         presences, since, subscribedIn, overlap>>
      BY <1>2 DEF ChannelLinkLost, LinkLost
    <2>2. Len(<<>>) = 0  OBVIOUS
    <2>3. WaitingCalls' = {} /\ subscribeCalls' \in [SubscribeIds -> {"none", "waiting", "subscribed", "failed"}]
      <3>1. subscribeCalls \in [SubscribeIds -> {"none", "waiting", "subscribed", "failed"}]
        BY <1>1 DEF ChannelShape
      <3>2. \A k \in SubscribeIds : subscribeCalls'[k] # "waiting"
        BY <2>1, <3>1 DEF WaitingCalls
      <3> QED  BY <2>1, <3>1, <3>2 DEF WaitingCalls
    <2>4. ChannelShape'
      <3>1. LinkTypeOK'  BY <1>1, <2>1 DEF ChannelShape, LinkTypeOK
      <3>2. uplink' \in Seq(ChannelRequest) /\ downlink' \in Seq(ChannelFrame)  BY <2>1
      <3> QED  BY <1>1, <2>1, <2>3, <3>1, <3>2 DEF ChannelShape
    <2>5. ASSUME ~overlap' PROVE ChannelFits'
      <3>1. OneWaits  BY <1>1, <2>1, <2>5 DEF ChannelFits
      <3>2. OneWaits'  BY <2>1, <2>3, <3>1 DEF OneWaits
      <3>3. RequestsFit' /\ AnswersFit'  BY <2>1, <2>2 DEF RequestsFit, AnswersFit
      <3>4. MemberFits' /\ SubscriptionFits'
        BY <2>1 DEF MemberFits, SubscriptionFits, StillSubscribed
      <3> QED  BY <3>2, <3>3, <3>4 DEF ChannelFits
    <2> QED  BY <2>4, <2>5 DEF ChannelIInv
  <1>3. CASE ChannelLinkRestored
    <2>1. /\ ~linkUp /\ linkUp' = TRUE /\ era < MaxEras /\ era' = era + 1
          /\ UNCHANGED <<uplink, downlink, isMember, subscribeCalls, unanswered,
                         active, connectionUnsub, channelListeners, toldOf, present, spoken, here,
                         presences, since, subscribedIn, overlap>>
      BY <1>3 DEF ChannelLinkRestored, LinkRestored, objectVars, roomVars, channelHistory
    <2>2. /\ ~isMember /\ uplink = <<>> /\ downlink = <<>> /\ subscribedIn <= era
          /\ era \in 1..MaxEras /\ subscribedIn \in 0..MaxEras
      BY <1>1, <2>1 DEF ChannelShape, LinkTypeOK
    <2>3. era' \in 1..MaxEras /\ subscribedIn' <= era' /\ subscribedIn' # era'
      BY <2>1, <2>2, LinkAssumption
    <2>4. ChannelShape'
      <3>1. LinkTypeOK'  BY <2>1, <2>3 DEF LinkTypeOK
      <3> QED  BY <1>1, <2>1, <2>2, <2>3, <3>1 DEF ChannelShape
    <2>5. ASSUME ~overlap' PROVE ChannelFits'
      <3>1. OneWaits  BY <1>1, <2>1, <2>5 DEF ChannelFits
      <3>2. OneWaits'  BY <2>1, <3>1 DEF OneWaits, WaitingCalls
      <3>3. Len(<<>>) = 0  OBVIOUS
      <3>4. RequestsFit' /\ AnswersFit'  BY <2>1, <2>2, <3>3 DEF RequestsFit, AnswersFit
      <3>5. MemberFits' /\ SubscriptionFits'
        BY <2>1, <2>2, <2>3 DEF MemberFits, SubscriptionFits, StillSubscribed
      <3> QED  BY <3>2, <3>4, <3>5 DEF ChannelFits
    <2> QED  BY <2>4, <2>5 DEF ChannelIInv
  <1> QED  BY <1>2, <1>3

\* The server takes a request, and whoever it answers is who asked.
LEMMA RequestTaken ==
  ASSUME ChannelShape, uplink # <<>>, uplink' = Tail(uplink)
  PROVE  /\ uplink' \in Seq(ChannelRequest) /\ Head(uplink) = uplink[1] /\ 1 \in 1..Len(uplink)
         /\ NoFarewell(uplink, 2) => NoFarewell(uplink', 1)
         /\ NoFarewell(uplink, 1) => NoFarewell(uplink', 1) /\ uplink[1].is # "unsubscribe"
         /\ uplink[1].is # "unsubscribe" /\ ~NoFarewell(uplink, 1) => ~NoFarewell(uplink', 1)
  <1> DEFINE n == Len(uplink)
  <1>1. /\ uplink' \in Seq(ChannelRequest) /\ Head(uplink) = uplink[1] /\ n \in Nat \ {0}
        /\ Len(uplink') = n - 1 /\ \A j \in 1..(n - 1) : uplink'[j] = uplink[j + 1]
    BY ChannelParts, OneFrameLess
  <1> HIDE DEF n
  <1>2. 1 \in 1..n /\ \A j \in 1..(n - 1) : j + 1 \in 2..n  BY <1>1
  <1>3. NoFarewell(uplink, 2) => NoFarewell(uplink', 1)
    BY <1>1, <1>2 DEF NoFarewell, n
  <1>4. NoFarewell(uplink, 1) => NoFarewell(uplink, 2) /\ uplink[1].is # "unsubscribe"
    <2>1. \A j \in 2..n : j \in 1..n  BY <1>1
    <2> QED  BY <1>2, <2>1 DEF NoFarewell, n
  <1>5. ASSUME uplink[1].is # "unsubscribe", NEW j \in 1..n, uplink[j].is = "unsubscribe"
        PROVE  ~NoFarewell(uplink', 1)
    <2>1. j # 1  BY <1>5
    <2> DEFINE i == j - 1
    <2>2. i \in 1..(n - 1) /\ i + 1 = j  BY <1>1, <2>1
    <2>3. uplink'[i] = uplink[j]  BY <1>1, <2>2
    <2> HIDE DEF i
    <2> QED  BY <1>1, <1>5, <2>2, <2>3 DEF NoFarewell
  <1>6. uplink[1].is # "unsubscribe" /\ ~NoFarewell(uplink, 1) => ~NoFarewell(uplink', 1)
    BY <1>5 DEF NoFarewell, n
  <1> QED  BY <1>1, <1>2, <1>3, <1>4, <1>6 DEF n

LEMMA RequestsLeft ==
  ASSUME ChannelShape, RequestsFit, uplink # <<>>, uplink' = Tail(uplink),
         UNCHANGED <<subscribeCalls, unanswered>>,
         \A j \in 1..Len(downlink') : downlink'[j].is \in {"ack", "error"} =>
            \/ \E i \in 1..Len(downlink) :
                  downlink[i].is \in {"ack", "error"} /\ downlink[i].call = downlink'[j].call
            \/ uplink[1].is = "subscribe" /\ downlink'[j].call = uplink[1].call
  PROVE  RequestsFit'
  <1> DEFINE n == Len(uplink)
  <1>1. /\ n \in Nat \ {0} /\ Len(uplink') = n - 1
        /\ \A j \in 1..(n - 1) : uplink'[j] = uplink[j + 1]
    BY ChannelParts, OneFrameLess
  <1>2. ASSUME NEW i \in 1..(n - 1) PROVE RequestFits(i)'
    <2> DEFINE k == uplink[i + 1].call
    <2>1. i + 1 \in 1..n /\ 1 \in 1..n /\ i + 1 # 1 /\ uplink'[i] = uplink[i + 1]  BY <1>1
    <2>2. CASE uplink[i + 1].is # "subscribe"  BY <2>1, <2>2 DEF RequestFits
    <2>3. CASE uplink[i + 1].is = "subscribe"
      <3>1. /\ subscribeCalls[k] = "waiting" \/ (subscribeCalls[k] = "failed" /\ unanswered)
            /\ subscribeCalls[k] = "waiting" => NoFarewell(uplink, i + 1)
            /\ \A j \in 1..Len(downlink) :
                  downlink[j].is \in {"ack", "error"} => downlink[j].call # k
        BY <2>1, <2>3 DEF RequestsFit, RequestFits
      <3>2. uplink[1].is = "subscribe" => uplink[1].call # k
        BY <2>1, <2>3 DEF RequestsFit
      <3>3. NoFarewell(uplink, i + 1) => NoFarewell(uplink', i)
        <4>1. \A j \in i..(n - 1) : j + 1 \in (i + 1)..n /\ uplink'[j] = uplink[j + 1]  BY <1>1
        <4> HIDE DEF n
        <4> QED  BY <1>1, <4>1 DEF NoFarewell, n
      <3>4. \A j \in 1..Len(downlink') : downlink'[j].is \in {"ack", "error"} => downlink'[j].call # k
        BY <3>1, <3>2
      <3> HIDE DEF n
      <3> QED  BY <2>1, <3>1, <3>3, <3>4 DEF RequestFits
    <2> QED  BY <2>2, <2>3
  <1>3. ASSUME NEW i \in 1..(n - 1), NEW j \in 1..(n - 1), uplink'[i].is = "subscribe",
               uplink'[j].is = "subscribe", uplink'[i].call = uplink'[j].call
        PROVE  i = j
    <2>1. PICK a \in 1..n, b \in 1..n : a = i + 1 /\ b = j + 1  BY <1>1
    <2>2. uplink'[i] = uplink[a] /\ uplink'[j] = uplink[b]  BY <1>1, <2>1
    <2>3. a = b  BY <1>3, <2>2 DEF RequestsFit
    <2> QED  BY <2>1, <2>3
  <1> HIDE DEF n
  <1> QED  BY <1>1, <1>2, <1>3 DEF RequestsFit

\* The client's unsubscribe is taken: there was no call that the server had answered.
LEMMA FarewellKeeps ==
  ASSUME ChannelIInv, ServerTakes, uplink[1].is = "unsubscribe"
  PROVE  ChannelIInv'
  <1>1. /\ ChannelShape /\ uplink # <<>> /\ uplink' = Tail(uplink)
        /\ UNCHANGED <<linkUp, era, active, connectionUnsub, channelListeners, subscribeCalls, toldOf,
                       present, spoken, here, presences, since, subscribedIn, overlap, unanswered>>
    BY DEF ChannelIInv, ServerTakes, objectVars, channelHistory
  <1>2. /\ uplink' \in Seq(ChannelRequest) /\ Head(uplink) = uplink[1] /\ ~NoFarewell(uplink, 1)
    BY <1>1, RequestTaken
  <1>3. isMember' = FALSE /\ UNCHANGED downlink  BY <1>2 DEF ServerTakes
  <1>4. ChannelShape'
    <2>1. LinkTypeOK'  BY <1>1, <1>3 DEF ChannelShape, LinkTypeOK
    <2> QED  BY <1>1, <1>2, <1>3, <2>1 DEF ChannelShape
  <1>5. ASSUME ~overlap' PROVE ChannelFits'
    <2>1. OneWaits /\ RequestsFit /\ AnswersFit /\ SubscriptionFits
      BY <1>1, <1>5 DEF ChannelIInv, ChannelFits
    <2>2. OneWaits'  BY <1>1, <2>1 DEF OneWaits, WaitingCalls
    <2>3. RequestsFit'  BY <1>1, <1>3, <2>1, RequestsLeft
    <2>4. AnswersFit'
      <3>1. ASSUME NEW i \in 1..Len(downlink) PROVE AnswerFits(i)'
        <4>1. AnswerFits(i)  BY <2>1 DEF AnswersFit
        <4> QED  BY <1>1, <1>2, <1>3, <4>1 DEF AnswerFits
      <3> QED  BY <1>3, <2>1, <3>1 DEF AnswersFit
    <2>5. MemberFits'  BY <1>3 DEF MemberFits
    <2>6. SubscriptionFits'
      BY <1>1, <1>2, <2>1 DEF SubscriptionFits, StillSubscribed
    <2> QED  BY <2>2, <2>3, <2>4, <2>5, <2>6 DEF ChannelFits
  <1> QED  BY <1>4, <1>5 DEF ChannelIInv

\* A subscribe is taken, and answered or not.
LEMMA ServerAnswers ==
  ASSUME ChannelIInv, ServerTakes, uplink[1].is # "unsubscribe"
  PROVE  ChannelIInv'
  <1> DEFINE k == uplink[1].call
  <1>1. /\ ChannelShape /\ uplink # <<>> /\ uplink' = Tail(uplink)
        /\ UNCHANGED <<linkUp, era, active, connectionUnsub, channelListeners, subscribeCalls, toldOf,
                       present, spoken, here, presences, since, subscribedIn, overlap, unanswered>>
        /\ UNCHANGED <<objectVars, channelHistory>>
    BY DEF ChannelIInv, ServerTakes, objectVars, channelHistory
  <1>2. /\ uplink' \in Seq(ChannelRequest) /\ Head(uplink) = uplink[1] /\ 1 \in 1..Len(uplink)
        /\ NoFarewell(uplink, 1) => NoFarewell(uplink', 1)
        /\ ~NoFarewell(uplink, 1) => ~NoFarewell(uplink', 1)
    BY <1>1, RequestTaken
  <1>3. uplink[1].is = "subscribe" /\ k \in SubscribeIds  BY <1>1, <1>2, ChannelParts
  <1>4. linkUp /\ spoken \in 0..MaxSaid /\ spoken \in Nat /\ MaxSaid \in Nat
    BY <1>1, ChannelParts DEF ChannelShape, LinkTypeOK
  <1>5. \/ UNCHANGED <<isMember, downlink>>
        \/ \E f \in ChannelFrame :
              /\ downlink' = Append(downlink, f) /\ f.call = k
              /\ \/ f.is = "error" /\ UNCHANGED isMember
                 \/ f.is = "ack" /\ isMember' = TRUE /\ f.at = spoken /\ HandedOn(f.history, spoken, spoken)
    <2>1. CASE Bring([is |-> "error", call |-> k]) /\ UNCHANGED isMember
      <3>1. [is |-> "error", call |-> k] \in ChannelFrame  BY <1>3 DEF ChannelFrame, RefusalFrame
      <3> QED  BY <2>1, <3>1 DEF Bring
    <2>2. CASE /\ isMember' = TRUE
               /\ \E past \in {<<>>} \cup {<<m>> : m \in {spoken} \ {0}} :
                     Bring([is |-> "ack", call |-> k, history |-> past, at |-> spoken])
      <3>1. PICK past \in {<<>>} \cup {<<m>> : m \in {spoken} \ {0}} :
                     Bring([is |-> "ack", call |-> k, history |-> past, at |-> spoken])
        BY <2>2
      <3>2. past \in Seq(Numbers) /\ HandedOn(past, spoken, spoken)
        <4>1. CASE past = <<>>
          <5>1. past \in Seq(Numbers) /\ Len(past) = 0  BY <4>1
          <5> QED  BY <1>4, <5>1 DEF HandedOn
        <4>2. CASE past = <<spoken>> /\ spoken # 0
          <5>1. spoken \in Numbers  BY <1>4, <4>2 DEF Numbers
          <5>2. past \in Seq(Numbers) /\ Len(past) = 1 /\ past[1] = spoken  BY <4>2, <5>1
          <5> QED  BY <1>4, <5>2 DEF HandedOn
        <4> QED  BY <4>1, <4>2
      <3> DEFINE f == [is |-> "ack", call |-> k, history |-> past, at |-> spoken]
      <3>3. f \in AckFrame  BY <1>3, <1>4, <3>2 DEF AckFrame
      <3>4. f.is = "ack" /\ f.call = k /\ f.at = spoken /\ f.history = past  OBVIOUS
      <3>5. downlink' = Append(downlink, f)  BY <3>1 DEF Bring
      <3> HIDE DEF f
      <3> QED  BY <2>2, <3>2, <3>3, <3>4, <3>5 DEF ChannelFrame
    <2> QED  BY <1>2, <1>3, <2>1, <2>2 DEF ServerTakes
  <1> HIDE DEF k
  <1>6. CASE UNCHANGED <<isMember, downlink>>
    <2>1. ChannelShape'
      <3>1. LinkTypeOK'  BY <1>1, <1>4, <1>6 DEF ChannelShape, LinkTypeOK
      <3> QED  BY <1>1, <1>2, <1>6, <3>1 DEF ChannelShape
    <2>2. ASSUME ~overlap' PROVE ChannelFits'
      <3>1. OneWaits /\ RequestsFit /\ AnswersFit /\ MemberFits /\ SubscriptionFits
        BY <1>1, <2>2 DEF ChannelIInv, ChannelFits
      <3>2. OneWaits'  BY <1>1, <3>1 DEF OneWaits, WaitingCalls
      <3>3. RequestsFit'  BY <1>1, <1>6, <3>1, RequestsLeft
      <3>4. AnswersFit'
        <4>1. ASSUME NEW i \in 1..Len(downlink) PROVE AnswerFits(i)'
          <5>1. AnswerFits(i)  BY <3>1 DEF AnswersFit
          <5> QED  BY <1>1, <1>2, <1>6, <5>1 DEF AnswerFits
        <4> QED  BY <1>6, <3>1, <4>1 DEF AnswersFit
      <3>5. MemberFits'  BY <1>1, <1>2, <1>6, <3>1 DEF MemberFits
      <3>6. SubscriptionFits'
        BY <1>1, <1>2, <1>6, <3>1 DEF SubscriptionFits, StillSubscribed
      <3> QED  BY <3>2, <3>3, <3>4, <3>5, <3>6 DEF ChannelFits
    <2> QED  BY <2>1, <2>2 DEF ChannelIInv
  <1>7. ASSUME NEW f \in ChannelFrame, downlink' = Append(downlink, f), f.call = k,
               \/ f.is = "error" /\ UNCHANGED isMember
               \/ f.is = "ack" /\ isMember' = TRUE /\ f.at = spoken /\ HandedOn(f.history, spoken, spoken)
        PROVE  ChannelIInv'
    <2>1. /\ downlink' \in Seq(ChannelFrame) /\ Len(downlink') = Len(downlink) + 1
          /\ Len(downlink) \in Nat /\ downlink'[Len(downlink) + 1] = f
          /\ \A i \in 1..Len(downlink) : downlink'[i] = downlink[i]
      BY <1>1, <1>7, ChannelParts, OneMoreFrame
    <2>2. ChannelShape'
      <3>1. LinkTypeOK'  BY <1>1, <1>4 DEF ChannelShape, LinkTypeOK
      <3>2. isMember' \in BOOLEAN /\ (isMember' => linkUp')  BY <1>1, <1>4, <1>7 DEF ChannelShape
      <3> QED  BY <1>1, <1>2, <2>1, <3>1, <3>2 DEF ChannelShape
    <2>3. ASSUME ~overlap' PROVE ChannelFits'
      <3>1. OneWaits /\ RequestsFit /\ AnswersFit /\ MemberFits /\ SubscriptionFits
        BY <1>1, <2>3 DEF ChannelIInv, ChannelFits
      <3>2. /\ subscribeCalls[k] = "waiting" \/ (subscribeCalls[k] = "failed" /\ unanswered)
            /\ subscribeCalls[k] = "waiting" => NoFarewell(uplink, 1)
            /\ \A j \in 1..Len(downlink) :
                  downlink[j].is \in {"ack", "error"} => downlink[j].call # k
        BY <1>2, <1>3, <3>1 DEF RequestsFit, RequestFits, k
      <3>3. OneWaits'  BY <1>1, <3>1 DEF OneWaits, WaitingCalls
      <3>4. RequestsFit'
        <4>1. ASSUME NEW j \in 1..Len(downlink'), downlink'[j].is \in {"ack", "error"}
              PROVE  \/ \E i \in 1..Len(downlink) :
                           downlink[i].is \in {"ack", "error"} /\ downlink[i].call = downlink'[j].call
                     \/ uplink[1].is = "subscribe" /\ downlink'[j].call = uplink[1].call
          <5>1. j \in 1..Len(downlink) \/ j = Len(downlink) + 1  BY <2>1
          <5> QED  BY <1>3, <1>7, <2>1, <4>1, <5>1 DEF k
        <4> QED  BY <1>1, <3>1, <4>1, RequestsLeft
      <3>5. AnswersFit' /\ SubscriptionFits'
        <4>1. SaysSo(f, spoken, spoken', here, here')
          BY <1>1, <1>7 DEF SaysSo, TellsAbout
        <4>2. f.is \in {"ack", "error"} =>
                 /\ subscribeCalls[f.call] # "none"
                 /\ \A j \in 1..Len(downlink) :
                       downlink[j].is \in {"ack", "error"} => downlink[j].call # f.call
          BY <1>7, <3>2
        <4>3. f.is = "ack" /\ subscribeCalls[f.call] = "waiting" =>
                 isMember' /\ NoFarewell(uplink', 1) /\ f.at = spoken /\ HandedOn(f.history, f.at, f.at)
          BY <1>2, <1>7, <3>2
        <4>4. (isMember => isMember') /\ (NoFarewell(uplink, 1) => NoFarewell(uplink', 1))
          BY <1>2, <1>7
        <4> QED  BY <1>1, <1>7, <3>1, <4>1, <4>2, <4>3, <4>4, FrameComes
      <3>6. MemberFits'
        <4> SUFFICES ASSUME isMember', ~active', ~unanswered', NoFarewell(uplink', 1)
                     PROVE  \E i \in 1..Len(downlink') :
                               downlink'[i].is = "ack" /\ subscribeCalls'[downlink'[i].call] = "waiting"
          BY DEF MemberFits
        <4>1. CASE f.is = "ack"
          <5>1. subscribeCalls[k] = "waiting"  BY <1>1, <3>2
          <5>2. Len(downlink) + 1 \in 1..Len(downlink')  BY <2>1
          <5> QED  BY <1>1, <1>7, <2>1, <4>1, <5>1, <5>2
        <4>2. CASE f.is # "ack"
          <5>1. isMember /\ ~active /\ ~unanswered /\ NoFarewell(uplink, 1)
            BY <1>1, <1>2, <1>7, <4>2
          <5>2. PICK i \in 1..Len(downlink) :
                   downlink[i].is = "ack" /\ subscribeCalls[downlink[i].call] = "waiting"
            BY <3>1, <5>1 DEF MemberFits
          <5>3. i \in 1..Len(downlink') /\ downlink'[i] = downlink[i]  BY <2>1
          <5> QED  BY <1>1, <5>2, <5>3
        <4> QED  BY <4>1, <4>2
      <3> QED  BY <3>1, <3>3, <3>4, <3>5, <3>6 DEF ChannelFits
    <2> QED  BY <2>2, <2>3 DEF ChannelIInv
  <1> QED  BY <1>5, <1>6, <1>7

\* Another member publishes, comes or goes: the client is told if it is a member.
LEMMA OthersKeep ==
  ASSUME ChannelIInv, OtherPublishes \/ \E m \in Others : OtherComesOrGoes(m)
  PROVE  ChannelIInv'
  <1>1. /\ ChannelShape
        /\ UNCHANGED <<linkUp, era, uplink, isMember, active, connectionUnsub, channelListeners,
                       subscribeCalls, toldOf, present, since, subscribedIn, overlap, unanswered>>
        /\ UNCHANGED <<objectVars, channelHistory>>
    BY DEF ChannelIInv, OtherPublishes, OtherComesOrGoes, objectVars, channelHistory
  <1>2. /\ spoken \in 0..MaxSaid /\ spoken \in Nat /\ MaxSaid \in Nat /\ MaxPresence \in Nat
        /\ presences \in 0..MaxPresence /\ here \subseteq Others /\ (isMember => linkUp)
    BY <1>1, ChannelParts DEF ChannelShape
  <1>3. /\ spoken' \in 0..MaxSaid /\ presences' \in 0..MaxPresence /\ here' \subseteq Others
        /\ \E f \in ChannelFrame :
              /\ TellMember(f) /\ f.is \notin {"ack", "error"}
              /\ SaysSo(f, spoken, spoken', here, here')
    <2>1. CASE OtherPublishes
      <3> DEFINE f == [is |-> "publish", number |-> spoken + 1]
      <3>1. spoken < MaxSaid /\ spoken' = spoken + 1 /\ UNCHANGED <<here, presences>> /\ TellMember(f)
        BY <2>1 DEF OtherPublishes
      <3>2. spoken + 1 \in Numbers  BY <1>2, <3>1 DEF Numbers
      <3>3. f \in PublishFrame  BY <3>2 DEF PublishFrame
      <3>4. f.is = "publish" /\ f.number = spoken + 1  OBVIOUS
      <3> HIDE DEF f
      <3>5. SaysSo(f, spoken, spoken', here, here')  BY <3>1, <3>4 DEF SaysSo, TellsAbout
      <3> QED  BY <1>2, <3>1, <3>3, <3>4, <3>5 DEF ChannelFrame
    <2>2. ASSUME NEW m \in Others, OtherComesOrGoes(m)
          PROVE  /\ spoken' \in 0..MaxSaid /\ presences' \in 0..MaxPresence /\ here' \subseteq Others
                 /\ \E f \in ChannelFrame :
                       /\ TellMember(f) /\ f.is \notin {"ack", "error"}
                       /\ SaysSo(f, spoken, spoken', here, here')
      <3> DEFINE f == [is |-> IF m \in here THEN "leave" ELSE "join", who |-> m]
      <3>1. /\ presences < MaxPresence /\ presences' = presences + 1 /\ spoken' = spoken
            /\ here' = (IF m \in here THEN here \ {m} ELSE here \cup {m}) /\ TellMember(f)
        BY <2>2 DEF OtherComesOrGoes
      <3>2. f \in PresenceFrame  BY DEF PresenceFrame
      <3>3. f.is = (IF m \in here THEN "leave" ELSE "join") /\ f.who = m  OBVIOUS
      <3> HIDE DEF f
      <3>4. f.is \in {"join", "leave"}  BY <3>3
      <3>5. ASSUME NEW l \in Others
            PROVE  IF TellsAbout(f, l) THEN f.is = "join" <=> l \in here' ELSE l \in here' <=> l \in here
        <4>1. CASE l = m  BY <3>1, <3>3, <4>1 DEF TellsAbout
        <4>2. CASE l # m  BY <3>1, <3>3, <4>2 DEF TellsAbout
        <4> QED  BY <4>1, <4>2
      <3>6. SaysSo(f, spoken, spoken', here, here')  BY <3>1, <3>4, <3>5 DEF SaysSo
      <3>7. presences' \in 0..MaxPresence  BY <1>2, <3>1
      <3>8. here' \subseteq Others  BY <1>2, <3>1
      <3> QED  BY <1>2, <3>1, <3>2, <3>4, <3>6, <3>7, <3>8 DEF ChannelFrame
    <2> QED  BY <2>1, <2>2
  <1>4. PICK f \in ChannelFrame :
           /\ TellMember(f) /\ f.is \notin {"ack", "error"}
           /\ SaysSo(f, spoken, spoken', here, here')
    BY <1>3
  <1>5. CASE ~isMember
    <2>1. UNCHANGED downlink  BY <1>4, <1>5 DEF TellMember
    <2>2. ChannelShape'
      <3>1. LinkTypeOK'  BY <1>1, <2>1 DEF ChannelShape, LinkTypeOK
      <3> QED  BY <1>1, <1>3, <2>1, <3>1 DEF ChannelShape
    <2>3. ASSUME ~overlap' PROVE ChannelFits'
      <3>1. OneWaits /\ RequestsFit /\ AnswersFit /\ MemberFits /\ SubscriptionFits
        BY <1>1, <2>3 DEF ChannelIInv, ChannelFits
      <3>2. OneWaits'  BY <1>1, <3>1 DEF OneWaits, WaitingCalls
      <3>3. RequestsFit'  BY <1>1, <2>1, <3>1 DEF RequestsFit, RequestFits
      <3>4. AnswersFit'
        <4>1. ASSUME NEW i \in 1..Len(downlink) PROVE AnswerFits(i)'
          <5>1. AnswerFits(i)  BY <3>1 DEF AnswersFit
          <5> QED  BY <1>1, <1>5, <2>1, <5>1 DEF AnswerFits
        <4> QED  BY <2>1, <3>1, <4>1 DEF AnswersFit
      <3>5. MemberFits'  BY <1>1, <1>5 DEF MemberFits
      <3>6. SubscriptionFits'  BY <1>1, <1>5, <3>1 DEF SubscriptionFits, StillSubscribed
      <3> QED  BY <3>2, <3>3, <3>4, <3>5, <3>6 DEF ChannelFits
    <2> QED  BY <2>2, <2>3 DEF ChannelIInv
  <1>6. CASE isMember
    <2>1. linkUp /\ downlink' = Append(downlink, f)  BY <1>4, <1>6 DEF TellMember, Bring
    <2>2. /\ downlink' \in Seq(ChannelFrame) /\ Len(downlink') = Len(downlink) + 1
          /\ Len(downlink) \in Nat /\ downlink'[Len(downlink) + 1] = f
          /\ \A i \in 1..Len(downlink) : downlink'[i] = downlink[i]
      BY <1>1, <2>1, ChannelParts, OneMoreFrame
    <2>3. ChannelShape'
      <3>1. LinkTypeOK'  BY <1>1, <2>1 DEF ChannelShape, LinkTypeOK
      <3> QED  BY <1>1, <1>3, <2>2, <3>1 DEF ChannelShape
    <2>4. ASSUME ~overlap' PROVE ChannelFits'
      <3>1. OneWaits /\ RequestsFit /\ AnswersFit /\ MemberFits /\ SubscriptionFits
        BY <1>1, <2>4 DEF ChannelIInv, ChannelFits
      <3>2. OneWaits'  BY <1>1, <3>1 DEF OneWaits, WaitingCalls
      <3>3. RequestsFit'
        <4>1. ASSUME NEW j \in 1..Len(downlink'), downlink'[j].is \in {"ack", "error"}
              PROVE  j \in 1..Len(downlink) /\ downlink'[j] = downlink[j]
          <5>1. j \in 1..Len(downlink) \/ j = Len(downlink) + 1  BY <2>2
          <5> QED  BY <1>4, <2>2, <4>1, <5>1
        <4>2. ASSUME NEW i \in 1..Len(uplink) PROVE RequestFits(i)'
          <5>1. RequestFits(i)  BY <3>1 DEF RequestsFit
          <5> QED  BY <1>1, <4>1, <5>1 DEF RequestFits
        <4> QED  BY <1>1, <3>1, <4>2 DEF RequestsFit
      <3>4. AnswersFit' /\ SubscriptionFits'
        BY <1>1, <1>4, <2>1, <3>1, FrameComes
      <3>5. MemberFits'
        <4>1. \A i \in 1..Len(downlink) : i \in 1..Len(downlink') /\ downlink'[i] = downlink[i]
          BY <2>2
        <4> QED  BY <1>1, <3>1, <4>1 DEF MemberFits
      <3> QED  BY <3>2, <3>3, <3>4, <3>5 DEF ChannelFits
    <2> QED  BY <2>3, <2>4 DEF ChannelIInv
  <1> QED  BY <1>5, <1>6

LEMMA ChannelStart == ChannelObjectInit => ChannelIInv
  <1>1. SUFFICES ASSUME ChannelObjectInit PROVE ChannelIInv  OBVIOUS
  <1>2. /\ linkUp = TRUE /\ era = 1 /\ uplink = <<>> /\ downlink = <<>>
        /\ active = FALSE /\ connectionUnsub = 0 /\ channelListeners = {}
        /\ subscribeCalls = [k \in SubscribeIds |-> "none"]
        /\ toldOf = <<>> /\ present = {}
        /\ isMember = FALSE /\ spoken = 0 /\ here = {} /\ presences = 0
        /\ since = 0 /\ subscribedIn = 0 /\ overlap = FALSE /\ unanswered = FALSE
    BY <1>1 DEF ChannelObjectInit, LinkInit
  <1>3. ChannelShape
    <2>1. /\ 0 \in 0..MaxSaid /\ 0 \in 0..MaxPresence /\ 0 \in 0..MaxEras /\ 1 \in 1..MaxEras /\ 0 <= 1
      BY ChannelObjectAssumption, LinkAssumption
    <2>2. LinkTypeOK  BY <1>2, <2>1 DEF LinkTypeOK
    <2>3. uplink \in Seq(ChannelRequest) /\ downlink \in Seq(ChannelFrame) /\ toldOf \in Seq(Numbers)
      BY <1>2
    <2>4. subscribeCalls \in [SubscribeIds -> {"none", "waiting", "subscribed", "failed"}]  BY <1>2
    <2> QED  BY <1>2, <2>1, <2>2, <2>3, <2>4 DEF ChannelShape
  <1>4. OneWaits  BY <1>2 DEF OneWaits, WaitingCalls
  <1>5. RequestsFit /\ AnswersFit
    <2>1. Len(<<>>) = 0  OBVIOUS
    <2> QED  BY <1>2, <2>1 DEF RequestsFit, AnswersFit
  <1>6. MemberFits /\ SubscriptionFits  BY <1>2 DEF MemberFits, SubscriptionFits, StillSubscribed
  <1> QED  BY <1>3, <1>4, <1>5, <1>6 DEF ChannelIInv, ChannelFits

LEMMA ChannelStep ==
  ASSUME ChannelIInv, [ChannelObjectNext]_channelObjectVars
  PROVE  ChannelIInv'
  <1>1. CASE ChannelObjectNext
    BY <1>1, SubscribeKeeps, TimesOutKeeps, UnsubscribeKeeps, ReceiveFrameKeeps, ChannelLinkKeeps,
       FarewellKeeps, ServerAnswers, OthersKeep
    DEF ChannelObjectNext
  <1>2. CASE UNCHANGED channelObjectVars
    <2>1. UNCHANGED <<linkUp, era, uplink, downlink, active, connectionUnsub, channelListeners,
                      subscribeCalls, toldOf, present, isMember, spoken, here, presences, since,
                      subscribedIn, overlap, unanswered>>
      BY <1>2 DEF channelObjectVars, linkVars, objectVars, roomVars, channelHistory
    <2>2. ChannelShape'  BY <2>1 DEF ChannelIInv, ChannelShape, LinkTypeOK
    <2>3. ASSUME ~overlap' PROVE ChannelFits'
      <3>1. OneWaits /\ RequestsFit /\ AnswersFit /\ MemberFits /\ SubscriptionFits
        BY <2>1, <2>3 DEF ChannelIInv, ChannelFits
      <3>2. OneWaits'  BY <2>1, <3>1 DEF OneWaits, WaitingCalls
      <3>3. RequestsFit'  BY <2>1, <3>1 DEF RequestsFit, RequestFits
      <3>4. AnswersFit'  BY <2>1, <3>1 DEF AnswersFit, AnswerFits
      <3>5. MemberFits' /\ SubscriptionFits'
        BY <2>1, <3>1 DEF MemberFits, SubscriptionFits, StillSubscribed
      <3> QED  BY <3>2, <3>3, <3>4, <3>5 DEF ChannelFits
    <2> QED  BY <2>2, <2>3 DEF ChannelIInv
  <1> QED  BY <1>1, <1>2

LEMMA ChannelRight == ChannelIInv => SubscriptionHolds /\ ChannelObjectTypeOK
  <1>1. SUFFICES ASSUME ChannelIInv PROVE SubscriptionHolds /\ ChannelObjectTypeOK  OBVIOUS
  <1>2. ChannelShape  BY <1>1 DEF ChannelIInv
  <1>3. ChannelObjectTypeOK  BY <1>2 DEF ChannelShape, ChannelObjectTypeOK
  <1>4. ASSUME ~overlap
        PROVE  NothingMissedOnChannel /\ MembersAreHere /\ QuietWhenInactive
    <2>1. OneWaits /\ MemberFits /\ SubscriptionFits  BY <1>1, <1>4 DEF ChannelIInv, ChannelFits
    <2>2. /\ DOMAIN downlink = 1..Len(downlink) /\ DOMAIN uplink = 1..Len(uplink)
          /\ DOMAIN toldOf = 1..Len(toldOf) /\ Len(toldOf) \in Nat /\ Len(downlink) \in Nat
          /\ spoken \in Nat /\ since \in Nat
      <3>1. /\ uplink \in Seq(ChannelRequest) /\ downlink \in Seq(ChannelFrame)
            /\ toldOf \in Seq(Numbers) /\ spoken \in Nat /\ since \in Nat
        BY <1>2, ChannelParts
      <3>2. DOMAIN uplink = 1..Len(uplink)  BY <3>1
      <3>3. DOMAIN downlink = 1..Len(downlink) /\ Len(downlink) \in Nat  BY <3>1
      <3>4. DOMAIN toldOf = 1..Len(toldOf) /\ Len(toldOf) \in Nat  BY <3>1
      <3> QED  BY <3>1, <3>2, <3>3, <3>4
    <2>3. NothingMissedOnChannel
      <3> SUFFICES ASSUME StillSubscribed
                   PROVE  /\ isMember
                          /\ \E n \in 0..spoken :
                                /\ Len(toldOf) >= n - since
                                /\ \A i \in DOMAIN toldOf : toldOf[i] = n - Len(toldOf) + i
                                /\ {downlink[i].number : i \in Publications} = (n + 1)..spoken
                                /\ \A i, j \in Publications :
                                      i < j => downlink[i].number < downlink[j].number
        BY DEF NothingMissedOnChannel
      <3>1. PICK n \in 0..spoken : HandedOn(toldOf, since, n) /\ Brings(downlink, 1, n, spoken)
        BY <2>1 DEF SubscriptionFits
      <3>2. Publications = {i \in 1..Len(downlink) : downlink[i].is = "publish"}
        BY <2>2 DEF Publications
      <3>3. Len(toldOf) >= n - since /\ \A i \in DOMAIN toldOf : toldOf[i] = n - Len(toldOf) + i
        <4>1. n \in Nat  BY <2>2
        <4>2. Len(toldOf) + since >= n /\ \A i \in 1..Len(toldOf) : toldOf[i] = n - Len(toldOf) + i
          BY <3>1 DEF HandedOn
        <4> QED  BY <2>2, <4>1, <4>2
      <3>4. /\ \A j \in Publications : downlink[j].number \in (n + 1)..spoken
            /\ \A m \in (n + 1)..spoken : \E j \in Publications : downlink[j].number = m
            /\ \A i, j \in Publications : i < j => downlink[i].number < downlink[j].number
        BY <3>1, <3>2 DEF Brings
      <3>5. {downlink[i].number : i \in Publications} = (n + 1)..spoken  BY <3>4
      <3>6. isMember  BY <2>1 DEF SubscriptionFits
      <3> QED  BY <3>3, <3>4, <3>5, <3>6
    <2>4. MembersAreHere
      <3> SUFFICES ASSUME StillSubscribed, NEW m \in Others
                   PROVE  /\ TellsOf(m) = {} /\ m \in present => m \in here
                          /\ \A i \in TellsOf(m) : (\A j \in TellsOf(m) : j <= i) =>
                                (downlink[i].is = "join" <=> m \in here)
        BY DEF MembersAreHere
      <3>1. TellsRight(downlink, 1, here) /\ KnowsRight(downlink, present, here)
        BY <2>1 DEF SubscriptionFits
      <3>2. TellsOf(m) = {i \in 1..Len(downlink) : TellsAbout(downlink[i], m)}
        BY <2>2 DEF TellsOf, TellsAbout
      <3>3. TellsOf(m) = {} /\ m \in present => m \in here  BY <3>1, <3>2 DEF KnowsRight
      <3>4. ASSUME NEW i \in TellsOf(m), \A j \in TellsOf(m) : j <= i
            PROVE  downlink[i].is = "join" <=> m \in here
        <4>1. i \in 1..Len(downlink) /\ TellsAbout(downlink[i], m)  BY <3>2
        <4>2. ASSUME NEW k \in (i + 1)..Len(downlink) PROVE ~TellsAbout(downlink[k], m)
          <5>1. k \in 1..Len(downlink) /\ ~(k <= i)  BY <2>2, <4>1
          <5> QED  BY <3>2, <3>4, <5>1
        <4> QED  BY <3>1, <4>1, <4>2 DEF TellsRight
      <3> QED  BY <3>3, <3>4
    <2>5. QuietWhenInactive
      <3>1. ASSUME isMember, ~active
            PROVE  \/ unanswered \/ WaitingCalls # {}
                   \/ \E i \in DOMAIN uplink : uplink[i].is = "unsubscribe"
        <4>1. CASE unanswered  BY <4>1
        <4>2. CASE ~NoFarewell(uplink, 1)  BY <2>2, <4>2 DEF NoFarewell
        <4>3. ASSUME NEW i \in 1..Len(downlink), downlink[i].is = "ack",
                     subscribeCalls[downlink[i].call] = "waiting"
              PROVE  WaitingCalls # {}
          <5>1. downlink[i].call \in SubscribeIds  BY <1>2, <4>3, ChannelParts, FrameKinds
          <5> QED  BY <4>3, <5>1 DEF WaitingCalls
        <4> QED  BY <2>1, <3>1, <4>1, <4>2, <4>3 DEF MemberFits
      <3> QED  BY <2>1, <3>1 DEF QuietWhenInactive, OneWaits
    <2> QED  BY <2>3, <2>4, <2>5
  <1> QED  BY <1>3, <1>4 DEF SubscriptionHolds

=============================================================================
