---------------------------- MODULE Server_proofs ----------------------------
(***************************************************************************)
(* Proofs about Server, for every set of connections and channels, every   *)
(* configuration and every bound: its types, who is in a channel and the   *)
(* end of a stream; then what it promises of the order and the framing of  *)
(* what it sends, and that it implements PubSub.                           *)
(***************************************************************************)
EXTENDS Server, TLAPS, FiniteSetTheorems, SequenceTheorems

-----------------------------------------------------------------------------
(* What the operators of the components return.                            *)

\* A queued frame is a frame: nothing else is in the queues to the sockets.
LEMMA EnqueueType ==
  ASSUME TypeOK, NEW c \in Conns, NEW frame \in Frame
  PROVE  Enqueue(c, frame) \in [Conns -> Seq(Frame)]
  BY DEF TypeOK, TransportTypeOK, Enqueue

\* So is what send() queues.
LEMMA SendType ==
  ASSUME TypeOK, NEW c \in Conns, NEW id \in Nat,
         NEW kind \in {"reply", "channel", "error"}
  PROVE  Send(c, kind, id) \in [Conns -> Seq(Frame)]
  <1>1. NewFrame(kind, IF c \in binary THEN "binary" ELSE "text", id) \in Frame
    BY DEF NewFrame, Frame
  <1> QED  BY <1>1, EnqueueType DEF Send

\* close() leaves the transport well-typed.
LEMMA CloseType ==
  ASSUME TypeOK, NEW S \in SUBSET Conns, Close(S)
  PROVE  connections' \subseteq Conns /\ wq' \in [Conns -> Seq(Frame)]
  <1>1. CloseFrame \in Frame  BY DEF CloseFrame, NewFrame, Frame
  <1> QED  BY <1>1 DEF TypeOK, TransportTypeOK, Close

\* The event a task posts is queued.
LEMMA PostType ==
  ASSUME TypeOK, NEW c \in Conns, NEW id \in Nat,
         NEW kind \in {"connected", "message", "noise", "disconnected"},
         PostEvent(kind, c, id)
  PROVE  events' \in Seq(Event)
  <1>1. [kind |-> kind, conn |-> c, id |-> id] \in Event  BY DEF Event
  <1> QED  BY <1>1 DEF TypeOK, TransportTypeOK, PostEvent

\* A channel only ever has finitely many members.
FiniteMembers == \A ch \in Channels : IsFiniteSet(subscribers[ch])

\* Whatever the order the members are visited in, publish() queues pairs of a
\* member and the message, and remembers the message.
LEMMA PublishType ==
  ASSUME TypeOK, FiniteMembers,
         NEW ch \in Channels, NEW id \in Nat, NEW from, Publish(ch, id, from)
  PROVE  ChannelsTypeOK'
  <1> DEFINE S == subscribers[ch] \ {from}
  <1>1. history' \in [Channels -> Seq(Nat)]
    <2> DEFINE h == Append(history[ch], id)
    <2>1. h \in Seq(Nat) /\ h # <<>>
      <3>1. history[ch] \in Seq(Nat)  BY DEF TypeOK, ChannelsTypeOK
      <3> QED  BY <3>1, AppendProperties
    <2>2. Tail(h) \in Seq(Nat)
      <3> HIDE DEF h
      <3> QED  BY <2>1, HeadTailProperties
    <2>3. Pushed(ch, id) \in Seq(Nat)
      BY <2>1, <2>2 DEF Pushed, TypeOK, ChannelsTypeOK
    <2> QED  BY <2>3 DEF Publish, TypeOK, ChannelsTypeOK
  <1>2. fwdQ' \in Seq([to: Conns, id: Nat])
    <2>1. PICK o \in Orders(S) :
             fwdQ' = fwdQ \o [i \in DOMAIN o |-> [to |-> o[i], id |-> id]]
      BY DEF Publish
    <2>2. Cardinality(S) \in Nat
      BY FS_Subset, FS_CardinalityType DEF FiniteMembers
    <2>3. o \in [1..Cardinality(S) -> Conns]
      BY DEF Orders, TypeOK, ChannelsTypeOK
    <2>4. [i \in DOMAIN o |-> [to |-> o[i], id |-> id]] \in Seq([to: Conns, id: Nat])
      <3> DEFINE Pair == [to: Conns, id: Nat]
                 q == [i \in DOMAIN o |-> [to |-> o[i], id |-> id]]
      <3>1. q \in [1..Cardinality(S) -> Pair]  BY <2>3
      <3> HIDE DEF S, Pair, q
      <3>2. q \in Seq(Pair)  BY <2>2, <3>1
      <3> QED  BY <3>2 DEF q, Pair
    <2> QED  BY <2>1, <2>4 DEF TypeOK, ChannelsTypeOK
  <1> QED  BY <1>1, <1>2 DEF Publish, TypeOK, ChannelsTypeOK

-----------------------------------------------------------------------------
(* Type correctness.                                                       *)

\* A queued message event names a message that was decoded, and its sender.
EventsKnown ==
  \A i \in DOMAIN events : events[i].kind = "message" =>
      /\ events[i].id \in DOMAIN log
      /\ events[i].conn = log[events[i].id].conn

TypeInv == TypeOK /\ FiniteMembers /\ EventsKnown

\* The server starts with the right types.
LEMMA TypeInit == Init => TypeInv
  <1> SUFFICES ASSUME Init PROVE TypeInv  OBVIOUS
  <1> USE DEF Init, TransportInit, ChannelsInit
  <1>1. TransportTypeOK  BY DEF TransportTypeOK, Phases
  <1>2. ChannelsTypeOK  BY ChannelsAssumption DEF ChannelsTypeOK
  <1>3. FiniteMembers  BY FS_EmptySet DEF FiniteMembers
  <1>4. EventsKnown  BY DEF EventsKnown
  <1> QED  BY <1>1, <1>2, <1>3, <1>4 DEF TypeInv, TypeOK

\* Posting an event that is known keeps the events known.
LEMMA PostKnown ==
  ASSUME TypeInv, NEW c \in Conns, NEW id \in Nat,
         NEW kind \in {"connected", "message", "noise", "disconnected"},
         PostEvent(kind, c, id),
         \/ kind # "message" /\ log' = log
         \/ \E m \in Message : log' = Append(log, m) /\ m.conn = c /\ id = Len(log) + 1
  PROVE  EventsKnown'
  <1> DEFINE e == [kind |-> kind, conn |-> c, id |-> id]
  <1>1. events \in Seq(Event) /\ log \in Seq(Message) /\ events' = Append(events, e)
    BY DEF TypeInv, TypeOK, TransportTypeOK, PostEvent
  <1>2. /\ \A i \in DOMAIN log : i \in DOMAIN log' /\ log'[i] = log[i]
        /\ kind = "message" => id \in DOMAIN log' /\ log'[id].conn = c
    <2>1. CASE log' = log /\ kind # "message"  BY <2>1
    <2>2. CASE \E m \in Message : log' = Append(log, m) /\ m.conn = c /\ id = Len(log) + 1
      BY <1>1, <2>2
    <2> QED  BY <2>1, <2>2
  <1>3. \A i \in DOMAIN events' : \/ i \in DOMAIN events /\ events'[i] = events[i]
                                  \/ events'[i] = e
    BY <1>1
  <1> QED  BY <1>2, <1>3 DEF TypeInv, EventsKnown

\* The event the loop takes is known, and so are the others.
LEMMA TakingKnown ==
  ASSUME TypeInv, NEW kind, Taking(kind), log' = log
  PROVE  /\ events' \in Seq(Event)
         /\ Head(events) \in Event
         /\ EventsKnown'
         /\ kind = "message" => Head(events).id \in DOMAIN log
  <1>1. events \in Seq(Event) /\ events # <<>> /\ events' = Tail(events)
    BY DEF TypeInv, TypeOK, TransportTypeOK, Taking
  <1>2. events' \in Seq(Event) /\ Head(events) \in Event
    BY <1>1, HeadTailProperties
  <1>3. 1 \in DOMAIN events /\ Head(events) = events[1]
    BY <1>1
  <1>4. \A i \in DOMAIN events' : i + 1 \in DOMAIN events /\ events'[i] = events[i + 1]
    BY <1>1
  <1> QED  BY <1>2, <1>3, <1>4 DEF TypeInv, EventsKnown, Taking

\* One step of a connection's task, its write task or its ping task.
LEMMA TransportStepType ==
  ASSUME TypeInv, NEW c \in Conns, TransportStep(c)
  PROVE  TransportTypeOK' /\ EventsKnown' /\ Len(log) <= Len(log')
  <1> DEFINE Quiet == UNCHANGED <<events, log>>
  <1>0. /\ TypeOK /\ EventsKnown /\ TransportTypeOK
        /\ events \in Seq(Event) /\ log \in Seq(Message) /\ Len(log) \in Nat
    BY DEF TypeInv, TypeOK, TransportTypeOK
  <1>q. Quiet => EventsKnown' /\ Len(log) <= Len(log')
    BY <1>0 DEF EventsKnown
  <1>1. CASE Accept(c)
    <2>1. events' \in Seq(Event) /\ EventsKnown'
      BY <1>0, <1>1, PostType, PostKnown DEF Accept
    <2> QED  BY <1>0, <1>1, <2>1 DEF Accept, TransportTypeOK, Phases
  <1>2. CASE Greet(c)
    <2>1. NewFrame("hello", "text", 0) \in Frame  BY DEF NewFrame, Frame
    <2> QED  BY <1>0, <1>q, <1>2, <2>1 DEF Greet, TransportTypeOK, Phases
  <1>3. ASSUME NEW kind \in Kinds \cap MessageKinds, NEW ch \in Channels,
               NEW enc \in Encodings, ReadMessage(c, kind, ch, enc)
        PROVE  TransportTypeOK' /\ EventsKnown' /\ Len(log) <= Len(log')
    <2> DEFINE m == [conn |-> c, kind |-> kind, ch |-> ch, enc |-> enc]
    <2>1. m \in Message  BY TransportAssumption DEF Message
    <2>2. log' = Append(log, m) /\ PostEvent("message", c, Len(log) + 1)
      BY <1>3 DEF ReadMessage
    <2>3. log' \in Seq(Message) /\ Len(log') = Len(log) + 1
      BY <1>0, <2>1, <2>2
    <2>4. events' \in Seq(Event)
      BY <1>0, <2>2, PostType
    <2>5. EventsKnown'
      <3> HIDE DEF m
      <3>1. m.conn = c  BY DEF m
      <3> QED  BY <1>0, <2>1, <2>2, <3>1, PostKnown
    <2>6. binary' \subseteq Conns /\ frames' \in Nat
      BY <1>0, <1>3 DEF ReadMessage, NextFrame, TransportTypeOK
    <2> QED  BY <1>0, <1>3, <2>3, <2>4, <2>5, <2>6 DEF ReadMessage, NextFrame, TransportTypeOK
  <1>4. ASSUME NEW framed \in BOOLEAN, ReadNoise(c, framed)
        PROVE  TransportTypeOK' /\ EventsKnown' /\ Len(log) <= Len(log')
    <2>1. events' \in Seq(Event) /\ EventsKnown'
      BY <1>0, <1>4, PostType, PostKnown DEF ReadNoise
    <2>2. binary' \subseteq Conns /\ log' = log
      BY <1>0, <1>4 DEF ReadNoise, TransportTypeOK
    <2>3. frames' \in Nat
      <3>1. NextFrame(c)  BY <1>4 DEF ReadNoise
      <3> QED  BY <1>0, <3>1 DEF NextFrame, TransportTypeOK
    <2>4. UNCHANGED <<phase, connections, deaf, wire, pings, wq>>
      BY <1>4 DEF ReadNoise, NextFrame
    <2> QED  BY <1>0, <2>1, <2>2, <2>3, <2>4 DEF TransportTypeOK
  <1>5. CASE ReadPing(c)
    <2>1. NewFrame("pong", "binary", 0) \in Frame  BY DEF NewFrame, Frame
    <2>2. wq' \in [Conns -> Seq(Frame)]
      <3>1. wq' = Enqueue(c, NewFrame("pong", "binary", 0))  BY <1>5 DEF ReadPing
      <3> QED  BY <1>0, <2>1, <3>1, EnqueueType
    <2>3. frames' \in Nat
      <3>1. NextFrame(c)  BY <1>5 DEF ReadPing
      <3> QED  BY <1>0, <3>1 DEF NextFrame, TransportTypeOK
    <2>4. UNCHANGED <<phase, connections, deaf, wire, pings, binary, events, log>>
      BY <1>5 DEF ReadPing, NextFrame
    <2> QED  BY <1>0, <1>q, <2>2, <2>3, <2>4 DEF TransportTypeOK
  <1>6. CASE PingTick(c)
    <2>1. NewFrame("ping", "control", 0) \in Frame  BY DEF NewFrame, Frame
    <2>2. wq' \in [Conns -> Seq(Frame)]
      <3>1. wq' = Enqueue(c, NewFrame("ping", "control", 0))  BY <1>6 DEF PingTick
      <3> QED  BY <1>0, <2>1, <3>1, EnqueueType
    <2> QED  BY <1>0, <1>q, <1>6, <2>2 DEF PingTick, TransportTypeOK
  <1>7. CASE WriteFrame(c)
    <2>1. wq[c] \in Seq(Frame) /\ wq[c] # <<>>
      BY <1>0, <1>7 DEF WriteFrame, TransportTypeOK
    <2>2. Head(wq[c]) \in Frame /\ Tail(wq[c]) \in Seq(Frame)
      BY <2>1, HeadTailProperties
    <2> QED  BY <1>0, <1>q, <1>7, <2>2 DEF WriteFrame, TransportTypeOK
  <1>8. CASE WriteFails(c)
    BY <1>0, <1>q, <1>8 DEF WriteFails, TransportTypeOK
  <1>9. CASE EndRead(c)
    BY <1>0, <1>q, <1>9 DEF EndRead, TransportTypeOK, Phases
  <1>10. CASE Cleanup(c)
    <2>1. events' \in Seq(Event) /\ EventsKnown'
      BY <1>0, <1>10, PostType, PostKnown DEF Cleanup
    <2> QED  BY <1>0, <1>10, <2>1 DEF Cleanup, TransportTypeOK, Phases
  <1> QED  BY <1>1, <1>2, <1>3, <1>4, <1>5, <1>6, <1>7, <1>8, <1>9, <1>10
           DEF TransportStep, Reads

\* One event handled by the loop.
LEMMA HandleEventType ==
  ASSUME TypeInv, HandleEvent
  PROVE  TypeInv'
  <1>0. /\ TypeOK /\ TransportTypeOK /\ ChannelsTypeOK /\ FiniteMembers
        /\ log \in Seq(Message) /\ Len(log) \in Nat
        /\ up \in BOOLEAN /\ awaiting \in 0..Len(log)
    BY DEF TypeInv, TypeOK, TransportTypeOK
  <1>1. ASSUME NEW kind \in {"connected", "noise"}, HandleLogged(kind)
        PROVE  TypeInv'
    <2>1. events' \in Seq(Event) /\ EventsKnown'
      <3>1. Taking(kind) /\ log' = log  BY <1>1 DEF HandleLogged
      <3> QED  BY <3>1, TakingKnown
    <2> QED
      BY <1>0, <1>1, <2>1
      DEF HandleLogged, channelVars, TypeInv, TypeOK, TransportTypeOK, ChannelsTypeOK, FiniteMembers
  <1>2. CASE HandleDisconnected
    <2>1. Taking("disconnected") /\ log' = log  BY <1>2 DEF HandleDisconnected
    <2>2. events' \in Seq(Event) /\ EventsKnown'
      BY <2>1, TakingKnown
    <2>3. subscribers' = [ch \in Channels |-> subscribers[ch] \ {Head(events).conn}]
      BY <1>2 DEF HandleDisconnected, RemoveConnection
    <2>4. FiniteMembers'
      BY <1>0, <2>3, FS_Subset DEF FiniteMembers
    <2>5. ChannelsTypeOK'
      BY <1>0, <1>2, <2>3 DEF HandleDisconnected, RemoveConnection, ChannelsTypeOK
    <2> QED
      BY <1>0, <1>2, <2>2, <2>4, <2>5
      DEF HandleDisconnected, TypeInv, TypeOK, TransportTypeOK
  <1>3. ASSUME NEW S, Handling(S)
        PROVE  /\ Sender \in Conns /\ MsgId \in 1..Len(log) /\ MsgId \in Nat /\ Channel \in Channels
               /\ events' \in Seq(Event) /\ EventsKnown'
               /\ UNCHANGED <<phase, deaf, binary, wire, pings, frames, log, up>>
    <2>1. Taking("message") /\ log' = log  BY <1>3 DEF Handling
    <2>2. Head(events) \in Event /\ MsgId \in DOMAIN log /\ events' \in Seq(Event) /\ EventsKnown'
      BY <2>1, TakingKnown DEF MsgId
    <2>3. log[MsgId] \in Message  BY <1>0, <2>2
    <2> QED  BY <1>0, <1>3, <2>2, <2>3 DEF Handling, Sender, MsgId, Channel, Event, Message
  <1>4. ASSUME NEW S, Handling(S),
               connections' \subseteq Conns, wq' \in [Conns -> Seq(Frame)],
               ChannelsTypeOK', FiniteMembers', awaiting' \in 0..Len(log)
        PROVE  TypeInv'
    BY <1>0, <1>3, <1>4 DEF TypeInv, TypeOK, TransportTypeOK
  <1>5. UNCHANGED channelVars => ChannelsTypeOK' /\ FiniteMembers'
    BY <1>0 DEF channelVars, ChannelsTypeOK, FiniteMembers
  <1>6. ASSUME NEW S, Handling(S)
        PROVE  /\ Send(Sender, "reply", MsgId) \in [Conns -> Seq(Frame)]
               /\ Send(Sender, "error", 0) \in [Conns -> Seq(Frame)]
    BY <1>0, <1>3, <1>6, SendType
  <1>7. wq \in [Conns -> Seq(Frame)] /\ connections \subseteq Conns
    BY <1>0 DEF TransportTypeOK
  <1>8. CASE HandleSubscribe
    <2>1. Handling({"subscribe"}) /\ UNCHANGED <<connections, awaiting>>
          /\ Subscribe(Channel, Sender)
      BY <1>8 DEF HandleSubscribe
    <2>2. wq' \in [Conns -> Seq(Frame)]
      BY <1>6, <1>8, <2>1 DEF HandleSubscribe
    <2>3. Sender \in Conns /\ Channel \in Channels  BY <1>3, <2>1
    <2>4. ChannelsTypeOK'
      BY <1>0, <2>1, <2>3 DEF Subscribe, ChannelsTypeOK
    <2>5. FiniteMembers'
      <3>1. IsFiniteSet(subscribers[Channel] \cup {Sender})
        BY <1>0, <2>3, FS_AddElement DEF FiniteMembers
      <3> QED  BY <1>0, <2>1, <2>3, <3>1 DEF Subscribe, ChannelsTypeOK, FiniteMembers
    <2> QED  BY <1>0, <1>4, <1>7, <2>1, <2>2, <2>4, <2>5
  <1>9. CASE HandleUnsubscribe
    <2>1. Handling({"unsubscribe"}) /\ UNCHANGED <<connections, awaiting>>
          /\ Unsubscribe(Channel, Sender) /\ wq' = Send(Sender, "reply", MsgId)
      BY <1>9 DEF HandleUnsubscribe
    <2>2. wq' \in [Conns -> Seq(Frame)]  BY <1>6, <2>1
    <2>3. Sender \in Conns /\ Channel \in Channels  BY <1>3, <2>1
    <2>4. ChannelsTypeOK'
      BY <1>0, <2>1, <2>3 DEF Unsubscribe, ChannelsTypeOK
    <2>5. FiniteMembers'
      <3>1. IsFiniteSet(subscribers[Channel] \ {Sender})
        BY <1>0, <2>3, FS_Subset DEF FiniteMembers
      <3> QED  BY <1>0, <2>1, <2>3, <3>1 DEF Unsubscribe, ChannelsTypeOK, FiniteMembers
    <2> QED  BY <1>0, <1>4, <1>7, <2>1, <2>2, <2>4, <2>5
  <1>10. CASE HandlePublish
    <2>1. Handling({"publish"}) /\ UNCHANGED <<connections, awaiting>>
      BY <1>10 DEF HandlePublish
    <2>2. wq' \in [Conns -> Seq(Frame)]
      BY <1>6, <1>10, <2>1 DEF HandlePublish
    <2>3. ChannelsTypeOK' /\ FiniteMembers'
      <3>1. CASE Channel \in channels
        <4>1. Publish(Channel, MsgId, Sender)  BY <1>10, <3>1 DEF HandlePublish
        <4>2. ChannelsTypeOK'  BY <1>0, <1>3, <2>1, <4>1, PublishType
        <4> QED  BY <1>0, <4>1, <4>2 DEF Publish, FiniteMembers
      <3>2. CASE Channel \notin channels
        BY <1>5, <1>10, <3>2 DEF HandlePublish
      <3> QED  BY <3>1, <3>2
    <2> QED  BY <1>0, <1>4, <1>7, <2>1, <2>2, <2>3
  <1>11. CASE HandlePrompt
    BY <1>0, <1>4, <1>5, <1>6, <1>7, <1>11 DEF HandlePrompt
  <1>12. CASE HandleRequest
    <2>1. Handling({"request"}) /\ UNCHANGED <<connections, channelVars, wq>> /\ awaiting' = MsgId
      BY <1>12 DEF HandleRequest
    <2>2. awaiting' \in 0..Len(log)  BY <1>0, <1>3, <2>1
    <2> QED  BY <1>4, <1>5, <1>7, <2>1, <2>2
  <1>13. CASE HandleDisconnect
    <2>1. Handling({"disconnect"}) /\ Close({Sender}) /\ UNCHANGED <<channelVars, awaiting>>
      BY <1>13 DEF HandleDisconnect
    <2>2. connections' \subseteq Conns /\ wq' \in [Conns -> Seq(Frame)]
      BY <1>0, <1>3, <2>1, CloseType
    <2> QED  BY <1>0, <1>4, <1>5, <2>1, <2>2
  <1>14. CASE HandleOther
    BY <1>0, <1>4, <1>5, <1>7, <1>14 DEF HandleOther
  <1> QED
    BY <1>1, <1>2, <1>8, <1>9, <1>10, <1>11, <1>12, <1>13, <1>14 DEF HandleEvent

\* Every step of the transport, the event loop and the forwarder keeps the
\* types, the finiteness of the member sets, and the meaning of queued events.
LEMMA TypeStep == TypeInv /\ [Next]_vars => TypeInv'
  <1> SUFFICES ASSUME TypeInv, [Next]_vars PROVE TypeInv'  OBVIOUS
  <1>0. /\ TypeOK /\ TransportTypeOK /\ ChannelsTypeOK /\ FiniteMembers /\ EventsKnown
        /\ log \in Seq(Message) /\ Len(log) \in Nat
        /\ up \in BOOLEAN /\ awaiting \in 0..Len(log)
    BY DEF TypeInv, TypeOK, TransportTypeOK
  <1>1. CASE TransportNext
    <2> PICK c \in Conns : TransportStep(c) /\ UNCHANGED <<channelVars, up, awaiting>>
      BY <1>1 DEF TransportNext
    <2>1. TransportTypeOK' /\ EventsKnown' /\ Len(log) <= Len(log')
      BY TransportStepType
    <2>2. Len(log') \in Nat  BY <2>1 DEF TransportTypeOK
    <2>3. awaiting' \in 0..Len(log')  BY <1>0, <2>1, <2>2
    <2> QED
      BY <1>0, <2>1, <2>3 DEF TypeInv, TypeOK, channelVars, ChannelsTypeOK, FiniteMembers
  <1>2. CASE HandleEvent
    BY <1>2, HandleEventType
  <1>3. CASE AnswerRequest
    <2>1. awaiting \in 1..Len(log)  BY <1>0, <1>3 DEF AnswerRequest
    <2>2. log[awaiting].conn \in Conns
      <3>1. log[awaiting] \in Message  BY <1>0, <2>1
      <3> QED  BY <3>1 DEF Message
    <2>3. wq' \in [Conns -> Seq(Frame)]
      BY <1>0, <1>3, <2>1, <2>2, SendType DEF AnswerRequest
    <2> QED
      BY <1>0, <1>3, <2>3
      DEF AnswerRequest, TypeInv, TypeOK, TransportTypeOK, channelVars, ChannelsTypeOK,
          FiniteMembers, EventsKnown
  <1>4. CASE Forward
    <2> DEFINE Pair == [to: Conns, id: Nat]
    <2>1. fwdQ \in Seq(Pair) /\ fwdQ # <<>>  BY <1>0, <1>4 DEF Forward, ChannelsTypeOK
    <2>2. Head(fwdQ) \in Pair /\ Tail(fwdQ) \in Seq(Pair)
      <3> HIDE DEF Pair
      <3> QED  BY <2>1, HeadTailProperties
    <2>3. wq' \in [Conns -> Seq(Frame)]
      BY <1>0, <1>4, <2>2, SendType DEF Forward
    <2> QED
      BY <1>0, <1>4, <2>2, <2>3
      DEF Forward, TypeInv, TypeOK, TransportTypeOK, ChannelsTypeOK, FiniteMembers, EventsKnown
  <1>5. CASE Shutdown
    <2>1. connections \subseteq Conns /\ Close(connections)
      BY <1>0, <1>5 DEF Shutdown, TransportTypeOK
    <2>2. connections' \subseteq Conns /\ wq' \in [Conns -> Seq(Frame)]
      BY <1>0, <2>1, CloseType
    <2> QED
      BY <1>0, <1>5, <2>2
      DEF Shutdown, TypeInv, TypeOK, TransportTypeOK, channelVars, ChannelsTypeOK,
          FiniteMembers, EventsKnown
  <1>6. CASE UNCHANGED vars
    BY <1>0, <1>6
    DEF vars, transportVars, channelVars, TypeInv, TypeOK, TransportTypeOK, ChannelsTypeOK,
        FiniteMembers, EventsKnown
  <1> QED  BY <1>1, <1>2, <1>3, <1>4, <1>5, <1>6 DEF Next

\* The server's state is well-typed, whatever its clients do: no handler reads
\* a message that was not decoded, and only frames reach the sockets.
THEOREM TypeCorrect == Spec => []TypeOK
  <1>1. TypeInv => TypeOK  BY DEF TypeInv
  <1> QED  BY <1>1, TypeInit, TypeStep, PTL DEF Spec

-----------------------------------------------------------------------------
(* No ghost subscribers.                                                   *)

\* What makes it inductive: a message of a connection that is gone is followed,
\* in the one queue there is, by the event that will remove the connection.
LateIsTold ==
  \A i \in DOMAIN events : events[i].kind = "message" /\ phase[events[i].conn] = "closed" =>
      \E j \in DOMAIN events :
          i < j /\ events[j].kind = "disconnected" /\ events[j].conn = events[i].conn

GhostInv == NoGhostSubscribers /\ LateIsTold

\* Every queued event is about a connection.
LEMMA EventConn ==
  ASSUME TypeInv
  PROVE  \A i \in DOMAIN events : events[i].conn \in Conns
  <1>1. \A i \in DOMAIN events : events[i] \in Event
    BY DEF TypeInv, TypeOK, TransportTypeOK
  <1> QED  BY <1>1 DEF Event

\* Steps that post nothing, take nothing and close nothing.
LEMMA GhostCalm ==
  ASSUME GhostInv, UNCHANGED <<events, subscribers>>,
         \A c \in Conns : phase'[c] = "closed" => phase[c] = "closed",
         TypeInv
  PROVE  GhostInv'
  <1>1. \A i \in DOMAIN events : events[i].conn \in Conns
    BY EventConn
  <1>2. LateIsTold'  BY <1>1 DEF GhostInv, LateIsTold
  <1>3. NoGhostSubscribers'
    <2>1. \A ch \in Channels : subscribers[ch] \subseteq Conns
      BY DEF TypeInv, TypeOK, ChannelsTypeOK
    <2> QED  BY <2>1 DEF GhostInv, NoGhostSubscribers, Told
  <1> QED  BY <1>2, <1>3 DEF GhostInv

\* Steps of a connection's task that post an event: a message only while the
\* connection is open, and its end when it is closed.
LEMMA GhostPost ==
  ASSUME GhostInv, TypeInv, UNCHANGED subscribers, NEW c \in Conns, NEW id \in Nat,
         NEW kind \in {"connected", "message", "noise", "disconnected"},
         PostEvent(kind, c, id),
         kind = "message" => phase'[c] # "closed",
         \A d \in Conns : phase'[d] = "closed" =>
             phase[d] = "closed" \/ (d = c /\ kind = "disconnected")
  PROVE  GhostInv'
  <1> DEFINE e == [kind |-> kind, conn |-> c, id |-> id]
             n == Len(events) + 1
  <1>1. events \in Seq(Event) /\ events' = Append(events, e)
    BY DEF TypeInv, TypeOK, TransportTypeOK, PostEvent
  <1>2. /\ \A i \in DOMAIN events : i \in DOMAIN events' /\ events'[i] = events[i] /\ i < n
        /\ n \in DOMAIN events' /\ events'[n] = e
        /\ \A i \in DOMAIN events' : i \in DOMAIN events \/ i = n
    <2> HIDE DEF e
    <2> QED  BY <1>1
  <1>3. \A i \in DOMAIN events : events[i].conn \in Conns
    BY EventConn
  <1>4. LateIsTold'
    <2> SUFFICES ASSUME NEW i \in DOMAIN events', events'[i].kind = "message",
                        phase'[events'[i].conn] = "closed"
                 PROVE  \E j \in DOMAIN events' :
                           /\ i < j /\ events'[j].kind = "disconnected"
                           /\ events'[j].conn = events'[i].conn
      BY DEF LateIsTold
    <2>1. i \in DOMAIN events  BY <1>2
    <2>2. CASE phase[events[i].conn] = "closed"
      <3>1. PICK j \in DOMAIN events : i < j /\ events[j].kind = "disconnected"
                                       /\ events[j].conn = events[i].conn
        BY <1>2, <2>1, <2>2 DEF GhostInv, LateIsTold
      <3> QED  BY <1>2, <2>1, <3>1
    <2>3. CASE events[i].conn = c /\ kind = "disconnected"
      BY <1>2, <2>1, <2>3
    <2> QED  BY <1>2, <1>3, <2>1, <2>2, <2>3
  <1>5. NoGhostSubscribers'
    <2> SUFFICES ASSUME NEW ch \in Channels, NEW d \in subscribers[ch], phase'[d] = "closed"
                 PROVE  Told(d)'
      BY DEF NoGhostSubscribers
    <2>1. d \in Conns  BY DEF TypeInv, TypeOK, ChannelsTypeOK
    <2>2. CASE phase[d] = "closed"
      BY <1>2, <2>2 DEF GhostInv, NoGhostSubscribers, Told
    <2>3. CASE d = c /\ kind = "disconnected"
      BY <1>2, <2>3 DEF Told
    <2> QED  BY <2>1, <2>2, <2>3
  <1> QED  BY <1>4, <1>5 DEF GhostInv

\* The loop takes an event that is not a disconnection, and nobody but the
\* sender of a message becomes a member.
LEMMA GhostTake ==
  ASSUME GhostInv, TypeInv, NEW kind, kind # "disconnected", Taking(kind), UNCHANGED phase,
         \A ch \in Channels : \A c \in subscribers'[ch] :
             c \in subscribers[ch] \/ (kind = "message" /\ c = Head(events).conn)
  PROVE  GhostInv'
  <1>1. events \in Seq(Event) /\ events # <<>> /\ events' = Tail(events)
        /\ Head(events).kind = kind
    BY DEF TypeInv, TypeOK, TransportTypeOK, Taking
  <1>2. /\ 1 \in DOMAIN events /\ Head(events) = events[1]
        /\ \A i \in DOMAIN events' : i + 1 \in DOMAIN events /\ events'[i] = events[i + 1]
        /\ \A j \in DOMAIN events : j = 1 \/ j - 1 \in DOMAIN events'
        /\ DOMAIN events \subseteq Int /\ DOMAIN events' \subseteq Int
    BY <1>1
  <1>3. \A i \in DOMAIN events :
           events[i].kind = "disconnected" => i - 1 \in DOMAIN events' /\ events'[i - 1] = events[i]
    BY <1>1, <1>2
  <1>4. LateIsTold'
    <2> SUFFICES ASSUME NEW i \in DOMAIN events', events'[i].kind = "message",
                        phase[events'[i].conn] = "closed"
                 PROVE  \E j \in DOMAIN events' :
                           /\ i < j /\ events'[j].kind = "disconnected"
                           /\ events'[j].conn = events'[i].conn
      BY DEF LateIsTold
    <2>1. PICK j \in DOMAIN events : i + 1 < j /\ events[j].kind = "disconnected"
                                     /\ events[j].conn = events'[i].conn
      BY <1>2 DEF GhostInv, LateIsTold
    <2>2. j - 1 \in DOMAIN events' /\ events'[j - 1] = events[j] /\ i < j - 1
      BY <1>2, <1>3, <2>1
    <2> QED  BY <2>1, <2>2
  <1>5. NoGhostSubscribers'
    <2> SUFFICES ASSUME NEW ch \in Channels, NEW c \in subscribers'[ch], phase[c] = "closed"
                 PROVE  Told(c)'
      BY DEF NoGhostSubscribers
    <2>1. PICK j \in DOMAIN events : events[j].kind = "disconnected" /\ events[j].conn = c
      <3>1. CASE c \in subscribers[ch]
        BY <3>1 DEF GhostInv, NoGhostSubscribers, Told
      <3>2. CASE kind = "message" /\ c = Head(events).conn
        BY <1>1, <1>2, <3>2 DEF GhostInv, LateIsTold
      <3> QED  BY <3>1, <3>2
    <2> QED  BY <1>3, <2>1 DEF Told
  <1> QED  BY <1>4, <1>5 DEF GhostInv

\* The loop takes a disconnection and removes the connection everywhere.
LEMMA GhostRemove ==
  ASSUME GhostInv, TypeInv, HandleDisconnected
  PROVE  GhostInv'
  <1> DEFINE d == Head(events).conn
  <1>1. /\ events \in Seq(Event) /\ events # <<>> /\ events' = Tail(events)
        /\ Head(events).kind = "disconnected" /\ phase' = phase
    BY DEF TypeInv, TypeOK, TransportTypeOK, HandleDisconnected, Taking
  <1>2. /\ 1 \in DOMAIN events /\ Head(events) = events[1]
        /\ \A i \in DOMAIN events' : i + 1 \in DOMAIN events /\ events'[i] = events[i + 1]
        /\ \A j \in DOMAIN events :
              j = 1 \/ (j - 1 \in DOMAIN events' /\ events'[j - 1] = events[j])
        /\ DOMAIN events \subseteq Int /\ DOMAIN events' \subseteq Int
        /\ \A i \in DOMAIN events' : i > 0
    BY <1>1
  <1>3. \A ch \in Channels : subscribers'[ch] = subscribers[ch] \ {d}
    BY DEF HandleDisconnected, RemoveConnection
  <1>4. LateIsTold'
    <2> SUFFICES ASSUME NEW i \in DOMAIN events', events'[i].kind = "message",
                        phase[events'[i].conn] = "closed"
                 PROVE  \E j \in DOMAIN events' :
                           /\ i < j /\ events'[j].kind = "disconnected"
                           /\ events'[j].conn = events'[i].conn
      BY <1>1 DEF LateIsTold
    <2>1. PICK j \in DOMAIN events : i + 1 < j /\ events[j].kind = "disconnected"
                                     /\ events[j].conn = events'[i].conn
      BY <1>2 DEF GhostInv, LateIsTold
    <2>2. j - 1 \in DOMAIN events' /\ events'[j - 1] = events[j] /\ i < j - 1
      BY <1>2, <2>1
    <2> QED  BY <2>1, <2>2
  <1>5. NoGhostSubscribers'
    <2> SUFFICES ASSUME NEW ch \in Channels, NEW c \in subscribers'[ch], phase[c] = "closed"
                 PROVE  Told(c)'
      BY <1>1 DEF NoGhostSubscribers
    <2>1. c \in subscribers[ch] /\ c # d  BY <1>3
    <2>2. PICK j \in DOMAIN events : events[j].kind = "disconnected" /\ events[j].conn = c
      BY <2>1 DEF GhostInv, NoGhostSubscribers, Told
    <2>3. j # 1  BY <1>2, <2>1, <2>2
    <2> QED  BY <1>2, <2>2, <2>3 DEF Told
  <1> QED  BY <1>4, <1>5 DEF GhostInv

\* No step of a connection's own tasks makes a ghost: the cleanup of ws.rs
\* queues the Disconnected event in the step that closes the connection.
LEMMA GhostTransport ==
  ASSUME GhostInv, TypeInv, NEW c \in Conns, TransportStep(c), UNCHANGED subscribers
  PROVE  GhostInv'
  <1>0. phase \in [Conns -> Phases] /\ Len(log) + 1 \in Nat
    BY DEF TypeInv, TypeOK, TransportTypeOK
  <1>1. CASE Accept(c)
    <2>1. \A d \in Conns : phase'[d] = "closed" => phase[d] = "closed"
      BY <1>0, <1>1 DEF Accept
    <2>2. PostEvent("connected", c, 0)  BY <1>1 DEF Accept
    <2> QED  BY <2>1, <2>2, GhostPost
  <1>2. CASE Greet(c)
    <2>1. \A d \in Conns : phase'[d] = "closed" => phase[d] = "closed"
      BY <1>0, <1>2 DEF Greet
    <2> QED  BY <1>2, <2>1, GhostCalm DEF Greet
  <1>3. ASSUME NEW kind, NEW ch, NEW enc, ReadMessage(c, kind, ch, enc)
        PROVE  GhostInv'
    <2>1. phase' = phase /\ phase[c] = "reading" /\ PostEvent("message", c, Len(log) + 1)
      BY <1>3 DEF ReadMessage, NextFrame
    <2> QED  BY <1>0, <2>1, GhostPost
  <1>4. ASSUME NEW framed, ReadNoise(c, framed)
        PROVE  GhostInv'
    <2>1. phase' = phase /\ PostEvent("noise", c, 0)
      BY <1>4 DEF ReadNoise, NextFrame
    <2> QED  BY <2>1, GhostPost
  <1>5. CASE ReadPing(c) \/ PingTick(c) \/ WriteFrame(c) \/ WriteFails(c)
    <2>1. UNCHANGED <<events, phase>>
      BY <1>5 DEF ReadPing, NextFrame, PingTick, WriteFrame, WriteFails
    <2> QED  BY <2>1, GhostCalm
  <1>6. CASE EndRead(c)
    <2>1. \A d \in Conns : phase'[d] = "closed" => phase[d] = "closed"
      BY <1>0, <1>6 DEF EndRead
    <2> QED  BY <1>6, <2>1, GhostCalm DEF EndRead
  <1>7. CASE Cleanup(c)
    <2>1. \A d \in Conns : phase'[d] = "closed" => phase[d] = "closed" \/ d = c
      BY <1>0, <1>7 DEF Cleanup
    <2>2. PostEvent("disconnected", c, 0)  BY <1>7 DEF Cleanup
    <2> QED  BY <2>1, <2>2, GhostPost
  <1> QED
    BY <1>1, <1>2, <1>3, <1>4, <1>5, <1>6, <1>7 DEF TransportStep, Reads

\* GhostInv is inductive: handle_event and the tasks keep it.
LEMMA GhostStep == TypeInv /\ GhostInv /\ [Next]_vars => GhostInv'
  <1> SUFFICES ASSUME TypeInv, GhostInv, [Next]_vars PROVE GhostInv'  OBVIOUS
  <1>1. CASE TransportNext
    BY <1>1, GhostTransport DEF TransportNext, channelVars
  <1>2. CASE HandleEvent
    <2>1. ASSUME NEW kind \in {"connected", "noise"}, HandleLogged(kind)
          PROVE  GhostInv'
      BY <2>1, GhostTake DEF HandleLogged, channelVars
    <2>2. CASE HandleDisconnected
      BY <2>2, GhostRemove
    <2>3. ASSUME NEW S, Handling(S),
                 \A ch \in Channels : subscribers'[ch] \subseteq subscribers[ch] \cup {Sender}
          PROVE  GhostInv'
      BY <2>3, GhostTake DEF Handling, Sender
    <2>4. subscribers \in [Channels -> SUBSET Conns]
      BY DEF TypeInv, TypeOK, ChannelsTypeOK
    <2>5. CASE HandleSubscribe
      BY <2>3, <2>4, <2>5 DEF HandleSubscribe, Subscribe
    <2>6. CASE HandleUnsubscribe
      BY <2>3, <2>4, <2>6 DEF HandleUnsubscribe, Unsubscribe
    <2>7. CASE HandlePublish
      BY <2>3, <2>7 DEF HandlePublish, Publish, channelVars
    <2>8. CASE HandlePrompt \/ HandleRequest \/ HandleDisconnect \/ HandleOther
      BY <2>3, <2>8
      DEF HandlePrompt, HandleRequest, HandleDisconnect, HandleOther, channelVars
    <2> QED  BY <1>2, <2>1, <2>2, <2>5, <2>6, <2>7, <2>8 DEF HandleEvent
  <1>3. CASE AnswerRequest \/ Forward \/ Shutdown \/ UNCHANGED vars
    <2>1. UNCHANGED <<events, phase, subscribers>>
      BY <1>3 DEF AnswerRequest, Forward, Shutdown, vars, transportVars, channelVars
    <2> QED  BY <2>1, GhostCalm
  <1> QED  BY <1>1, <1>2, <1>3 DEF Next

\* No connection is a member of anything at the start.
LEMMA GhostInit == Init => GhostInv
  BY DEF Init, TransportInit, ChannelsInit, GhostInv, NoGhostSubscribers, LateIsTold

\* A connection that is gone is in no channel, or the event that will take it
\* out is queued, whatever messages of it are handled late.
THEOREM NoGhosts == Spec => []NoGhostSubscribers
  <1>1. GhostInv => NoGhostSubscribers  BY DEF GhostInv
  <1> QED  BY <1>1, TypeInit, TypeStep, GhostInit, GhostStep, PTL DEF Spec

-----------------------------------------------------------------------------
(* The limit on members.                                                   *)

\* Any step keeps the members of a channel, removes some, or adds one to a
\* channel that has room.
LEMMA LimitStep == TypeInv /\ MembersWithinLimit /\ [Next]_vars => MembersWithinLimit'
  <1> SUFFICES ASSUME TypeInv, MembersWithinLimit, [Next]_vars,
                      NEW ch \in Channels, Limit(ch) # None
               PROVE  Cardinality(subscribers'[ch]) <= Limit(ch)
    BY DEF MembersWithinLimit, Limit
  <1>0. /\ Limit(ch) \in Nat
        /\ IsFiniteSet(subscribers[ch]) /\ Cardinality(subscribers[ch]) <= Limit(ch)
        /\ subscribers \in [Channels -> SUBSET Conns]
    BY ChannelsAssumption
    DEF Limit, TypeInv, TypeOK, ChannelsTypeOK, FiniteMembers, MembersWithinLimit
  <1>1. CASE subscribers'[ch] \subseteq subscribers[ch]
    <2>1. /\ Cardinality(subscribers'[ch]) \in Nat /\ Cardinality(subscribers[ch]) \in Nat
          /\ Cardinality(subscribers'[ch]) <= Cardinality(subscribers[ch])
      BY <1>0, <1>1, FS_Subset, FS_CardinalityType
    <2> QED  BY <1>0, <2>1
  <1>2. CASE HandleSubscribe
    <2>1. subscribers' = IF IsFull(Channel) THEN subscribers
                         ELSE [subscribers EXCEPT ![Channel] = @ \cup {Sender}]
      BY <1>2 DEF HandleSubscribe, Subscribe
    <2>2. CASE IsFull(Channel) \/ Channel # ch
      BY <1>0, <1>1, <2>1, <2>2
    <2>3. CASE ~IsFull(Channel) /\ Channel = ch
      <3>1. subscribers'[ch] = subscribers[ch] \cup {Sender}  BY <1>0, <2>1, <2>3
      <3>2. ~(Cardinality(subscribers[ch]) >= Limit(ch))  BY <2>3 DEF IsFull
      <3>3. /\ Cardinality(subscribers[ch]) \in Nat
            /\ Cardinality(subscribers'[ch]) \in {Cardinality(subscribers[ch]),
                                                  Cardinality(subscribers[ch]) + 1}
        BY <1>0, <3>1, FS_AddElement, FS_CardinalityType
      <3> QED  BY <1>0, <3>2, <3>3
    <2> QED  BY <2>2, <2>3
  <1>3. CASE HandleEvent /\ ~HandleSubscribe
    <2>1. subscribers'[ch] \subseteq subscribers[ch]
      BY <1>0, <1>3
      DEF HandleEvent, HandleLogged, HandleDisconnected, RemoveConnection, HandleUnsubscribe,
          Unsubscribe, HandlePublish, Publish, HandlePrompt, HandleRequest, HandleDisconnect,
          HandleOther, channelVars
    <2> QED  BY <1>1, <2>1
  <1>4. CASE TransportNext \/ AnswerRequest \/ Forward \/ Shutdown \/ UNCHANGED vars
    <2>1. subscribers' = subscribers
      BY <1>4 DEF TransportNext, AnswerRequest, Forward, Shutdown, vars, channelVars
    <2> QED  BY <1>1, <2>1
  <1> QED  BY <1>2, <1>3, <1>4 DEF Next

\* No channel ever has more members than max_members allows, whatever the
\* clients subscribe to and however their connections come and go.
THEOREM LimitHolds == Spec => []MembersWithinLimit
  <1>1. Init => MembersWithinLimit
    BY ChannelsAssumption, FS_EmptySet DEF Init, ChannelsInit, MembersWithinLimit, Limit
  <1> QED  BY <1>1, TypeInit, TypeStep, LimitStep, PTL DEF Spec

-----------------------------------------------------------------------------
(* Nothing after the Close frame.                                          *)

HasClose(s) == \E i \in DOMAIN s : s[i].kind = "close"
CloseIsLast(s) == \A i \in DOMAIN s : s[i].kind = "close" => i = Len(s)

\* A Close frame ends the queue, or the wire, and then the queue is empty; a
\* connection that can still be sent to has none.
CloseInv ==
  \A c \in Conns :
      /\ CloseIsLast(wire[c]) /\ CloseIsLast(wq[c])
      /\ HasClose(wire[c]) => wq[c] = <<>>
      /\ Live(c) => ~HasClose(wire[c]) /\ ~HasClose(wq[c])
      /\ phase[c] \in {"idle", "accepted"} => wire[c] = <<>>
      /\ phase[c] = "idle" => wq[c] = <<>> /\ c \notin connections

\* Appending to a sequence without a Close frame.
LEMMA AppendClose ==
  ASSUME NEW s \in Seq(Frame), NEW f \in Frame, ~HasClose(s)
  PROVE  /\ CloseIsLast(Append(s, f))
         /\ f.kind # "close" => ~HasClose(Append(s, f))
  BY DEF HasClose, CloseIsLast

\* Taking the first frame off a queue keeps a Close frame the last one.
LEMMA TailClose ==
  ASSUME NEW s \in Seq(Frame), s # <<>>, CloseIsLast(s)
  PROVE  /\ CloseIsLast(Tail(s))
         /\ HasClose(Tail(s)) => HasClose(s)
         /\ Head(s).kind = "close" => Tail(s) = <<>>
         /\ Head(s).kind = "close" => HasClose(s)
  <1>1. /\ Len(s) \in Nat /\ Len(s) > 0 /\ DOMAIN s = 1..Len(s) /\ Head(s) = s[1]
        /\ Tail(s) \in Seq(Frame) /\ Len(Tail(s)) = Len(s) - 1
        /\ \A i \in DOMAIN Tail(s) : i + 1 \in DOMAIN s /\ Tail(s)[i] = s[i + 1]
    BY HeadTailProperties
  <1>2. Head(s).kind = "close" => Len(s) = 1  BY <1>1 DEF CloseIsLast
  <1>3. Len(Tail(s)) = 0 => Tail(s) = <<>>  BY <1>1, EmptySeq
  <1> QED  BY <1>1, <1>2, <1>3 DEF CloseIsLast, HasClose

\* Steps of one queue: a frame is enqueued for a live connection.
LEMMA CloseSend ==
  ASSUME TypeInv, CloseInv, NEW c \in Conns, NEW f \in Frame, f.kind # "close",
         wq' = Enqueue(c, f), UNCHANGED <<phase, wire, deaf>>, connections' = connections
  PROVE  CloseInv'
  <1>1. wq \in [Conns -> Seq(Frame)]  BY DEF TypeInv, TypeOK, TransportTypeOK
  <1>2. CASE ~Live(c)
    BY <1>2 DEF CloseInv, Enqueue, Live, HasClose, CloseIsLast
  <1>3. CASE Live(c)
    <2>1. /\ wq'[c] = Append(wq[c], f)
          /\ \A d \in Conns : d # c => wq'[d] = wq[d]
      BY <1>1, <1>3 DEF Enqueue
    <2>2. wq[c] \in Seq(Frame) /\ ~HasClose(wq[c]) /\ ~HasClose(wire[c])
      BY <1>1, <1>3 DEF CloseInv
    <2>3. CloseIsLast(wq'[c]) /\ ~HasClose(wq'[c])
      BY <2>1, <2>2, AppendClose
    <2>4. /\ \A d \in Conns : Live(d)' <=> Live(d)
          /\ c \in connections
      BY <1>3 DEF Live
    <2> QED  BY <2>1, <2>2, <2>3, <2>4 DEF CloseInv
  <1> QED  BY <1>2, <1>3

\* close() or shutdown(): a Close frame for every live connection in S, none of
\* which is live any more.
LEMMA CloseClose ==
  ASSUME TypeInv, CloseInv, NEW S, Close(S), UNCHANGED <<phase, wire, deaf>>
  PROVE  CloseInv'
  <1>1. wq \in [Conns -> Seq(Frame)]  BY DEF TypeInv, TypeOK, TransportTypeOK
  <1>2. CloseFrame \in Frame  BY DEF CloseFrame, NewFrame, Frame
  <1> SUFFICES ASSUME NEW c \in Conns
               PROVE  /\ CloseIsLast(wire[c]) /\ CloseIsLast(wq'[c])
                      /\ HasClose(wire[c]) => wq'[c] = <<>>
                      /\ Live(c)' => ~HasClose(wire[c]) /\ ~HasClose(wq'[c])
                      /\ phase[c] \in {"idle", "accepted"} => wire[c] = <<>>
                      /\ phase[c] = "idle" => wq'[c] = <<>> /\ c \notin connections'
    BY DEF CloseInv
  <1>3. CASE c \in S /\ Live(c)
    <2>1. wq'[c] = Append(wq[c], CloseFrame) /\ ~Live(c)'
      BY <1>3 DEF Close, Live
    <2>2. CloseIsLast(wq'[c])
      <3>1. wq[c] \in Seq(Frame) /\ ~HasClose(wq[c])  BY <1>1, <1>3 DEF CloseInv
      <3> QED  BY <1>2, <2>1, <3>1, AppendClose
    <2> QED  BY <1>3, <2>1, <2>2 DEF CloseInv, Live
  <1>4. CASE ~(c \in S /\ Live(c))
    BY <1>4 DEF CloseInv, Close, Live
  <1> QED  BY <1>3, <1>4

\* The steps of a connection's own tasks.
LEMMA CloseTransport ==
  ASSUME TypeInv, CloseInv, NEW c \in Conns, TransportStep(c)
  PROVE  CloseInv'
  <1>0. /\ phase \in [Conns -> Phases] /\ wq \in [Conns -> Seq(Frame)]
        /\ wire \in [Conns -> Seq(Frame)]
    BY DEF TypeInv, TypeOK, TransportTypeOK
  <1>a. HasClose(<<>>) = FALSE /\ CloseIsLast(<<>>)
    BY DEF HasClose, CloseIsLast
  <1>1. CASE Accept(c)
    <2>1. wire[c] = <<>> /\ wq[c] = <<>>  BY <1>1 DEF Accept, CloseInv
    <2>2. \A d \in Conns : d # c => phase'[d] = phase[d] /\ (Live(d)' <=> Live(d))
                                  /\ (d \in connections' <=> d \in connections)
      BY <1>0, <1>1 DEF Accept, Live
    <2>3. phase'[c] = "accepted" /\ UNCHANGED <<wire, wq>>
      BY <1>0, <1>1 DEF Accept
    <2> QED  BY <1>a, <2>1, <2>2, <2>3 DEF CloseInv
  <1>2. CASE Greet(c)
    <2> DEFINE hello == NewFrame("hello", "text", 0)
    <2>1. hello \in Frame /\ hello.kind = "hello"  BY DEF NewFrame, Frame
    <2>2. /\ wire'[c] = Append(wire[c], hello) /\ wire[c] \in Seq(Frame) /\ wire[c] = <<>>
          /\ \A d \in Conns : d # c => wire'[d] = wire[d] /\ phase'[d] = phase[d]
          /\ phase'[c] = "reading" /\ UNCHANGED <<connections, deaf, wq>>
      BY <1>0, <1>2 DEF Greet, CloseInv
    <2>3. CloseIsLast(wire'[c]) /\ ~HasClose(wire'[c])
      <3> HIDE DEF hello
      <3> QED  BY <1>a, <2>1, <2>2, AppendClose
    <2> QED  BY <2>2, <2>3 DEF CloseInv, Live
  <1>3. ASSUME NEW kind, NEW ch, NEW enc, ReadMessage(c, kind, ch, enc)
        PROVE  CloseInv'
    BY <1>3 DEF ReadMessage, NextFrame, CloseInv, Live
  <1>4. ASSUME NEW framed, ReadNoise(c, framed)
        PROVE  CloseInv'
    BY <1>4 DEF ReadNoise, NextFrame, CloseInv, Live
  <1>5. CASE ReadPing(c)
    <2>1. NewFrame("pong", "binary", 0) \in Frame /\ NewFrame("pong", "binary", 0).kind # "close"
      BY DEF NewFrame, Frame
    <2>2. wq' = Enqueue(c, NewFrame("pong", "binary", 0)) /\ UNCHANGED <<phase, wire, deaf, connections>>
      BY <1>5 DEF ReadPing, NextFrame
    <2> QED  BY <2>1, <2>2, CloseSend
  <1>6. CASE PingTick(c)
    <2>1. NewFrame("ping", "control", 0) \in Frame /\ NewFrame("ping", "control", 0).kind # "close"
      BY DEF NewFrame, Frame
    <2>2. wq' = Enqueue(c, NewFrame("ping", "control", 0)) /\ UNCHANGED <<phase, wire, deaf, connections>>
      BY <1>6 DEF PingTick
    <2> QED  BY <2>1, <2>2, CloseSend
  <1>7. CASE WriteFrame(c)
    <2> DEFINE f == Head(wq[c])
    <2>1. /\ wire'[c] = Append(wire[c], f) /\ wq'[c] = Tail(wq[c])
          /\ \A d \in Conns : d # c => wire'[d] = wire[d] /\ wq'[d] = wq[d]
          /\ UNCHANGED <<phase, connections, deaf>> /\ phase[c] = "reading"
          /\ wq[c] # <<>> /\ wq[c] \in Seq(Frame) /\ wire[c] \in Seq(Frame)
      BY <1>0, <1>7 DEF WriteFrame
    <2>2. f \in Frame  BY <2>1, HeadTailProperties
    <2>3. CloseIsLast(wq[c]) /\ ~HasClose(wire[c])  BY <2>1 DEF CloseInv
    <2>4. /\ CloseIsLast(wire'[c])
          /\ f.kind # "close" => ~HasClose(wire'[c])
      <3> HIDE DEF f
      <3> QED  BY <2>1, <2>2, <2>3, AppendClose
    <2>5. /\ CloseIsLast(wq'[c])
          /\ HasClose(wq'[c]) => HasClose(wq[c])
          /\ f.kind = "close" => wq'[c] = <<>> /\ HasClose(wq[c])
      BY <2>1, <2>3, TailClose
    <2>6. \A d \in Conns : Live(d)' <=> Live(d)  BY <2>1 DEF Live
    <2> HIDE DEF f
    <2> QED  BY <2>1, <2>3, <2>4, <2>5, <2>6 DEF CloseInv
  <1>8. CASE WriteFails(c) \/ EndRead(c)
    <2>1. /\ wq'[c] = <<>> /\ ~Live(c)' /\ phase[c] = "reading"
          /\ phase'[c] \in {"reading", "ended"}
          /\ \A d \in Conns : d # c => wq'[d] = wq[d] /\ phase'[d] = phase[d] /\ (Live(d)' <=> Live(d))
          /\ UNCHANGED <<connections, wire>>
      BY <1>0, <1>8 DEF WriteFails, EndRead, Live
    <2> QED  BY <1>a, <2>1 DEF CloseInv
  <1>9. CASE Cleanup(c)
    <2>1. /\ phase'[c] = "closed" /\ ~Live(c)'
          /\ \A d \in Conns : d # c => phase'[d] = phase[d] /\ (Live(d)' <=> Live(d))
                                      /\ (d \in connections' <=> d \in connections)
          /\ UNCHANGED <<wq, wire>>
      BY <1>0, <1>9 DEF Cleanup, Live
    <2> QED  BY <2>1 DEF CloseInv
  <1> QED
    BY <1>1, <1>2, <1>3, <1>4, <1>5, <1>6, <1>7, <1>8, <1>9 DEF TransportStep, Reads

\* What send() queues is no Close frame.
LEMMA CloseSent ==
  ASSUME TypeInv, CloseInv, NEW c \in Conns, NEW id \in Nat,
         NEW kind \in {"reply", "channel", "error"},
         wq' = Send(c, kind, id), UNCHANGED <<phase, wire, deaf, connections>>
  PROVE  CloseInv'
  <1> DEFINE f == NewFrame(kind, IF c \in binary THEN "binary" ELSE "text", id)
  <1>1. f \in Frame /\ f.kind # "close"  BY DEF NewFrame, Frame
  <1>2. wq' = Enqueue(c, f)  BY DEF Send
  <1> HIDE DEF f
  <1> QED  BY <1>1, <1>2, CloseSend

\* CloseInv is inductive: after close() removed the sender no task reaches the
\* connection's queue again.
LEMMA CloseStep == TypeInv /\ CloseInv /\ [Next]_vars => CloseInv'
  <1> SUFFICES ASSUME TypeInv, CloseInv, [Next]_vars PROVE CloseInv'  OBVIOUS
  <1>0. /\ log \in Seq(Message) /\ Len(log) \in Nat /\ awaiting \in 0..Len(log)
        /\ fwdQ \in Seq([to: Conns, id: Nat])
    BY DEF TypeInv, TypeOK, TransportTypeOK, ChannelsTypeOK
  <1>1. CASE TransportNext
    BY <1>1, CloseTransport DEF TransportNext
  <1>2. ASSUME UNCHANGED <<phase, connections, deaf, wq, wire>>
        PROVE  CloseInv'
    BY <1>2 DEF CloseInv, Live
  <1>3. CASE HandleEvent
    <2>1. ASSUME NEW kind, HandleLogged(kind) PROVE CloseInv'
      BY <1>2, <2>1 DEF HandleLogged
    <2>2. CASE HandleDisconnected
      BY <1>2, <2>2 DEF HandleDisconnected
    <2>3. ASSUME NEW S, Handling(S)
          PROVE  /\ Sender \in Conns /\ MsgId \in Nat
                 /\ UNCHANGED <<phase, deaf, wire>>
      <3>1. Taking("message") /\ log' = log  BY <2>3 DEF Handling
      <3>2. Head(events) \in Event  BY <3>1, TakingKnown
      <3> QED  BY <2>3, <3>2 DEF Handling, Sender, MsgId, Event
    <2>4. ASSUME NEW S, Handling(S), connections' = connections,
                 \/ wq' = wq
                 \/ wq' = Send(Sender, "reply", MsgId)
                 \/ wq' = Send(Sender, "error", 0)
          PROVE  CloseInv'
      BY <1>2, <2>3, <2>4, CloseSent
    <2>5. CASE HandleSubscribe  BY <2>4, <2>5 DEF HandleSubscribe
    <2>6. CASE HandleUnsubscribe  BY <2>4, <2>6 DEF HandleUnsubscribe
    <2>7. CASE HandlePublish  BY <2>4, <2>7 DEF HandlePublish
    <2>8. CASE HandlePrompt \/ HandleRequest \/ HandleOther
      BY <2>4, <2>8 DEF HandlePrompt, HandleRequest, HandleOther
    <2>9. CASE HandleDisconnect
      BY <2>3, <2>9, CloseClose DEF HandleDisconnect
    <2> QED  BY <1>3, <2>1, <2>2, <2>5, <2>6, <2>7, <2>8, <2>9 DEF HandleEvent
  <1>4. CASE AnswerRequest
    <2>1. awaiting \in 1..Len(log)  BY <1>0, <1>4 DEF AnswerRequest
    <2>2. log[awaiting] \in Message  BY <1>0, <2>1
    <2>3. log[awaiting].conn \in Conns /\ awaiting \in Nat  BY <2>1, <2>2 DEF Message
    <2> QED  BY <1>4, <2>3, CloseSent DEF AnswerRequest
  <1>5. CASE Forward
    <2> DEFINE Pair == [to: Conns, id: Nat]
    <2>1. Head(fwdQ) \in Pair
      <3>1. fwdQ \in Seq(Pair) /\ fwdQ # <<>>  BY <1>0, <1>5 DEF Forward
      <3> HIDE DEF Pair
      <3> QED  BY <3>1, HeadTailProperties
    <2> QED  BY <1>5, <2>1, CloseSent DEF Forward
  <1>6. CASE Shutdown
    BY <1>6, CloseClose DEF Shutdown
  <1>7. CASE UNCHANGED vars
    BY <1>2, <1>7 DEF vars, transportVars
  <1> QED  BY <1>1, <1>3, <1>4, <1>5, <1>6, <1>7 DEF Next

\* Nothing is queued or written at the start.
LEMMA CloseInit == Init => CloseInv
  <1>1. ~HasClose(<<>>) /\ CloseIsLast(<<>>)
    BY DEF HasClose, CloseIsLast
  <1>2. ASSUME Init, NEW c \in Conns
        PROVE  wire[c] = <<>> /\ wq[c] = <<>> /\ ~Live(c) /\ c \notin connections
    BY <1>2 DEF Init, TransportInit, Live
  <1> QED  BY <1>1, <1>2 DEF CloseInv

\* Seen from the client: the queue continues the wire.
LEMMA ConcatClose ==
  ASSUME NEW s \in Seq(Frame), NEW t \in Seq(Frame),
         CloseIsLast(s), CloseIsLast(t), HasClose(s) => t = <<>>
  PROVE  CloseIsLast(s \o t)
  <1> SUFFICES ASSUME NEW i \in DOMAIN (s \o t), (s \o t)[i].kind = "close"
               PROVE  i = Len(s \o t)
    BY DEF CloseIsLast
  <1>1. /\ Len(s \o t) = Len(s) + Len(t) /\ i \in 1..Len(s \o t)
        /\ Len(s) \in Nat /\ Len(t) \in Nat /\ i \in Int
        /\ DOMAIN s = 1..Len(s) /\ DOMAIN t = 1..Len(t)
        /\ (s \o t)[i] = IF i <= Len(s) THEN s[i] ELSE t[i - Len(s)]
    OBVIOUS
  <1>2. CASE i <= Len(s)
    <2>1. s[i].kind = "close" /\ i \in DOMAIN s  BY <1>1, <1>2
    <2>2. i = Len(s) /\ Len(t) = 0  BY <2>1 DEF CloseIsLast, HasClose
    <2> QED  BY <1>1, <2>2
  <1>3. CASE ~(i <= Len(s))
    <2>1. t[i - Len(s)].kind = "close" /\ i - Len(s) \in DOMAIN t  BY <1>1, <1>3
    <2>2. i - Len(s) = Len(t)  BY <2>1 DEF CloseIsLast
    <2> QED  BY <1>1, <2>2
  <1> QED  BY <1>2, <1>3

\* Whatever the forwarder, the ping task and late handlers still send, a client
\* gets nothing after the Close frame.
THEOREM CloseEndsTheStream == Spec => []NothingAfterClose
  <1>1. ASSUME TypeInv, CloseInv PROVE NothingAfterClose
    <2> SUFFICES ASSUME NEW c \in Conns PROVE CloseIsLast(Outgoing(c))
      BY DEF NothingAfterClose, CloseIsLast
    <2>1. wire[c] \in Seq(Frame) /\ wq[c] \in Seq(Frame)
      BY <1>1 DEF TypeInv, TypeOK, TransportTypeOK
    <2>2. /\ CloseIsLast(wire[c]) /\ CloseIsLast(wq[c])
          /\ HasClose(wire[c]) => wq[c] = <<>>
      BY <1>1 DEF CloseInv
    <2> QED  BY <2>1, <2>2, ConcatClose DEF Outgoing
  <1> QED  BY <1>1, TypeInit, TypeStep, CloseInit, CloseStep, PTL DEF Spec

-----------------------------------------------------------------------------
(* The event queue.                                                        *)

\* Messages are queued in the order of their numbers, with no gap up to the
\* latest: the loop takes each of them once, in the order they were read.
QueueInv ==
  /\ \A j, k \in DOMAIN events :
        events[j].kind = "message" /\ events[k].kind = "message" /\ j < k =>
            events[j].id < events[k].id
  /\ \A q \in Queued, i \in DOMAIN log : q <= i => i \in Queued

\* The log only grows.
LogGrows ==
  /\ \A i \in DOMAIN log : i \in DOMAIN log' /\ log'[i] = log[i]
  /\ Len(log) <= Len(log')

\* What is queued was read.
LEMMA QueuedKnown ==
  ASSUME TypeInv
  PROVE  Queued \subseteq DOMAIN log /\ Handled \subseteq DOMAIN log /\ DOMAIN log = 1..Len(log)
         /\ Len(log) \in Nat
  <1>1. log \in Seq(Message)  BY DEF TypeInv, TypeOK, TransportTypeOK
  <1> QED  BY <1>1 DEF TypeInv, EventsKnown, Queued, Handled

\* A step that neither posts nor takes an event.
LEMMA QueueCalm ==
  ASSUME QueueInv, UNCHANGED <<events, log>>
  PROVE  QueueInv' /\ Handled' = Handled /\ (TypeInv => LogGrows)
  <1>1. TypeInv => Len(log) \in Nat  BY QueuedKnown
  <1>2. Queued' = Queued  BY DEF Queued
  <1> QED  BY <1>1, <1>2 DEF QueueInv, Handled, LogGrows

\* A task posts an event; a message has the number the log gives it.
LEMMA QueuePost ==
  ASSUME TypeInv, QueueInv, NEW c \in Conns, NEW id \in Nat,
         NEW kind \in {"connected", "message", "noise", "disconnected"},
         PostEvent(kind, c, id),
         \/ kind # "message" /\ log' = log
         \/ \E m \in Message : log' = Append(log, m) /\ kind = "message" /\ id = Len(log) + 1
  PROVE  QueueInv' /\ Handled' = Handled /\ LogGrows
  <1> DEFINE e == [kind |-> kind, conn |-> c, id |-> id]
             n == Len(events) + 1
  <1>1. events \in Seq(Event) /\ log \in Seq(Message) /\ events' = Append(events, e)
    BY DEF TypeInv, TypeOK, TransportTypeOK, PostEvent
  <1>2. /\ \A i \in DOMAIN events : i \in DOMAIN events' /\ events'[i] = events[i] /\ i < n
        /\ n \in DOMAIN events' /\ events'[n] = e
        /\ \A i \in DOMAIN events' : i \in DOMAIN events \/ i = n
        /\ n \notin DOMAIN events /\ DOMAIN events' \subseteq Int
    <2> HIDE DEF e
    <2> QED  BY <1>1
  <1>3. /\ e.kind = kind /\ e.id = id
        /\ Queued' = Queued \cup IF kind = "message" THEN {id} ELSE {}
    BY <1>2 DEF Queued
  <1>4. Queued \subseteq DOMAIN log /\ DOMAIN log = 1..Len(log) /\ Len(log) \in Nat
    BY QueuedKnown
  <1> HIDE DEF e, n
  <1>5. CASE kind # "message" /\ log' = log
    <2>1. \A i \in DOMAIN events' : events'[i].kind = "message" =>
             i \in DOMAIN events /\ events'[i] = events[i]
      BY <1>2, <1>3, <1>5
    <2>2. Queued' = Queued  BY <1>3, <1>5
    <2>3. QueueInv'
      <3>1. \A j, k \in DOMAIN events' :
               events'[j].kind = "message" /\ events'[k].kind = "message" /\ j < k =>
                   events'[j].id < events'[k].id
        BY <2>1 DEF QueueInv
      <3>2. \A q \in Queued', i \in DOMAIN log' : q <= i => i \in Queued'
        BY <1>5, <2>2 DEF QueueInv
      <3> QED  BY <3>1, <3>2 DEF QueueInv
    <2>4. Handled' = Handled  BY <1>5, <2>2 DEF Handled
    <2>5. LogGrows
      <3>1. Len(log) \in Nat  BY <1>4
      <3> QED  BY <1>5, <3>1 DEF LogGrows
    <2> QED  BY <2>3, <2>4, <2>5
  <1>6. ASSUME NEW m \in Message, log' = Append(log, m), kind = "message", id = Len(log) + 1
        PROVE  QueueInv' /\ Handled' = Handled /\ LogGrows
    <2>1. /\ DOMAIN log' = DOMAIN log \cup {id} /\ id \notin DOMAIN log
          /\ \A i \in DOMAIN log : log'[i] = log[i] /\ i < id
          /\ Len(log') = Len(log) + 1 /\ DOMAIN log \subseteq Int
      BY <1>1, <1>4, <1>6
    <2>2. \A i \in DOMAIN events : events[i].kind = "message" => events[i].id < id
      BY <1>4, <2>1 DEF Queued
    <2>3. \A j, k \in DOMAIN events' :
             events'[j].kind = "message" /\ events'[k].kind = "message" /\ j < k =>
                 events'[j].id < events'[k].id
      <3> SUFFICES ASSUME NEW j \in DOMAIN events', NEW k \in DOMAIN events',
                          events'[j].kind = "message", events'[k].kind = "message", j < k
                   PROVE  events'[j].id < events'[k].id
        OBVIOUS
      <3>1. j \in DOMAIN events
        <4>1. k \in DOMAIN events => k < n  BY <1>2
        <4>2. n \in Int /\ j \in Int /\ k \in Int  BY <1>2
        <4> QED  BY <1>2, <4>1, <4>2
      <3>2. CASE k \in DOMAIN events  BY <1>2, <3>1, <3>2 DEF QueueInv
      <3>3. CASE k = n  BY <1>2, <1>3, <2>2, <3>1, <3>3
      <3> QED  BY <1>2, <3>2, <3>3
    <2>4. \A q \in Queued', i \in DOMAIN log' : q <= i => i \in Queued'
      <3> SUFFICES ASSUME NEW q \in Queued', NEW i \in DOMAIN log', q <= i, i # id
                   PROVE  i \in Queued
        BY <1>3, <1>6
      <3>1. i \in DOMAIN log /\ i < id  BY <2>1
      <3>2. q # id  BY <1>4, <1>6, <3>1
      <3> QED  BY <1>3, <3>1, <3>2 DEF QueueInv
    <2>5. Handled' = Handled  BY <1>3, <1>6, <2>1 DEF Handled
    <2> QED  BY <1>4, <2>1, <2>3, <2>4, <2>5 DEF QueueInv, LogGrows
  <1> QED  BY <1>5, <1>6

\* The loop takes an event: a message is the oldest of those it has not taken.
LEMMA QueueTake ==
  ASSUME TypeInv, QueueInv, NEW kind, Taking(kind), log' = log
  PROVE  /\ QueueInv' /\ LogGrows
         /\ kind # "message" => Handled' = Handled
         /\ kind = "message" => /\ MsgId \in DOMAIN log
                                /\ Handled = 1..(MsgId - 1)
                                /\ Handled' = 1..MsgId
  <1>1. events \in Seq(Event) /\ events # <<>> /\ events' = Tail(events) /\ Head(events).kind = kind
    BY DEF TypeInv, TypeOK, TransportTypeOK, Taking
  <1>2. /\ 1 \in DOMAIN events /\ Head(events) = events[1]
        /\ \A i \in DOMAIN events' : i + 1 \in DOMAIN events /\ events'[i] = events[i + 1]
        /\ \A j \in DOMAIN events : j = 1 \/ (j - 1 \in DOMAIN events' /\ events'[j - 1] = events[j] /\ j > 1)
        /\ DOMAIN events \subseteq Int /\ DOMAIN events' \subseteq Int
        /\ \A i \in DOMAIN events' : i > 0
    BY <1>1
  <1>3. Queued \subseteq DOMAIN log /\ DOMAIN log = 1..Len(log) /\ Len(log) \in Nat
    BY QueuedKnown
  <1>4. \A j, k \in DOMAIN events' :
           events'[j].kind = "message" /\ events'[k].kind = "message" /\ j < k =>
               events'[j].id < events'[k].id
    BY <1>2 DEF QueueInv
  <1>5. CASE kind # "message"
    <2>1. Queued' = Queued
      <3>1. \A q \in Queued' : q \in Queued  BY <1>2 DEF Queued
      <3>2. \A q \in Queued : q \in Queued'
        <4> SUFFICES ASSUME NEW j \in DOMAIN events, events[j].kind = "message"
                     PROVE  events[j].id \in Queued'
          BY DEF Queued
        <4>1. j - 1 \in DOMAIN events' /\ events'[j - 1] = events[j]  BY <1>1, <1>2, <1>5
        <4> QED  BY <4>1 DEF Queued
      <3> QED  BY <3>1, <3>2
    <2> QED  BY <1>3, <1>4, <1>5, <2>1 DEF QueueInv, Handled, LogGrows
  <1>6. CASE kind = "message"
    <2>1. MsgId \in Queued /\ MsgId \in DOMAIN log /\ MsgId \in Int
      BY <1>1, <1>2, <1>3, <1>6 DEF MsgId, Queued
    <2>2. \A j \in DOMAIN events : events[j].kind = "message" => j = 1 \/ MsgId < events[j].id
      BY <1>1, <1>2, <1>6 DEF MsgId, QueueInv
    <2>3. Queued' = Queued \ {MsgId}
      <3>1. \A q \in Queued' : q \in Queued /\ q # MsgId
        <4> SUFFICES ASSUME NEW i \in DOMAIN events', events'[i].kind = "message"
                     PROVE  events'[i].id \in Queued /\ events'[i].id # MsgId
          BY DEF Queued
        <4>1. i + 1 \in DOMAIN events /\ events'[i] = events[i + 1] /\ i + 1 # 1  BY <1>2
        <4>2. events[i + 1].id \in Queued  BY <4>1 DEF Queued
        <4> QED  BY <1>3, <2>1, <2>2, <4>1, <4>2
      <3>2. \A q \in Queued : q # MsgId => q \in Queued'
        <4> SUFFICES ASSUME NEW j \in DOMAIN events, events[j].kind = "message", events[j].id # MsgId
                     PROVE  events[j].id \in Queued'
          BY DEF Queued
        <4>1. j # 1  BY <1>2 DEF MsgId
        <4>2. j - 1 \in DOMAIN events' /\ events'[j - 1] = events[j]  BY <1>2, <4>1
        <4> QED  BY <4>2 DEF Queued
      <3> QED  BY <3>1, <3>2
    <2>4. \A q \in Queued : q = MsgId \/ MsgId < q
      <3> SUFFICES ASSUME NEW j \in DOMAIN events, events[j].kind = "message"
                   PROVE  events[j].id = MsgId \/ MsgId < events[j].id
        BY DEF Queued
      <3> QED  BY <1>2, <2>2 DEF MsgId
    <2>5. \A i \in DOMAIN log : i \in Queued <=> MsgId <= i
      BY <1>3, <2>1, <2>4 DEF QueueInv
    <2>6. Handled = 1..(MsgId - 1)  BY <1>3, <2>1, <2>5 DEF Handled
    <2>7. Handled' = 1..MsgId  BY <1>3, <2>1, <2>3, <2>5 DEF Handled
    <2>8. \A q \in Queued', i \in DOMAIN log' : q <= i => i \in Queued'
      BY <1>3, <2>1, <2>3, <2>4, <2>5
    <2> QED  BY <1>3, <1>4, <1>6, <2>1, <2>6, <2>7, <2>8 DEF QueueInv, LogGrows
  <1> QED  BY <1>5, <1>6

-----------------------------------------------------------------------------
(* Where a connection is.                                                  *)

UsedBinary(L, c) == \E i \in DOMAIN L : L[i].conn = c /\ L[i].enc = "binary"

\* Nothing is read of a connection before it is greeted, its receiver goes before
\* its cleanup, which tells the loop, and who has used the binary framing is
\* known for it as long as it can be sent to.
PlaceInv ==
  /\ \A c \in Conns : /\ c \in deaf => phase[c] \in {"reading", "ended", "closed"}
                      /\ phase[c] \in {"ended", "closed"} => c \in deaf
  /\ \A i \in DOMAIN log : phase[log[i].conn] \notin {"idle", "accepted"}
  /\ \A i \in DOMAIN events :
        events[i].kind = "disconnected" => phase[events[i].conn] = "closed"
  /\ \A c \in Conns : Live(c) /\ UsedBinary(log, c) => c \in binary

\* The sender of a message, and the connection of an event, is a connection.
LEMMA KnownConns ==
  ASSUME TypeInv
  PROVE  /\ \A i \in DOMAIN log : log[i] \in Message /\ log[i].conn \in Conns
         /\ \A i \in DOMAIN events : events[i].conn \in Conns
  <1>1. \A i \in DOMAIN log : log[i] \in Message
    BY DEF TypeInv, TypeOK, TransportTypeOK
  <1> QED  BY <1>1, EventConn DEF Message

\* Steps that leave the log alone and post no disconnection.
LEMMA PlaceCalm ==
  ASSUME TypeInv, PlaceInv, log' = log, binary \subseteq binary',
         \A c \in Conns : /\ phase'[c] = phase[c]
                          /\ c \in deaf' => c \in deaf \/ phase[c] = "reading"
                          /\ c \in deaf => c \in deaf'
                          /\ Live(c)' => Live(c),
         \A i \in DOMAIN events' : \/ events'[i].kind # "disconnected"
                                   \/ \E j \in DOMAIN events : events'[i] = events[j]
  PROVE  PlaceInv'
  <1>1. \A i \in DOMAIN log : log[i].conn \in Conns  BY KnownConns
  <1>2. \A i \in DOMAIN events : events[i].conn \in Conns  BY KnownConns
  <1>3. \A c \in Conns : /\ c \in deaf' => phase'[c] \in {"reading", "ended", "closed"}
                         /\ phase'[c] \in {"ended", "closed"} => c \in deaf'
    BY DEF PlaceInv
  <1>4. \A i \in DOMAIN events' :
           events'[i].kind = "disconnected" => phase'[events'[i].conn] = "closed"
    BY <1>2 DEF PlaceInv
  <1>5. \A i \in DOMAIN log : phase'[log[i].conn] \notin {"idle", "accepted"}
    BY <1>1 DEF PlaceInv
  <1>6. \A c \in Conns : Live(c)' /\ UsedBinary(log, c) => c \in binary'
    BY DEF PlaceInv
  <1> QED  BY <1>3, <1>4, <1>5, <1>6 DEF PlaceInv

\* The events after a task has posted one.
LEMMA PostedEvents ==
  ASSUME TypeInv, NEW c, NEW id, NEW kind, PostEvent(kind, c, id)
  PROVE  \A i \in DOMAIN events' :
            \/ events'[i].kind = kind /\ events'[i].conn = c
            \/ \E j \in DOMAIN events : events'[i] = events[j]
  <1> DEFINE e == [kind |-> kind, conn |-> c, id |-> id]
  <1>1. events \in Seq(Event) /\ events' = Append(events, e)
    BY DEF TypeInv, TypeOK, TransportTypeOK, PostEvent
  <1>2. e.kind = kind /\ e.conn = c  OBVIOUS
  <1> HIDE DEF e
  <1>3. \A i \in DOMAIN events' : events'[i] = e \/ (i \in DOMAIN events /\ events'[i] = events[i])
    BY <1>1
  <1> QED  BY <1>2, <1>3

\* The events after the loop has taken one.
LEMMA TakenEvents ==
  ASSUME TypeInv, NEW kind, Taking(kind)
  PROVE  \A i \in DOMAIN events' : \E j \in DOMAIN events : events'[i] = events[j]
  <1>1. events \in Seq(Event) /\ events # <<>> /\ events' = Tail(events)
    BY DEF TypeInv, TypeOK, TransportTypeOK, Taking
  <1>2. \A i \in DOMAIN events' : i + 1 \in DOMAIN events /\ events'[i] = events[i + 1]
    BY <1>1
  <1> QED  BY <1>2

\* A step of a connection's own tasks.
LEMMA PlaceTransport ==
  ASSUME TypeInv, CloseInv, PlaceInv, NEW c \in Conns, TransportStep(c)
  PROVE  PlaceInv'
  <1>0. /\ phase \in [Conns -> Phases] /\ log \in Seq(Message)
        /\ \A i \in DOMAIN log : log[i].conn \in Conns
        /\ \A i \in DOMAIN events : events[i].conn \in Conns
    BY KnownConns DEF TypeInv, TypeOK, TransportTypeOK
  <1>1. CASE Accept(c)
    <2>1. /\ PostEvent("connected", c, 0) /\ UNCHANGED <<deaf, binary, log>>
          /\ \A d \in Conns : phase'[d] = IF d = c THEN "accepted" ELSE phase[d]
          /\ \A d \in Conns : d # c => (Live(d)' <=> Live(d))
          /\ phase[c] = "idle"
      BY <1>0, <1>1 DEF Accept, Live
    <2>2. \A i \in DOMAIN log : log[i].conn # c  BY <2>1 DEF PlaceInv
    <2>3. \A i \in DOMAIN events' : events'[i].kind = "disconnected" =>
             \E j \in DOMAIN events : events'[i] = events[j]
      BY <2>1, PostedEvents
    <2>4. \A i \in DOMAIN events' :
             events'[i].kind = "disconnected" => phase'[events'[i].conn] = "closed"
      BY <1>0, <2>1, <2>3 DEF PlaceInv
    <2>5. \A d \in Conns : /\ d \in deaf' => phase'[d] \in {"reading", "ended", "closed"}
                           /\ phase'[d] \in {"ended", "closed"} => d \in deaf'
      BY <2>1 DEF PlaceInv
    <2>6. \A d \in Conns : Live(d)' /\ UsedBinary(log, d) => d \in binary'
      BY <2>1, <2>2 DEF PlaceInv, UsedBinary
    <2> QED  BY <1>0, <2>1, <2>2, <2>4, <2>5, <2>6 DEF PlaceInv
  <1>2. CASE Greet(c)
    <2>1. /\ UNCHANGED <<deaf, binary, log, events, connections>>
          /\ \A d \in Conns : phase'[d] = IF d = c THEN "reading" ELSE phase[d]
          /\ \A d \in Conns : Live(d)' <=> Live(d)
          /\ phase[c] = "accepted"
      BY <1>0, <1>2 DEF Greet, Live
    <2>2. \A d \in Conns : phase[d] \in {"ended", "closed"} => phase'[d] = phase[d]
      BY <2>1
    <2> QED  BY <1>0, <2>1, <2>2 DEF PlaceInv
  <1>3. ASSUME NEW kind \in Kinds \cap MessageKinds, NEW ch \in Channels,
               NEW enc \in Encodings, ReadMessage(c, kind, ch, enc)
        PROVE  PlaceInv'
    <2> DEFINE m == [conn |-> c, kind |-> kind, ch |-> ch, enc |-> enc]
    <2>1. /\ log' = Append(log, m) /\ PostEvent("message", c, Len(log) + 1)
          /\ UNCHANGED <<phase, deaf, connections>> /\ phase[c] = "reading"
          /\ binary' = IF enc = "binary" THEN binary \cup {c} ELSE binary
          /\ \A d \in Conns : Live(d)' <=> Live(d)
      BY <1>3 DEF ReadMessage, NextFrame, Live
    <2>2. m.conn = c /\ m.enc = enc  OBVIOUS
    <2> HIDE DEF m
    <2>3. \A i \in DOMAIN log' : log'[i] = m \/ (i \in DOMAIN log /\ log'[i] = log[i])
      BY <1>0, <2>1
    <2>4. \A i \in DOMAIN events' : events'[i].kind = "disconnected" =>
             \E j \in DOMAIN events : events'[i] = events[j]
      BY <2>1, PostedEvents
    <2>5. \A i \in DOMAIN log' : phase'[log'[i].conn] \notin {"idle", "accepted"}
      BY <2>1, <2>2, <2>3 DEF PlaceInv
    <2>6. \A d \in Conns : Live(d)' /\ UsedBinary(log', d) => d \in binary'
      <3>1. \A d \in Conns : UsedBinary(log', d) => UsedBinary(log, d) \/ (d = c /\ enc = "binary")
        BY <2>2, <2>3 DEF UsedBinary
      <3> QED  BY <2>1, <3>1 DEF PlaceInv
    <2>7. \A d \in Conns : /\ d \in deaf' => phase'[d] \in {"reading", "ended", "closed"}
                           /\ phase'[d] \in {"ended", "closed"} => d \in deaf'
      BY <2>1 DEF PlaceInv
    <2>8. \A i \in DOMAIN events' :
             events'[i].kind = "disconnected" => phase'[events'[i].conn] = "closed"
      BY <1>0, <2>1, <2>4 DEF PlaceInv
    <2> QED  BY <2>5, <2>6, <2>7, <2>8 DEF PlaceInv
  <1>4. ASSUME NEW framed \in BOOLEAN, ReadNoise(c, framed)
        PROVE  PlaceInv'
    <2>1. /\ PostEvent("noise", c, 0) /\ UNCHANGED <<phase, deaf, connections, log>>
          /\ binary \subseteq binary' /\ \A d \in Conns : Live(d)' <=> Live(d)
      BY <1>4 DEF ReadNoise, NextFrame, Live
    <2>2. \A i \in DOMAIN events' : \/ events'[i].kind # "disconnected"
                                    \/ \E j \in DOMAIN events : events'[i] = events[j]
      BY <2>1, PostedEvents
    <2> QED  BY <2>1, <2>2, PlaceCalm
  <1>5. CASE ReadPing(c) \/ PingTick(c) \/ WriteFrame(c)
    <2>1. /\ UNCHANGED <<phase, deaf, connections, log, binary, events>>
          /\ \A d \in Conns : Live(d)' <=> Live(d)
      BY <1>5 DEF ReadPing, NextFrame, PingTick, WriteFrame, Live
    <2> QED  BY <2>1, PlaceCalm
  <1>6. CASE WriteFails(c)
    <2>1. /\ UNCHANGED <<phase, connections, log, binary, events>>
          /\ deaf' = deaf \cup {c} /\ phase[c] = "reading"
          /\ \A d \in Conns : Live(d)' => Live(d)
      BY <1>6 DEF WriteFails, Live
    <2> QED  BY <2>1, PlaceCalm
  <1>7. CASE EndRead(c)
    <2>1. /\ UNCHANGED <<connections, log, binary, events>>
          /\ deaf' = deaf \cup {c} /\ phase[c] = "reading"
          /\ \A d \in Conns : phase'[d] = IF d = c THEN "ended" ELSE phase[d]
          /\ \A d \in Conns : Live(d)' => Live(d)
      BY <1>0, <1>7 DEF EndRead, Live
    <2> QED  BY <1>0, <2>1 DEF PlaceInv
  <1>8. CASE Cleanup(c)
    <2>1. /\ UNCHANGED <<deaf, log>> /\ PostEvent("disconnected", c, 0)
          /\ binary' = binary \ {c} /\ phase[c] = "ended"
          /\ \A d \in Conns : phase'[d] = IF d = c THEN "closed" ELSE phase[d]
          /\ \A d \in Conns : Live(d)' => Live(d) /\ d # c
      BY <1>0, <1>8 DEF Cleanup, Live
    <2>2. \A i \in DOMAIN events' : events'[i].kind = "disconnected" =>
             phase'[events'[i].conn] = "closed"
      BY <1>0, <2>1, PostedEvents DEF PlaceInv
    <2>3. \A i \in DOMAIN log : phase'[log[i].conn] \notin {"idle", "accepted"}
      BY <1>0, <2>1 DEF PlaceInv
    <2>4. \A d \in Conns : Live(d)' /\ UsedBinary(log, d) => d \in binary'
      BY <2>1 DEF PlaceInv
    <2>5. \A d \in Conns : /\ d \in deaf' => phase'[d] \in {"reading", "ended", "closed"}
                           /\ phase'[d] \in {"ended", "closed"} => d \in deaf'
      BY <2>1 DEF PlaceInv
    <2> QED  BY <2>1, <2>2, <2>3, <2>4, <2>5 DEF PlaceInv
  <1> QED
    BY <1>1, <1>2, <1>3, <1>4, <1>5, <1>6, <1>7, <1>8 DEF TransportStep, Reads

\* PlaceInv is inductive.
LEMMA PlaceStep ==
  ASSUME TypeInv, CloseInv, PlaceInv, [Next]_vars
  PROVE  PlaceInv'
  <1>1. CASE TransportNext
    BY <1>1, PlaceTransport DEF TransportNext
  <1>2. CASE HandleEvent
    <2>1. /\ UNCHANGED <<phase, deaf, binary, log>> /\ connections' \subseteq connections
          /\ \E kind \in {"connected", "noise", "disconnected", "message"} : Taking(kind)
      BY <1>2
      DEF HandleEvent, HandleLogged, HandleDisconnected, HandleSubscribe, HandleUnsubscribe,
          HandlePublish, HandlePrompt, HandleRequest, HandleDisconnect, HandleOther, Handling, Close
    <2>2. \A i \in DOMAIN events' : \E j \in DOMAIN events : events'[i] = events[j]
      BY <2>1, TakenEvents
    <2>3. \A d \in Conns : Live(d)' => Live(d)  BY <2>1 DEF Live
    <2> QED  BY <2>1, <2>2, <2>3, PlaceCalm
  <1>3. CASE AnswerRequest \/ Forward \/ Shutdown \/ UNCHANGED vars
    <2>1. UNCHANGED <<phase, deaf, binary, log, events>> /\ connections' \subseteq connections
      BY <1>3 DEF AnswerRequest, Forward, Shutdown, Close, vars, transportVars
    <2>2. \A d \in Conns : Live(d)' => Live(d)  BY <2>1 DEF Live
    <2> QED  BY <2>1, <2>2, PlaceCalm
  <1> QED  BY <1>1, <1>2, <1>3 DEF Next

-----------------------------------------------------------------------------
(* The stream of a connection: what is on its wire, then what is queued.   *)

\* Of a log L and a stream s: s acknowledges a subscription to ch; c has spoken,
\* and in the binary framing only.
AckedIn(L, s, ch) ==
  \E j \in DOMAIN s : s[j].kind = "reply" /\ L[s[j].id].kind = "subscribe" /\ L[s[j].id].ch = ch
SpokenIn(L, c) == \E i \in DOMAIN L : L[i].conn = c
BinaryOnly(L, c) == \A i \in DOMAIN L : L[i].conn = c => L[i].enc = "binary"
Answering == {"reply", "channel", "error"}

\* What a stream of c keeps to, H being the messages handled: it is about messages
\* there are, is framed as c frames, has every message of a channel behind an
\* acknowledgment, and those messages in their order.
Stream(L, H, c, s) ==
  /\ \A i \in DOMAIN s : s[i].kind = "reply" => s[i].id \in DOMAIN L
  /\ \A i \in DOMAIN s : s[i].kind = "channel" => s[i].id \in H
  /\ BinaryOnly(L, c) =>
        \A i \in DOMAIN s : s[i].kind \in Answering => s[i].enc = "binary"
  /\ \A i \in DOMAIN s : s[i].kind = "channel" =>
        \E j \in DOMAIN s : /\ j < i /\ s[j].kind = "reply"
                            /\ L[s[j].id].kind = "subscribe"
                            /\ L[s[j].id].ch = L[s[i].id].ch
  /\ \A i, j \in DOMAIN s :
        s[i].kind = "channel" /\ s[j].kind = "channel" /\ i < j => s[i].id < s[j].id

\* The channel messages of t are in s.
NoneNew(s, t) ==
  \A i \in DOMAIN t : t[i].kind = "channel" => \E j \in DOMAIN s : t[i] = s[j]

\* A log that has grown and messages that were handled since change nothing.
LEMMA StreamLater ==
  ASSUME NEW L, NEW M, NEW H, NEW K, NEW c, NEW s, Stream(L, H, c, s), H \subseteq DOMAIN L,
         \A i \in DOMAIN L : i \in DOMAIN M /\ M[i] = L[i], H \subseteq K
  PROVE  Stream(M, K, c, s) /\ \A ch : AckedIn(L, s, ch) => AckedIn(M, s, ch)
  <1>1. /\ \A i \in DOMAIN s : s[i].kind = "reply" => /\ s[i].id \in DOMAIN M
                                                      /\ M[s[i].id] = L[s[i].id]
        /\ \A i \in DOMAIN s : s[i].kind = "channel" => /\ s[i].id \in K
                                                        /\ M[s[i].id] = L[s[i].id]
    BY DEF Stream
  <1>2. BinaryOnly(M, c) => BinaryOnly(L, c)  BY DEF BinaryOnly
  <1> QED  BY <1>1, <1>2 DEF Stream, AckedIn

\* A frame is added: a message of a channel only behind its acknowledgment and
\* the messages before it.
LEMMA StreamAppend ==
  ASSUME NEW L, NEW H, NEW c, NEW s \in Seq(Frame), NEW f \in Frame, Stream(L, H, c, s),
         f.kind = "reply" => f.id \in DOMAIN L,
         BinaryOnly(L, c) /\ f.kind \in Answering => f.enc = "binary",
         f.kind = "channel" => /\ f.id \in H /\ AckedIn(L, s, L[f.id].ch)
                               /\ \A i \in DOMAIN s : s[i].kind = "channel" => s[i].id < f.id
  PROVE  /\ Stream(L, H, c, Append(s, f))
         /\ \A ch : AckedIn(L, s, ch) => AckedIn(L, Append(s, f), ch)
         /\ f.kind # "channel" => NoneNew(s, Append(s, f))
  <1> DEFINE t == Append(s, f)
             n == Len(s) + 1
  <1>1. /\ \A i \in DOMAIN s : i \in DOMAIN t /\ t[i] = s[i] /\ i < n
        /\ n \in DOMAIN t /\ t[n] = f
        /\ \A i \in DOMAIN t : i \in DOMAIN s \/ i = n
        /\ \A i \in DOMAIN t : ~(n < i)
    OBVIOUS
  <1> HIDE DEF t, n
  <1>2. \A i \in DOMAIN t : t[i].kind = "channel" =>
           \E j \in DOMAIN t : /\ j < i /\ t[j].kind = "reply"
                               /\ L[t[j].id].kind = "subscribe"
                               /\ L[t[j].id].ch = L[t[i].id].ch
    <2> SUFFICES ASSUME NEW i \in DOMAIN t, t[i].kind = "channel"
                 PROVE  \E j \in DOMAIN t : /\ j < i /\ t[j].kind = "reply"
                                            /\ L[t[j].id].kind = "subscribe"
                                            /\ L[t[j].id].ch = L[t[i].id].ch
      OBVIOUS
    <2>1. CASE i \in DOMAIN s
      <3>1. PICK j \in DOMAIN s : /\ j < i /\ s[j].kind = "reply"
                                  /\ L[s[j].id].kind = "subscribe"
                                  /\ L[s[j].id].ch = L[s[i].id].ch
        BY <1>1, <2>1 DEF Stream
      <3> QED  BY <1>1, <2>1, <3>1
    <2>2. CASE i = n
      <3>1. AckedIn(L, s, L[f.id].ch)  BY <1>1, <2>2
      <3>2. PICK j \in DOMAIN s : /\ s[j].kind = "reply" /\ L[s[j].id].kind = "subscribe"
                                  /\ L[s[j].id].ch = L[f.id].ch
        BY <3>1 DEF AckedIn
      <3> QED  BY <1>1, <2>2, <3>2
    <2> QED  BY <1>1, <2>1, <2>2
  <1>3. \A i, j \in DOMAIN t :
           t[i].kind = "channel" /\ t[j].kind = "channel" /\ i < j => t[i].id < t[j].id
    BY <1>1 DEF Stream
  <1>4. Stream(L, H, c, t)  BY <1>1, <1>2, <1>3 DEF Stream
  <1>5. \A ch : AckedIn(L, s, ch) => AckedIn(L, t, ch)  BY <1>1 DEF AckedIn
  <1>6. f.kind # "channel" => NoneNew(s, t)  BY <1>1 DEF NoneNew
  <1> QED  BY <1>4, <1>5, <1>6 DEF t

\* A stream that is cut short keeps to it.
LEMMA StreamCut ==
  ASSUME NEW L, NEW H, NEW c, NEW s, NEW t, Stream(L, H, c, s),
         \A i \in DOMAIN t : i \in DOMAIN s /\ t[i] = s[i],
         \A i \in DOMAIN t, j \in DOMAIN s : j < i => j \in DOMAIN t
  PROVE  Stream(L, H, c, t) /\ NoneNew(s, t)
  <1>1. \A i \in DOMAIN t : t[i].kind = "channel" =>
           \E j \in DOMAIN t : /\ j < i /\ t[j].kind = "reply"
                               /\ L[t[j].id].kind = "subscribe"
                               /\ L[t[j].id].ch = L[t[i].id].ch
    BY DEF Stream
  <1> QED  BY <1>1 DEF Stream, NoneNew

\* The hello comes before everything.
LEMMA StreamPrepend ==
  ASSUME NEW L, NEW H, NEW c, NEW s \in Seq(Frame), NEW f \in Frame, f.kind = "hello",
         Stream(L, H, c, s)
  PROVE  /\ Stream(L, H, c, <<f>> \o s)
         /\ \A ch : AckedIn(L, s, ch) => AckedIn(L, <<f>> \o s, ch)
         /\ NoneNew(s, <<f>> \o s)
  <1> DEFINE t == <<f>> \o s
  <1>1. /\ \A i \in DOMAIN s : i + 1 \in DOMAIN t /\ t[i + 1] = s[i]
        /\ \A i \in DOMAIN t : i = 1 \/ (i - 1 \in DOMAIN s /\ t[i] = s[i - 1])
        /\ t[1] = f /\ DOMAIN s \subseteq Int /\ DOMAIN t \subseteq Int
    OBVIOUS
  <1> HIDE DEF t
  <1>2. \A i \in DOMAIN t : t[i].kind # "hello" => i - 1 \in DOMAIN s /\ t[i] = s[i - 1]
    BY <1>1
  <1>3. \A i \in DOMAIN t : t[i].kind = "channel" =>
           \E j \in DOMAIN t : /\ j < i /\ t[j].kind = "reply"
                               /\ L[t[j].id].kind = "subscribe"
                               /\ L[t[j].id].ch = L[t[i].id].ch
    <2> SUFFICES ASSUME NEW i \in DOMAIN t, t[i].kind = "channel"
                 PROVE  \E j \in DOMAIN t : /\ j < i /\ t[j].kind = "reply"
                                            /\ L[t[j].id].kind = "subscribe"
                                            /\ L[t[j].id].ch = L[t[i].id].ch
      OBVIOUS
    <2>1. i - 1 \in DOMAIN s /\ t[i] = s[i - 1]  BY <1>2
    <2>2. PICK j \in DOMAIN s : /\ j < i - 1 /\ s[j].kind = "reply"
                                /\ L[s[j].id].kind = "subscribe"
                                /\ L[s[j].id].ch = L[t[i].id].ch
      BY <2>1 DEF Stream
    <2>3. j + 1 \in DOMAIN t /\ t[j + 1] = s[j] /\ j + 1 < i  BY <1>1, <2>2
    <2> QED  BY <2>2, <2>3
  <1>4. \A i, j \in DOMAIN t :
           t[i].kind = "channel" /\ t[j].kind = "channel" /\ i < j => t[i].id < t[j].id
    <2> SUFFICES ASSUME NEW i \in DOMAIN t, NEW j \in DOMAIN t,
                        t[i].kind = "channel", t[j].kind = "channel", i < j
                 PROVE  t[i].id < t[j].id
      OBVIOUS
    <2>1. i - 1 \in DOMAIN s /\ t[i] = s[i - 1] /\ j - 1 \in DOMAIN s /\ t[j] = s[j - 1]
      BY <1>2
    <2>2. i - 1 < j - 1  BY <1>1
    <2> QED  BY <2>1, <2>2 DEF Stream
  <1>5. Stream(L, H, c, t)
    BY <1>2, <1>3, <1>4 DEF Stream, Answering
  <1>6. \A ch : AckedIn(L, s, ch) => AckedIn(L, t, ch)  BY <1>1 DEF AckedIn
  <1>7. NoneNew(s, t)  BY <1>2 DEF NoneNew
  <1> QED  BY <1>5, <1>6, <1>7 DEF t

-----------------------------------------------------------------------------
(* What a step does to the streams.                                        *)

\* A frame for c that is no message of a channel.
Fits(L, c, f) ==
  /\ f.kind # "channel"
  /\ f.kind = "reply" => f.id \in DOMAIN L
  /\ BinaryOnly(L, c) /\ f.kind \in Answering => f.enc = "binary"

\* The stream s of c becomes t: as it was, longer by a frame, cut short as the
\* connection goes, or with the hello in front.
Moves(L, c, s, t, alive) ==
  \/ t = s
  \/ \E f \in Frame : Fits(L, c, f) /\ t = Append(s, f)
  \/ /\ ~alive
     /\ \A i \in DOMAIN t : i \in DOMAIN s /\ t[i] = s[i]
     /\ \A i \in DOMAIN t, j \in DOMAIN s : j < i => j \in DOMAIN t
  \/ \E f \in Frame : f.kind = "hello" /\ t = <<f>> \o s

\* A stream that moves so keeps to what it should.
LEMMA MovesKeep ==
  ASSUME NEW L, NEW M, NEW H, NEW K, NEW c, NEW s \in Seq(Frame), NEW t, NEW alive \in BOOLEAN,
         Stream(L, H, c, s), Moves(L, c, s, t, alive), H \subseteq DOMAIN L,
         \A i \in DOMAIN L : i \in DOMAIN M /\ M[i] = L[i], H \subseteq K
  PROVE  /\ Stream(M, K, c, t) /\ NoneNew(s, t)
         /\ alive => \A ch : AckedIn(L, s, ch) => AckedIn(M, t, ch)
  <1>1. /\ Stream(L, H, c, t) /\ NoneNew(s, t)
        /\ alive => \A ch : AckedIn(L, s, ch) => AckedIn(L, t, ch)
    <2>1. CASE t = s
      BY <2>1 DEF NoneNew
    <2>2. ASSUME NEW f \in Frame, Fits(L, c, f), t = Append(s, f)
          PROVE  /\ Stream(L, H, c, t) /\ NoneNew(s, t)
                 /\ alive => \A ch : AckedIn(L, s, ch) => AckedIn(L, t, ch)
      BY <2>2, StreamAppend DEF Fits
    <2>3. CASE /\ ~alive
               /\ \A i \in DOMAIN t : i \in DOMAIN s /\ t[i] = s[i]
               /\ \A i \in DOMAIN t, j \in DOMAIN s : j < i => j \in DOMAIN t
      BY <2>3, StreamCut
    <2>4. ASSUME NEW f \in Frame, f.kind = "hello", t = <<f>> \o s
          PROVE  /\ Stream(L, H, c, t) /\ NoneNew(s, t)
                 /\ alive => \A ch : AckedIn(L, s, ch) => AckedIn(L, t, ch)
      BY <2>4, StreamPrepend
    <2> QED  BY <2>1, <2>2, <2>3, <2>4 DEF Moves
  <1> QED  BY <1>1, StreamLater

\* The streams are sequences of frames.
LEMMA OutgoingType ==
  ASSUME TypeInv, NEW c \in Conns
  PROVE  Outgoing(c) \in Seq(Frame) /\ wire[c] \in Seq(Frame) /\ wq[c] \in Seq(Frame)
  BY DEF TypeInv, TypeOK, TransportTypeOK, Outgoing

\* What is appended to the second of two sequences is appended to both.
LEMMA ConcatAppend ==
  ASSUME NEW s \in Seq(Frame), NEW t \in Seq(Frame), NEW f \in Frame
  PROVE  s \o Append(t, f) = Append(s \o t, f)
  OBVIOUS

\* Queueing a frame for a live connection makes its stream longer by it.
LEMMA OutEnqueue ==
  ASSUME TypeInv, NEW c \in Conns, NEW f \in Frame, wq' = Enqueue(c, f), wire' = wire,
         NEW d \in Conns
  PROVE  Outgoing(d)' = IF d = c /\ Live(c) THEN Append(Outgoing(d), f) ELSE Outgoing(d)
  <1>0. wq \in [Conns -> Seq(Frame)]  BY DEF TypeInv, TypeOK, TransportTypeOK
  <1>1. CASE d = c /\ Live(c)
    <2>1. wq'[d] = Append(wq[d], f)  BY <1>0, <1>1 DEF Enqueue
    <2>2. wire[d] \in Seq(Frame) /\ wq[d] \in Seq(Frame)  BY OutgoingType
    <2>3. wire[d] \o Append(wq[d], f) = Append(wire[d] \o wq[d], f)  BY <2>2, ConcatAppend, Zenon
    <2> QED  BY <1>1, <2>1, <2>3 DEF Outgoing
  <1>2. CASE ~(d = c /\ Live(c))
    <2>1. wq'[d] = wq[d]  BY <1>0, <1>2 DEF Enqueue
    <2> QED  BY <1>2, <2>1 DEF Outgoing
  <1> QED  BY <1>1, <1>2

\* So does close(), for each of the connections it closes.
LEMMA OutClose ==
  ASSUME TypeInv, NEW S, Close(S), wire' = wire, NEW d \in Conns
  PROVE  Outgoing(d)' = IF d \in S /\ Live(d) THEN Append(Outgoing(d), CloseFrame)
                                              ELSE Outgoing(d)
  <1>0. CloseFrame \in Frame  BY DEF CloseFrame, NewFrame, Frame
  <1>1. CASE d \in S /\ Live(d)
    <2>1. wq'[d] = Append(wq[d], CloseFrame)  BY <1>1 DEF Close
    <2>2. wire[d] \in Seq(Frame) /\ wq[d] \in Seq(Frame)  BY OutgoingType
    <2>3. wire[d] \o Append(wq[d], CloseFrame) = Append(wire[d] \o wq[d], CloseFrame)
      BY <1>0, <2>2, ConcatAppend, Zenon
    <2> QED  BY <1>1, <2>1, <2>3 DEF Outgoing
  <1>2. CASE ~(d \in S /\ Live(d))
    <2>1. wq'[d] = wq[d]  BY <1>2 DEF Close
    <2> QED  BY <1>2, <2>1 DEF Outgoing
  <1> QED  BY <1>1, <1>2

\* The write task moves frames along the streams, which stay as they are.
LEMMA OutWrite ==
  ASSUME TypeInv, NEW c \in Conns, WriteFrame(c), NEW d \in Conns
  PROVE  Outgoing(d)' = Outgoing(d)
  <1>0. wq \in [Conns -> Seq(Frame)] /\ wire \in [Conns -> Seq(Frame)]
    BY DEF TypeInv, TypeOK, TransportTypeOK
  <1>1. CASE d = c
    <2>1. wq'[c] = Tail(wq[c]) /\ wire'[c] = Append(wire[c], Head(wq[c])) /\ wq[c] # <<>>
      BY <1>0 DEF WriteFrame
    <2>2. Append(wire[c], Head(wq[c])) \o Tail(wq[c]) = wire[c] \o wq[c]
      <3> DEFINE s == wire[c]
                 q == wq[c]
      <3>1. s \in Seq(Frame) /\ q \in Seq(Frame) /\ q # <<>>  BY <1>0, <2>1
      <3> HIDE DEF s, q
      <3>2. Append(s, Head(q)) \o Tail(q) = s \o q  BY <3>1
      <3> QED  BY <3>2 DEF s, q
    <2> QED  BY <1>1, <2>1, <2>2 DEF Outgoing
  <1>2. CASE d # c
    BY <1>0, <1>2 DEF WriteFrame, Outgoing
  <1> QED  BY <1>1, <1>2

\* A step of a connection's own tasks moves the streams.
LEMMA MovesTransport ==
  ASSUME TypeInv, CloseInv, NEW c \in Conns, TransportStep(c), NEW d \in Conns
  PROVE  Moves(log, d, Outgoing(d), Outgoing(d)', Live(d)')
  <1>0. wq \in [Conns -> Seq(Frame)] /\ wire \in [Conns -> Seq(Frame)]
    BY DEF TypeInv, TypeOK, TransportTypeOK
  <1>1. CASE UNCHANGED <<wq, wire>>
    BY <1>1 DEF Moves, Outgoing
  <1>2. CASE Greet(c)
    <2> DEFINE hello == NewFrame("hello", "text", 0)
    <2>1. hello \in Frame /\ hello.kind = "hello"  BY DEF NewFrame, Frame
    <2>2. CASE d = c
      <3>1. wire[c] = <<>> /\ wq[c] \in Seq(Frame)  BY <1>0, <1>2 DEF Greet, CloseInv
      <3>2. wire'[c] = Append(wire[c], hello) /\ wq'[c] = wq[c]  BY <1>0, <1>2 DEF Greet
      <3>3. Outgoing(c)' = <<hello>> \o Outgoing(c)
        <4> HIDE DEF hello
        <4>1. Append(<<>>, hello) = <<hello>> /\ <<>> \o wq[c] = wq[c]  BY <2>1, <3>1
        <4> QED  BY <3>1, <3>2, <4>1 DEF Outgoing
      <3> QED  BY <2>1, <2>2, <3>3 DEF Moves
    <2>3. CASE d # c
      BY <1>0, <1>2, <2>3 DEF Greet, Outgoing, Moves
    <2> QED  BY <2>2, <2>3
  <1>3. ASSUME NEW f \in Frame, f.kind \in {"pong", "ping"}, wq' = Enqueue(c, f), wire' = wire
        PROVE  Moves(log, d, Outgoing(d), Outgoing(d)', Live(d)')
    <2>1. Fits(log, d, f)  BY <1>3 DEF Fits, Answering
    <2>2. Outgoing(d)' = Outgoing(d) \/ Outgoing(d)' = Append(Outgoing(d), f)
      BY <1>3, OutEnqueue
    <2> QED  BY <2>1, <2>2 DEF Moves
  <1>4. CASE ReadPing(c)
    <2>1. NewFrame("pong", "binary", 0) \in Frame /\ NewFrame("pong", "binary", 0).kind = "pong"
      BY DEF NewFrame, Frame
    <2> QED  BY <1>3, <1>4, <2>1 DEF ReadPing, NextFrame
  <1>5. CASE PingTick(c)
    <2>1. NewFrame("ping", "control", 0) \in Frame /\ NewFrame("ping", "control", 0).kind = "ping"
      BY DEF NewFrame, Frame
    <2> QED  BY <1>3, <1>5, <2>1 DEF PingTick
  <1>6. CASE WriteFrame(c)
    BY <1>6, OutWrite DEF Moves
  <1>7. CASE WriteFails(c) \/ EndRead(c)
    <2>1. /\ wq'[c] = <<>> /\ wire' = wire /\ ~Live(c)'
          /\ \A e \in Conns : e # c => wq'[e] = wq[e]
      BY <1>0, <1>7 DEF WriteFails, EndRead, Live
    <2>2. CASE d = c
      <3>1. /\ wire[c] \o <<>> = wire[c]
            /\ \A i \in DOMAIN wire[c] : /\ i \in DOMAIN (wire[c] \o wq[c])
                                         /\ wire[c][i] = (wire[c] \o wq[c])[i]
            /\ \A i \in DOMAIN wire[c], j \in DOMAIN (wire[c] \o wq[c]) : j < i => j \in DOMAIN wire[c]
        BY <1>0
      <3>2. Outgoing(c)' = wire[c]  BY <2>1, <3>1 DEF Outgoing
      <3> QED  BY <2>1, <2>2, <3>1, <3>2 DEF Moves, Outgoing
    <2>3. CASE d # c
      BY <2>1, <2>3 DEF Moves, Outgoing
    <2> QED  BY <2>2, <2>3
  <1> QED
    BY <1>1, <1>2, <1>4, <1>5, <1>6, <1>7
    DEF TransportStep, Reads, Accept, ReadMessage, ReadNoise, NextFrame, Cleanup

-----------------------------------------------------------------------------
(* What is on its way keeps its order.                                     *)

StreamInv == \A c \in Conns : Stream(log, Handled, c, Outgoing(c))

\* A member of a channel has asked for it and been told so, unless it is gone.
MemberInv ==
  \A ch \in Channels, c \in Conns : c \in subscribers[ch] =>
      ch \in channels /\ SpokenIn(log, c) /\ (Live(c) => AckedIn(log, Outgoing(c), ch))

\* What the forwarder has for c, q being its queue and s the stream of c, belongs
\* behind all that is in the stream, and is in order itself.
Ahead(L, H, c, s, q, alive) ==
  \A k \in DOMAIN q : q[k].to = c =>
     /\ q[k].id \in H /\ SpokenIn(L, c)
     /\ alive => AckedIn(L, s, L[q[k].id].ch)
     /\ \A i \in DOMAIN s : s[i].kind = "channel" => s[i].id < q[k].id
     /\ \A l \in DOMAIN q : k < l /\ q[l].to = c => q[k].id < q[l].id

FwdInv == \A c \in Conns : Ahead(log, Handled, c, Outgoing(c), fwdQ, Live(c))

\* No stream loses an acknowledgment that still counts, or gains a message of a
\* channel.
Calm ==
  \A c \in Conns :
     /\ NoneNew(Outgoing(c), Outgoing(c)')
     /\ Live(c)' => \A ch : AckedIn(log, Outgoing(c), ch) => AckedIn(log', Outgoing(c)', ch)
     /\ Live(c)' => Live(c) \/ ~SpokenIn(log, c)

\* Streams that move keep to what they should.
LEMMA StreamsMove ==
  ASSUME TypeInv, StreamInv, LogGrows, Handled \subseteq Handled',
         \A c \in Conns : /\ Moves(log, c, Outgoing(c), Outgoing(c)', Live(c)')
                          /\ Live(c)' => Live(c) \/ ~SpokenIn(log, c)
  PROVE  StreamInv' /\ Calm
  <1>1. Handled \subseteq DOMAIN log  BY QueuedKnown
  <1>2. ASSUME NEW c \in Conns
        PROVE  /\ Stream(log', Handled', c, Outgoing(c)')
               /\ NoneNew(Outgoing(c), Outgoing(c)')
               /\ Live(c)' => \A ch : AckedIn(log, Outgoing(c), ch)
                                         => AckedIn(log', Outgoing(c)', ch)
    <2> DEFINE s == Outgoing(c)
               t == Outgoing(c)'
               alive == Live(c)'
               K == Handled'
               M == log'
    <2>1. /\ s \in Seq(Frame) /\ Stream(log, Handled, c, s)
          /\ Moves(log, c, s, t, alive) /\ alive \in BOOLEAN
      BY OutgoingType DEF StreamInv, Live
    <2>2. \A i \in DOMAIN log : i \in DOMAIN M /\ M[i] = log[i]  BY DEF LogGrows
    <2>3. Handled \subseteq K  OBVIOUS
    <2> HIDE DEF s, t, alive, K, M
    <2>4. /\ Stream(M, K, c, t) /\ NoneNew(s, t)
          /\ alive => \A ch : AckedIn(log, s, ch) => AckedIn(M, t, ch)
      BY <1>1, <2>1, <2>2, <2>3, MovesKeep
    <2> QED  BY <2>4 DEF s, t, alive, K, M
  <1>3. StreamInv'  BY <1>2 DEF StreamInv
  <1>4. Calm  BY <1>2 DEF Calm
  <1> QED  BY <1>3, <1>4

\* Members that stay have what they had.
LEMMA MembersKept ==
  ASSUME MemberInv, Calm, LogGrows, channels \subseteq channels',
         \A ch \in Channels, c \in Conns : c \in subscribers'[ch] => c \in subscribers[ch]
  PROVE  MemberInv'
  <1> SUFFICES ASSUME NEW ch \in Channels, NEW c \in Conns, c \in subscribers'[ch]
               PROVE  /\ ch \in channels' /\ SpokenIn(log', c)
                      /\ Live(c)' => AckedIn(log', Outgoing(c)', ch)
    BY DEF MemberInv
  <1>1. ch \in channels /\ SpokenIn(log, c) /\ (Live(c) => AckedIn(log, Outgoing(c), ch))
    BY DEF MemberInv
  <1>2. SpokenIn(log', c)  BY <1>1 DEF SpokenIn, LogGrows
  <1>3. Live(c)' => AckedIn(log', Outgoing(c)', ch)  BY <1>1 DEF Calm
  <1> QED  BY <1>1, <1>2, <1>3

\* So has the forwarder.
LEMMA ForwardsKept ==
  ASSUME TypeInv, FwdInv, Calm, LogGrows, fwdQ' = fwdQ, Handled \subseteq Handled'
  PROVE  FwdInv'
  <1> SUFFICES ASSUME NEW c \in Conns
               PROVE  Ahead(log', Handled', c, Outgoing(c)', fwdQ, Live(c)')
    BY DEF FwdInv
  <1>1. Ahead(log, Handled, c, Outgoing(c), fwdQ, Live(c))  BY DEF FwdInv
  <1>2. Handled \subseteq DOMAIN log  BY QueuedKnown
  <1> SUFFICES ASSUME NEW k \in DOMAIN fwdQ, fwdQ[k].to = c
               PROVE  /\ fwdQ[k].id \in Handled' /\ SpokenIn(log', c)
                      /\ Live(c)' => AckedIn(log', Outgoing(c)', log'[fwdQ[k].id].ch)
                      /\ \A i \in DOMAIN Outgoing(c)' :
                            Outgoing(c)'[i].kind = "channel" => Outgoing(c)'[i].id < fwdQ[k].id
                      /\ \A l \in DOMAIN fwdQ :
                            k < l /\ fwdQ[l].to = c => fwdQ[k].id < fwdQ[l].id
    BY DEF Ahead
  <1>3. /\ fwdQ[k].id \in Handled /\ SpokenIn(log, c)
        /\ Live(c) => AckedIn(log, Outgoing(c), log[fwdQ[k].id].ch)
        /\ \A i \in DOMAIN Outgoing(c) :
              Outgoing(c)[i].kind = "channel" => Outgoing(c)[i].id < fwdQ[k].id
        /\ \A l \in DOMAIN fwdQ : k < l /\ fwdQ[l].to = c => fwdQ[k].id < fwdQ[l].id
    BY <1>1 DEF Ahead
  <1>4. SpokenIn(log', c)  BY <1>3 DEF SpokenIn, LogGrows
  <1>5. log'[fwdQ[k].id] = log[fwdQ[k].id]  BY <1>2, <1>3 DEF LogGrows
  <1>6. Live(c)' => AckedIn(log', Outgoing(c)', log'[fwdQ[k].id].ch)
    BY <1>3, <1>5 DEF Calm
  <1>7. \A i \in DOMAIN Outgoing(c)' :
           Outgoing(c)'[i].kind = "channel" => Outgoing(c)'[i].id < fwdQ[k].id
    <2>1. NoneNew(Outgoing(c), Outgoing(c)')  BY DEF Calm
    <2> QED  BY <1>3, <2>1 DEF NoneNew
  <1> QED  BY <1>3, <1>4, <1>6, <1>7

\* A step that queues at most such frames, and makes no member.
LEMMA DeliveryKept ==
  ASSUME TypeInv, StreamInv, MemberInv, FwdInv, LogGrows, Handled \subseteq Handled',
         fwdQ' = fwdQ, channels \subseteq channels',
         \A c \in Conns : /\ Moves(log, c, Outgoing(c), Outgoing(c)', Live(c)')
                          /\ Live(c)' => Live(c) \/ ~SpokenIn(log, c),
         \A ch \in Channels, c \in Conns : c \in subscribers'[ch] => c \in subscribers[ch]
  PROVE  StreamInv' /\ MemberInv' /\ FwdInv'
  <1>1. StreamInv' /\ Calm  BY StreamsMove
  <1> QED  BY <1>1, MembersKept, ForwardsKept

\* The sender of the message the loop takes has spoken.
LEMMA SenderKnown ==
  ASSUME TypeInv, NEW S, Handling(S)
  PROVE  /\ MsgId \in DOMAIN log /\ log[MsgId] \in Message /\ log[MsgId].conn = Sender
         /\ log[MsgId].kind \in S
         /\ Sender \in Conns /\ Channel \in Channels /\ SpokenIn(log, Sender)
  <1>1. Taking("message") /\ log' = log /\ log[MsgId].kind \in S  BY DEF Handling, MsgId
  <1>2. MsgId \in DOMAIN log  BY <1>1, TakingKnown DEF MsgId
  <1>3. log[MsgId] \in Message  BY <1>2, KnownConns
  <1>4. log[MsgId].conn = Sender
    <2>1. events \in Seq(Event) /\ events # <<>> /\ Head(events).kind = "message"
      BY <1>1 DEF TypeInv, TypeOK, TransportTypeOK, Taking
    <2>2. 1 \in DOMAIN events /\ Head(events) = events[1]  BY <2>1
    <2> QED  BY <2>1, <2>2 DEF TypeInv, EventsKnown, MsgId, Sender
  <1> QED  BY <1>1, <1>2, <1>3, <1>4 DEF SpokenIn, Channel, Message

\* An answer to one who has spoken is a frame that fits.
LEMMA SendMoves ==
  ASSUME TypeInv, PlaceInv, NEW c \in Conns, SpokenIn(log, c),
         NEW kind \in {"reply", "error"}, NEW id \in Nat, kind = "reply" => id \in DOMAIN log,
         wq' = Send(c, kind, id), wire' = wire, NEW d \in Conns
  PROVE  Moves(log, d, Outgoing(d), Outgoing(d)', Live(d)')
  <1> DEFINE f == NewFrame(kind, IF c \in binary THEN "binary" ELSE "text", id)
  <1>1. f \in Frame /\ f.kind = kind /\ f.id = id /\ (c \in binary => f.enc = "binary")
    BY DEF NewFrame, Frame
  <1>2. wq' = Enqueue(c, f)  BY DEF Send
  <1> HIDE DEF f
  <1>3. CASE d = c /\ Live(c)
    <2>1. BinaryOnly(log, c) => c \in binary
      BY <1>3 DEF BinaryOnly, SpokenIn, PlaceInv, UsedBinary
    <2>2. Fits(log, c, f)  BY <1>1, <2>1 DEF Fits
    <2>3. Outgoing(d)' = Append(Outgoing(d), f)  BY <1>1, <1>2, <1>3, OutEnqueue
    <2> QED  BY <1>1, <1>3, <2>2, <2>3 DEF Moves
  <1>4. CASE ~(d = c /\ Live(c))
    <2>1. Outgoing(d)' = Outgoing(d)  BY <1>1, <1>2, <1>4, OutEnqueue
    <2> QED  BY <2>1 DEF Moves
  <1> QED  BY <1>3, <1>4

\* close() queues a frame that fits.
LEMMA CloseMoves ==
  ASSUME TypeInv, NEW S, Close(S), wire' = wire, NEW d \in Conns
  PROVE  Moves(log, d, Outgoing(d), Outgoing(d)', Live(d)')
  <1>1. CloseFrame \in Frame /\ CloseFrame.kind = "close"
    BY DEF CloseFrame, NewFrame, Frame
  <1>2. Fits(log, d, CloseFrame)  BY <1>1 DEF Fits, Answering
  <1>3. Outgoing(d)' = Outgoing(d) \/ Outgoing(d)' = Append(Outgoing(d), CloseFrame)
    BY OutClose
  <1> QED  BY <1>1, <1>2, <1>3 DEF Moves

\* However the members are visited, each of them is visited once.
LEMMA OrderVisitsOnce ==
  ASSUME NEW S, IsFiniteSet(S), NEW o \in Orders(S)
  PROVE  /\ Cardinality(S) \in Nat /\ o \in [1..Cardinality(S) -> S]
         /\ \A s \in S : \E i \in 1..Cardinality(S) : o[i] = s
         /\ \A i, j \in 1..Cardinality(S) : o[i] = o[j] => i = j
  <1> DEFINE n == Cardinality(S)
  <1>1. n \in Nat /\ Cardinality(1..n) = n /\ IsFiniteSet(1..n)
    <2>1. n \in Nat  BY FS_CardinalityType
    <2>2. IsFiniteSet(1..n) /\ Cardinality(1..n) = IF 1 > n THEN 0 ELSE n - 1 + 1
      <3> HIDE DEF n
      <3> QED  BY <2>1, FS_Interval
    <2>3. (IF 1 > n THEN 0 ELSE n - 1 + 1) = n
      <3> HIDE DEF n
      <3> QED  BY <2>1
    <2> QED  BY <2>1, <2>2, <2>3
  <1>2. o \in [1..n -> S] /\ \A s \in S : \E i \in 1..n : o[i] = s
    BY DEF Orders
  <1>3. o \in Surjection(1..n, S)  BY <1>2 DEF Surjection
  <1>4. o \in Injection(1..n, S)
    <2> HIDE DEF n
    <2>1. Cardinality(1..n) = Cardinality(S)  BY <1>1 DEF n
    <2> QED  BY <1>1, <1>3, <2>1, FS_SurjSameCardinalityImpliesInj
  <1>5. \A i, j \in 1..n : o[i] = o[j] => i = j
    BY <1>2, <1>4 DEF Injection, IsInjective
  <1> QED  BY <1>1, <1>2, <1>5

\* One queue behind another.
LEMMA Behind ==
  ASSUME NEW S, NEW a \in Seq(S), NEW b \in Seq(S)
  PROVE  /\ a \o b \in Seq(S) /\ Len(a) \in Nat /\ Len(b) \in Nat
         /\ DOMAIN a = 1..Len(a) /\ DOMAIN b = 1..Len(b)
         /\ DOMAIN (a \o b) = 1..(Len(a) + Len(b))
         /\ \A k \in 1..(Len(a) + Len(b)) :
               (a \o b)[k] = IF k <= Len(a) THEN a[k] ELSE b[k - Len(a)]
OBVIOUS

\* publish() adds one pair for each member but the sender behind what is queued.
LEMMA PublishFansOut ==
  ASSUME TypeInv, NEW ch \in Channels, NEW id \in Nat, NEW from, Publish(ch, id, from)
  PROVE  /\ \A k \in DOMAIN fwdQ : k \in DOMAIN fwdQ' /\ fwdQ'[k] = fwdQ[k]
         /\ \A k \in DOMAIN fwdQ' : k \notin DOMAIN fwdQ =>
               /\ fwdQ'[k].id = id /\ fwdQ'[k].to \in subscribers[ch] \ {from}
               /\ \A l \in DOMAIN fwdQ : l < k
         /\ \A k, l \in DOMAIN fwdQ' :
               k \notin DOMAIN fwdQ /\ l \notin DOMAIN fwdQ /\ fwdQ'[k].to = fwdQ'[l].to => k = l
         /\ \A d \in subscribers[ch] \ {from} : \E k \in DOMAIN fwdQ' :
               fwdQ'[k].to = d /\ fwdQ'[k].id = id
  <1> DEFINE S == subscribers[ch] \ {from}
             Pair == [to: Conns, id: Nat]
  <1>1. PICK o \in Orders(S) : fwdQ' = fwdQ \o [i \in DOMAIN o |-> [to |-> o[i], id |-> id]]
    BY DEF Publish
  <1> DEFINE n == Cardinality(S)
             q == [i \in DOMAIN o |-> [to |-> o[i], id |-> id]]
  <1>2. IsFiniteSet(S)  BY FS_Subset DEF TypeInv, FiniteMembers
  <1>3. /\ n \in Nat /\ o \in [1..n -> S]
        /\ \A s \in S : \E i \in 1..n : o[i] = s
        /\ \A i, j \in 1..n : o[i] = o[j] => i = j
    BY <1>2, OrderVisitsOnce
  <1>4. fwdQ \in Seq(Pair) /\ S \subseteq Conns
    BY DEF TypeInv, TypeOK, ChannelsTypeOK
  <1>5. /\ DOMAIN q = 1..n
        /\ \A i \in 1..n : q[i].to = o[i] /\ q[i].id = id /\ q[i] \in Pair
    BY <1>3, <1>4
  <1> HIDE DEF q, n, S, Pair
  <1>6. q \in Seq(Pair) /\ Len(q) = n  BY <1>3, <1>5 DEF q
  <1>7. fwdQ' = fwdQ \o q  BY <1>1 DEF q
  <1>8. /\ \A k \in DOMAIN fwdQ : k \in DOMAIN fwdQ' /\ fwdQ'[k] = fwdQ[k]
        /\ \A k \in DOMAIN fwdQ' : k \notin DOMAIN fwdQ =>
              /\ k - Len(fwdQ) \in 1..n /\ fwdQ'[k] = q[k - Len(fwdQ)]
              /\ \A l \in DOMAIN fwdQ : l < k
        /\ \A i \in 1..n : Len(fwdQ) + i \in DOMAIN fwdQ' /\ fwdQ'[Len(fwdQ) + i] = q[i]
        /\ Len(fwdQ) \in Nat /\ DOMAIN fwdQ' \subseteq Int
    <2> DEFINE len == Len(fwdQ)
    <2>1. /\ len \in Nat /\ DOMAIN fwdQ = 1..len /\ DOMAIN q = 1..n
          /\ fwdQ' \in Seq(Pair) /\ DOMAIN fwdQ' = 1..(len + n)
          /\ \A k \in 1..(len + n) : fwdQ'[k] = IF k <= len THEN fwdQ[k] ELSE q[k - len]
      BY <1>4, <1>6, <1>7, Behind
    <2> HIDE DEF len
    <2>2. \A k \in 1..len : k \in 1..(len + n) /\ k <= len
      BY <1>3, <2>1
    <2>3. \A k \in 1..(len + n) : k \notin 1..len =>
             k - len \in 1..n /\ ~(k <= len) /\ \A l \in 1..len : l < k
      BY <1>3, <2>1
    <2>4. \A i \in 1..n : len + i \in 1..(len + n) /\ ~(len + i <= len) /\ (len + i) - len = i
      BY <1>3, <2>1
    <2>5. \A i \in 1..n : fwdQ'[len + i] = q[i]
      BY <2>1, <2>4
    <2>6. 1..(len + n) \subseteq Int
      OBVIOUS
    <2> QED
      BY <2>1, <2>2, <2>3, <2>4, <2>5, <2>6 DEF len
  <1>9. \A k \in DOMAIN fwdQ' : k \notin DOMAIN fwdQ =>
           fwdQ'[k].id = id /\ fwdQ'[k].to \in S
    <2> SUFFICES ASSUME NEW k \in DOMAIN fwdQ', k \notin DOMAIN fwdQ
                 PROVE  fwdQ'[k].id = id /\ fwdQ'[k].to \in S
      OBVIOUS
    <2>1. PICK i \in 1..n : fwdQ'[k] = q[i]
      BY <1>8
    <2>2. q[i].to = o[i] /\ q[i].id = id /\ o[i] \in S
      BY <1>3, <1>5
    <2> QED
      BY <2>1, <2>2
  <1>10. ASSUME NEW k \in DOMAIN fwdQ', NEW l \in DOMAIN fwdQ',
                k \notin DOMAIN fwdQ, l \notin DOMAIN fwdQ, fwdQ'[k].to = fwdQ'[l].to
         PROVE  k = l
    <2>1. PICK i \in 1..n : i = k - Len(fwdQ) /\ fwdQ'[k] = q[i]  BY <1>8, <1>10
    <2>2. PICK j \in 1..n : j = l - Len(fwdQ) /\ fwdQ'[l] = q[j]  BY <1>8, <1>10
    <2>3. o[i] = o[j]  BY <1>5, <1>10, <2>1, <2>2
    <2>4. i = j  BY <1>3, <2>3
    <2>5. k \in Int /\ l \in Int  BY <1>8
    <2> QED  BY <1>8, <2>1, <2>2, <2>4, <2>5
  <1>11. ASSUME NEW d \in S
         PROVE  \E k \in DOMAIN fwdQ' : fwdQ'[k].to = d /\ fwdQ'[k].id = id
    <2>1. PICK i \in 1..n : o[i] = d  BY <1>3
    <2>2. Len(fwdQ) + i \in DOMAIN fwdQ' /\ fwdQ'[Len(fwdQ) + i] = q[i]  BY <1>8
    <2> QED  BY <1>5, <2>1, <2>2
  <1> QED  BY <1>8, <1>9, <1>10, <1>11 DEF S

\* A subscription: the new member is told before anything of the channel can
\* follow, because the answer is queued in the same step.
LEMMA DeliverySubscribe ==
  ASSUME TypeInv, QueueInv, PlaceInv, StreamInv, MemberInv, FwdInv, HandleSubscribe
  PROVE  StreamInv' /\ MemberInv' /\ FwdInv'
  <1>1. /\ MsgId \in DOMAIN log /\ log[MsgId].kind = "subscribe"
        /\ Sender \in Conns /\ Channel \in Channels /\ SpokenIn(log, Sender)
    BY SenderKnown DEF HandleSubscribe
  <1>2. /\ Taking("message") /\ UNCHANGED <<deaf, wire, log, connections, fwdQ>>
        /\ channels' = channels \cup {Channel}
        /\ subscribers' = IF IsFull(Channel) THEN subscribers
                          ELSE [subscribers EXCEPT ![Channel] = @ \cup {Sender}]
        /\ wq' = IF IsFull(Channel) THEN Send(Sender, "error", 0)
                                    ELSE Send(Sender, "reply", MsgId)
    BY DEF HandleSubscribe, Handling, Subscribe
  <1>3. LogGrows /\ Handled \subseteq Handled'
    <2>1. LogGrows /\ Handled = 1..(MsgId - 1) /\ Handled' = 1..MsgId
      BY <1>2, QueueTake
    <2>2. MsgId \in Int  BY <1>1, QueuedKnown
    <2> QED  BY <2>1, <2>2
  <1>4. MsgId \in Nat  BY <1>1, QueuedKnown
  <1>5. \A c \in Conns : /\ Moves(log, c, Outgoing(c), Outgoing(c)', Live(c)')
                         /\ Live(c)' <=> Live(c)
    BY <1>1, <1>2, <1>4, SendMoves DEF Live
  <1>6. CASE IsFull(Channel)
    <2>1. \A ch \in Channels, c \in Conns : c \in subscribers'[ch] => c \in subscribers[ch]
      BY <1>2, <1>6
    <2> QED  BY <1>2, <1>3, <1>5, <2>1, DeliveryKept
  <1>7. CASE ~IsFull(Channel)
    <2>1. StreamInv' /\ Calm  BY <1>3, <1>5, StreamsMove
    <2>2. FwdInv'  BY <1>2, <1>3, <2>1, ForwardsKept
    <2>3. ASSUME NEW ch \in Channels, NEW c \in Conns, c \in subscribers'[ch]
          PROVE  /\ ch \in channels' /\ SpokenIn(log', c)
                 /\ Live(c)' => AckedIn(log', Outgoing(c)', ch)
      <3>1. subscribers \in [Channels -> SUBSET Conns]
        BY DEF TypeInv, TypeOK, ChannelsTypeOK
      <3>2. c \in subscribers[ch] \/ (c = Sender /\ ch = Channel)
        BY <1>1, <1>2, <1>7, <2>3, <3>1
      <3>3. CASE c \in subscribers[ch]
        BY <1>2, <1>5, <2>1, <3>3 DEF MemberInv, Calm
      <3>4. CASE c = Sender /\ ch = Channel
        <4>1. ASSUME Live(c)'
              PROVE  AckedIn(log', Outgoing(c)', ch)
          <5> DEFINE f == NewFrame("reply", IF Sender \in binary THEN "binary" ELSE "text", MsgId)
          <5>1. f \in Frame /\ f.kind = "reply" /\ f.id = MsgId
            BY <1>4 DEF NewFrame, Frame
          <5>2. wq' = Enqueue(Sender, f)  BY <1>2, <1>7 DEF Send
          <5> HIDE DEF f
          <5>3. Live(Sender)  BY <1>5, <3>4, <4>1
          <5>4. Outgoing(c)' = Append(Outgoing(c), f) /\ Outgoing(c) \in Seq(Frame)
            BY <1>1, <1>2, <3>4, <5>1, <5>2, <5>3, OutEnqueue, OutgoingType
          <5>5. AckedIn(log, Append(Outgoing(c), f), ch)
            <6>1. \A s \in Seq(Frame) : /\ Len(s) + 1 \in DOMAIN Append(s, f)
                                        /\ Append(s, f)[Len(s) + 1] = f
              BY <5>1
            <6> QED  BY <1>1, <3>4, <5>1, <5>4, <6>1 DEF AckedIn, Channel
          <5> QED  BY <1>2, <5>4, <5>5
        <4> QED  BY <1>1, <1>2, <3>4, <4>1
      <3> QED  BY <3>2, <3>3, <3>4
    <2> QED  BY <2>1, <2>2, <2>3 DEF MemberInv
  <1> QED  BY <1>6, <1>7

\* A publication: what is queued for a member is behind its acknowledgment and
\* newer than all that is queued for it or sent to it.
LEMMA DeliveryPublish ==
  ASSUME TypeInv, QueueInv, PlaceInv, StreamInv, MemberInv, FwdInv, HandlePublish
  PROVE  StreamInv' /\ MemberInv' /\ FwdInv'
  <1>1. /\ MsgId \in DOMAIN log /\ log[MsgId].ch = Channel
        /\ Sender \in Conns /\ Channel \in Channels /\ SpokenIn(log, Sender)
    BY SenderKnown DEF HandlePublish, Channel
  <1>2. /\ Taking("message") /\ UNCHANGED <<deaf, wire, log, connections>>
        /\ IF Channel \in channels
           THEN Publish(Channel, MsgId, Sender) /\ wq' = Send(Sender, "reply", MsgId)
           ELSE UNCHANGED channelVars /\ wq' = Send(Sender, "error", 0)
    BY DEF HandlePublish, Handling
  <1>3. LogGrows /\ Handled = 1..(MsgId - 1) /\ Handled' = 1..MsgId
    BY <1>2, QueueTake
  <1>4. MsgId \in Nat /\ MsgId \in Int /\ MsgId > 0  BY <1>1, QueuedKnown
  <1>5. /\ Handled \subseteq Handled' /\ MsgId \in Handled'
        /\ \A m \in Handled : m < MsgId
    BY <1>3, <1>4
  <1>6. \A c \in Conns : /\ Moves(log, c, Outgoing(c), Outgoing(c)', Live(c)')
                         /\ Live(c)' <=> Live(c)
    BY <1>1, <1>2, <1>4, SendMoves DEF Live
  <1>7. CASE Channel \notin channels
    BY <1>2, <1>3, <1>5, <1>6, <1>7, DeliveryKept DEF channelVars
  <1>8. CASE Channel \in channels
    <2>1. StreamInv' /\ Calm  BY <1>3, <1>5, <1>6, StreamsMove
    <2>2. Publish(Channel, MsgId, Sender) /\ UNCHANGED <<channels, subscribers>>
      BY <1>2, <1>8 DEF Publish
    <2>3. MemberInv'  BY <1>3, <2>1, <2>2, MembersKept
    <2>4. ASSUME NEW c \in Conns, NEW k \in DOMAIN fwdQ', fwdQ'[k].to = c
          PROVE  /\ fwdQ'[k].id \in Handled' /\ SpokenIn(log', c)
                 /\ Live(c)' => AckedIn(log', Outgoing(c)', log'[fwdQ'[k].id].ch)
                 /\ \A i \in DOMAIN Outgoing(c)' :
                       Outgoing(c)'[i].kind = "channel" => Outgoing(c)'[i].id < fwdQ'[k].id
                 /\ \A l \in DOMAIN fwdQ' :
                       k < l /\ fwdQ'[l].to = c => fwdQ'[k].id < fwdQ'[l].id
      <3>1. /\ \A i \in DOMAIN fwdQ : i \in DOMAIN fwdQ' /\ fwdQ'[i] = fwdQ[i]
            /\ \A i \in DOMAIN fwdQ' : i \notin DOMAIN fwdQ =>
                  /\ fwdQ'[i].id = MsgId /\ fwdQ'[i].to \in subscribers[Channel] \ {Sender}
                  /\ \A l \in DOMAIN fwdQ : l < i
            /\ \A i, l \in DOMAIN fwdQ' :
                  i \notin DOMAIN fwdQ /\ l \notin DOMAIN fwdQ /\ fwdQ'[i].to = fwdQ'[l].to => i = l
        BY <1>1, <1>4, <2>2, PublishFansOut
      <3>2. NoneNew(Outgoing(c), Outgoing(c)')  BY <2>1 DEF Calm
      <3>3. \A ch : Live(c)' /\ AckedIn(log, Outgoing(c), ch) => AckedIn(log', Outgoing(c)', ch)
        BY <2>1 DEF Calm
      <3>4. DOMAIN fwdQ' \subseteq Int
        <4>1. fwdQ' \in Seq([to: Conns, id: Nat])
          BY <1>1, <1>4, <2>2, PublishType DEF TypeInv, ChannelsTypeOK
        <4> QED  BY <4>1
      <3>5. CASE k \in DOMAIN fwdQ
        <4>1. /\ fwdQ[k].id \in Handled /\ SpokenIn(log, c)
              /\ Live(c) => AckedIn(log, Outgoing(c), log[fwdQ[k].id].ch)
              /\ \A i \in DOMAIN Outgoing(c) :
                    Outgoing(c)[i].kind = "channel" => Outgoing(c)[i].id < fwdQ[k].id
              /\ \A l \in DOMAIN fwdQ : k < l /\ fwdQ[l].to = c => fwdQ[k].id < fwdQ[l].id
          BY <2>4, <3>1, <3>5 DEF FwdInv, Ahead
        <4>2. \A l \in DOMAIN fwdQ' :
                 k < l /\ fwdQ'[l].to = c => fwdQ'[k].id < fwdQ'[l].id
          BY <1>5, <3>1, <3>5, <4>1
        <4>3. \A i \in DOMAIN Outgoing(c)' :
                 Outgoing(c)'[i].kind = "channel" => Outgoing(c)'[i].id < fwdQ'[k].id
          BY <3>1, <3>2, <3>5, <4>1 DEF NoneNew
        <4>4. Live(c)' => AckedIn(log', Outgoing(c)', log'[fwdQ'[k].id].ch)
          BY <1>2, <1>6, <3>1, <3>3, <3>5, <4>1
        <4> QED  BY <1>2, <1>5, <3>1, <3>5, <4>1, <4>2, <4>3, <4>4
      <3>6. CASE k \notin DOMAIN fwdQ
        <4>1. fwdQ'[k].id = MsgId /\ c \in subscribers[Channel]  BY <2>4, <3>1, <3>6
        <4>2. SpokenIn(log, c) /\ (Live(c) => AckedIn(log, Outgoing(c), Channel))
          BY <1>1, <4>1 DEF MemberInv
        <4>3. \A i \in DOMAIN Outgoing(c) :
                 Outgoing(c)[i].kind = "channel" => Outgoing(c)[i].id < MsgId
          BY <1>5 DEF StreamInv, Stream
        <4>4. \A i \in DOMAIN Outgoing(c)' :
                 Outgoing(c)'[i].kind = "channel" => Outgoing(c)'[i].id < fwdQ'[k].id
          BY <3>2, <4>1, <4>3 DEF NoneNew
        <4>5. \A l \in DOMAIN fwdQ' : ~(k < l /\ fwdQ'[l].to = c)
          <5> SUFFICES ASSUME NEW l \in DOMAIN fwdQ', k < l, fwdQ'[l].to = c PROVE FALSE
            OBVIOUS
          <5>1. k \in Int /\ l \in Int  BY <3>4
          <5>2. CASE l \in DOMAIN fwdQ  BY <3>1, <3>6, <5>1, <5>2
          <5>3. CASE l \notin DOMAIN fwdQ
            <6>1. k = l  BY <2>4, <3>1, <3>6, <5>3
            <6> QED  BY <5>1, <6>1
          <5> QED  BY <5>2, <5>3
        <4>6. Live(c)' => AckedIn(log', Outgoing(c)', log'[fwdQ'[k].id].ch)
          BY <1>1, <1>2, <1>6, <3>3, <4>1, <4>2
        <4> QED  BY <1>2, <1>5, <4>1, <4>2, <4>4, <4>5, <4>6
      <3> QED  BY <3>5, <3>6
    <2>5. FwdInv'  BY <2>4 DEF FwdInv, Ahead
    <2> QED  BY <2>1, <2>3, <2>5
  <1> QED  BY <1>7, <1>8

\* The forwarder: what it sends comes behind the acknowledgment and whatever of
\* the channels was sent before, and what it still has comes behind that.
LEMMA DeliveryForward ==
  ASSUME TypeInv, PlaceInv, StreamInv, MemberInv, FwdInv, Forward
  PROVE  StreamInv' /\ MemberInv' /\ FwdInv'
  <1> DEFINE Pair == [to: Conns, id: Nat]
             e == Head(fwdQ)
             f == NewFrame("channel", IF e.to \in binary THEN "binary" ELSE "text", e.id)
  <1>1. /\ fwdQ \in Seq(Pair) /\ fwdQ # <<>> /\ fwdQ' = Tail(fwdQ)
        /\ wq' = Enqueue(e.to, f)
        /\ UNCHANGED <<phase, connections, deaf, binary, events, wire, log, channels, subscribers>>
    BY DEF Forward, Send, TypeInv, TypeOK, ChannelsTypeOK
  <1>2. /\ e \in Pair /\ 1 \in DOMAIN fwdQ /\ e = fwdQ[1]
        /\ \A k \in DOMAIN fwdQ' : k + 1 \in DOMAIN fwdQ /\ fwdQ'[k] = fwdQ[k + 1]
        /\ \A k \in DOMAIN fwdQ' : 1 < k + 1 /\ k \in Int
    <2> HIDE DEF Pair
    <2> QED  BY <1>1
  <1>3. e.to \in Conns /\ e.id \in Nat  BY <1>2
  <1>4. /\ f \in Frame /\ f.kind = "channel" /\ f.id = e.id
        /\ e.to \in binary => f.enc = "binary"
    BY <1>3 DEF NewFrame, Frame
  <1> HIDE DEF e, f, Pair
  <1>5. Handled' = Handled /\ \A c \in Conns : Live(c)' <=> Live(c)
    BY <1>1 DEF Handled, Queued, Live
  <1>6. /\ e.id \in Handled /\ SpokenIn(log, e.to)
        /\ Live(e.to) => AckedIn(log, Outgoing(e.to), log[e.id].ch)
        /\ \A i \in DOMAIN Outgoing(e.to) :
              Outgoing(e.to)[i].kind = "channel" => Outgoing(e.to)[i].id < e.id
        /\ \A l \in DOMAIN fwdQ : 1 < l /\ fwdQ[l].to = e.to => e.id < fwdQ[l].id
    BY <1>2, <1>3 DEF FwdInv, Ahead
  <1>7. ASSUME NEW c \in Conns
        PROVE  /\ Stream(log, Handled, c, Outgoing(c)')
               /\ \A ch : AckedIn(log, Outgoing(c), ch) => AckedIn(log, Outgoing(c)', ch)
               /\ \A i \in DOMAIN Outgoing(c)' :
                     \/ Outgoing(c)'[i] = f /\ c = e.to
                     \/ \E j \in DOMAIN Outgoing(c) : Outgoing(c)'[i] = Outgoing(c)[j]
    <2> DEFINE s == Outgoing(c)
    <2>1. Stream(log, Handled, c, s) /\ s \in Seq(Frame)
      BY OutgoingType DEF StreamInv
    <2>2. CASE c = e.to /\ Live(e.to)
      <3>1. Outgoing(c)' = Append(s, f)  BY <1>1, <1>3, <1>4, <2>2, OutEnqueue
      <3>2. BinaryOnly(log, c) => c \in binary
        BY <1>6, <2>2 DEF BinaryOnly, SpokenIn, PlaceInv, UsedBinary
      <3>3. AckedIn(log, s, log[f.id].ch) /\ f.id \in Handled
            /\ \A i \in DOMAIN s : s[i].kind = "channel" => s[i].id < f.id
        BY <1>4, <1>6, <2>2
      <3> HIDE DEF s
      <3>4. Stream(log, Handled, c, Append(s, f))
            /\ \A ch : AckedIn(log, s, ch) => AckedIn(log, Append(s, f), ch)
        BY <1>4, <2>1, <2>2, <3>2, <3>3, StreamAppend
      <3>5. \A i \in DOMAIN Append(s, f) :
               Append(s, f)[i] = f \/ \E j \in DOMAIN s : Append(s, f)[i] = s[j]
        BY <1>4, <2>1
      <3> QED  BY <2>2, <3>1, <3>4, <3>5 DEF s
    <2>3. CASE ~(c = e.to /\ Live(e.to))
      <3>1. Outgoing(c)' = s  BY <1>1, <1>3, <1>4, <2>3, OutEnqueue
      <3> QED  BY <2>1, <3>1
    <2> QED  BY <2>2, <2>3
  <1>8. StreamInv'  BY <1>1, <1>5, <1>7 DEF StreamInv
  <1>9. MemberInv'  BY <1>1, <1>5, <1>7 DEF MemberInv
  <1>10. ASSUME NEW c \in Conns, NEW k \in DOMAIN fwdQ', fwdQ'[k].to = c
         PROVE  /\ fwdQ'[k].id \in Handled /\ SpokenIn(log, c)
                /\ Live(c) => AckedIn(log, Outgoing(c)', log[fwdQ'[k].id].ch)
                /\ \A i \in DOMAIN Outgoing(c)' :
                      Outgoing(c)'[i].kind = "channel" => Outgoing(c)'[i].id < fwdQ'[k].id
                /\ \A l \in DOMAIN fwdQ' :
                      k < l /\ fwdQ'[l].to = c => fwdQ'[k].id < fwdQ'[l].id
    <2>1. k + 1 \in DOMAIN fwdQ /\ fwdQ'[k] = fwdQ[k + 1] /\ 1 < k + 1 /\ k \in Int  BY <1>2
    <2>2. /\ fwdQ[k + 1].id \in Handled /\ SpokenIn(log, c)
          /\ Live(c) => AckedIn(log, Outgoing(c), log[fwdQ[k + 1].id].ch)
          /\ \A i \in DOMAIN Outgoing(c) :
                Outgoing(c)[i].kind = "channel" => Outgoing(c)[i].id < fwdQ[k + 1].id
          /\ \A l \in DOMAIN fwdQ :
                k + 1 < l /\ fwdQ[l].to = c => fwdQ[k + 1].id < fwdQ[l].id
      BY <1>10, <2>1 DEF FwdInv, Ahead
    <2>3. \A i \in DOMAIN Outgoing(c)' :
             Outgoing(c)'[i].kind = "channel" => Outgoing(c)'[i].id < fwdQ'[k].id
      <3>1. c = e.to => f.id < fwdQ'[k].id  BY <1>4, <1>6, <1>10, <2>1
      <3> QED  BY <1>7, <2>1, <2>2, <3>1
    <2>4. \A l \in DOMAIN fwdQ' : k < l /\ fwdQ'[l].to = c => fwdQ'[k].id < fwdQ'[l].id
      <3> SUFFICES ASSUME NEW l \in DOMAIN fwdQ', k < l, fwdQ'[l].to = c
                   PROVE  fwdQ'[k].id < fwdQ'[l].id
        OBVIOUS
      <3>1. l + 1 \in DOMAIN fwdQ /\ fwdQ'[l] = fwdQ[l + 1] /\ l \in Int  BY <1>2
      <3>2. k + 1 < l + 1  BY <2>1, <3>1
      <3> QED  BY <2>1, <2>2, <3>1, <3>2
    <2> QED  BY <1>7, <2>1, <2>2, <2>3, <2>4
  <1>11. FwdInv'  BY <1>1, <1>5, <1>10 DEF FwdInv, Ahead
  <1> QED  BY <1>8, <1>9, <1>11

\* The tasks of a connection post what they read; they take nothing.
LEMMA QueueTransport ==
  ASSUME TypeInv, QueueInv, NEW c \in Conns, TransportStep(c)
  PROVE  QueueInv' /\ Handled' = Handled /\ LogGrows
  <1>0. log \in Seq(Message) /\ Len(log) + 1 \in Nat /\ 0 \in Nat
    BY DEF TypeInv, TypeOK, TransportTypeOK
  <1>1. ASSUME NEW kind \in {"connected", "noise", "disconnected"}, PostEvent(kind, c, 0), log' = log
        PROVE  QueueInv' /\ Handled' = Handled /\ LogGrows
    BY <1>0, <1>1, QueuePost
  <1>2. ASSUME NEW kind \in Kinds \cap MessageKinds, NEW ch \in Channels,
               NEW enc \in Encodings, ReadMessage(c, kind, ch, enc)
        PROVE  QueueInv' /\ Handled' = Handled /\ LogGrows
    <2> DEFINE m == [conn |-> c, kind |-> kind, ch |-> ch, enc |-> enc]
    <2>1. m \in Message  BY TransportAssumption DEF Message
    <2>2. log' = Append(log, m) /\ PostEvent("message", c, Len(log) + 1)
      BY <1>2 DEF ReadMessage
    <2> HIDE DEF m
    <2> QED  BY <1>0, <2>1, <2>2, QueuePost
  <1>3. CASE UNCHANGED <<events, log>>
    BY <1>3, QueueCalm
  <1> QED
    BY <1>1, <1>2, <1>3
    DEF TransportStep, Reads, Accept, Greet, ReadNoise, ReadPing, NextFrame, PingTick,
        WriteFrame, WriteFails, EndRead, Cleanup

\* Taking an event only adds to what is handled.
LEMMA TakeHandles ==
  ASSUME TypeInv, QueueInv, NEW kind, Taking(kind), log' = log
  PROVE  QueueInv' /\ LogGrows /\ Handled \subseteq Handled'
  <1>1. QueueInv' /\ LogGrows  BY QueueTake
  <1>2. CASE kind # "message"  BY <1>1, <1>2, QueueTake
  <1>3. CASE kind = "message"
    <2>1. MsgId \in DOMAIN log /\ Handled = 1..(MsgId - 1) /\ Handled' = 1..MsgId
      BY <1>3, QueueTake
    <2>2. MsgId \in Int  BY <2>1, QueuedKnown
    <2> QED  BY <1>1, <2>1, <2>2
  <1> QED  BY <1>2, <1>3

\* Messages are handled in the order they were read.
LEMMA QueueStep ==
  ASSUME TypeInv, QueueInv, [Next]_vars
  PROVE  QueueInv' /\ LogGrows /\ Handled \subseteq Handled'
  <1>1. CASE TransportNext
    BY <1>1, QueueTransport DEF TransportNext
  <1>2. CASE HandleEvent
    <2>1. log' = log /\ \E kind \in {"connected", "noise", "disconnected", "message"} : Taking(kind)
      BY <1>2
      DEF HandleEvent, HandleLogged, HandleDisconnected, HandleSubscribe, HandleUnsubscribe,
          HandlePublish, HandlePrompt, HandleRequest, HandleDisconnect, HandleOther, Handling
    <2> QED  BY <2>1, TakeHandles
  <1>3. CASE AnswerRequest \/ Forward \/ Shutdown \/ UNCHANGED vars
    <2>1. UNCHANGED <<events, log>>
      BY <1>3 DEF AnswerRequest, Forward, Shutdown, vars, transportVars
    <2> QED  BY <2>1, QueueCalm
  <1> QED  BY <1>1, <1>2, <1>3 DEF Next

\* A step of a connection's own tasks brings nobody to life who has spoken.
LEMMA LiveTransport ==
  ASSUME TypeInv, PlaceInv, NEW c \in Conns, TransportStep(c), NEW d \in Conns, Live(d)'
  PROVE  Live(d) \/ ~SpokenIn(log, d)
  <1>1. CASE Accept(c)
    <2>1. d # c => Live(d)  BY <1>1 DEF Accept, Live
    <2>2. ~SpokenIn(log, c)  BY <1>1 DEF Accept, PlaceInv, SpokenIn
    <2> QED  BY <2>1, <2>2
  <1>2. CASE ~Accept(c)
    <2>1. connections' \subseteq connections /\ deaf \subseteq deaf'
      BY <1>2
      DEF TransportStep, Reads, Greet, ReadMessage, ReadNoise, ReadPing, NextFrame, PingTick,
          WriteFrame, WriteFails, EndRead, Cleanup
    <2> QED  BY <2>1 DEF Live
  <1> QED  BY <1>1, <1>2

DeliveryInv == QueueInv /\ PlaceInv /\ StreamInv /\ MemberInv /\ FwdInv

\* Nothing has been said or sent at the start.
LEMMA DeliveryInit ==
  ASSUME Init
  PROVE  DeliveryInv
  <1>1. /\ log = <<>> /\ events = <<>> /\ fwdQ = <<>> /\ deaf = {} /\ connections = {}
        /\ \A c \in Conns : phase[c] = "idle" /\ wire[c] = <<>> /\ wq[c] = <<>>
        /\ \A ch \in Channels : subscribers[ch] = {}
    BY DEF Init, TransportInit, ChannelsInit
  <1>2. DOMAIN <<>> = {}  OBVIOUS
  <1>3. QueueInv /\ Handled = {}  BY <1>1, <1>2 DEF QueueInv, Queued, Handled
  <1>4. PlaceInv  BY <1>1, <1>2 DEF PlaceInv, Live
  <1>5. \A c \in Conns : Outgoing(c) = <<>>
    <2>1. <<>> \o <<>> = <<>>  OBVIOUS
    <2> QED  BY <1>1, <2>1 DEF Outgoing
  <1>6. StreamInv  BY <1>2, <1>5 DEF StreamInv, Stream
  <1>7. MemberInv  BY <1>1 DEF MemberInv
  <1>8. FwdInv  BY <1>1, <1>2 DEF FwdInv, Ahead
  <1> QED  BY <1>3, <1>4, <1>6, <1>7, <1>8 DEF DeliveryInv

\* Every handler and every task keeps what is on its way in order.
LEMMA DeliveryStep ==
  ASSUME TypeInv, CloseInv, DeliveryInv, [Next]_vars
  PROVE  DeliveryInv'
  <1> USE DEF DeliveryInv
  <1>0. QueueInv' /\ LogGrows /\ Handled \subseteq Handled' /\ PlaceInv'
    BY QueueStep, PlaceStep
  <1>1. ASSUME fwdQ' = fwdQ, channels \subseteq channels',
               \A c \in Conns : Moves(log, c, Outgoing(c), Outgoing(c)', Live(c)'),
               \A c \in Conns : Live(c)' => Live(c) \/ ~SpokenIn(log, c),
               \A ch \in Channels, c \in Conns : c \in subscribers'[ch] => c \in subscribers[ch]
        PROVE  StreamInv' /\ MemberInv' /\ FwdInv'
    BY <1>0, <1>1, DeliveryKept
  <1>2. ASSUME UNCHANGED <<wq, wire>>, NEW c \in Conns
        PROVE  Moves(log, c, Outgoing(c), Outgoing(c)', Live(c)')
    BY <1>2 DEF Moves, Outgoing
  <1>3. CASE TransportNext
    <2>1. PICK c \in Conns : TransportStep(c) /\ UNCHANGED channelVars
      BY <1>3 DEF TransportNext
    <2> QED  BY <1>0, <1>1, <2>1, MovesTransport, LiveTransport DEF channelVars
  <1>4. ASSUME NEW S, Handling(S)
        PROVE  /\ MsgId \in DOMAIN log /\ MsgId \in Nat /\ Sender \in Conns
               /\ SpokenIn(log, Sender) /\ Channel \in Channels
               /\ UNCHANGED <<deaf, wire>>
    <2>1. DOMAIN log = 1..Len(log) /\ Len(log) \in Nat  BY QueuedKnown
    <2> QED  BY <1>4, <2>1, SenderKnown DEF Handling
  <1>5. CASE HandleEvent
    <2>1. ASSUME NEW kind \in {"connected", "noise"}, HandleLogged(kind)
          PROVE  StreamInv' /\ MemberInv' /\ FwdInv'
      BY <1>0, <1>1, <1>2, <2>1 DEF HandleLogged, channelVars, Live
    <2>2. CASE HandleDisconnected
      <3>1. /\ UNCHANGED <<wq, wire, connections, deaf, fwdQ, channels>>
            /\ \A ch \in Channels : subscribers'[ch] \subseteq subscribers[ch]
        BY <2>2 DEF HandleDisconnected, RemoveConnection
      <3> QED  BY <1>0, <1>1, <1>2, <3>1 DEF Live
    <2>3. CASE HandleSubscribe  BY <1>0, <2>3, DeliverySubscribe
    <2>4. CASE HandlePublish  BY <1>0, <2>4, DeliveryPublish
    <2>5. CASE HandleUnsubscribe
      <3>1. /\ UNCHANGED <<deaf, wire, connections, fwdQ, channels>>
            /\ subscribers' = [subscribers EXCEPT ![Channel] = @ \ {Sender}]
            /\ wq' = Send(Sender, "reply", MsgId)
        BY <1>4, <2>5 DEF HandleUnsubscribe, Unsubscribe
      <3>2. \A ch \in Channels : subscribers'[ch] \subseteq subscribers[ch]
        BY <3>1 DEF TypeInv, TypeOK, ChannelsTypeOK
      <3>3. \A c \in Conns : Moves(log, c, Outgoing(c), Outgoing(c)', Live(c)')
        BY <1>4, <2>5, <3>1, SendMoves DEF HandleUnsubscribe
      <3> QED  BY <1>0, <1>1, <3>1, <3>2, <3>3 DEF Live
    <2>6. CASE HandlePrompt
      <3>1. /\ UNCHANGED <<deaf, wire, connections, channelVars>>
            /\ wq' = Send(Sender, "reply", MsgId)
        BY <1>4, <2>6 DEF HandlePrompt
      <3>2. \A c \in Conns : Moves(log, c, Outgoing(c), Outgoing(c)', Live(c)')
        BY <1>4, <2>6, <3>1, SendMoves DEF HandlePrompt
      <3> QED  BY <1>0, <1>1, <3>1, <3>2 DEF Live, channelVars
    <2>7. CASE HandleRequest \/ HandleOther
      BY <1>0, <1>1, <1>2, <1>4, <2>7 DEF HandleRequest, HandleOther, channelVars, Live
    <2>8. CASE HandleDisconnect
      <3>1. /\ UNCHANGED <<deaf, wire, channelVars>> /\ Close({Sender})
            /\ connections' \subseteq connections
        BY <1>4, <2>8 DEF HandleDisconnect, Close
      <3>2. \A c \in Conns : Moves(log, c, Outgoing(c), Outgoing(c)', Live(c)')
        BY <3>1, CloseMoves
      <3> QED  BY <1>0, <1>1, <3>1, <3>2 DEF Live, channelVars
    <2> QED
      BY <1>0, <1>5, <2>1, <2>2, <2>3, <2>4, <2>5, <2>6, <2>7, <2>8 DEF HandleEvent
  <1>6. CASE AnswerRequest
    <2>1. /\ awaiting \in DOMAIN log /\ awaiting \in Nat /\ log[awaiting].conn \in Conns
          /\ SpokenIn(log, log[awaiting].conn)
      <3>1. awaiting \in 1..Len(log)  BY <1>6 DEF AnswerRequest, TypeInv, TypeOK
      <3>2. DOMAIN log = 1..Len(log) /\ Len(log) \in Nat  BY QueuedKnown
      <3> QED  BY <3>1, <3>2, KnownConns DEF SpokenIn
    <2>2. /\ UNCHANGED <<deaf, wire, connections, channelVars>>
          /\ wq' = Send(log[awaiting].conn, "reply", awaiting)
      BY <1>6 DEF AnswerRequest
    <2>3. \A c \in Conns : Moves(log, c, Outgoing(c), Outgoing(c)', Live(c)')
      BY <2>1, <2>2, SendMoves
    <2> QED  BY <1>0, <1>1, <2>2, <2>3 DEF Live, channelVars
  <1>7. CASE Forward
    BY <1>0, <1>7, DeliveryForward
  <1>8. CASE Shutdown
    <2>1. /\ UNCHANGED <<deaf, wire, channelVars>> /\ Close(connections)
          /\ connections' \subseteq connections
      BY <1>8 DEF Shutdown, Close
    <2>2. \A c \in Conns : Moves(log, c, Outgoing(c), Outgoing(c)', Live(c)')
      BY <2>1, CloseMoves
    <2> QED  BY <1>0, <1>1, <2>1, <2>2 DEF Live, channelVars
  <1>9. CASE UNCHANGED vars
    BY <1>0, <1>1, <1>2, <1>9 DEF vars, transportVars, channelVars, Live
  <1> QED  BY <1>0, <1>3, <1>5, <1>6, <1>7, <1>8, <1>9 DEF Next

LEMMA DeliveryAlways == Spec => [](TypeInv /\ CloseInv /\ DeliveryInv)
  <1>1. TypeInv /\ CloseInv /\ DeliveryInv /\ [Next]_vars => DeliveryInv'
    BY DeliveryStep
  <1>2. Init => DeliveryInv  BY DeliveryInit
  <1> QED  BY <1>1, <1>2, TypeInit, TypeStep, CloseInit, CloseStep, PTL DEF Spec

\* Whatever the tasks interleave, one who only ever spoke the binary framing is
\* answered in it: ws.rs remembers the framing before it posts the message, and
\* forgets it only once nothing can be sent any more.
THEOREM FramingIsAnswered == Spec => []BinaryAnsweredInBinary
  <1>1. DeliveryInv => BinaryAnsweredInBinary
    BY DEF DeliveryInv, StreamInv, Stream, BinaryAnsweredInBinary, BinaryOnly, Answering
  <1> QED  BY <1>1, DeliveryAlways, PTL

\* No message of a channel overtakes the acknowledgment of the subscription,
\* although they reach the socket through different tasks.
THEOREM AcknowledgedFirst == Spec => []AckBeforeMessages
  <1>1. ASSUME TypeInv, DeliveryInv PROVE AckBeforeMessages
    <2> SUFFICES ASSUME NEW c \in Conns, NEW i \in DOMAIN Outgoing(c),
                        Outgoing(c)[i].kind = "channel"
                 PROVE  \E j \in 1..(i - 1) :
                           /\ Outgoing(c)[j].kind = "reply"
                           /\ log[Outgoing(c)[j].id].kind = "subscribe"
                           /\ log[Outgoing(c)[j].id].ch = log[Outgoing(c)[i].id].ch
      BY DEF AckBeforeMessages
    <2>1. PICK j \in DOMAIN Outgoing(c) :
             /\ j < i /\ Outgoing(c)[j].kind = "reply"
             /\ log[Outgoing(c)[j].id].kind = "subscribe"
             /\ log[Outgoing(c)[j].id].ch = log[Outgoing(c)[i].id].ch
      BY <1>1 DEF DeliveryInv, StreamInv, Stream
    <2>2. Outgoing(c) \in Seq(Frame)  BY <1>1, OutgoingType
    <2>3. j \in 1..(i - 1)  BY <2>1, <2>2
    <2> QED  BY <2>1, <2>3
  <1> QED  BY <1>1, DeliveryAlways, PTL

-----------------------------------------------------------------------------
(* The history of a channel.                                               *)

\* h has the latest of the messages in P, in order, and room for n of them.
Latest(P, h, n) ==
  /\ Len(h) <= n
  /\ \A i \in DOMAIN h : h[i] \in P
  /\ \A i, j \in DOMAIN h : i < j => h[i] < h[j]
  /\ \A m \in P : \/ \E i \in DOMAIN h : h[i] = m
                  \/ Len(h) = n /\ \A i \in DOMAIN h : m < h[i]

\* Pushing a message newer than all, and dropping the oldest when there is one too
\* many, keeps it so.
LEMMA PushLatest ==
  ASSUME NEW P \in SUBSET Nat, NEW h \in Seq(Nat), NEW n \in Nat, NEW id \in Nat,
         Latest(P, h, n), \A p \in P : p < id
  PROVE  Latest(P \cup {id},
                IF n = 0 THEN h
                ELSE IF Len(Append(h, id)) > n THEN Tail(Append(h, id)) ELSE Append(h, id), n)
  <1>1. CASE n = 0
    <2>1. Len(h) = 0 /\ DOMAIN h = {}  BY <1>1 DEF Latest
    <2> QED  BY <1>1, <2>1 DEF Latest
  <1> DEFINE g == Append(h, id)
             k == Len(h) + 1
  <1>2. /\ \A i \in DOMAIN h : i \in DOMAIN g /\ g[i] = h[i] /\ i < k
        /\ k \in DOMAIN g /\ g[k] = id /\ Len(g) = k /\ k \in Nat /\ g # <<>> /\ g \in Seq(Nat)
        /\ \A i \in DOMAIN g : i \in DOMAIN h \/ i = k
        /\ Len(h) \in Nat /\ DOMAIN g \subseteq Int /\ k = Len(h) + 1
        /\ DOMAIN g = 1..k /\ \A i \in DOMAIN g : g[i] \in Nat
    OBVIOUS
  <1> HIDE DEF g, k
  <1>3. \A i \in DOMAIN g : g[i] \in P \cup {id}  BY <1>2 DEF Latest
  <1>4. ASSUME NEW i \in DOMAIN g, NEW j \in DOMAIN g, i < j
        PROVE  g[i] < g[j]
    <2>1. i \in DOMAIN h
      <3>1. i \in Int /\ j \in Int /\ k \in Int /\ j <= k  BY <1>2
      <3>2. i # k  BY <1>4, <3>1
      <3> QED  BY <1>2, <3>2
    <2>2. CASE j \in DOMAIN h  BY <1>2, <1>4, <2>1, <2>2 DEF Latest
    <2>3. CASE j = k  BY <1>2, <2>1, <2>3 DEF Latest
    <2> QED  BY <1>2, <2>2, <2>3
  <1>5. CASE n # 0 /\ ~(Len(g) > n)
    <2>1. \A m \in P \cup {id} : \E i \in DOMAIN g : g[i] = m
      BY <1>2, <1>5 DEF Latest
    <2> QED  BY <1>2, <1>3, <1>4, <1>5, <2>1 DEF Latest, g
  <1>6. CASE n # 0 /\ Len(g) > n
    <2> DEFINE t == Tail(g)
    <2>1. /\ Len(t) = n /\ Len(h) = n /\ k = n + 1
          /\ \A i \in DOMAIN t : i + 1 \in DOMAIN g /\ t[i] = g[i + 1] /\ i \in Int /\ 1 < i + 1
          /\ \A i \in DOMAIN g : i = 1 \/ (i - 1 \in DOMAIN t /\ t[i - 1] = g[i])
          /\ 1 \in DOMAIN g
      <3>1. Len(h) <= n /\ Len(h) \in Nat /\ Len(g) = k /\ k = Len(h) + 1 /\ g \in Seq(Nat)
        BY <1>2 DEF Latest
      <3>2. Len(h) = n /\ k = n + 1 /\ g # <<>>
        BY <1>2, <1>6, <3>1
      <3>3. /\ Len(t) = Len(g) - 1 /\ DOMAIN t = 1..(Len(g) - 1) /\ DOMAIN g = 1..Len(g)
            /\ \A i \in 1..(Len(g) - 1) : t[i] = g[i + 1]
        BY <3>1, <3>2
      <3> HIDE DEF t
      <3>4. /\ Len(t) = n /\ DOMAIN t = 1..n /\ DOMAIN g = 1..(n + 1)
            /\ \A i \in 1..n : t[i] = g[i + 1]
        BY <3>1, <3>2, <3>3
      <3>5. \A i \in 1..n : i + 1 \in 1..(n + 1) /\ i \in Int /\ 1 < i + 1
        OBVIOUS
      <3>6. \A i \in 1..(n + 1) : i = 1 \/ (i - 1 \in 1..n /\ (i - 1) + 1 = i)
        OBVIOUS
      <3>7. \A i \in DOMAIN g : i = 1 \/ (i - 1 \in DOMAIN t /\ t[i - 1] = g[i])
        BY <3>4, <3>6
      <3>8. 1 \in 1..(n + 1)
        OBVIOUS
      <3> QED
        BY <3>2, <3>4, <3>5, <3>7, <3>8
    <2> HIDE DEF t
    <2>2. \A i \in DOMAIN t : t[i] \in P \cup {id} /\ g[1] < t[i]
      BY <1>2, <1>3, <1>4, <2>1
    <2>3. \A i, j \in DOMAIN t : i < j => t[i] < t[j]
      BY <1>4, <2>1
    <2>4. ASSUME NEW m \in P \cup {id}
          PROVE  (\E i \in DOMAIN t : t[i] = m) \/ (\A i \in DOMAIN t : m < t[i])
      <3>1. CASE \E i \in DOMAIN g : g[i] = m
        <4>1. PICK i \in DOMAIN g : g[i] = m  BY <3>1
        <4> QED  BY <2>1, <2>2, <4>1
      <3>2. CASE \A i \in DOMAIN g : g[i] # m
        <4>1. m \in P /\ ~\E i \in DOMAIN h : h[i] = m  BY <1>2, <3>2
        <4>2. \A i \in DOMAIN h : m < h[i]  BY <4>1 DEF Latest
        <4>3. \A i \in DOMAIN g : m < g[i]  BY <1>2, <4>1, <4>2
        <4> QED  BY <2>1, <4>3
      <3> QED  BY <3>1, <3>2
    <2>5. Latest(P \cup {id}, t, n)  BY <2>1, <2>2, <2>3, <2>4 DEF Latest
    <2> QED  BY <1>6, <2>5 DEF t, g
  <1> QED  BY <1>1, <1>5, <1>6 DEF g

\* What was published on ch, of the messages in H.
PublishedIn(L, H, ch) == {m \in H : L[m].kind = "publish" /\ L[m].ch = ch}

\* A configured channel is always there, and its history is the latest of it.
HistInv ==
  /\ Configured \subseteq channels
  /\ \A ch \in Configured : Latest(PublishedIn(log, Handled, ch), history[ch], Size(ch))

\* A history has room for a number of messages.
LEMMA SizeType == \A ch : Size(ch) \in Nat
  BY ChannelsAssumption DEF Size

LEMMA HistStep ==
  ASSUME TypeInv, QueueInv, HistInv, [Next]_vars
  PROVE  HistInv'
  <1>0. LogGrows /\ Handled \subseteq DOMAIN log  BY QueueStep, QueuedKnown
  <1>1. ASSUME Handled' = Handled, UNCHANGED <<channels, history>>
        PROVE  HistInv'
    <2>1. ASSUME NEW ch \in Configured
          PROVE  PublishedIn(log', Handled', ch) = PublishedIn(log, Handled, ch)
      <3>1. \A m \in Handled : log'[m] = log[m]  BY <1>0 DEF LogGrows
      <3> QED  BY <1>1, <3>1 DEF PublishedIn
    <2>2. \A ch : Size(ch)' = Size(ch)  BY DEF Size
    <2> QED  BY <1>1, <2>1, <2>2 DEF HistInv
  <1>2. ASSUME NEW S, Handling(S),
               channels \subseteq channels',
               \A ch \in Configured :
                  \/ /\ history'[ch] = history[ch]
                     /\ ~(log[MsgId].kind = "publish" /\ log[MsgId].ch = ch)
                  \/ /\ history'[ch] = Pushed(ch, MsgId)
                     /\ log[MsgId].kind = "publish" /\ log[MsgId].ch = ch
        PROVE  HistInv'
    <2>1. /\ MsgId \in DOMAIN log /\ Handled = 1..(MsgId - 1) /\ Handled' = 1..MsgId
          /\ log' = log
      <3>1. Taking("message") /\ log' = log  BY <1>2 DEF Handling
      <3> QED  BY <3>1, QueueTake
    <2>2. DOMAIN log = 1..Len(log) /\ Len(log) \in Nat  BY QueuedKnown
    <2>3. /\ MsgId \in Nat /\ Handled' = Handled \cup {MsgId}
          /\ \A m \in Handled : m \in Nat /\ m < MsgId
      BY <2>1, <2>2
    <2>4. ASSUME NEW ch \in Configured
          PROVE  Latest(PublishedIn(log', Handled', ch), history'[ch], Size(ch))
      <3> DEFINE P == PublishedIn(log, Handled, ch)
      <3>1. Latest(P, history[ch], Size(ch)) /\ P \subseteq Handled
        BY DEF HistInv, PublishedIn
      <3>2. CASE /\ history'[ch] = history[ch]
                 /\ ~(log[MsgId].kind = "publish" /\ log[MsgId].ch = ch)
        <4>1. PublishedIn(log', Handled', ch) = P  BY <2>1, <2>3, <3>2 DEF PublishedIn
        <4> QED  BY <3>1, <3>2, <4>1
      <3>3. CASE /\ history'[ch] = Pushed(ch, MsgId)
                 /\ log[MsgId].kind = "publish" /\ log[MsgId].ch = ch
        <4>1. PublishedIn(log', Handled', ch) = P \cup {MsgId}
          BY <2>1, <2>3, <3>3 DEF PublishedIn
        <4>2. history[ch] \in Seq(Nat)
          BY ChannelsAssumption DEF TypeInv, TypeOK, ChannelsTypeOK
        <4>3. P \in SUBSET Nat /\ \A p \in P : p < MsgId  BY <2>3, <3>1
        <4> HIDE DEF P
        <4>4. Latest(P \cup {MsgId}, Pushed(ch, MsgId), Size(ch))
          BY <2>3, <3>1, <4>2, <4>3, SizeType, PushLatest DEF Pushed
        <4> QED  BY <3>3, <4>1, <4>4
      <3> QED  BY <1>2, <3>2, <3>3
    <2>5. \A ch : Size(ch)' = Size(ch)  BY DEF Size
    <2> QED  BY <1>2, <2>4, <2>5 DEF HistInv
  <1>3. CASE TransportNext
    <2>1. Handled' = Handled /\ UNCHANGED channelVars
      BY <1>3, QueueTransport DEF TransportNext
    <2> QED  BY <1>1, <2>1 DEF channelVars
  <1>4. CASE HandleEvent
    <2>1. ASSUME NEW kind \in {"connected", "noise"}, HandleLogged(kind)
          PROVE  HistInv'
      BY <1>1, <2>1, QueueTake DEF HandleLogged, channelVars
    <2>2. CASE HandleDisconnected
      BY <1>1, <2>2, QueueTake DEF HandleDisconnected, RemoveConnection
    <2>3. ASSUME NEW S, Handling(S), "publish" \notin S, channels \subseteq channels',
                 history' = history
          PROVE  HistInv'
      <3>1. log[MsgId].kind \in S  BY <2>3 DEF Handling, MsgId
      <3> QED  BY <1>2, <2>3, <3>1
    <2>4. CASE HandleSubscribe  BY <2>3, <2>4 DEF HandleSubscribe, Subscribe
    <2>5. CASE HandleUnsubscribe  BY <2>3, <2>5 DEF HandleUnsubscribe, Unsubscribe
    <2>6. CASE HandlePrompt \/ HandleRequest \/ HandleDisconnect \/ HandleOther
      BY <2>3, <2>6 DEF HandlePrompt, HandleRequest, HandleDisconnect, HandleOther, channelVars
    <2>7. CASE HandlePublish
      <3>1. Handling({"publish"}) /\ log[MsgId].kind = "publish" /\ log[MsgId].ch = Channel
        BY <2>7 DEF HandlePublish, Handling, MsgId, Channel
      <3>2. history \in [Channels -> Seq(Nat)]  BY DEF TypeInv, TypeOK, ChannelsTypeOK
      <3>3. CASE Channel \in channels
        <4>1. /\ channels' = channels
              /\ history' = [history EXCEPT ![Channel] = Pushed(Channel, MsgId)]
          BY <2>7, <3>3 DEF HandlePublish, Publish
        <4>2. \A ch \in Configured :
                 history'[ch] = IF ch = Channel THEN Pushed(ch, MsgId) ELSE history[ch]
          BY <3>2, <4>1, ChannelsAssumption
        <4> QED  BY <1>2, <3>1, <4>1, <4>2
      <3>4. CASE Channel \notin channels
        <4>1. UNCHANGED channelVars  BY <2>7, <3>4 DEF HandlePublish
        <4>2. Channel \notin Configured  BY <3>4 DEF HistInv
        <4> QED  BY <1>2, <3>1, <4>1, <4>2 DEF channelVars
      <3> QED  BY <3>3, <3>4
    <2> QED  BY <1>4, <2>1, <2>2, <2>4, <2>5, <2>6, <2>7 DEF HandleEvent
  <1>5. CASE AnswerRequest \/ Forward \/ Shutdown \/ UNCHANGED vars
    <2>1. UNCHANGED <<events, log, channels, history>>
      BY <1>5 DEF AnswerRequest, Forward, Shutdown, vars, transportVars, channelVars
    <2> QED  BY <1>1, <2>1, QueueCalm
  <1> QED  BY <1>3, <1>4, <1>5 DEF Next

\* The ring buffer of a configured channel holds the latest of its messages.
THEOREM HistoryKeepsTheLatest == Spec => []HistoryIsLatest
  <1>1. Init => HistInv
    <2> SUFFICES ASSUME Init PROVE HistInv  OBVIOUS
    <2>1. log = <<>> /\ events = <<>> /\ channels = Configured
          /\ \A ch \in Configured : history[ch] = <<>>
      BY ChannelsAssumption DEF Init, TransportInit, ChannelsInit
    <2>2. DOMAIN <<>> = {} /\ Len(<<>>) = 0  OBVIOUS
    <2>3. \A ch : PublishedIn(log, Handled, ch) = {}  BY <2>1, <2>2 DEF PublishedIn, Handled
    <2>4. \A ch : 0 <= Size(ch)  BY SizeType
    <2> QED  BY <2>1, <2>2, <2>3, <2>4 DEF HistInv, Latest
  <1>2. TypeInv /\ DeliveryInv /\ HistInv /\ [Next]_vars => HistInv'
    BY HistStep DEF DeliveryInv
  <1>3. HistInv => HistoryIsLatest
    <2> SUFFICES ASSUME HistInv, NEW ch \in Configured
                 PROVE  Latest({m \in Handled : log[m].kind = "publish" /\ log[m].ch = ch},
                               history[ch], Size(ch))
      BY DEF HistoryIsLatest, Latest
    <2> QED  BY DEF HistInv, PublishedIn
  <1> QED  BY <1>1, <1>2, <1>3, DeliveryAlways, PTL DEF Spec

-----------------------------------------------------------------------------
(***************************************************************************)
(* Server implements PubSub, for every instance: each step of the loop, of *)
(* the forwarder or of a transport task is a step of PubSub or none at all.*)
(***************************************************************************)

(* What PubSub sees of a connection.                                       *)

\* What it has been sent, and what it will be sent if it stays.
Got(c) == Carried(wire[c])
Due(c) == Carried(wq[c]) \cup IF Live(c) THEN Forwarding(c) ELSE {}

\* What PubSub sees of all of them is as it was, but for the messages.
SameSight ==
  /\ \A c \in Conns : (Live(c)' <=> Live(c)) /\ Due(c)' = Due(c) /\ Got(c)' = Got(c)

\* It is about messages of channels only.
LEMMA CarriedAppend ==
  ASSUME NEW s \in Seq(Frame), NEW f \in Frame
  PROVE  Carried(Append(s, f)) = Carried(s) \cup IF f.kind = "channel" THEN {f.id} ELSE {}
  <1> DEFINE t == Append(s, f)
             n == Len(s) + 1
  <1>1. /\ \A i \in DOMAIN s : i \in DOMAIN t /\ t[i] = s[i]
        /\ n \in DOMAIN t /\ t[n] = f
        /\ \A i \in DOMAIN t : i \in DOMAIN s \/ i = n
    OBVIOUS
  <1> HIDE DEF t, n
  <1>2. \A x \in Carried(t) : x \in Carried(s) \/ (f.kind = "channel" /\ x = f.id)
    BY <1>1 DEF Carried
  <1>3. \A x \in Carried(s) : x \in Carried(t)  BY <1>1 DEF Carried
  <1>4. f.kind = "channel" => f.id \in Carried(t)  BY <1>1 DEF Carried
  <1> QED  BY <1>2, <1>3, <1>4 DEF t

LEMMA CarriedHead ==
  ASSUME NEW s \in Seq(Frame), s # <<>>
  PROVE  /\ Head(s) \in Frame /\ Tail(s) \in Seq(Frame)
         /\ Carried(s) = Carried(Tail(s))
                            \cup IF Head(s).kind = "channel" THEN {Head(s).id} ELSE {}
         /\ \A x \in Carried(Tail(s)) :
               \E j \in DOMAIN s : j > 1 /\ s[j].kind = "channel" /\ s[j].id = x
         /\ 1 \in DOMAIN s /\ Head(s) = s[1]
  <1> DEFINE t == Tail(s)
  <1>1. /\ 1 \in DOMAIN s /\ Head(s) = s[1] /\ s[1] \in Frame /\ t \in Seq(Frame)
        /\ \A i \in DOMAIN t : i + 1 \in DOMAIN s /\ t[i] = s[i + 1] /\ i + 1 > 1
        /\ \A j \in DOMAIN s : j = 1 \/ (j - 1 \in DOMAIN t /\ t[j - 1] = s[j])
    OBVIOUS
  <1> HIDE DEF t
  <1>2. \A x \in Carried(t) :
           \E j \in DOMAIN s : j > 1 /\ s[j].kind = "channel" /\ s[j].id = x
    BY <1>1 DEF Carried
  <1>3. \A x \in Carried(t) : x \in Carried(s)  BY <1>2 DEF Carried
  <1>4. s[1].kind = "channel" => s[1].id \in Carried(s)  BY <1>1 DEF Carried
  <1>5. ASSUME NEW x \in Carried(s)
        PROVE  x \in Carried(t) \/ (s[1].kind = "channel" /\ x = s[1].id)
    <2>1. PICK j \in DOMAIN s : s[j].kind = "channel" /\ x = s[j].id  BY DEF Carried
    <2>2. CASE j = 1  BY <2>1, <2>2
    <2>3. CASE j # 1
      <3>1. j - 1 \in DOMAIN t /\ t[j - 1] = s[j]  BY <1>1, <2>3
      <3> QED  BY <2>1, <3>1 DEF Carried
    <2> QED  BY <2>2, <2>3
  <1> QED  BY <1>1, <1>2, <1>3, <1>4, <1>5 DEF t

LEMMA CarriedEmpty == Carried(<<>>) = {}
  BY DEF Carried

\* Queued frames come behind the written ones.
LEMMA OutgoingParts ==
  ASSUME TypeInv, NEW c \in Conns
  PROVE  /\ \A i \in DOMAIN wq[c] : /\ Len(wire[c]) + i \in DOMAIN Outgoing(c)
                                    /\ Outgoing(c)[Len(wire[c]) + i] = wq[c][i]
         /\ Len(wire[c]) \in Nat /\ DOMAIN wq[c] \subseteq Int
  <1> DEFINE s == wire[c]
             q == wq[c]
  <1>1. s \in Seq(Frame) /\ q \in Seq(Frame)  BY OutgoingType
  <1>2. /\ \A i \in DOMAIN q : Len(s) + i \in DOMAIN (s \o q) /\ (s \o q)[Len(s) + i] = q[i]
        /\ Len(s) \in Nat /\ DOMAIN q \subseteq Int
    <2> HIDE DEF s, q
    <2> QED  BY <1>1
  <1> QED  BY <1>2 DEF Outgoing

\* What is due is numbered, and what the forwarder has for a connection is newer
\* than what its queue has.
LEMMA DueInOrder ==
  ASSUME TypeInv, DeliveryInv, NEW c \in Conns
  PROVE  /\ Carried(wq[c]) \subseteq Nat /\ Forwarding(c) \subseteq Nat /\ Due(c) \subseteq Nat
         /\ \A m \in Carried(wq[c]), n \in Forwarding(c) : m < n
         /\ \A i, j \in DOMAIN wq[c] :
               wq[c][i].kind = "channel" /\ wq[c][j].kind = "channel" /\ i < j =>
                   wq[c][i].id < wq[c][j].id
  <1>1. \A i \in DOMAIN wq[c] : /\ Len(wire[c]) + i \in DOMAIN Outgoing(c)
                                /\ Outgoing(c)[Len(wire[c]) + i] = wq[c][i]
    BY OutgoingParts
  <1>2. Len(wire[c]) \in Nat /\ DOMAIN wq[c] \subseteq Int  BY OutgoingParts
  <1>3. Stream(log, Handled, c, Outgoing(c))  BY DEF DeliveryInv, StreamInv
  <1>4. \A i, j \in DOMAIN wq[c] :
           wq[c][i].kind = "channel" /\ wq[c][j].kind = "channel" /\ i < j =>
               wq[c][i].id < wq[c][j].id
    <2> SUFFICES ASSUME NEW i \in DOMAIN wq[c], NEW j \in DOMAIN wq[c],
                        wq[c][i].kind = "channel", wq[c][j].kind = "channel", i < j
                 PROVE  wq[c][i].id < wq[c][j].id
      OBVIOUS
    <2>1. Len(wire[c]) + i < Len(wire[c]) + j  BY <1>2
    <2> QED  BY <1>1, <1>3, <2>1 DEF Stream
  <1>5. ASSUME NEW m \in Carried(wq[c]), NEW n \in Forwarding(c)
        PROVE  m < n
    <2>1. PICK i \in DOMAIN wq[c] : wq[c][i].kind = "channel" /\ m = wq[c][i].id
      BY <1>5 DEF Carried
    <2>2. PICK k \in DOMAIN fwdQ : fwdQ[k].to = c /\ n = fwdQ[k].id  BY <1>5 DEF Forwarding
    <2>3. Ahead(log, Handled, c, Outgoing(c), fwdQ, Live(c))  BY DEF DeliveryInv, FwdInv
    <2> QED  BY <1>1, <2>1, <2>2, <2>3 DEF Ahead
  <1>6. Carried(wq[c]) \subseteq Nat
    <2>1. \A i \in DOMAIN wq[c] : wq[c][i] \in Frame  BY OutgoingType
    <2> QED  BY <2>1 DEF Carried, Frame
  <1>7. Forwarding(c) \subseteq Nat
    <2> DEFINE Pair == [to: Conns, id: Nat]
    <2>1. fwdQ \in Seq(Pair)  BY DEF TypeInv, TypeOK, ChannelsTypeOK
    <2>2. \A k \in DOMAIN fwdQ : fwdQ[k] \in Pair
      <3> HIDE DEF Pair
      <3> QED  BY <2>1
    <2> QED  BY <2>2 DEF Forwarding
  <1>8. Due(c) \subseteq Nat  BY <1>6, <1>7 DEF Due
  <1> QED  BY <1>4, <1>5, <1>6, <1>7, <1>8

-----------------------------------------------------------------------------
(* The steps of PubSub, in the terms of Server.                            *)

LEMMA MapNone ==
  ASSUME SameSight, UNCHANGED <<log, subscribers>>, Handled' = Handled
  PROVE  UNCHANGED Promise!vars
  BY DEF SameSight, Due, Got, Promise!vars

LEMMA MapAttach ==
  ASSUME NEW c \in Conns, UNCHANGED <<log, subscribers>>, Handled' = Handled,
         Live(c)', \A d \in Conns : d # c => (Live(d)' <=> Live(d)),
         \A d \in Conns : Due(d)' = Due(d) /\ Got(d)' = Got(d),
         Due(c) = {}, Got(c) = {}
  PROVE  Promise!Attach(c)
  BY DEF Due, Got, Promise!Attach

LEMMA MapSay ==
  ASSUME SameSight, NEW m \in Message, log' = Append(log, m), subscribers' = subscribers,
         Handled' = Handled
  PROVE  Promise!Say(m)
  BY DEF SameSight, Due, Got, Promise!Say

LEMMA MapReceive ==
  ASSUME NEW c \in Conns, NEW m, UNCHANGED <<log, subscribers>>, Handled' = Handled,
         \A d \in Conns : /\ Live(d)' <=> Live(d)
                          /\ d # c => Due(d)' = Due(d) /\ Got(d)' = Got(d),
         m \in Due(c), \A n \in Due(c) : m <= n,
         Due(c)' = Due(c) \ {m}, Got(c)' = Got(c) \cup {m}
  PROVE  Promise!Receive(c)
  <1> DEFINE due == [d \in Conns |-> Due(d)]
             got == [d \in Conns |-> Got(d)]
  <1>1. due' = [due EXCEPT ![c] = @ \ {m}]  OBVIOUS
  <1>2. got' = [got EXCEPT ![c] = @ \cup {m}]  OBVIOUS
  <1>3. m \in due[c] /\ \A n \in due[c] : m <= n  OBVIOUS
  <1>4. {d \in Conns : Live(d)}' = {d \in Conns : Live(d)}  OBVIOUS
  <1>5. Cardinality(Handled)' = Cardinality(Handled)  OBVIOUS
  <1> QED  BY <1>1, <1>2, <1>3, <1>4, <1>5 DEF Due, Got, Promise!Receive

\* S goes: what is still due to it is the beginning of what was.
Cut(S) ==
  \A c \in Conns :
     /\ Live(c)' <=> Live(c) /\ c \notin S
     /\ Got(c)' = Got(c) /\ Due(c)' \subseteq Nat
     /\ c \notin S => Due(c)' = Due(c)
     /\ Due(c)' \subseteq Due(c) /\ \A m \in Due(c)', n \in Due(c) \ Due(c)' : m < n

LEMMA MapCutOff ==
  ASSUME NEW S \in SUBSET Conns, Cut(S)
  PROVE  Promise!CutOff(S)
  BY DEF Cut, Due, Got, Promise!CutOff, Promise!Shorten

LEMMA MapForget ==
  ASSUME SameSight, NEW c \in Conns, ~Live(c), log' = log, Handled' = Handled,
         subscribers' = [ch \in Channels |-> subscribers[ch] \ {c}]
  PROVE  Promise!Forget(c)
  BY DEF SameSight, Due, Got, Promise!Forget

\* The first n numbers are n.
LEMMA CountUpTo ==
  ASSUME NEW n \in Nat
  PROVE  Cardinality(1..n) = n
  <1>1. Cardinality(1..n) = IF 1 > n THEN 0 ELSE n - 1 + 1  BY FS_Interval
  <1> QED  BY <1>1

\* The message the loop takes is the next one that takes effect.
LEMMA MapEffect ==
  ASSUME TypeInv, QueueInv, NEW S, Handling(S)
  PROVE  /\ Promise!Effect(log[MsgId].kind)
         /\ Promise!Current = log[MsgId]
         /\ Cardinality(Handled) + 1 = MsgId
  <1>1. /\ MsgId \in DOMAIN log /\ Handled = 1..(MsgId - 1) /\ Handled' = 1..MsgId
        /\ log' = log
    <2>1. Taking("message") /\ log' = log  BY DEF Handling
    <2> QED  BY <2>1, QueueTake
  <1>2. DOMAIN log = 1..Len(log) /\ Len(log) \in Nat  BY QueuedKnown
  <1>3. MsgId \in Nat /\ MsgId - 1 \in Nat /\ MsgId <= Len(log)  BY <1>1, <1>2
  <1>4. Cardinality(Handled) = MsgId - 1  BY <1>1, <1>3, CountUpTo
  <1>5. Cardinality(Handled)' = MsgId
    <2>1. Cardinality(1..MsgId) = MsgId  BY <1>3, CountUpTo
    <2> QED  BY <1>1, <2>1
  <1>6. Cardinality(Handled) + 1 = MsgId /\ Cardinality(Handled) < Len(log)
    BY <1>2, <1>3, <1>4
  <1>7. Cardinality(Handled)' = Cardinality(Handled) + 1  BY <1>5, <1>6
  <1>8. Promise!Current = log[MsgId]  BY <1>6 DEF Promise!Current
  <1>9. Promise!Effect(log[MsgId].kind)
    BY <1>1, <1>6, <1>7 DEF Promise!Effect
  <1> QED  BY <1>6, <1>8, <1>9

\* What is queued and written, when the loop answers one who has spoken, or the
\* transport adds a frame of its own.
LEMMA SightEnqueue ==
  ASSUME TypeInv, NEW c \in Conns, NEW f \in Frame, f.kind # "channel",
         wq' = Enqueue(c, f), UNCHANGED <<wire, connections, deaf, fwdQ>>
  PROVE  SameSight
  <1> SUFFICES ASSUME NEW d \in Conns
               PROVE  (Live(d)' <=> Live(d)) /\ Due(d)' = Due(d) /\ Got(d)' = Got(d)
    BY DEF SameSight
  <1>1. wq \in [Conns -> Seq(Frame)]  BY DEF TypeInv, TypeOK, TransportTypeOK
  <1>2. wq'[d] = wq[d] \/ wq'[d] = Append(wq[d], f)  BY <1>1 DEF Enqueue
  <1>3. wq[d] \in Seq(Frame)  BY <1>1
  <1>4. Carried(Append(wq[d], f)) = Carried(wq[d])  BY <1>3, CarriedAppend
  <1>5. Carried(wq'[d]) = Carried(wq[d])  BY <1>2, <1>4
  <1>6. (Live(d)' <=> Live(d)) /\ Forwarding(d)' = Forwarding(d)  BY DEF Live, Forwarding
  <1> QED  BY <1>5, <1>6 DEF Due, Got

LEMMA SightSend ==
  ASSUME TypeInv, NEW c \in Conns, NEW kind \in {"reply", "error"}, NEW id \in Nat,
         wq' = Send(c, kind, id), UNCHANGED <<wire, connections, deaf, fwdQ>>
  PROVE  SameSight
  <1> DEFINE f == NewFrame(kind, IF c \in binary THEN "binary" ELSE "text", id)
  <1>1. f \in Frame /\ f.kind # "channel"  BY DEF NewFrame, Frame
  <1>2. wq' = Enqueue(c, f)  BY DEF Send
  <1> HIDE DEF f
  <1> QED  BY <1>1, <1>2, SightEnqueue

LEMMA SightCalm ==
  ASSUME UNCHANGED <<wq, wire, connections, deaf, fwdQ>>
  PROVE  SameSight
  BY DEF SameSight, Due, Got, Live, Forwarding

\* Closing connections cuts off what the forwarder still has for them.
LEMMA CutClose ==
  ASSUME TypeInv, DeliveryInv, NEW S \in SUBSET Conns, Close(S), UNCHANGED <<wire, deaf, fwdQ>>
  PROVE  Cut(S)
  <1> SUFFICES ASSUME NEW c \in Conns
               PROVE  /\ Live(c)' <=> Live(c) /\ c \notin S
                      /\ Got(c)' = Got(c) /\ Due(c)' \subseteq Nat
                      /\ c \notin S => Due(c)' = Due(c)
                      /\ Due(c)' \subseteq Due(c)
                      /\ \A m \in Due(c)', n \in Due(c) \ Due(c)' : m < n
    BY DEF Cut
  <1>1. wq[c] \in Seq(Frame)  BY OutgoingType
  <1>2. CloseFrame \in Frame /\ CloseFrame.kind = "close"
    BY DEF CloseFrame, NewFrame, Frame
  <1>3. Carried(Append(wq[c], CloseFrame)) = Carried(wq[c])  BY <1>1, <1>2, CarriedAppend
  <1>4. Carried(wq'[c]) = Carried(wq[c])  BY <1>3 DEF Close
  <1>5. (Live(c)' <=> Live(c) /\ c \notin S) /\ Forwarding(c)' = Forwarding(c)
    BY DEF Live, Forwarding, Close
  <1>6. Got(c)' = Got(c)  BY DEF Got
  <1>7. Due(c)' = Carried(wq[c]) \cup IF Live(c) /\ c \notin S THEN Forwarding(c) ELSE {}
    BY <1>4, <1>5 DEF Due
  <1>8. /\ Due(c) \subseteq Nat
        /\ \A m \in Carried(wq[c]), n \in Forwarding(c) : m < n
    BY DueInOrder
  <1>9. CASE c \notin S \/ ~Live(c)
    <2>1. Due(c)' = Due(c)  BY <1>7, <1>9 DEF Due
    <2> QED  BY <1>5, <1>6, <1>8, <2>1
  <1>10. CASE c \in S /\ Live(c)
    <2>1. Due(c)' = Carried(wq[c]) /\ Due(c) = Carried(wq[c]) \cup Forwarding(c)
      BY <1>7, <1>10 DEF Due
    <2> QED  BY <1>5, <1>6, <1>8, <1>10, <2>1
  <1> QED  BY <1>9, <1>10

-----------------------------------------------------------------------------
(* Each step of Server is one of PubSub, or none.                          *)

\* A task that loses its socket, or ends, drops all that is queued for it.
LEMMA PromiseDrop ==
  ASSUME TypeInv, DeliveryInv, NEW c \in Conns, WriteFails(c) \/ EndRead(c),
         UNCHANGED channelVars, Handled' = Handled
  PROVE  Promise!Detach({c})
  <1>1. wq \in [Conns -> Seq(Frame)]  BY DEF TypeInv, TypeOK, TransportTypeOK
  <1>2. /\ wq' = [wq EXCEPT ![c] = <<>>] /\ deaf' = deaf \cup {c}
        /\ UNCHANGED <<connections, wire, log, subscribers, fwdQ>>
    BY DEF WriteFails, EndRead, channelVars
  <1>3. ASSUME NEW d \in Conns
        PROVE  /\ Live(d)' <=> Live(d) /\ d \notin {c}
               /\ Got(d)' = Got(d)
               /\ d \notin {c} => Due(d)' = Due(d)
               /\ d = c => Due(d)' = {}
    <2>1. (Live(d)' <=> Live(d) /\ d # c) /\ Forwarding(d)' = Forwarding(d)
      BY <1>2 DEF Live, Forwarding
    <2>2. wq'[d] = IF d = c THEN <<>> ELSE wq[d]  BY <1>1, <1>2
    <2>3. Got(d)' = Got(d)  BY <1>2 DEF Got
    <2>4. d = c => Due(d)' = {}  BY <2>1, <2>2, CarriedEmpty DEF Due
    <2>5. d # c => Due(d)' = Due(d)  BY <2>1, <2>2 DEF Due
    <2> QED  BY <2>1, <2>3, <2>4, <2>5
  <1>4. \A d \in Conns : Due(d) \subseteq Nat  BY DueInOrder
  <1>5. Cut({c})
    <2> SUFFICES ASSUME NEW d \in Conns
                 PROVE  /\ Live(d)' <=> Live(d) /\ d \notin {c}
                        /\ Got(d)' = Got(d) /\ Due(d)' \subseteq Nat
                        /\ d \notin {c} => Due(d)' = Due(d)
                        /\ Due(d)' \subseteq Due(d)
                        /\ \A m \in Due(d)', n \in Due(d) \ Due(d)' : m < n
      BY DEF Cut
    <2>1. CASE d = c  BY <1>3, <2>1
    <2>2. CASE d # c  BY <1>3, <1>4, <2>2
    <2> QED  BY <2>1, <2>2
  <1>6. Promise!CutOff({c})
    <2>1. {c} \in SUBSET Conns  OBVIOUS
    <2> QED  BY <1>5, <2>1, MapCutOff
  <1>7. Cardinality(Handled)' = Cardinality(Handled)  OBVIOUS
  <1> QED  BY <1>2, <1>6, <1>7 DEF Promise!Detach

\* The write task hands over the oldest message that is due, or a frame that
\* carries none.
LEMMA PromiseWrite ==
  ASSUME TypeInv, DeliveryInv, NEW c \in Conns, WriteFrame(c), UNCHANGED channelVars,
         Handled' = Handled
  PROVE  Promise!Receive(c) \/ UNCHANGED Promise!vars
  <1> DEFINE f == Head(wq[c])
             q == wq[c]
  <1>1. /\ wq \in [Conns -> Seq(Frame)] /\ wire \in [Conns -> Seq(Frame)]
    BY DEF TypeInv, TypeOK, TransportTypeOK
  <1>2. /\ wq'[c] = Tail(wq[c]) /\ wire'[c] = Append(wire[c], f) /\ wq[c] # <<>>
        /\ \A d \in Conns : d # c => wq'[d] = wq[d] /\ wire'[d] = wire[d]
        /\ UNCHANGED <<connections, deaf, log, subscribers, fwdQ>>
    BY <1>1 DEF WriteFrame, channelVars
  <1>3. /\ f \in Frame /\ Tail(q) \in Seq(Frame)
        /\ Carried(q) = Carried(Tail(q)) \cup IF f.kind = "channel" THEN {f.id} ELSE {}
        /\ \A x \in Carried(Tail(q)) :
              \E j \in DOMAIN q : j > 1 /\ q[j].kind = "channel" /\ q[j].id = x
        /\ 1 \in DOMAIN q /\ f = q[1]
    <2>1. q \in Seq(Frame) /\ q # <<>>  BY <1>1, <1>2
    <2> HIDE DEF q
    <2> QED  BY <2>1, CarriedHead DEF q
  <1>4. \A d \in Conns : (Live(d)' <=> Live(d)) /\ Forwarding(d)' = Forwarding(d)
    BY <1>2 DEF Live, Forwarding
  <1>5. \A d \in Conns : d # c => Due(d)' = Due(d) /\ Got(d)' = Got(d)
    BY <1>2, <1>4 DEF Due, Got
  <1>6. /\ Due(c) = Carried(q) \cup IF Live(c) THEN Forwarding(c) ELSE {}
        /\ Due(c)' = Carried(Tail(q)) \cup IF Live(c) THEN Forwarding(c) ELSE {}
    BY <1>2, <1>4 DEF Due
  <1>7. Got(c)' = Got(c) \cup IF f.kind = "channel" THEN {f.id} ELSE {}
    <2>1. wire[c] \in Seq(Frame)  BY <1>1
    <2> HIDE DEF f
    <2> QED  BY <1>2, <1>3, <2>1, CarriedAppend DEF Got
  <1>8. CASE f.kind # "channel"
    <2>1. Due(c)' = Due(c) /\ Got(c)' = Got(c)  BY <1>3, <1>6, <1>7, <1>8
    <2>2. SameSight  BY <1>4, <1>5, <2>1 DEF SameSight
    <2> QED  BY <1>2, <2>2, MapNone
  <1>9. CASE f.kind = "channel"
    <2>1. /\ Carried(q) \subseteq Nat /\ Forwarding(c) \subseteq Nat
          /\ \A m \in Carried(q), n \in Forwarding(c) : m < n
          /\ \A i, j \in DOMAIN q : q[i].kind = "channel" /\ q[j].kind = "channel" /\ i < j =>
                q[i].id < q[j].id
      BY DueInOrder
    <2> HIDE DEF f, q
    <2>2. f.id \in Carried(q) /\ f.id \in Nat  BY <1>3, <1>9, <2>1
    <2>3. ASSUME NEW x \in Carried(Tail(q)) PROVE f.id < x
      <3>1. PICK j \in DOMAIN q : j > 1 /\ q[j].kind = "channel" /\ q[j].id = x  BY <1>3
      <3>2. 1 < j  BY <3>1, <1>1 DEF q
      <3> QED  BY <1>3, <1>9, <2>1, <3>1, <3>2
    <2>4. f.id \in Due(c) /\ \A n \in Due(c) : f.id <= n
      <3>1. \A n \in Due(c) : n = f.id \/ f.id < n  BY <1>3, <1>6, <1>9, <2>1, <2>2, <2>3
      <3>2. \A n \in Due(c) : n \in Nat  BY <1>6, <2>1
      <3> QED  BY <1>6, <2>2, <3>1, <3>2
    <2>5. Due(c)' = Due(c) \ {f.id}
      <3>1. \A x \in Carried(Tail(q)) : x # f.id
        <4>1. \A x \in Carried(Tail(q)) : x \in Nat /\ f.id < x  BY <1>3, <2>1, <2>3
        <4> QED  BY <2>2, <4>1
      <3>2. \A x \in Forwarding(c) : x # f.id
        <4>1. \A x \in Forwarding(c) : x \in Nat /\ f.id < x  BY <2>1, <2>2
        <4> QED  BY <2>2, <4>1
      <3> QED  BY <1>3, <1>6, <1>9, <3>1, <3>2
    <2>6. Got(c)' = Got(c) \cup {f.id}  BY <1>7, <1>9
    <2> QED  BY <1>2, <1>4, <1>5, <2>4, <2>5, <2>6, MapReceive
  <1> QED  BY <1>8, <1>9

\* A connection that is accepted has had nothing: it becomes attached.
LEMMA PromiseAccept ==
  ASSUME TypeInv, CloseInv, DeliveryInv, NEW c \in Conns, Accept(c), UNCHANGED channelVars,
         Handled' = Handled
  PROVE  Promise!Attach(c)
  <1>1. /\ connections' = connections \cup {c} /\ phase[c] = "idle"
        /\ UNCHANGED <<deaf, wq, wire, log, subscribers, fwdQ>>
    BY DEF Accept, channelVars
  <1>2. c \notin deaf /\ ~SpokenIn(log, c)
    BY <1>1 DEF DeliveryInv, PlaceInv, SpokenIn
  <1>3. wire[c] = <<>> /\ wq[c] = <<>>  BY <1>1 DEF CloseInv
  <1>4. Forwarding(c) = {}
    <2>1. Ahead(log, Handled, c, Outgoing(c), fwdQ, Live(c))  BY DEF DeliveryInv, FwdInv
    <2> QED  BY <1>2, <2>1 DEF Ahead, Forwarding
  <1>5. Got(c) = {} /\ Due(c) = {}  BY <1>3, <1>4, CarriedEmpty DEF Got, Due
  <1>6. Live(c)' /\ \A d \in Conns : d # c => (Live(d)' <=> Live(d))
    BY <1>1, <1>2 DEF Live
  <1>7. \A d \in Conns : Got(d)' = Got(d) /\ Forwarding(d)' = Forwarding(d)
    BY <1>1 DEF Got, Forwarding
  <1>8. \A d \in Conns : Due(d)' = Due(d)  BY <1>1, <1>4, <1>6, <1>7 DEF Due
  <1> QED  BY <1>1, <1>5, <1>6, <1>7, <1>8, MapAttach

LEMMA PromiseTransport ==
  ASSUME TypeInv, CloseInv, DeliveryInv, NEW c \in Conns, TransportStep(c), UNCHANGED channelVars
  PROVE  Promise!Next \/ UNCHANGED Promise!vars
  <1>0. Handled' = Handled  BY QueueTransport DEF DeliveryInv
  <1>1. CASE Accept(c)
    BY <1>0, <1>1, PromiseAccept DEF Promise!Next
  <1>2. CASE Greet(c)
    <2> DEFINE hello == NewFrame("hello", "text", 0)
    <2>1. hello \in Frame /\ hello.kind = "hello"  BY DEF NewFrame, Frame
    <2>2. /\ wire \in [Conns -> Seq(Frame)] /\ wire' = [wire EXCEPT ![c] = Append(@, hello)]
          /\ UNCHANGED <<connections, deaf, wq, log, subscribers, fwdQ>>
      BY <1>2 DEF Greet, TypeInv, TypeOK, TransportTypeOK, channelVars
    <2> HIDE DEF hello
    <2>3. \A d \in Conns : Got(d)' = Got(d)
      <3> SUFFICES ASSUME NEW d \in Conns PROVE Carried(wire'[d]) = Carried(wire[d])
        BY DEF Got
      <3>1. wire'[d] = wire[d] \/ wire'[d] = Append(wire[d], hello)  BY <2>2
      <3>2. wire[d] \in Seq(Frame)  BY <2>2
      <3> QED  BY <2>1, <3>1, <3>2, CarriedAppend
    <2>4. \A d \in Conns : (Live(d)' <=> Live(d)) /\ Due(d)' = Due(d)
      BY <2>2 DEF Live, Due, Forwarding
    <2>5. SameSight  BY <2>3, <2>4 DEF SameSight
    <2> QED  BY <1>0, <2>2, <2>5, MapNone
  <1>3. ASSUME NEW kind \in Kinds \cap MessageKinds, NEW ch \in Channels,
               NEW enc \in Encodings, ReadMessage(c, kind, ch, enc)
        PROVE  Promise!Next
    <2> DEFINE m == [conn |-> c, kind |-> kind, ch |-> ch, enc |-> enc]
    <2>1. m \in Message  BY TransportAssumption DEF Message
    <2>2. /\ log' = Append(log, m)
          /\ UNCHANGED <<wq, wire, connections, deaf, fwdQ, subscribers>>
      BY <1>3 DEF ReadMessage, NextFrame, channelVars
    <2> HIDE DEF m
    <2>3. Promise!Say(m)  BY <1>0, <2>1, <2>2, SightCalm, MapSay
    <2> QED  BY <2>1, <2>3 DEF Promise!Next
  <1>4. ASSUME NEW f \in Frame, f.kind # "channel", wq' = Enqueue(c, f),
               UNCHANGED <<wire, connections, deaf, log>>
        PROVE  UNCHANGED Promise!vars
    <2>1. UNCHANGED <<fwdQ, subscribers>>  BY DEF channelVars
    <2>2. SameSight  BY <1>4, <2>1, SightEnqueue
    <2> QED  BY <1>0, <1>4, <2>1, <2>2, MapNone
  <1>5. CASE ReadPing(c)
    <2>1. NewFrame("pong", "binary", 0) \in Frame /\ NewFrame("pong", "binary", 0).kind = "pong"
      BY DEF NewFrame, Frame
    <2> QED  BY <1>4, <1>5, <2>1 DEF ReadPing, NextFrame
  <1>6. CASE PingTick(c)
    <2>1. NewFrame("ping", "control", 0) \in Frame /\ NewFrame("ping", "control", 0).kind = "ping"
      BY DEF NewFrame, Frame
    <2> QED  BY <1>4, <1>6, <2>1 DEF PingTick
  <1>7. CASE WriteFrame(c)
    BY <1>0, <1>7, PromiseWrite DEF Promise!Next
  <1>8. CASE WriteFails(c) \/ EndRead(c)
    <2>1. Promise!Detach({c}) /\ {c} \in SUBSET Conns  BY <1>0, <1>8, PromiseDrop
    <2> QED  BY <2>1 DEF Promise!Next
  <1>9. ASSUME NEW framed \in BOOLEAN, ReadNoise(c, framed)
        PROVE  UNCHANGED Promise!vars
    <2>1. UNCHANGED <<wq, wire, connections, deaf, fwdQ, log, subscribers>>
      BY <1>9 DEF ReadNoise, NextFrame, channelVars
    <2> QED  BY <1>0, <2>1, SightCalm, MapNone
  <1>10. CASE Cleanup(c)
    <2>1. /\ UNCHANGED <<wq, wire, deaf, fwdQ, log, subscribers>>
          /\ connections' = connections \ {c} /\ phase[c] = "ended"
      BY <1>10 DEF Cleanup, channelVars
    <2>2. c \in deaf  BY <2>1 DEF DeliveryInv, PlaceInv
    <2>3. \A d \in Conns : (Live(d)' <=> Live(d)) /\ Forwarding(d)' = Forwarding(d)
      BY <2>1, <2>2 DEF Live, Forwarding
    <2>4. SameSight  BY <2>1, <2>3 DEF SameSight, Due, Got
    <2> QED  BY <1>0, <2>1, <2>4, MapNone
  <1> QED
    BY <1>1, <1>2, <1>3, <1>5, <1>6, <1>7, <1>8, <1>9, <1>10 DEF TransportStep, Reads

\* The forwarder hands on what is due already; for one that is gone, nothing.
LEMMA PromiseForward ==
  ASSUME TypeInv, Forward
  PROVE  UNCHANGED Promise!vars
  <1> DEFINE Pair == [to: Conns, id: Nat]
             e == Head(fwdQ)
             f == NewFrame("channel", IF e.to \in binary THEN "binary" ELSE "text", e.id)
  <1>1. /\ fwdQ \in Seq(Pair) /\ fwdQ # <<>> /\ fwdQ' = Tail(fwdQ)
        /\ wq' = Enqueue(e.to, f) /\ wq \in [Conns -> Seq(Frame)]
        /\ UNCHANGED <<connections, deaf, events, wire, log, subscribers>>
    BY DEF Forward, Send, TypeInv, TypeOK, ChannelsTypeOK, TransportTypeOK
  <1>2. /\ e \in Pair /\ 1 \in DOMAIN fwdQ /\ e = fwdQ[1]
        /\ \A k \in DOMAIN fwdQ' : k + 1 \in DOMAIN fwdQ /\ fwdQ'[k] = fwdQ[k + 1]
        /\ \A k \in DOMAIN fwdQ : k = 1 \/ (k - 1 \in DOMAIN fwdQ' /\ fwdQ'[k - 1] = fwdQ[k])
    <2> HIDE DEF Pair
    <2> QED  BY <1>1
  <1>3. e.to \in Conns /\ e.id \in Nat  BY <1>2
  <1>4. f \in Frame /\ f.kind = "channel" /\ f.id = e.id
    BY <1>3 DEF NewFrame, Frame
  <1> HIDE DEF e, f, Pair
  <1>5. Handled' = Handled  BY <1>1 DEF Handled, Queued
  <1>6. ASSUME NEW c \in Conns
        PROVE  (Live(c)' <=> Live(c)) /\ Due(c)' = Due(c) /\ Got(c)' = Got(c)
    <2>1. Live(c)' <=> Live(c)  BY <1>1 DEF Live
    <2>2. Got(c)' = Got(c)  BY <1>1 DEF Got
    <2>3. CASE ~Live(c)
      <3>1. wq'[c] = wq[c]  BY <1>1, <2>3 DEF Enqueue
      <3> QED  BY <2>1, <2>2, <2>3, <3>1 DEF Due
    <2>4. CASE Live(c)
      <3>1. Carried(wq'[c]) = Carried(wq[c]) \cup IF c = e.to THEN {e.id} ELSE {}
        <4>1. wq[c] \in Seq(Frame)  BY <1>1
        <4>2. wq'[c] = IF c = e.to THEN Append(wq[c], f) ELSE wq[c]
          BY <1>1, <2>4 DEF Enqueue
        <4> QED  BY <1>4, <4>1, <4>2, CarriedAppend
      <3>2. Forwarding(c) = Forwarding(c)' \cup IF c = e.to THEN {e.id} ELSE {}
        <4>1. \A x \in Forwarding(c)' : x \in Forwarding(c)  BY <1>2 DEF Forwarding
        <4>2. c = e.to => e.id \in Forwarding(c)  BY <1>2 DEF Forwarding
        <4>3. ASSUME NEW x \in Forwarding(c)
              PROVE  x \in Forwarding(c)' \/ (c = e.to /\ x = e.id)
          <5>1. PICK k \in DOMAIN fwdQ : fwdQ[k].to = c /\ x = fwdQ[k].id  BY DEF Forwarding
          <5>2. CASE k = 1  BY <1>2, <5>1, <5>2
          <5>3. CASE k # 1
            <6>1. k - 1 \in DOMAIN fwdQ' /\ fwdQ'[k - 1] = fwdQ[k]  BY <1>2, <5>3
            <6> QED  BY <5>1, <6>1 DEF Forwarding
          <5> QED  BY <5>2, <5>3
        <4> QED  BY <4>1, <4>2, <4>3
      <3>3. Due(c) = Carried(wq[c]) \cup Forwarding(c)  BY <2>4 DEF Due
      <3>4. Due(c)' = Carried(wq'[c]) \cup Forwarding(c)'  BY <2>1, <2>4 DEF Due
      <3> QED  BY <2>1, <2>2, <3>1, <3>2, <3>3, <3>4
    <2> QED  BY <2>3, <2>4
  <1>7. SameSight  BY <1>6 DEF SameSight
  <1> QED  BY <1>1, <1>5, <1>7, MapNone

\* A publication becomes due to the members that can be reached; there are none if
\* the channel is unknown.
LEMMA PromisePublish ==
  ASSUME TypeInv, DeliveryInv, HandlePublish
  PROVE  Promise!Publish
  <1>1. /\ Handling({"publish"}) /\ log' = log /\ UNCHANGED <<wire, connections, deaf, subscribers>>
        /\ IF Channel \in channels
           THEN Publish(Channel, MsgId, Sender) /\ wq' = Send(Sender, "reply", MsgId)
           ELSE UNCHANGED fwdQ /\ wq' = Send(Sender, "error", 0)
    BY DEF HandlePublish, Handling, Publish, channelVars
  <1>2. /\ MsgId \in DOMAIN log /\ MsgId \in Nat /\ log[MsgId].kind = "publish"
        /\ log[MsgId].ch = Channel /\ log[MsgId].conn = Sender
        /\ Sender \in Conns /\ Channel \in Channels
    <2>1. DOMAIN log = 1..Len(log) /\ Len(log) \in Nat  BY QueuedKnown
    <2> QED  BY <1>1, <2>1, SenderKnown DEF Channel
  <1>3. /\ Promise!Effect("publish") /\ Promise!Current = log[MsgId]
        /\ Cardinality(Handled) + 1 = MsgId
    BY <1>1, <1>2, MapEffect DEF DeliveryInv
  <1> DEFINE f == NewFrame(IF Channel \in channels THEN "reply" ELSE "error",
                           IF Sender \in binary THEN "binary" ELSE "text",
                           IF Channel \in channels THEN MsgId ELSE 0)
             Hears(c) == Channel \in channels /\ c \in subscribers[Channel] \ {Sender}
  <1>4. f \in Frame /\ f.kind # "channel" /\ wq' = Enqueue(Sender, f)
    BY <1>1, <1>2 DEF NewFrame, Frame, Send
  <1> HIDE DEF f
  <1>5. ASSUME NEW c \in Conns
        PROVE  /\ Live(c)' <=> Live(c)
               /\ Got(c)' = Got(c)
               /\ Due(c)' = Due(c) \cup IF Live(c) /\ Hears(c) THEN {MsgId} ELSE {}
    <2>1. Live(c)' <=> Live(c)  BY <1>1 DEF Live
    <2>2. Got(c)' = Got(c)  BY <1>1 DEF Got
    <2>3. Carried(wq'[c]) = Carried(wq[c])
      <3>1. wq \in [Conns -> Seq(Frame)]  BY DEF TypeInv, TypeOK, TransportTypeOK
      <3>2. wq'[c] = wq[c] \/ wq'[c] = Append(wq[c], f)  BY <1>4, <3>1 DEF Enqueue
      <3>3. wq[c] \in Seq(Frame)  BY <3>1
      <3> QED  BY <1>4, <3>2, <3>3, CarriedAppend
    <2>4. Forwarding(c)' = Forwarding(c) \cup IF Hears(c) THEN {MsgId} ELSE {}
      <3>1. CASE Channel \notin channels
        BY <1>1, <3>1 DEF Forwarding
      <3>2. CASE Channel \in channels
        <4>1. /\ \A k \in DOMAIN fwdQ : k \in DOMAIN fwdQ' /\ fwdQ'[k] = fwdQ[k]
              /\ \A k \in DOMAIN fwdQ' : k \notin DOMAIN fwdQ =>
                    fwdQ'[k].id = MsgId /\ fwdQ'[k].to \in subscribers[Channel] \ {Sender}
              /\ \A d \in subscribers[Channel] \ {Sender} : \E k \in DOMAIN fwdQ' :
                    fwdQ'[k].to = d /\ fwdQ'[k].id = MsgId
          BY <1>1, <1>2, <3>2, PublishFansOut
        <4>2. \A x \in Forwarding(c) : x \in Forwarding(c)'  BY <4>1 DEF Forwarding
        <4>3. Hears(c) => MsgId \in Forwarding(c)'  BY <4>1 DEF Forwarding
        <4>4. \A x \in Forwarding(c)' : x \in Forwarding(c) \/ (Hears(c) /\ x = MsgId)
          BY <3>2, <4>1 DEF Forwarding
        <4> QED  BY <4>2, <4>3, <4>4
      <3> QED  BY <3>1, <3>2
    <2> HIDE DEF Hears
    <2> QED  BY <2>1, <2>2, <2>3, <2>4 DEF Due
  <1>6. \A c \in Conns : Hears(c) <=> c \in subscribers[Channel] \ {Sender}
    BY <1>2 DEF DeliveryInv, MemberInv
  <1> DEFINE due == [c \in Conns |-> Due(c)]
             got == [c \in Conns |-> Got(c)]
             reached == {c \in Conns : Live(c)}
  <1>7. due' = [c \in Conns |->
                   IF c \in (subscribers[Promise!Current.ch] \cap reached) \ {Promise!Current.conn}
                   THEN due[c] \cup {Cardinality(Handled) + 1} ELSE due[c]]
    <2>1. Promise!Current.ch = Channel /\ Promise!Current.conn = Sender  BY <1>2, <1>3
    <2>2. ASSUME NEW c \in Conns
          PROVE  Due(c)' = IF c \in (subscribers[Channel] \cap reached) \ {Sender}
                           THEN Due(c) \cup {MsgId} ELSE Due(c)
      BY <1>5, <1>6
    <2> QED  BY <1>3, <2>1, <2>2
  <1>8. got' = got /\ reached' = reached  BY <1>5
  <1> QED  BY <1>1, <1>3, <1>7, <1>8 DEF Due, Got, Promise!Publish

LEMMA PromiseHandle ==
  ASSUME TypeInv, DeliveryInv, HandleEvent
  PROVE  Promise!Next \/ UNCHANGED Promise!vars
  <1>1. ASSUME NEW kind \in {"connected", "noise"}, HandleLogged(kind)
        PROVE  UNCHANGED Promise!vars
    <2>1. /\ Taking(kind) /\ log' = log /\ kind # "message"
          /\ UNCHANGED <<wq, wire, connections, deaf, fwdQ, subscribers>>
      BY <1>1 DEF HandleLogged, channelVars
    <2>2. Handled' = Handled  BY <2>1, QueueTake DEF DeliveryInv
    <2> QED  BY <2>1, <2>2, SightCalm, MapNone
  <1>2. CASE HandleDisconnected
    <2> DEFINE d == Head(events).conn
    <2>1. /\ Taking("disconnected") /\ log' = log
          /\ UNCHANGED <<wq, wire, connections, deaf, fwdQ>>
          /\ subscribers' = [ch \in Channels |-> subscribers[ch] \ {d}]
      BY <1>2 DEF HandleDisconnected, RemoveConnection
    <2>2. Handled' = Handled  BY <2>1, QueueTake DEF DeliveryInv
    <2>3. d \in Conns /\ ~Live(d)
      <3>1. events \in Seq(Event) /\ events # <<>> /\ Head(events).kind = "disconnected"
        BY <2>1 DEF Taking, TypeInv, TypeOK, TransportTypeOK
      <3>2. 1 \in DOMAIN events /\ Head(events) = events[1]  BY <3>1
      <3>3. d \in Conns  BY <3>2, KnownConns
      <3>4. phase[d] = "closed"  BY <3>1, <3>2 DEF DeliveryInv, PlaceInv
      <3> QED  BY <3>3, <3>4 DEF DeliveryInv, PlaceInv, Live
    <2> HIDE DEF d
    <2>4. Promise!Forget(d)  BY <2>1, <2>2, <2>3, SightCalm, MapForget
    <2> QED  BY <2>3, <2>4 DEF Promise!Next
  <1>3. ASSUME NEW S, Handling(S)
        PROVE  /\ MsgId \in Nat /\ Sender \in Conns /\ log[MsgId].kind \in S
               /\ log[MsgId].conn = Sender /\ log[MsgId].ch = Channel
               /\ Promise!Effect(log[MsgId].kind) /\ Promise!Current = log[MsgId]
               /\ UNCHANGED <<deaf, wire>>
    <2>1. DOMAIN log = 1..Len(log) /\ Len(log) \in Nat  BY QueuedKnown
    <2> QED  BY <1>3, <2>1, SenderKnown, MapEffect DEF DeliveryInv, Handling, Channel
  <1>4. ASSUME SameSight
        PROVE  /\ UNCHANGED {c \in Conns : Live(c)}
               /\ UNCHANGED [c \in Conns |-> Due(c)]
               /\ UNCHANGED [c \in Conns |-> Got(c)]
    BY <1>4 DEF SameSight
  <1>5. CASE HandleSubscribe
    <2>1. /\ Handling({"subscribe"})
          /\ UNCHANGED <<connections, fwdQ>>
          /\ subscribers' = IF IsFull(Channel) THEN subscribers
                            ELSE [subscribers EXCEPT ![Channel] = @ \cup {Sender}]
          /\ wq' = Send(Sender, "error", 0) \/ wq' = Send(Sender, "reply", MsgId)
      BY <1>5 DEF HandleSubscribe, Subscribe
    <2>2. SameSight  BY <1>3, <2>1, SightSend
    <2>3. /\ Promise!Effect("subscribe")
          /\ Promise!Current.ch = Channel /\ Promise!Current.conn = Sender
      BY <1>3, <2>1
    <2>4. Promise!Join  BY <1>4, <2>1, <2>2, <2>3 DEF Due, Got, Promise!Join
    <2> QED  BY <2>4 DEF Promise!Next
  <1>6. CASE HandleUnsubscribe
    <2>1. /\ Handling({"unsubscribe"}) /\ UNCHANGED <<connections, fwdQ>>
          /\ subscribers' = [subscribers EXCEPT ![Channel] = @ \ {Sender}]
          /\ wq' = Send(Sender, "reply", MsgId)
      BY <1>6 DEF HandleUnsubscribe, Unsubscribe
    <2>2. SameSight  BY <1>3, <2>1, SightSend
    <2>3. /\ Promise!Effect("unsubscribe")
          /\ Promise!Current.ch = Channel /\ Promise!Current.conn = Sender
      BY <1>3, <2>1
    <2>4. Promise!Leave  BY <1>4, <2>1, <2>2, <2>3 DEF Due, Got, Promise!Leave
    <2> QED  BY <2>4 DEF Promise!Next
  <1>7. CASE HandlePublish
    BY <1>7, PromisePublish DEF Promise!Next
  <1>8. CASE HandlePrompt \/ HandleRequest \/ HandleOther
    <2>1. PICK kind \in {"connect", "ping", "request", "other"} :
             /\ Promise!Effect(kind)
             /\ UNCHANGED <<connections, fwdQ, subscribers, deaf, wire>>
             /\ wq' = wq \/ wq' = Send(Sender, "reply", MsgId)
             /\ Sender \in Conns /\ MsgId \in Nat
      BY <1>3, <1>8 DEF HandlePrompt, HandleRequest, HandleOther, channelVars
    <2>2. SameSight  BY <2>1, SightSend, SightCalm
    <2>3. Promise!Nothing  BY <1>4, <2>1, <2>2 DEF Due, Got, Promise!Nothing
    <2> QED  BY <2>3 DEF Promise!Next
  <1>9. CASE HandleDisconnect
    <2>1. Handling({"disconnect"}) /\ Close({Sender}) /\ UNCHANGED <<fwdQ, subscribers>>
      BY <1>9 DEF HandleDisconnect, channelVars
    <2>2. Promise!Effect("disconnect") /\ Promise!Current.conn = Sender  BY <1>3, <2>1
    <2>3. Promise!CutOff({Sender})
      <3>1. {Sender} \in SUBSET Conns  BY <1>3, <2>1
      <3> QED  BY <1>3, <2>1, <3>1, CutClose, MapCutOff
    <2>4. Promise!GoAway  BY <2>1, <2>2, <2>3 DEF Promise!GoAway
    <2> QED  BY <2>4 DEF Promise!Next
  <1> QED
    BY <1>1, <1>2, <1>5, <1>6, <1>7, <1>8, <1>9 DEF HandleEvent

LEMMA PromiseStep ==
  ASSUME TypeInv, CloseInv, DeliveryInv, [Next]_vars
  PROVE  [Promise!Next]_Promise!vars
  <1>1. CASE TransportNext
    BY <1>1, PromiseTransport DEF TransportNext
  <1>2. CASE HandleEvent
    BY <1>2, PromiseHandle
  <1>3. CASE AnswerRequest
    <2>1. /\ log[awaiting].conn \in Conns /\ awaiting \in Nat
      <3>1. awaiting \in 1..Len(log)  BY <1>3 DEF AnswerRequest, TypeInv, TypeOK
      <3>2. DOMAIN log = 1..Len(log) /\ Len(log) \in Nat  BY QueuedKnown
      <3> QED  BY <3>1, <3>2, KnownConns
    <2>2. /\ wq' = Send(log[awaiting].conn, "reply", awaiting)
          /\ UNCHANGED <<wire, connections, deaf, fwdQ, log, subscribers, events>>
      BY <1>3 DEF AnswerRequest, channelVars
    <2>3. SameSight  BY <2>1, <2>2, SightSend
    <2>4. Handled' = Handled  BY <2>2, QueueCalm DEF DeliveryInv
    <2> QED  BY <2>2, <2>3, <2>4, MapNone
  <1>4. CASE Forward
    BY <1>4, PromiseForward
  <1>5. CASE Shutdown
    <2>1. Close(connections) /\ UNCHANGED <<wire, deaf, fwdQ, log, subscribers, events>>
      BY <1>5 DEF Shutdown, channelVars
    <2>2. connections \in SUBSET Conns  BY DEF TypeInv, TypeOK, TransportTypeOK
    <2>3. Promise!CutOff(connections)  BY <2>1, <2>2, CutClose, MapCutOff
    <2>4. Handled' = Handled  BY <2>1, QueueCalm DEF DeliveryInv
    <2>5. Cardinality(Handled)' = Cardinality(Handled)  BY <2>4
    <2>6. Promise!Detach(connections)  BY <2>1, <2>3, <2>5 DEF Promise!Detach
    <2> QED  BY <2>2, <2>6 DEF Promise!Next
  <1>6. CASE UNCHANGED vars
    <2>1. UNCHANGED <<wq, wire, connections, deaf, fwdQ, log, subscribers, events>>
      BY <1>6 DEF vars, transportVars, channelVars
    <2>2. Handled' = Handled  BY <2>1, QueueCalm DEF DeliveryInv
    <2> QED  BY <2>1, <2>2, SightCalm, MapNone
  <1> QED  BY <1>1, <1>2, <1>3, <1>4, <1>5, <1>6 DEF Next

LEMMA PromiseInit ==
  ASSUME Init
  PROVE  Promise!Init
  <1>1. /\ log = <<>> /\ events = <<>> /\ fwdQ = <<>> /\ connections = {}
        /\ wq = [c \in Conns |-> <<>>] /\ wire = [c \in Conns |-> <<>>]
        /\ subscribers = [ch \in Channels |-> {}]
    BY DEF Init, TransportInit, ChannelsInit
  <1>2. Cardinality(Handled) = 0
    <2>1. Handled = {}
      <3>1. DOMAIN <<>> = {}  OBVIOUS
      <3> QED  BY <1>1, <3>1 DEF Handled
    <2> QED  BY <2>1, FS_EmptySet
  <1>3. \A c \in Conns : ~Live(c) /\ Due(c) = {} /\ Got(c) = {}
    BY <1>1, CarriedEmpty DEF Live, Due, Got
  <1> QED  BY <1>1, <1>2, <1>3 DEF Due, Got, Promise!Init

\* The event queue, the loop, the forwarder, the write tasks and the sockets
\* together deliver what is published as PubSub says, for any clients, channels
\* and configuration, and in whatever order the tasks run.
THEOREM ServerKeepsItsPromise == Spec => ImplementsPubSub
  <1>1. Init => Promise!Init  BY PromiseInit
  <1>2. TypeInv /\ CloseInv /\ DeliveryInv /\ [Next]_vars => [Promise!Next]_Promise!vars
    BY PromiseStep
  <1> QED  BY <1>1, <1>2, DeliveryAlways, PTL DEF Spec, ImplementsPubSub, Promise!Spec

=============================================================================
