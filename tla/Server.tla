------------------------------- MODULE Server -------------------------------
(***************************************************************************)
(* The server of crates/mtw-server/src/main.rs: one event loop that takes  *)
(* the transport's events one at a time and handles each to its end (it    *)
(* waits for the store or the bridge inside a handler), one forwarder that *)
(* moves channel messages to the transport, and the transport's own tasks. *)
(***************************************************************************)
EXTENDS Transport, Channels

CONSTANT Interruptible  \* whether ctrl-c is pressed in this instance

ASSUME ServerAssumption == Interruptible \in BOOLEAN

VARIABLES up,       \* the event loop has not left on ctrl-c
          awaiting  \* the request whose answer the loop is waiting for, or 0

vars == <<transportVars, channelVars, up, awaiting>>

TypeOK ==
    /\ TransportTypeOK
    /\ ChannelsTypeOK
    /\ up \in BOOLEAN
    /\ awaiting \in 0..Len(log)

Init ==
    /\ TransportInit
    /\ ChannelsInit
    /\ up = TRUE
    /\ awaiting = 0

-----------------------------------------------------------------------------
(* handle_event: the loop takes the oldest event.                          *)

Taking(kind) ==
    /\ up /\ awaiting = 0
    /\ events # <<>> /\ Head(events).kind = kind
    /\ events' = Tail(events)

\* Connected, Error and Binary events are only logged.
HandleLogged(kind) ==
    /\ Taking(kind)
    /\ UNCHANGED <<phase, connections, deaf, binary, wq, wire, pings, frames, log>>
    /\ UNCHANGED <<channelVars, up, awaiting>>

HandleDisconnected ==
    /\ Taking("disconnected")
    /\ RemoveConnection(Head(events).conn)
    /\ UNCHANGED <<phase, connections, deaf, binary, wq, wire, pings, frames, log>>
    /\ UNCHANGED <<up, awaiting>>

\* handle_message for the message types in S; what follows says what it sends.
Handling(S) ==
    /\ Taking("message")
    /\ log[Head(events).id].kind \in S
    /\ UNCHANGED <<phase, deaf, binary, wire, pings, frames, log, up>>

Sender == Head(events).conn
MsgId == Head(events).id
Channel == log[MsgId].ch

\* Fault: the subscription is made and not acknowledged.
SubscribeInSilence ==
    /\ Handling({"subscribe"})
    /\ Subscribe(Channel, Sender)
    /\ wq' = IF IsFull(Channel) THEN Send(Sender, "error", 0) ELSE wq
    /\ UNCHANGED <<connections, awaiting>>

\* A full channel is an Err: the caller sends error 500, without a ref_id.
HandleSubscribe ==
    /\ Handling({"subscribe"})
    /\ Subscribe(Channel, Sender)
    /\ wq' = IF IsFull(Channel) THEN Send(Sender, "error", 0) ELSE Send(Sender, "reply", MsgId)
    /\ UNCHANGED <<connections, awaiting>>

HandleUnsubscribe ==
    /\ Handling({"unsubscribe"})
    /\ Unsubscribe(Channel, Sender)
    /\ wq' = Send(Sender, "reply", MsgId)
    /\ UNCHANGED <<connections, awaiting>>

\* Fault: publishing to an unknown channel is ignored.
PublishOrIgnore ==
    /\ Handling({"publish"})
    /\ IF Channel \in channels
       THEN Publish(Channel, MsgId, Sender) /\ wq' = Send(Sender, "reply", MsgId)
       ELSE UNCHANGED <<channelVars, wq>>
    /\ UNCHANGED <<connections, awaiting>>

\* An unknown channel is answered with error 404, without a ref_id.
HandlePublish ==
    /\ Handling({"publish"})
    /\ IF Channel \in channels
       THEN Publish(Channel, MsgId, Sender) /\ wq' = Send(Sender, "reply", MsgId)
       ELSE UNCHANGED channelVars /\ wq' = Send(Sender, "error", 0)
    /\ UNCHANGED <<connections, awaiting>>

\* Connect and Ping are answered at once.
HandlePrompt ==
    /\ Handling({"connect", "ping"})
    /\ wq' = Send(Sender, "reply", MsgId)
    /\ UNCHANGED <<connections, channelVars, awaiting>>

\* The loop asks the store or the bridge and takes no event until it has the
\* answer, an error included.
HandleRequest ==
    /\ Handling({"request"})
    /\ awaiting' = MsgId
    /\ UNCHANGED <<connections, channelVars, wq>>

AnswerRequest ==
    /\ awaiting # 0 /\ up
    /\ wq' = Send(log[awaiting].conn, "reply", awaiting)
    /\ awaiting' = 0
    /\ UNCHANGED <<phase, connections, deaf, binary, events, wire, pings, frames, log>>
    /\ UNCHANGED <<channelVars, up>>

HandleDisconnect ==
    /\ Handling({"disconnect"})
    /\ Close({Sender})
    /\ UNCHANGED <<channelVars, awaiting>>

HandleOther ==
    /\ Handling({"other"})
    /\ UNCHANGED <<connections, channelVars, wq, awaiting>>

HandleEvent ==
    \/ HandleLogged("connected") \/ HandleLogged("noise")
    \/ HandleDisconnected
    \/ HandleSubscribe \/ HandleUnsubscribe \/ HandlePublish
    \/ HandlePrompt \/ HandleRequest \/ HandleDisconnect \/ HandleOther

-----------------------------------------------------------------------------
\* The forwarder task: a message for a connection that is gone is dropped.
Forward ==
    /\ fwdQ # <<>>
    /\ fwdQ' = Tail(fwdQ)
    /\ wq' = Send(Head(fwdQ).to, "channel", Head(fwdQ).id)
    /\ UNCHANGED <<phase, connections, deaf, binary, events, wire, pings, frames, log>>
    /\ UNCHANGED <<channels, subscribers, history, up, awaiting>>

\* Ctrl-c between two events: transport.shutdown() signals every read loop,
\* closes every connection, and the loop is left.
Shutdown ==
    /\ Interruptible /\ up /\ awaiting = 0
    /\ up' = FALSE
    /\ Close(connections)
    /\ UNCHANGED <<phase, deaf, binary, events, wire, pings, frames, log>>
    /\ UNCHANGED <<channelVars, awaiting>>

TransportNext == \E c \in Conns : TransportStep(c) /\ UNCHANGED <<channelVars, up, awaiting>>

Next == TransportNext \/ HandleEvent \/ AnswerRequest \/ Forward \/ Shutdown

\* The runtime runs every task that can run, and the store and the bridge
\* answer or fail (the bridge call has a timeout).  Clients owe nothing.
Fairness ==
    /\ WF_vars(HandleEvent) /\ WF_vars(AnswerRequest) /\ WF_vars(Forward)
    /\ \A c \in Conns :
          WF_vars((Greet(c) \/ WriteFrame(c) \/ Cleanup(c))
                  /\ UNCHANGED <<channelVars, up, awaiting>>)

Spec == Init /\ [][Next]_vars
FairSpec == Spec /\ Fairness

-----------------------------------------------------------------------------
(* What the server promises.                                               *)

Told(c) == \E i \in DOMAIN events : events[i].kind = "disconnected" /\ events[i].conn = c

\* A connection that is gone is a member of no channel, unless the event that
\* will remove it is still queued: no message handled late, after the cleanup
\* of ws.rs, can leave a ghost subscriber behind.
NoGhostSubscribers ==
    \A ch \in Channels : \A c \in subscribers[ch] : phase[c] # "closed" \/ Told(c)

\* max_members is never exceeded: the count and the insertion are two steps of
\* Channel::subscribe, and the single event loop keeps them together.
MembersWithinLimit ==
    \A ch \in Channels : Limit(ch) # None => Cardinality(subscribers[ch]) <= Limit(ch)

\* The messages that wait in the event queue, and those the event loop has taken.
Queued == {events[i].id : i \in {j \in DOMAIN events : events[j].kind = "message"}}
Handled == DOMAIN log \ Queued

\* The history of a channel is the latest of its messages, in the order of
\* their publication, and no more of them than it has room for: what it lacks
\* is older than all that it has, and then it is full.
HistoryIsLatest ==
    \A ch \in Configured :
        LET published == {m \in Handled : log[m].kind = "publish" /\ log[m].ch = ch}
            h == history[ch]
        IN  /\ Len(h) <= Size(ch)
            /\ \A i \in DOMAIN h : h[i] \in published
            /\ \A i, j \in DOMAIN h : i < j => h[i] < h[j]
            /\ \A m \in published :
                  \/ \E i \in DOMAIN h : h[i] = m
                  \/ Len(h) = Size(ch) /\ \A i \in DOMAIN h : m < h[i]

\* Everything a client gets or is about to get, in order.
Outgoing(c) == wire[c] \o wq[c]

\* The Close frame is the last thing ever queued for a client, whatever the
\* forwarder, the ping task and late handlers still want to send.
NothingAfterClose ==
    \A c \in Conns : \A i \in DOMAIN Outgoing(c) :
        Outgoing(c)[i].kind = "close" => i = Len(Outgoing(c))

\* A client has its subscription acknowledged before it gets a message of the
\* channel: channel.ts installs its handlers when the acknowledgment arrives.
AckBeforeMessages ==
    \A c \in Conns : LET out == Outgoing(c) IN
        \A i \in DOMAIN out : out[i].kind = "channel" =>
            \E j \in 1..(i - 1) :
                /\ out[j].kind = "reply"
                /\ log[out[j].id].kind = "subscribe"
                /\ log[out[j].id].ch = log[out[i].id].ch

\* A client that only ever spoke the binary framing is answered in it.
BinaryAnsweredInBinary ==
    \A c \in Conns :
        (\A i \in DOMAIN log : log[i].conn = c => log[i].enc = "binary") =>
            \A i \in DOMAIN Outgoing(c) :
                Outgoing(c)[i].kind \in {"reply", "channel", "error"}
                    => Outgoing(c)[i].enc = "binary"

\* The queues, the forwarder and the write tasks together deliver what is
\* published as PubSub says: messages take effect once, in the order they were
\* read, and what they publish arrives in that order, once, at the members of
\* the moment, with nothing lost before the receiver is.
Carried(s) == {s[i].id : i \in {j \in DOMAIN s : s[j].kind = "channel"}}
Forwarding(c) == {fwdQ[i].id : i \in {j \in DOMAIN fwdQ : fwdQ[j].to = c}}

Promise == INSTANCE PubSub WITH
    Messages <- Message,
    said <- log,
    done <- Cardinality(Handled),
    members <- subscribers,
    attached <- {c \in Conns : Live(c)},
    pending <- [c \in Conns |-> Carried(wq[c]) \cup IF Live(c) THEN Forwarding(c) ELSE {}],
    received <- [c \in Conns |-> Carried(wire[c])]

ImplementsPubSub == Promise!Spec

\* Every message that expects an answer gets one on the wire, in whatever
\* state the store, the channel and the other clients are, unless its
\* connection or the server goes first.
Answers(c) == Len(SelectSeq(wire[c], LAMBDA f : f.kind \in {"reply", "error"}))
Asked(c, i) ==
    Cardinality({j \in 1..i : log[j].conn = c /\ log[j].kind \notin {"disconnect", "other"}})

Waiting(i) ==
    /\ i \in DOMAIN log
    /\ up /\ Live(log[i].conn)
    /\ Answers(log[i].conn) < Asked(log[i].conn, i)

EveryMessageAnswered == \A i \in 1..MaxFrames : Waiting(i) ~> ~Waiting(i)

\* A connection that is gone is eventually out of every channel.
EventuallyForgotten ==
    \A c \in Conns :
        phase[c] = "closed" ~> (~up \/ \A ch \in Channels : c \notin subscribers[ch])
=============================================================================
