----------------------------- MODULE Transport -----------------------------
(***************************************************************************)
(* The WebSocket transport of crates/mtw-transport/src/ws.rs: the task     *)
(* that owns a connection (accept, read loop, cleanup), its write task and *)
(* ping task, the shared maps `connections` and `binary_connections`, the  *)
(* event queue towards the server, and the operations the server calls     *)
(* (send, close, shutdown).  Tasks and the server's loops interleave.      *)
(*                                                                         *)
(* A frame is [kind, enc, id]: id is the client message it answers or      *)
(* carries, 0 for the frames that belong to no client message.  Payloads   *)
(* are left out.  Client messages are numbered in the order the read loops *)
(* decode them; `log` remembers them.                                      *)
(***************************************************************************)
EXTENDS Names, Naturals, Sequences

CONSTANTS Encodings,  \* how a client may frame a JSON message: "text", "binary"
          Kinds,      \* what clients send in this instance
          MaxFrames,  \* bound: frames the clients send, all together
          MaxPings    \* bound: keep-alive pings, all together

\* The message types the server tells apart; then what is not a message.
MessageKinds == {"subscribe", "unsubscribe", "publish", "request", "connect",
                 "ping", "disconnect", "other"}
NoiseKinds == {"undecodable text", "undecodable frame", "ping frame"}

ASSUME TransportAssumption ==
    /\ Kinds \subseteq MessageKinds \cup NoiseKinds
    /\ Encodings \subseteq {"text", "binary"}
    /\ MaxFrames \in Nat /\ MaxPings \in Nat

VARIABLES
    phase,        \* where the task of each connection is
    connections,  \* keys of the `connections` map: the sender half is there
    deaf,         \* connections whose receiver half is dropped
    binary,       \* keys of `binary_connections`
    events,       \* event_tx / event_rx
    wq,           \* the frames in each connection's channel to its write task
    wire,         \* the frames written to each socket, in order
    pings,        \* keep-alive pings queued so far
    frames,       \* client frames read so far
    log           \* history: the client messages decoded so far

transportVars ==
    <<phase, connections, deaf, binary, events, wq, wire, pings, frames, log>>

Phases == {"idle", "accepted", "reading", "ended", "closed"}
Message == [conn: Conns, kind: MessageKinds, ch: Channels, enc: Encodings]
Event == [kind: {"connected", "message", "noise", "disconnected"}, conn: Conns, id: Nat]
Frame == [kind: {"hello", "reply", "channel", "error", "pong", "ping", "close"},
          enc: {"text", "binary", "control"}, id: Nat]

TransportTypeOK ==
    /\ phase \in [Conns -> Phases]
    /\ connections \subseteq Conns /\ deaf \subseteq Conns /\ binary \subseteq Conns
    /\ events \in Seq(Event)
    /\ wq \in [Conns -> Seq(Frame)]
    /\ wire \in [Conns -> Seq(Frame)]
    /\ pings \in Nat
    /\ frames \in Nat
    /\ log \in Seq(Message)

TransportInit ==
    /\ phase = [c \in Conns |-> "idle"]
    /\ connections = {} /\ deaf = {} /\ binary = {}
    /\ events = <<>>
    /\ wq = [c \in Conns |-> <<>>]
    /\ wire = [c \in Conns |-> <<>>]
    /\ pings = 0
    /\ frames = 0
    /\ log = <<>>

-----------------------------------------------------------------------------
(* The operations of the transport that other tasks call.                  *)

NewFrame(kind, enc, id) == [kind |-> kind, enc |-> enc, id |-> id]

\* A frame handed to the sender of a live connection will be seen by its
\* write task; one handed to any other connection is an Err or is dropped.
Live(c) == c \in connections /\ c \notin deaf

Enqueue(c, frame) == IF Live(c) THEN [wq EXCEPT ![c] = Append(@, frame)] ELSE wq

\* Faults: the framing and the kind swapped; the framing never looked up.
SendSwapped(c, kind, id) ==
    Enqueue(c, NewFrame(IF c \in binary THEN "binary" ELSE "text", kind, id))
SendAsText(c, kind, id) == Enqueue(c, NewFrame(kind, "text", id))

\* send(): binary framing for the clients that have used it, else JSON text.
Send(c, kind, id) ==
    Enqueue(c, NewFrame(kind, IF c \in binary THEN "binary" ELSE "text", id))

CloseFrame == NewFrame("close", "control", 0)

\* Fault: the Close frame is queued and the sender stays in the map.
CloseKeepsSender(S) ==
    /\ connections' = connections
    /\ wq' = [c \in Conns |-> IF c \in S /\ Live(c)
                              THEN Append(wq[c], NewFrame("close", "control", 0))
                              ELSE wq[c]]

\* close(): the sender is taken out of the map, queues a Close frame and is
\* dropped.  The read loop goes on until the peer answers.
Close(S) ==
    /\ connections' = connections \ S
    /\ wq' = [c \in Conns |-> IF c \in S /\ Live(c) THEN Append(wq[c], CloseFrame)
                                                    ELSE wq[c]]

-----------------------------------------------------------------------------
(* The task of a connection.                                               *)

PostEvent(kind, c, id) == events' = Append(events, [kind |-> kind, conn |-> c, id |-> id])

\* The handshake is over: the connection is in the map and announced.
Accept(c) ==
    /\ phase[c] = "idle"
    /\ phase' = [phase EXCEPT ![c] = "accepted"]
    /\ connections' = connections \cup {c}
    /\ PostEvent("connected", c, 0)
    /\ UNCHANGED <<deaf, binary, wq, wire, pings, frames, log>>

\* The conn_id acknowledgment goes straight to the sink, always as text; only
\* then are the write task and the read loop started.
Greet(c) ==
    /\ phase[c] = "accepted"
    /\ phase' = [phase EXCEPT ![c] = "reading"]
    /\ wire' = [wire EXCEPT ![c] = Append(@, NewFrame("hello", "text", 0))]
    /\ UNCHANGED <<connections, deaf, binary, events, wq, pings, frames, log>>

\* The read loop takes the next frame of the client.
NextFrame(c) ==
    /\ phase[c] = "reading"
    /\ frames < MaxFrames
    /\ frames' = frames + 1
    /\ UNCHANGED <<phase, connections, deaf, wire, pings>>

\* A JSON message: the binary framing is remembered before the message is
\* posted.
ReadMessage(c, kind, ch, enc) ==
    /\ NextFrame(c)
    /\ binary' = IF enc = "binary" THEN binary \cup {c} ELSE binary
    /\ log' = Append(log, [conn |-> c, kind |-> kind, ch |-> ch, enc |-> enc])
    /\ PostEvent("message", c, Len(log) + 1)
    /\ UNCHANGED wq

\* Undecodable text, a JSON frame that does not parse, or raw binary data:
\* an Error or Binary event.  Only the JSON frame marks the client as binary.
ReadNoise(c, framed) ==
    /\ (IF framed THEN "undecodable frame" ELSE "undecodable text") \in Kinds
    /\ NextFrame(c)
    /\ binary' = IF framed THEN binary \cup {c} ELSE binary
    /\ PostEvent("noise", c, 0)
    /\ UNCHANGED <<wq, log>>

\* A protocol-level Ping frame is answered by the read loop itself.
ReadPing(c) ==
    /\ "ping frame" \in Kinds
    /\ NextFrame(c)
    /\ wq' = Enqueue(c, NewFrame("pong", "binary", 0))
    /\ UNCHANGED <<binary, events, log>>

\* The ping task: it stops by itself once the sender has left the map.
PingTick(c) ==
    /\ phase[c] = "reading" /\ c \in connections
    /\ pings < MaxPings
    /\ pings' = pings + 1
    /\ wq' = Enqueue(c, NewFrame("ping", "control", 0))
    /\ UNCHANGED <<phase, connections, deaf, binary, events, wire, frames, log>>

\* The write task moves one frame to the socket ...
WriteFrame(c) ==
    /\ phase[c] = "reading" /\ c \notin deaf /\ wq[c] # <<>>
    /\ wire' = [wire EXCEPT ![c] = Append(@, Head(wq[c]))]
    /\ wq' = [wq EXCEPT ![c] = Tail(@)]
    /\ UNCHANGED <<phase, connections, deaf, binary, events, pings, frames, log>>

\* ... or the socket refuses it: the task ends and its receiver goes with
\* everything still queued.
WriteFails(c) ==
    /\ phase[c] = "reading" /\ c \notin deaf /\ wq[c] # <<>>
    /\ deaf' = deaf \cup {c}
    /\ wq' = [wq EXCEPT ![c] = <<>>]
    /\ UNCHANGED <<phase, connections, binary, events, wire, pings, frames, log>>

\* The read loop breaks (the peer closed, the socket failed, the server shuts
\* down) and the ping and write tasks are aborted, queued frames and all.
EndRead(c) ==
    /\ phase[c] = "reading"
    /\ phase' = [phase EXCEPT ![c] = "ended"]
    /\ deaf' = deaf \cup {c}
    /\ wq' = [wq EXCEPT ![c] = <<>>]
    /\ UNCHANGED <<connections, binary, events, wire, pings, frames, log>>

\* Both maps forget the connection, then the server is told.  No task can tell
\* the two halves apart: the event queues behind whatever it is handling.
Cleanup(c) ==
    /\ phase[c] = "ended"
    /\ phase' = [phase EXCEPT ![c] = "closed"]
    /\ connections' = connections \ {c}
    /\ binary' = binary \ {c}
    /\ PostEvent("disconnected", c, 0)
    /\ UNCHANGED <<deaf, wq, wire, pings, frames, log>>

Reads(c) ==
    \/ \E kind \in Kinds \cap MessageKinds, ch \in Channels, enc \in Encodings : ReadMessage(c, kind, ch, enc)
    \/ \E framed \in BOOLEAN : ReadNoise(c, framed)
    \/ ReadPing(c)

TransportStep(c) ==
    \/ Accept(c) \/ Greet(c)
    \/ Reads(c) \/ PingTick(c)
    \/ WriteFrame(c) \/ WriteFails(c)
    \/ EndRead(c) \/ Cleanup(c)
=============================================================================
