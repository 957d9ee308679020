--------------------------------- MODULE Wire ----------------------------------
(***************************************************************************)
(* Messages on the wire: the frames of crates/mtw-protocol, the JSON codec *)
(* of crates/mtw-codec and the socket the Node binding gives to scripts    *)
(* (bindings/node/src/ws.rs), which several of them may use at once.       *)
(* Payloads are their size; a frame is what its header says and what       *)
(* follows it.                                                             *)
(***************************************************************************)
EXTENDS Integers, FiniteSets, SequencesExt

CONSTANTS Scripts,        \* who calls the socket
          MaxFrameSize,   \* MAX_FRAME_SIZE
          PayloadSizes,         \* sizes of payloads, some beyond it
          Damages,        \* what becomes of a frame that is not as it was made
          MaxSent,        \* bound: messages of the peer
          MaxScriptCalls  \* bound: calls of the scripts

ASSUME WireAssumption ==
    /\ MaxFrameSize \in Nat /\ PayloadSizes \subseteq Nat \ {0}
    /\ Damages \subseteq {"none", "magic", "version", "type", "unknown", "longer", "shorter",
                          "cut", "header", "more"}
    /\ MaxSent \in Nat /\ MaxScriptCalls \in Nat

VARIABLES
    fromPeer,   \* what the peer has sent and the socket has not handed over
    toPeer,     \* what the peer gets
    peerClosed, \* the peer has sent its Close
    receivers,  \* who waits for the lock of the stream, the first one holds it
    senders,    \* who waits for the lock of the sink, and with what
    sentCount,  \* how much the peer has sent
    called,     \* how many calls the scripts have made
    received    \* history: what each receive() returned, in order

wireVars == <<fromPeer, toPeer, peerClosed, receivers, senders, sentCount, called, received>>

MessageForms == {"text", "binary", "ping", "close"}
FrameTypes == {"json", "binary", "ping", "pong"}

WireTypeOK ==
    /\ \A i \in DOMAIN fromPeer : fromPeer[i].form \in MessageForms
    /\ toPeer \in Seq(MessageForms)
    /\ peerClosed \in BOOLEAN
    /\ receivers \in Seq(Scripts)
    /\ \A i \in DOMAIN senders : senders[i].who \in Scripts /\ senders[i].what \in MessageForms
    /\ sentCount \in 0..MaxSent /\ called \in 0..MaxScriptCalls
    /\ \A i \in DOMAIN received : received[i].by \in Scripts

WireInit ==
    /\ fromPeer = <<>> /\ toPeer = <<>> /\ peerClosed = FALSE
    /\ receivers = <<>> /\ senders = <<>>
    /\ sentCount = 0 /\ called = 0 /\ received = <<>>

-----------------------------------------------------------------------------
(* Frames.                                                                 *)

Refusal == [ok |-> FALSE]
HeaderSize == 9

\* encode_raw(): a header that says what follows, unless that is too much.
Encode(type, size) ==
    IF size > MaxFrameSize THEN Refusal
    ELSE [ok |-> TRUE, magic |-> TRUE, version |-> 1, type |-> type, length |-> size,
          bytes |-> HeaderSize + size]

\* What another implementation, another version or a faulty peer makes of it.
Damaged(frame, damage) ==
    CASE damage = "magic" -> [frame EXCEPT !.magic = FALSE]
      [] damage = "version" -> [frame EXCEPT !.version = 2]
      [] damage = "type" -> [frame EXCEPT !.type = IF @ = "json" THEN "binary" ELSE "json"]
      [] damage = "unknown" -> [frame EXCEPT !.type = "unknown"]
      [] damage = "longer" -> [frame EXCEPT !.length = MaxFrameSize + 1]
      [] damage = "shorter" -> [frame EXCEPT !.length = @ - 1]
      [] damage = "cut" -> [frame EXCEPT !.bytes = @ - 1]
      [] damage = "header" -> [frame EXCEPT !.bytes = HeaderSize - 1]
      [] damage = "more" -> [frame EXCEPT !.bytes = @ + 1]
      [] OTHER -> frame

\* Fault: the payload is whatever follows the header.
DecodeRest(frame) ==
    IF /\ frame.bytes >= HeaderSize /\ frame.magic /\ frame.version = 1
       /\ frame.type \in FrameTypes /\ frame.length <= MaxFrameSize
    THEN [ok |-> TRUE, type |-> frame.type, size |-> frame.bytes - HeaderSize] ELSE Refusal

\* decode(): bytes after the payload are left alone.
Decode(frame) ==
    IF /\ frame.bytes >= HeaderSize /\ frame.magic /\ frame.version = 1
       /\ frame.type \in FrameTypes /\ frame.length <= MaxFrameSize
       /\ frame.bytes - HeaderSize >= frame.length
    THEN [ok |-> TRUE, type |-> frame.type, size |-> frame.length] ELSE Refusal

\* decode_message(): the payload must be JSON, all of it; what was not made from
\* a message is none.
DecodeMessage(m) ==
    LET d == Decode(m.frame)
    IN IF d.ok /\ d.type = "json" /\ m.of = "json" /\ d.size = m.size THEN d ELSE Refusal

-----------------------------------------------------------------------------
(* The peer.                                                               *)

\* A message as text (JsonCodec), one or other data in a frame, a ping, a Close.
PeerSends ==
    /\ ~peerClosed /\ sentCount < MaxSent
    /\ sentCount' = sentCount + 1
    /\ \/ \E form \in {"text", "ping", "close"} :
             /\ fromPeer' = Append(fromPeer, [form |-> form, number |-> sentCount + 1])
             /\ peerClosed' = (form = "close")
       \/ \E of \in {"json", "binary"}, size \in PayloadSizes, damage \in Damages :
             LET frame == Encode(of, size)
             IN /\ fromPeer' = IF ~frame.ok THEN fromPeer
                               ELSE Append(fromPeer, [form |-> "binary", number |-> sentCount + 1,
                                                      of |-> of, size |-> size, damage |-> damage,
                                                      frame |-> Damaged(frame, damage)])
                /\ UNCHANGED peerClosed
    /\ UNCHANGED <<toPeer, receivers, senders, called, received>>

-----------------------------------------------------------------------------
(* The socket: its two halves are behind a lock each.                      *)

Busy(s) == s \in Range(receivers) \/ \E i \in DOMAIN senders : senders[i].who = s

Call(s) == ~Busy(s) /\ called < MaxScriptCalls /\ called' = called + 1

\* receive(), which holds its lock until there is something.
StartReceive(s) ==
    /\ Call(s)
    /\ receivers' = Append(receivers, s)
    /\ UNCHANGED <<fromPeer, toPeer, peerClosed, senders, sentCount, received>>

\* send(), send_json(), send_binary(), ping() and close().
StartSend(s) ==
    /\ Call(s)
    /\ \E what \in MessageForms : senders' = Append(senders, [who |-> s, what |-> what])
    /\ UNCHANGED <<fromPeer, toPeer, peerClosed, receivers, sentCount, received>>

\* Fault: a message is taken by whoever asks and stays for the next.
HandOverTwice ==
    /\ receivers # <<>> /\ fromPeer # <<>>
    /\ received' = Append(received, [by |-> Head(receivers), what |-> Head(fromPeer)])
    /\ receivers' = Tail(receivers)
    /\ fromPeer' \in {fromPeer, Tail(fromPeer)}
    /\ UNCHANGED <<toPeer, peerClosed, senders, sentCount, called>>

HandOver ==
    /\ receivers # <<>> /\ fromPeer # <<>>
    /\ received' = Append(received, [by |-> Head(receivers), what |-> Head(fromPeer)])
    /\ receivers' = Tail(receivers)
    /\ fromPeer' = Tail(fromPeer)
    /\ UNCHANGED <<toPeer, peerClosed, senders, sentCount, called>>

\* The stream is over: null, for every receive() from then on.
HandOverNull ==
    /\ receivers # <<>> /\ fromPeer = <<>> /\ peerClosed
    /\ received' = Append(received, [by |-> Head(receivers), what |-> [form |-> "null"]])
    /\ receivers' = Tail(receivers)
    /\ UNCHANGED <<fromPeer, toPeer, peerClosed, senders, sentCount, called>>

ConnectionEnded ==
    "close" \in Range(toPeer) \/ \E i \in DOMAIN received : received[i].what.form = "close"

\* A message goes out, or the call fails: on a connection that is ending it must.
SendNext ==
    /\ senders # <<>>
    /\ \/ ~ConnectionEnded /\ toPeer' = Append(toPeer, Head(senders).what)
       \/ UNCHANGED toPeer
    /\ senders' = Tail(senders)
    /\ UNCHANGED <<fromPeer, peerClosed, receivers, sentCount, called, received>>

WireNext ==
    \/ PeerSends
    \/ \E s \in Scripts : StartReceive(s) \/ StartSend(s)
    \/ HandOver \/ HandOverNull \/ SendNext

WireSpec == WireInit /\ [][WireNext]_wireVars

-----------------------------------------------------------------------------

\* What receive() returns is what the peer sent: each message once and in order,
\* whoever asks, and null only behind the last of them.
ReceivedInOrder ==
    \A i, j \in DOMAIN received : i < j =>
       LET first == received[i].what
           second == received[j].what
       IN /\ first.form = "null" => second.form = "null"
          /\ second.form # "null" => first.number < second.number

\* A frame is read as it was written: a whole one with its payload, whatever
\* follows it, and a damaged one not at all, unless its header still says what
\* follows; and no message but one that was sent is ever read.
FramesReadAsWritten ==
    \A i \in DOMAIN received :
       LET m == received[i].what
           d == Decode(m.frame)
       IN m.form = "binary" =>
             /\ m.damage \in {"none", "more"} => d = [ok |-> TRUE, type |-> m.of, size |-> m.size]
             /\ d.ok => d.size <= m.size
             /\ DecodeMessage(m).ok <=> m.of = "json" /\ m.damage \in {"none", "more"}

================================================================================
