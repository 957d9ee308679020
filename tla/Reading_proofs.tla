---------------------------- MODULE Reading_proofs ----------------------------
(***************************************************************************)
(* What is read is what was written: frames and the messages of a socket,  *)
(* configurations and manifests, the lines of a streamed answer, pages.    *)
(***************************************************************************)
EXTENDS ClientObjects_proofs, SequenceTheorems, FiniteSetTheorems, WellFoundedInduction, TLAPS

-----------------------------------------------------------------------------
(* Messages on the wire.                                                   *)

\* What a peer may have sent: a frame that holds its payload, or something
\* without one.
Plain == {[form |-> form, number |-> n] : form \in {"text", "ping", "close"}, n \in Nat}
Fitting == {size \in PayloadSizes : size <= MaxFrameSize}
Framed ==
    {[form |-> "binary", number |-> n, of |-> of, size |-> size, damage |-> damage,
      frame |-> Damaged(Encode(of, size), damage)] :
        n \in Nat, of \in {"json", "binary"}, size \in Fitting, damage \in Damages}
Null == [form |-> "null"]

WireShape ==
    /\ fromPeer \in Seq(Plain \cup Framed)
    /\ toPeer \in Seq(MessageForms) /\ peerClosed \in BOOLEAN
    /\ receivers \in Seq(Scripts) /\ senders \in Seq([who : Scripts, what : MessageForms])
    /\ sentCount \in 0..MaxSent /\ called \in 0..MaxScriptCalls
    /\ received \in Seq([by : Scripts, what : Plain \cup Framed \cup {Null}])

\* What is on its way is in order and younger than what was received; null is
\* behind the end of the stream.
OnTheWay ==
    /\ \A i \in DOMAIN fromPeer : fromPeer[i].number <= sentCount
    /\ \A i, j \in DOMAIN fromPeer : i < j => fromPeer[i].number < fromPeer[j].number
    /\ \A i \in DOMAIN received :
          IF received[i].what.form = "null" THEN peerClosed /\ fromPeer = <<>>
          ELSE /\ received[i].what.number <= sentCount
               /\ \A j \in DOMAIN fromPeer : received[i].what.number < fromPeer[j].number

WireIInv == WireShape /\ OnTheWay /\ ReceivedInOrder

LEMMA PlainForm ==
    /\ \A m \in Plain : m.form \in MessageForms \ {"binary"} /\ m.number \in Nat
    /\ \A m \in Framed : m.form = "binary" /\ m.number \in Nat
    /\ Null.form = "null"
BY DEF Plain, Framed, Null, MessageForms

LEMMA WireStart == WireInit => WireIInv
  <1>1. SUFFICES ASSUME WireInit PROVE WireIInv  OBVIOUS
  <1>2. WireShape
    <2>1. 0 \in 0..MaxSent /\ 0 \in 0..MaxScriptCalls  BY WireAssumption
    <2>2. fromPeer = <<>> /\ toPeer = <<>> /\ receivers = <<>> /\ senders = <<>> /\ received = <<>>
      BY <1>1 DEF WireInit
    <2>3. peerClosed \in BOOLEAN /\ sentCount \in 0..MaxSent /\ called \in 0..MaxScriptCalls
      BY <1>1, <2>1 DEF WireInit
    <2> QED  BY <2>2, <2>3, EmptySeq DEF WireShape
  <1>3. OnTheWay /\ ReceivedInOrder  BY <1>1 DEF WireInit, OnTheWay, ReceivedInOrder
  <1> QED  BY <1>2, <1>3 DEF WireIInv

\* Sizes are a number and a frame that is made holds what it was made for.
LEMMA EncodedIs ==
    ASSUME NEW of \in {"json", "binary"}, NEW size \in Fitting
    PROVE  /\ size \in Nat /\ size >= 1 /\ size <= MaxFrameSize /\ MaxFrameSize \in Nat
           /\ Encode(of, size) = [ok |-> TRUE, magic |-> TRUE, version |-> 1, type |-> of,
                                  length |-> size, bytes |-> 9 + size]
<1>1. size \in PayloadSizes /\ size <= MaxFrameSize  BY DEF Fitting
<1>2. size \in Nat \ {0} /\ MaxFrameSize \in Nat  BY <1>1, WireAssumption
<1>3. size >= 1  BY <1>2
<1> QED  BY <1>1, <1>2, <1>3 DEF Encode, HeaderSize

LEMMA WholeIsRead ==
    ASSUME NEW D, D.magic = TRUE, D.version = 1, D.type \in {"json", "binary"},
           D.length \in Nat, MaxFrameSize \in Nat, D.length <= MaxFrameSize,
           D.bytes \in Nat, D.bytes >= 9 + D.length
    PROVE  Decode(D) = [ok |-> TRUE, type |-> D.type, size |-> D.length]
<1>1. D.bytes >= 9 /\ D.bytes - 9 >= D.length  OBVIOUS
<1>2. D.type \in FrameTypes  BY DEF FrameTypes
<1> QED  BY <1>1, <1>2 DEF Decode, HeaderSize

LEMMA WholeRead ==
    ASSUME NEW D, NEW of \in {"json", "binary"}, NEW length \in Nat, NEW bytes \in Nat,
           D.magic = TRUE, D.version = 1, D.type = of, D.length = length, D.bytes = bytes,
           MaxFrameSize \in Nat, length <= MaxFrameSize, bytes >= 9 + length
    PROVE  Decode(D) = [ok |-> TRUE, type |-> of, size |-> length]
<1>1. D.bytes >= 9 + D.length /\ D.length \in Nat /\ D.bytes \in Nat /\ D.length <= MaxFrameSize
  OBVIOUS
<1> QED  BY <1>1, WholeIsRead, Zenon

LEMMA FramedIsRead ==
    ASSUME NEW of \in {"json", "binary"}, NEW size \in Fitting, NEW damage \in Damages,
           NEW f, f = Encode(of, size), NEW D, D = Damaged(f, damage),
           NEW d, d = Decode(D)
    PROVE  /\ damage \in {"none", "more"} => d = [ok |-> TRUE, type |-> of, size |-> size]
           /\ d.ok => d.size <= size
           /\ d.ok /\ d.type = "json" /\ of = "json" /\ d.size = size
                 <=> of = "json" /\ damage \in {"none", "more"}
<1>1. /\ size \in Nat /\ size >= 1 /\ size <= MaxFrameSize /\ MaxFrameSize \in Nat
      /\ f = [ok |-> TRUE, magic |-> TRUE, version |-> 1, type |-> of,
              length |-> size, bytes |-> 9 + size]
  BY EncodedIs
<1>2. damage \in {"none", "magic", "version", "type", "unknown", "longer", "shorter",
                  "cut", "header", "more"}
  BY WireAssumption
<1>3. CASE damage = "none"
  <2>1. D = f  BY <1>3 DEF Damaged
  <2>2. D.magic = TRUE /\ D.version = 1 /\ D.type = of /\ D.length = size /\ D.bytes = 9 + size
    BY <1>1, <2>1
  <2>3. d = [ok |-> TRUE, type |-> of, size |-> size]
    <3>1. 9 + size \in Nat /\ 9 + size >= 9 + size  BY <1>1
    <3> QED  BY <1>1, <2>2, <3>1, WholeRead, Zenon
  <2>4. d.ok = TRUE /\ d.type = of /\ d.size = size  BY <2>3
  <2>5. d.size <= size  BY <1>1, <2>4
  <2>6. d.ok /\ d.type = "json" /\ of = "json" /\ d.size = size <=> of = "json"  BY <2>4
  <2> QED  BY <1>3, <2>3, <2>5, <2>6
<1>4. CASE damage = "magic"
  <2>1. D.magic = FALSE  BY <1>1, <1>4 DEF Damaged
  <2>2. d = Refusal  BY <2>1 DEF Decode
  <2> QED  BY <1>4, <2>2 DEF Refusal
<1>5. CASE damage = "version"
  <2>1. D.version = 2  BY <1>1, <1>5 DEF Damaged
  <2>2. d = Refusal  BY <2>1 DEF Decode
  <2> QED  BY <1>5, <2>2 DEF Refusal
<1>6. CASE damage = "type"
  <2>1. /\ D.type = IF of = "json" THEN "binary" ELSE "json"
        /\ D.magic = TRUE /\ D.version = 1 /\ D.length = size /\ D.bytes = 9 + size
    BY <1>1, <1>6 DEF Damaged
  <2>2. d = [ok |-> TRUE, type |-> D.type, size |-> size]
    <3>1. 9 + size \in Nat /\ 9 + size >= 9 + size  BY <1>1
    <3> QED  BY <1>1, <2>1, <3>1, WholeRead, Zenon
  <2> QED  BY <1>1, <1>6, <2>1, <2>2
<1>7. CASE damage = "unknown"
  <2>1. D.type = "unknown"  BY <1>1, <1>7 DEF Damaged
  <2>2. d = Refusal  BY <2>1 DEF Decode, FrameTypes
  <2> QED  BY <1>2, <1>7, <2>2 DEF Refusal
<1>8. CASE damage = "longer"
  <2>1. D.length = MaxFrameSize + 1  BY <1>1, <1>8 DEF Damaged
  <2>2. d = Refusal  BY <1>1, <2>1 DEF Decode
  <2> QED  BY <1>8, <2>2 DEF Refusal
<1>9. CASE damage = "shorter"
  <2>1. D.magic = TRUE /\ D.version = 1 /\ D.type = of /\ D.length = size - 1 /\ D.bytes = 9 + size
    BY <1>1, <1>9 DEF Damaged
  <2>2. d = [ok |-> TRUE, type |-> of, size |-> size - 1]
    <3>1. 9 + size \in Nat /\ size - 1 \in Nat /\ size - 1 <= MaxFrameSize
          /\ 9 + size >= 9 + (size - 1)
      BY <1>1
    <3> QED  BY <1>1, <2>1, <3>1, WholeRead, Zenon
  <2> QED  BY <1>1, <1>9, <2>2
<1>10. CASE damage = "cut"
  <2>1. D.length = size /\ D.bytes = 9 + size - 1  BY <1>1, <1>10 DEF Damaged
  <2>2. d = Refusal  BY <1>1, <2>1 DEF Decode, HeaderSize
  <2> QED  BY <1>10, <2>2 DEF Refusal
<1>11. CASE damage = "header"
  <2>1. D.bytes = 8
    <3>1. D = [f EXCEPT !.bytes = HeaderSize - 1]  BY <1>11 DEF Damaged
    <3> QED  BY <1>1, <3>1 DEF HeaderSize
  <2>2. d = Refusal  BY <2>1 DEF Decode, HeaderSize
  <2> QED  BY <1>11, <2>2 DEF Refusal
<1>12. CASE damage = "more"
  <2>1. D.magic = TRUE /\ D.version = 1 /\ D.type = of /\ D.length = size /\ D.bytes = 9 + size + 1
    BY <1>1, <1>12 DEF Damaged
  <2>2. d = [ok |-> TRUE, type |-> of, size |-> size]
    <3>1. 9 + size + 1 \in Nat /\ 9 + size + 1 >= 9 + size  BY <1>1
    <3> QED  BY <1>1, <2>1, <3>1, WholeRead, Zenon
  <2>3. d.ok = TRUE /\ d.type = of /\ d.size = size  BY <2>2
  <2>4. d.size <= size  BY <1>1, <2>3
  <2>5. d.ok /\ d.type = "json" /\ of = "json" /\ d.size = size <=> of = "json"  BY <2>3
  <2> QED  BY <1>12, <2>2, <2>4, <2>5
<1> QED  BY <1>2, <1>3, <1>4, <1>5, <1>6, <1>7, <1>8, <1>9, <1>10, <1>11, <1>12

\* A frame is read as it was written.
LEMMA FramesRight == WireShape => FramesReadAsWritten
<1> SUFFICES ASSUME WireShape, NEW i \in DOMAIN received, received[i].what.form = "binary"
             PROVE  LET m == received[i].what
                        d == Decode(m.frame)
                    IN /\ m.damage \in {"none", "more"}
                             => d = [ok |-> TRUE, type |-> m.of, size |-> m.size]
                       /\ d.ok => d.size <= m.size
                       /\ DecodeMessage(m).ok <=> m.of = "json" /\ m.damage \in {"none", "more"}
  BY DEF FramesReadAsWritten
<1> DEFINE m == received[i].what
<1>0. received \in Seq([by : Scripts, what : Plain \cup Framed \cup {Null}])  BY DEF WireShape
<1>1. m \in Plain \cup Framed \cup {Null}
  <2>1. received[i] \in [by : Scripts, what : Plain \cup Framed \cup {Null}]
    BY <1>0, ElementOfSeq, LenProperties
  <2> QED  BY <2>1
<1>2. m \in Framed  BY <1>1, PlainForm
<1>3. PICK n \in Nat, of \in {"json", "binary"}, size \in Fitting, damage \in Damages :
        m = [form |-> "binary", number |-> n, of |-> of, size |-> size, damage |-> damage,
             frame |-> Damaged(Encode(of, size), damage)]
  BY <1>2 DEF Framed
<1> HIDE DEF m
<1> DEFINE d == Decode(Damaged(Encode(of, size), damage))
<1>4. /\ m.of = of /\ m.size = size /\ m.damage = damage
      /\ Decode(m.frame) = d
  BY <1>3
<1>5. /\ damage \in {"none", "more"} => d = [ok |-> TRUE, type |-> of, size |-> size]
      /\ d.ok => d.size <= size
      /\ d.ok /\ d.type = "json" /\ of = "json" /\ d.size = size
            <=> of = "json" /\ damage \in {"none", "more"}
  BY FramedIsRead
<1> HIDE DEF d
<1>6. DecodeMessage(m).ok <=> of = "json" /\ damage \in {"none", "more"}
  <2>1. CASE d.ok /\ d.type = "json" /\ of = "json" /\ d.size = size
    BY <1>4, <1>5, <2>1 DEF DecodeMessage
  <2>2. CASE ~(d.ok /\ d.type = "json" /\ of = "json" /\ d.size = size)
    <3>1. DecodeMessage(m) = Refusal  BY <1>4, <2>2 DEF DecodeMessage
    <3> QED  BY <1>5, <2>2, <3>1 DEF Refusal
  <2> QED  BY <2>1, <2>2
<1> QED  BY <1>4, <1>5, <1>6 DEF m


\* Sequences without their first element, and with one more.
LEMMA TailKeeps ==
    ASSUME NEW S, NEW s \in Seq(S), s # <<>>
    PROVE  /\ Head(s) = s[1] /\ Head(s) \in S /\ 1 \in DOMAIN s
           /\ Tail(s) \in Seq(S)
           /\ \A i \in DOMAIN Tail(s) : i + 1 \in DOMAIN s /\ Tail(s)[i] = s[i + 1]
OBVIOUS

LEMMA AppendKeeps ==
    ASSUME NEW S, NEW s \in Seq(S), NEW x \in S
    PROVE  /\ Append(s, x) \in Seq(S)
           /\ DOMAIN s = 1..Len(s) /\ Len(s) \in Nat
           /\ DOMAIN Append(s, x) = 1..(Len(s) + 1)
           /\ \A i \in DOMAIN s : Append(s, x)[i] = s[i]
           /\ Append(s, x)[Len(s) + 1] = x
           /\ \A i \in DOMAIN Append(s, x) : i \in DOMAIN s \/ i = Len(s) + 1
OBVIOUS

LEMMA PeerSendsFits == WireIInv /\ PeerSends => WireIInv'
<1>1. SUFFICES ASSUME WireIInv, PeerSends PROVE WireIInv'  OBVIOUS
<1>2. /\ ~peerClosed /\ sentCount \in Nat /\ sentCount' = sentCount + 1 /\ sentCount' \in 0..MaxSent
      /\ sentCount' \in Nat /\ peerClosed' \in BOOLEAN
  <2>1. sentCount \in 0..MaxSent /\ sentCount < MaxSent /\ MaxSent \in Nat
    BY <1>1, WireAssumption DEF WireIInv, WireShape, PeerSends
  <2>2. ~peerClosed /\ sentCount' = sentCount + 1  BY <1>1 DEF PeerSends
  <2>3. peerClosed' \in BOOLEAN
    <3>1. \/ \E form \in {"text", "ping", "close"} : peerClosed' = (form = "close")
          \/ UNCHANGED peerClosed
      BY <1>1, Zenon DEF PeerSends
    <3>2. peerClosed \in BOOLEAN  BY <1>1 DEF WireIInv, WireShape
    <3> QED  BY <3>1, <3>2, Zenon
  <2> QED  BY <2>1, <2>2, <2>3
<1>3. UNCHANGED <<toPeer, receivers, senders, called, received>>
  BY <1>1 DEF PeerSends
<1>4. \/ fromPeer' = fromPeer
      \/ \E m \in Plain \cup Framed : m.number = sentCount' /\ fromPeer' = Append(fromPeer, m)
  <2>1. CASE \E form \in {"text", "ping", "close"} :
               fromPeer' = Append(fromPeer, [form |-> form, number |-> sentCount + 1])
    <3>1. PICK form \in {"text", "ping", "close"} :
            fromPeer' = Append(fromPeer, [form |-> form, number |-> sentCount + 1])
      BY <2>1
    <3> DEFINE m == [form |-> form, number |-> sentCount + 1]
    <3>2. m \in Plain  BY <1>2 DEF Plain
    <3>3. m.number = sentCount'  BY <1>2
    <3> QED  BY <3>1, <3>2, <3>3
  <2>2. CASE \E of \in {"json", "binary"}, size \in PayloadSizes, damage \in Damages :
               fromPeer' = IF ~Encode(of, size).ok THEN fromPeer
                           ELSE Append(fromPeer, [form |-> "binary", number |-> sentCount + 1,
                                                  of |-> of, size |-> size, damage |-> damage,
                                                  frame |-> Damaged(Encode(of, size), damage)])
    <3>1. PICK of \in {"json", "binary"}, size \in PayloadSizes, damage \in Damages :
               fromPeer' = IF ~Encode(of, size).ok THEN fromPeer
                           ELSE Append(fromPeer, [form |-> "binary", number |-> sentCount + 1,
                                                  of |-> of, size |-> size, damage |-> damage,
                                                  frame |-> Damaged(Encode(of, size), damage)])
      BY <2>2
    <3> DEFINE m == [form |-> "binary", number |-> sentCount + 1, of |-> of, size |-> size,
                     damage |-> damage, frame |-> Damaged(Encode(of, size), damage)]
    <3>2. CASE size \in Fitting
      <4>1. m \in Framed  BY <1>2, <3>2 DEF Framed
      <4>2. m.number = sentCount'  BY <1>2
      <4>3. fromPeer' = fromPeer \/ fromPeer' = Append(fromPeer, m)  BY <3>1
      <4> QED  BY <4>1, <4>2, <4>3
    <3>3. CASE size \notin Fitting
      <4>1. size > MaxFrameSize
        <5>1. size \in Nat /\ MaxFrameSize \in Nat  BY WireAssumption
        <5>2. ~(size <= MaxFrameSize)  BY <3>3 DEF Fitting
        <5> QED  BY <5>1, <5>2
      <4>2. Encode(of, size) = Refusal  BY <4>1 DEF Encode
      <4>3. ~Encode(of, size).ok  BY <4>2 DEF Refusal
      <4> QED  BY <3>1, <4>3
    <3> QED  BY <3>2, <3>3
  <2>3. \/ \E form \in {"text", "ping", "close"} :
             fromPeer' = Append(fromPeer, [form |-> form, number |-> sentCount + 1])
        \/ \E of \in {"json", "binary"}, size \in PayloadSizes, damage \in Damages :
               fromPeer' = IF ~Encode(of, size).ok THEN fromPeer
                           ELSE Append(fromPeer, [form |-> "binary", number |-> sentCount + 1,
                                                  of |-> of, size |-> size, damage |-> damage,
                                                  frame |-> Damaged(Encode(of, size), damage)])
    BY <1>1, Zenon DEF PeerSends
  <2> QED  BY <2>1, <2>2, <2>3
<1>5. fromPeer \in Seq(Plain \cup Framed)  BY <1>1 DEF WireIInv, WireShape
<1>6. fromPeer' \in Seq(Plain \cup Framed)  BY <1>4, <1>5, AppendKeeps
<1>7. WireShape'
  BY <1>1, <1>2, <1>3, <1>6 DEF WireIInv, WireShape
<1>8. ReceivedInOrder'  BY <1>1, <1>3 DEF WireIInv, ReceivedInOrder
<1>9. \A i \in DOMAIN fromPeer : fromPeer[i].number <= sentCount /\ fromPeer[i].number \in Nat
  <2> SUFFICES ASSUME NEW i \in DOMAIN fromPeer
               PROVE  fromPeer[i].number <= sentCount /\ fromPeer[i].number \in Nat
    OBVIOUS
  <2>1. fromPeer[i] \in Plain \cup Framed  BY <1>5
  <2> QED  BY <1>1, <2>1, PlainForm DEF WireIInv, OnTheWay
<1>10. \A i \in DOMAIN received : received[i].what.form # "null" =>
          received[i].what.number <= sentCount /\ received[i].what.number \in Nat
  <2> SUFFICES ASSUME NEW i \in DOMAIN received, received[i].what.form # "null"
               PROVE  received[i].what.number <= sentCount /\ received[i].what.number \in Nat
    OBVIOUS
  <2>1. received \in Seq([by : Scripts, what : Plain \cup Framed \cup {Null}])
    BY <1>1 DEF WireIInv, WireShape
  <2>2. received[i] \in [by : Scripts, what : Plain \cup Framed \cup {Null}]
    BY <2>1, ElementOfSeq, LenProperties
  <2>3. received[i].what \in Plain \cup Framed  BY <2>2, PlainForm
  <2> QED  BY <1>1, <2>3, PlainForm DEF WireIInv, OnTheWay
<1>11. OnTheWay'
  <2>1. CASE fromPeer' = fromPeer
    <3>1. \A i \in DOMAIN fromPeer : fromPeer[i].number <= sentCount'  BY <1>2, <1>9
    <3>2. \A i \in DOMAIN received :
          IF received[i].what.form = "null" THEN peerClosed' /\ fromPeer = <<>>
          ELSE /\ received[i].what.number <= sentCount'
               /\ \A j \in DOMAIN fromPeer : received[i].what.number < fromPeer[j].number
      BY <1>1, <1>2, <1>10 DEF WireIInv, OnTheWay
    <3> QED  BY <1>1, <1>3, <2>1, <3>1, <3>2 DEF WireIInv, OnTheWay
  <2>2. CASE fromPeer' # fromPeer
    <3>1. PICK m \in Plain \cup Framed : m.number = sentCount' /\ fromPeer' = Append(fromPeer, m)
      BY <1>4, <2>2
    <3>2. /\ DOMAIN fromPeer = 1..Len(fromPeer) /\ Len(fromPeer) \in Nat
          /\ \A i \in DOMAIN fromPeer : fromPeer'[i] = fromPeer[i]
          /\ fromPeer'[Len(fromPeer) + 1] = m
          /\ \A i \in DOMAIN fromPeer' : i \in DOMAIN fromPeer \/ i = Len(fromPeer) + 1
      BY <1>5, <3>1, AppendKeeps
    <3>3. \A i \in DOMAIN fromPeer' : fromPeer'[i].number <= sentCount'
      BY <1>2, <1>9, <3>1, <3>2
    <3>4. \A i, j \in DOMAIN fromPeer' : i < j => fromPeer'[i].number < fromPeer'[j].number
      <4> SUFFICES ASSUME NEW i \in DOMAIN fromPeer', NEW j \in DOMAIN fromPeer', i < j
                   PROVE  fromPeer'[i].number < fromPeer'[j].number
        OBVIOUS
      <4>1. i \in DOMAIN fromPeer  BY <3>2
      <4>2. CASE j \in DOMAIN fromPeer
        BY <1>1, <3>2, <4>1, <4>2 DEF WireIInv, OnTheWay
      <4>3. CASE j = Len(fromPeer) + 1
        BY <1>2, <1>9, <3>1, <3>2, <4>1, <4>3
      <4> QED  BY <3>2, <4>2, <4>3
    <3>5. \A i \in DOMAIN received :
          IF received[i].what.form = "null" THEN peerClosed' /\ fromPeer' = <<>>
          ELSE /\ received[i].what.number <= sentCount'
               /\ \A j \in DOMAIN fromPeer' : received[i].what.number < fromPeer'[j].number
      <4> SUFFICES ASSUME NEW i \in DOMAIN received
                   PROVE  /\ received[i].what.form # "null"
                          /\ received[i].what.number <= sentCount'
                          /\ \A j \in DOMAIN fromPeer' : received[i].what.number < fromPeer'[j].number
        OBVIOUS
      <4>1. received[i].what.form # "null"  BY <1>1, <1>2 DEF WireIInv, OnTheWay
      <4>2. received[i].what.number \in Nat /\ received[i].what.number <= sentCount
        BY <1>10, <4>1
      <4>3. \A j \in DOMAIN fromPeer : received[i].what.number < fromPeer[j].number
        BY <1>1, <4>1 DEF WireIInv, OnTheWay
      <4> QED  BY <1>2, <3>1, <3>2, <4>1, <4>2, <4>3
    <3> QED  BY <1>3, <3>3, <3>4, <3>5 DEF OnTheWay
  <2> QED  BY <2>1, <2>2
<1> QED  BY <1>7, <1>8, <1>11 DEF WireIInv

\* What the history says of what was received so far.
LEMMA ReceivedIs ==
    ASSUME WireIInv
    PROVE  /\ received \in Seq([by : Scripts, what : Plain \cup Framed \cup {Null}])
           /\ \A i \in DOMAIN received :
                 /\ received[i] \in [by : Scripts, what : Plain \cup Framed \cup {Null}]
                 /\ received[i].what.form # "null" => received[i].what.number \in Nat
           /\ fromPeer \in Seq(Plain \cup Framed)
           /\ \A i \in DOMAIN fromPeer :
                 /\ fromPeer[i] \in Plain \cup Framed
                 /\ fromPeer[i].number \in Nat /\ fromPeer[i].form # "null"
<1>1. /\ received \in Seq([by : Scripts, what : Plain \cup Framed \cup {Null}])
      /\ fromPeer \in Seq(Plain \cup Framed)
  BY DEF WireIInv, WireShape
<1>2. \A i \in DOMAIN received : received[i] \in [by : Scripts, what : Plain \cup Framed \cup {Null}]
  BY <1>1, ElementOfSeq, LenProperties
<1>3. \A i \in DOMAIN fromPeer : fromPeer[i] \in Plain \cup Framed
  BY <1>1, ElementOfSeq, LenProperties
<1>4. ASSUME NEW i \in DOMAIN received, received[i].what.form # "null"
      PROVE  received[i].what.number \in Nat
  <2>1. received[i].what \in Plain \cup Framed \cup {Null}  BY <1>2
  <2> QED  BY <1>4, <2>1, PlainForm
<1>5. ASSUME NEW i \in DOMAIN fromPeer PROVE fromPeer[i].number \in Nat /\ fromPeer[i].form # "null"
  <2>1. "null" \notin MessageForms /\ "null" # "binary"  BY DEF MessageForms
  <2> QED  BY <1>3, <2>1, PlainForm
<1> QED  BY <1>1, <1>2, <1>3, <1>4, <1>5

\* A message of the peer goes to the first who waits, and is behind all that went before.
LEMMA HandOverFits == WireIInv /\ HandOver => WireIInv'
<1>1. SUFFICES ASSUME WireIInv, HandOver PROVE WireIInv'  OBVIOUS
<1> DEFINE e == [by |-> Head(receivers), what |-> Head(fromPeer)]
<1>2. /\ receivers # <<>> /\ fromPeer # <<>>
      /\ received' = Append(received, e)
      /\ receivers' = Tail(receivers) /\ fromPeer' = Tail(fromPeer)
      /\ UNCHANGED <<toPeer, peerClosed, senders, sentCount, called>>
  BY <1>1 DEF HandOver
<1>3. receivers \in Seq(Scripts) /\ fromPeer \in Seq(Plain \cup Framed)
  BY <1>1 DEF WireIInv, WireShape
<1>4. /\ Head(receivers) \in Scripts /\ Tail(receivers) \in Seq(Scripts)
      /\ Head(fromPeer) = fromPeer[1] /\ Head(fromPeer) \in Plain \cup Framed
      /\ 1 \in DOMAIN fromPeer
      /\ Tail(fromPeer) \in Seq(Plain \cup Framed)
      /\ \A i \in DOMAIN Tail(fromPeer) :
            i + 1 \in DOMAIN fromPeer /\ Tail(fromPeer)[i] = fromPeer[i + 1]
  BY <1>2, <1>3, TailKeeps
<1>5. e \in [by : Scripts, what : Plain \cup Framed \cup {Null}] /\ e.what = fromPeer[1]
  BY <1>4
<1> HIDE DEF e
<1>6. /\ received' \in Seq([by : Scripts, what : Plain \cup Framed \cup {Null}])
      /\ DOMAIN received = 1..Len(received) /\ Len(received) \in Nat
      /\ \A i \in DOMAIN received : received'[i] = received[i]
      /\ received'[Len(received) + 1] = e
      /\ \A i \in DOMAIN received' : i \in DOMAIN received \/ i = Len(received) + 1
  BY <1>2, <1>5, ReceivedIs, <1>1, AppendKeeps
<1>7. WireShape'
  BY <1>1, <1>2, <1>4, <1>6 DEF WireIInv, WireShape
<1>8. \A i \in DOMAIN received :
         /\ received[i].what.form # "null" /\ received[i].what.number < fromPeer[1].number
         /\ \A j \in DOMAIN fromPeer : received[i].what.number < fromPeer[j].number
         /\ received[i].what.number <= sentCount
  BY <1>1, <1>2, <1>4 DEF WireIInv, OnTheWay
<1>9. fromPeer[1].form # "null" /\ fromPeer[1].number \in Nat /\ fromPeer[1].number <= sentCount
  BY <1>1, <1>4, ReceivedIs DEF WireIInv, OnTheWay
<1>10. \A j \in DOMAIN fromPeer' : fromPeer'[j] = fromPeer[j + 1] /\ j + 1 \in DOMAIN fromPeer
                                   /\ fromPeer[1].number < fromPeer[j + 1].number
  <2>1. \A j \in DOMAIN fromPeer' : 1 < j + 1  BY <1>2, <1>4
  <2> QED  BY <1>1, <1>2, <1>4, <2>1 DEF WireIInv, OnTheWay
<1>11. ReceivedInOrder'
  <2> SUFFICES ASSUME NEW i \in DOMAIN received', NEW j \in DOMAIN received', i < j
               PROVE  /\ received'[i].what.form = "null" => received'[j].what.form = "null"
                      /\ received'[j].what.form # "null"
                            => received'[i].what.number < received'[j].what.number
    BY DEF ReceivedInOrder
  <2>1. i \in DOMAIN received  BY <1>6
  <2>2. CASE j \in DOMAIN received
    BY <1>1, <1>6, <2>1, <2>2 DEF WireIInv, ReceivedInOrder
  <2>3. CASE j = Len(received) + 1
    BY <1>5, <1>6, <1>8, <2>1, <2>3
  <2> QED  BY <1>6, <2>2, <2>3
<1>12. OnTheWay'
  <2>1. \A i \in DOMAIN fromPeer' : fromPeer'[i].number <= sentCount
    BY <1>1, <1>10 DEF WireIInv, OnTheWay
  <2>2. \A i, j \in DOMAIN fromPeer' : i < j => fromPeer'[i].number < fromPeer'[j].number
    <3> SUFFICES ASSUME NEW i \in DOMAIN fromPeer', NEW j \in DOMAIN fromPeer', i < j
                 PROVE  fromPeer'[i].number < fromPeer'[j].number
      OBVIOUS
    <3>1. i + 1 < j + 1  BY <1>2, <1>4
    <3> QED  BY <1>1, <1>10, <3>1 DEF WireIInv, OnTheWay
  <2>3. \A i \in DOMAIN received' :
          /\ received'[i].what.form # "null" /\ received'[i].what.number <= sentCount
          /\ \A j \in DOMAIN fromPeer' : received'[i].what.number < fromPeer'[j].number
    <3> SUFFICES ASSUME NEW i \in DOMAIN received'
                 PROVE  /\ received'[i].what.form # "null" /\ received'[i].what.number <= sentCount
                        /\ \A j \in DOMAIN fromPeer' :
                              received'[i].what.number < fromPeer'[j].number
      OBVIOUS
    <3>1. CASE i \in DOMAIN received  BY <1>6, <1>8, <1>10, <3>1
    <3>2. CASE i = Len(received) + 1  BY <1>5, <1>6, <1>9, <1>10, <3>2
    <3> QED  BY <1>6, <3>1, <3>2
  <2> QED  BY <1>2, <2>1, <2>2, <2>3 DEF OnTheWay
<1> QED  BY <1>7, <1>11, <1>12 DEF WireIInv

\* The end of the stream is told to who asks from then on.
LEMMA HandOverNullFits == WireIInv /\ HandOverNull => WireIInv'
<1>1. SUFFICES ASSUME WireIInv, HandOverNull PROVE WireIInv'  OBVIOUS
<1> DEFINE e == [by |-> Head(receivers), what |-> Null]
<1>2. /\ receivers # <<>> /\ fromPeer = <<>> /\ peerClosed
      /\ received' = Append(received, e)
      /\ receivers' = Tail(receivers)
      /\ UNCHANGED <<fromPeer, toPeer, peerClosed, senders, sentCount, called>>
  BY <1>1 DEF HandOverNull, Null
<1>3. receivers \in Seq(Scripts)  BY <1>1 DEF WireIInv, WireShape
<1>4. Head(receivers) \in Scripts /\ Tail(receivers) \in Seq(Scripts)
  BY <1>2, <1>3, TailKeeps
<1>5. /\ e \in [by : Scripts, what : Plain \cup Framed \cup {Null}]
      /\ e.what.form = "null"
  BY <1>4, PlainForm
<1> HIDE DEF e
<1>6. /\ received' \in Seq([by : Scripts, what : Plain \cup Framed \cup {Null}])
      /\ DOMAIN received = 1..Len(received) /\ Len(received) \in Nat
      /\ \A i \in DOMAIN received : received'[i] = received[i]
      /\ received'[Len(received) + 1] = e
      /\ \A i \in DOMAIN received' : i \in DOMAIN received \/ i = Len(received) + 1
  BY <1>2, <1>5, ReceivedIs, <1>1, AppendKeeps
<1>7. WireShape'  BY <1>1, <1>2, <1>4, <1>6 DEF WireIInv, WireShape
<1>8. ReceivedInOrder'
  <2> SUFFICES ASSUME NEW i \in DOMAIN received', NEW j \in DOMAIN received', i < j
               PROVE  /\ received'[i].what.form = "null" => received'[j].what.form = "null"
                      /\ received'[j].what.form # "null"
                            => received'[i].what.number < received'[j].what.number
    BY DEF ReceivedInOrder
  <2>1. i \in DOMAIN received  BY <1>6
  <2>2. CASE j \in DOMAIN received
    BY <1>1, <1>6, <2>1, <2>2 DEF WireIInv, ReceivedInOrder
  <2>3. CASE j = Len(received) + 1
    BY <1>5, <1>6, <2>3
  <2> QED  BY <1>6, <2>2, <2>3
<1>9. OnTheWay'
  <2>1. ASSUME NEW i \in DOMAIN received'
        PROVE  IF received'[i].what.form = "null" THEN peerClosed /\ fromPeer = <<>>
               ELSE /\ received'[i].what.number <= sentCount
                    /\ \A j \in DOMAIN fromPeer : received'[i].what.number < fromPeer[j].number
    <3>1. CASE i \in DOMAIN received  BY <1>1, <1>6, <3>1 DEF WireIInv, OnTheWay
    <3>2. CASE i = Len(received) + 1  BY <1>2, <1>5, <1>6, <3>2
    <3> QED  BY <1>6, <3>1, <3>2
  <2> QED  BY <1>1, <1>2, <2>1 DEF WireIInv, OnTheWay
<1> QED  BY <1>7, <1>8, <1>9 DEF WireIInv

LEMMA WireStep == WireIInv /\ [WireNext]_wireVars => WireIInv'
<1>1. SUFFICES ASSUME WireIInv, [WireNext]_wireVars PROVE WireIInv'  OBVIOUS
<1>2. ASSUME UNCHANGED <<fromPeer, peerClosed, sentCount, received>>, WireShape'
      PROVE  WireIInv'
  BY <1>1, <1>2 DEF WireIInv, OnTheWay, ReceivedInOrder
<1>3. CASE PeerSends  BY <1>1, <1>3, PeerSendsFits
<1>4. ASSUME NEW s \in Scripts, StartReceive(s) PROVE WireIInv'
  <2>1. /\ UNCHANGED <<fromPeer, toPeer, peerClosed, senders, sentCount, received>>
        /\ receivers' = Append(receivers, s) /\ called' = called + 1 /\ called < MaxScriptCalls
    BY <1>4 DEF StartReceive, Call
  <2>2. receivers' \in Seq(Scripts)
    BY <1>1, <2>1, AppendKeeps DEF WireIInv, WireShape
  <2>3. called' \in 0..MaxScriptCalls  BY <1>1, <2>1, WireAssumption DEF WireIInv, WireShape
  <2>4. WireShape'  BY <1>1, <2>1, <2>2, <2>3 DEF WireIInv, WireShape
  <2> QED  BY <1>2, <2>1, <2>4
<1>5. ASSUME NEW s \in Scripts, StartSend(s) PROVE WireIInv'
  <2>1. PICK what \in MessageForms : senders' = Append(senders, [who |-> s, what |-> what])
    BY <1>5 DEF StartSend
  <2>2. /\ UNCHANGED <<fromPeer, toPeer, peerClosed, receivers, sentCount, received>>
        /\ called' = called + 1 /\ called < MaxScriptCalls
    BY <1>5 DEF StartSend, Call
  <2>3. senders' \in Seq([who : Scripts, what : MessageForms])
    <3>1. [who |-> s, what |-> what] \in [who : Scripts, what : MessageForms]  OBVIOUS
    <3> QED  BY <1>1, <2>1, <3>1, AppendKeeps DEF WireIInv, WireShape
  <2>4. called' \in 0..MaxScriptCalls  BY <1>1, <2>2, WireAssumption DEF WireIInv, WireShape
  <2>5. WireShape'  BY <1>1, <2>2, <2>3, <2>4 DEF WireIInv, WireShape
  <2> QED  BY <1>2, <2>2, <2>5
<1>6. CASE HandOver  BY <1>1, <1>6, HandOverFits
<1>7. CASE HandOverNull  BY <1>1, <1>7, HandOverNullFits
<1>8. CASE SendNext
  <2>1. /\ senders # <<>> /\ senders' = Tail(senders)
        /\ toPeer' = Append(toPeer, Head(senders).what) \/ toPeer' = toPeer
        /\ UNCHANGED <<fromPeer, peerClosed, receivers, sentCount, called, received>>
    BY <1>8 DEF SendNext
  <2>2. senders \in Seq([who : Scripts, what : MessageForms]) /\ toPeer \in Seq(MessageForms)
    BY <1>1 DEF WireIInv, WireShape
  <2>3. /\ Tail(senders) \in Seq([who : Scripts, what : MessageForms])
        /\ Head(senders) \in [who : Scripts, what : MessageForms]
    BY <2>1, <2>2, TailKeeps
  <2>4. toPeer' \in Seq(MessageForms)
    <3>1. Head(senders).what \in MessageForms  BY <2>3
    <3>2. Append(toPeer, Head(senders).what) \in Seq(MessageForms)  BY <2>2, <3>1, AppendKeeps
    <3> QED  BY <2>1, <2>2, <3>2
  <2>5. WireShape'  BY <1>1, <2>1, <2>3, <2>4 DEF WireIInv, WireShape
  <2> QED  BY <1>2, <2>1, <2>5
<1>9. CASE UNCHANGED wireVars
  <2>1. WireShape'  BY <1>1, <1>9 DEF WireIInv, WireShape, wireVars
  <2> QED  BY <1>2, <1>9, <2>1 DEF wireVars
<1> QED  BY <1>1, <1>3, <1>4, <1>5, <1>6, <1>7, <1>8, <1>9 DEF WireNext

\* Frames and messages are read as they were sent; and the types.
LEMMA WireRight == WireIInv => FramesReadAsWritten /\ ReceivedInOrder /\ WireTypeOK
<1>1. SUFFICES ASSUME WireIInv PROVE FramesReadAsWritten /\ ReceivedInOrder /\ WireTypeOK  OBVIOUS
<1>2. FramesReadAsWritten /\ ReceivedInOrder  BY <1>1, FramesRight DEF WireIInv
<1>3. \A i \in DOMAIN fromPeer : fromPeer[i].form \in MessageForms
  <2>1. "binary" \in MessageForms  BY DEF MessageForms
  <2> QED  BY <1>1, <2>1, ReceivedIs, PlainForm
<1>4. \A i \in DOMAIN senders : senders[i].who \in Scripts /\ senders[i].what \in MessageForms
  <2>1. senders \in Seq([who : Scripts, what : MessageForms])  BY <1>1 DEF WireIInv, WireShape
  <2>2. \A i \in DOMAIN senders : senders[i] \in [who : Scripts, what : MessageForms]
    BY <2>1, ElementOfSeq, LenProperties
  <2> QED  BY <2>2
<1>5. \A i \in DOMAIN received : received[i].by \in Scripts  BY <1>1, ReceivedIs
<1> QED  BY <1>1, <1>2, <1>3, <1>4, <1>5 DEF WireTypeOK, WireIInv, WireShape

\* A set of numbers has a least one.
LEMMA LeastNumber ==
    ASSUME NEW T, T \subseteq Nat, T # {}
    PROVE  \E m \in T : \A k \in T : m <= k
<1>1. PICK m \in T : \A k \in T : ~(<<k, m>> \in OpToRel(<, Nat))
  BY NatLessThanWellFounded, WFMin
<1>2. ASSUME NEW k \in T PROVE m <= k
  <2>1. k \in Nat /\ m \in Nat  OBVIOUS
  <2>2. ~(k < m)
    <3>1. k < m => <<k, m>> \in OpToRel(<, Nat)  BY <2>1 DEF OpToRel
    <3> QED  BY <1>1, <3>1
  <2> QED  BY <2>1, <2>2
<1> QED  BY <1>2

-----------------------------------------------------------------------------
(* Configurations and manifests.                                           *)

\* Which of the usual paths were passed over, and where the search is.
Passed(i) == UsualPaths[i] \notin throughout
PathFound == {"found", "read", "over"}

SearchFits ==
    /\ throughout \subseteq {p \in Paths : files[p].there}
    /\ loading = "args" => looked = 0
    /\ loading = "looking" => configArg # "with" /\ \A i \in 1..looked : Passed(i)
    /\ loading \in PathFound => \A i \in 1..looked : Passed(i) \/ UsualPaths[i] = origin.path
    /\ loading # "over" => config.from = "nothing"

\* What became of it.
OutcomeIsRight ==
    /\ config.from = "defaults" =>
          configArg # "with" /\ looked = Len(UsualPaths) /\ \A i \in 1..looked : Passed(i)
    /\ config.from = "error" => origin.path \notin throughout \/ ~Parses(origin.keys, text)

\* What is made of a manifest is made of its draft.
ManifestFits ==
    manifest.is = "read" =>
       /\ draft \in Drafts /\ ManifestError(draft) = "none"
       /\ manifest.version = draft.version
       /\ manifest.dependencies = {Dependency(d) : d \in draft.dependencies}

FilesShape ==
    /\ environment \in Environments
    /\ files \in [Paths -> {Missing} \cup {File(d) : d \in Documents}]
    /\ fileChanges \in 0..FileChanges /\ configArg \in ConfigArgs
    /\ throughout \subseteq Paths

LoadShape ==
    /\ loading \in {"none", "args", "looking", "found", "read", "over"}
    /\ looked \in 0..Len(UsualPaths) /\ text \in Seq(Pieces)
    /\ expansions \in 0..MaxExpansions
    /\ config.from \in {"nothing", "file", "defaults", "error"}
    /\ origin \in [path : Paths, keys : SUBSET ConfigKeys, text : Seq(Pieces)]
    /\ loading = "none" => config.from = "nothing" /\ looked = 0

ManifestShape == draft \in Drafts \cup {NoDraft} /\ manifest.is \in {"unread", "error", "read"}

SettingsIInv ==
    /\ FilesShape /\ LoadShape /\ ManifestShape
    /\ SearchFits /\ OutcomeIsRight /\ ManifestFits

LEMMA ThreeIs ==
    ASSUME NEW a, NEW b, NEW c
    PROVE  /\ Len(<<a, b, c>>) = 3 /\ DOMAIN <<a, b, c>> = 1..3
           /\ <<a, b, c>> \in Seq({a, b, c})
OBVIOUS

LEMMA UsualPathsAre ==
    /\ Len(UsualPaths) = 3 /\ DOMAIN UsualPaths = 1..3
    /\ Range(UsualPaths) = {UsualPaths[i] : i \in 1..3}
    /\ \A i \in 1..3 : UsualPaths[i] \in Paths
<1>1. Len(UsualPaths) = 3 /\ DOMAIN UsualPaths = 1..3
  BY ThreeIs, Zenon DEF UsualPaths
<1>2. Range(UsualPaths) = {UsualPaths[i] : i \in 1..3}
  BY <1>1, Zenon DEF Range
<1>3. \A i \in 1..3 : UsualPaths[i] \in Paths
  BY <1>2, Zenon DEF Paths
<1> QED  BY <1>1, <1>2, <1>3

LEMMA FileIs ==
    /\ Missing.there = FALSE
    /\ \A d \in Documents : File(d).there = TRUE /\ File(d).text \in Seq(Pieces)
    /\ \A p \in Paths : FilesShape /\ files[p].there =>
          files[p].there = TRUE /\ files[p].text \in Seq(Pieces)
<1>1. Missing.there = FALSE  BY Zenon DEF Missing
<1>2. ASSUME NEW d \in Documents PROVE File(d).there = TRUE /\ File(d).text \in Seq(Pieces)
  <2>1. d.text \in Seq(Pieces)  BY SettingsAssumption, Zenon
  <2> QED  BY <2>1, Zenon DEF File
<1>3. ASSUME NEW p \in Paths, FilesShape, files[p].there
      PROVE  files[p].there = TRUE /\ files[p].text \in Seq(Pieces)
  <2>1. files[p] \in {Missing} \cup {File(d) : d \in Documents}  BY <1>3, Zenon DEF FilesShape
  <2>2. files[p] # Missing  BY <1>1, <1>3, Zenon
  <2>3. PICK d \in Documents : files[p] = File(d)  BY <2>1, <2>2, Zenon
  <2> QED  BY <1>2, <2>3, Zenon
<1> QED  BY <1>1, <1>2, <1>3, Zenon

LEMMA SettingsStart == SettingsInit => SettingsIInv
<1>1. SUFFICES ASSUME SettingsInit PROVE SettingsIInv  OBVIOUS
<1>2. PICK there \in AtStart, d \in Documents : FilesAtStart(there, d)  BY <1>1 DEF SettingsInit
<1>3. /\ files = [p \in Paths |-> IF p \in there THEN File(d) ELSE Missing]
      /\ throughout = there
  BY <1>2 DEF FilesAtStart
<1>4. FileChanges \in Nat /\ MaxExpansions \in Nat  BY SettingsAssumption
<1>5. config.from = "nothing" /\ manifest.is = "unread"
  BY <1>1 DEF SettingsInit, NoConfig
<1>6. throughout \subseteq {p \in Paths : files[p].there}
  <2>1. there \subseteq Paths  BY SettingsAssumption
  <2> QED  BY <1>3, <2>1, FileIs
<1>7. FilesShape
  <2>1. files \in [Paths -> {Missing} \cup {File(e) : e \in Documents}]  BY <1>3
  <2> QED  BY <1>1, <1>4, <1>6, <2>1 DEF SettingsInit, FilesShape
<1>8. LoadShape
  <2>1. <<>> \in Seq(Pieces)  BY EmptySeq
  <2>2. origin \in [path : Paths, keys : SUBSET ConfigKeys, text : Seq(Pieces)]
    <3>1. Given \in Paths  BY DEF Paths
    <3>2. {} \in SUBSET ConfigKeys  OBVIOUS
    <3> QED  BY <1>1, <2>1, <3>1, <3>2 DEF SettingsInit, NoOrigin
  <2> QED  BY <1>1, <1>4, <1>5, <2>1, <2>2, UsualPathsAre DEF SettingsInit, LoadShape
<1>9. ManifestShape /\ ManifestFits  BY <1>1, <1>5 DEF SettingsInit, ManifestShape, ManifestFits
<1>10. SearchFits /\ OutcomeIsRight
  BY <1>1, <1>5, <1>6 DEF SettingsInit, SearchFits, OutcomeIsRight, PathFound
<1> QED  BY <1>7, <1>8, <1>9, <1>10 DEF SettingsIInv

\* Files come and go: what was passed over stays passed over.
LEMMA FileChangeFits == SettingsIInv /\ FileChange => SettingsIInv'
<1>1. SUFFICES ASSUME SettingsIInv, FileChange PROVE SettingsIInv'  OBVIOUS
<1>2. FilesShape /\ LoadShape /\ ManifestShape /\ SearchFits /\ OutcomeIsRight /\ ManifestFits
  BY <1>1 DEF SettingsIInv
<1>3. PICK p \in Paths, f \in {Missing} \cup {File(d) : d \in Documents} :
        /\ files' = [files EXCEPT ![p] = f]
        /\ throughout' = IF f.there THEN throughout ELSE throughout \ {p}
  BY <1>1 DEF FileChange
<1>4. /\ loading \notin {"none", "over"}
      /\ fileChanges' = fileChanges + 1 /\ fileChanges < FileChanges
      /\ UNCHANGED <<environment, configArg, loading, looked, text, expansions, config, origin,
                     draft, manifest>>
  BY <1>1 DEF FileChange, loadVars, manifestVars
<1>5. /\ files' \in [Paths -> {Missing} \cup {File(d) : d \in Documents}]
      /\ throughout' \subseteq throughout
  BY <1>2, <1>3 DEF FilesShape
<1>6. fileChanges' \in 0..FileChanges  BY <1>2, <1>4, SettingsAssumption DEF FilesShape
<1>7. FilesShape'  BY <1>2, <1>4, <1>5, <1>6 DEF FilesShape
<1>8. LoadShape' /\ ManifestShape' /\ ManifestFits'
  BY <1>2, <1>4 DEF LoadShape, ManifestShape, ManifestFits
<1>9. throughout' \subseteq {q \in Paths : files'[q].there}
  <2> SUFFICES ASSUME NEW q \in throughout' PROVE q \in Paths /\ files'[q].there
    OBVIOUS
  <2>1. q \in Paths /\ files[q].there  BY <1>2, <1>5 DEF SearchFits
  <2>2. CASE q = p  BY <1>2, <1>3, <2>1, <2>2 DEF FilesShape
  <2>3. CASE q # p  BY <1>2, <1>3, <2>1, <2>3 DEF FilesShape
  <2> QED  BY <2>2, <2>3
<1>10. SearchFits'
  BY <1>2, <1>4, <1>5, <1>9 DEF SearchFits, Passed
<1>11. OutcomeIsRight'
  BY <1>2, <1>4 DEF OutcomeIsRight, SearchFits
<1> QED  BY <1>7, <1>8, <1>10, <1>11 DEF SettingsIInv

\* The search: a path is passed over only if no file is there now.
LEMMA SearchGoesOn == SettingsIInv /\ (ReadArgs \/ LookAt \/ UseDefaults) => SettingsIInv'
<1>1. SUFFICES ASSUME SettingsIInv, ReadArgs \/ LookAt \/ UseDefaults PROVE SettingsIInv'
  OBVIOUS
<1>2. FilesShape /\ LoadShape /\ ManifestShape /\ SearchFits /\ OutcomeIsRight /\ ManifestFits
  BY <1>1 DEF SettingsIInv
<1>3. /\ UNCHANGED <<environment, files, fileChanges, configArg, throughout, draft, manifest>>
      /\ UNCHANGED <<text, expansions>>
  BY <1>1 DEF ReadArgs, LookAt, UseDefaults, Rests, fileVars, manifestVars
<1>4. FilesShape' /\ ManifestShape' /\ ManifestFits'
  BY <1>2, <1>3 DEF FilesShape, ManifestShape, ManifestFits
<1>5. /\ origin \in [path : Paths, keys : SUBSET ConfigKeys, text : Seq(Pieces)]
      /\ looked \in 0..3 /\ Len(UsualPaths) = 3
      /\ \A i \in 1..3 : UsualPaths[i] \in Paths
  BY <1>2, UsualPathsAre DEF LoadShape
<1>6. CASE ReadArgs
  <2>1. /\ loading = "args" /\ looked = 0 /\ UNCHANGED <<looked, config>> /\ config.from = "nothing"
        /\ IF configArg = "with" THEN loading' = "found" /\ origin' = [origin EXCEPT !.path = Given]
           ELSE loading' = "looking" /\ UNCHANGED origin
    BY <1>2, <1>6 DEF ReadArgs, SearchFits
  <2>2. Given \in Paths  BY DEF Paths
  <2>3. origin' \in [path : Paths, keys : SUBSET ConfigKeys, text : Seq(Pieces)]
    BY <1>5, <2>1, <2>2
  <2>4. LoadShape'  BY <1>2, <1>3, <2>1, <2>3 DEF LoadShape
  <2>5. SearchFits' /\ OutcomeIsRight'
    BY <1>2, <1>3, <2>1 DEF SearchFits, OutcomeIsRight, Passed, PathFound
  <2> QED  BY <1>4, <2>4, <2>5 DEF SettingsIInv
<1>7. CASE LookAt
  <2> DEFINE q == UsualPaths[looked + 1]
  <2>1. /\ loading = "looking" /\ looked < 3 /\ looked' = looked + 1 /\ UNCHANGED config
        /\ config.from = "nothing" /\ configArg # "with" /\ \A i \in 1..looked : Passed(i)
        /\ IF files[q].there THEN loading' = "found" /\ origin' = [origin EXCEPT !.path = q]
           ELSE UNCHANGED <<loading, origin>>
    BY <1>2, <1>5, <1>7 DEF LookAt, SearchFits
  <2>2. looked + 1 \in 1..3 /\ q \in Paths /\ looked' \in 0..3  BY <1>5, <2>1
  <2> HIDE DEF q
  <2>3. origin' \in [path : Paths, keys : SUBSET ConfigKeys, text : Seq(Pieces)]
    BY <1>5, <2>1, <2>2
  <2>4. LoadShape'  BY <1>2, <1>3, <1>5, <2>1, <2>2, <2>3 DEF LoadShape
  <2>5. \A i \in 1..looked' : i \in 1..looked \/ i = looked + 1  BY <1>5, <2>1
  <2>6. CASE files[q].there
    <3>1. loading' = "found" /\ origin'.path = q  BY <1>5, <2>1, <2>6
    <3>2. \A i \in 1..looked' : (Passed(i))' \/ UsualPaths[i] = origin'.path
      BY <1>3, <2>1, <2>5, <3>1 DEF Passed, q
    <3> QED  BY <1>2, <1>3, <1>4, <2>1, <2>4, <3>1, <3>2
             DEF SettingsIInv, SearchFits, OutcomeIsRight, PathFound
  <2>7. CASE ~files[q].there
    <3>1. UNCHANGED <<loading, origin>>  BY <2>1, <2>7
    <3>2. q \notin throughout  BY <1>2, <2>2, <2>7 DEF SearchFits
    <3>3. \A i \in 1..looked' : (Passed(i))'
      BY <1>3, <2>1, <2>5, <3>2 DEF Passed, q
    <3> QED  BY <1>2, <1>3, <1>4, <2>1, <2>4, <3>1, <3>3
             DEF SettingsIInv, SearchFits, OutcomeIsRight, PathFound
  <2> QED  BY <2>6, <2>7
<1>8. CASE UseDefaults
  <2>1. /\ loading = "looking" /\ looked = 3 /\ loading' = "over" /\ UNCHANGED <<looked, origin>>
        /\ config' = [NoConfig EXCEPT !.from = "defaults"]
        /\ configArg # "with" /\ \A i \in 1..looked : Passed(i)
    BY <1>2, <1>5, <1>8 DEF UseDefaults, SearchFits
  <2>2. config'.from = "defaults"  BY <2>1 DEF NoConfig
  <2>3. LoadShape'  BY <1>2, <1>3, <2>1, <2>2 DEF LoadShape
  <2>4. SearchFits'  BY <1>2, <1>3, <2>1, <2>2 DEF SearchFits, Passed, PathFound
  <2>5. OutcomeIsRight'  BY <1>2, <1>3, <1>5, <2>1, <2>2 DEF OutcomeIsRight, Passed
  <2> QED  BY <1>4, <2>3, <2>4, <2>5 DEF SettingsIInv
<1> QED  BY <1>1, <1>6, <1>7, <1>8

\* Replacing keeps a text a text, whatever the value is.
LEMMA ReplaceIs ==
    ASSUME NEW t \in Seq(Pieces), Refers(t), environment \in Environments
    PROVE  Replace(t) \in Seq(Pieces)
<1> DEFINE i == First(Openings(t))
           j == First(Closings(t))
<1>1. /\ DOMAIN t = 1..Len(t) /\ Len(t) \in Nat
      /\ Openings(t) \subseteq 1..Len(t) /\ Openings(t) # {}
      /\ Closings(t) \subseteq 1..Len(t) /\ Closings(t) # {}
  BY LenProperties DEF Openings, Closings, Refers
<1>2. ASSUME NEW S, S \subseteq 1..Len(t), S # {} PROVE First(S) \in 1..Len(t)
  <2>1. S \subseteq Nat  BY <1>1, <1>2
  <2>2. \E k \in S : \A l \in S : k <= l  BY <1>2, <2>1, LeastNumber
  <2> QED  BY <1>2, <2>2 DEF First
<1>3. i \in 1..Len(t) /\ j \in 1..Len(t)  BY <1>1, <1>2
<1> HIDE DEF i, j
<1>4. \A name : Value(name) \in Seq(Pieces)
  <2> SUFFICES ASSUME NEW name PROVE Value(name) \in Seq(Pieces)  OBVIOUS
  <2>1. \A v \in DOMAIN environment : environment[v] \in Seq(Pieces)
    <3>1. Range(environment) \subseteq Seq(Pieces)  BY SettingsAssumption, Zenon
    <3> QED  BY <3>1 DEF Range
  <2>2. <<>> \in Seq(Pieces)  BY EmptySeq
  <2> QED  BY <2>1, <2>2 DEF Value
<1>5. SubSeq(t, 1, i - 1) \in Seq(Pieces) /\ SubSeq(t, j + 1, Len(t)) \in Seq(Pieces)
  <2>1. \A m \in 1..(i - 1) : m \in 1..Len(t)  BY <1>1, <1>3
  <2>2. \A m \in (j + 1)..Len(t) : m \in 1..Len(t)  BY <1>1, <1>3
  <2> QED  BY <1>1, <1>3, <2>1, <2>2, SubSeqProperties
<1>6. Replace(t) = SubSeq(t, 1, i - 1) \o Value(SubSeq(t, i + 1, j - 1))
                     \o SubSeq(t, j + 1, Len(t))
  BY DEF Replace, i, j
<1>7. \A u, v \in Seq(Pieces) : u \o v \in Seq(Pieces)  BY ConcatProperties
<1> QED  BY <1>4, <1>5, <1>6, <1>7

\* The file is read, expanded and parsed.
LEMMA ReadingGoesOn == SettingsIInv /\ (ReadConfig \/ ExpandOne \/ ParseConfig) => SettingsIInv'
<1>1. SUFFICES ASSUME SettingsIInv, ReadConfig \/ ExpandOne \/ ParseConfig PROVE SettingsIInv'
  OBVIOUS
<1>2. FilesShape /\ LoadShape /\ ManifestShape /\ SearchFits /\ OutcomeIsRight /\ ManifestFits
  BY <1>1 DEF SettingsIInv
<1>3. UNCHANGED <<environment, files, fileChanges, configArg, throughout, draft, manifest, looked>>
  BY <1>1 DEF ReadConfig, ExpandOne, ParseConfig, Rests, fileVars, manifestVars
<1>4. FilesShape' /\ ManifestShape' /\ ManifestFits'
  BY <1>2, <1>3 DEF FilesShape, ManifestShape, ManifestFits
<1>5. origin \in [path : Paths, keys : SUBSET ConfigKeys, text : Seq(Pieces)]
  BY <1>2 DEF LoadShape
<1>6. CASE ReadConfig
  <2> DEFINE f == files[origin.path]
  <2>1. /\ loading = "found" /\ config.from = "nothing" /\ UNCHANGED expansions
        /\ IF f.there
           THEN /\ loading' = "read" /\ text' = f.text
                /\ origin' = [origin EXCEPT !.keys = f.keys, !.text = f.text]
                /\ UNCHANGED config
           ELSE /\ loading' = "over" /\ config' = [NoConfig EXCEPT !.from = "error"]
                /\ UNCHANGED <<text, origin>>
    BY <1>2, <1>6 DEF ReadConfig, SearchFits
  <2>2. \A i \in 1..looked : Passed(i) \/ UsualPaths[i] = origin.path
    BY <1>2, <2>1 DEF SearchFits, PathFound
  <2>3. CASE f.there
    <3>1. origin.path \in Paths  BY <1>5
    <3>2. f \in {Missing} \cup {File(d) : d \in Documents}  BY <1>2, <3>1, Zenon DEF FilesShape
    <3>3. f # Missing  BY <2>3, FileIs, Zenon
    <3>4. PICK d \in Documents : f = File(d)  BY <3>2, <3>3
    <3>5. f.text \in Seq(Pieces) /\ f.keys \in SUBSET ConfigKeys
      <4>1. d.text \in Seq(Pieces) /\ d.keys \subseteq ConfigKeys  BY SettingsAssumption, Zenon
      <4>2. f.text = d.text /\ f.keys = d.keys  BY <3>4 DEF File
      <4> QED  BY <4>1, <4>2
    <3> HIDE DEF f
    <3>6. /\ origin' \in [path : Paths, keys : SUBSET ConfigKeys, text : Seq(Pieces)]
          /\ origin'.path = origin.path
      BY <1>5, <2>1, <2>3, <3>5
    <3>7. LoadShape'  BY <1>2, <1>3, <2>1, <2>3, <3>5, <3>6 DEF LoadShape
    <3>8. SearchFits'  BY <1>2, <1>3, <2>1, <2>2, <2>3, <3>6 DEF SearchFits, Passed, PathFound
    <3>9. OutcomeIsRight'  BY <2>1, <2>3 DEF OutcomeIsRight
    <3> QED  BY <1>4, <3>7, <3>8, <3>9 DEF SettingsIInv
  <2>4. CASE ~f.there
    <3>1. config'.from = "error"  BY <2>1, <2>4 DEF NoConfig
    <3>2. origin.path \notin throughout  BY <1>2, <2>4 DEF SearchFits
    <3> HIDE DEF f
    <3>3. loading' = "over" /\ UNCHANGED <<text, origin>>  BY <2>1, <2>4
    <3>4. LoadShape'  BY <1>2, <1>3, <2>1, <3>1, <3>3 DEF LoadShape
    <3>5. SearchFits'  BY <1>2, <1>3, <2>2, <3>3 DEF SearchFits, Passed, PathFound
    <3>6. OutcomeIsRight'  BY <1>3, <3>1, <3>2, <3>3 DEF OutcomeIsRight
    <3> QED  BY <1>4, <3>4, <3>5, <3>6 DEF SettingsIInv
  <2> QED  BY <2>3, <2>4
<1>7. CASE ExpandOne
  <2>1. /\ loading = "read" /\ Refers(text) /\ expansions < MaxExpansions
        /\ expansions' = expansions + 1 /\ text' = Replace(text)
        /\ UNCHANGED <<loading, looked, config, origin>> /\ config.from = "nothing"
    BY <1>2, <1>7 DEF ExpandOne, SearchFits
  <2>2. text' \in Seq(Pieces)
    BY <1>2, <2>1, ReplaceIs DEF LoadShape, FilesShape
  <2>3. expansions' \in 0..MaxExpansions  BY <1>2, <2>1, SettingsAssumption DEF LoadShape
  <2>4. LoadShape'  BY <1>2, <1>3, <2>1, <2>2, <2>3 DEF LoadShape
  <2>5. SearchFits'  BY <1>2, <1>3, <2>1 DEF SearchFits, Passed, PathFound
  <2>6. OutcomeIsRight'  BY <2>1 DEF OutcomeIsRight
  <2> QED  BY <1>4, <2>4, <2>5, <2>6 DEF SettingsIInv
<1>8. CASE ParseConfig
  <2>1. /\ loading = "read" /\ loading' = "over" /\ UNCHANGED <<looked, text, expansions, origin>>
        /\ config' = IF Parses(origin.keys, text)
                     THEN [from |-> "file", store |-> HasStore(origin.keys),
                           bridge |-> HasBridge(origin.keys), text |-> text]
                     ELSE [NoConfig EXCEPT !.from = "error"]
    BY <1>8 DEF ParseConfig
  <2>2. \/ config'.from = "file"
        \/ config'.from = "error" /\ ~Parses(origin.keys, text)
    BY <2>1 DEF NoConfig
  <2>3. LoadShape'  BY <1>2, <1>3, <2>1, <2>2 DEF LoadShape
  <2>4. SearchFits'  BY <1>2, <1>3, <2>1 DEF SearchFits, Passed, PathFound
  <2>5. OutcomeIsRight'  BY <1>3, <2>1, <2>2 DEF OutcomeIsRight, Parses, HasStore
  <2> QED  BY <1>4, <2>3, <2>4, <2>5 DEF SettingsIInv
<1> QED  BY <1>1, <1>6, <1>7, <1>8

LEMMA ManifestIsRead == SettingsIInv /\ ReadManifest => SettingsIInv'
<1>1. SUFFICES ASSUME SettingsIInv, ReadManifest PROVE SettingsIInv'  OBVIOUS
<1>2. FilesShape /\ LoadShape /\ SearchFits /\ OutcomeIsRight
  BY <1>1 DEF SettingsIInv
<1>3. /\ UNCHANGED <<environment, files, fileChanges, configArg, loading, looked, text,
                     expansions, config, origin, throughout>>
      /\ draft' \in Drafts
      /\ manifest' = IF ManifestError(draft') # "none"
                     THEN [is |-> "error", why |-> ManifestError(draft')]
                     ELSE [is |-> "read", name |-> draft'.name, version |-> draft'.version,
                           type |-> draft'.type, permissions |-> draft'.permissions,
                           dependencies |-> {Dependency(d) : d \in draft'.dependencies}]
  BY <1>1 DEF ReadManifest, fileVars, loadVars
<1>4. FilesShape' /\ LoadShape' /\ SearchFits' /\ OutcomeIsRight'
  BY <1>2, <1>3 DEF FilesShape, LoadShape, SearchFits, OutcomeIsRight, Passed, PathFound, Parses, HasStore
<1>5. ManifestShape' /\ ManifestFits'
  <2>1. CASE ManifestError(draft') # "none"
    <3>1. manifest'.is = "error"  BY <1>3, <2>1
    <3> QED  BY <1>3, <3>1 DEF ManifestShape, ManifestFits
  <2>2. CASE ManifestError(draft') = "none"
    <3> DEFINE needs == {Dependency(d) : d \in draft'.dependencies}
    <3> HIDE DEF needs
    <3>1. manifest' = [is |-> "read", name |-> draft'.name, version |-> draft'.version,
                       type |-> draft'.type, permissions |-> draft'.permissions,
                       dependencies |-> needs]
      BY <1>3, <2>2 DEF needs
    <3>2. manifest'.is = "read" /\ manifest'.version = draft'.version
          /\ manifest'.dependencies = needs
      BY <3>1
    <3> QED  BY <1>3, <2>2, <3>2 DEF ManifestShape, ManifestFits, needs
  <2> QED  BY <2>1, <2>2
<1> QED  BY <1>4, <1>5 DEF SettingsIInv

LEMMA SettingsStep == SettingsIInv /\ [SettingsNext]_settingsVars => SettingsIInv'
<1>1. SUFFICES ASSUME SettingsIInv, [SettingsNext]_settingsVars PROVE SettingsIInv'  OBVIOUS
<1>2. CASE UNCHANGED settingsVars
  <2>1. UNCHANGED <<environment, files, fileChanges, configArg, loading, looked, text,
                    expansions, config, origin, throughout, draft, manifest>>
    BY <1>2 DEF settingsVars, fileVars, loadVars, manifestVars
  <2> QED  BY <1>1, <2>1
           DEF SettingsIInv, FilesShape, LoadShape, ManifestShape, SearchFits, OutcomeIsRight,
               ManifestFits, Passed, PathFound, Parses, HasStore
<1> QED  BY <1>1, <1>2, FileChangeFits, SearchGoesOn, ReadingGoesOn, ManifestIsRead
         DEF SettingsNext

\* A name once, in what is needed and in what is made of it.
LEMMA DependenciesKept ==
    ASSUME NEW D, IsFiniteSet(D), \A x, y \in D : x.name = y.name => x = y
    PROVE  /\ {e.name : e \in {Dependency(d) : d \in D}} = {d.name : d \in D}
           /\ Cardinality({Dependency(d) : d \in D}) = Cardinality(D)
<1>1. \A d : Dependency(d).name = d.name  BY DEF Dependency
<1>2. {e.name : e \in {Dependency(d) : d \in D}} = {d.name : d \in D}
  <2>1. \A n \in {e.name : e \in {Dependency(d) : d \in D}} : n \in {d.name : d \in D}  BY <1>1
  <2>2. \A n \in {d.name : d \in D} : n \in {e.name : e \in {Dependency(d) : d \in D}}
    <3>1. ASSUME NEW d \in D PROVE d.name \in {e.name : e \in {Dependency(c) : c \in D}}
      <4>1. Dependency(d) \in {Dependency(c) : c \in D}  OBVIOUS
      <4> QED  BY <1>1, <4>1
    <3> QED  BY <3>1
  <2> QED  BY <2>1, <2>2
<1> DEFINE E == {Dependency(d) : d \in D}
           f == [d \in D |-> Dependency(d)]
<1>3. f \in Bijection(D, E)
  <2>1. f \in [D -> E]  OBVIOUS
  <2>2. \A x, y \in D : f[x] = f[y] => x = y
    <3>1. ASSUME NEW x \in D, NEW y \in D, f[x] = f[y] PROVE x = y
      <4>1. Dependency(x) = Dependency(y)  BY <3>1
      <4>2. x.name = y.name  BY <1>1, <4>1
      <4> QED  BY <4>2
    <3> QED  BY <3>1
  <2>3. \A e \in E : \E d \in D : f[d] = e  OBVIOUS
  <2> QED  BY <2>1, <2>2, <2>3 DEF Bijection, Injection, Surjection, IsInjective
<1> HIDE DEF E, f
<1>4. IsFiniteSet(E) /\ Cardinality(E) = Cardinality(D)
  <2>1. ExistsBijection(D, E)  BY <1>3 DEF ExistsBijection
  <2> QED  BY <2>1, FS_Bijection
<1> QED  BY <1>2, <1>4 DEF E

\* The first file wins and manifests are usable; and the types.
LEMMA SettingsRight == SettingsIInv => FirstFileWins /\ ManifestsUsable /\ SettingsTypeOK
<1>1. SUFFICES ASSUME SettingsIInv PROVE FirstFileWins /\ ManifestsUsable /\ SettingsTypeOK
  OBVIOUS
<1>2. FilesShape /\ LoadShape /\ ManifestShape /\ SearchFits /\ OutcomeIsRight /\ ManifestFits
  BY <1>1 DEF SettingsIInv
<1>3. /\ looked \in 0..3 /\ Len(UsualPaths) = 3
      /\ Range(UsualPaths) = {UsualPaths[i] : i \in 1..3}
  BY <1>2, UsualPathsAre DEF LoadShape
<1>4. FirstFileWins
  <2>1. \A i \in 1..looked : UsualPaths[i] # origin.path => Passed(i)
    <3>1. CASE loading \in {"none", "args"}
      <4>1. looked = 0  BY <1>2, <3>1 DEF LoadShape, SearchFits
      <4> QED  BY <4>1
    <3>2. CASE loading = "looking"  BY <1>2, <3>2 DEF SearchFits
    <3>3. CASE loading \in PathFound  BY <1>2, <3>3 DEF SearchFits
    <3> QED  BY <1>2, <3>1, <3>2, <3>3 DEF LoadShape, PathFound
  <2>2. config.from = "defaults" => configArg # "with" /\ Range(UsualPaths) \cap throughout = {}
    BY <1>2, <1>3 DEF OutcomeIsRight, Passed
  <2>3. config.from = "error" /\ origin.path \in throughout => ~Parses(origin.keys, text)
    BY <1>2 DEF OutcomeIsRight
  <2>4. {UsualPaths[i] : i \in {i \in 1..looked : UsualPaths[i] # origin.path}} \cap throughout = {}
    BY <2>1 DEF Passed
  <2> QED  BY <2>2, <2>3, <2>4, Zenon DEF FirstFileWins
<1>5. ManifestsUsable
  <2> SUFFICES ASSUME manifest.is = "read"
               PROVE  /\ manifest.version \in Seq(Nat) /\ Len(manifest.version) \in 1..3
                      /\ {d.name : d \in manifest.dependencies} = {d.name : d \in draft.dependencies}
                      /\ Cardinality(manifest.dependencies) = Cardinality(draft.dependencies)
    BY DEF ManifestsUsable
  <2>1. /\ draft \in Drafts /\ ManifestError(draft) = "none"
        /\ manifest.version = draft.version
        /\ manifest.dependencies = {Dependency(d) : d \in draft.dependencies}
    BY <1>2 DEF ManifestFits
  <2>2. /\ draft.version \in Seq(Nat \cup {NotANumber})
        /\ IsFiniteSet(draft.dependencies)
        /\ \A x, y \in draft.dependencies : x.name = y.name => x = y
    BY <2>1, SettingsAssumption, Zenon
  <2>3. ValidVersion(draft.version)  BY <2>1, Zenon DEF ManifestError
  <2>4. draft.version \in Seq(Nat) /\ Len(draft.version) \in 1..3
    <3> DEFINE v == draft.version
    <3>1. Len(v) \in 1..3 /\ \A i \in DOMAIN v : v[i] # NotANumber  BY <2>3 DEF ValidVersion
    <3>2. \A i \in DOMAIN v : v[i] \in Nat  BY <2>2, <3>1, ElementOfSeq, LenProperties
    <3>3. v \in [1..Len(v) -> Nat]  BY <2>2, <3>2, LenProperties
    <3> QED  BY <2>2, <3>1, <3>3, SeqDef, LenProperties
  <2>5. /\ {e.name : e \in {Dependency(d) : d \in draft.dependencies}}
              = {d.name : d \in draft.dependencies}
        /\ Cardinality({Dependency(d) : d \in draft.dependencies}) = Cardinality(draft.dependencies)
    BY <2>2, DependenciesKept
  <2> QED  BY <2>1, <2>4, <2>5, Zenon
<1>6. SettingsTypeOK
  <2>1. \A p \in Paths : files[p] = Missing \/ files[p].text \in Seq(Pieces)
    <3> SUFFICES ASSUME NEW p \in Paths PROVE files[p] = Missing \/ files[p].text \in Seq(Pieces)
      OBVIOUS
    <3>1. files[p] \in {Missing} \cup {File(d) : d \in Documents}  BY <1>2, Zenon DEF FilesShape
    <3> QED  BY <3>1, FileIs, Zenon
  <2>2. origin.path \in Paths  BY <1>2 DEF LoadShape
  <2> QED  BY <1>2, <2>1, <2>2, Zenon DEF SettingsTypeOK, FilesShape, LoadShape, ManifestShape
<1> QED  BY <1>4, <1>5, <1>6

-----------------------------------------------------------------------------
(* Streamed answers.  What is heard is of lines before what was parsed, so *)
(* the texts of a chunk follow it; and nothing that counts is behind a     *)
(* last line.                                                              *)

\* How many of S are below i.
Rank(S, i) == Cardinality({j \in S : j < i})

LEMMA RankGrows ==
    ASSUME NEW S, S \subseteq Nat, IsFiniteSet(S), NEW i \in S, NEW k \in S, i < k
    PROVE  Rank(S, i) < Rank(S, k) /\ Rank(S, i) \in Nat /\ Rank(S, k) \in Nat
<1> DEFINE A == {j \in S : j < i}
           B == {j \in S : j < k}
<1>1. A \subseteq B /\ i \in B /\ i \notin A
  <2>1. \A j \in S : j \in Nat /\ i \in Nat /\ k \in Nat  OBVIOUS
  <2>2. \A j \in S : j < i => j < k  BY <2>1
  <2>3. ~(i < i)  BY <2>1
  <2> QED  BY <2>2, <2>3
<1>2. IsFiniteSet(A) /\ IsFiniteSet(B)
  <2>1. A \in SUBSET S /\ B \in SUBSET S  OBVIOUS
  <2> QED  BY <2>1, FS_Subset
<1> HIDE DEF A, B
<1>3. Cardinality(A) <= Cardinality(B) /\ Cardinality(A) # Cardinality(B)
  BY <1>1, <1>2, FS_Subset
<1>4. Cardinality(A) \in Nat /\ Cardinality(B) \in Nat  BY <1>2, FS_CardinalityType
<1> QED  BY <1>3, <1>4 DEF Rank, A, B

\* The texts of a chunk: each once, in order.
LEMMA AscendingIs ==
    ASSUME NEW S, S \subseteq Nat, IsFiniteSet(S)
    PROVE  /\ Ascending(S) \in Seq(S)
           /\ \A i \in S : \E n \in DOMAIN Ascending(S) : Ascending(S)[n] = i
           /\ \A m, n \in DOMAIN Ascending(S) : m < n => Ascending(S)[m] < Ascending(S)[n]
<1> DEFINE c == Cardinality(S)
           r == [i \in S |-> Rank(S, i) + 1]
<1>1. c \in Nat  BY FS_CardinalityType
<1>2. \A i \in S : Rank(S, i) \in Nat /\ Rank(S, i) + 1 \in 1..c
  <2> SUFFICES ASSUME NEW i \in S PROVE Rank(S, i) \in Nat /\ Rank(S, i) + 1 \in 1..c
    OBVIOUS
  <2> DEFINE A == {j \in S : j < i}
  <2>1. A \in SUBSET S /\ i \notin A /\ i \in S  OBVIOUS
  <2> HIDE DEF A
  <2>2. /\ IsFiniteSet(A) /\ Cardinality(A) <= c /\ Cardinality(A) # c
    BY <2>1, FS_Subset
  <2>3. Cardinality(A) \in Nat  BY <2>2, FS_CardinalityType
  <2>4. Cardinality(A) + 1 \in 1..c  BY <1>1, <2>2, <2>3
  <2> QED  BY <2>3, <2>4 DEF Rank, A
<1>3. \A i, k \in S : i < k => Rank(S, i) < Rank(S, k)  BY RankGrows
<1>4. \A i, k \in S : Rank(S, i) = Rank(S, k) => i = k
  <2> SUFFICES ASSUME NEW i \in S, NEW k \in S, Rank(S, i) = Rank(S, k), i # k PROVE FALSE
    OBVIOUS
  <2>1. i < k \/ k < i  OBVIOUS
  <2> QED  BY <1>2, <1>3, <2>1
<1>5. \A n \in 1..c : \E i \in S : Rank(S, i) = n - 1
  <2>1. r \in [S -> 1..c]  BY <1>2
  <2>2. \A x, y \in S : r[x] = r[y] => x = y
    <3>1. ASSUME NEW x \in S, NEW y \in S, r[x] = r[y] PROVE x = y
      <4>1. Rank(S, x) + 1 = Rank(S, y) + 1  BY <3>1
      <4>2. Rank(S, x) = Rank(S, y)  BY <1>2, <4>1
      <4> QED  BY <1>4, <4>2
    <3> QED  BY <3>1
  <2>3. r \in Injection(S, 1..c)  BY <2>1, <2>2 DEF Injection, IsInjective
  <2>4. IsFiniteSet(1..c) /\ Cardinality(1..c) = c
    <3>1. Cardinality(1..c) = IF 1 > c THEN 0 ELSE c - 1 + 1  BY <1>1, FS_Interval
    <3> QED  BY <1>1, <3>1, FS_Interval
  <2> HIDE DEF r
  <2>5. r \in Surjection(S, 1..c)  BY <2>3, <2>4, FS_Injection
  <2>6. \A n \in 1..c : \E i \in S : r[i] = n  BY <2>5 DEF Surjection
  <2>7. \A i \in S : r[i] = Rank(S, i) + 1  BY DEF r
  <2>8. ASSUME NEW n \in 1..c PROVE \E i \in S : Rank(S, i) = n - 1
    <3>1. PICK i \in S : r[i] = n  BY <2>6
    <3>2. Rank(S, i) = n - 1  BY <1>1, <1>2, <2>7, <3>1
    <3> QED  BY <3>2
  <2> QED  BY <2>8
<1> DEFINE a == Ascending(S)
<1>6. a = [n \in 1..c |-> CHOOSE i \in S : Rank(S, i) = n - 1]
  BY DEF Ascending, Rank
<1> HIDE DEF a, c, r
<1>7. \A n \in 1..c : a[n] \in S /\ Rank(S, a[n]) = n - 1
  BY <1>5, <1>6
<1>8. a \in Seq(S) /\ DOMAIN a = 1..c
  <2>1. a \in [1..c -> S]  BY <1>6, <1>7
  <2> QED  BY <1>1, <2>1, SeqDef
<1>9. ASSUME NEW i \in S PROVE \E n \in DOMAIN a : a[n] = i
  <2> DEFINE n == Rank(S, i) + 1
  <2>1. n \in 1..c /\ n - 1 = Rank(S, i)  BY <1>2
  <2>2. a[n] = i  BY <1>4, <1>7, <2>1
  <2> QED  BY <1>8, <2>1, <2>2
<1>10. ASSUME NEW m \in DOMAIN a, NEW n \in DOMAIN a, m < n PROVE a[m] < a[n]
  <2>1. m \in 1..c /\ n \in 1..c  BY <1>8
  <2>2. a[m] \in S /\ a[n] \in S /\ Rank(S, a[m]) = m - 1 /\ Rank(S, a[n]) = n - 1
    BY <1>7, <2>1
  <2>3. m \in Nat /\ n \in Nat /\ m - 1 < n - 1  BY <1>1, <1>10, <2>1
  <2>4. Rank(S, a[m]) < Rank(S, a[n])  BY <2>2, <2>3
  <2>5. a[m] # a[n]  BY <2>2, <2>3
  <2>6. ~(a[n] < a[m])
    <3>1. a[n] < a[m] => Rank(S, a[n]) < Rank(S, a[m])  BY <1>3, <2>2
    <3>2. ~(n - 1 < m - 1)  BY <2>3
    <3> QED  BY <2>2, <3>1, <3>2
  <2>7. a[m] \in Nat /\ a[n] \in Nat  BY <2>2
  <2> QED  BY <2>5, <2>6, <2>7
<1> QED  BY <1>8, <1>9, <1>10 DEF a

\* The highest of S, if there is one.
LEMMA GreatestNumber ==
    ASSUME NEW n \in Nat, NEW S, S \subseteq 0..n, S # {}
    PROVE  \E m \in S : \A k \in S : k <= m
<1> DEFINE T == {k \in 0..n : n - k \in S}
<1>1. T \subseteq Nat /\ T # {}
  <2>1. PICK s \in S : TRUE  OBVIOUS
  <2>2. n - s \in 0..n /\ n - (n - s) = s  BY <2>1
  <2> QED  BY <2>2
<1>2. PICK m \in T : \A k \in T : m <= k  BY <1>1, LeastNumber
<1>3. ASSUME NEW k \in S PROVE k <= n - m
  <2>1. n - k \in 0..n /\ n - (n - k) = k  OBVIOUS
  <2>2. n - k \in T  BY <2>1
  <2>3. m <= n - k  BY <1>2, <2>2
  <2>4. m \in Nat /\ k \in Nat  BY <1>2
  <2> QED  BY <2>3, <2>4
<1>4. n - m \in S  BY <1>2
<1> QED  BY <1>3, <1>4

\* A stream as it is read; n of its half lines are parsed.
HeardBefore(n) ==
    /\ \A k \in DOMAIN heard : 2 * heard[k] <= n
    /\ 2 * finish <= n

\* After the line that ends it a stream says nothing.
LastIsLast == \A i, j \in DOMAIN lines : i < j /\ lines[i] = "last" => lines[j] = "noise"

AiIInv == AiTypeOK /\ HeardBefore(parsed) /\ LastIsLast /\ LosesOnlyCutLines

LEMMA AiStart == AiInit => AiIInv
<1>1. SUFFICES ASSUME AiInit PROVE AiIInv  OBVIOUS
<1>2. /\ lines = <<>> /\ arrived = 0 /\ parsed = 0 /\ heard = <<>> /\ finish = 0 /\ torn = {}
  BY <1>1 DEF AiInit, NoStream
<1>3. AiTypeOK
  <2>1. MaxLines \in Nat /\ MaxCalls \in Nat  BY AiAssumption
  <2>2. lines \in Seq(Lines) /\ heard \in Seq(1..MaxLines) /\ Len(lines) = 0  BY <1>2
  <2>3. status \in {"Ready", "Unavailable"}  BY <1>1 DEF AiInit
  <2> QED  BY <1>1, <1>2, <2>1, <2>2, <2>3 DEF AiInit, AiTypeOK
<1> QED  BY <1>2, <1>3 DEF AiIInv, HeardBefore, LastIsLast, LosesOnlyCutLines

\* What is not about the stream leaves it as it is.
LEMMA AiQuiet ==
    ASSUME AiIInv, AiTypeOK', UNCHANGED <<provider, streamVars>>
    PROVE  AiIInv'
BY DEF AiIInv, HeardBefore, LastIsLast, LosesOnlyCutLines, StopLine, streamVars

LEMMA AiEnds ==
    ASSUME AiIInv, NEW how \in {"Ok", "Empty", "Err", "ended"}, EndAi(how)
    PROVE  /\ doing' = "nothing" /\ doing' \in AiCalls \cup {"nothing"}
           /\ answered' \in {"none", "Ok", "Empty", "Err", "ended"}
           /\ UNCHANGED <<provider, calls>>
BY DEF EndAi

\* The calls that are answered at once.
LEMMA AiAnswered ==
    AiIInv /\ (\/ \E reachable \in BOOLEAN : Validate(reachable)
               \/ \E a \in HttpAnswers : Chat(a) \/ ListModels(a) \/ Embed(a) \/ EmbedNext(a)
               \/ EmbedEnds \/ StreamRefused \/ StreamEnds)
       => AiIInv'
<1>1. SUFFICES ASSUME AiIInv,
                      \/ \E reachable \in BOOLEAN : Validate(reachable)
                      \/ \E a \in HttpAnswers : Chat(a) \/ ListModels(a) \/ Embed(a) \/ EmbedNext(a)
                      \/ EmbedEnds \/ StreamRefused \/ StreamEnds
               PROVE  AiIInv'
  OBVIOUS
<1>2. AiTypeOK  BY <1>1 DEF AiIInv
<1>3. ASSUME UNCHANGED <<provider, streamVars>>,
             status' \in {"Ready", "Unavailable"}, inputs' \in Nat, vectors' \in Nat,
             doing' \in AiCalls \cup {"nothing"}, calls' = calls,
             answered' \in {"none", "Ok", "Empty", "Err", "ended"}
      PROVE  AiIInv'
  <2>1. AiTypeOK'  BY <1>2, <1>3 DEF AiTypeOK, streamVars
  <2> QED  BY <1>1, <1>3, <2>1, AiQuiet
<1>4. \A a : ReadsAs(a) \in {"Ok", "Empty", "Err", "ended"}
  BY DEF ReadsAs
<1>5. ASSUME NEW how \in {"Ok", "Empty", "Err", "ended"}, EndAi(how),
             UNCHANGED streamVars,
             status' \in {"Ready", "Unavailable"}, inputs' \in Nat, vectors' \in Nat
      PROVE  AiIInv'
  BY <1>1, <1>3, <1>5, AiEnds
<1>6. inputs \in Nat /\ vectors \in Nat /\ status \in {"Ready", "Unavailable"} /\ 0 \in Nat
      /\ doing \in AiCalls \cup {"nothing"}
      /\ answered \in {"none", "Ok", "Empty", "Err", "ended"}
  BY <1>2 DEF AiTypeOK
<1>7. ASSUME NEW reachable \in BOOLEAN, Validate(reachable) PROVE AiIInv'
  <2>1. UNCHANGED <<inputs, vectors, streamVars>>  BY <1>7 DEF Validate, embedVars
  <2>2. (status' = "Unavailable" /\ EndAi("Err")) \/ (status' = "Ready" /\ EndAi("Ok"))
    BY <1>7 DEF Validate
  <2> QED  BY <1>5, <1>6, <2>1, <2>2
<1>8. ASSUME NEW a \in HttpAnswers, Chat(a) PROVE AiIInv'
  <2>1. UNCHANGED <<inputs, vectors, streamVars, status>>  BY <1>8 DEF Chat, embedVars
  <2>2. EndAi("Ok") \/ EndAi("Err")  BY <1>8 DEF Chat
  <2> QED  BY <1>5, <1>6, <2>1, <2>2
<1>9. ASSUME NEW a \in HttpAnswers, ListModels(a) PROVE AiIInv'
  <2>1. UNCHANGED <<inputs, vectors, streamVars, status>> /\ EndAi(ReadsAs(a))
    BY <1>9 DEF ListModels, embedVars
  <2> QED  BY <1>4, <1>5, <1>6, <2>1
<1>10. ASSUME NEW a \in HttpAnswers, Embed(a) PROVE AiIInv'
  <2>1. UNCHANGED <<streamVars, status>> /\ EndAi(ReadsAs(a)) /\ inputs' = 0
        /\ vectors' = IF a = "good" THEN inputs ELSE 0
    BY <1>10 DEF Embed
  <2>2. vectors' \in Nat  BY <1>6, <2>1
  <2> QED  BY <1>4, <1>5, <1>6, <2>1, <2>2
<1>11. ASSUME NEW a \in HttpAnswers, EmbedNext(a) PROVE AiIInv'
  <2>1. /\ UNCHANGED <<streamVars, status>> /\ inputs > 0
        /\ \/ EndAi("Err") /\ inputs' = 0 /\ vectors' = 0
           \/ /\ inputs' = inputs - 1 /\ vectors' \in {vectors, vectors + 1}
              /\ UNCHANGED <<provider, calls, doing, answered>>
    BY <1>11 DEF EmbedNext
  <2>2. CASE EndAi("Err") /\ inputs' = 0 /\ vectors' = 0
    BY <1>5, <1>6, <2>1, <2>2
  <2>3. CASE /\ inputs' = inputs - 1 /\ vectors' \in {vectors, vectors + 1}
             /\ UNCHANGED <<provider, calls, doing, answered>>
    <3>1. inputs' \in Nat /\ vectors' \in Nat  BY <1>6, <2>1, <2>3
    <3> QED  BY <1>3, <1>6, <2>1, <2>3, <3>1
  <2> QED  BY <2>1, <2>2, <2>3
<1>12. CASE EmbedEnds
  <2>1. UNCHANGED <<inputs, vectors, streamVars, status>>  BY <1>12 DEF EmbedEnds, embedVars
  <2>2. EndAi("Empty") \/ EndAi("Ok")  BY <1>12 DEF EmbedEnds
  <2> QED  BY <1>5, <1>6, <2>1, <2>2
<1>13. CASE StreamRefused \/ StreamEnds
  <2>1. UNCHANGED <<inputs, vectors, streamVars, status>>
    BY <1>13 DEF StreamRefused, StreamEnds, embedVars
  <2>2. EndAi("ended") \/ EndAi("Err")  BY <1>13 DEF StreamRefused, StreamEnds
  <2> QED  BY <1>5, <1>6, <2>1, <2>2
<1> QED  BY <1>1, <1>7, <1>8, <1>9, <1>10, <1>11, <1>12, <1>13

\* What is in a chunk, what is cut, and what came before.
LEMMA ChunkIs ==
    ASSUME AiIInv, parsed < arrived
    PROVE  /\ InChunk \subseteq DOMAIN lines /\ IsFiniteSet(InChunk) /\ InChunk \subseteq 1..MaxLines
           /\ CutByChunk \subseteq 1..MaxLines
           /\ DOMAIN lines = 1..Len(lines) /\ Len(lines) \in Nat /\ MaxLines \in Nat
           /\ parsed \in Nat /\ arrived \in Nat
           /\ \A i \in DOMAIN lines : 2 * i <= arrived =>
                 2 * i <= parsed \/ i \in InChunk \/ i \in CutByChunk
           /\ \A i \in InChunk : i \in Nat /\ 2 * i <= arrived /\ parsed < 2 * i
<1>1. /\ MaxLines \in Nat /\ lines \in Seq(Lines) /\ Len(lines) <= MaxLines
      /\ arrived \in 0..(2 * Len(lines)) /\ parsed \in 0..arrived
  BY AiAssumption DEF AiIInv, AiTypeOK
<1>2. DOMAIN lines = 1..Len(lines) /\ Len(lines) \in Nat  BY <1>1, LenProperties
<1>3. arrived \in Nat /\ parsed \in Nat  BY <1>1, <1>2
<1>4. InChunk \subseteq 1..Len(lines) /\ CutByChunk \subseteq 1..Len(lines)
  BY <1>2 DEF InChunk, CutByChunk
<1>5. \A i \in 1..Len(lines) : i \in 1..MaxLines  BY <1>1, <1>2
<1>6. IsFiniteSet(InChunk)
  <2>1. IsFiniteSet(1..Len(lines))  BY <1>2, FS_Interval
  <2> QED  BY <1>4, <2>1, FS_Subset
<1>7. ASSUME NEW i \in DOMAIN lines, 2 * i <= arrived
      PROVE  2 * i <= parsed \/ i \in InChunk \/ i \in CutByChunk
  <2>1. i \in Nat /\ 2 * (i - 1) < arrived  BY <1>2, <1>3, <1>7
  <2>2. 2 * i <= parsed \/ parsed < 2 * i  BY <1>3, <2>1
  <2> QED  BY <2>1, <2>2 DEF CutByChunk
<1>8. ASSUME NEW i \in InChunk PROVE i \in Nat /\ 2 * i <= arrived /\ parsed < 2 * i
  <2>1. i \in Nat  BY <1>2, <1>4
  <2>2. parsed <= 2 * (i - 1) /\ 2 * i <= arrived  BY DEF InChunk
  <2> QED  BY <1>3, <2>1, <2>2
<1> QED  BY <1>2, <1>3, <1>1, <1>4, <1>5, <1>6, <1>7, <1>8

LEMMA LastInIs ==
    ASSUME NEW S, S \subseteq 1..MaxLines, MaxLines \in Nat, finish \in 0..MaxLines
    PROVE  /\ LastIn(S) \in 0..MaxLines
           /\ S = {} => LastIn(S) = finish
           /\ S # {} => LastIn(S) \in S /\ \A j \in S : j <= LastIn(S)
<1>1. CASE S = {}
  <2>1. LastIn(S) = finish  BY <1>1, Zenon DEF LastIn
  <2> QED  BY <1>1, <2>1, Zenon
<1>2. CASE S # {}
  <2>1. S \subseteq 0..MaxLines  OBVIOUS
  <2>2. \E i \in S : \A j \in S : j <= i  BY <1>2, <2>1, GreatestNumber
  <2>3. LastIn(S) = CHOOSE i \in S : \A j \in S : j <= i  BY <1>2, Zenon DEF LastIn
  <2>4. LastIn(S) \in S /\ \A j \in S : j <= LastIn(S)  BY <2>2, <2>3, Zenon
  <2> QED  BY <1>2, <2>1, <2>4, Zenon
<1> QED  BY <1>1, <1>2, Zenon

\* A chunk that is parsed: of the lines in it, T are text and S give a reason to
\* stop, and none of either is passed over.
LEMMA ChunkFits ==
    ASSUME AiIInv, parsed < arrived,
           NEW T, NEW S, T \subseteq InChunk, S \subseteq InChunk,
           \A i \in InChunk : lines[i] = "text" => i \in T,
           \A i \in InChunk : lines[i] \in StopLine => i \in S,
           heard' = heard \o Ascending(T), finish' = LastIn(S),
           torn' = torn \cup CutByChunk, parsed' = arrived,
           UNCHANGED <<provider, status, doing, calls, answered, embedVars, lines, arrived>>
    PROVE  AiIInv'
<1>1. /\ InChunk \subseteq DOMAIN lines /\ IsFiniteSet(InChunk) /\ InChunk \subseteq 1..MaxLines
      /\ CutByChunk \subseteq 1..MaxLines
      /\ MaxLines \in Nat /\ parsed \in Nat /\ arrived \in Nat
      /\ \A i \in DOMAIN lines : 2 * i <= arrived =>
            2 * i <= parsed \/ i \in InChunk \/ i \in CutByChunk
      /\ \A i \in InChunk : i \in Nat /\ 2 * i <= arrived /\ parsed < 2 * i
      /\ DOMAIN lines = 1..Len(lines)
  BY ChunkIs
<1>2. AiTypeOK /\ HeardBefore(parsed) /\ LastIsLast /\ LosesOnlyCutLines  BY DEF AiIInv
<1>3. heard \in Seq(1..MaxLines) /\ finish \in 0..MaxLines /\ torn \subseteq 1..MaxLines
  BY <1>2 DEF AiTypeOK
<1> DEFINE a == Ascending(T)
<1>4. /\ a \in Seq(T)
      /\ \A i \in T : \E n \in DOMAIN a : a[n] = i
      /\ \A m, n \in DOMAIN a : m < n => a[m] < a[n]
  <2>1. T \subseteq Nat  BY <1>1
  <2>2. IsFiniteSet(T)  BY <1>1, FS_Subset
  <2> QED  BY <2>1, <2>2, AscendingIs
<1>5. /\ finish' \in 0..MaxLines
      /\ S = {} => finish' = finish
      /\ S # {} => finish' \in S /\ \A j \in S : j <= finish'
  <2>1. S \subseteq 1..MaxLines  BY <1>1
  <2> QED  BY <1>1, <1>3, <2>1, LastInIs
<1>6. a \in Seq(1..MaxLines)
  <2>1. a \in [1..Len(a) -> T] /\ Len(a) \in Nat  BY <1>4, LenProperties
  <2>2. T \subseteq 1..MaxLines  BY <1>1
  <2>3. a \in [1..Len(a) -> 1..MaxLines]  BY <2>1, <2>2
  <2>4. \A n \in Nat : [1..n -> 1..MaxLines] \subseteq Seq(1..MaxLines)  BY SeqDef, Zenon
  <2> QED  BY <2>1, <2>3, <2>4, Zenon
<1> HIDE DEF a
<1>7. heard' = heard \o a  BY DEF a
<1>8. /\ heard' \in Seq(1..MaxLines)
      /\ Len(heard) \in Nat /\ Len(a) \in Nat
      /\ DOMAIN heard = 1..Len(heard) /\ DOMAIN a = 1..Len(a)
      /\ DOMAIN heard' = 1..(Len(heard) + Len(a))
      /\ \A k \in 1..Len(heard) : heard'[k] = heard[k]
      /\ \A n \in 1..Len(a) : heard'[Len(heard) + n] = a[n]
  <2>1. heard' \in Seq(1..MaxLines)  BY <1>3, <1>6, <1>7
  <2>2. Len(heard') = Len(heard) + Len(a) /\ Len(heard) \in Nat /\ Len(a) \in Nat
    BY <1>3, <1>6, <1>7
  <2>3. DOMAIN heard = 1..Len(heard) /\ DOMAIN a = 1..Len(a) /\ DOMAIN heard' = 1..Len(heard')
    BY <1>3, <1>6, <2>1, LenProperties
  <2>4. \A k \in 1..Len(heard) : heard'[k] = heard[k]  BY <1>3, <1>6, <1>7
  <2>5. \A n \in 1..Len(a) : heard'[Len(heard) + n] = a[n]  BY <1>3, <1>6, <1>7
  <2> QED  BY <2>1, <2>2, <2>3, <2>4, <2>5
\* What is heard now was heard before, or is in the chunk.
<1>9. ASSUME NEW k \in DOMAIN heard'
      PROVE  \/ k \in 1..Len(heard) /\ heard'[k] = heard[k]
             \/ \E n \in 1..Len(a) : k = Len(heard) + n /\ heard'[k] = a[n]
  <2>1. k \in 1..(Len(heard) + Len(a))  BY <1>8
  <2>2. CASE k <= Len(heard)  BY <1>8, <2>1, <2>2
  <2>3. CASE Len(heard) < k
    <3>1. k - Len(heard) \in 1..Len(a) /\ k = Len(heard) + (k - Len(heard))
      BY <1>8, <2>1, <2>3
    <3> QED  BY <1>8, <3>1
  <2> QED  BY <1>8, <2>1, <2>2, <2>3
<1>10. \A k \in 1..Len(heard) : heard[k] \in Nat /\ 2 * heard[k] <= parsed
  <2>1. \A k \in 1..Len(heard) : heard[k] \in 1..MaxLines  BY <1>3, <1>8, ElementOfSeq
  <2>2. \A k \in 1..Len(heard) : 2 * heard[k] <= parsed  BY <1>2, <1>8 DEF HeardBefore
  <2> QED  BY <1>1, <2>1, <2>2
<1>11. \A n \in 1..Len(a) : a[n] \in T /\ a[n] \in Nat /\ parsed < 2 * a[n] /\ 2 * a[n] <= arrived
  <2>1. \A n \in 1..Len(a) : a[n] \in T  BY <1>4, ElementOfSeq
  <2> QED  BY <1>1, <2>1
<1>12. 2 * finish <= parsed /\ finish \in Nat /\ parsed <= arrived
  BY <1>1, <1>2, <1>3 DEF HeardBefore
<1>13. HeardBefore(parsed)'
  <2>1. \A k \in DOMAIN heard' : 2 * heard'[k] <= arrived
    <3>1. ASSUME NEW k \in DOMAIN heard' PROVE 2 * heard'[k] <= arrived
      <4>1. CASE k \in 1..Len(heard) /\ heard'[k] = heard[k]
        BY <1>1, <1>10, <1>12, <4>1
      <4>2. CASE \E n \in 1..Len(a) : heard'[k] = a[n]  BY <1>11, <4>2
      <4> QED  BY <1>9, <3>1, <4>1, <4>2
    <3> QED  BY <3>1
  <2>2. 2 * finish' <= arrived
    <3>1. CASE S = {}  BY <1>1, <1>5, <1>12, <3>1
    <3>2. CASE S # {}  BY <1>1, <1>5, <3>2
    <3> QED  BY <3>1, <3>2
  <2> QED  BY <2>1, <2>2 DEF HeardBefore
<1>14. finish' >= finish
  <2>1. CASE S = {}  BY <1>5, <1>12, <2>1
  <2>2. CASE S # {}
    <3>1. finish' \in Nat /\ parsed < 2 * finish'  BY <1>1, <1>5, <2>2
    <3> QED  BY <1>1, <1>12, <3>1
  <2> QED  BY <2>1, <2>2
<1>15. LosesOnlyCutLines'
  <2>1. ASSUME NEW i \in DOMAIN heard', NEW j \in DOMAIN heard', i < j
        PROVE  heard'[i] < heard'[j]
    <3>1. CASE j \in 1..Len(heard) /\ heard'[j] = heard[j]
      <4>1. i \in 1..Len(heard)  BY <1>8, <2>1, <3>1
      <4> QED  BY <1>2, <1>8, <2>1, <3>1, <4>1 DEF LosesOnlyCutLines
    <3>2. CASE \E n \in 1..Len(a) : j = Len(heard) + n /\ heard'[j] = a[n]
      <4>1. PICK n \in 1..Len(a) : j = Len(heard) + n /\ heard'[j] = a[n]  BY <3>2
      <4>2. CASE i \in 1..Len(heard) /\ heard'[i] = heard[i]
        <5>1. 2 * heard[i] <= parsed /\ parsed < 2 * a[n] /\ heard[i] \in Nat /\ a[n] \in Nat
          BY <1>10, <1>11, <4>2
        <5> QED  BY <1>1, <4>1, <4>2, <5>1
      <4>3. CASE \E m \in 1..Len(a) : i = Len(heard) + m /\ heard'[i] = a[m]
        <5>1. PICK m \in 1..Len(a) : i = Len(heard) + m /\ heard'[i] = a[m]  BY <4>3
        <5>2. m < n  BY <1>8, <2>1, <4>1, <5>1
        <5> QED  BY <1>4, <1>8, <4>1, <5>1, <5>2
      <4> QED  BY <1>9, <2>1, <4>2, <4>3
    <3> QED  BY <1>9, <2>1, <3>1, <3>2
  <2>2. ASSUME NEW i \in DOMAIN lines \ torn', 2 * i <= arrived
        PROVE  /\ lines[i] = "text" => \E n \in DOMAIN heard' : heard'[n] = i
               /\ lines[i] \in StopLine => finish' >= i
    <3>1. i \in DOMAIN lines \ torn /\ i \notin CutByChunk  BY <2>2
    <3>2. CASE 2 * i <= parsed
      <4>1. /\ lines[i] = "text" => \E n \in DOMAIN heard : heard[n] = i
            /\ lines[i] \in StopLine => finish >= i
        BY <1>2, <3>1, <3>2 DEF LosesOnlyCutLines
      <4>2. lines[i] = "text" => \E n \in DOMAIN heard' : heard'[n] = i
        <5>1. \A n \in DOMAIN heard : n \in DOMAIN heard' /\ heard'[n] = heard[n]  BY <1>8
        <5> QED  BY <4>1, <5>1
      <4>3. lines[i] \in StopLine => finish' >= i
        <5>1. i \in Nat /\ finish' \in Nat  BY <1>1, <1>5, <3>1
        <5> QED  BY <1>12, <1>14, <4>1, <5>1
      <4> QED  BY <4>2, <4>3
    <3>3. CASE i \in InChunk
      <4>1. lines[i] = "text" => \E n \in DOMAIN heard' : heard'[n] = i
        <5>1. ASSUME lines[i] = "text" PROVE \E n \in DOMAIN heard' : heard'[n] = i
          <6>1. i \in T  BY <3>3, <5>1
          <6>2. PICK n \in DOMAIN a : a[n] = i  BY <1>4, <6>1 DEF a
          <6>3. Len(heard) + n \in DOMAIN heard' /\ heard'[Len(heard) + n] = i  BY <1>8, <6>2
          <6> QED  BY <6>3
        <5> QED  BY <5>1
      <4>2. lines[i] \in StopLine => finish' >= i
        <5>1. ASSUME lines[i] \in StopLine PROVE finish' >= i
          <6>1. i \in S  BY <3>3, <5>1
          <6>2. i <= finish'  BY <1>5, <6>1
          <6> QED  BY <1>1, <1>5, <3>1, <6>2
        <5> QED  BY <5>1
      <4> QED  BY <4>1, <4>2
    <3> QED  BY <1>1, <2>2, <3>1, <3>2, <3>3
  <2>3. lines' = lines /\ parsed' = arrived /\ StopLine' = StopLine  BY DEF StopLine
  <2> QED  BY <2>1, <2>2, <2>3 DEF LosesOnlyCutLines
<1>16. AiTypeOK'
  <2>1. parsed' \in 0..arrived' /\ torn' \subseteq 1..MaxLines  BY <1>1, <1>3
  <2>2. UNCHANGED <<inputs, vectors>>  BY DEF embedVars
  <2> QED  BY <1>2, <1>5, <1>8, <2>1, <2>2 DEF AiTypeOK
<1>17. LastIsLast'  BY <1>2 DEF LastIsLast
<1> QED  BY <1>13, <1>15, <1>16, <1>17 DEF AiIInv

\* Each provider's reading of a chunk passes over nothing that counts: what
\* follows a last line is not read, and is noise.
LEMMA ParseFits == AiIInv /\ ParseChunk => AiIInv'
<1>1. SUFFICES ASSUME AiIInv, ParseChunk PROVE AiIInv'  OBVIOUS
<1>2. /\ parsed < arrived /\ parsed' = arrived
      /\ UNCHANGED <<provider, status, doing, calls, answered, embedVars, lines, arrived>>
      /\ ParseOpenAi \/ ParseAnthropic \/ ParseOllama
  BY <1>1 DEF ParseChunk
<1>3. InChunk \subseteq DOMAIN lines /\ \A i \in InChunk : i \in Nat  BY <1>1, <1>2, ChunkIs
<1>4. CASE ParseAnthropic
  <2> DEFINE T == {i \in InChunk : lines[i] = "text"}
             S == {i \in InChunk : lines[i] = "stop"}
  <2>1. /\ heard' = heard \o Ascending(T) /\ finish' = LastIn(S) /\ torn' = torn \cup CutByChunk
        /\ provider = "anthropic"
    BY <1>4 DEF ParseAnthropic
  <2>2. StopLine = {"stop"}  BY <2>1 DEF StopLine
  <2>3. /\ T \subseteq InChunk /\ S \subseteq InChunk
        /\ \A i \in InChunk : lines[i] = "text" => i \in T
        /\ \A i \in InChunk : lines[i] \in StopLine => i \in S
    BY <2>2
  <2> HIDE DEF T, S
  <2> QED  BY <1>1, <1>2, <2>1, <2>3, ChunkFits
<1>5. CASE ParseOllama
  <2> DEFINE T == {i \in InChunk : lines[i] = "text"}
             S == {i \in InChunk : lines[i] = "last"}
  <2>1. /\ heard' = heard \o Ascending(T) /\ finish' = LastIn(S) /\ torn' = torn \cup CutByChunk
        /\ provider = "ollama"
    BY <1>5 DEF ParseOllama
  <2>2. StopLine = {"last"}  BY <2>1 DEF StopLine
  <2>3. /\ T \subseteq InChunk /\ S \subseteq InChunk
        /\ \A i \in InChunk : lines[i] = "text" => i \in T
        /\ \A i \in InChunk : lines[i] \in StopLine => i \in S
    BY <2>2
  <2> HIDE DEF T, S
  <2> QED  BY <1>1, <1>2, <2>1, <2>3, ChunkFits
<1>6. CASE ParseOpenAi
  <2> DEFINE read == {i \in InChunk : \A j \in InChunk : lines[j] = "last" => i <= j}
             T == {i \in read : lines[i] = "text"}
             S == {i \in read : lines[i] \in {"stop", "last"}}
  <2>1. /\ heard' = heard \o Ascending(T) /\ finish' = LastIn(S) /\ torn' = torn \cup CutByChunk
        /\ provider \in {"openai", "lmstudio"}
    BY <1>6 DEF ParseOpenAi
  <2>2. StopLine = {"stop", "last"}  BY <2>1 DEF StopLine
  <2>3. ASSUME NEW i \in InChunk, lines[i] # "noise" PROVE i \in read
    <3>1. ASSUME NEW j \in InChunk, lines[j] = "last" PROVE i <= j
      <4>1. ~(j < i)  BY <1>1, <1>3, <2>3, <3>1 DEF AiIInv, LastIsLast
      <4> QED  BY <1>3, <4>1
    <3> QED  BY <3>1
  <2>4. /\ T \subseteq InChunk /\ S \subseteq InChunk
        /\ \A i \in InChunk : lines[i] = "text" => i \in T
        /\ \A i \in InChunk : lines[i] \in StopLine => i \in S
    <3> HIDE DEF read
    <3>1. read \subseteq InChunk  BY DEF read
    <3> QED  BY <2>2, <2>3, <3>1
  <2> HIDE DEF T, S, read
  <2> QED  BY <1>1, <1>2, <2>1, <2>4, ChunkFits
<1> QED  BY <1>2, <1>4, <1>5, <1>6

\* A call starts with an empty stream.
LEMMA StartFits ==
    AiIInv /\ (\/ \E aCall \in AiCalls \ {"embed"} : StartAi(aCall, 0)
               \/ \E n \in Inputs : StartAi("embed", n))
       => AiIInv'
<1>1. SUFFICES ASSUME AiIInv, NEW aCall \in AiCalls, NEW n \in Nat, StartAi(aCall, n) PROVE AiIInv'
  BY AiAssumption DEF AiCalls
<1>2. /\ doing' = aCall /\ calls < MaxCalls /\ calls' = calls + 1 /\ answered' = "none"
      /\ inputs' = n /\ vectors' = 0
      /\ lines' = <<>> /\ arrived' = 0 /\ parsed' = 0 /\ heard' = <<>> /\ finish' = 0 /\ torn' = {}
      /\ UNCHANGED <<provider, status>>
  BY <1>1 DEF StartAi
<1>3. AiTypeOK  BY <1>1 DEF AiIInv
<1>4. AiTypeOK'
  <2>1. MaxLines \in Nat /\ MaxCalls \in Nat  BY AiAssumption
  <2>2. calls' \in 0..MaxCalls  BY <1>2, <1>3, <2>1 DEF AiTypeOK
  <2>3. lines' \in Seq(Lines) /\ heard' \in Seq(1..MaxLines) /\ Len(lines') = 0  BY <1>2
  <2> QED  BY <1>2, <1>3, <2>1, <2>2, <2>3 DEF AiTypeOK
<1> QED  BY <1>2, <1>4 DEF AiIInv, HeardBefore, LastIsLast, LosesOnlyCutLines

\* The service says more, the network brings more: neither changes what was parsed.
LEMMA SendsFits == AiIInv /\ (\E line \in Lines : ServiceSends(line)) => AiIInv'
<1>1. SUFFICES ASSUME AiIInv, NEW line \in Lines, ServiceSends(line) PROVE AiIInv'  OBVIOUS
<1>2. /\ Len(lines) < MaxLines /\ lines' = Append(lines, line)
      /\ line # "noise" => \A i \in DOMAIN lines : lines[i] # "last"
      /\ UNCHANGED <<provider, status, doing, calls, answered, embedVars, arrived, parsed, heard,
                     finish, torn>>
  BY <1>1 DEF ServiceSends
<1>3. AiTypeOK /\ HeardBefore(parsed) /\ LastIsLast /\ LosesOnlyCutLines  BY <1>1 DEF AiIInv
<1>4. /\ lines \in Seq(Lines) /\ Len(lines) \in Nat /\ MaxLines \in Nat
      /\ arrived \in 0..(2 * Len(lines)) /\ parsed \in 0..arrived
  BY <1>3, AiAssumption, LenProperties DEF AiTypeOK
<1>5. /\ lines' \in Seq(Lines) /\ Len(lines') = Len(lines) + 1
      /\ DOMAIN lines = 1..Len(lines) /\ DOMAIN lines' = 1..(Len(lines) + 1)
      /\ \A i \in 1..Len(lines) : lines'[i] = lines[i]
      /\ lines'[Len(lines) + 1] = line
  BY <1>2, <1>4
<1>6. AiTypeOK'
  <2>1. arrived' \in 0..(2 * Len(lines')) /\ parsed' \in 0..arrived' /\ Len(lines') <= MaxLines
    BY <1>2, <1>4, <1>5
  <2>2. UNCHANGED <<inputs, vectors>>  BY <1>2 DEF embedVars
  <2> QED  BY <1>2, <1>3, <1>5, <2>1, <2>2 DEF AiTypeOK
<1>7. LastIsLast'
  <2> SUFFICES ASSUME NEW i \in DOMAIN lines', NEW j \in DOMAIN lines', i < j, lines'[i] = "last"
               PROVE  lines'[j] = "noise"
    BY DEF LastIsLast
  <2>1. i \in 1..Len(lines) /\ lines[i] = "last"  BY <1>4, <1>5
  <2>2. CASE j \in 1..Len(lines)  BY <1>3, <1>5, <2>1, <2>2 DEF LastIsLast
  <2>3. CASE j = Len(lines) + 1  BY <1>2, <1>5, <2>1, <2>3
  <2> QED  BY <1>4, <1>5, <2>2, <2>3
<1>8. LosesOnlyCutLines'
  <2>1. ASSUME NEW i \in DOMAIN lines', 2 * i <= parsed PROVE i \in DOMAIN lines /\ lines'[i] = lines[i]
    BY <1>4, <1>5, <2>1
  <2>2. StopLine' = StopLine  BY <1>2 DEF StopLine
  <2>3. ASSUME NEW i \in DOMAIN lines' \ torn, 2 * i <= parsed
        PROVE  /\ lines'[i] = "text" => \E n \in DOMAIN heard : heard[n] = i
               /\ lines'[i] \in StopLine => finish >= i
    BY <1>3, <2>1, <2>3 DEF LosesOnlyCutLines
  <2>4. \A i, j \in DOMAIN heard : i < j => heard[i] < heard[j]  BY <1>3 DEF LosesOnlyCutLines
  <2> QED  BY <1>2, <2>2, <2>3, <2>4 DEF LosesOnlyCutLines
<1> QED  BY <1>2, <1>3, <1>6, <1>7, <1>8 DEF AiIInv, HeardBefore

LEMMA BringsFits == AiIInv /\ (\E h \in 1..(2 * MaxLines) : NetworkBrings(h)) => AiIInv'
<1>1. SUFFICES ASSUME AiIInv, NEW h \in 1..(2 * MaxLines), NetworkBrings(h) PROVE AiIInv'  OBVIOUS
<1>2. /\ arrived + h <= 2 * Len(lines) /\ arrived' = arrived + h
      /\ UNCHANGED <<provider, status, doing, calls, answered, embedVars, lines, parsed, heard,
                     finish, torn>>
  BY <1>1 DEF NetworkBrings
<1>3. AiTypeOK /\ HeardBefore(parsed) /\ LastIsLast /\ LosesOnlyCutLines  BY <1>1 DEF AiIInv
<1>4. AiTypeOK'
  <2>1. /\ Len(lines) \in Nat /\ h \in Nat
        /\ arrived \in 0..(2 * Len(lines)) /\ parsed \in 0..arrived
    BY <1>3, AiAssumption, LenProperties DEF AiTypeOK
  <2>2. arrived' \in 0..(2 * Len(lines')) /\ parsed' \in 0..arrived'  BY <1>2, <2>1
  <2>3. UNCHANGED <<inputs, vectors>>  BY <1>2 DEF embedVars
  <2> QED  BY <1>2, <1>3, <2>2, <2>3 DEF AiTypeOK
<1> QED  BY <1>2, <1>3, <1>4 DEF AiIInv, HeardBefore, LastIsLast, LosesOnlyCutLines, StopLine

LEMMA AiStep == AiIInv /\ [AiNext]_aiVars => AiIInv'
<1>1. SUFFICES ASSUME AiIInv, [AiNext]_aiVars PROVE AiIInv'  OBVIOUS
<1>2. CASE UNCHANGED aiVars
  <2>1. UNCHANGED <<provider, status, doing, calls, answered, inputs, vectors, lines, arrived,
                    parsed, heard, finish, torn>>
    BY <1>2 DEF aiVars
  <2>2. AiTypeOK'  BY <1>1, <2>1 DEF AiIInv, AiTypeOK
  <2> QED  BY <1>1, <2>1, <2>2, AiQuiet DEF streamVars
<1>3. CASE AiNext
  <2>1. \/ \/ \E aCall \in AiCalls \ {"embed"} : StartAi(aCall, 0)
           \/ \E n \in Inputs : StartAi("embed", n)
        \/ \/ \E reachable \in BOOLEAN : Validate(reachable)
           \/ \E a \in HttpAnswers : Chat(a) \/ ListModels(a) \/ Embed(a) \/ EmbedNext(a)
           \/ EmbedEnds \/ StreamRefused \/ StreamEnds
        \/ ParseChunk
        \/ \E line \in Lines : ServiceSends(line)
        \/ \E halves \in 1..(2 * MaxLines) : NetworkBrings(halves)
    BY <1>3, Zenon DEF AiNext
  <2> QED  BY <1>1, <2>1, StartFits, AiAnswered, ParseFits, SendsFits, BringsFits, Zenon
<1> QED  BY <1>1, <1>2, <1>3

LEMMA AiRight == AiIInv => LosesOnlyCutLines /\ AiTypeOK
BY DEF AiIInv

-----------------------------------------------------------------------------
(* Listings in pages.  A response carries the marks of the stages it has   *)
(* been through, which are those before the ones ahead of it, and these    *)
(* are sorted: so it is annotated before it is changed.  The position is   *)
(* at the page after the one it left, or at none.                          *)

PipeSorted ==
    \A i, j \in DOMAIN pipe : i < j => StagePriority[pipe[i]] <= StagePriority[pipe[j]]

\* The stages the response in the pipeline has been through.
Behind == Len(pipe) - Len(ahead)
Through(s) == \E i \in 1..Behind : pipe[i] = s

PipeShape ==
    /\ adding \in Seq(Stages) /\ pipe \in Seq(Stages) /\ ahead \in Seq(Stages)
    /\ Len(ahead) <= Len(pipe)
    /\ \A i \in 1..Len(ahead) : ahead[i] = pipe[Behind + i]

\* The metrics are installed once, as those of a build are.
MetricsOnce ==
    /\ \A i, j \in DOMAIN adding : adding[i] = "metrics" /\ adding[j] = "metrics" => i = j
    /\ \A i, j \in DOMAIN pipe : pipe[i] = "metrics" /\ pipe[j] = "metrics" => i = j
    /\ \A i \in DOMAIN adding, j \in DOMAIN pipe : ~(adding[i] = "metrics" /\ pipe[j] = "metrics")

\* Nothing is asked for before the paginator is made, nor that before the pipeline.
InTurn ==
    /\ adding # <<>> => site = <<>>
    /\ site = <<>> =>
         /\ response = Nothing /\ ahead = <<>> /\ nextPage = 0 /\ left = 0
         /\ fetches = 0 /\ counted = 0 /\ finished = 0 /\ handed = <<>> /\ reported = {}
    /\ site = <<>> \/ site \in Sites

Position ==
    /\ left \in 0..Len(site) /\ nextPage \in {0, left + 1}
    /\ handed \in Seq(DOMAIN site) /\ reported \subseteq DOMAIN site
    /\ \A k \in DOMAIN handed : handed[k] <= left
    /\ \A i, j \in DOMAIN handed : i < j => handed[i] < handed[j]
    /\ \A p \in 1..left : p \in Range(handed) \cup reported
    /\ site # <<>> /\ nextPage = 0 =>
         left # 0 /\ (Installed("pagination") => ~NamesNext(site[left]))
    /\ left # 0 /\ ~Installed("pagination") => left = 1 /\ nextPage = 0
    /\ ValidatedNotSkipped

Tally ==
    /\ fetches \in 0..MaxFetches /\ finished \in Nat
    /\ finished + (IF response = Nothing THEN 0 ELSE 1) <= fetches
    /\ counted = IF ~Installed("metrics") THEN 0
                 ELSE finished + (IF response # Nothing /\ Through("metrics") THEN 1 ELSE 0)

\* What has become of the answer a, of page p.
ResponseFields == {"page", "ok", "type", "link", "doc", "slow", "encoded", "wide", "tags",
                   "events", "then", "more"}
Opened(doc) == [doc EXCEPT !.shape = "page", !.next = FALSE, !.more = FALSE]
SaysMore(a) == NamesNext(a) \/ (IsJson(a.doc) /\ a.doc.more)
Came(r, a, p) ==
    /\ DOMAIN r = ResponseFields
    /\ r.page = p /\ r.ok \in BOOLEAN /\ r.tags \subseteq Tags
    /\ r.type = a.type /\ r.link = a.link
    /\ r.slow = a.slow /\ r.encoded = a.encoded /\ r.wide = a.wide
    /\ \/ r.doc = a.doc
       \/ Through("transform") /\ a.doc.shape = "wrapped" /\ r.doc = Opened(a.doc)
    /\ r.then = IF Through("pagination") /\ NamesNext(a) THEN p + 1 ELSE 0
    /\ r.more = (Through("pagination") /\ SaysMore(a))
    /\ (Through("json") \/ Through("strict")) /\ a.type = "json" /\ IsJson(a.doc)
         => "json_body" \in r.tags
    /\ Through("validation") => ~Invalid(r)
    /\ Through("strict") => ~StrictRefuses(a)
    /\ IF "stream_events" \in r.tags
       THEN a.type \in {"sse", "ndjson"} /\ r.events = Events(a) ELSE r.events = <<>>

ResponseFits ==
    response # Nothing => nextPage \in DOMAIN site /\ Came(response, site[nextPage], nextPage)

ContentIInv ==
    /\ PipeShape /\ PipeSorted /\ MetricsOnce /\ InTurn
    /\ Position /\ Tally /\ ResponseFits

LEMMA StagesAre ==
    /\ Stages = {"timeout", "decompression", "json", "strict", "stream", "headers",
                 "pagination", "transform", "validation", "logging", "metrics"}
    /\ \A s \in Stages : StagePriority[s] \in Nat
    /\ StagePriority["json"] = 20 /\ StagePriority["strict"] = 20
    /\ StagePriority["stream"] = 22 /\ StagePriority["pagination"] = 40
    /\ StagePriority["transform"] = 50 /\ StagePriority["validation"] = 60
    /\ StagePriority["logging"] = 90 /\ StagePriority["metrics"] = 95
    /\ \A s \in Stages : s # "metrics" => StagePriority[s] < 95
BY DEF Stages, StagePriority

\* A stage between two parts of a pipeline.
LEMMA BetweenIs ==
    ASSUME NEW a \in Seq(Stages), NEW b \in Seq(Stages), NEW s \in Stages
    PROVE  LET r == (a \o <<s>>) \o b
           IN /\ r \in Seq(Stages) /\ Len(r) = Len(a) + 1 + Len(b) /\ DOMAIN r = 1..Len(r)
              /\ \A i \in 1..Len(a) : r[i] = a[i]
              /\ r[Len(a) + 1] = s
              /\ \A i \in (Len(a) + 2)..(Len(a) + 1 + Len(b)) : r[i] = b[i - (Len(a) + 1)]
<1> DEFINE m == a \o <<s>>
           r == m \o b
<1>1. Len(a) \in Nat /\ Len(b) \in Nat  BY LenProperties
<1>2. /\ m \in Seq(Stages) /\ Len(m) = Len(a) + 1
      /\ \A i \in 1..Len(a) : m[i] = a[i]
      /\ m[Len(a) + 1] = s
  BY <1>1
<1> HIDE DEF m
<1>3. r \in Seq(Stages) /\ Len(r) = Len(a) + 1 + Len(b)  BY <1>1, <1>2
<1>4. \A i \in 1..(Len(a) + 1) : r[i] = m[i]  BY <1>1, <1>2
<1>5. \A i \in (Len(a) + 2)..(Len(a) + 1 + Len(b)) : r[i] = b[i - (Len(a) + 1)]  BY <1>1, <1>2
<1> HIDE DEF r
<1>6. DOMAIN r = 1..Len(r)  BY <1>3, LenProperties
<1>7. \A i \in 1..Len(a) : r[i] = a[i]  BY <1>1, <1>2, <1>4
<1>8. r[Len(a) + 1] = s  BY <1>1, <1>2, <1>4
<1> QED  BY <1>3, <1>5, <1>6, <1>7, <1>8 DEF r, m

\* Where a stage goes: behind n of those that were there.
LEMMA PlacedIs ==
    ASSUME NEW q \in Seq(Stages), NEW s \in Stages, NEW n \in 0..Len(q)
    PROVE  LET r == SubSeq(q, 1, n) \o <<s>> \o SubSeq(q, n + 1, Len(q))
           IN /\ r \in Seq(Stages) /\ Len(r) = Len(q) + 1 /\ DOMAIN r = 1..(Len(q) + 1)
              /\ \A i \in 1..n : r[i] = q[i]
              /\ r[n + 1] = s
              /\ \A i \in (n + 2)..(Len(q) + 1) : r[i] = q[i - 1]
<1> DEFINE a == SubSeq(q, 1, n)
           b == SubSeq(q, n + 1, Len(q))
           r == (a \o <<s>>) \o b
<1>1. Len(q) \in Nat /\ n \in Nat /\ n <= Len(q)  BY LenProperties
<1>2. /\ a \in Seq(Stages) /\ Len(a) = n
      /\ \A i \in 1..n : a[i] = q[i]
  BY <1>1
<1>3. /\ b \in Seq(Stages) /\ Len(b) = Len(q) - n
      /\ \A i \in 1..(Len(q) - n) : b[i] = q[n + i]
  <2>1. b \in Seq(Stages)  BY <1>1
  <2>2. Len(b) = Len(q) - n  BY <1>1
  <2>3. \A i \in 1..(Len(q) - n) : b[i] = q[n + i]  BY <1>1
  <2> QED  BY <2>1, <2>2, <2>3
<1> HIDE DEF a, b
<1>4. /\ r \in Seq(Stages) /\ Len(r) = Len(a) + 1 + Len(b) /\ DOMAIN r = 1..Len(r)
      /\ \A i \in 1..Len(a) : r[i] = a[i]
      /\ r[Len(a) + 1] = s
      /\ \A i \in (Len(a) + 2)..(Len(a) + 1 + Len(b)) : r[i] = b[i - (Len(a) + 1)]
  BY <1>2, <1>3, BetweenIs
<1> HIDE DEF r
<1>5. Len(r) = Len(q) + 1 /\ Len(a) + 1 + Len(b) = Len(q) + 1  BY <1>1, <1>2, <1>3, <1>4
<1>6. \A i \in (n + 2)..(Len(q) + 1) : r[i] = q[i - 1]
  <2> SUFFICES ASSUME NEW i \in (n + 2)..(Len(q) + 1) PROVE r[i] = q[i - 1]  OBVIOUS
  <2>1. i - (n + 1) \in 1..(Len(q) - n) /\ n + (i - (n + 1)) = i - 1  BY <1>1
  <2>2. r[i] = b[i - (n + 1)]  BY <1>2, <1>4, <1>5
  <2> QED  BY <1>3, <2>1, <2>2
<1>7. \A i \in 1..n : r[i] = q[i]  BY <1>2, <1>4
<1> QED  BY <1>2, <1>4, <1>5, <1>6, <1>7 DEF r, a, b

LEMMA NothingIs == Nothing.page = 0 /\ DOMAIN Nothing = {"page"}
BY DEF Nothing

LEMMA ContentStart == ContentInit => ContentIInv
<1>1. SUFFICES ASSUME adding \in Builds, ContentInit PROVE ContentIInv  BY DEF ContentInit
<1>2. /\ pipe = <<>> /\ site = <<>> /\ response = Nothing /\ ahead = <<>>
      /\ nextPage = 0 /\ fetches = 0 /\ counted = 0
      /\ finished = 0 /\ left = 0 /\ handed = <<>> /\ reported = {}
  BY <1>1 DEF ContentInit
<1>3. adding \in Seq(Stages)
      /\ \A i, j \in DOMAIN adding : adding[i] = "metrics" /\ adding[j] = "metrics" => i = j
  BY <1>1, ContentAssumption
<1>4. PipeShape /\ PipeSorted /\ MetricsOnce
  BY <1>2, <1>3 DEF PipeShape, PipeSorted, MetricsOnce, Behind
<1>5. InTurn /\ ResponseFits  BY <1>2 DEF InTurn, ResponseFits
<1>6. ValidatedNotSkipped /\ ~Installed("metrics")
  BY <1>2 DEF ValidatedNotSkipped, Installed, Range
<1>7. Position
  <2>1. handed \in Seq(DOMAIN site)  BY <1>2
  <2> QED  BY <1>2, <1>6, <2>1 DEF Position
<1>8. Tally  BY <1>2, <1>6, ContentAssumption DEF Tally
<1> QED  BY <1>4, <1>5, <1>7, <1>8 DEF ContentIInv

LEMMA AddFits == ContentIInv /\ AddStage => ContentIInv'
<1>1. SUFFICES ASSUME ContentIInv, AddStage PROVE ContentIInv'  OBVIOUS
<1> DEFINE s == Head(adding)
<1>2. PICK n \in 0..Len(pipe) :
        /\ \A i \in DOMAIN pipe : i <= n <=> ~Earlier(s, pipe[i])
        /\ pipe' = SubSeq(pipe, 1, n) \o <<s>> \o SubSeq(pipe, n + 1, Len(pipe))
  BY <1>1 DEF AddStage
<1>3. /\ adding # <<>> /\ adding' = Tail(adding)
      /\ UNCHANGED <<site, response, ahead, nextPage, fetches, counted, finished, left, handed,
                     reported>>
  BY <1>1 DEF AddStage, historyVars
<1>4. /\ PipeShape /\ PipeSorted /\ MetricsOnce /\ InTurn /\ Position /\ Tally
  BY <1>1 DEF ContentIInv
<1>5. adding \in Seq(Stages) /\ pipe \in Seq(Stages)  BY <1>4 DEF PipeShape
<1>6. /\ s \in Stages /\ adding' \in Seq(Stages) /\ Len(adding) \in Nat
      /\ DOMAIN adding = 1..Len(adding) /\ DOMAIN adding' = 1..(Len(adding) - 1)
      /\ 1 \in DOMAIN adding /\ s = adding[1]
      /\ \A i \in DOMAIN adding' : i + 1 \in DOMAIN adding /\ adding'[i] = adding[i + 1]
  <2>1. Len(adding) \in Nat /\ Len(adding) # 0  BY <1>3, <1>5, EmptySeq, LenProperties
  <2>2. adding' \in Seq(Stages) /\ Len(adding') = Len(adding) - 1  BY <1>3, <1>5
  <2>3. DOMAIN adding = 1..Len(adding) /\ DOMAIN adding' = 1..(Len(adding) - 1)
    BY <1>5, <2>1, <2>2, LenProperties
  <2>4. s = adding[1] /\ s \in Stages  BY <1>3, <1>5, <2>1
  <2>5. \A i \in 1..(Len(adding) - 1) : adding'[i] = adding[i + 1]  BY <1>3, <1>5, <2>1
  <2> QED  BY <2>1, <2>2, <2>3, <2>4, <2>5
<1> HIDE DEF s
<1>7. /\ pipe' \in Seq(Stages) /\ Len(pipe') = Len(pipe) + 1 /\ DOMAIN pipe' = 1..(Len(pipe) + 1)
      /\ \A i \in 1..n : pipe'[i] = pipe[i]
      /\ pipe'[n + 1] = s
      /\ \A i \in (n + 2)..(Len(pipe) + 1) : pipe'[i] = pipe[i - 1]
  <2> DEFINE r == SubSeq(pipe, 1, n) \o <<s>> \o SubSeq(pipe, n + 1, Len(pipe))
  <2>1. /\ r \in Seq(Stages) /\ Len(r) = Len(pipe) + 1 /\ DOMAIN r = 1..(Len(pipe) + 1)
        /\ \A i \in 1..n : r[i] = pipe[i]
        /\ r[n + 1] = s
        /\ \A i \in (n + 2)..(Len(pipe) + 1) : r[i] = pipe[i - 1]
    BY <1>5, <1>6, PlacedIs
  <2>2. pipe' = r  BY <1>2
  <2> HIDE DEF r
  <2> QED  BY <2>1, <2>2
<1>8. Len(pipe) \in Nat /\ DOMAIN pipe = 1..Len(pipe) /\ n \in Nat /\ n <= Len(pipe)
  BY <1>2, <1>5, LenProperties
\* A place in the new pipeline is one of the old or that of s.
<1>9. ASSUME NEW i \in DOMAIN pipe'
      PROVE  \/ i <= n /\ i \in DOMAIN pipe /\ pipe'[i] = pipe[i]
             \/ i = n + 1 /\ pipe'[i] = s
             \/ i > n + 1 /\ i - 1 \in DOMAIN pipe /\ pipe'[i] = pipe[i - 1]
  BY <1>7, <1>8
<1>10. PipeSorted'
  <2> SUFFICES ASSUME NEW i \in DOMAIN pipe', NEW j \in DOMAIN pipe', i < j
               PROVE  StagePriority[pipe'[i]] <= StagePriority[pipe'[j]]
    BY DEF PipeSorted
  <2>1. /\ \A k \in DOMAIN pipe : StagePriority[pipe[k]] \in Nat
        /\ StagePriority[s] \in Nat
    <3>1. \A k \in DOMAIN pipe : pipe[k] \in Stages  BY <1>5, <1>8, ElementOfSeq
    <3> QED  BY <1>6, <3>1, StagesAre
  <2>2. \A k \in DOMAIN pipe : k <= n => StagePriority[pipe[k]] <= StagePriority[s]
    BY <1>2, <2>1 DEF Earlier
  <2>3. \A k \in DOMAIN pipe : ~(k <= n) => StagePriority[s] <= StagePriority[pipe[k]]
    BY <1>2, <2>1 DEF Earlier
  <2>4. \A k, l \in DOMAIN pipe : k < l => StagePriority[pipe[k]] <= StagePriority[pipe[l]]
    BY <1>4 DEF PipeSorted
  <2>5. i \in Nat /\ j \in Nat  BY <1>7, <1>8
  <2>6. CASE i <= n /\ i \in DOMAIN pipe /\ pipe'[i] = pipe[i]
    <3>1. CASE j <= n /\ j \in DOMAIN pipe /\ pipe'[j] = pipe[j]  BY <2>4, <2>6, <3>1
    <3>2. CASE j = n + 1 /\ pipe'[j] = s  BY <2>2, <2>6, <3>2
    <3>3. CASE j > n + 1 /\ j - 1 \in DOMAIN pipe /\ pipe'[j] = pipe[j - 1]
      <4>1. i < j - 1  BY <1>8, <2>5, <2>6, <3>3
      <4> QED  BY <2>4, <2>6, <3>3, <4>1
    <3> QED  BY <1>9, <3>1, <3>2, <3>3
  <2>7. CASE i = n + 1 /\ pipe'[i] = s
    <3>1. j - 1 \in DOMAIN pipe /\ pipe'[j] = pipe[j - 1] /\ ~(j - 1 <= n)
      BY <1>8, <1>9, <2>5, <2>7
    <3> QED  BY <2>3, <2>7, <3>1
  <2>8. CASE i > n + 1 /\ i - 1 \in DOMAIN pipe /\ pipe'[i] = pipe[i - 1]
    <3>1. j - 1 \in DOMAIN pipe /\ pipe'[j] = pipe[j - 1] /\ i - 1 < j - 1
      BY <1>8, <1>9, <2>5, <2>8
    <3> QED  BY <2>4, <2>8, <3>1
  <2> QED  BY <1>9, <2>6, <2>7, <2>8
<1>11. MetricsOnce'
  <2>1. \A i, j \in DOMAIN adding' : adding'[i] = "metrics" /\ adding'[j] = "metrics" => i = j
    <3> SUFFICES ASSUME NEW i \in DOMAIN adding', NEW j \in DOMAIN adding',
                        adding'[i] = "metrics", adding'[j] = "metrics"
                 PROVE  i = j
      OBVIOUS
    <3>1. i + 1 = j + 1  BY <1>4, <1>6 DEF MetricsOnce
    <3> QED  BY <1>6, <3>1
  <2>2. ASSUME NEW i \in DOMAIN pipe', pipe'[i] = "metrics"
        PROVE  \/ i = n + 1 /\ s = "metrics"
               \/ i <= n /\ i \in DOMAIN pipe /\ pipe[i] = "metrics"
               \/ i > n + 1 /\ i - 1 \in DOMAIN pipe /\ pipe[i - 1] = "metrics"
    BY <1>9, <2>2
  <2>3. s = "metrics" => \A j \in DOMAIN pipe : pipe[j] # "metrics"
    BY <1>4, <1>6 DEF MetricsOnce
  <2>4. \A i, j \in DOMAIN pipe' : pipe'[i] = "metrics" /\ pipe'[j] = "metrics" => i = j
    <3> SUFFICES ASSUME NEW i \in DOMAIN pipe', NEW j \in DOMAIN pipe',
                        pipe'[i] = "metrics", pipe'[j] = "metrics"
                 PROVE  i = j
      OBVIOUS
    <3>1. i \in Nat /\ j \in Nat  BY <1>7, <1>8
    <3>2. \A k, l \in DOMAIN pipe : pipe[k] = "metrics" /\ pipe[l] = "metrics" => k = l
      BY <1>4 DEF MetricsOnce
    <3>3. CASE s = "metrics"  BY <2>2, <2>3, <3>3
    <3>4. CASE s # "metrics"  BY <1>8, <2>2, <3>1, <3>2, <3>4
    <3> QED  BY <3>3, <3>4
  <2>5. \A i \in DOMAIN adding', j \in DOMAIN pipe' :
           ~(adding'[i] = "metrics" /\ pipe'[j] = "metrics")
    <3> SUFFICES ASSUME NEW i \in DOMAIN adding', NEW j \in DOMAIN pipe',
                        adding'[i] = "metrics", pipe'[j] = "metrics"
                 PROVE  FALSE
      OBVIOUS
    <3>1. i + 1 \in DOMAIN adding /\ adding[i + 1] = "metrics" /\ i + 1 # 1
      BY <1>6
    <3>2. s # "metrics"  BY <1>4, <1>6, <3>1 DEF MetricsOnce
    <3>3. \E k \in DOMAIN pipe : pipe[k] = "metrics"  BY <2>2, <3>2
    <3> QED  BY <1>4, <3>1, <3>3 DEF MetricsOnce
  <2> QED  BY <2>1, <2>4, <2>5 DEF MetricsOnce
<1>12. site = <<>> /\ response = Nothing /\ ahead = <<>> /\ left = 0 /\ counted = 0 /\ finished = 0
       /\ handed = <<>> /\ nextPage = 0
  BY <1>3, <1>4 DEF InTurn
<1>13. PipeShape'
  <2>1. Len(ahead') = 0 /\ ahead' \in Seq(Stages)  BY <1>3, <1>12
  <2> QED  BY <1>6, <1>7, <1>8, <2>1 DEF PipeShape
<1>14. InTurn' /\ ResponseFits'  BY <1>3, <1>4, <1>12 DEF InTurn, ResponseFits
<1>15. Position'
  <2>1. ValidatedNotSkipped'  BY <1>3, <1>12 DEF ValidatedNotSkipped
  <2> QED  BY <1>3, <1>4, <1>12, <2>1 DEF Position
<1>16. Tally'  BY <1>3, <1>4, <1>12 DEF Tally
<1> QED  BY <1>10, <1>11, <1>13, <1>14, <1>15, <1>16 DEF ContentIInv

\* A listing, once there is one.
LEMMA SiteIs ==
    ASSUME InTurn, site # <<>>
    PROVE  /\ site \in Seq(PageAnswers) /\ Len(site) \in Nat /\ DOMAIN site = 1..Len(site)
           /\ 0 < Len(site)
           /\ \A p \in DOMAIN site : site[p] \in PageAnswers
<1>1. site \in Seq(PageAnswers)  BY ContentAssumption DEF InTurn
<1>2. Len(site) \in Nat /\ DOMAIN site = 1..Len(site)  BY <1>1, LenProperties
<1>3. 0 < Len(site)  BY <1>1, <1>2, EmptySeq
<1>4. \A p \in DOMAIN site : site[p] \in PageAnswers  BY <1>1, <1>2, ElementOfSeq
<1> QED  BY <1>1, <1>2, <1>3, <1>4

LEMMA PaginatorFits == ContentIInv /\ NewPaginator => ContentIInv'
<1>1. SUFFICES ASSUME ContentIInv, NewPaginator PROVE ContentIInv'  OBVIOUS
<1>2. /\ adding = <<>> /\ site = <<>> /\ site' \in Sites /\ nextPage' = 1
      /\ UNCHANGED <<adding, pipe, response, ahead, fetches, counted, finished, left, handed,
                     reported>>
  BY <1>1 DEF NewPaginator, historyVars
<1>3. /\ PipeShape /\ PipeSorted /\ MetricsOnce /\ InTurn /\ Position /\ Tally
  BY <1>1 DEF ContentIInv
<1>4. /\ response = Nothing /\ ahead = <<>> /\ left = 0 /\ handed = <<>> /\ reported = {}
      /\ fetches = 0 /\ counted = 0 /\ finished = 0
  BY <1>2, <1>3 DEF InTurn
<1>5. site' # <<>>  BY <1>2, ContentAssumption
<1>6. PipeShape' /\ PipeSorted' /\ MetricsOnce'
  BY <1>2, <1>3 DEF PipeShape, PipeSorted, MetricsOnce, Behind
<1>7. InTurn' /\ ResponseFits'  BY <1>2, <1>4, <1>5 DEF InTurn, ResponseFits
<1>8. Position'
  <2>1. ValidatedNotSkipped'  BY <1>2, <1>4 DEF ValidatedNotSkipped
  <2>2. Len(site') \in Nat
    <3>1. site' \in Seq(PageAnswers)  BY <1>2, ContentAssumption
    <3> QED  BY <3>1, LenProperties
  <2>3. handed' \in Seq(DOMAIN site')  BY <1>2, <1>4
  <2> QED  BY <1>2, <1>4, <2>1, <2>2, <2>3 DEF Position
<1>9. Tally'  BY <1>2, <1>3, <1>4 DEF Tally, Installed
<1> QED  BY <1>6, <1>7, <1>8, <1>9 DEF ContentIInv

\* What a request does: a response of which nothing has been read, or an error.
LEMMA FetchFits == ContentIInv /\ Fetch => ContentIInv'
<1>1. SUFFICES ASSUME ContentIInv, NEW ok \in BOOLEAN, Fetch, response' = Received(ok)
               PROVE  ContentIInv'
  BY DEF Fetch
<1>2. /\ adding = <<>> /\ response = Nothing /\ nextPage \in DOMAIN site
      /\ fetches < MaxFetches /\ fetches' = fetches + 1
      /\ ahead' = pipe
      /\ UNCHANGED <<adding, pipe, site, nextPage, counted, finished, left, handed, reported>>
  BY <1>1 DEF Fetch, historyVars
<1>3. /\ PipeShape /\ PipeSorted /\ MetricsOnce /\ InTurn /\ Position /\ Tally
  BY <1>1 DEF ContentIInv
<1>4. site # <<>>
  <2>1. SUFFICES ASSUME site = <<>> PROVE FALSE  OBVIOUS
  <2> QED  BY <1>2, <2>1
<1>5. nextPage \in Nat /\ nextPage # 0  BY <1>2, <1>3, <1>4, SiteIs
<1>6. response'.page = nextPage  BY <1>1 DEF Received
<1>7. response' # Nothing  BY <1>5, <1>6, NothingIs
<1>8. Len(pipe) \in Nat /\ DOMAIN pipe = 1..Len(pipe)  BY <1>3, LenProperties DEF PipeShape
<1>9. Behind' = 0  BY <1>2, <1>8 DEF Behind
<1>10. \A s : ~Through(s)'  BY <1>9 DEF Through
<1>11. PipeShape' /\ PipeSorted' /\ MetricsOnce'
  <2>1. \A i \in 1..Len(ahead') : ahead'[i] = pipe'[Behind' + i]  BY <1>2, <1>8, <1>9
  <2> QED  BY <1>2, <1>3, <1>8, <2>1 DEF PipeShape, PipeSorted, MetricsOnce
<1>12. InTurn'  BY <1>2, <1>3, <1>4 DEF InTurn
<1>13. Position'
  BY <1>2, <1>3 DEF Position, Installed, ValidatedNotSkipped
<1>14. Tally'
  <2>1. fetches' \in 0..MaxFetches /\ finished + 1 <= fetches'
    BY <1>2, <1>3, ContentAssumption DEF Tally
  <2>2. counted = IF ~Installed("metrics") THEN 0 ELSE finished
    BY <1>2, <1>3 DEF Tally
  <2>3. finished \in Nat  BY <1>3 DEF Tally
  <2>4. ~Through("metrics")'  BY <1>10
  <2> QED  BY <1>2, <1>7, <2>1, <2>2, <2>3, <2>4 DEF Tally, Installed
<1>15. ResponseFits'
  <2> DEFINE a == site[nextPage]
  <2>1. response' = [page |-> nextPage, ok |-> ok, type |-> a.type, link |-> a.link, doc |-> a.doc,
                     slow |-> a.slow, encoded |-> a.encoded, wide |-> a.wide,
                     tags |-> {}, events |-> <<>>, then |-> 0, more |-> FALSE]
    BY <1>1 DEF Received
  <2> HIDE DEF a
  <2>2. /\ DOMAIN response' = ResponseFields
        /\ response'.page = nextPage /\ response'.ok \in BOOLEAN /\ response'.tags = {}
        /\ response'.type = a.type /\ response'.link = a.link
        /\ response'.slow = a.slow /\ response'.encoded = a.encoded /\ response'.wide = a.wide
        /\ response'.doc = a.doc /\ response'.then = 0 /\ response'.more = FALSE
        /\ response'.events = <<>>
    BY <2>1 DEF ResponseFields
  <2>3. /\ ~Through("transform")' /\ ~Through("pagination")' /\ ~Through("json")'
        /\ ~Through("strict")' /\ ~Through("validation")'
    BY <1>10
  <2>4. Came(response, a, nextPage)'  BY <1>2, <2>2, <2>3 DEF Came, a
  <2> QED  BY <1>2, <2>4 DEF ResponseFits, a
<1> QED  BY <1>11, <1>12, <1>13, <1>14, <1>15 DEF ContentIInv

LEMMA FetchFailsFits == ContentIInv /\ FetchFails => ContentIInv'
<1>1. SUFFICES ASSUME ContentIInv, FetchFails PROVE ContentIInv'  OBVIOUS
<1>2. /\ response = Nothing /\ nextPage # 0 /\ fetches < MaxFetches /\ fetches' = fetches + 1
      /\ reported' = reported \cup ({nextPage} \cap DOMAIN site)
      /\ UNCHANGED <<adding, pipe, site, response, ahead, nextPage, counted, finished, left, handed>>
  BY <1>1 DEF FetchFails
<1>3. /\ PipeShape /\ PipeSorted /\ MetricsOnce /\ InTurn /\ Position /\ Tally
  BY <1>1 DEF ContentIInv
<1>4. PipeShape' /\ PipeSorted' /\ MetricsOnce'
  BY <1>2, <1>3 DEF PipeShape, PipeSorted, MetricsOnce, Behind
<1>5. InTurn' /\ ResponseFits'  BY <1>2, <1>3 DEF InTurn, ResponseFits
<1>6. Position'  BY <1>2, <1>3 DEF Position, Installed, ValidatedNotSkipped
<1>7. Tally'  BY <1>2, <1>3, ContentAssumption DEF Tally, Installed, Through
<1> QED  BY <1>4, <1>5, <1>6, <1>7 DEF ContentIInv

\* A response that goes on: it has been through one stage more, none of a higher
\* priority before, and not through the metrics twice.
LEMMA ThroughNext ==
    ASSUME PipeShape, PipeSorted, MetricsOnce, ahead # <<>>, ahead' = Tail(ahead), pipe' = pipe
    PROVE  /\ Head(ahead) \in Stages
           /\ ahead' \in Seq(Stages) /\ Len(ahead') <= Len(pipe')
           /\ \A i \in 1..Len(ahead') : ahead'[i] = pipe'[Behind' + i]
           /\ \A s : Through(s)' <=> Through(s) \/ s = Head(ahead)
           /\ \A s : Through(s) => s \in Stages /\ StagePriority[s] <= StagePriority[Head(ahead)]
           /\ Head(ahead) = "metrics" => ~Through("metrics")
           /\ Installed(Head(ahead))
<1>1. /\ ahead \in Seq(Stages) /\ pipe \in Seq(Stages) /\ Len(ahead) \in Nat /\ Len(pipe) \in Nat
      /\ DOMAIN pipe = 1..Len(pipe) /\ Len(ahead) <= Len(pipe)
      /\ \A i \in 1..Len(ahead) : ahead[i] = pipe[Behind + i]
  BY LenProperties DEF PipeShape
<1>2. 0 < Len(ahead)  BY <1>1, EmptySeq
<1>3. /\ Head(ahead) = ahead[1] /\ ahead' \in Seq(Stages) /\ Len(ahead') = Len(ahead) - 1
      /\ \A i \in 1..(Len(ahead) - 1) : ahead'[i] = ahead[i + 1]
  BY <1>1, <1>2
<1>4. Behind \in Nat /\ Behind + 1 \in DOMAIN pipe /\ Behind' = Behind + 1
      /\ Behind + Len(ahead) = Len(pipe)
  BY <1>1, <1>2, <1>3 DEF Behind
<1>5. Head(ahead) = pipe[Behind + 1]  BY <1>1, <1>2, <1>3
<1>6. Head(ahead) \in Stages  BY <1>1, <1>4, <1>5, ElementOfSeq
<1>7. \A i \in 1..Len(ahead') : ahead'[i] = pipe'[Behind' + i]
  <2> SUFFICES ASSUME NEW i \in 1..Len(ahead') PROVE ahead'[i] = pipe'[Behind' + i]  OBVIOUS
  <2>1. i + 1 \in 1..Len(ahead) /\ i \in 1..(Len(ahead) - 1) /\ Behind + (i + 1) = Behind' + i
    BY <1>1, <1>3, <1>4
  <2>2. ahead'[i] = ahead[i + 1]  BY <1>3, <2>1
  <2>3. ahead[i + 1] = pipe[Behind + (i + 1)]  BY <1>1, <2>1
  <2> QED  BY <2>1, <2>2, <2>3
<1>8. ASSUME NEW s PROVE Through(s)' <=> Through(s) \/ s = Head(ahead)
  <2>1. Through(s)' <=> \E i \in 1..(Behind + 1) : pipe[i] = s  BY <1>4 DEF Through
  <2>2. \A i : i \in 1..(Behind + 1) <=> i \in 1..Behind \/ i = Behind + 1  BY <1>4
  <2> QED  BY <1>5, <2>1, <2>2 DEF Through
<1>9. ASSUME NEW s, Through(s)
      PROVE  s \in Stages /\ StagePriority[s] <= StagePriority[Head(ahead)]
  <2>1. PICK i \in 1..Behind : pipe[i] = s  BY <1>9 DEF Through
  <2>2. i \in DOMAIN pipe /\ i < Behind + 1  BY <1>1, <1>4, <2>1
  <2> QED  BY <1>1, <1>4, <1>5, <2>1, <2>2, ElementOfSeq DEF PipeSorted
<1>10. ASSUME Head(ahead) = "metrics" PROVE ~Through("metrics")
  <2>1. SUFFICES ASSUME NEW i \in 1..Behind, pipe[i] = "metrics" PROVE FALSE  BY DEF Through
  <2>2. i \in DOMAIN pipe /\ i # Behind + 1  BY <1>1, <1>4, <2>1
  <2> QED  BY <1>4, <1>5, <1>10, <2>1, <2>2 DEF MetricsOnce
<1>11. Installed(Head(ahead))  BY <1>4, <1>5 DEF Installed, Range
<1>12. Len(ahead') <= Len(pipe')  BY <1>1, <1>3
<1> QED  BY <1>3, <1>6, <1>7, <1>8, <1>9, <1>10, <1>11, <1>12

\* What stages make of a response: what they leave alone, and what they put beside it.
LEMMA AfterIs ==
    ASSUME NEW s \in Stages, NEW r, DOMAIN r = ResponseFields, r.tags \subseteq Tags
    PROVE  LET q == After(s, r)
           IN /\ DOMAIN q = ResponseFields
              /\ q.page = r.page /\ q.ok = r.ok /\ q.type = r.type /\ q.link = r.link
              /\ q.slow = r.slow /\ q.encoded = r.encoded /\ q.wide = r.wide
              /\ r.tags \subseteq q.tags /\ q.tags \subseteq Tags
              /\ q.doc = IF s = "transform" /\ IsJson(r.doc) THEN Opened(r.doc) ELSE r.doc
              /\ q.then = IF s # "pagination" THEN r.then
                          ELSE IF NamesNext(r) THEN r.page + 1 ELSE 0
              /\ q.more = IF s # "pagination" THEN r.more ELSE SaysMore(r)
              /\ s \in {"json", "strict"} /\ r.type = "json" /\ IsJson(r.doc)
                   => "json_body" \in q.tags
              /\ \/ q.events = r.events /\ ("stream_events" \in q.tags <=> "stream_events" \in r.tags)
                 \/ /\ r.type \in {"sse", "ndjson"} /\ q.events = Events(r)
                    /\ "stream_events" \in q.tags
<1> DEFINE q == After(s, r)
<1>1. s \in {"timeout", "decompression", "json", "strict", "stream", "headers",
             "pagination", "transform", "validation", "logging", "metrics"}
  BY StagesAre
<1>2. CASE s = "timeout"
  <2>1. q = TimeoutTags(r)  BY <1>2, Zenon DEF After
  <2> QED  BY <1>2, <2>1 DEF TimeoutTags, Tagged, ResponseFields, Tags
<1>3. CASE s = "decompression"
  <2>1. q = EncodingTags(r)  BY <1>3 DEF After
  <2> QED  BY <1>3, <2>1 DEF EncodingTags, Tagged, ResponseFields, Tags
<1>4. CASE s \in {"json", "strict"}
  <2>1. q = JsonParsed(r)  BY <1>4 DEF After
  <2> QED  BY <1>4, <2>1 DEF JsonParsed, Tagged, ResponseFields, Tags
<1>5. CASE s = "stream"
  <2>1. q = StreamEvents(r)  BY <1>5 DEF After
  <2>2. CASE r.type \in {"sse", "ndjson"} /\ r.doc.shape = "lines"
    <3> DEFINE e == Events(r)
    <3>1. q = [[r EXCEPT !.tags = @ \cup {"stream_events"}] EXCEPT !.events = e]
      BY <2>1, <2>2 DEF StreamEvents, Tagged
    <3> HIDE DEF e
    <3>2. q.events = e /\ q.tags = r.tags \cup {"stream_events"}  BY <3>1 DEF ResponseFields
    <3>3. /\ DOMAIN q = ResponseFields
          /\ q.page = r.page /\ q.ok = r.ok /\ q.type = r.type /\ q.link = r.link
          /\ q.slow = r.slow /\ q.encoded = r.encoded /\ q.wide = r.wide
          /\ q.doc = r.doc /\ q.then = r.then /\ q.more = r.more
      BY <3>1 DEF ResponseFields
    <3>4. "stream_events" \in Tags  BY DEF Tags
    <3> QED  BY <1>5, <2>2, <3>2, <3>3, <3>4 DEF e
  <2>3. CASE ~(r.type \in {"sse", "ndjson"} /\ r.doc.shape = "lines")
    <3>1. q = r  BY <2>1, <2>3 DEF StreamEvents
    <3> QED  BY <1>5, <3>1
  <2> QED  BY <2>2, <2>3
<1>6. CASE s = "headers"
  <2>1. q = HeaderTags(r)  BY <1>6 DEF After
  <2> QED  BY <1>6, <2>1 DEF HeaderTags, Tagged, ResponseFields, Tags
<1>7. CASE s = "pagination"
  <2>1. q = Paginated(r)  BY <1>7 DEF After
  <2> QED  BY <1>7, <2>1 DEF Paginated, SaysMore, ResponseFields
<1>8. CASE s = "transform"
  <2>1. q = Transformed(r)  BY <1>8 DEF After
  <2> QED  BY <1>8, <2>1 DEF Transformed, Opened, ResponseFields
<1>9. CASE s \in {"validation", "logging", "metrics"}
  <2>1. q = r  BY <1>9 DEF After
  <2> QED  BY <1>9, <2>1
<1> QED  BY <1>1, <1>2, <1>3, <1>4, <1>5, <1>6, <1>7, <1>8, <1>9

\* What an answer says of its own is what a response of it says until its body is
\* changed, and whether it is JSON also after that.
LEMMA BodyIs ==
    ASSUME NEW a \in PageAnswers, NEW r, NEW p, Came(r, a, p)
    PROVE  /\ r.doc \in Bodies
           /\ IsJson(r.doc) <=> IsJson(a.doc)
           /\ r.doc.lines = a.doc.lines
           /\ ~Through("transform") => r.doc = a.doc
           /\ a.doc.shape = "empty" <=> r.doc.shape = "empty"
<1>1. a.doc \in Bodies  BY DEF PageAnswers
<1>2. CASE r.doc = a.doc  BY <1>1, <1>2
<1>3. CASE Through("transform") /\ a.doc.shape = "wrapped" /\ r.doc = Opened(a.doc)
  <2>1. r.doc.shape = "page" /\ r.doc.lines = a.doc.lines /\ r.doc \in Bodies
    BY <1>1, <1>3 DEF Opened, Bodies, JsonShapes
  <2> QED  BY <1>3, <2>1 DEF IsJson, JsonShapes
<1> QED  BY <1>2, <1>3 DEF Came

LEMMA PassFits == ContentIInv /\ Pass => ContentIInv'
<1>1. SUFFICES ASSUME ContentIInv, Pass PROVE ContentIInv'  OBVIOUS
<1> DEFINE h == Head(ahead)
           a == site[nextPage]
           q == After(h, response)
<1>2. /\ response # Nothing /\ ahead # <<>> /\ ~Refused(h, response)
      /\ ahead' = Tail(ahead) /\ response' = q
      /\ counted' = IF h = "metrics" THEN counted + 1 ELSE counted
      /\ UNCHANGED <<adding, pipe, site, fetches, nextPage, finished, left, handed, reported>>
  BY <1>1 DEF Pass, Quiet, historyVars
<1>3. /\ PipeShape /\ PipeSorted /\ MetricsOnce /\ InTurn /\ Position /\ Tally /\ ResponseFits
  BY <1>1 DEF ContentIInv
<1>4. /\ h \in Stages
      /\ ahead' \in Seq(Stages) /\ Len(ahead') <= Len(pipe')
      /\ \A i \in 1..Len(ahead') : ahead'[i] = pipe'[Behind' + i]
      /\ \A s : Through(s)' <=> Through(s) \/ s = h
      /\ \A s : Through(s) => s \in Stages /\ StagePriority[s] <= StagePriority[h]
      /\ h = "metrics" => ~Through("metrics")
      /\ Installed(h)
  BY <1>2, <1>3, ThroughNext
<1>5. /\ nextPage \in DOMAIN site /\ Came(response, a, nextPage)  BY <1>2, <1>3 DEF ResponseFits
<1>6. site # <<>>
  <2>1. SUFFICES ASSUME site = <<>> PROVE FALSE  OBVIOUS
  <2> QED  BY <1>5, <2>1
<1>7. /\ a \in PageAnswers /\ nextPage \in Nat /\ nextPage # 0  BY <1>3, <1>5, <1>6, SiteIs
<1> HIDE DEF h, a, q
<1>8. /\ DOMAIN q = ResponseFields
      /\ q.page = response.page /\ q.ok = response.ok
      /\ q.type = response.type /\ q.link = response.link
      /\ q.slow = response.slow /\ q.encoded = response.encoded /\ q.wide = response.wide
      /\ response.tags \subseteq q.tags /\ q.tags \subseteq Tags
      /\ q.doc = IF h = "transform" /\ IsJson(response.doc) THEN Opened(response.doc)
                 ELSE response.doc
      /\ q.then = IF h # "pagination" THEN response.then
                  ELSE IF NamesNext(response) THEN response.page + 1 ELSE 0
      /\ q.more = IF h # "pagination" THEN response.more ELSE SaysMore(response)
      /\ h \in {"json", "strict"} /\ response.type = "json" /\ IsJson(response.doc)
           => "json_body" \in q.tags
      /\ \/ /\ q.events = response.events
            /\ "stream_events" \in q.tags <=> "stream_events" \in response.tags
         \/ /\ response.type \in {"sse", "ndjson"} /\ q.events = Events(response)
            /\ "stream_events" \in q.tags
  <2>1. DOMAIN response = ResponseFields /\ response.tags \subseteq Tags  BY <1>5 DEF Came
  <2> QED  BY <1>4, <2>1, AfterIs DEF q
<1>9. /\ response.doc \in Bodies
      /\ IsJson(response.doc) <=> IsJson(a.doc)
      /\ response.doc.lines = a.doc.lines
      /\ ~Through("transform") => response.doc = a.doc
  BY <1>5, <1>7, BodyIs
<1>10. response' # Nothing  BY <1>2, <1>5, <1>7, <1>8, NothingIs DEF Came
<1>11. PipeShape' /\ PipeSorted' /\ MetricsOnce'
  BY <1>2, <1>3, <1>4 DEF PipeShape, PipeSorted, MetricsOnce
<1>12. InTurn'  BY <1>2, <1>3, <1>6 DEF InTurn
<1>13. Position'  BY <1>2, <1>3 DEF Position, Installed, ValidatedNotSkipped
<1>14. Tally'
  <2>1. CASE h = "metrics"
    <3>1. counted' = finished + 1
      BY <1>2, <1>3, <1>4, <2>1 DEF Tally
    <3> QED  BY <1>2, <1>3, <1>4, <1>10, <2>1, <3>1 DEF Tally, Installed
  <2>2. CASE h # "metrics"
    BY <1>2, <1>3, <1>4, <1>10, <2>2 DEF Tally, Installed
  <2> QED  BY <2>1, <2>2
\* Nothing goes through a stage after one of a higher priority.
<1>15. /\ h \in {"json", "strict", "stream", "pagination", "transform"} => ~Through("validation")
       /\ h \in {"json", "strict", "stream", "pagination"} => ~Through("transform")
       /\ h = "transform" => ~Through("validation")
  <2>1. /\ Through("validation") => 60 <= StagePriority[h]
        /\ Through("transform") => 50 <= StagePriority[h]
    BY <1>4, StagesAre
  <2> QED  BY <2>1, StagesAre
<1>16. Came(response, site[nextPage], nextPage)'
  <2>1. /\ q.page = nextPage /\ q.ok \in BOOLEAN /\ q.tags \subseteq Tags
        /\ q.type = a.type /\ q.link = a.link
        /\ q.slow = a.slow /\ q.encoded = a.encoded /\ q.wide = a.wide
    BY <1>5, <1>8 DEF Came
  <2>2. \/ q.doc = a.doc
        \/ Through("transform")' /\ a.doc.shape = "wrapped" /\ q.doc = Opened(a.doc)
    <3>1. CASE h = "transform" /\ IsJson(response.doc)
      <4>1. response.doc.shape = "wrapped"  BY <1>2, <3>1 DEF Refused, UnwrapFails
      <4>2. response.doc = a.doc
        <5>1. Opened(a.doc).shape = "page"  BY <1>7 DEF Opened, PageAnswers, Bodies
        <5> QED  BY <1>5, <4>1, <5>1 DEF Came
      <4> QED  BY <1>4, <1>8, <3>1, <4>1, <4>2
    <3>2. CASE ~(h = "transform" /\ IsJson(response.doc))
      <4>1. q.doc = response.doc  BY <1>8, <3>2
      <4> QED  BY <1>4, <1>5, <4>1 DEF Came
    <3> QED  BY <3>1, <3>2
  <2>3. /\ q.then = IF Through("pagination")' /\ NamesNext(a) THEN nextPage + 1 ELSE 0
        /\ q.more = (Through("pagination")' /\ SaysMore(a))
    <3>1. CASE h = "pagination"
      <4>1. response.doc = a.doc /\ response.link = a.link /\ response.page = nextPage
        BY <1>5, <1>9, <1>15, <3>1 DEF Came
      <4>2. (NamesNext(response) <=> NamesNext(a)) /\ SaysMore(response) = SaysMore(a)
        BY <4>1 DEF NamesNext, SaysMore
      <4>3. SaysMore(a) \in BOOLEAN  BY DEF SaysMore
      <4> QED  BY <1>4, <1>8, <3>1, <4>1, <4>2, <4>3
    <3>2. CASE h # "pagination"  BY <1>4, <1>5, <1>8, <3>2 DEF Came
    <3> QED  BY <3>1, <3>2
  <2>4. (Through("json")' \/ Through("strict")') /\ a.type = "json" /\ IsJson(a.doc)
          => "json_body" \in q.tags
    BY <1>4, <1>5, <1>8, <1>9 DEF Came
  <2>5. Through("validation")' => ~Invalid(q)
    <3>1. CASE h = "validation"
      <4>1. ~Invalid(response)  BY <1>2, <3>1 DEF Refused
      <4>2. q.doc = response.doc  BY <1>8, <3>1
      <4> QED  BY <4>1, <4>2 DEF Invalid
    <3>2. CASE h # "validation" /\ Through("validation")
      <4>1. ~Invalid(response)  BY <1>5, <3>2 DEF Came
      <4>2. q.doc = response.doc  BY <1>8, <1>15, <3>2
      <4> QED  BY <4>1, <4>2 DEF Invalid
    <3> QED  BY <1>4, <3>1, <3>2
  <2>6. Through("strict")' => ~StrictRefuses(a)
    <3>1. CASE h = "strict"
      <4>1. ~StrictRefuses(response)  BY <1>2, <3>1 DEF Refused
      <4>2. response.doc = a.doc /\ response.type = a.type  BY <1>5, <1>9, <1>15, <3>1 DEF Came
      <4> QED  BY <4>1, <4>2 DEF StrictRefuses
    <3>2. CASE h # "strict"  BY <1>4, <1>5, <3>2 DEF Came
    <3> QED  BY <3>1, <3>2
  <2>7. IF "stream_events" \in q.tags
        THEN a.type \in {"sse", "ndjson"} /\ q.events = Events(a) ELSE q.events = <<>>
    <3>1. Events(response) = Events(a)
      <4>1. response.type = a.type  BY <1>5 DEF Came
      <4> QED  BY <1>9, <4>1 DEF Events
    <3> QED  BY <1>5, <1>8, <3>1 DEF Came
  <2>8. response' = q /\ site'[nextPage'] = a /\ nextPage' = nextPage  BY <1>2 DEF a
  <2> QED  BY <1>8, <2>1, <2>2, <2>3, <2>4, <2>5, <2>6, <2>7, <2>8 DEF Came
<1>17. ResponseFits'  BY <1>2, <1>5, <1>16 DEF ResponseFits
<1> QED  BY <1>11, <1>12, <1>13, <1>14, <1>17 DEF ContentIInv

LEMMA RefuseFits == ContentIInv /\ Refuse => ContentIInv'
<1>1. SUFFICES ASSUME ContentIInv, Refuse PROVE ContentIInv'  OBVIOUS
<1> DEFINE h == Head(ahead)
<1>2. /\ response # Nothing /\ ahead # <<>> /\ Refused(h, response)
      /\ response' = Nothing /\ ahead' = <<>>
      /\ reported' = reported \cup {response.page}
      /\ UNCHANGED <<adding, pipe, site, fetches, nextPage, counted, finished, left, handed>>
  BY <1>1 DEF Refuse, Quiet
<1>3. /\ PipeShape /\ PipeSorted /\ MetricsOnce /\ InTurn /\ Position /\ Tally /\ ResponseFits
  BY <1>1 DEF ContentIInv
<1>4. response.page \in DOMAIN site  BY <1>2, <1>3 DEF ResponseFits, Came
<1>5. site # <<>>
  <2>1. SUFFICES ASSUME site = <<>> PROVE FALSE  OBVIOUS
  <2> QED  BY <1>4, <2>1
<1>6. ~Through("metrics")
  <2>1. SUFFICES ASSUME NEW i \in 1..Behind, pipe[i] = "metrics" PROVE FALSE  BY DEF Through
  <2>2. /\ ahead \in Seq(Stages) /\ pipe \in Seq(Stages)
        /\ Len(ahead) \in Nat /\ Len(pipe) \in Nat
        /\ DOMAIN pipe = 1..Len(pipe) /\ Len(ahead) <= Len(pipe)
        /\ \A k \in 1..Len(ahead) : ahead[k] = pipe[Behind + k]
    BY <1>3, LenProperties DEF PipeShape
  <2>3. 0 < Len(ahead)  BY <1>2, <2>2, EmptySeq
  <2>4. h = ahead[1]  BY <2>2, <2>3
  <2>5. /\ Behind + 1 \in DOMAIN pipe /\ i \in DOMAIN pipe /\ i < Behind + 1
        /\ h = pipe[Behind + 1]
    BY <2>2, <2>3, <2>4 DEF Behind
  <2>6. StagePriority["metrics"] <= StagePriority[h]  BY <1>3, <2>1, <2>5 DEF PipeSorted
  <2>7. h \in Stages /\ h # "metrics"
    BY <1>2, <2>2, <2>5, ElementOfSeq DEF Refused
  <2> QED  BY <2>6, <2>7, StagesAre
<1>7. PipeShape' /\ PipeSorted' /\ MetricsOnce'
  <2>1. Len(ahead') = 0 /\ ahead' \in Seq(Stages) /\ Len(pipe) \in Nat
    BY <1>2, <1>3, LenProperties DEF PipeShape
  <2> QED  BY <1>2, <1>3, <2>1 DEF PipeShape, PipeSorted, MetricsOnce
<1>8. InTurn' /\ ResponseFits'  BY <1>2, <1>3, <1>5 DEF InTurn, ResponseFits
<1>9. Position'  BY <1>2, <1>3, <1>4 DEF Position, Installed, ValidatedNotSkipped
<1>10. Tally'  BY <1>2, <1>3, <1>6 DEF Tally, Installed
<1> QED  BY <1>7, <1>8, <1>9, <1>10 DEF ContentIInv

\* A response that has been through everything: what its stages have made sure of.
LEMMA ThroughAll ==
    ASSUME PipeShape, ahead = <<>>, NEW s
    PROVE  Through(s) <=> Installed(s)
<1>1. Len(ahead) = 0 /\ Len(pipe) \in Nat /\ DOMAIN pipe = 1..Len(pipe)
  BY LenProperties DEF PipeShape
<1>2. Behind = Len(pipe)  BY <1>1 DEF Behind
<1> QED  BY <1>1, <1>2 DEF Through, Installed, Range

LEMMA TakeFits == ContentIInv /\ TakePage => ContentIInv'
<1>1. SUFFICES ASSUME ContentIInv, TakePage PROVE ContentIInv'  OBVIOUS
<1> DEFINE a == site[nextPage]
<1>2. /\ response # Nothing /\ ahead = <<>>
      /\ nextPage' = IF response.ok THEN response.then ELSE nextPage
      /\ left' = IF response.ok THEN nextPage ELSE left
      /\ IF response.ok /\ Decodable(response)
         THEN handed' = Append(handed, response.page) /\ reported' = reported
         ELSE reported' = reported \cup {response.page} /\ handed' = handed
      /\ response' = Nothing
      /\ finished' = finished + 1
      /\ UNCHANGED <<adding, pipe, site, fetches, ahead, counted>>
  BY <1>1 DEF TakePage, Quiet
<1>3. /\ PipeShape /\ PipeSorted /\ MetricsOnce /\ InTurn /\ Position /\ Tally /\ ResponseFits
  BY <1>1 DEF ContentIInv
<1>4. nextPage \in DOMAIN site /\ Came(response, a, nextPage)  BY <1>2, <1>3 DEF ResponseFits
<1>5. site # <<>>
  <2>1. SUFFICES ASSUME site = <<>> PROVE FALSE  OBVIOUS
  <2> QED  BY <1>4, <2>1
<1>6. /\ Len(site) \in Nat /\ DOMAIN site = 1..Len(site) /\ a \in PageAnswers
  BY <1>3, <1>4, <1>5, SiteIs
<1>7. left \in Nat /\ nextPage = left + 1 /\ left + 1 \in 1..Len(site)
  BY <1>3, <1>4, <1>6 DEF Position
<1>8. \A s : Through(s) <=> Installed(s)  BY <1>2, <1>3, ThroughAll
<1>9. /\ response.page = nextPage /\ response.ok \in BOOLEAN /\ response.type = a.type
      /\ response.then = IF Installed("pagination") /\ NamesNext(a) THEN nextPage + 1 ELSE 0
      /\ Installed("validation") => ~Invalid(response)
      /\ Installed("strict") => ~StrictRefuses(a)
      /\ IsJson(response.doc) <=> IsJson(a.doc)
  <2>1. /\ response.page = nextPage /\ response.ok \in BOOLEAN /\ response.type = a.type
        /\ response.then = IF Through("pagination") /\ NamesNext(a) THEN nextPage + 1 ELSE 0
        /\ Through("validation") => ~Invalid(response)
        /\ Through("strict") => ~StrictRefuses(a)
    BY <1>4 DEF Came
  <2> QED  BY <1>4, <1>6, <1>8, <2>1, BodyIs
<1> HIDE DEF a
<1>10. PipeShape' /\ PipeSorted' /\ MetricsOnce'
  BY <1>2, <1>3 DEF PipeShape, PipeSorted, MetricsOnce, Behind
<1>11. InTurn' /\ ResponseFits'  BY <1>2, <1>3, <1>5 DEF InTurn, ResponseFits
<1>12. Tally'
  <2>1. finished \in Nat /\ finished + 1 <= fetches /\ fetches \in 0..MaxFetches
        /\ counted = IF ~Installed("metrics") THEN 0 ELSE finished + 1
    BY <1>2, <1>3, <1>8 DEF Tally
  <2> QED  BY <1>2, <2>1 DEF Tally, Installed
<1>13. CASE ~response.ok
  <2>1. nextPage' = nextPage /\ left' = left /\ handed' = handed
        /\ reported' = reported \cup {response.page}
    BY <1>2, <1>13
  <2>2. Position'  BY <1>2, <1>3, <1>4, <1>9, <2>1 DEF Position, Installed, ValidatedNotSkipped
  <2> QED  BY <1>10, <1>11, <1>12, <2>2 DEF ContentIInv
<1>14. CASE response.ok
  <2> DEFINE p == left + 1
  <2>1. /\ left' = p /\ nextPage' = IF Installed("pagination") /\ NamesNext(a) THEN p + 1 ELSE 0
        /\ p \in DOMAIN site /\ p \in Nat /\ a = site[p]
        /\ IF Decodable(response) THEN handed' = Append(handed, p) /\ reported' = reported
           ELSE reported' = reported \cup {p} /\ handed' = handed
    BY <1>2, <1>6, <1>7, <1>9, <1>14 DEF a
  <2>2. /\ handed \in Seq(DOMAIN site) /\ reported \subseteq DOMAIN site
        /\ Len(handed) \in Nat /\ DOMAIN handed = 1..Len(handed)
        /\ \A k \in DOMAIN handed : handed[k] \in Nat /\ handed[k] <= left
        /\ \A i, j \in DOMAIN handed : i < j => handed[i] < handed[j]
    <3>1. handed \in Seq(DOMAIN site)  BY <1>3 DEF Position
    <3>2. Len(handed) \in Nat /\ DOMAIN handed = 1..Len(handed)  BY <3>1, LenProperties
    <3>3. \A k \in DOMAIN handed : handed[k] \in DOMAIN site  BY <3>1, <3>2, ElementOfSeq
    <3> QED  BY <1>3, <1>6, <3>1, <3>2, <3>3 DEF Position
  <2>3. /\ handed' \in Seq(DOMAIN site') /\ reported' \subseteq DOMAIN site'
        /\ \A k \in DOMAIN handed' : handed'[k] <= p
        /\ \A i, j \in DOMAIN handed' : i < j => handed'[i] < handed'[j]
        /\ Range(handed) \subseteq Range(handed')
        /\ p \in Range(handed') \cup reported'
        /\ Decodable(response) => p \in Range(handed')
        /\ reported \subseteq reported'
    <3>1. CASE ~Decodable(response)
      <4>1. \A k \in DOMAIN handed : handed[k] <= p  BY <1>7, <2>2
      <4> QED  BY <1>2, <2>1, <2>2, <3>1, <4>1
    <3>2. CASE Decodable(response)
      <4> DEFINE l == Len(handed)
      <4>1. handed' = Append(handed, p) /\ reported' = reported  BY <2>1, <3>2
      <4>2. /\ handed' \in Seq(DOMAIN site) /\ Len(handed') = l + 1
            /\ \A k \in 1..l : handed'[k] = handed[k]
            /\ handed'[l + 1] = p
        <5> DEFINE S == DOMAIN site
        <5>1. p \in S /\ handed \in Seq(S)  BY <2>1, <2>2
        <5> HIDE DEF S, p
        <5> SUFFICES /\ Append(handed, p) \in Seq(S) /\ Len(Append(handed, p)) = Len(handed) + 1
                     /\ \A k \in 1..Len(handed) : Append(handed, p)[k] = handed[k]
                     /\ Append(handed, p)[Len(handed) + 1] = p
          BY <4>1 DEF S
        <5> QED  BY <5>1
      <4>3. DOMAIN handed' = 1..(l + 1)  BY <2>2, <4>2, LenProperties
      <4> HIDE DEF p, l
      <4>4. l \in Nat /\ DOMAIN handed = 1..l /\ p \in Nat /\ left < p  BY <1>7, <2>2 DEF l, p
      <4>5. \A k \in DOMAIN handed' : handed'[k] <= p
        BY <1>7, <2>2, <4>2, <4>3, <4>4
      <4>6. \A i, j \in DOMAIN handed' : i < j => handed'[i] < handed'[j]
        <5> SUFFICES ASSUME NEW i \in DOMAIN handed', NEW j \in DOMAIN handed', i < j
                     PROVE  handed'[i] < handed'[j]
          OBVIOUS
        <5>1. i \in 1..l /\ handed'[i] = handed[i]  BY <4>2, <4>3, <4>4
        <5>2. CASE j \in 1..l  BY <2>2, <4>2, <4>4, <5>1, <5>2
        <5>3. CASE j = l + 1
          <6>1. handed[i] \in Nat /\ handed[i] <= left  BY <2>2, <4>4, <5>1
          <6> QED  BY <1>7, <4>2, <4>4, <5>1, <5>3, <6>1
        <5> QED  BY <4>3, <4>4, <5>2, <5>3
      <4>7. Range(handed) \subseteq Range(handed') /\ p \in Range(handed')
        <5>1. \A k \in DOMAIN handed : k \in DOMAIN handed' /\ handed'[k] = handed[k]
          BY <4>2, <4>3, <4>4
        <5>2. l + 1 \in DOMAIN handed' /\ handed'[l + 1] = p  BY <4>2, <4>3, <4>4
        <5> QED  BY <5>1, <5>2 DEF Range
      <4> QED  BY <1>2, <2>2, <4>1, <4>2, <4>5, <4>6, <4>7
    <3> QED  BY <3>1, <3>2
  <2> HIDE DEF p
  <2>4. \A i \in 1..p : i \in 1..left \/ i = p  BY <1>7, <2>1 DEF p
  <2>5. \A i \in 1..p : i \in Range(handed') \cup reported'
    <3>1. \A i \in 1..left : i \in Range(handed) \cup reported  BY <1>3 DEF Position
    <3> QED  BY <2>3, <2>4, <3>1
  <2>6. ValidatedNotSkipped'
    <3> SUFFICES ASSUME Installed("strict"), Installed("validation"),
                        NEW i \in 1..p, site[i].type = "json", site[i].doc.shape # "empty"
                 PROVE  i \in Range(handed')
      BY <1>2, <2>1 DEF ValidatedNotSkipped, Installed
    <3>1. CASE i \in 1..left
      BY <1>3, <2>3, <3>1 DEF Position, ValidatedNotSkipped
    <3>2. CASE i = p
      <4>1. ~StrictRefuses(a) /\ ~Invalid(response)  BY <1>9
      <4>2. IsJson(a.doc)  BY <2>1, <3>2, <4>1 DEF StrictRefuses, IsJson
      <4>3. Decodable(response)  BY <1>9, <4>1, <4>2 DEF Invalid, Decodable
      <4> QED  BY <2>3, <3>2, <4>3
    <3> QED  BY <2>4, <3>1, <3>2
  <2>7. Position'
    <3>1. left' \in 0..Len(site') /\ nextPage' \in {0, left' + 1} /\ left' # 0
      BY <1>2, <1>6, <1>7, <2>1 DEF p
    <3>2. nextPage' = 0 => (Installed("pagination") => ~NamesNext(site[left']))
      BY <2>1
    <3>3. ~Installed("pagination") => left' = 1 /\ nextPage' = 0
      <4>1. SUFFICES ASSUME ~Installed("pagination") PROVE left' = 1 /\ nextPage' = 0  OBVIOUS
      <4>2. left = 0  BY <1>3, <1>7, <4>1 DEF Position
      <4> QED  BY <2>1, <4>1, <4>2 DEF p
    <3>4. Installed("pagination")' <=> Installed("pagination")  BY <1>2 DEF Installed
    <3> QED  BY <1>2, <2>1, <2>3, <2>5, <2>6, <3>1, <3>2, <3>3, <3>4 DEF Position
  <2> QED  BY <1>10, <1>11, <1>12, <2>7 DEF ContentIInv
<1> QED  BY <1>9, <1>13, <1>14

LEMMA ContentStep == ContentIInv /\ [ContentNext]_contentVars => ContentIInv'
<1>1. SUFFICES ASSUME ContentIInv, UNCHANGED contentVars PROVE ContentIInv'
  BY AddFits, PaginatorFits, FetchFits, FetchFailsFits, PassFits, RefuseFits, TakeFits
     DEF ContentNext
<1>2. UNCHANGED <<adding, pipe, site, response, ahead, nextPage, fetches, counted, finished,
                  left, handed, reported>>
  BY <1>1 DEF contentVars, historyVars
<1>3. PipeShape' /\ PipeSorted' /\ MetricsOnce'
  BY <1>1, <1>2 DEF ContentIInv, PipeShape, PipeSorted, MetricsOnce, Behind
<1>4. InTurn'  BY <1>1, <1>2 DEF ContentIInv, InTurn
<1>5. Position'  BY <1>1, <1>2 DEF ContentIInv, Position, Installed, ValidatedNotSkipped
<1>6. Tally'  BY <1>1, <1>2 DEF ContentIInv, Tally, Installed, Through, Behind
<1>7. ResponseFits'
  <2>1. \A s : Through(s)' <=> Through(s)  BY <1>2 DEF Through, Behind
  <2> QED  BY <1>1, <1>2, <2>1 DEF ContentIInv, ResponseFits, Came
<1> QED  BY <1>3, <1>4, <1>5, <1>6, <1>7 DEF ContentIInv

\* Pages come whole and in order.
LEMMA ListingRight == ContentIInv => ListingIsWhole
<1>1. SUFFICES ASSUME ContentIInv PROVE ListingIsWhole  OBVIOUS
<1>2. /\ PipeShape /\ PipeSorted /\ MetricsOnce /\ InTurn /\ Position /\ Tally /\ ResponseFits
  BY <1>1 DEF ContentIInv
<1>3. CASE site = <<>>
  <2>1. /\ response = Nothing /\ nextPage = 0 /\ left = 0 /\ handed = <<>>
        /\ DOMAIN site = {} /\ DOMAIN handed = {}
    BY <1>2, <1>3 DEF InTurn
  <2> QED  BY <2>1 DEF ListingIsWhole, PagesInOrder, EndsWhereItEnds, ValidatedNotSkipped,
                       StagesHadTheirSay
<1>4. CASE site # <<>>
  <2>1. Len(site) \in Nat /\ DOMAIN site = 1..Len(site)  BY <1>2, <1>4, SiteIs
  <2>2. /\ left \in 0..Len(site) /\ nextPage \in {0, left + 1}
        /\ \A i, j \in DOMAIN handed : i < j => handed[i] < handed[j]
        /\ \A p \in 1..left : p \in Range(handed) \cup reported
        /\ nextPage = 0 => left # 0 /\ (Installed("pagination") => ~NamesNext(site[left]))
        /\ left # 0 /\ ~Installed("pagination") => left = 1 /\ nextPage = 0
        /\ ValidatedNotSkipped
    BY <1>2, <1>4 DEF Position
  <2>3. PagesInOrder
    <3>1. \A p \in DOMAIN site : p < nextPage => p \in 1..left  BY <2>1, <2>2
    <3> QED  BY <2>2, <3>1 DEF PagesInOrder
  <2>4. EndsWhereItEnds  BY <2>2 DEF EndsWhereItEnds
  <2>5. StagesHadTheirSay
    <3> SUFFICES ASSUME response # Nothing, ahead = <<>>
                 PROVE  LET a == site[response.page]
                            parses == Installed("json") \/ Installed("strict")
                        IN /\ parses /\ a.type = "json" /\ IsJson(a.doc) => "json_body" \in response.tags
                           /\ Installed("validation") => ~Invalid(response)
                           /\ Installed("pagination") =>
                                response.more = (NamesNext(a) \/ (IsJson(a.doc) /\ a.doc.more))
                           /\ Installed("metrics") => counted = finished + 1
      BY DEF StagesHadTheirSay
    <3>1. Came(response, site[nextPage], nextPage)  BY <1>2 DEF ResponseFits
    <3>2. \A s : Through(s) <=> Installed(s)  BY <1>2, ThroughAll
    <3>3. response.page = nextPage  BY <3>1 DEF Came
    <3>4. Installed("metrics") => counted = finished + 1  BY <1>2, <3>2 DEF Tally
    <3> QED  BY <3>1, <3>2, <3>3, <3>4 DEF Came, SaysMore
  <2> QED  BY <2>2, <2>3, <2>4, <2>5 DEF ListingIsWhole
<1> QED  BY <1>3, <1>4

-----------------------------------------------------------------------------
(* The lines of a stream, read one after the other.  What is gathered after *)
(* each of them: groups of lines, the last of them still open.  A group is *)
(* closed by an empty line, so no two lines of one have an empty line      *)
(* between them and any two of different ones have.                        *)

DataIn(data, ls) == {x \in Range(data) : ls[x] = "data"}
Blanks(ls) == {b \in DOMAIN ls : ls[b] = "blank"}
ParsedEvents(n) == [type : 0..n, data : Seq(1..n)]

\* Of the events: in order, separated, and their types of the lines since the last.
EventsFit(type, es, ls) ==
    /\ es \in Seq(ParsedEvents(Len(ls)))
    /\ \A k, l \in DOMAIN es : k < l =>
         \A x \in DataIn(es[k].data, ls), y \in DataIn(es[l].data, ls) :
            x < y /\ (type = "sse" => \E b \in Blanks(ls) : x < b /\ b < y)
    /\ type = "sse" => \A k \in DOMAIN es : \A x, y \in DataIn(es[k].data, ls) :
                          ~\E b \in Blanks(ls) : x < b /\ b < y
    /\ \A k \in DOMAIN es : es[k].type # 0 =>
         \A l \in 1..(k - 1) : \A x \in DataIn(es[l].data, ls) : x < es[k].type

\* After i lines: every line of data is in an event or in the group that is open.
Gathered(type, acc, ls, i) ==
    /\ DOMAIN acc = {"events", "type", "data"}
    /\ EventsFit(type, acc.events, ls)
    /\ acc.type \in 0..i /\ acc.data \in Seq(1..Len(ls))
    /\ acc.data # <<>> => type = "sse" /\ ls[acc.data[1]] = "data"
    /\ \A x \in DataIn(acc.data, ls) : x <= i /\ ~\E b \in Blanks(ls) : x < b /\ b <= i
    /\ \A k \in DOMAIN acc.events : \A x \in DataIn(acc.events[k].data, ls) :
         /\ x <= i
         /\ \A y \in DataIn(acc.data, ls) : x < y
         /\ type = "sse" => \E b \in Blanks(ls) : x < b /\ b <= i
         /\ acc.type # 0 => x < acc.type
    /\ \A x \in 1..i : ls[x] = "data" =>
         \/ x \in DataIn(acc.data, ls)
         \/ \E k \in DOMAIN acc.events : x \in DataIn(acc.events[k].data, ls)

\* Reading starts with nothing and takes line after line: the function LinesRead is
\* defined by exists.
LEMMA ReadIs ==
    ASSUME NEW type, NEW ls, Len(ls) \in Nat
    PROVE  /\ LinesRead(type, ls)[0] = [events |-> <<>>, type |-> 0, data |-> <<>>]
           /\ \A i \in 1..Len(ls) :
                LinesRead(type, ls)[i] = LineRead(type, LinesRead(type, ls)[i - 1], i, ls)
<1> DEFINE n == Len(ls)
           none == [events |-> <<>>, type |-> 0, data |-> <<>>]
           F(m, f) == [i \in 0..m |-> IF i = 0 THEN none ELSE LineRead(type, f[i - 1], i, ls)]
           T == {m \in Nat : ~\E f : f = F(m, f)}
<1>0. n \in Nat  OBVIOUS
<1> HIDE DEF n, none
<1>1. T = {}
  <2>1. SUFFICES ASSUME T # {} PROVE FALSE  OBVIOUS
  <2>2. T \subseteq Nat  OBVIOUS
  <2>3. PICK m \in T : \A k \in T : m <= k  BY <2>1, <2>2, LeastNumber
  <2>4. m \in Nat /\ ~\E f : f = F(m, f)  BY <2>3
  <2>5. CASE m = 0
    <3> DEFINE f == [i \in 0..0 |-> none]
    <3>1. f = F(0, f)
      <4>1. \A i \in 0..0 : i = 0  OBVIOUS
      <4> QED  BY <4>1
    <3> QED  BY <2>4, <2>5, <3>1
  <2>6. CASE m # 0
    <3>1. m - 1 \in Nat /\ ~(m <= m - 1)  BY <2>4, <2>6
    <3>2. m - 1 \notin T  BY <2>3, <3>1
    <3>3. PICK g : g = F(m - 1, g)  BY <3>1, <3>2
    <3> DEFINE f == [i \in 0..m |-> IF i = m THEN LineRead(type, g[m - 1], m, ls) ELSE g[i]]
    <3>4. ASSUME NEW i \in 0..m
          PROVE  f[i] = IF i = 0 THEN none ELSE LineRead(type, f[i - 1], i, ls)
      <4>1. CASE i = m
        <5>1. m - 1 \in 0..m /\ m - 1 # m  BY <3>1
        <5>2. f[m - 1] = g[m - 1]  BY <5>1
        <5>3. f[m] = LineRead(type, g[m - 1], m, ls)  BY <2>4
        <5> QED  BY <2>6, <4>1, <5>2, <5>3
      <4>2. CASE i # m
        <5>1. i \in 0..(m - 1)  BY <2>4, <4>2
        <5>2. f[i] = g[i]  BY <4>2
        <5>3. g[i] = IF i = 0 THEN none ELSE LineRead(type, g[i - 1], i, ls)
          BY <3>3, <5>1
        <5>4. i # 0 => i - 1 \in 0..m /\ i - 1 # m  BY <2>4, <5>1
        <5>5. i # 0 => f[i - 1] = g[i - 1]  BY <5>4
        <5> QED  BY <5>2, <5>3, <5>5
      <4> QED  BY <4>1, <4>2
    <3>5. f = F(m, f)
      <4>1. f = [i \in 0..m |-> f[i]]  OBVIOUS
      <4> HIDE DEF f
      <4>2. [i \in 0..m |-> f[i]] = F(m, f)  BY <3>4
      <4> QED  BY <4>1, <4>2
    <3> HIDE DEF f
    <3> QED  BY <2>4, <3>5
  <2> QED  BY <2>5, <2>6
<1>2. \E f : f = F(n, f)  BY <1>0, <1>1
<1> DEFINE R == CHOOSE f : f = F(n, f)
<1>3. R = F(n, R)  BY <1>2
<1>4. LinesRead(type, ls) = R  BY DEF LinesRead, n, none
<1> HIDE DEF R
<1>5. R[0] = none
  <2>1. 0 \in 0..n  BY <1>0
  <2> QED  BY <1>3, <2>1
<1>6. \A i \in 1..n : R[i] = LineRead(type, R[i - 1], i, ls)
  <2>1. \A i \in 1..n : i \in 0..n /\ i # 0  BY <1>0
  <2> QED  BY <1>3, <2>1
<1> QED  BY <1>4, <1>5, <1>6 DEF n, none

\* Trimming takes no line of data.
LEMMA TrimmedIs ==
    ASSUME NEW ls, NEW n \in Nat, NEW data \in Seq(1..n), data # <<>>, ls[data[1]] = "data"
    PROVE  Trimmed(data, ls) \in Seq(1..n) /\ DataIn(Trimmed(data, ls), ls) = DataIn(data, ls)
<1> DEFINE M == {k \in DOMAIN data : ls[data[k]] = "data"}
           m == Max(M)
           t == SubSeq(data, 1, m)
<1>1. Len(data) \in Nat /\ DOMAIN data = 1..Len(data) /\ 0 < Len(data)
  BY LenProperties, EmptySeq
<1>2. M \subseteq 0..Len(data) /\ 1 \in M  BY <1>1
<1>3. \E k \in M : \A j \in M : j <= k  BY <1>1, <1>2, GreatestNumber
<1>4. \A j, k \in M : j <= k <=> k >= j  BY <1>1, <1>2
<1>5. m \in M /\ \A j \in M : j <= m
  <2>1. m = CHOOSE x \in M : \A y \in M : x >= y  BY DEF Max
  <2> HIDE DEF M, m
  <2>2. \E k \in M : \A j \in M : k >= j  BY <1>3, <1>4
  <2>3. m \in M /\ \A j \in M : m >= j  BY <2>1, <2>2, Zenon
  <2> QED  BY <1>4, <2>3
<1>6. m \in 1..Len(data)  BY <1>1, <1>5
<1> HIDE DEF m
<1>7. /\ t \in Seq(1..n) /\ Len(t) = m /\ DOMAIN t = 1..m
      /\ \A k \in 1..m : t[k] = data[k]
  <2>1. t \in Seq(1..n) /\ Len(t) = m  BY <1>1, <1>6
  <2>2. \A k \in 1..m : t[k] = data[k]  BY <1>1, <1>6
  <2>3. DOMAIN t = 1..m  BY <2>1, LenProperties
  <2> QED  BY <2>1, <2>2, <2>3
<1> HIDE DEF t
<1>8. \A x \in DataIn(t, ls) : x \in DataIn(data, ls)
  <2>1. \A k \in 1..m : k \in DOMAIN data  BY <1>1, <1>6
  <2> QED  BY <1>7, <2>1 DEF DataIn, Range
<1>9. \A x \in DataIn(data, ls) : x \in DataIn(t, ls)
  <2> SUFFICES ASSUME NEW k \in DOMAIN data, ls[data[k]] = "data" PROVE data[k] \in DataIn(t, ls)
    BY DEF DataIn, Range
  <2>1. k \in M  OBVIOUS
  <2>2. k \in 1..m  BY <1>1, <1>5, <1>6, <2>1
  <2> QED  BY <1>7, <2>2 DEF DataIn, Range
<1>10. Trimmed(data, ls) = t  BY DEF Trimmed, t, m
<1> QED  BY <1>7, <1>8, <1>9, <1>10

\* What a group that is closed makes of the events.
LEMMA FlushFits ==
    ASSUME NEW ls \in Seq(LineKinds), NEW type, NEW acc, NEW i \in 0..Len(ls),
           Gathered(type, acc, ls, i)
    PROVE  LET f == Flushed(acc, ls)
           IN /\ DOMAIN f = {"events", "type", "data"} /\ f.data = <<>>
              /\ f.type \in 0..i /\ (acc.data # <<>> => f.type = 0)
              /\ EventsFit(type, f.events, ls)
              /\ \A k \in DOMAIN f.events : \A x \in DataIn(f.events[k].data, ls) :
                   /\ x <= i /\ x \in 1..Len(ls)
                   /\ f.type # 0 => x < f.type
                   /\ (acc.data = <<>> /\ type = "sse" => \E b \in Blanks(ls) : x < b /\ b <= i)
              /\ \A x \in 1..i : ls[x] = "data" =>
                   \E k \in DOMAIN f.events : x \in DataIn(f.events[k].data, ls)
<1> DEFINE es == acc.events
           f == Flushed(acc, ls)
           n == Len(ls)
           l == Len(es)
<1>1. n \in Nat /\ i \in Nat /\ i <= n  BY LenProperties
<1>2. /\ DOMAIN acc = {"events", "type", "data"}
      /\ EventsFit(type, es, ls)
      /\ acc.type \in 0..i /\ acc.data \in Seq(1..n)
      /\ acc.data # <<>> => type = "sse" /\ ls[acc.data[1]] = "data"
      /\ \A x \in DataIn(acc.data, ls) : x <= i /\ ~\E b \in Blanks(ls) : x < b /\ b <= i
      /\ \A k \in DOMAIN es : \A x \in DataIn(es[k].data, ls) :
           /\ x <= i
           /\ \A y \in DataIn(acc.data, ls) : x < y
           /\ type = "sse" => \E b \in Blanks(ls) : x < b /\ b <= i
           /\ acc.type # 0 => x < acc.type
      /\ \A x \in 1..i : ls[x] = "data" =>
           \/ x \in DataIn(acc.data, ls)
           \/ \E k \in DOMAIN es : x \in DataIn(es[k].data, ls)
  BY DEF Gathered
<1>3. /\ es \in Seq(ParsedEvents(n)) /\ l \in Nat /\ DOMAIN es = 1..l
      /\ \A k \in DOMAIN es : es[k].data \in Seq(1..n)
  <2>1. es \in Seq(ParsedEvents(n))  BY <1>2 DEF EventsFit
  <2>2. l \in Nat /\ DOMAIN es = 1..l  BY <2>1, LenProperties
  <2>3. \A k \in DOMAIN es : es[k] \in ParsedEvents(n)  BY <2>1, <2>2, ElementOfSeq
  <2> QED  BY <2>1, <2>2, <2>3 DEF ParsedEvents
<1>4. ASSUME NEW data \in Seq(1..n), NEW x \in DataIn(data, ls) PROVE x \in 1..n
  <2>1. PICK k \in DOMAIN data : x = data[k]  BY <1>4 DEF DataIn, Range
  <2>2. k \in 1..Len(data)  BY <2>1, LenProperties
  <2> QED  BY <2>1, <2>2, ElementOfSeq
<1> HIDE DEF es, n, l
<1>5. CASE acc.data = <<>>
  <2>1. f = acc  BY <1>5 DEF Flushed
  <2>2. DataIn(acc.data, ls) = {}  BY <1>5 DEF DataIn, Range
  <2>3. \A k \in DOMAIN es : \A x \in DataIn(es[k].data, ls) : x \in 1..n  BY <1>3, <1>4
  <2> QED  BY <1>2, <1>5, <2>1, <2>2, <2>3 DEF es, n
<1>6. CASE acc.data # <<>>
  <2> DEFINE t == Trimmed(acc.data, ls)
             e == [type |-> acc.type, data |-> t]
             D == DataIn(acc.data, ls)
  <2>1. t \in Seq(1..n) /\ DataIn(t, ls) = D  BY <1>1, <1>2, <1>6, TrimmedIs DEF n
  <2>2. f = [events |-> Append(es, e), type |-> 0, data |-> <<>>]  BY <1>6 DEF Flushed, es
  <2> HIDE DEF t
  <2>3. e \in ParsedEvents(n) /\ e.type = acc.type /\ e.data = t
    BY <1>1, <1>2, <2>1 DEF ParsedEvents, n
  <2> HIDE DEF e, f
  <2> DEFINE g == Append(es, e)
  <2>4. /\ g \in Seq(ParsedEvents(n)) /\ DOMAIN g = 1..(l + 1)
        /\ \A k \in DOMAIN es : g[k] = es[k]
        /\ g[l + 1] = e
        /\ \A k \in DOMAIN g : k \in DOMAIN es \/ k = l + 1
    BY <1>3, <2>3, AppendKeeps DEF l
  <2> HIDE DEF g
  <2>5. f.events = g /\ f.type = 0 /\ f.data = <<>> /\ DOMAIN f = {"events", "type", "data"}
    BY <2>2 DEF g
  <2>6. DataIn(g[l + 1].data, ls) = D  BY <2>1, <2>3, <2>4
  <2>7. \A x \in D : x \in 1..n  BY <1>2, <1>4 DEF n
  <2>8. \A k \in DOMAIN es : \A x \in DataIn(es[k].data, ls) : x \in 1..n  BY <1>3, <1>4
  <2>9. type = "sse"  BY <1>2, <1>6
  <2>10. Blanks(ls) \subseteq Nat  BY LenProperties DEF Blanks
  <2>11. ASSUME NEW k \in DOMAIN g, NEW j \in DOMAIN g, k < j,
                NEW x \in DataIn(g[k].data, ls), NEW y \in DataIn(g[j].data, ls)
         PROVE  x < y /\ \E b \in Blanks(ls) : x < b /\ b < y
    <3>1. k \in DOMAIN es  BY <1>3, <2>4, <2>11
    <3>2. CASE j \in DOMAIN es
      <4>1. \A k1, l1 \in DOMAIN es : k1 < l1 =>
              \A x1 \in DataIn(es[k1].data, ls), y1 \in DataIn(es[l1].data, ls) :
                 x1 < y1 /\ (type = "sse" => \E b \in Blanks(ls) : x1 < b /\ b < y1)
        BY <1>2, Zenon DEF EventsFit
      <4>2. x \in DataIn(es[k].data, ls) /\ y \in DataIn(es[j].data, ls)
        BY <2>4, <2>11, <3>1, <3>2
      <4>3. x < y /\ (type = "sse" => \E b \in Blanks(ls) : x < b /\ b < y)
        BY <2>11, <3>1, <3>2, <4>1, <4>2, Zenon
      <4> QED  BY <2>9, <4>3
    <3>3. CASE j = l + 1
      <4>1. x \in DataIn(es[k].data, ls) /\ y \in D  BY <2>4, <2>6, <2>11, <3>1, <3>3
      <4>2. x < y  BY <1>2, <3>1, <4>1
      <4>3. PICK b \in Blanks(ls) : x < b /\ b <= i  BY <1>2, <2>9, <3>1, <4>1
      <4>4. ~(y < b)  BY <1>2, <4>1, <4>3
      <4>5. b # y
        <5>1. ls[b] = "blank" /\ ls[y] = "data"  BY <4>1 DEF Blanks, DataIn
        <5> QED  BY <5>1
      <4>6. b < y  BY <2>7, <2>10, <4>1, <4>4, <4>5
      <4> QED  BY <4>2, <4>3, <4>6
    <3> QED  BY <2>4, <3>2, <3>3
  <2>12. ASSUME NEW k \in DOMAIN g, NEW x \in DataIn(g[k].data, ls), NEW y \in DataIn(g[k].data, ls)
         PROVE  ~\E b \in Blanks(ls) : x < b /\ b < y
    <3>1. CASE k \in DOMAIN es  BY <1>2, <2>4, <2>9, <2>12, <3>1 DEF EventsFit
    <3>2. CASE k = l + 1
      <4>1. x \in D /\ y \in D  BY <2>6, <2>12, <3>2
      <4>2. SUFFICES ASSUME NEW b \in Blanks(ls), x < b, b < y PROVE FALSE  OBVIOUS
      <4>3. y <= i /\ y \in Nat /\ b \in Nat  BY <1>1, <1>2, <2>7, <2>10, <4>1
      <4>4. b <= i  BY <1>1, <4>2, <4>3
      <4> QED  BY <1>2, <4>1, <4>2, <4>4
    <3> QED  BY <2>4, <3>1, <3>2
  <2>13. ASSUME NEW k \in DOMAIN g, g[k].type # 0, NEW j \in 1..(k - 1),
                NEW x \in DataIn(g[j].data, ls)
         PROVE  x < g[k].type
    <3>1. j \in DOMAIN es  BY <1>3, <2>4, <2>13
    <3>2. x \in DataIn(es[j].data, ls)  BY <2>4, <2>13, <3>1
    <3>3. CASE k \in DOMAIN es  BY <1>2, <2>4, <2>13, <3>2, <3>3 DEF EventsFit
    <3>4. CASE k = l + 1  BY <1>2, <2>3, <2>4, <2>13, <3>1, <3>2, <3>4
    <3> QED  BY <2>4, <3>3, <3>4
  <2>14. EventsFit(type, g, ls)
    <3>1. \A k, j \in DOMAIN g : k < j =>
            \A x \in DataIn(g[k].data, ls), y \in DataIn(g[j].data, ls) :
               x < y /\ (type = "sse" => \E b \in Blanks(ls) : x < b /\ b < y)
      BY <2>11, Zenon
    <3>2. \A k \in DOMAIN g : \A x, y \in DataIn(g[k].data, ls) :
            ~\E b \in Blanks(ls) : x < b /\ b < y
      BY <2>12, Zenon
    <3>3. \A k \in DOMAIN g : g[k].type # 0 =>
            \A j \in 1..(k - 1) : \A x \in DataIn(g[j].data, ls) : x < g[k].type
      BY <2>13, Zenon
    <3> QED  BY <2>4, <3>1, <3>2, <3>3, Zenon DEF EventsFit, n
  <2>15. \A k \in DOMAIN g : \A x \in DataIn(g[k].data, ls) : x <= i /\ x \in 1..n
    <3> SUFFICES ASSUME NEW k \in DOMAIN g, NEW x \in DataIn(g[k].data, ls)
                 PROVE  x <= i /\ x \in 1..n
      OBVIOUS
    <3>1. CASE k \in DOMAIN es  BY <1>2, <2>4, <2>8, <3>1
    <3>2. CASE k = l + 1  BY <1>2, <2>6, <2>7, <3>2
    <3> QED  BY <2>4, <3>1, <3>2
  <2>16. ASSUME NEW x \in 1..i, ls[x] = "data"
         PROVE  \E k \in DOMAIN g : x \in DataIn(g[k].data, ls)
    <3>1. CASE x \in D
      <4>1. l + 1 \in DOMAIN g  BY <1>3, <2>4
      <4> QED  BY <2>6, <3>1, <4>1
    <3>2. CASE \E k \in DOMAIN es : x \in DataIn(es[k].data, ls)
      <4>1. PICK k \in DOMAIN es : x \in DataIn(es[k].data, ls)  BY <3>2
      <4>2. k \in DOMAIN g  BY <1>3, <2>4, <4>1
      <4> QED  BY <2>4, <4>1, <4>2
    <3> QED  BY <1>2, <2>16, <3>1, <3>2
  <2> QED  BY <1>1, <1>6, <2>5, <2>14, <2>15, <2>16 DEF n, f
<1> QED  BY <1>5, <1>6

\* What Gathered says, with the ranges of what it speaks of.
GatheredWell(type, acc, ls, i) ==
    /\ Len(ls) \in Nat /\ i \in Nat /\ DOMAIN ls = 1..Len(ls) /\ Blanks(ls) \subseteq 1..Len(ls)
    /\ DOMAIN acc = {"events", "type", "data"}
    /\ EventsFit(type, acc.events, ls)
    /\ acc.events \in Seq(ParsedEvents(Len(ls)))
    /\ acc.type \in 0..i /\ acc.data \in Seq(1..Len(ls))
    /\ acc.data # <<>> => type = "sse" /\ ls[acc.data[1]] = "data"
    /\ \A x \in DataIn(acc.data, ls) :
         /\ x \in 1..Len(ls) /\ x <= i /\ ls[x] = "data"
         /\ \A b \in Blanks(ls) : ~(x < b /\ b <= i)
    /\ \A k \in DOMAIN acc.events : \A x \in DataIn(acc.events[k].data, ls) :
         /\ x \in 1..Len(ls) /\ x <= i /\ ls[x] = "data"
         /\ \A y \in DataIn(acc.data, ls) : x < y
         /\ type = "sse" => \E b \in Blanks(ls) : x < b /\ b <= i
         /\ acc.type # 0 => x < acc.type
    /\ \A x \in 1..i : ls[x] = "data" =>
         \/ x \in DataIn(acc.data, ls)
         \/ \E k \in DOMAIN acc.events : x \in DataIn(acc.events[k].data, ls)

LEMMA GatheredIs ==
    ASSUME NEW ls \in Seq(LineKinds), NEW type, NEW acc, NEW i \in 0..Len(ls),
           Gathered(type, acc, ls, i)
    PROVE  GatheredWell(type, acc, ls, i)
<1>1. Len(ls) \in Nat /\ i \in Nat /\ DOMAIN ls = 1..Len(ls)  BY LenProperties
<1>2. Blanks(ls) \subseteq 1..Len(ls)  BY <1>1 DEF Blanks
<1>3. acc.events \in Seq(ParsedEvents(Len(ls))) /\ acc.data \in Seq(1..Len(ls))
  BY DEF Gathered, EventsFit
<1>4. ASSUME NEW data \in Seq(1..Len(ls)), NEW x \in DataIn(data, ls)
      PROVE  x \in 1..Len(ls) /\ ls[x] = "data"
  <2>1. PICK k \in DOMAIN data : x = data[k] /\ ls[x] = "data"  BY <1>4 DEF DataIn, Range
  <2>2. k \in 1..Len(data)  BY <2>1, LenProperties
  <2> QED  BY <2>1, <2>2, ElementOfSeq
<1>5. \A k \in DOMAIN acc.events : acc.events[k].data \in Seq(1..Len(ls))
  <2>1. \A k \in DOMAIN acc.events : acc.events[k] \in ParsedEvents(Len(ls))
    BY <1>3, LenProperties, ElementOfSeq
  <2> QED  BY <2>1 DEF ParsedEvents
<1> QED  BY <1>1, <1>2, <1>3, <1>4, <1>5 DEF Gathered, GatheredWell

\* A line that is no data, and closes no group that is open.
LEMMA OtherLine ==
    ASSUME NEW ls \in Seq(LineKinds), NEW type, NEW acc, NEW i \in 1..Len(ls),
           Gathered(type, acc, ls, i - 1), ls[i] # "data", ls[i] = "blank" => acc.data = <<>>
    PROVE  Gathered(type, acc, ls, i)
<1>1. Len(ls) \in Nat /\ i \in Nat /\ i - 1 \in 0..Len(ls)  BY LenProperties
<1>2. GatheredWell(type, acc, ls, i - 1)  BY <1>1, GatheredIs
<1>3. \A x \in DataIn(acc.data, ls) : x <= i /\ ~\E b \in Blanks(ls) : x < b /\ b <= i
  <2> SUFFICES ASSUME NEW x \in DataIn(acc.data, ls)
               PROVE  x <= i /\ \A b \in Blanks(ls) : ~(x < b /\ b <= i)
    OBVIOUS
  <2>1. x <= i  BY <1>1, <1>2 DEF GatheredWell
  <2>2. acc.data # <<>>  BY DEF DataIn, Range
  <2>3. ASSUME NEW b \in Blanks(ls), x < b, b <= i PROVE FALSE
    <3>1. b # i  BY <2>2 DEF Blanks
    <3>2. b <= i - 1  BY <1>1, <1>2, <2>3, <3>1 DEF GatheredWell
    <3> QED  BY <1>2, <2>3, <3>2 DEF GatheredWell
  <2> QED  BY <2>1, <2>3
<1>4. \A k \in DOMAIN acc.events : \A x \in DataIn(acc.events[k].data, ls) :
        /\ x <= i
        /\ \A y \in DataIn(acc.data, ls) : x < y
        /\ type = "sse" => \E b \in Blanks(ls) : x < b /\ b <= i
        /\ acc.type # 0 => x < acc.type
  <2> SUFFICES ASSUME NEW k \in DOMAIN acc.events, NEW x \in DataIn(acc.events[k].data, ls)
               PROVE  /\ x <= i
                      /\ \A y \in DataIn(acc.data, ls) : x < y
                      /\ type = "sse" => \E b \in Blanks(ls) : x < b /\ b <= i
                      /\ acc.type # 0 => x < acc.type
    OBVIOUS
  <2>1. \A b \in Blanks(ls) : b <= i - 1 => b <= i  BY <1>1, <1>2 DEF GatheredWell
  <2>2. x \in 1..Len(ls) /\ x <= i - 1  BY <1>2 DEF GatheredWell
  <2>3. x <= i  BY <1>1, <2>2
  <2> QED  BY <1>2, <2>1, <2>3 DEF GatheredWell
<1>5. \A x \in 1..i : ls[x] = "data" =>
         \/ x \in DataIn(acc.data, ls)
         \/ \E k \in DOMAIN acc.events : x \in DataIn(acc.events[k].data, ls)
  <2>1. \A x \in 1..i : ls[x] = "data" => x \in 1..(i - 1)  BY <1>1
  <2> QED  BY <1>2, <2>1 DEF GatheredWell
<1>6. acc.type \in 0..i  BY <1>1, <1>2 DEF GatheredWell
<1> QED  BY <1>2, <1>3, <1>4, <1>5, <1>6 DEF GatheredWell, Gathered

\* Its type, or a line without content, changes neither the events nor the data.
LEMMA BesideData ==
    ASSUME NEW ls \in Seq(LineKinds), NEW type, NEW acc, NEW q, NEW i \in 1..Len(ls),
           Gathered(type, acc, ls, i), ls[i] # "data",
           DOMAIN q = {"events", "type", "data"},
           q.events = acc.events, q.type \in {acc.type, i},
           q.data \in Seq(1..Len(ls)), DataIn(q.data, ls) = DataIn(acc.data, ls),
           q.data # <<>> => type = "sse" /\ ls[q.data[1]] = "data"
    PROVE  Gathered(type, q, ls, i)
<1>1. GatheredWell(type, acc, ls, i) /\ i \in Nat
  <2>1. i \in 0..Len(ls) /\ i \in Nat  BY LenProperties
  <2> QED  BY <2>1, GatheredIs
<1>2. \A k \in DOMAIN acc.events : \A x \in DataIn(acc.events[k].data, ls) : q.type # 0 => x < q.type
  <2> SUFFICES ASSUME NEW k \in DOMAIN acc.events, NEW x \in DataIn(acc.events[k].data, ls), q.type # 0
               PROVE  x < q.type
    OBVIOUS
  <2>1. x \in 1..Len(ls) /\ x <= i /\ ls[x] = "data" /\ (acc.type # 0 => x < acc.type)
    BY <1>1 DEF GatheredWell
  <2>2. x # i  BY <2>1
  <2>3. x \in Nat  BY <2>1
  <2>4. x < i  BY <1>1, <2>1, <2>2, <2>3
  <2> QED  BY <2>1, <2>4
<1>3. q.type \in 0..i  BY <1>1 DEF GatheredWell
<1> QED  BY <1>1, <1>2, <1>3 DEF Gathered, GatheredWell

\* An empty line closes the group: nothing is open after it.
LEMMA BlankFits ==
    ASSUME NEW ls \in Seq(LineKinds), NEW acc, NEW i \in 1..Len(ls),
           Gathered("sse", acc, ls, i - 1), ls[i] = "blank"
    PROVE  Gathered("sse", Flushed(acc, ls), ls, i)
<1> DEFINE f == Flushed(acc, ls)
<1>1. Len(ls) \in Nat /\ i \in Nat /\ i - 1 \in 0..Len(ls) /\ DOMAIN ls = 1..Len(ls)
  BY LenProperties
<1>2. CASE acc.data = <<>>
  <2>1. f = acc  BY <1>2 DEF Flushed
  <2> QED  BY <1>2, <2>1, OtherLine
<1>3. CASE acc.data # <<>>
  <2>1. /\ DOMAIN f = {"events", "type", "data"} /\ f.data = <<>>
        /\ f.type = 0
        /\ EventsFit("sse", f.events, ls)
        /\ \A k \in DOMAIN f.events : \A x \in DataIn(f.events[k].data, ls) :
             x <= i - 1 /\ x \in 1..Len(ls)
        /\ \A x \in 1..(i - 1) : ls[x] = "data" =>
             \E k \in DOMAIN f.events : x \in DataIn(f.events[k].data, ls)
    BY <1>1, <1>3, FlushFits, Zenon
  <2> HIDE DEF f
  <2>2. DataIn(f.data, ls) = {}  BY <2>1 DEF DataIn, Range
  <2>3. i \in Blanks(ls)  BY <1>1 DEF Blanks
  <2>4. \A k \in DOMAIN f.events : \A x \in DataIn(f.events[k].data, ls) :
           x <= i /\ \E b \in Blanks(ls) : x < b /\ b <= i
    <3> SUFFICES ASSUME NEW k \in DOMAIN f.events, NEW x \in DataIn(f.events[k].data, ls)
                 PROVE  x <= i /\ x < i /\ i <= i
      BY <2>3
    <3>1. x <= i - 1 /\ x \in 1..Len(ls)  BY <2>1
    <3> QED  BY <1>1, <3>1
  <2>5. ASSUME NEW x \in 1..i, ls[x] = "data"
        PROVE  \E k \in DOMAIN f.events : x \in DataIn(f.events[k].data, ls)
    <3>1. x # i  BY <2>5
    <3>2. x \in 1..(i - 1)  BY <1>1, <3>1
    <3> QED  BY <2>1, <2>5, <3>2
  <2>6. f.type \in 0..i /\ f.data \in Seq(1..Len(ls))  BY <1>1, <2>1
  <2>7. \A k \in DOMAIN f.events : \A x \in DataIn(f.events[k].data, ls) :
          /\ x <= i
          /\ \A y \in DataIn(f.data, ls) : x < y
          /\ "sse" = "sse" => \E b \in Blanks(ls) : x < b /\ b <= i
          /\ f.type # 0 => x < f.type
    BY <2>1, <2>2, <2>4
  <2>8. \A x \in 1..i : ls[x] = "data" =>
          \/ x \in DataIn(f.data, ls)
          \/ \E k \in DOMAIN f.events : x \in DataIn(f.events[k].data, ls)
    BY <2>5
  <2>9. \A x \in DataIn(f.data, ls) : x <= i /\ ~\E b \in Blanks(ls) : x < b /\ b <= i  BY <2>2
  <2>10. f.data # <<>> => "sse" = "sse" /\ ls[f.data[1]] = "data"  BY <2>1
  <2>11. Gathered("sse", f, ls, i)
    BY <2>1, <2>6, <2>7, <2>8, <2>9, <2>10, Zenon DEF Gathered
  <2> QED  BY <2>11 DEF f
<1> QED  BY <1>2, <1>3

\* A line of data is one more of the group that is open, or opens one.
LEMMA DataFits ==
    ASSUME NEW ls \in Seq(LineKinds), NEW acc, NEW i \in 1..Len(ls),
           Gathered("sse", acc, ls, i - 1), ls[i] = "data"
    PROVE  Gathered("sse", [acc EXCEPT !.data = Append(@, i)], ls, i)
<1> DEFINE q == [acc EXCEPT !.data = Append(@, i)]
           D == DataIn(acc.data, ls)
           n == Len(ls)
<1>1. n \in Nat /\ i \in Nat /\ i - 1 \in 0..n  BY LenProperties
<1>2. GatheredWell("sse", acc, ls, i - 1)  BY <1>1, GatheredIs
<1>3. acc.data \in Seq(1..n) /\ DOMAIN acc = {"events", "type", "data"}  BY <1>2 DEF GatheredWell
<1>4. /\ DOMAIN q = {"events", "type", "data"} /\ q.events = acc.events /\ q.type = acc.type
      /\ q.data = Append(acc.data, i)
  BY <1>3
<1> HIDE DEF q, n
<1>5. /\ q.data \in Seq(1..n) /\ DOMAIN q.data = 1..(Len(acc.data) + 1)
      /\ \A k \in DOMAIN acc.data : q.data[k] = acc.data[k]
      /\ q.data[Len(acc.data) + 1] = i
      /\ \A k \in DOMAIN q.data : k \in DOMAIN acc.data \/ k = Len(acc.data) + 1
  BY <1>3, <1>4, AppendKeeps DEF n
<1>6. Len(acc.data) \in Nat /\ DOMAIN acc.data = 1..Len(acc.data)  BY <1>3, LenProperties
<1>7. DataIn(q.data, ls) = D \cup {i}
  <2>1. ASSUME NEW x \in DataIn(q.data, ls) PROVE x \in D \cup {i}
    <3>1. PICK k \in DOMAIN q.data : x = q.data[k] /\ ls[x] = "data"  BY <2>1 DEF DataIn, Range
    <3>2. CASE k \in DOMAIN acc.data  BY <1>5, <3>1, <3>2 DEF DataIn, Range
    <3>3. CASE k = Len(acc.data) + 1  BY <1>5, <3>1, <3>3
    <3> QED  BY <1>5, <3>1, <3>2, <3>3
  <2>2. ASSUME NEW x \in D PROVE x \in DataIn(q.data, ls)
    <3>1. PICK k \in DOMAIN acc.data : x = acc.data[k] /\ ls[x] = "data"  BY <2>2 DEF DataIn, Range
    <3>2. k \in DOMAIN q.data  BY <1>5, <1>6, <3>1
    <3> QED  BY <1>5, <3>1, <3>2 DEF DataIn, Range
  <2>3. i \in DataIn(q.data, ls)
    <3>1. Len(acc.data) + 1 \in DOMAIN q.data  BY <1>5, <1>6
    <3> QED  BY <1>5, <3>1 DEF DataIn, Range
  <2> QED  BY <2>1, <2>2, <2>3
<1> HIDE DEF D
<1>8. q.data # <<>> => ls[q.data[1]] = "data"
  <2>1. CASE acc.data = <<>>  BY <1>5, <2>1
  <2>2. CASE acc.data # <<>>
    <3>1. 1 \in DOMAIN acc.data  BY <1>6, <2>2, <1>3, EmptySeq
    <3> QED  BY <1>2, <1>5, <2>2, <3>1 DEF GatheredWell
  <2> QED  BY <2>1, <2>2
<1>9. ASSUME NEW x \in D \cup {i} PROVE x <= i /\ ~\E b \in Blanks(ls) : x < b /\ b <= i
  <2>1. ASSUME NEW b \in Blanks(ls), x < b, b <= i PROVE FALSE
    <3>1. b # i /\ b \in Nat  BY <1>2 DEF Blanks, GatheredWell
    <3>2. b <= i - 1  BY <1>1, <2>1, <3>1
    <3>3. CASE x \in D  BY <1>2, <2>1, <3>2, <3>3 DEF GatheredWell, D
    <3>4. CASE x = i  BY <1>1, <2>1, <3>1, <3>2, <3>4
    <3> QED  BY <3>3, <3>4
  <2>2. x <= i
    <3>1. CASE x \in D
      <4>1. x \in 1..n /\ x <= i - 1  BY <1>2, <3>1 DEF GatheredWell, D, n
      <4> QED  BY <1>1, <4>1
    <3>2. CASE x = i  BY <1>1, <3>2
    <3> QED  BY <3>1, <3>2
  <2> QED  BY <2>1, <2>2
<1>10. ASSUME NEW k \in DOMAIN acc.events, NEW x \in DataIn(acc.events[k].data, ls)
       PROVE  /\ x <= i
              /\ \A y \in D \cup {i} : x < y
              /\ \E b \in Blanks(ls) : x < b /\ b <= i
              /\ acc.type # 0 => x < acc.type
  <2>1. /\ x \in 1..n /\ x <= i - 1 /\ \A y \in D : x < y
        /\ \E b \in Blanks(ls) : x < b /\ b <= i - 1
        /\ acc.type # 0 => x < acc.type
    BY <1>2 DEF GatheredWell, D, n
  <2>2. x <= i /\ x < i  BY <1>1, <2>1
  <2>3. PICK b \in Blanks(ls) : x < b /\ b <= i - 1  BY <2>1
  <2>4. b \in Nat  BY <1>2 DEF GatheredWell
  <2>5. b <= i  BY <1>1, <2>3, <2>4
  <2> QED  BY <2>1, <2>2, <2>3, <2>5
<1>11. ASSUME NEW x \in 1..i, ls[x] = "data"
       PROVE  x \in D \cup {i} \/ \E k \in DOMAIN acc.events : x \in DataIn(acc.events[k].data, ls)
  <2>1. x = i \/ x \in 1..(i - 1)  BY <1>1
  <2> QED  BY <1>2, <1>11, <2>1 DEF GatheredWell, D
<1>12. acc.type \in 0..i /\ EventsFit("sse", acc.events, ls)  BY <1>1, <1>2 DEF GatheredWell
<1>13. Gathered("sse", q, ls, i)
  BY <1>4, <1>5, <1>7, <1>8, <1>9, <1>10, <1>11, <1>12 DEF Gathered, n
<1> QED  BY <1>13 DEF q

\* Of newline-delimited JSON a line of data is an event of its own.
LEMMA NdjsonFits ==
    ASSUME NEW ls \in Seq(LineKinds), NEW acc, NEW i \in 1..Len(ls),
           Gathered("ndjson", acc, ls, i - 1), acc.type = 0, ls[i] = "data"
    PROVE  Gathered("ndjson", [acc EXCEPT !.events = Append(@, [type |-> 0, data |-> <<i>>])], ls, i)
<1> DEFINE e == [type |-> 0, data |-> <<i>>]
           q == [acc EXCEPT !.events = Append(@, e)]
           es == acc.events
           n == Len(ls)
           l == Len(es)
<1>1. n \in Nat /\ i \in 1..n /\ i - 1 \in 0..n  BY LenProperties
<1>2. GatheredWell("ndjson", acc, ls, i - 1)  BY <1>1, GatheredIs
<1>3. acc.data = <<>>  BY <1>2 DEF GatheredWell
<1>4. DataIn(acc.data, ls) = {}  BY <1>3 DEF DataIn, Range
<1>5. es \in Seq(ParsedEvents(n)) /\ DOMAIN acc = {"events", "type", "data"} /\ acc.type \in 0..(i - 1)
  BY <1>2 DEF GatheredWell
<1>6. e \in ParsedEvents(n) /\ e.type = 0 /\ e.data = <<i>>  BY <1>1 DEF ParsedEvents
<1>7. DataIn(e.data, ls) = {i}
  <2>1. DOMAIN <<i>> = {1} /\ <<i>>[1] = i  OBVIOUS
  <2> QED  BY <1>6, <2>1 DEF DataIn, Range
<1>8. /\ DOMAIN q = {"events", "type", "data"} /\ q.events = Append(es, e)
      /\ q.type = acc.type /\ q.data = <<>>
  BY <1>3, <1>5
<1> HIDE DEF q, e, n, l
<1> DEFINE g == Append(es, e)
<1>9. /\ g \in Seq(ParsedEvents(n)) /\ DOMAIN g = 1..(l + 1) /\ l \in Nat /\ DOMAIN es = 1..l
      /\ \A k \in DOMAIN es : g[k] = es[k]
      /\ g[l + 1] = e
      /\ \A k \in DOMAIN g : k \in DOMAIN es \/ k = l + 1
  BY <1>5, <1>6, AppendKeeps DEF l
<1> HIDE DEF g, es
<1>10. ASSUME NEW k \in DOMAIN es, NEW x \in DataIn(es[k].data, ls)
       PROVE  x \in 1..n /\ x <= i - 1 /\ x < i /\ x <= i /\ (acc.type # 0 => x < acc.type)
  <2>1. x \in 1..n /\ x <= i - 1 /\ (acc.type # 0 => x < acc.type)
    BY <1>2 DEF GatheredWell, n, es
  <2> QED  BY <1>1, <2>1
<1>11. EventsFit("ndjson", es, ls)  BY <1>2 DEF GatheredWell, es
<1>12. ASSUME NEW k \in DOMAIN g, NEW j \in DOMAIN g, k < j,
              NEW x \in DataIn(g[k].data, ls), NEW y \in DataIn(g[j].data, ls)
       PROVE  x < y
  <2>1. k \in DOMAIN es  BY <1>9, <1>12
  <2>2. x \in DataIn(es[k].data, ls)  BY <1>9, <1>12, <2>1
  <2>3. CASE j \in DOMAIN es
    <3>1. y \in DataIn(es[j].data, ls)  BY <1>9, <1>12, <2>3
    <3> QED  BY <1>11, <1>12, <2>1, <2>2, <2>3, <3>1 DEF EventsFit
  <2>4. CASE j = l + 1  BY <1>7, <1>9, <1>10, <1>12, <2>1, <2>2, <2>4
  <2> QED  BY <1>9, <2>3, <2>4
<1>13. \A k \in DOMAIN g : g[k].type # 0 =>
          \A j \in 1..(k - 1) : \A x \in DataIn(g[j].data, ls) : x < g[k].type
  <2> SUFFICES ASSUME NEW k \in DOMAIN g, g[k].type # 0, NEW j \in 1..(k - 1),
                      NEW x \in DataIn(g[j].data, ls)
               PROVE  x < g[k].type
    OBVIOUS
  <2>1. k \in DOMAIN es  BY <1>6, <1>9
  <2>2. j \in DOMAIN es  BY <1>9, <2>1
  <2> QED  BY <1>9, <1>11, <2>1, <2>2 DEF EventsFit
<1>14. EventsFit("ndjson", g, ls)
  <2>1. "ndjson" # "sse"  OBVIOUS
  <2> QED  BY <1>9, <1>12, <1>13, <2>1 DEF EventsFit, n
<1>15. ASSUME NEW x \in 1..i, ls[x] = "data"
       PROVE  \E k \in DOMAIN g : x \in DataIn(g[k].data, ls)
  <2>1. CASE x = i
    <3>1. l + 1 \in DOMAIN g  BY <1>9
    <3> QED  BY <1>7, <1>9, <2>1, <3>1
  <2>2. CASE x \in 1..(i - 1)
    <3>1. PICK k \in DOMAIN es : x \in DataIn(es[k].data, ls)
      BY <1>2, <1>4, <1>15, <2>2 DEF GatheredWell, es
    <3>2. k \in DOMAIN g  BY <1>9, <3>1
    <3> QED  BY <1>9, <3>1, <3>2
  <2>3. x = i \/ x \in 1..(i - 1)  BY <1>1
  <2> QED  BY <2>1, <2>2, <2>3
<1>16. ASSUME NEW k \in DOMAIN g, NEW x \in DataIn(g[k].data, ls) PROVE x <= i
  <2>1. CASE k \in DOMAIN es  BY <1>9, <1>10, <1>16, <2>1
  <2>2. CASE k = l + 1
    <3>1. x = i  BY <1>7, <1>9, <1>16, <2>2
    <3> QED  BY <1>1, <3>1
  <2> QED  BY <1>9, <2>1, <2>2
<1>17. q.events = g  BY <1>8 DEF g, es
<1>18. DataIn(q.data, ls) = {} /\ q.type = 0 /\ q.data \in Seq(1..n) /\ q.type \in 0..i
  BY <1>1, <1>4, <1>3, <1>8
<1>19. Gathered("ndjson", q, ls, i)
  <2>1. "ndjson" # "sse"  OBVIOUS
  <2> QED  BY <1>8, <1>14, <1>15, <1>16, <1>17, <1>18, <2>1 DEF Gathered, n
<1> QED  BY <1>19 DEF q, e

\* Whatever the line, what there is after it is gathered.
LEMMA LineFits ==
    ASSUME NEW ls \in Seq(LineKinds), NEW type \in {"sse", "ndjson"}, NEW acc, NEW i \in 1..Len(ls),
           Gathered(type, acc, ls, i - 1), type = "ndjson" => acc.type = 0
    PROVE  LET q == LineRead(type, acc, i, ls)
           IN Gathered(type, q, ls, i) /\ (type = "ndjson" => q.type = 0)
<1>1. Len(ls) \in Nat /\ i \in 1..Len(ls) /\ i \in Nat /\ i - 1 \in 0..Len(ls) /\ DOMAIN ls = 1..Len(ls)
  BY LenProperties
<1>2. GatheredWell(type, acc, ls, i - 1)  BY <1>1, GatheredIs
<1>3. DOMAIN acc = {"events", "type", "data"} /\ acc.data \in Seq(1..Len(ls)) /\ acc.type \in 0..(i - 1)
  BY <1>2 DEF GatheredWell
<1>4. CASE type = "ndjson"
  <2>1. acc.data = <<>>  BY <1>2, <1>4 DEF GatheredWell
  <2>2. LineRead(type, acc, i, ls) = NdjsonLine(acc, i, ls)  BY <1>4 DEF LineRead
  <2>3. CASE ls[i] = "data"
    <3>1. LineRead(type, acc, i, ls) = [acc EXCEPT !.events = Append(@, [type |-> 0, data |-> <<i>>])]
      BY <2>2, <2>3 DEF NdjsonLine
    <3>2. Gathered("ndjson", LineRead(type, acc, i, ls), ls, i)  BY <1>4, <2>3, <3>1, NdjsonFits
    <3>3. LineRead(type, acc, i, ls).type = acc.type  BY <1>3, <3>1
    <3> QED  BY <1>4, <3>2, <3>3
  <2>4. CASE ls[i] # "data"
    <3>1. LineRead(type, acc, i, ls) = acc  BY <2>2, <2>4 DEF NdjsonLine
    <3> QED  BY <1>4, <2>1, <2>4, <3>1, OtherLine
  <2> QED  BY <2>3, <2>4
<1>5. CASE type = "sse"
  <2> DEFINE q == SseLine(acc, i, ls)
  <2>1. LineRead(type, acc, i, ls) = q  BY <1>5 DEF LineRead
  <2> SUFFICES Gathered("sse", q, ls, i)  BY <1>5, <2>1
  <2>2. CASE ls[i] = "blank"
    <3>1. q = Flushed(acc, ls)  BY <2>2 DEF SseLine
    <3> QED  BY <1>5, <2>2, <3>1, BlankFits
  <2>3. CASE ls[i] = "data"
    <3>1. q = [acc EXCEPT !.data = Append(@, i)]  BY <2>3 DEF SseLine
    <3> QED  BY <1>5, <2>3, <3>1, DataFits
  <2>4. CASE ls[i] = "void" /\ acc.data # <<>>
    <3> DEFINE d == acc.data
    <3>1. q = [acc EXCEPT !.data = Append(@, i)]  BY <2>4 DEF SseLine
    <3>2. DOMAIN q = {"events", "type", "data"} /\ q.events = acc.events /\ q.type = acc.type
          /\ q.data = Append(d, i)
      BY <1>3, <3>1
    <3>3. /\ q.data \in Seq(1..Len(ls)) /\ DOMAIN q.data = 1..(Len(d) + 1)
          /\ DOMAIN d = 1..Len(d) /\ Len(d) \in Nat
          /\ \A k \in DOMAIN d : q.data[k] = d[k]
          /\ q.data[Len(d) + 1] = i
          /\ \A k \in DOMAIN q.data : k \in DOMAIN d \/ k = Len(d) + 1
      BY <1>1, <1>3, <3>2, AppendKeeps
    <3> HIDE DEF q
    <3>4. DataIn(q.data, ls) = DataIn(d, ls)
      <4>1. ASSUME NEW x \in DataIn(q.data, ls) PROVE x \in DataIn(d, ls)
        <5>1. PICK k \in DOMAIN q.data : x = q.data[k] /\ ls[x] = "data"  BY <4>1 DEF DataIn, Range
        <5>2. k # Len(d) + 1  BY <2>4, <3>3, <5>1
        <5> QED  BY <3>3, <5>1, <5>2 DEF DataIn, Range
      <4>2. ASSUME NEW x \in DataIn(d, ls) PROVE x \in DataIn(q.data, ls)
        <5>1. PICK k \in DOMAIN d : x = d[k] /\ ls[x] = "data"  BY <4>2 DEF DataIn, Range
        <5>2. k \in DOMAIN q.data  BY <3>3, <5>1
        <5> QED  BY <3>3, <5>1, <5>2 DEF DataIn, Range
      <4> QED  BY <4>1, <4>2
    <3>5. ls[q.data[1]] = "data"
      <4>1. 1 \in DOMAIN d  BY <1>3, <2>4, <3>3, EmptySeq
      <4> QED  BY <1>2, <2>4, <3>3, <4>1 DEF GatheredWell
    <3>6. Gathered(type, acc, ls, i)  BY <2>4, OtherLine
    <3> QED  BY <1>5, <2>4, <3>2, <3>3, <3>4, <3>5, <3>6, BesideData
  <2>5. CASE ls[i] = "event"
    <3>1. q = [acc EXCEPT !.type = i]  BY <2>5 DEF SseLine
    <3>2. DOMAIN q = {"events", "type", "data"} /\ q.events = acc.events /\ q.type = i
          /\ q.data = acc.data
      BY <1>3, <3>1
    <3> HIDE DEF q
    <3>3. Gathered(type, acc, ls, i)  BY <2>5, OtherLine
    <3>4. q.data # <<>> => type = "sse" /\ ls[q.data[1]] = "data"  BY <1>2, <3>2 DEF GatheredWell
    <3> QED  BY <1>3, <1>5, <2>5, <3>2, <3>3, <3>4, BesideData
  <2>6. CASE ls[i] \notin {"blank", "data", "event"} /\ ~(ls[i] = "void" /\ acc.data # <<>>)
    <3>1. q = acc  BY <2>6 DEF SseLine
    <3> QED  BY <1>5, <2>6, <3>1, OtherLine
  <2> QED  BY <2>2, <2>3, <2>4, <2>5, <2>6
<1> QED  BY <1>4, <1>5

\* Line after line, so all that has been read is gathered: were there a number of
\* lines after which it is not, there would be a least one.
LEMMA ReadGathered ==
    ASSUME NEW ls \in Seq(LineKinds), NEW type \in {"sse", "ndjson"}
    PROVE  \A i \in 0..Len(ls) :
             LET q == LinesRead(type, ls)[i]
             IN Gathered(type, q, ls, i) /\ (type = "ndjson" => q.type = 0)
<1> DEFINE R == LinesRead(type, ls)
           Fits(i) == Gathered(type, R[i], ls, i) /\ (type = "ndjson" => R[i].type = 0)
           T == {i \in 0..Len(ls) : ~Fits(i)}
<1>1. Len(ls) \in Nat  BY LenProperties
<1>2. R[0] = [events |-> <<>>, type |-> 0, data |-> <<>>]
      /\ \A i \in 1..Len(ls) : R[i] = LineRead(type, R[i - 1], i, ls)
  BY <1>1, ReadIs
<1> HIDE DEF R
<1>3. Fits(0)
  <2>1. R[0].events = <<>> /\ R[0].type = 0 /\ R[0].data = <<>>
        /\ DOMAIN R[0] = {"events", "type", "data"}
    BY <1>2
  <2>2. DataIn(<<>>, ls) = {} /\ DOMAIN <<>> = {}  BY DEF DataIn, Range
  <2>3. EventsFit(type, <<>>, ls)
    <3>1. <<>> \in Seq(ParsedEvents(Len(ls)))  BY EmptySeq
    <3> QED  BY <2>2, <3>1 DEF EventsFit
  <2>4. <<>> \in Seq(1..Len(ls)) /\ 0 \in 0..0 /\ 1..0 = {}  BY EmptySeq
  <2> QED  BY <2>1, <2>2, <2>3, <2>4 DEF Gathered
<1>4. T = {}
  <2>1. SUFFICES ASSUME T # {} PROVE FALSE  OBVIOUS
  <2>2. T \subseteq Nat  BY <1>1
  <2>3. PICK i \in T : \A k \in T : i <= k  BY <2>1, <2>2, LeastNumber
  <2>4. i \in 0..Len(ls) /\ ~Fits(i)  BY <2>3
  <2> HIDE DEF Fits
  <2>5. i # 0  BY <1>3, <2>4
  <2>6. i \in 1..Len(ls) /\ i - 1 \in 0..Len(ls) /\ ~(i <= i - 1)  BY <1>1, <2>4, <2>5
  <2>7. i - 1 \notin T  BY <2>3, <2>6
  <2>8. Fits(i - 1)  BY <2>6, <2>7
  <2>9. Gathered(type, R[i - 1], ls, i - 1) /\ (type = "ndjson" => R[i - 1].type = 0)
    BY <2>8 DEF Fits
  <2>10. R[i] = LineRead(type, R[i - 1], i, ls)  BY <1>2, <2>6
  <2>11. Gathered(type, R[i], ls, i) /\ (type = "ndjson" => R[i].type = 0)
    BY <2>6, <2>9, <2>10, LineFits
  <2> QED  BY <2>4, <2>11 DEF Fits
<1> QED  BY <1>4 DEF R

\* The events of a stream: in order, and every line of data in one.
LEMMA StreamFits ==
    ASSUME NEW a, a.doc.lines \in Seq(LineKinds), a.type \in {"sse", "ndjson"}
    PROVE  /\ EventsFit(a.type, Events(a), a.doc.lines)
           /\ \A x \in DOMAIN a.doc.lines : a.doc.lines[x] = "data" =>
                \E k \in DOMAIN Events(a) : x \in DataIn(Events(a)[k].data, a.doc.lines)
<1> DEFINE ls == a.doc.lines
           n == Len(ls)
           q == LinesRead(a.type, ls)[n]
<1>1. n \in Nat /\ n \in 0..n /\ DOMAIN ls = 1..n  BY LenProperties
<1>2. Gathered(a.type, q, ls, n)  BY <1>1, ReadGathered
<1>3. CASE a.type = "sse"
  <2>1. Events(a) = Flushed(q, ls).events  BY <1>3 DEF Events, ParseSse
  <2> HIDE DEF q, n, ls
  <2> DEFINE f == Flushed(q, ls)
  <2>2. /\ EventsFit(a.type, f.events, ls)
        /\ \A x \in 1..n : ls[x] = "data" => \E k \in DOMAIN f.events : x \in DataIn(f.events[k].data, ls)
    BY <1>1, <1>2, FlushFits, Zenon DEF ls, n
  <2> HIDE DEF f
  <2>3. Events(a) = f.events  BY <2>1 DEF f
  <2> QED  BY <1>1, <2>2, <2>3, Zenon DEF ls
<1>4. CASE a.type = "ndjson"
  <2>1. Events(a) = q.events  BY <1>4 DEF Events, ParseNdjson
  <2> HIDE DEF q, n
  <2>2. GatheredWell(a.type, q, ls, n)  BY <1>1, <1>2, GatheredIs DEF n
  <2>3. q.data = <<>>  BY <1>4, <2>2 DEF GatheredWell
  <2>4. DataIn(q.data, ls) = {}  BY <2>3 DEF DataIn, Range
  <2> QED  BY <1>1, <2>1, <2>2, <2>4 DEF GatheredWell
<1> QED  BY <1>3, <1>4

\* The fields of a response that came from an answer of the site.
LEMMA ResponseIs ==
    ASSUME ContentIInv, response # Nothing
    PROVE  /\ site # <<>> /\ nextPage \in DOMAIN site /\ site[nextPage] \in PageAnswers
           /\ Came(response, site[nextPage], nextPage)
           /\ response.doc \in Bodies /\ response.doc.lines \in Seq(LineKinds)
           /\ response.doc.lines = site[nextPage].doc.lines
<1>1. nextPage \in DOMAIN site /\ Came(response, site[nextPage], nextPage) /\ InTurn
  BY DEF ContentIInv, ResponseFits
<1>2. site # <<>>  BY <1>1 DEF InTurn
<1>3. site[nextPage] \in PageAnswers  BY <1>1, <1>2, SiteIs
<1>4. response.doc \in Bodies /\ response.doc.lines = site[nextPage].doc.lines  BY <1>1, <1>3, BodyIs
<1> QED  BY <1>1, <1>2, <1>3, <1>4 DEF Bodies

\* What the pipeline puts beside the body of a stream are its lines.
LEMMA EventsRight == ContentIInv => EventsAreTheLines
<1> SUFFICES ASSUME ContentIInv, response # Nothing, "stream_events" \in response.tags
             PROVE  LET written == response.doc.lines
                        events == response.events
                        Data(k) == {i \in Range(events[k].data) : written[i] = "data"}
                        AllData == {i \in DOMAIN written : written[i] = "data"}
                    IN /\ \A i \in AllData : Cardinality({k \in DOMAIN events : i \in Data(k)}) = 1
                       /\ \A k, l \in DOMAIN events : k < l => \A i \in Data(k), j \in Data(l) : i < j
                       /\ \A i, j \in AllData : i < j /\ response.type = "sse" =>
                            ((\E k \in DOMAIN events : {i, j} \subseteq Data(k))
                               <=> ~\E b \in i..j : written[b] = "blank")
                       /\ \A k \in DOMAIN events : events[k].type # 0 =>
                            \A l \in 1..(k - 1) : \A i \in Data(l) : i < events[k].type
  BY DEF EventsAreTheLines
<1> DEFINE a == site[nextPage]
           ls == response.doc.lines
           es == response.events
           D(k) == DataIn(es[k].data, ls)
           All == {i \in DOMAIN ls : ls[i] = "data"}
           type == response.type
<1>1. /\ Came(response, a, nextPage) /\ ls \in Seq(LineKinds) /\ ls = a.doc.lines
  BY ResponseIs
<1>2. a.type \in {"sse", "ndjson"} /\ es = Events(a) /\ type = a.type  BY <1>1 DEF Came
<1> HIDE DEF a
<1>3. /\ EventsFit(type, es, ls)
      /\ \A x \in DOMAIN ls : ls[x] = "data" => \E k \in DOMAIN es : x \in D(k)
  BY <1>1, <1>2, StreamFits
<1> HIDE DEF ls, es, type
<1>4. Len(ls) \in Nat /\ DOMAIN ls = 1..Len(ls) /\ All \subseteq 1..Len(ls)
  BY <1>1, LenProperties
<1>5. es \in Seq(ParsedEvents(Len(ls))) /\ Len(es) \in Nat /\ DOMAIN es = 1..Len(es)
  BY <1>3, LenProperties DEF EventsFit
<1>6. ASSUME NEW k \in DOMAIN es, NEW x \in D(k) PROVE x \in 1..Len(ls) /\ ls[x] = "data"
  <2>0. es[k] \in ParsedEvents(Len(ls))  BY <1>5, ElementOfSeq
  <2>1. es[k].data \in Seq(1..Len(ls))  BY <2>0 DEF ParsedEvents
  <2>2. PICK m \in DOMAIN es[k].data : x = es[k].data[m] /\ ls[x] = "data"
    BY <1>6 DEF DataIn, Range
  <2>3. m \in 1..Len(es[k].data)  BY <2>1, <2>2, LenProperties
  <2> QED  BY <2>1, <2>2, <2>3, ElementOfSeq
<1>7. ASSUME NEW k \in DOMAIN es, NEW l \in DOMAIN es, k < l, NEW x \in D(k), NEW y \in D(l)
      PROVE  x < y /\ (type = "sse" => \E b \in Blanks(ls) : x < b /\ b < y)
  <2>1. \A m, n \in DOMAIN es : m < n =>
          \A u \in DataIn(es[m].data, ls), v \in DataIn(es[n].data, ls) :
             u < v /\ (type = "sse" => \E b \in Blanks(ls) : u < b /\ b < v)
    BY <1>3, Zenon DEF EventsFit
  <2> QED  BY <1>7, <2>1, Zenon
<1>8. ASSUME NEW x \in All PROVE Cardinality({k \in DOMAIN es : x \in D(k)}) = 1
  <2>1. PICK k \in DOMAIN es : x \in D(k)  BY <1>3
  <2>2. ASSUME NEW l \in DOMAIN es, x \in D(l) PROVE l = k
    <3>1. ~(x < x)  BY <1>4
    <3>2. ~(l < k) /\ ~(k < l)  BY <1>7, <2>1, <2>2, <3>1
    <3> QED  BY <1>5, <3>2
  <2>3. {l \in DOMAIN es : x \in D(l)} = {k}  BY <2>1, <2>2
  <2> QED  BY <2>3, FS_Singleton
<1>9. ASSUME NEW i \in All, NEW j \in All, i < j, type = "sse"
      PROVE  (\E k \in DOMAIN es : {i, j} \subseteq D(k)) <=> ~\E b \in i..j : ls[b] = "blank"
  <2>1. i \in Nat /\ j \in Nat /\ i \in 1..Len(ls) /\ j \in 1..Len(ls)  BY <1>4
  <2>2. ASSUME NEW b \in i..j, ls[b] = "blank" PROVE b \in Blanks(ls) /\ i < b /\ b < j
    <3>1. b # i /\ b # j  BY <2>2
    <3> QED  BY <1>4, <2>1, <2>2, <3>1 DEF Blanks
  <2>3. ASSUME NEW k \in DOMAIN es, {i, j} \subseteq D(k) PROVE ~\E b \in i..j : ls[b] = "blank"
    <3>1. ~\E b \in Blanks(ls) : i < b /\ b < j  BY <1>3, <1>9, <2>3 DEF EventsFit
    <3> QED  BY <2>2, <3>1
  <2>4. ASSUME ~\E b \in i..j : ls[b] = "blank" PROVE \E k \in DOMAIN es : {i, j} \subseteq D(k)
    <3>1. PICK k \in DOMAIN es : i \in D(k)  BY <1>3
    <3>2. PICK l \in DOMAIN es : j \in D(l)  BY <1>3
    <3>3. ASSUME NEW b \in Blanks(ls), i < b, b < j PROVE FALSE
      <4>1. b \in i..j /\ ls[b] = "blank"  BY <1>4, <2>1, <3>3 DEF Blanks
      <4> QED  BY <2>4, <4>1
    <3>4. ~(k < l)  BY <1>7, <1>9, <3>1, <3>2, <3>3
    <3>5. ~(j < i)  BY <1>9, <2>1
    <3>6. ~(l < k)  BY <1>7, <3>1, <3>2, <3>5
    <3>7. k = l  BY <1>5, <3>4, <3>6
    <3> QED  BY <3>1, <3>2, <3>7
  <2> QED  BY <2>3, <2>4
<1>10. \A k \in DOMAIN es : es[k].type # 0 =>
          \A l \in 1..(k - 1) : \A i \in D(l) : i < es[k].type
  BY <1>3, Zenon DEF EventsFit
<1>11. \A k, l \in DOMAIN es : k < l => \A i \in D(k), j \in D(l) : i < j  BY <1>7
<1>12. \A i \in All : Cardinality({k \in DOMAIN es : i \in D(k)}) = 1  BY <1>8
<1>13. \A i, j \in All : i < j /\ type = "sse" =>
          ((\E k \in DOMAIN es : {i, j} \subseteq D(k)) <=> ~\E b \in i..j : ls[b] = "blank")
  BY <1>9
<1> QED  BY <1>10, <1>11, <1>12, <1>13, Zenon DEF DataIn, ls, es, type

\* The lines of an event are lines of the body.
LEMMA EventLines ==
    ASSUME ContentIInv, response # Nothing, NEW k \in DOMAIN response.events
    PROVE  response.events[k].data \in Seq(1..Len(response.doc.lines))
<1> DEFINE a == site[nextPage]
           ls == response.doc.lines
           es == response.events
<1>1. Came(response, a, nextPage) /\ ls \in Seq(LineKinds) /\ ls = a.doc.lines
  BY ResponseIs
<1>2. "stream_events" \in response.tags \/ es = <<>>  BY <1>1 DEF Came
<1>3. DOMAIN <<>> = {}  OBVIOUS
<1>4. a.type \in {"sse", "ndjson"} /\ es = Events(a)  BY <1>1, <1>2, <1>3 DEF Came
<1> HIDE DEF a
<1>5. EventsFit(a.type, es, ls)  BY <1>1, <1>4, StreamFits
<1> HIDE DEF ls, es
<1>6. es \in Seq(ParsedEvents(Len(ls)))  BY <1>5 DEF EventsFit
<1>7. k \in 1..Len(es)  BY <1>6, LenProperties DEF es
<1>8. es[k] \in ParsedEvents(Len(ls))  BY <1>6, <1>7, ElementOfSeq
<1> QED  BY <1>8 DEF ParsedEvents, es, ls

\* Every variable of the pipeline and of the paginator keeps its type.
LEMMA ContentTyped == ContentIInv => ContentTypeOK
<1> SUFFICES ASSUME ContentIInv PROVE ContentTypeOK  OBVIOUS
<1>1. /\ adding \in Seq(Stages) /\ pipe \in Seq(Stages) /\ ahead \in Seq(Stages)
      /\ site = <<>> \/ site \in Sites
      /\ left \in 0..Len(site) /\ nextPage \in {0, left + 1}
      /\ handed \in Seq(DOMAIN site) /\ reported \subseteq DOMAIN site
      /\ fetches \in 0..MaxFetches /\ MaxFetches \in Nat
      /\ finished \in Nat /\ finished + (IF response = Nothing THEN 0 ELSE 1) <= fetches
      /\ counted = IF ~Installed("metrics") THEN 0
                   ELSE finished + (IF response # Nothing /\ Through("metrics") THEN 1 ELSE 0)
  BY ContentAssumption DEF ContentIInv, PipeShape, InTurn, Position, Tally
<1>2. Len(site) \in Nat /\ DOMAIN site = 1..Len(site)
  <2>1. site = <<>> \/ site \in Seq(PageAnswers)  BY <1>1, ContentAssumption
  <2> QED  BY <2>1, LenProperties, EmptySeq
<1>3. nextPage \in 0..Len(site) + 1
  BY <1>1, <1>2
<1>4. finished \in 0..fetches /\ counted \in 0..fetches
  BY <1>1
<1>5. ASSUME response # Nothing
      PROVE  /\ response.page \in DOMAIN site /\ response.ok \in BOOLEAN
             /\ response.doc \in Bodies /\ response.tags \subseteq Tags
             /\ response.then \in 0..Len(site) + 1 /\ response.more \in BOOLEAN
  <2>1. nextPage \in DOMAIN site /\ Came(response, site[nextPage], nextPage) /\ response.doc \in Bodies
    BY <1>5, ResponseIs
  <2>2. response.then \in {0, nextPage + 1}  BY <2>1 DEF Came
  <2>3. response.then \in 0..Len(site) + 1  BY <1>2, <2>1, <2>2
  <2>4. response.more \in BOOLEAN  BY <2>1 DEF Came
  <2> QED  BY <2>1, <2>3, <2>4 DEF Came
<1> QED  BY <1>1, <1>3, <1>4, <1>5, EventLines DEF ContentTypeOK

-----------------------------------------------------------------------------
(* All of them.  The agent client shares its link with the channel object: *)
(* while that moves, no task was sent and nothing was answered.            *)

AnswersRest ==
    /\ \A t \in TaskIds : tasks[t] = "none" /\ collected[t] = <<>> /\ queues[t] = <<>>
    /\ atAgent = {}

ReadIInv ==
    /\ WireIInv /\ SettingsIInv /\ AiIInv /\ ContentIInv
    /\ IF part = "tasks" THEN AnswersIInv ELSE AnswersRest

LEMMA AnswersRestRight == AnswersRest => AnswersWhole
<1> SUFFICES ASSUME AnswersRest PROVE AnswersWhole  OBVIOUS
<1>1. \A t \in TaskIds : /\ tasks[t] # "complete" /\ t \notin atAgent
                         /\ collected[t] = <<>> /\ queues[t] = <<>>
  BY DEF AnswersRest
<1>2. Len(<<>>) = 0 /\ \A k \in 1..0 : FALSE  OBVIOUS
<1>3. \A t \in TaskIds : \A k \in 1..Len(collected[t]) : FALSE  BY <1>1, <1>2
<1>4. \A t \in TaskIds : \A k \in 1..Len(queues[t]) : FALSE  BY <1>1, <1>2
<1> QED  BY <1>1, <1>3, <1>4, Zenon DEF AnswersWhole

LEMMA ReadStart == Init => ReadIInv
<1> SUFFICES ASSUME Init PROVE ReadIInv  OBVIOUS
<1>1. WireInit /\ SettingsInit /\ AiInit /\ ContentInit /\ AgentClientInit
  <2>1. WireInit /\ AiInit /\ AgentClientInit /\ SettingsInit /\ ContentInit  BY DEF Init
  <2> QED  BY <2>1
<1>2. AnswersIInv  BY <1>1, AnswersStart
<1>3. AnswersRest  BY <1>1 DEF AgentClientInit, AnswersRest
<1> QED  BY <1>1, <1>2, <1>3, WireStart, SettingsStart, AiStart, ContentStart DEF ReadIInv

LEMMA ReadStep == ReadIInv /\ [Next]_vars => ReadIInv'
<1> SUFFICES ASSUME ReadIInv, [Next]_vars PROVE ReadIInv'  OBVIOUS
<1>1. [ContentNext]_contentVars /\ [WireNext]_wireVars
  <2>1. CASE WebNext  BY <2>1 DEF WebNext
  <2>2. CASE UNCHANGED webVars  BY <2>2 DEF webVars
  <2> QED  BY <2>1, <2>2 DEF Next, MarketNext, KeptNext, TalkNext, HostNext, ClientNext, vars
<1>2. [SettingsNext]_settingsVars
  <2>1. CASE HostNext  BY <2>1 DEF HostNext
  <2>2. CASE UNCHANGED hostVars  BY <2>2 DEF hostVars
  <2> QED  BY <2>1, <2>2 DEF Next, MarketNext, KeptNext, TalkNext, WebNext, ClientNext, vars
<1>3. [AiNext]_aiVars
  <2>1. CASE TalkNext  BY <2>1 DEF TalkNext
  <2>2. CASE UNCHANGED talkVars  BY <2>2 DEF talkVars
  <2> QED  BY <2>1, <2>2 DEF Next, MarketNext, KeptNext, WebNext, HostNext, ClientNext, vars
<1>4. /\ part' = part
      /\ \/ part = "subscription" /\ UNCHANGED answerVars
         \/ part = "tasks" /\ AgentClientNext
         \/ UNCHANGED clientVars
  BY DEF Next, MarketNext, KeptNext, TalkNext, WebNext, HostNext, ClientNext, vars
<1>5. WireIInv' /\ SettingsIInv' /\ AiIInv' /\ ContentIInv'
  BY <1>1, <1>2, <1>3, WireStep, SettingsStep, AiStep, ContentStep DEF ReadIInv
<1>6. ASSUME UNCHANGED answerVars, AnswersRest PROVE AnswersRest'
  <2>1. UNCHANGED <<tasks, collected, queues, atAgent>>
    BY <1>6 DEF answerVars, listenVars, farVars
  <2> QED  BY <1>6, <2>1 DEF AnswersRest
<1>7. IF part' = "tasks" THEN AnswersIInv' ELSE AnswersRest'
  <2>1. CASE part = "subscription" /\ UNCHANGED answerVars
    <3>1. part' # "tasks" /\ part # "tasks"  BY <1>4, <2>1
    <3>2. AnswersRest  BY <3>1 DEF ReadIInv
    <3> QED  BY <1>6, <2>1, <3>1, <3>2
  <2>2. CASE part = "tasks" /\ AgentClientNext
    <3>1. AnswersIInv  BY <2>2 DEF ReadIInv
    <3>2. AnswersIInv'  BY <2>2, <3>1, AnswersStep
    <3> QED  BY <1>4, <2>2, <3>2
  <2>3. CASE UNCHANGED clientVars
    <3>1. UNCHANGED agentClientVars /\ UNCHANGED answerVars
      BY <2>3 DEF clientVars, answerVars, agentClientVars
    <3>2. AnswersIInv => AnswersIInv'  BY <3>1, AnswersStep
    <3> QED  BY <1>4, <1>6, <3>1, <3>2 DEF ReadIInv
  <2> QED  BY <1>4, <2>1, <2>2, <2>3
<1> QED  BY <1>5, <1>7 DEF ReadIInv

LEMMA ReadRight == ReadIInv => (ExpandedWhole => ReadAsWritten)
<1> SUFFICES ASSUME ReadIInv, ExpandedWhole PROVE ReadAsWritten  OBVIOUS
<1>1. WireIInv /\ SettingsIInv /\ AiIInv /\ ContentIInv  BY DEF ReadIInv
<1>2. LosesOnlyCutLines  BY <1>1, AiRight
<1>3. EventsAreTheLines /\ ListingIsWhole  BY <1>1, EventsRight, ListingRight
<1>4. FramesReadAsWritten /\ ReceivedInOrder  BY <1>1, WireRight
<1>5. ReadAtStart  BY <1>1, SettingsRight DEF ReadAtStart
<1>6. AnswersWhole  BY AnswersRight, AnswersRestRight DEF ReadIInv
<1> QED  BY <1>2, <1>3, <1>4, <1>5, <1>6 DEF ReadAsWritten

\* What is read is what was written: the text of a streamed answer but for lines that
\* were cut (crates/mtw-integrations/src/ai), its events, and listings in pages
\* (crates/mtw-http), frames (crates/mtw-protocol), the messages of a socket
\* (bindings/node), the file a configuration is from and a manifest (crates/mtw-core,
\* crates/mtw-registry), and the answer of an agent (packages/client).  That the
\* references in a configuration are expanded depends on how far they are followed,
\* which is a bound: this, ExpandedWhole, is what the theorem takes from the runs.
THEOREM ReadingIsSafe == Spec => [](ExpandedWhole => ReadAsWritten)
<1>1. ReadIInv /\ [Next]_vars => ReadIInv'  BY ReadStep
<1> QED  BY ReadStart, <1>1, ReadRight, PTL DEF Spec

=============================================================================
