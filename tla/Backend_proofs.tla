------------------------------ MODULE Backend_proofs ------------------------------
(***************************************************************************)
(* What the backend promises for any callers, connections, deployments and *)
(* bounds.  Every step of the backend is a step of the bridge or none, and *)
(* a step of the store or none, so what holds of them by themselves holds  *)
(* of them in the server.                                                  *)
(***************************************************************************)
EXTENDS Backend, SequenceTheorems, TLAPS

-----------------------------------------------------------------------------
(* Queues.                                                                 *)

\* The head of a queue, and what is left without it.
LEMMA QueueHead ==
    ASSUME NEW S, NEW q \in Seq(S), q # <<>>
    PROVE  /\ Len(q) \in Nat \ {0}
           /\ Head(q) = q[1] /\ q[1] \in S
           /\ Tail(q) \in Seq(S) /\ Len(Tail(q)) = Len(q) - 1
           /\ Len(q) = 1 => Tail(q) = <<>>
<1>1. Len(q) \in Nat \ {0}
  BY EmptySeq
<1>2. 1 \in 1..Len(q)
  BY <1>1
<1>3. q[1] \in S
  BY <1>2, ElementOfSeq
<1>4. Tail(q) \in Seq(S) /\ Len(Tail(q)) = Len(q) - 1
  BY HeadTailProperties
<1>5. Len(q) = 1 => Tail(q) = <<>>
  <2>1. Len(Tail(q)) # 0 \/ Tail(q) = <<>>
    BY <1>4, EmptySeq
  <2> QED
    BY <1>4, <2>1
<1> QED
  BY <1>1, <1>3, <1>4, <1>5

Frames == [id : Ids, kind : Answers, whole : BOOLEAN]

-----------------------------------------------------------------------------
(* The bridge.                                                             *)

\* The caller has written its request and waits for the answer.
Reading(c) == phase[c] \in {"length", "payload"}

\* Who reads a payload has seen the frame it belongs to, and who makes a call
\* has an id for it.
PayloadIsThere ==
    \A c \in Callers : /\ phase[c] = "payload" => answers # <<>>
                       /\ phase[c] # "idle" => asking[c] # 0

\* Until a call times out there is one request or answer on the wire at most,
\* that of the caller who waits, and none when nobody waits.  After the process
\* has gone what it had read or sent may stay, but nobody can write any more.
OneOnTheWire ==
    ~expired =>
       /\ Len(answers) <= 1
       /\ \A c \in Callers : Reading(c) /\ answers # <<>> => answers[1].id = asking[c]
       /\ peer => /\ Len(unread) <= 1
                  /\ answers # <<>> => unread = <<>> /\ asked = {}
                  /\ unread # <<>> => asked = {}
                  /\ unread # <<>> => \E c \in Callers : Reading(c) /\ unread[1] = asking[c]
                  /\ \A i \in asked : \E c \in Callers : Reading(c) /\ i = asking[c]
                  /\ answers # <<>> => \E c \in Callers : Reading(c)

BridgeIInv ==
    /\ BridgeTypeOK /\ PayloadIsThere
    /\ OwnAnswerOnly
    /\ OneOnTheWire /\ InStepUntilTimeout

\* The lock makes the one who waits the only one.
LEMMA OnlyReader ==
    ASSUME BridgeTypeOK, NEW c \in Callers, NEW d \in Callers, holder = c,
           phase[d] \in {"writing", "length", "payload"}
    PROVE  d = c
BY DEF BridgeTypeOK

\* A new bridge has sent and read nothing.
LEMMA BridgeStart == BridgeInit => BridgeIInv
<1> SUFFICES ASSUME BridgeInit PROVE BridgeIInv
  OBVIOUS
<1>1. 0 \in 0..MaxCalls /\ <<>> \in Seq(Ids) /\ Len(<<>>) = 0
      /\ <<>> \in Seq([id : Ids, kind : Answers, whole : BOOLEAN])
  BY BridgeAssumption
<1>2. NoCaller \notin Callers
  BY BridgeAssumption
<1>3. BridgeTypeOK
  BY <1>1, <1>2 DEF BridgeInit, BridgeTypeOK, Ends
<1>4. PayloadIsThere /\ OwnAnswerOnly /\ InStepUntilTimeout
  BY DEF BridgeInit, PayloadIsThere, OwnAnswerOnly, InStepUntilTimeout
<1>5. OneOnTheWire
  BY <1>1 DEF BridgeInit, OneOnTheWire, Reading
<1> QED
  BY <1>3, <1>4, <1>5 DEF BridgeIInv

\* How a call ends: the lock is free, only call_tool() takes an answer, and only
\* one made for its own request.
LEMMA EndOfCall ==
    ASSUME BridgeTypeOK, NEW c \in Callers, holder = c,
           NEW how \in Ends, NEW id \in 0..MaxCalls, Ended(c, how, id)
    PROVE  /\ phase' \in [Callers -> {"idle", "locking", "writing", "length", "payload"}]
           /\ phase'[c] = "idle" /\ \A d \in Callers \ {c} : phase'[d] = phase[d]
           /\ holder' = NoCaller
           /\ got' \in [Callers -> Ends] /\ \A d \in Callers \ {c} : got'[d] = got[d]
           /\ taken' \in [Callers -> 0..MaxCalls] /\ \A d \in Callers \ {c} : taken'[d] = taken[d]
           /\ taken'[c] \in {0, asking[c]}
           /\ how # "mismatch" /\ got'[c] = "mismatch" =>
                 id # asking[c] /\ how \notin {"timeout", "broken", "huge", "garbled"}
           /\ \A d \in Callers : phase'[d] \notin {"writing", "length", "payload"}
<1> DEFINE error == how \in {"timeout", "broken", "huge", "garbled"}
           end == CASE ~tool[c] -> IF error THEN "unhealthy" ELSE "healthy"
                    [] tool[c] /\ ~error /\ id # asking[c] -> "mismatch"
                    [] OTHER -> how
<1>1. /\ phase' = [phase EXCEPT ![c] = "idle"]
      /\ holder' = NoCaller
      /\ got' = [got EXCEPT ![c] = end]
      /\ taken' = [taken EXCEPT ![c] =
             IF end \in {"result", "tool error", "empty"} THEN id ELSE 0]
  BY DEF Ended
<1>2. \/ end \in {"unhealthy", "healthy"}
      \/ end = "mismatch" /\ id # asking[c] /\ ~error
      \/ end = how /\ (error \/ id = asking[c])
  OBVIOUS
<1>3. end \in Ends
  <2> HIDE DEF end, error
  <2> QED
    BY <1>2 DEF Ends
<1>4. end \in {"result", "tool error", "empty"} => id = asking[c]
  BY <1>2
<1>5. how # "mismatch" /\ end = "mismatch" => id # asking[c] /\ ~error
  BY <1>2
<1> HIDE DEF end
<1>6. \A d \in Callers \ {c} : phase[d] \notin {"writing", "length", "payload"}
  BY DEF BridgeTypeOK
<1>7. 0 \in 0..MaxCalls
  BY BridgeAssumption
<1> QED
  BY <1>1, <1>3, <1>4, <1>5, <1>6, <1>7 DEF BridgeTypeOK

\* What the steps that end a call have in common.
EndsCall(c, how, id) ==
    /\ Ended(c, how, id) /\ how # "mismatch" /\ holder = c
    /\ UNCHANGED <<calls, asking, tool, unread, asked, peer>>
    /\ answers' = answers \/ (answers # <<>> /\ answers' = Tail(answers))
    /\ skewed' \in BOOLEAN /\ expired' \in BOOLEAN
    /\ ~expired' =>
          /\ ~expired /\ skewed' = skewed
          /\ \/ phase[c] = "payload" /\ id = answers[1].id /\ answers' = Tail(answers)
             \/ ~peer /\ how = "broken" /\ answers' = answers
             \/ skewed

Ending(c) == WriteFails(c) \/ ReadPayload(c) \/ Timeout(c) \/ ReadSkewed(c) \/ ReadFails(c)
                \/ (ReadLength(c) /\ Head(answers).kind = "huge")

\* These are the steps that end a call.
LEMMA EndingStep ==
    ASSUME BridgeTypeOK, PayloadIsThere, NEW c \in Callers, Ending(c)
    PROVE  \E how \in Ends, id \in 0..MaxCalls : EndsCall(c, how, id)
<1>1. holder = c
  BY DEF Ending, WriteFails, ReadLength, ReadPayload, Timeout, ReadSkewed, ReadFails, BridgeTypeOK
<1>2. 0 \in 0..MaxCalls /\ {"broken", "huge", "timeout", "garbled"} \subseteq Ends
  BY BridgeAssumption DEF Ends
<1>3. answers # <<>> => /\ Head(answers) = answers[1]
                        /\ answers[1] \in Frames /\ Tail(answers) \in Seq(Frames)
  BY QueueHead DEF BridgeTypeOK, Frames
<1>4. CASE WriteFails(c)
  BY <1>1, <1>2, <1>4 DEF WriteFails, EndsCall, callVars, wireVars, BridgeTypeOK
<1>5. CASE ReadPayload(c)
  <2>1. answers # <<>>
    BY <1>5 DEF ReadPayload, PayloadIsThere
  <2>2. answers[1].kind \in Answers /\ answers[1].id \in 0..MaxCalls
    BY <1>3, <2>1, BridgeAssumption DEF Ids, Frames
  <2>3. answers[1].kind \in Ends /\ answers[1].kind # "mismatch"
    BY <2>2 DEF Answers, Ends
  <2>4. EndsCall(c, answers[1].kind, answers[1].id)
    BY <1>1, <1>3, <1>5, <2>1, <2>3 DEF ReadPayload, EndsCall, callVars, BridgeTypeOK
  <2> QED
    BY <2>2, <2>3, <2>4
<1>6. CASE Timeout(c)
  <2>1. phase[c] = "payload" => answers # <<>>
    BY DEF PayloadIsThere
  <2>2. EndsCall(c, "timeout", 0)
    BY <1>1, <1>6, <2>1 DEF Timeout, EndsCall, callVars, BridgeTypeOK
  <2> QED
    BY <1>2, <2>2
<1>7. CASE ReadSkewed(c)
  BY <1>1, <1>2, <1>7 DEF ReadSkewed, EndsCall, callVars, wireVars, BridgeTypeOK
<1>8. CASE ReadFails(c)
  BY <1>1, <1>2, <1>8 DEF ReadFails, EndsCall, callVars, wireVars, BridgeTypeOK
<1>9. CASE ReadLength(c) /\ Head(answers).kind = "huge"
  <2>1. EndsCall(c, "huge", 0)
    BY <1>1, <1>9 DEF ReadLength, EndsCall, callVars, BridgeTypeOK
  <2> QED
    BY <1>2, <2>1
<1> QED
  BY <1>4, <1>5, <1>6, <1>7, <1>8, <1>9 DEF Ending

\* The end of a call preserves the invariant.
LEMMA EndingKeeps ==
    ASSUME BridgeIInv, NEW c \in Callers, Ending(c)
    PROVE  BridgeIInv'
<1>1. PICK how \in Ends, id \in 0..MaxCalls : EndsCall(c, how, id)
  BY EndingStep DEF BridgeIInv
<1> USE DEF EndsCall
<1>2. BridgeTypeOK
  BY DEF BridgeIInv
<1>3. /\ phase' \in [Callers -> {"idle", "locking", "writing", "length", "payload"}]
      /\ phase'[c] = "idle" /\ \A d \in Callers \ {c} : phase'[d] = phase[d]
      /\ holder' = NoCaller
      /\ got' \in [Callers -> Ends] /\ \A d \in Callers \ {c} : got'[d] = got[d]
      /\ taken' \in [Callers -> 0..MaxCalls] /\ \A d \in Callers \ {c} : taken'[d] = taken[d]
      /\ taken'[c] \in {0, asking[c]}
      /\ how # "mismatch" /\ got'[c] = "mismatch" =>
             id # asking[c] /\ how \notin {"timeout", "broken", "huge", "garbled"}
      /\ \A d \in Callers : phase'[d] \notin {"writing", "length", "payload"}
  <2>1. holder = c /\ Ended(c, how, id)
    BY <1>1
  <2> HIDE DEF EndsCall
  <2> QED
    BY <1>2, <2>1, EndOfCall
<1>4. NoCaller \notin Callers
  BY BridgeAssumption
<1>5. answers' \in Seq(Frames)
  <2>1. answers \in Seq(Frames)
    BY <1>2 DEF BridgeTypeOK, Frames
  <2>2. answers # <<>> => Tail(answers) \in Seq(Frames)
    BY <2>1, QueueHead
  <2> QED
    BY <1>1, <2>1, <2>2
<1>6. BridgeTypeOK'
  BY <1>1, <1>2, <1>3, <1>4, <1>5 DEF BridgeTypeOK, Frames
<1>7. PayloadIsThere'
  BY <1>1, <1>3 DEF BridgeIInv, PayloadIsThere
<1>8. OwnAnswerOnly'
  BY <1>1, <1>3 DEF BridgeIInv, OwnAnswerOnly
<1>9. ASSUME ~expired'
      PROVE  /\ ~expired /\ ~skewed /\ ~skewed'
             /\ \/ phase[c] = "payload" /\ id = asking[c] /\ answers' = <<>> /\ answers # <<>>
                \/ ~peer /\ how = "broken" /\ answers' = answers
  <2>1. ~expired /\ ~skewed /\ ~skewed' /\ Len(answers) <= 1
    BY <1>1, <1>9 DEF BridgeIInv, InStepUntilTimeout, OneOnTheWire
  <2>2. CASE phase[c] = "payload" /\ id = answers[1].id /\ answers' = Tail(answers)
    <3>1. answers # <<>> /\ answers[1].id = asking[c]
      BY <2>1, <2>2 DEF BridgeIInv, PayloadIsThere, OneOnTheWire, Reading
    <3>2. answers \in Seq(Frames)
      BY <1>2 DEF BridgeTypeOK, Frames
    <3>3. Len(answers) = 1 /\ Tail(answers) = <<>>
      <4>1. Len(answers) \in Nat \ {0} /\ (Len(answers) = 1 => Tail(answers) = <<>>)
        BY <3>1, <3>2, QueueHead
      <4>2. \A n \in Nat \ {0} : n <= 1 => n = 1
        OBVIOUS
      <4> QED
        BY <2>1, <4>1, <4>2
    <3> QED
      BY <2>1, <2>2, <3>1, <3>3
  <2> QED
    BY <1>1, <1>9, <2>1, <2>2
<1>10. InStepUntilTimeout'
  BY <1>1, <1>3, <1>9 DEF BridgeIInv, InStepUntilTimeout
<1>11. OneOnTheWire'
  <2> SUFFICES ASSUME ~expired'
               PROVE  OneOnTheWire'
    BY DEF OneOnTheWire
  <2>1. \A d \in Callers : ~Reading(d)'
    BY <1>3 DEF Reading
  <2>2. CASE ~peer /\ answers' = answers
    BY <1>1, <1>9, <2>1, <2>2 DEF BridgeIInv, OneOnTheWire
  <2>3. CASE answers' = <<>> /\ answers # <<>>
    <3>1. peer' => unread' = <<>> /\ asked' = {}
      BY <1>1, <1>9, <2>3 DEF BridgeIInv, OneOnTheWire
    <3>2. Len(<<>>) = 0
      OBVIOUS
    <3> QED
      BY <2>1, <2>3, <3>1, <3>2 DEF OneOnTheWire
  <2> QED
    BY <1>9, <2>2, <2>3
<1> QED
  BY <1>6, <1>7, <1>8, <1>10, <1>11 DEF BridgeIInv

\* A caller begins a call, or takes the lock.
LEMMA BeginningKeeps ==
    ASSUME BridgeIInv, NEW c \in Callers,
           Lock(c) \/ \E isTool \in BOOLEAN : StartCall(c, isTool)
    PROVE  BridgeIInv'
<1>1. /\ UNCHANGED <<unread, asked, answers, peer, skewed, expired>>
      /\ phase[c] \in {"idle", "locking"} /\ phase'[c] \in {"locking", "writing"}
      /\ \A d \in Callers \ {c} : phase'[d] = phase[d] /\ asking'[d] = asking[d]
      /\ \A d \in Callers \ {c} : taken'[d] = taken[d] /\ got'[d] = got[d]
  BY DEF Lock, StartCall, callVars, wireVars, BridgeIInv, BridgeTypeOK
<1>2. taken'[c] # 0 => taken'[c] = taken[c] /\ asking'[c] = asking[c]
  BY DEF Lock, StartCall, callVars, BridgeIInv, BridgeTypeOK
<1>3. got'[c] \in {"none", got[c]}
  BY DEF Lock, StartCall, BridgeIInv, BridgeTypeOK
<1>4. BridgeTypeOK'
  <2>1. CASE Lock(c)
    <3>1. holder' = c /\ holder = NoCaller /\ NoCaller \notin Callers
      BY <2>1, BridgeAssumption DEF Lock
    <3>2. phase' = [phase EXCEPT ![c] = "writing"]
      BY <2>1 DEF Lock
    <3>3. \A d \in Callers : phase'[d] \in {"writing", "length", "payload"} <=> holder' = d
      BY <3>1, <3>2 DEF BridgeIInv, BridgeTypeOK
    <3> QED
      BY <2>1, <3>1, <3>2, <3>3 DEF Lock, callVars, wireVars, BridgeIInv, BridgeTypeOK
  <2>2. ASSUME NEW isTool \in BOOLEAN, StartCall(c, isTool)
        PROVE  BridgeTypeOK'
    <3>1. calls + 1 \in 0..MaxCalls /\ 0 \in 0..MaxCalls /\ "none" \in Ends
      <4>1. calls \in 0..MaxCalls /\ calls < MaxCalls
        BY <2>2 DEF StartCall, BridgeIInv, BridgeTypeOK
      <4>2. "none" \in Ends
        BY DEF Ends
      <4> QED
        BY <4>1, <4>2, BridgeAssumption
    <3>2. phase' \in [Callers -> {"idle", "locking", "writing", "length", "payload"}]
      BY <2>2 DEF StartCall, BridgeIInv, BridgeTypeOK
    <3>3. \A d \in Callers : phase'[d] \in {"writing", "length", "payload"} <=> holder' = d
      BY <2>2 DEF StartCall, BridgeIInv, BridgeTypeOK
    <3>4. asking' \in [Callers -> 0..MaxCalls] /\ tool' \in [Callers -> BOOLEAN]
      BY <2>2, <3>1 DEF StartCall, BridgeIInv, BridgeTypeOK
    <3>5. got' \in [Callers -> Ends] /\ taken' \in [Callers -> 0..MaxCalls]
      BY <2>2, <3>1 DEF StartCall, BridgeIInv, BridgeTypeOK
    <3> QED
      BY <2>2, <3>1, <3>2, <3>3, <3>4, <3>5 DEF StartCall, wireVars, BridgeIInv, BridgeTypeOK
  <2> QED
    BY <2>1, <2>2
<1>5. \A d \in Callers : Reading(d)' = Reading(d) /\ (Reading(d) => d # c /\ asking'[d] = asking[d])
  BY <1>1 DEF Reading
<1>6. OwnAnswerOnly' /\ InStepUntilTimeout'
  BY <1>1, <1>2, <1>3 DEF BridgeIInv, OwnAnswerOnly, InStepUntilTimeout
<1>7. PayloadIsThere'
  <2>1. asking'[c] # 0
    BY DEF Lock, StartCall, callVars, BridgeIInv, BridgeTypeOK, PayloadIsThere
  <2> QED
    BY <1>1, <2>1 DEF BridgeIInv, PayloadIsThere
<1>8. OneOnTheWire'
  BY <1>1, <1>5 DEF BridgeIInv, OneOnTheWire
<1> QED
  BY <1>4, <1>6, <1>7, <1>8 DEF BridgeIInv

\* A caller writes its request, or has read the length of a frame.
LEMMA ProgressKeeps ==
    ASSUME BridgeIInv, NEW c \in Callers,
           Write(c) \/ (ReadLength(c) /\ Head(answers).kind # "huge")
    PROVE  BridgeIInv'
<1>1. /\ UNCHANGED <<calls, asking, tool, got, taken, holder, asked, answers, peer, skewed, expired>>
      /\ holder = c
      /\ phase[c] \in {"writing", "length"} /\ phase'[c] \in {"length", "payload"}
      /\ phase' = [phase EXCEPT ![c] = phase'[c]]
      /\ phase'[c] = "payload" => answers # <<>>
  BY DEF Write, ReadLength, callVars, BridgeIInv, BridgeTypeOK
<1>2. \A d \in Callers \ {c} : phase'[d] = phase[d] /\ ~Reading(d)
  BY <1>1, OnlyReader DEF Reading, BridgeIInv, BridgeTypeOK
<1>3. Reading(c)'
  BY <1>1 DEF Reading
<1>4. \/ phase[c] = "writing" /\ peer /\ unread' = Append(unread, asking[c])
      \/ phase[c] = "length" /\ unread' = unread
  BY DEF Write, ReadLength
<1>5. unread \in Seq(Ids)
  BY DEF BridgeIInv, BridgeTypeOK
<1>6. phase[c] = "writing" => asking[c] \in Ids
  BY BridgeAssumption DEF BridgeIInv, BridgeTypeOK, PayloadIsThere, Ids
<1>7. phase[c] = "writing" =>
         unread' \in Seq(Ids) /\ Len(unread') = Len(unread) + 1 /\ unread'[Len(unread) + 1] = asking[c]
  BY <1>4, <1>5, <1>6, AppendProperties
<1>8. BridgeTypeOK'
  <2>1. phase' \in [Callers -> {"idle", "locking", "writing", "length", "payload"}]
    BY <1>1 DEF BridgeIInv, BridgeTypeOK
  <2>2. \A d \in Callers : phase'[d] \in {"writing", "length", "payload"} <=> holder' = d
    BY <1>1, <1>2 DEF BridgeIInv, BridgeTypeOK
  <2>3. unread' \in Seq(Ids)
    BY <1>4, <1>5, <1>7
  <2> QED
    BY <1>1, <2>1, <2>2, <2>3 DEF BridgeIInv, BridgeTypeOK
<1>9. PayloadIsThere' /\ OwnAnswerOnly' /\ InStepUntilTimeout'
  BY <1>1, <1>2 DEF BridgeIInv, PayloadIsThere, OwnAnswerOnly, InStepUntilTimeout
<1>10. OneOnTheWire'
  <2> SUFFICES ASSUME ~expired'
               PROVE  OneOnTheWire'
    BY DEF OneOnTheWire
  <2>1. CASE phase[c] = "length"
    <3>1. UNCHANGED unread /\ \A d \in Callers : Reading(d)' = Reading(d)
      BY <1>1, <1>2, <1>3, <1>4, <2>1 DEF Reading
    <3> QED
      BY <1>1, <3>1 DEF BridgeIInv, OneOnTheWire
  <2>2. CASE phase[c] = "writing"
    <3>1. \A d \in Callers : ~Reading(d)
      BY <1>2, <2>2 DEF Reading
    <3>2. asked = {} /\ answers = <<>> /\ unread = <<>>
      BY <1>1, <1>4, <2>2, <3>1 DEF BridgeIInv, OneOnTheWire
    <3>3. Len(unread') = 1 /\ unread'[1] = asking[c]
      BY <1>7, <2>2, <3>2, EmptySeq
    <3>4. Len(answers') <= 1
      BY <1>1, <3>2, EmptySeq
    <3> QED
      BY <1>1, <1>3, <3>2, <3>3, <3>4 DEF OneOnTheWire
  <2> QED
    BY <1>1, <2>1, <2>2
<1> QED
  BY <1>8, <1>9, <1>10 DEF BridgeIInv

\* The external process reads, answers, or goes away.
LEMMA PeerKeeps == BridgeIInv /\ PeerStep => BridgeIInv'
<1> SUFFICES ASSUME BridgeIInv, PeerStep
             PROVE  BridgeIInv'
  OBVIOUS
<1>1. /\ UNCHANGED <<calls, phase, asking, tool, got, taken, holder, skewed, expired>>
      /\ peer
  BY DEF PeerStep, PeerReads, PeerAnswers, PeerFinishes, PeerLeaves, callVars
<1>2. \A d \in Callers : Reading(d)' = Reading(d)
  BY <1>1 DEF Reading
<1>3. OwnAnswerOnly' /\ InStepUntilTimeout'
  BY <1>1 DEF BridgeIInv, OwnAnswerOnly, InStepUntilTimeout
<1>4. unread \in Seq(Ids) /\ asked \subseteq Ids /\ answers \in Seq(Frames)
  BY DEF BridgeIInv, BridgeTypeOK, Frames
<1>5. ASSUME /\ unread' \in Seq(Ids) /\ asked' \subseteq Ids /\ answers' \in Seq(Frames)
             /\ peer' \in BOOLEAN
             /\ answers # <<>> => answers' # <<>>
      PROVE  BridgeTypeOK' /\ PayloadIsThere'
  BY <1>1, <1>5 DEF BridgeIInv, BridgeTypeOK, PayloadIsThere, Frames
<1>6. CASE PeerReads
  <2>1. /\ unread # <<>> /\ unread' = Tail(unread) /\ asked' = asked \cup {Head(unread)}
        /\ UNCHANGED <<answers, peer>>
    BY <1>6 DEF PeerReads
  <2>2. /\ Head(unread) = unread[1] /\ unread[1] \in Ids /\ Tail(unread) \in Seq(Ids)
        /\ Len(unread) \in Nat \ {0} /\ (Len(unread) = 1 => Tail(unread) = <<>>)
    BY <1>4, <2>1, QueueHead
  <2>3. BridgeTypeOK' /\ PayloadIsThere'
    BY <1>1, <1>4, <1>5, <2>1, <2>2
  <2>4. OneOnTheWire'
    <3> SUFFICES ASSUME ~expired'
                 PROVE  OneOnTheWire'
      BY DEF OneOnTheWire
    <3>1. ~expired /\ Len(unread) <= 1
      BY <1>1 DEF BridgeIInv, OneOnTheWire
    <3>2. \A n \in Nat \ {0} : n <= 1 => n = 1
      OBVIOUS
    <3>3. unread' = <<>> /\ asked = {} /\ answers = <<>>
      BY <1>1, <2>1, <2>2, <3>1, <3>2 DEF BridgeIInv, OneOnTheWire
    <3>4. \E d \in Callers : Reading(d) /\ Head(unread) = asking[d]
      BY <1>1, <2>1, <2>2, <3>1 DEF BridgeIInv, OneOnTheWire
    <3>5. Len(<<>>) = 0
      BY EmptySeq
    <3> QED
      BY <1>1, <1>2, <2>1, <3>3, <3>4, <3>5 DEF OneOnTheWire
  <2> QED
    BY <1>3, <2>3, <2>4 DEF BridgeIInv
<1>7. CASE PeerAnswers
  <2>1. PICK i \in asked, k \in Kinds :
           /\ asked' = asked \ {i}
           /\ answers' = IF skewed THEN answers
                         ELSE Append(answers, [id |-> i, kind |-> k, whole |-> FALSE])
    BY <1>7 DEF PeerAnswers
  <2> DEFINE frame == [id |-> i, kind |-> k, whole |-> FALSE]
  <2>2. UNCHANGED <<unread, peer>>
    BY <1>7 DEF PeerAnswers
  <2>3. frame \in Frames
    BY <1>4, BridgeAssumption DEF Frames
  <2>4. /\ Append(answers, frame) \in Seq(Frames) /\ Append(answers, frame) # <<>>
        /\ Len(Append(answers, frame)) = Len(answers) + 1
        /\ Append(answers, frame)[Len(answers) + 1] = frame
    BY <1>4, <2>3, AppendProperties
  <2>5. BridgeTypeOK' /\ PayloadIsThere'
    BY <1>1, <1>4, <1>5, <2>1, <2>2, <2>4 DEF BridgeIInv, BridgeTypeOK
  <2>6. OneOnTheWire'
    <3> SUFFICES ASSUME ~expired'
                 PROVE  OneOnTheWire'
      BY DEF OneOnTheWire
    <3>1. ~expired /\ ~skewed
      BY <1>1 DEF BridgeIInv, InStepUntilTimeout
    <3>2. answers = <<>> /\ unread = <<>>
      BY <1>1, <2>1, <3>1 DEF BridgeIInv, OneOnTheWire
    <3>3. PICK c \in Callers : Reading(c) /\ i = asking[c]
      BY <1>1, <2>1, <3>1 DEF BridgeIInv, OneOnTheWire
    <3>4. \A d \in Callers : Reading(d) => d = c
      BY <3>3, OnlyReader DEF Reading, BridgeIInv, BridgeTypeOK
    <3>5. asked' = {}
      BY <1>1, <2>1, <3>1, <3>3, <3>4 DEF BridgeIInv, OneOnTheWire
    <3>6. Len(answers') = 1 /\ answers'[1] = frame
      BY <2>1, <2>4, <3>1, <3>2, EmptySeq
    <3>7. Len(unread') <= 1 /\ unread' = <<>>
      BY <2>2, <3>2, EmptySeq
    <3> QED
      BY <1>1, <1>2, <3>3, <3>4, <3>5, <3>6, <3>7 DEF OneOnTheWire
  <2> QED
    BY <1>3, <2>5, <2>6 DEF BridgeIInv
<1>8. CASE PeerFinishes
  <2>1. answers # <<>> /\ answers' = [answers EXCEPT ![Len(answers)].whole = TRUE]
        /\ UNCHANGED <<unread, asked, peer>>
    BY <1>8 DEF PeerFinishes
  <2>2. Len(answers) \in Nat \ {0}
    BY <1>4, <2>1, EmptySeq
  <2>3. answers[Len(answers)] \in Frames
    BY <1>4, <2>2, ElementOfSeq
  <2> DEFINE frame == [answers[Len(answers)] EXCEPT !.whole = TRUE]
  <2>4. frame \in Frames /\ frame.id = answers[Len(answers)].id
    BY <2>3 DEF Frames
  <2>5. answers' = [answers EXCEPT ![Len(answers)] = frame]
    BY <2>1
  <2>6. /\ answers' \in Seq(Frames) /\ Len(answers') = Len(answers)
        /\ \A j \in 1..Len(answers) : answers'[j] = IF j = Len(answers) THEN frame ELSE answers[j]
    BY <1>4, <2>2, <2>4, <2>5, ExceptSeq
  <2>7. answers' # <<>>
    BY <2>2, <2>6, EmptySeq
  <2>8. answers'[1].id = answers[1].id
    <3> HIDE DEF frame
    <3>1. 1 \in 1..Len(answers)
      BY <2>2
    <3>2. answers'[1] = IF 1 = Len(answers) THEN frame ELSE answers[1]
      BY <2>6, <3>1
    <3> QED
      BY <2>4, <3>2
  <2>9. BridgeTypeOK' /\ PayloadIsThere'
    BY <1>1, <1>4, <1>5, <2>1, <2>6, <2>7
  <2>10. OneOnTheWire'
    BY <1>1, <1>2, <2>1, <2>6, <2>7, <2>8 DEF BridgeIInv, OneOnTheWire
  <2> QED
    BY <1>3, <2>9, <2>10 DEF BridgeIInv
<1>9. CASE PeerLeaves
  <2>1. peer' = FALSE /\ UNCHANGED <<unread, asked, answers>>
    BY <1>9 DEF PeerLeaves
  <2>2. BridgeTypeOK' /\ PayloadIsThere'
    BY <1>1, <1>4, <1>5, <2>1
  <2>3. OneOnTheWire'
    BY <1>1, <1>2, <2>1 DEF BridgeIInv, OneOnTheWire
  <2> QED
    BY <1>3, <2>2, <2>3 DEF BridgeIInv
<1> QED
  BY <1>6, <1>7, <1>8, <1>9 DEF PeerStep

\* Every step of the bridge preserves the invariant.
LEMMA BridgeStep == BridgeIInv /\ [BridgeNext]_bridgeVars => BridgeIInv'
<1> SUFFICES ASSUME BridgeIInv, [BridgeNext]_bridgeVars
             PROVE  BridgeIInv'
  OBVIOUS
<1>1. CASE UNCHANGED bridgeVars
  <2>1. UNCHANGED <<calls, phase, asking, tool, got, taken, holder, unread, asked, answers,
                    skewed, peer, expired>>
    BY <1>1 DEF bridgeVars
  <2>2. BridgeTypeOK' /\ PayloadIsThere' /\ OwnAnswerOnly' /\ InStepUntilTimeout'
    BY <2>1 DEF BridgeIInv, BridgeTypeOK, PayloadIsThere, OwnAnswerOnly, InStepUntilTimeout
  <2>3. OneOnTheWire'
    BY <2>1 DEF BridgeIInv, OneOnTheWire, Reading
  <2> QED
    BY <2>2, <2>3 DEF BridgeIInv
<1>2. ASSUME NEW c \in Callers, CallStep(c)
      PROVE  BridgeIInv'
  BY <1>2, EndingKeeps, BeginningKeeps, ProgressKeeps DEF CallStep, Ending
<1>3. ASSUME NEW c \in Callers, NEW isTool \in BOOLEAN, StartCall(c, isTool)
      PROVE  BridgeIInv'
  BY <1>3, BeginningKeeps
<1> QED
  BY <1>1, <1>2, <1>3, PeerKeeps DEF BridgeNext

-----------------------------------------------------------------------------
(* The store.                                                              *)

\* A read-only store has no connection that can write, and rows are counted
\* where they are written.
StoreIInv ==
    /\ StoreTypeOK
    /\ written <= rows
    /\ readonly => \A k \in Conns : flags[k] # "read write"
    /\ ReadonlyStaysClean

\* A store has no connection before it is opened.
LEMMA StoreStart == StoreInit => StoreIInv
<1> SUFFICES ASSUME StoreInit PROVE StoreIInv
  OBVIOUS
<1>1. 0 \in 0..MaxRows /\ RowLimit \in 0..MaxRows /\ 0 <= RowLimit
  BY StoreAssumption
<1>2. StoreTypeOK
  BY <1>1 DEF StoreInit, StoreTypeOK, Modes, Results
<1> QED
  BY <1>1, <1>2 DEF StoreInit, StoreIInv, ReadonlyStaysClean

\* A row is written only through a connection that can write.
LEMMA RunKeeps ==
    ASSUME StoreIInv, NEW r \in Readers, RunQuery(r)
    PROVE  StoreIInv'
<1>1. PICK k \in Held(r) : \E o \in Outcomes(querying[r], k) :
          /\ found' = [found EXCEPT ![r] = o]
          /\ IF o = "done"
             THEN rows' = rows + 1 /\ written' = written + 1
             ELSE UNCHANGED <<rows, written>>
          /\ borrowed' = [borrowed EXCEPT ![k] = NoReader]
  BY DEF RunQuery
<1>2. PICK o \in Outcomes(querying[r], k) :
          /\ found' = [found EXCEPT ![r] = o]
          /\ IF o = "done"
             THEN rows' = rows + 1 /\ written' = written + 1
             ELSE UNCHANGED <<rows, written>>
  BY <1>1
<1>3. k \in Conns
  BY DEF Held
<1>4. o \in Results
  BY DEF Outcomes, Results
<1>5. o = "done" => Writable(k) /\ rows < MaxRows
  BY DEF Outcomes
<1>6. o = "done" => flags[k] = "read write"
  BY <1>5 DEF Writable
<1>7. UNCHANGED <<store, readonly, flags, queryOnly>> /\ querying' = [querying EXCEPT ![r] = "nothing"]
  BY DEF RunQuery, setupVars
<1>8. rows' \in 0..MaxRows /\ written' \in 0..MaxRows /\ written' <= rows'
  <2>1. /\ MaxRows \in Nat /\ rows \in 0..MaxRows /\ written \in 0..MaxRows
        /\ written <= rows
    BY StoreAssumption DEF StoreIInv, StoreTypeOK
  <2>2. CASE o = "done"
    <3>1. rows' = rows + 1 /\ written' = written + 1 /\ rows < MaxRows
      BY <1>2, <1>5, <2>2
    <3> QED
      BY <2>1, <3>1
  <2>3. CASE o # "done"
    BY <1>2, <2>1, <2>3
  <2> QED
    BY <2>2, <2>3
<1>9. StoreTypeOK'
  BY <1>1, <1>2, <1>4, <1>7, <1>8 DEF StoreIInv, StoreTypeOK
<1>10. readonly => o # "done"
  BY <1>3, <1>6 DEF StoreIInv
<1> QED
  BY <1>2, <1>7, <1>8, <1>9, <1>10 DEF StoreIInv, ReadonlyStaysClean

\* Every step of the store preserves the invariant.
LEMMA StoreStep == StoreIInv /\ [StoreNext]_storeVars => StoreIInv'
<1> SUFFICES ASSUME StoreIInv, [StoreNext]_storeVars
             PROVE  StoreIInv'
  OBVIOUS
<1>1. CASE UNCHANGED storeVars
  BY <1>1 DEF storeVars, StoreIInv, StoreTypeOK, ReadonlyStaysClean
<1>2. CASE Open
  <2>1. flags' \in [Conns -> Modes] /\ (readonly => \A k \in Conns : flags'[k] # "read write")
    BY <1>2 DEF Open, Opened, OpenFails, StoreIInv, StoreTypeOK, Modes
  <2>2. queryOnly' \subseteq Conns /\ store' \in {"closed", "open", "failed"}
    BY <1>2 DEF Open, Opened, OpenFails, StoreIInv, StoreTypeOK
  <2> QED
    BY <1>2, <2>1, <2>2 DEF Open, StoreIInv, StoreTypeOK, ReadonlyStaysClean
<1>3. ASSUME NEW r \in Readers,
             \/ GetConnection(r) \/ PoolExhausted(r) \/ ReturnConnection(r)
             \/ \E q \in Queries \cup {"custom"} : StartQuery(r, q)
      PROVE  StoreIInv'
  <2>1. UNCHANGED <<store, readonly, flags, queryOnly, rows, written>>
    BY <1>3 DEF GetConnection, PoolExhausted, ReturnConnection, StartQuery, setupVars
  <2>2. borrowed' \in [Conns -> Readers \cup {NoReader}]
    BY <1>3 DEF GetConnection, PoolExhausted, ReturnConnection, StartQuery, StoreIInv, StoreTypeOK
  <2>3. querying' \in [Readers -> Queries \cup {"nothing", "custom"}]
    BY <1>3 DEF GetConnection, PoolExhausted, ReturnConnection, StartQuery, StoreIInv, StoreTypeOK
  <2>4. found' \in [Readers -> Results]
    BY <1>3 DEF GetConnection, PoolExhausted, ReturnConnection, StartQuery, StoreIInv, StoreTypeOK,
                Results
  <2> QED
    BY <2>1, <2>2, <2>3, <2>4 DEF StoreIInv, StoreTypeOK, ReadonlyStaysClean
<1>4. CASE OthersWrite
  <2>1. rows + 1 \in 0..MaxRows /\ written <= rows + 1
    <3>1. /\ MaxRows \in Nat /\ rows \in 0..MaxRows /\ written \in 0..MaxRows
          /\ written <= rows /\ rows < MaxRows
      BY <1>4, StoreAssumption DEF OthersWrite, StoreIInv, StoreTypeOK
    <3> QED
      BY <3>1
  <2> QED
    BY <1>4, <2>1 DEF OthersWrite, setupVars, StoreIInv, StoreTypeOK, ReadonlyStaysClean
<1> QED
  BY <1>1, <1>2, <1>3, <1>4, RunKeeps DEF StoreNext, QueryStep

-----------------------------------------------------------------------------
(* The server around them.                                                 *)

\* The backend does nothing to the bridge that the bridge does not allow, and
\* nothing to the store that the store does not allow.
LEMMA BackendStep == [Next]_vars => [BridgeNext]_bridgeVars /\ [StoreNext]_storeVars
<1> SUFFICES ASSUME [Next]_vars
             PROVE  [BridgeNext]_bridgeVars /\ [StoreNext]_storeVars
  OBVIOUS
<1>1. Loop \in Callers /\ Loop \in Readers
  BY BackendAssumption
<1>2. CASE UNCHANGED vars
  BY <1>2 DEF vars
<1>3. CASE LoopStep
  <2>1. CASE StartStore
    BY <1>1, <2>1 DEF StartStore, StoreNext, Queries
  <2>2. CASE InfoRead \/ ConnectBridge \/ HandlePrompt \/ QueryEnds \/ CallEnds
    BY <2>2 DEF InfoRead, ConnectBridge, HandlePrompt, TakePrompt, QueryEnds, CallEnds, Reply
  <2>3. CASE HandleQuery
    BY <1>1, <2>3 DEF HandleQuery, ForStore, StoreNext
  <2>4. CASE HandleTool
    BY <1>1, <2>4 DEF HandleTool, BridgeNext
  <2> QED
    BY <1>3, <2>1, <2>2, <2>3, <2>4 DEF LoopStep
<1>4. ASSUME NEW c \in Callers, CallOf(c)
      PROVE  [BridgeNext]_bridgeVars /\ [StoreNext]_storeVars
  BY <1>4 DEF CallOf, BridgeNext
<1>5. CASE Process \/ OthersCall
  BY <1>5 DEF Process, OthersCall, BridgeNext
<1>6. ASSUME NEW r \in Readers, QueryOf(r)
      PROVE  [BridgeNext]_bridgeVars /\ [StoreNext]_storeVars
  BY <1>6 DEF QueryOf, StoreNext
<1>7. CASE OthersQuery \/ Database
  BY <1>7 DEF OthersQuery, Database, StoreNext
<1> QED
  BY <1>2, <1>3, <1>4, <1>5, <1>6, <1>7 DEF Next

\* The composition implements its parts: seen through its own variables, the
\* bridge in the server is the bridge by itself, and so is the store.
THEOREM BackendImplementsParts == Spec => BridgeSpec /\ StoreSpec
<1>1. Init => BridgeInit /\ StoreInit
  BY DEF Init
<1> QED
  BY <1>1, BackendStep, PTL DEF Spec, BridgeSpec, StoreSpec

\* Nobody is ever given an answer made for another call, however late it comes.
THEOREM OwnAnswers == Spec => []OwnAnswerOnly
<1>1. BridgeIInv => OwnAnswerOnly
  BY DEF BridgeIInv
<1> QED
  BY <1>1, BackendImplementsParts, BridgeStart, BridgeStep, PTL DEF BridgeSpec

\* The bridge stays in step with the process until a call times out or leaves
\* part of a frame behind.
THEOREM InStep == Spec => []InStepUntilTimeout
<1>1. BridgeIInv => InStepUntilTimeout
  BY DEF BridgeIInv
<1> QED
  BY <1>1, BackendImplementsParts, BridgeStart, BridgeStep, PTL DEF BridgeSpec

\* A read-only store writes nothing.
THEOREM ReadonlyWritesNothing == Spec => []ReadonlyStaysClean
<1>1. StoreIInv => ReadonlyStaysClean
  BY DEF StoreIInv
<1> QED
  BY <1>1, BackendImplementsParts, StoreStart, StoreStep, PTL DEF StoreSpec

-----------------------------------------------------------------------------

ServerTypeOK ==
    /\ config \in Deployments
    /\ server \in {"starting", "reading info", "connecting", "serving", "aborted"}
    /\ connected \in BOOLEAN
    /\ handled \in 0..MaxRequests
    /\ busy \in {"no", "store", "bridge"}
    /\ replies \in [1..handled -> Seq(Replies)]

\* A request taken is one more whose replies are kept.
LEMMA TakeKeeps ==
    ASSUME ServerTypeOK, Take, NEW reply \in Seq(Replies), replies' = Append(replies, reply)
    PROVE  handled' \in 0..MaxRequests /\ replies' \in [1..handled' -> Seq(Replies)]
<1>1. handled \in Nat /\ handled < MaxRequests /\ handled' = handled + 1
  BY BackendAssumption DEF ServerTypeOK, Take
<1>2. replies \in Seq(Seq(Replies)) /\ Len(replies) = handled
  <2>1. replies \in [1..handled -> Seq(Replies)]
    BY DEF ServerTypeOK
  <2>2. \A S, n, f : n \in Nat /\ f \in [1..n -> S] => f \in Seq(S) /\ Len(f) = n
    OBVIOUS
  <2> QED
    BY <1>1, <2>1, <2>2
<1>3. replies' \in Seq(Seq(Replies)) /\ Len(replies') = handled + 1
  BY <1>2, AppendProperties
<1>4. replies' \in [1..handled' -> Seq(Replies)]
  BY <1>1, <1>3, LenProperties
<1> QED
  BY <1>1, <1>4, BackendAssumption

\* A reply is one more for the request that was taken last.
LEMMA ReplyKeeps ==
    ASSUME ServerTypeOK, NEW ok, Reply(ok)
    PROVE  ServerTypeOK'
<1> DEFINE reply == IF ok THEN "response" ELSE "500"
<1>1. ASSUME handled \in 1..handled
      PROVE  Append(replies[handled], reply) \in Seq(Replies)
  <2>1. replies[handled] \in Seq(Replies)
    BY <1>1 DEF ServerTypeOK
  <2>2. reply \in Replies
    BY DEF Replies
  <2> QED
    BY <2>1, <2>2, AppendProperties
<1>2. replies' = [replies EXCEPT ![handled] = Append(replies[handled], reply)]
  BY DEF Reply
<1> HIDE DEF reply
<1>3. replies' \in [1..handled -> Seq(Replies)]
  BY <1>1, <1>2 DEF ServerTypeOK
<1> QED
  BY <1>3 DEF Reply, ServerTypeOK

\* Every step of the server keeps its own variables as their types say.
LEMMA ServerStep == ServerTypeOK /\ [Next]_vars => ServerTypeOK'
<1> SUFFICES ASSUME ServerTypeOK, [Next]_vars
             PROVE  ServerTypeOK'
  OBVIOUS
<1>1. CASE UNCHANGED loopVars
  BY <1>1 DEF loopVars, ServerTypeOK
<1>2. CASE StartStore \/ InfoRead \/ ConnectBridge
  BY <1>2 DEF StartStore, InfoRead, ConnectBridge, ServerTypeOK
<1>3. CASE HandlePrompt
  <2>1. PICK answer \in {"503", "echo"} : TakePrompt(answer)
    BY <1>3 DEF HandlePrompt
  <2>2. <<answer>> \in Seq(Replies)
    BY DEF Replies
  <2>3. handled' \in 0..MaxRequests /\ replies' \in [1..handled' -> Seq(Replies)]
    BY <2>1, <2>2, TakeKeeps DEF TakePrompt
  <2> QED
    BY <2>1, <2>3 DEF TakePrompt, Take, ServerTypeOK
<1>4. CASE HandleQuery \/ HandleTool
  <2>1. Take /\ replies' = Append(replies, <<>>) /\ busy' \in {"store", "bridge"}
    BY <1>4 DEF HandleQuery, HandleTool
  <2>2. <<>> \in Seq(Replies)
    BY EmptySeq
  <2>3. handled' \in 0..MaxRequests /\ replies' \in [1..handled' -> Seq(Replies)]
    BY <2>1, <2>2, TakeKeeps
  <2> QED
    BY <2>1, <2>3 DEF Take, ServerTypeOK
<1>5. CASE QueryEnds \/ CallEnds
  BY <1>5, ReplyKeeps DEF QueryEnds, CallEnds
<1>6. CASE \/ \E c \in Callers : CallOf(c)
           \/ Process \/ OthersCall \/ OthersQuery \/ Database
           \/ \E r \in Readers : QueryOf(r)
  BY <1>1, <1>6 DEF CallOf, Process, OthersCall, OthersQuery, Database, QueryOf
<1> QED
  BY <1>1, <1>2, <1>3, <1>4, <1>5, <1>6 DEF Next, LoopStep, vars

\* The state of the backend is always one its type describes.
THEOREM BackendTypeCorrect == Spec => []TypeOK
<1>1. Init => ServerTypeOK
  <2> SUFFICES ASSUME Init PROVE ServerTypeOK
    OBVIOUS
  <2>1. 0 \in 0..MaxRequests
    BY BackendAssumption
  <2>2. <<>> \in [1..0 -> Seq(Replies)]
    BY EmptySeq, LenProperties
  <2> QED
    BY <2>1, <2>2 DEF Init, ServerTypeOK
<1>2. BridgeIInv /\ StoreIInv /\ ServerTypeOK => TypeOK
  BY DEF BridgeIInv, StoreIInv, ServerTypeOK, TypeOK
<1>3. Spec => []BridgeIInv
  BY BackendImplementsParts, BridgeStart, BridgeStep, PTL DEF BridgeSpec
<1>4. Spec => []StoreIInv
  BY BackendImplementsParts, StoreStart, StoreStep, PTL DEF StoreSpec
<1>5. Spec => []ServerTypeOK
  BY <1>1, ServerStep, PTL DEF Spec
<1> QED
  BY <1>2, <1>3, <1>4, <1>5, PTL

===================================================================================
