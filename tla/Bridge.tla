-------------------------------- MODULE Bridge --------------------------------
(***************************************************************************)
(* The bridge of crates/mtw-bridge: tool calls sent over one Unix socket   *)
(* to an external process, one frame per request and one per answer.  A    *)
(* call holds the stream's lock while it writes and reads; a call that     *)
(* times out lets go of it, and its answer may still come.  Callers share  *)
(* the bridge, as modules that hold the Arc<dyn MtwBridge> do.             *)
(***************************************************************************)
EXTENDS Naturals, Sequences, FiniteSets

CONSTANTS Callers,       \* the tasks that call the bridge
          Kinds,         \* what the external process may answer
          MaxCalls,      \* bound: calls made over the bridge
          SocketRoom,    \* frames the socket holds before a write waits
          NoCaller       \* nobody holds the lock

\* What an answer may be: a result, an error of the tool, neither, something
\* that does not decode, or a length beyond 10 MiB.
Answers == {"result", "tool error", "empty", "garbled", "huge"}

ASSUME BridgeAssumption ==
    /\ Kinds \subseteq Answers
    /\ MaxCalls \in Nat /\ SocketRoom \in Nat \ {0}
    /\ IsFiniteSet(Callers) /\ NoCaller \notin Callers

VARIABLES
    calls,    \* calls so far: the request of call n carries the id n
    phase,    \* what each caller is doing
    asking,   \* the id of its request ...
    tool,     \* ... and whether it is call_tool or health
    got,      \* how its latest call ended
    taken,    \* ... and, of a result, the id the answer was made for
    holder,   \* who holds the lock of the stream
    unread,   \* requests on their way to the external process
    asked,    \* requests it has read and not answered
    answers,  \* frames on the way back: their id, kind, and if they are whole
    skewed,   \* reading is not at the start of a frame any more
    peer,     \* the external process is there
    expired   \* history: some call has timed out, or left part of a frame

bridgeVars == <<calls, phase, asking, tool, got, taken, holder, unread, asked,
                answers, skewed, peer, expired>>
callVars == <<asking, tool>>
wireVars == <<unread, asked, answers, peer>>

Ends == {"none", "result", "tool error", "empty", "garbled", "huge", "mismatch",
         "timeout", "broken", "healthy", "unhealthy"}
Ids == 1..MaxCalls

BridgeTypeOK ==
    /\ calls \in 0..MaxCalls
    /\ phase \in [Callers -> {"idle", "locking", "writing", "length", "payload"}]
    /\ asking \in [Callers -> 0..MaxCalls]
    /\ tool \in [Callers -> BOOLEAN]
    /\ got \in [Callers -> Ends]
    /\ taken \in [Callers -> 0..MaxCalls]
    /\ holder \in Callers \cup {NoCaller}
    /\ \A c \in Callers : phase[c] \in {"writing", "length", "payload"} <=> holder = c
    /\ unread \in Seq(Ids) /\ asked \subseteq Ids
    /\ answers \in Seq([id : Ids, kind : Answers, whole : BOOLEAN])
    /\ skewed \in BOOLEAN /\ peer \in BOOLEAN /\ expired \in BOOLEAN

BridgeInit ==
    /\ calls = 0
    /\ phase = [c \in Callers |-> "idle"]
    /\ asking = [c \in Callers |-> 0]
    /\ tool = [c \in Callers |-> TRUE]
    /\ got = [c \in Callers |-> "none"]
    /\ taken = [c \in Callers |-> 0]
    /\ holder = NoCaller
    /\ unread = <<>> /\ asked = {} /\ answers = <<>>
    /\ skewed = FALSE /\ peer = TRUE /\ expired = FALSE

-----------------------------------------------------------------------------
(* A call.                                                                 *)

\* call_tool() and health() make a request with an id of its own.
StartCall(c, isTool) ==
    /\ phase[c] = "idle" /\ calls < MaxCalls
    /\ calls' = calls + 1
    /\ phase' = [phase EXCEPT ![c] = "locking"]
    /\ asking' = [asking EXCEPT ![c] = calls + 1]
    /\ tool' = [tool EXCEPT ![c] = isTool]
    /\ got' = [got EXCEPT ![c] = "none"]
    /\ taken' = [taken EXCEPT ![c] = 0]
    /\ UNCHANGED <<holder, skewed, expired, wireVars>>

Lock(c) ==
    /\ phase[c] = "locking" /\ holder = NoCaller
    /\ holder' = c
    /\ phase' = [phase EXCEPT ![c] = "writing"]
    /\ UNCHANGED <<calls, callVars, got, taken, skewed, expired, wireVars>>

\* Fault: whatever answer comes next is taken.
EndedUnchecked(c, how, id) ==
    /\ phase' = [phase EXCEPT ![c] = "idle"]
    /\ holder' = NoCaller
    /\ got' = [got EXCEPT ![c] = how]
    /\ taken' = [taken EXCEPT ![c] = id]

\* request() ends and drops the lock; a health check only tells whether it
\* was an error, and call_tool looks at the id before anything else.
Ended(c, how, id) ==
    /\ phase' = [phase EXCEPT ![c] = "idle"]
    /\ holder' = NoCaller
    /\ LET error == how \in {"timeout", "broken", "huge", "garbled"}
           end == CASE ~tool[c] -> IF error THEN "unhealthy" ELSE "healthy"
                    [] tool[c] /\ ~error /\ id # asking[c] -> "mismatch"
                    [] OTHER -> how
       IN /\ got' = [got EXCEPT ![c] = end]
          /\ taken' = [taken EXCEPT ![c] =
                 IF end \in {"result", "tool error", "empty"} THEN id ELSE 0]

\* Fault: the lock is only held for the write.
WriteAndUnlock(c) ==
    /\ phase[c] = "writing" /\ holder = c /\ peer
    /\ Len(unread) < SocketRoom
    /\ unread' = Append(unread, asking[c])
    /\ holder' = NoCaller
    /\ phase' = [phase EXCEPT ![c] = "length"]
    /\ UNCHANGED <<calls, callVars, got, taken, skewed, expired, asked, answers, peer>>

\* write_all() has no timeout: it waits for room in the socket.
Write(c) ==
    /\ phase[c] = "writing" /\ holder = c /\ peer
    /\ Len(unread) < SocketRoom
    /\ unread' = Append(unread, asking[c])
    /\ phase' = [phase EXCEPT ![c] = "length"]
    /\ UNCHANGED <<calls, callVars, got, taken, holder, skewed, expired, asked, answers, peer>>

WriteFails(c) ==
    /\ phase[c] = "writing" /\ ~peer
    /\ Ended(c, "broken", 0)
    /\ UNCHANGED <<calls, callVars, skewed, expired, wireVars>>

\* A length too large is an error, and the payload stays where it is.
ReadLength(c) ==
    /\ phase[c] = "length" /\ answers # <<>> /\ ~skewed
    /\ UNCHANGED <<calls, callVars, unread, asked, peer>>
    /\ IF Head(answers).kind = "huge"
       THEN /\ Ended(c, "huge", 0)
            /\ answers' = Tail(answers)
            /\ skewed' = TRUE /\ expired' = TRUE
       ELSE /\ phase' = [phase EXCEPT ![c] = "payload"]
            /\ UNCHANGED <<got, taken, holder, answers, skewed, expired>>

ReadPayload(c) ==
    /\ phase[c] = "payload" /\ Head(answers).whole
    /\ Ended(c, Head(answers).kind, Head(answers).id)
    /\ answers' = Tail(answers)
    /\ UNCHANGED <<calls, callVars, unread, asked, peer, skewed, expired>>

\* Nothing came in time.  Bytes of a frame that began to come are lost, and
\* with them the start of the next frame.
Timeout(c) ==
    /\ peer
    /\ UNCHANGED <<calls, callVars, unread, asked, peer>>
    /\ expired' = TRUE
    /\ Ended(c, "timeout", 0)
    /\ \/ /\ phase[c] = "length" /\ (answers = <<>> \/ skewed)
          /\ UNCHANGED answers
          /\ skewed' \in {skewed, skewed \/ asked # {}}
       \/ /\ phase[c] = "payload" /\ ~Head(answers).whole
          /\ answers' = Tail(answers)
          /\ skewed' = TRUE

\* Out of step with the frames, a read finds a length that is none or a
\* payload that does not decode, for ever after.
ReadSkewed(c) ==
    /\ phase[c] = "length" /\ skewed
    /\ \E how \in {"huge", "garbled"} : Ended(c, how, 0)
    /\ UNCHANGED <<calls, callVars, skewed, expired, wireVars>>

\* The stream ended: what was sent before can still be read.
ReadFails(c) ==
    /\ ~peer
    /\ \/ phase[c] = "length" /\ answers = <<>>
       \/ phase[c] = "payload" /\ ~Head(answers).whole
    /\ Ended(c, "broken", 0)
    /\ UNCHANGED <<calls, callVars, skewed, expired, wireVars>>

-----------------------------------------------------------------------------
(* The external process: reads requests, and answers them in any order, or *)
(* late, or not at all, or goes away.  It sends one frame after another.   *)

PeerReads ==
    /\ peer /\ unread # <<>>
    /\ asked' = asked \cup {Head(unread)}
    /\ unread' = Tail(unread)
    /\ UNCHANGED <<calls, phase, callVars, got, taken, holder, answers, skewed, peer, expired>>

PeerAnswers ==
    /\ peer
    /\ answers # <<>> => answers[Len(answers)].whole
    /\ \E i \in asked, k \in Kinds :
          /\ asked' = asked \ {i}
          /\ answers' = IF skewed THEN answers
                        ELSE Append(answers, [id |-> i, kind |-> k, whole |-> FALSE])
    /\ UNCHANGED <<calls, phase, callVars, got, taken, holder, unread, skewed, peer, expired>>

PeerFinishes ==
    /\ peer /\ answers # <<>> /\ ~answers[Len(answers)].whole
    /\ answers' = [answers EXCEPT ![Len(answers)].whole = TRUE]
    /\ UNCHANGED <<calls, phase, callVars, got, taken, holder, unread, asked, skewed, peer, expired>>

PeerLeaves ==
    /\ peer /\ peer' = FALSE
    /\ UNCHANGED <<calls, phase, callVars, got, taken, holder, unread, asked, answers, skewed, expired>>

-----------------------------------------------------------------------------

CallStep(c) ==
    Lock(c) \/ Write(c) \/ WriteFails(c) \/ ReadLength(c) \/ ReadPayload(c)
        \/ Timeout(c) \/ ReadSkewed(c) \/ ReadFails(c)
PeerStep == PeerReads \/ PeerAnswers \/ PeerFinishes \/ PeerLeaves

BridgeNext ==
    \/ \E c \in Callers : CallStep(c) \/ \E isTool \in BOOLEAN : StartCall(c, isTool)
    \/ PeerStep

BridgeSpec == BridgeInit /\ [][BridgeNext]_bridgeVars

-----------------------------------------------------------------------------
(* Properties.                                                             *)

\* A result, an error or an emptiness that call_tool reports was made for
\* its own request, however late answers of other calls arrive
\* (unix.rs:89-102).
OwnAnswerOnly ==
    \A c \in Callers : taken[c] # 0 => taken[c] = asking[c]

\* As long as no call has timed out or left part of a frame behind, answers
\* and requests stay in step: nobody is given the answer of another call,
\* because the lock is held from the write to the end of the read
\* (unix.rs:42-70).
InStepUntilTimeout ==
    ~expired => ~skewed /\ \A c \in Callers : got[c] # "mismatch"

===============================================================================
