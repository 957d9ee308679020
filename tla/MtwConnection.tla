--------------------------- MODULE MtwConnection ---------------------------
(***************************************************************************)
(* The client connection of packages/client/src/connection.ts.  One        *)
(* JavaScript thread runs every callback to its end; what interleaves are  *)
(* the callbacks: the application's calls, the timers, and the events of   *)
(* each WebSocket.  A socket that was closed or replaced keeps its         *)
(* handlers, and they act on the same object as those of its successor.    *)
(***************************************************************************)
EXTENDS Naturals, FiniteSets

CONSTANTS Requests,     \* the requests the application makes
          MaxSockets,   \* bound: sockets opened
          MaxAttempts,  \* options.maxReconnectAttempts
          Reconnect,    \* options.reconnect
          Patient,      \* the application waits for the old socket's close
                        \* event before it calls connect() again
          None

ASSUME ConnectionAssumption ==
    /\ MaxSockets \in Nat /\ MaxAttempts \in Nat
    /\ Reconnect \in BOOLEAN /\ Patient \in BOOLEAN
    /\ None \notin Nat

Sockets == 1..MaxSockets

VARIABLES
    state,        \* _state
    ws,           \* the current socket, or None
    sock,         \* readyState of each socket; "closed" once onclose has run
    shaken,       \* sockets whose handshakeComplete is true
    connecting,   \* sockets whose connection timer is armed
    attempt,      \* reconnectAttempt
    armed,        \* reconnect timers that are armed ...
    held,         \* ... and whether reconnectTimer names one of them
    pinging,      \* pingTimer is armed
    ponging,      \* pongTimer is armed
    intentional,  \* intentionalClose
    pending,      \* keys of pendingRequests
    outcome,      \* how the promise of each request settled
    via,          \* the socket each request was sent on
    announced,    \* the event the last handshake emitted
    replaced      \* history: sockets whose place another took before they were closed

vars == <<state, ws, sock, shaken, connecting, attempt, armed, held, pinging,
          ponging, intentional, pending, outcome, via, announced, replaced>>

lifecycle == <<state, ws, sock, shaken, connecting, attempt, armed, held,
               pinging, ponging, intentional, announced, replaced>>
requests == <<pending, outcome, via>>

States == {"disconnected", "connecting", "connected", "disconnecting", "reconnecting"}
ReadyStates == {"unused", "connecting", "open", "closing", "closed"}

TypeOK ==
    /\ state \in States
    /\ ws \in Sockets \cup {None}
    /\ sock \in [Sockets -> ReadyStates]
    /\ shaken \subseteq Sockets /\ connecting \subseteq Sockets
    /\ attempt \in 0..MaxAttempts /\ armed \in Nat
    /\ held \in BOOLEAN /\ pinging \in BOOLEAN /\ ponging \in BOOLEAN
    /\ intentional \in BOOLEAN
    /\ pending \subseteq Requests
    /\ outcome \in [Requests -> {"unasked", "waiting", "resolved", "lost", "timeout"}]
    /\ via \in [Requests -> Sockets \cup {None}]
    /\ announced \in {"nothing", "connected", "reconnected"}
    /\ replaced \subseteq Sockets

Init ==
    /\ state = "disconnected"
    /\ ws = None
    /\ sock = [s \in Sockets |-> "unused"]
    /\ shaken = {} /\ connecting = {}
    /\ attempt = 0 /\ armed = 0
    /\ held = FALSE /\ pinging = FALSE /\ ponging = FALSE /\ intentional = FALSE
    /\ pending = {}
    /\ outcome = [r \in Requests |-> "unasked"]
    /\ via = [r \in Requests |-> None]
    /\ announced = "nothing"
    /\ replaced = {}

-----------------------------------------------------------------------------
(* Helpers shared by the handlers.                                         *)

Live(s) == sock[s] \in {"connecting", "open"}
Used(s) == sock[s] # "unused"
\* A socket whose close event is still to come.
Unfinished(s) == sock[s] \in {"connecting", "open", "closing"}

\* doConnect(): a new socket takes the place of the current one, whatever that
\* one is doing.
DoConnect ==
    \E s \in Sockets :
        /\ ~Used(s) /\ \A t \in Sockets : t < s => Used(t)
        /\ state' = "connecting"
        /\ ws' = s
        /\ sock' = [sock EXCEPT ![s] = "connecting"]
        /\ connecting' = connecting \cup {s}
        /\ replaced' = replaced \cup {t \in Sockets : Unfinished(t)}

\* Fault: only the pong timer is cleared.
StopPong == ponging' = FALSE /\ UNCHANGED pinging

StopPing == pinging' = FALSE /\ ponging' = FALSE

\* Fault: the map is cleared and the promises are left unsettled.
ForgetPending == pending' = {} /\ UNCHANGED <<outcome, via>>

RejectAllPending ==
    /\ outcome' = [r \in Requests |->
                      IF r \in pending /\ outcome[r] = "waiting" THEN "lost" ELSE outcome[r]]
    /\ pending' = {}
    /\ UNCHANGED via

\* Fault: one attempt too many.
ScheduleOneMore ==
    IF attempt > MaxAttempts
    THEN state' = "disconnected" /\ UNCHANGED <<attempt, armed, held>>
    ELSE /\ state' = "reconnecting"
         /\ attempt' = attempt + 1 /\ armed' = armed + 1 /\ held' = TRUE

\* scheduleReconnect(): the timer it arms replaces the one in reconnectTimer
\* without clearing it.
ScheduleReconnect ==
    IF attempt >= MaxAttempts
    THEN /\ state' = "disconnected"
         /\ UNCHANGED <<attempt, armed, held>>
    ELSE /\ state' = "reconnecting"
         /\ attempt' = attempt + 1
         /\ armed' = armed + 1
         /\ held' = TRUE

-----------------------------------------------------------------------------
(* The application.                                                        *)

Connect ==
    /\ state \notin {"connected", "connecting"}
    /\ Patient => /\ state = "disconnected"
                  /\ \A s \in Sockets : sock[s] \in {"unused", "closed"}
    /\ intentional' = FALSE
    /\ DoConnect
    /\ UNCHANGED <<shaken, attempt, armed, held, pinging, ponging, announced>>
    /\ UNCHANGED requests

\* Fault: the reconnect timer is left armed.
CloseKeepsTimer ==
    /\ intentional' = TRUE
    /\ StopPing
    /\ sock' = [s \in Sockets |-> IF s = ws /\ Live(s) THEN "closing" ELSE sock[s]]
    /\ ws' = None
    /\ state' = "disconnected"
    /\ RejectAllPending
    /\ UNCHANGED <<shaken, connecting, attempt, armed, held, announced, replaced>>

\* Fault: the socket is let go of without being closed.
CloseKeepsSocket ==
    /\ intentional' = TRUE
    /\ StopPing
    /\ armed' = IF held THEN armed - 1 ELSE armed
    /\ held' = FALSE
    /\ ws' = None
    /\ state' = "disconnected"
    /\ RejectAllPending
    /\ UNCHANGED <<sock, shaken, connecting, attempt, announced, replaced>>

\* close(): "disconnecting" and the disconnect message come and go within the
\* call; the socket's own close event is still to come.
Close ==
    /\ intentional' = TRUE
    /\ StopPing
    /\ armed' = IF held THEN armed - 1 ELSE armed
    /\ held' = FALSE
    /\ sock' = [s \in Sockets |-> IF s = ws /\ Live(s) THEN "closing" ELSE sock[s]]
    /\ ws' = None
    /\ state' = "disconnected"
    /\ RejectAllPending
    /\ UNCHANGED <<shaken, connecting, attempt, announced, replaced>>

\* request(): the entry is made first; when send() throws, the promise is
\* rejected and the entry stays until its timer removes it.  A socket that is
\* no longer open swallows what it is given; one not open yet throws.
Request(r) ==
    /\ outcome[r] = "unasked"
    /\ pending' = pending \cup {r}
    /\ IF state = "connected" /\ ws # None /\ sock[ws] # "connecting"
       THEN /\ outcome' = [outcome EXCEPT ![r] = "waiting"]
            /\ via' = [via EXCEPT ![r] = ws]
       ELSE /\ outcome' = [outcome EXCEPT ![r] = "lost"]
            /\ UNCHANGED via
    /\ UNCHANGED lifecycle

-----------------------------------------------------------------------------
(* Timers.                                                                 *)

RequestTimeout(r) ==
    /\ r \in pending
    /\ pending' = pending \ {r}
    /\ outcome' = [outcome EXCEPT ![r] = IF @ = "waiting" THEN "timeout" ELSE @]
    /\ UNCHANGED via
    /\ UNCHANGED lifecycle

\* Fault: the timeout schedules the next attempt, and so will the close event.
ConnectTimeoutRetries(s) ==
    /\ s \in connecting
    /\ connecting' = connecting \ {s}
    /\ sock' = [sock EXCEPT ![s] = "closing"]
    /\ ScheduleReconnect
    /\ UNCHANGED <<ws, shaken, pinging, ponging, intentional, announced, replaced>>
    /\ UNCHANGED requests

\* Only the opening of the socket is timed.
ConnectTimeout(s) ==
    /\ s \in connecting
    /\ connecting' = connecting \ {s}
    /\ sock' = [sock EXCEPT ![s] = "closing"]
    /\ UNCHANGED <<state, ws, shaken, attempt, armed, held, pinging, ponging,
                   intentional, announced, replaced>>
    /\ UNCHANGED requests

\* A reconnect timer fires, the one reconnectTimer names or a forgotten one,
\* and connects without looking at the state.
ReconnectTimeout ==
    /\ armed > 0
    /\ armed' = armed - 1
    /\ held' \in {FALSE, held /\ armed > 1}
    /\ DoConnect
    /\ UNCHANGED <<shaken, attempt, pinging, ponging, intentional, announced>>
    /\ UNCHANGED requests

\* A keep-alive ping; with pongTimeout < pingInterval, as in the defaults, the
\* previous ping's timer is no longer armed.
PingTick ==
    /\ pinging /\ ~ponging
    /\ ws # None /\ sock[ws] = "open"
    /\ ponging' = TRUE
    /\ UNCHANGED <<state, ws, sock, shaken, connecting, attempt, armed, held,
                   pinging, intentional, announced, replaced>>
    /\ UNCHANGED requests

PongTimeout ==
    /\ ponging
    /\ ponging' = FALSE
    /\ sock' = [s \in Sockets |-> IF s = ws /\ Live(s) THEN "closing" ELSE sock[s]]
    /\ UNCHANGED <<state, ws, shaken, connecting, attempt, armed, held, pinging,
                   intentional, announced, replaced>>
    /\ UNCHANGED requests

-----------------------------------------------------------------------------
(* The events of a socket: messages come only while it is open.            *)

OnOpen(s) ==
    /\ sock[s] = "connecting"
    /\ sock' = [sock EXCEPT ![s] = "open"]
    /\ connecting' = connecting \ {s}
    /\ UNCHANGED <<state, ws, shaken, attempt, armed, held, pinging, ponging,
                   intentional, announced, replaced>>
    /\ UNCHANGED requests

\* The server's answer to the connect message.  The attempt count is reset
\* before it is asked whether this was a reconnection.
OnAck(s) ==
    /\ sock[s] = "open" /\ s \notin shaken
    /\ shaken' = shaken \cup {s}
    /\ state' = "connected"
    /\ attempt' = 0
    /\ pinging' = TRUE /\ ponging' = FALSE
    /\ announced' = IF attempt' > 0 THEN "reconnected" ELSE "connected"
    /\ UNCHANGED <<ws, sock, connecting, armed, held, intentional, replaced>>
    /\ UNCHANGED requests

OnPong(s) ==
    /\ sock[s] = "open" /\ ponging
    /\ ponging' = FALSE
    /\ UNCHANGED <<state, ws, sock, shaken, connecting, attempt, armed, held,
                   pinging, intentional, announced, replaced>>
    /\ UNCHANGED requests

OnResponse(s, r) ==
    /\ sock[s] = "open" /\ via[r] = s
    /\ r \in pending
    /\ pending' = pending \ {r}
    /\ outcome' = [outcome EXCEPT ![r] = "resolved"]
    /\ UNCHANGED via
    /\ UNCHANGED lifecycle

\* Fault: only a connection that had been established is retried.
OnCloseOnceShaken(s) ==
    /\ sock[s] \in {"connecting", "open", "closing"}
    /\ sock' = [sock EXCEPT ![s] = "closed"]
    /\ connecting' = connecting \ {s}
    /\ StopPing
    /\ RejectAllPending
    /\ IF ~intentional /\ Reconnect /\ s \in shaken
       THEN ScheduleReconnect
       ELSE state' = "disconnected" /\ UNCHANGED <<attempt, armed, held>>
    /\ UNCHANGED <<ws, shaken, intentional, announced, replaced>>

\* The socket failed to open, was closed by the server or the network, or has
\* finished closing.
OnClose(s) ==
    /\ sock[s] \in {"connecting", "open", "closing"}
    /\ sock' = [sock EXCEPT ![s] = "closed"]
    /\ connecting' = connecting \ {s}
    /\ StopPing
    /\ RejectAllPending
    /\ IF ~intentional /\ Reconnect
       THEN ScheduleReconnect
       ELSE state' = "disconnected" /\ UNCHANGED <<attempt, armed, held>>
    /\ UNCHANGED <<ws, shaken, intentional, announced, replaced>>

Next ==
    \/ Connect \/ Close
    \/ \E r \in Requests : Request(r) \/ RequestTimeout(r)
    \/ ReconnectTimeout \/ PingTick \/ PongTimeout
    \/ \E s \in Sockets : ConnectTimeout(s) \/ OnOpen(s) \/ OnAck(s) \/ OnPong(s) \/ OnClose(s)
    \/ \E s \in Sockets, r \in Requests : OnResponse(s, r)

\* Timers fire and a socket that is being closed reports it; servers and
\* applications owe nothing.
Fairness ==
    /\ WF_vars(ReconnectTimeout)
    /\ \A r \in Requests : WF_vars(RequestTimeout(r))
    /\ \A s \in Sockets : WF_vars(sock[s] = "closing" /\ OnClose(s))

Spec == Init /\ [][Next]_vars
FairSpec == Spec /\ Fairness

-----------------------------------------------------------------------------
(* What the connection promises.                                           *)

Opening == \E s \in Sockets : sock[s] # "unused"
Exhausted == attempt = MaxAttempts

\* The client never silently gives up: once connect() was called and until
\* close() is, or the attempts run out, either a socket is there whose close
\* event will schedule the next attempt, or a reconnect timer is armed.
NeverGivesUp ==
    Reconnect /\ Opening /\ ~intentional /\ ~Exhausted =>
        \/ \E s \in Sockets : Live(s) \/ sock[s] = "closing"
        \/ armed > 0

\* No promise outlives the socket its request went out on: whatever closes the
\* socket settles the request.
NoOrphanedRequest ==
    \A r \in Requests : outcome[r] = "waiting" => sock[via[r]] # "closed"

\* A socket that was replaced while it was there, or that came after one that was
\* and whose close event has come since.
LeftBehind(s) == s \in replaced \/ \E t \in replaced : t < s /\ sock[t] = "closed"

\* A request that was sent fails as lost only when its own socket is gone or going.
\* An application that connects again before the old socket's close event may lose
\* others by it: those sent on a socket that it replaced, and those sent after one
\* that was replaced and has closed since; no other (connection.ts:438-451, 638-644).
LostOnlyWithItsSocket ==
    \A r \in Requests :
        outcome[r] = "lost" /\ via[r] # None =>
            \/ sock[via[r]] \in {"closing", "closed"}
            \/ ~Patient /\ LeftBehind(via[r])

\* The state the application sees is the state of the one socket there is.
StateTellsTheTruth ==
    /\ state = "connected" =>
          ws # None /\ ws \in shaken /\ sock[ws] \in {"open", "closing"} /\ armed = 0
    /\ state = "connecting" => ws # None /\ ws \notin shaken /\ sock[ws] # "closed"
    /\ state = "reconnecting" => armed = 1 /\ \A s \in Sockets : ~Live(s)
    /\ state = "disconnected" => armed = 0 /\ \A s \in Sockets : ~Live(s)

\* The keep-alive timer runs exactly while the state is "connected", so that a
\* silent peer is always noticed and no timer outlives its connection.
KeepAliveCovers == pinging <=> state = "connected"

\* At most one socket is connecting or open, and none while a reconnect timer
\* runs: handlers of two sockets would act on the same object.
OneSocketAtATime ==
    /\ Cardinality({s \in Sockets : Live(s)}) <= 1
    /\ armed > 0 => \A s \in Sockets : ~Live(s)

\* close() is final: unless connect() is called again, every socket ends up
\* closed and no timer brings one back.
CloseIsFinal ==
    intentional ~> (~intentional \/ \A s \in Sockets : sock[s] \in {"unused", "closed"})

\* docs/frontend-guide.md draws the states: "connected" is entered from
\* "connecting" only.
ConnectedFromConnecting ==
    [][state' = "connected" /\ state # "connected" => state = "connecting"]_vars

\* A handshake that restores a connection after failed attempts is announced as
\* "reconnected", as the test in connection.ts and the events of types.ts say.
ReconnectionAnnounced ==
    [][shaken' # shaken /\ shaken # {} /\ attempt > 0 => announced' = "reconnected"]_vars
=============================================================================
