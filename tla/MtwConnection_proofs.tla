------------------------ MODULE MtwConnection_proofs ------------------------
(***************************************************************************)
(* Proofs about MtwConnection, for any number of sockets, requests and     *)
(* attempts.  The theorems of the second part are about an application     *)
(* that waits for the old socket before it connects again; those of the    *)
(* first and the last of all are about any application.                    *)
(***************************************************************************)
EXTENDS MtwConnection, TLAPS, FiniteSetTheorems

-----------------------------------------------------------------------------
(* Type correctness, and that the client never gives up silently.          *)

\* The timer that close() clears is armed: a timer that fired is not counted.
TypeInv == TypeOK /\ (held => armed > 0)

\* A new MtwConnection object has the right types.
LEMMA TypeInit == Init => TypeInv
  <1> SUFFICES ASSUME Init PROVE TypeInv  OBVIOUS
  <1>1. attempt \in 0..MaxAttempts  BY ConnectionAssumption DEF Init
  <1>2. sock \in [Sockets -> ReadyStates]  BY DEF Init, ReadyStates
  <1>3. /\ outcome \in [Requests -> {"unasked", "waiting", "resolved", "lost", "timeout"}]
        /\ via \in [Requests -> Sockets \cup {None}]
    BY DEF Init
  <1> QED  BY <1>1, <1>2, <1>3 DEF Init, TypeInv, TypeOK, States

\* What doConnect() changes.
LEMMA DoConnectEffect ==
  ASSUME TypeOK, DoConnect
  PROVE  \E s \in Sockets :
            /\ sock[s] = "unused" /\ ws' = s /\ state' = "connecting"
            /\ sock' = [sock EXCEPT ![s] = "connecting"]
            /\ connecting' = connecting \cup {s}
            /\ connecting' \subseteq Sockets
            /\ sock' \in [Sockets -> ReadyStates]
            /\ replaced' = replaced \cup {t \in Sockets : Unfinished(t)}
            /\ replaced' \subseteq Sockets
            /\ \A t \in Sockets : t < s => sock[t] # "unused"
  <1>1. PICK s \in Sockets :
           /\ ~Used(s) /\ \A t \in Sockets : t < s => Used(t)
           /\ state' = "connecting" /\ ws' = s
           /\ sock' = [sock EXCEPT ![s] = "connecting"]
           /\ connecting' = connecting \cup {s}
           /\ replaced' = replaced \cup {t \in Sockets : Unfinished(t)}
    BY DEF DoConnect
  <1>2. sock[s] = "unused" /\ \A t \in Sockets : t < s => sock[t] # "unused"
    BY <1>1 DEF Used
  <1>3. connecting' \subseteq Sockets /\ sock' \in [Sockets -> ReadyStates]
    BY <1>1 DEF TypeOK, ReadyStates
  <1>4. replaced' \subseteq Sockets  BY <1>1 DEF TypeOK
  <1> QED  BY <1>1, <1>2, <1>3, <1>4

\* What rejectAllPending() changes.
LEMMA RejectType ==
  ASSUME TypeOK, RejectAllPending
  PROVE  /\ pending' = {} /\ via' = via
         /\ outcome' \in [Requests -> {"unasked", "waiting", "resolved", "lost", "timeout"}]
  BY DEF RejectAllPending, TypeOK

\* A close event: either the attempts have run out, or a timer is armed.
LEMMA ScheduleType ==
  ASSUME TypeInv, ScheduleReconnect
  PROVE  /\ state' \in {"disconnected", "reconnecting"}
         /\ attempt' \in 0..MaxAttempts /\ armed' \in Nat /\ held' \in BOOLEAN
         /\ held' => armed' > 0
         /\ attempt' = MaxAttempts \/ armed' > 0
  <1>1. attempt \in 0..MaxAttempts /\ armed \in Nat /\ MaxAttempts \in Nat /\ held \in BOOLEAN
        /\ (held => armed > 0)
    BY ConnectionAssumption DEF TypeInv, TypeOK
  <1>2. CASE attempt >= MaxAttempts
    BY <1>1, <1>2 DEF ScheduleReconnect
  <1>3. CASE ~(attempt >= MaxAttempts)
    BY <1>1, <1>3 DEF ScheduleReconnect
  <1> QED  BY <1>2, <1>3

\* Every call, timer and socket event keeps the types, and the attempt count
\* of scheduleReconnect() within its maximum.
LEMMA TypeStep == TypeInv /\ [Next]_vars => TypeInv'
  <1> SUFFICES ASSUME TypeInv, [Next]_vars PROVE TypeInv'  OBVIOUS
  <1>0. /\ TypeOK /\ (held => armed > 0) /\ armed \in Nat /\ MaxAttempts \in Nat
        /\ held \in BOOLEAN
    BY ConnectionAssumption DEF TypeInv, TypeOK
  <1>1. CASE Connect
    BY <1>0, <1>1, DoConnectEffect DEF Connect, TypeInv, TypeOK, States, requests
  <1>2. CASE Close
    <2>1. armed' \in Nat /\ held' = FALSE  BY <1>0, <1>2 DEF Close
    <2>2. sock' \in [Sockets -> ReadyStates]
      BY <1>0, <1>2 DEF Close, TypeOK, ReadyStates
    <2>3. RejectAllPending  BY <1>2 DEF Close
    <2> QED
      BY <1>0, <1>2, <2>1, <2>2, <2>3, RejectType DEF Close, StopPing, TypeInv, TypeOK, States
  <1>3. ASSUME NEW r \in Requests, Request(r)
        PROVE  TypeInv'
    <2>1. CASE state = "connected" /\ ws # None /\ sock[ws] # "connecting"
      BY <1>0, <1>3, <2>1 DEF Request, lifecycle, TypeInv, TypeOK
    <2>2. CASE ~(state = "connected" /\ ws # None /\ sock[ws] # "connecting")
      BY <1>0, <1>3, <2>2 DEF Request, lifecycle, TypeInv, TypeOK
    <2> QED  BY <2>1, <2>2
  <1>4. ASSUME NEW r \in Requests, RequestTimeout(r)
        PROVE  TypeInv'
    BY <1>0, <1>4 DEF RequestTimeout, lifecycle, TypeInv, TypeOK
  <1>5. CASE ReconnectTimeout
    <2>1. armed' \in Nat /\ (armed > 1 => armed' > 0)
      BY <1>0, <1>5 DEF ReconnectTimeout
    <2>2. held' \in BOOLEAN /\ (held' => armed > 1)
      <3>1. held' = FALSE \/ held' = (held /\ armed > 1)
        BY <1>5, Zenon DEF ReconnectTimeout
      <3> QED  BY <3>1, Zenon
    <2>3. held' => armed' > 0
      BY <2>1, <2>2, Zenon
    <2> QED
      BY <1>0, <1>5, <2>1, <2>2, <2>3, DoConnectEffect
      DEF ReconnectTimeout, TypeInv, TypeOK, States, requests
  <1>6. CASE PingTick
    BY <1>0, <1>6 DEF PingTick, requests, TypeInv, TypeOK
  <1>7. CASE PongTimeout
    BY <1>0, <1>7 DEF PongTimeout, requests, TypeInv, TypeOK, ReadyStates
  <1>8. ASSUME NEW s \in Sockets, ConnectTimeout(s) \/ OnOpen(s)
        PROVE  TypeInv'
    BY <1>0, <1>8 DEF ConnectTimeout, OnOpen, requests, TypeInv, TypeOK, ReadyStates
  <1>9. ASSUME NEW s \in Sockets, OnAck(s) \/ OnPong(s)
        PROVE  TypeInv'
    <2>1. CASE OnPong(s)
      BY <1>0, <2>1 DEF OnPong, requests, TypeInv, TypeOK
    <2>2. CASE OnAck(s)
      <3>1. attempt' \in 0..MaxAttempts /\ announced' \in {"connected", "reconnected"}
        BY <1>0, <2>2 DEF OnAck
      <3> QED  BY <1>0, <2>2, <3>1 DEF OnAck, requests, TypeInv, TypeOK, States
    <2> QED  BY <1>9, <2>1, <2>2
  <1>10. ASSUME NEW s \in Sockets, OnClose(s)
         PROVE  TypeInv'
    <2>1. /\ sock' \in [Sockets -> ReadyStates] /\ connecting' \subseteq Sockets
          /\ RejectAllPending
      BY <1>0, <1>10 DEF OnClose, TypeOK, ReadyStates
    <2>2. /\ state' \in States /\ attempt' \in 0..MaxAttempts /\ armed' \in Nat
          /\ held' \in BOOLEAN /\ (held' => armed' > 0)
      BY <1>0, <1>10, ScheduleType DEF OnClose, TypeOK, States
    <2> QED
      BY <1>0, <1>10, <2>1, <2>2, RejectType DEF OnClose, StopPing, TypeInv, TypeOK
  <1>11. ASSUME NEW s \in Sockets, NEW r \in Requests, OnResponse(s, r)
         PROVE  TypeInv'
    BY <1>0, <1>11 DEF OnResponse, lifecycle, TypeInv, TypeOK
  <1>12. CASE UNCHANGED vars
    BY <1>0, <1>12 DEF vars, TypeInv, TypeOK
  <1> QED
    BY <1>1, <1>2, <1>3, <1>4, <1>5, <1>6, <1>7, <1>8, <1>9, <1>10, <1>11, <1>12 DEF Next

\* The connection's state is well-typed, its attempt count within its limit.
THEOREM ConnectionTypeCorrect == Spec => []TypeOK
  BY TypeInit, TypeStep, PTL DEF Spec, TypeInv

\* No step takes away the last socket or timer without leaving another: each
\* close event either schedules an attempt or finds the attempts exhausted.
LEMMA GiveUpStep == TypeInv /\ NeverGivesUp /\ [Next]_vars => NeverGivesUp'
  <1> SUFFICES ASSUME TypeInv, NeverGivesUp, [Next]_vars PROVE NeverGivesUp'  OBVIOUS
  <1>0. TypeOK /\ armed \in Nat /\ sock \in [Sockets -> ReadyStates]
    BY DEF TypeInv, TypeOK
  <1>a. ASSUME \E s \in Sockets : Unfinished(s)'
        PROVE  NeverGivesUp'
    BY <1>a DEF NeverGivesUp, Unfinished, Live
  <1>1. CASE Connect \/ ReconnectTimeout
    <2>1. DoConnect  BY <1>1 DEF Connect, ReconnectTimeout
    <2>2. \E s \in Sockets : sock'[s] = "connecting"
      BY <1>0, <2>1, DoConnectEffect
    <2> QED  BY <1>a, <2>2 DEF Unfinished
  <1>2. CASE Close
    BY <1>2 DEF Close, NeverGivesUp
  <1>3. ASSUME NEW s \in Sockets, OnClose(s)
        PROVE  NeverGivesUp'
    <2>1. CASE ~intentional /\ Reconnect
      <3>1. attempt' = MaxAttempts \/ armed' > 0
        BY <1>3, <2>1, ScheduleType DEF OnClose
      <3> QED  BY <3>1 DEF NeverGivesUp, Exhausted
    <2>2. CASE ~(~intentional /\ Reconnect)
      BY <1>3, <2>2 DEF OnClose, NeverGivesUp
    <2> QED  BY <2>1, <2>2
  <1>4. ASSUME NEW s \in Sockets, OnAck(s) \/ OnOpen(s) \/ OnPong(s) \/ ConnectTimeout(s)
        PROVE  NeverGivesUp'
    <2>1. CASE OnAck(s) \/ OnPong(s)
      BY <1>a, <2>1 DEF OnAck, OnPong, Unfinished
    <2>2. CASE OnOpen(s) \/ ConnectTimeout(s)
      BY <1>0, <1>a, <2>2 DEF OnOpen, ConnectTimeout, Unfinished
    <2> QED  BY <1>4, <2>1, <2>2
  <1>5. CASE PongTimeout
    <2>1. \A s \in Sockets : Unfinished(s) => Unfinished(s)'
      BY <1>0, <1>5 DEF PongTimeout, Unfinished, Live
    <2>2. UNCHANGED <<armed, attempt, intentional>>  BY <1>5 DEF PongTimeout
    <2>3. Opening' => Opening  BY <1>0, <1>5 DEF PongTimeout, Opening, Live
    <2> QED  BY <2>1, <2>2, <2>3 DEF NeverGivesUp, Exhausted, Unfinished, Live
  <1>6. ASSUME UNCHANGED <<sock, armed, attempt, intentional>>
        PROVE  NeverGivesUp'
    BY <1>6 DEF NeverGivesUp, Exhausted, Opening, Live
  <1>7. ASSUME NEW r \in Requests, Request(r) \/ RequestTimeout(r)
        PROVE  NeverGivesUp'
    BY <1>6, <1>7 DEF Request, RequestTimeout, lifecycle
  <1>8. ASSUME NEW s \in Sockets, NEW r \in Requests, OnResponse(s, r)
        PROVE  NeverGivesUp'
    BY <1>6, <1>8 DEF OnResponse, lifecycle
  <1>9. CASE PingTick \/ UNCHANGED vars
    BY <1>6, <1>9 DEF PingTick, vars
  <1> QED  BY <1>1, <1>2, <1>3, <1>4, <1>5, <1>7, <1>8, <1>9 DEF Next

\* The client never gives up without saying so, whatever the application calls
\* and in whatever order sockets and timers report.
THEOREM ClientNeverGivesUp == Spec => []NeverGivesUp
  <1>1. Init => NeverGivesUp  BY DEF Init, NeverGivesUp, Opening
  <1> QED  BY <1>1, TypeInit, TypeStep, GiveUpStep, PTL DEF Spec

-----------------------------------------------------------------------------
(* An application that waits for the close event before it reconnects.     *)

Idle == \A s \in Sockets : ~Unfinished(s)

\* There is one thing under way at a time: one socket, or one reconnect timer,
\* or nothing.
OneThing ==
  /\ \A s, t \in Sockets : Unfinished(s) /\ Unfinished(t) => s = t
  /\ armed \in {0, 1}
  /\ armed = 1 => Idle /\ held /\ state = "reconnecting"
  /\ state = "reconnecting" => armed = 1

\* Where the socket is, given the state, and whose socket it is.
StateOfSocket ==
  /\ state # "disconnecting"
  /\ state = "connecting" => ws # None /\ Unfinished(ws) /\ ws \notin shaken
  /\ state = "connected" =>
        ws # None /\ ws \in shaken /\ sock[ws] \in {"open", "closing"}
  /\ state = "disconnected" => \A s \in Sockets : ~Live(s)
  /\ \A s \in Sockets : Live(s) => ws = s
  /\ \A s \in Sockets : s \in shaken => sock[s] # "unused"
  /\ \A s \in connecting : sock[s] \in {"connecting", "closing"}

Discipline == TypeInv /\ OneThing /\ StateOfSocket /\ KeepAliveCovers

\* Before connect() there is no socket and no timer.
LEMMA DisciplineInit == Init => Discipline
  <1> SUFFICES ASSUME Init PROVE Discipline  OBVIOUS
  <1>1. OneThing /\ StateOfSocket
    BY DEF Init, OneThing, StateOfSocket, Unfinished, Live
  <1>2. KeepAliveCovers  BY DEF Init, KeepAliveCovers
  <1> QED  BY <1>1, <1>2, TypeInit DEF Discipline

\* A step that opens a socket does it with nothing else under way.
LEMMA DisciplineConnect ==
  ASSUME Discipline, TypeInv', DoConnect, Idle, armed' = 0, UNCHANGED <<shaken, pinging>>,
         state # "connected"
  PROVE  Discipline'
  <1>0. sock \in [Sockets -> ReadyStates] /\ None \notin Nat /\ Sockets \subseteq Nat
    BY ConnectionAssumption DEF Discipline, TypeInv, TypeOK, Sockets
  <1>1. PICK n \in Sockets : /\ sock[n] = "unused" /\ ws' = n /\ state' = "connecting"
                            /\ sock' = [sock EXCEPT ![n] = "connecting"]
                            /\ connecting' = connecting \cup {n}
    BY DoConnectEffect DEF Discipline, TypeInv
  <1>2. \A s \in Sockets : IF s = n THEN sock'[s] = "connecting" ELSE sock'[s] = sock[s]
    BY <1>0, <1>1
  <1>3. OneThing'
    BY <1>1, <1>2 DEF OneThing, Idle, Unfinished
  <1>4. StateOfSocket'
    BY <1>0, <1>1, <1>2 DEF Discipline, StateOfSocket, Idle, Unfinished, Live, TypeInv, TypeOK
  <1>5. KeepAliveCovers'
    <2>1. state' # "connected"  BY <1>1
    <2> QED  BY <2>1, Zenon DEF Discipline, KeepAliveCovers
  <1> QED  BY <1>3, <1>4, <1>5 DEF Discipline

\* Every step of a patient application, a timer or a socket keeps exactly one
\* thing going: a socket whose close event is to come, a timer, or neither.
LEMMA DisciplineStep ==
  ASSUME Patient = TRUE, Discipline, [Next]_vars
  PROVE  Discipline'
  <1>0. /\ TypeInv /\ TypeInv' /\ OneThing /\ StateOfSocket /\ KeepAliveCovers
        /\ sock \in [Sockets -> ReadyStates] /\ connecting \subseteq Sockets
        /\ None \notin Sockets
    BY ConnectionAssumption, TypeStep DEF Discipline, TypeInv, TypeOK, Sockets
  <1>1. CASE Connect
    <2>1. DoConnect /\ state = "disconnected" /\ UNCHANGED <<shaken, pinging, armed>> /\ Idle
      BY <1>1 DEF Connect, Idle, Unfinished
    <2>2. armed' = 0  BY <1>0, <2>1 DEF OneThing
    <2> QED  BY <1>0, <2>1, <2>2, DisciplineConnect
  <1>2. CASE Close
    <2>1. /\ armed' = 0 /\ pinging' = FALSE /\ ws' = None /\ state' = "disconnected"
          /\ UNCHANGED <<shaken, connecting>>
      <3>1. CASE held
        <4>1. armed = 1 /\ armed' = armed - 1
          BY <1>0, <1>2, <3>1 DEF Close, OneThing, TypeInv
        <4> QED  BY <1>2, <4>1 DEF Close, StopPing
      <3>2. CASE ~held
        <4>1. armed = 0 /\ armed' = armed
          BY <1>0, <1>2, <3>2 DEF Close, OneThing
        <4> QED  BY <1>2, <4>1 DEF Close, StopPing
      <3> QED  BY <3>1, <3>2
    <2>2. \A s \in Sockets : IF Live(s) THEN sock'[s] = "closing" ELSE sock'[s] = sock[s]
      BY <1>0, <1>2 DEF Close, StateOfSocket
    <2>3. OneThing'
      BY <1>0, <2>1, <2>2 DEF OneThing, Unfinished, Live
    <2>4. StateOfSocket'
      BY <1>0, <2>1, <2>2 DEF StateOfSocket, Unfinished, Live
    <2>5. KeepAliveCovers'  BY <2>1 DEF KeepAliveCovers
    <2> QED  BY <1>0, <2>3, <2>4, <2>5 DEF Discipline
  <1>3. CASE ReconnectTimeout
    <2>1. DoConnect /\ armed > 0 /\ armed' = armed - 1 /\ UNCHANGED <<shaken, pinging>>
      BY <1>3 DEF ReconnectTimeout
    <2>2. armed' = 0 /\ Idle /\ state = "reconnecting"
      BY <1>0, <2>1 DEF OneThing
    <2> QED  BY <1>0, <2>1, <2>2, DisciplineConnect
  <1>4. ASSUME NEW s \in Sockets, OnClose(s)
        PROVE  Discipline'
    <2>1. /\ Unfinished(s) /\ sock' = [sock EXCEPT ![s] = "closed"] /\ pinging' = FALSE
          /\ connecting' = connecting \ {s} /\ UNCHANGED <<ws, shaken>>
      BY <1>4 DEF OnClose, StopPing, Unfinished
    <2>2. Idle' /\ \A t \in Sockets : t # s => sock'[t] = sock[t]
      BY <1>0, <2>1 DEF Idle, OneThing, Unfinished
    <2>3. armed = 0  BY <1>0, <2>1 DEF OneThing, Idle
    <2>4. \/ state' = "disconnected" /\ armed' = 0
          \/ state' = "reconnecting" /\ armed' = 1 /\ held' = TRUE
      BY <1>4, <2>3 DEF OnClose, ScheduleReconnect
    <2>5. OneThing'
      BY <2>2, <2>4 DEF OneThing, Idle
    <2>6. StateOfSocket'
      BY <1>0, <2>1, <2>2, <2>4 DEF StateOfSocket, Idle, Unfinished, Live
    <2>7. KeepAliveCovers'  BY <2>1, <2>4 DEF KeepAliveCovers
    <2> QED  BY <1>0, <2>5, <2>6, <2>7 DEF Discipline
  <1>5. ASSUME NEW s \in Sockets, OnAck(s)
        PROVE  Discipline'
    <2>1. /\ Live(s) /\ ws = s /\ ws' = ws /\ sock[s] = "open" /\ state' = "connected"
          /\ shaken' = shaken \cup {s} /\ pinging' = TRUE
          /\ UNCHANGED <<sock, connecting, armed, held>>
      BY <1>0, <1>5 DEF OnAck, Live, StateOfSocket
    <2>2. OneThing'
      BY <1>0, <2>1 DEF OneThing, Idle, Unfinished
    <2>3. StateOfSocket'
      BY <1>0, <2>1 DEF StateOfSocket, Unfinished, Live
    <2>4. KeepAliveCovers'  BY <2>1 DEF KeepAliveCovers
    <2> QED  BY <1>0, <2>2, <2>3, <2>4 DEF Discipline
  \* The rest move a socket along, if anything.
  <1>6. ASSUME UNCHANGED <<state, ws, shaken, armed, held, pinging>>,
               connecting' \subseteq connecting, sock' \in [Sockets -> ReadyStates],
               \A t \in Sockets :
                  \/ sock'[t] = sock[t]
                  \/ Unfinished(t) /\ sock'[t] = "closing"
                  \/ sock[t] = "connecting" /\ sock'[t] = "open" /\ t \notin connecting'
        PROVE  Discipline'
    <2>1. \A t \in Sockets : Unfinished(t)' <=> Unfinished(t)
      BY <1>6 DEF Unfinished
    <2>2. OneThing'  BY <1>0, <1>6, <2>1 DEF OneThing, Idle
    <2>3. \A t \in Sockets : Live(t)' => Live(t)
      BY <1>6 DEF Live, Unfinished
    <2>4. StateOfSocket'
      <3>1. ws # None => ws \in Sockets  BY <1>0 DEF TypeInv, TypeOK
      <3>2. \A t \in Sockets : /\ sock[t] \in {"open", "closing"} => sock'[t] \in {"open", "closing"}
                               /\ sock[t] # "unused" <=> sock'[t] # "unused"
        BY <1>6 DEF Unfinished
      <3>3. \A t \in connecting' : sock'[t] \in {"connecting", "closing"}
        BY <1>0, <1>6 DEF StateOfSocket
      <3> QED  BY <1>0, <1>6, <2>1, <2>3, <3>1, <3>2, <3>3 DEF StateOfSocket
    <2>5. KeepAliveCovers'  BY <1>0, <1>6, Zenon DEF KeepAliveCovers
    <2> QED  BY <1>0, <2>2, <2>4, <2>5 DEF Discipline
  <1>7. ASSUME NEW s \in Sockets, OnOpen(s) \/ ConnectTimeout(s) \/ OnPong(s)
        PROVE  Discipline'
    <2>1. CASE OnOpen(s)
      BY <1>0, <1>6, <2>1 DEF OnOpen, ReadyStates
    <2>2. CASE ConnectTimeout(s)
      <3>1. Unfinished(s)  BY <1>0, <2>2 DEF ConnectTimeout, StateOfSocket, Unfinished
      <3> QED  BY <1>0, <1>6, <2>2, <3>1 DEF ConnectTimeout, ReadyStates
    <2>3. CASE OnPong(s)
      BY <1>0, <1>6, <2>3 DEF OnPong
    <2> QED  BY <1>7, <2>1, <2>2, <2>3
  <1>8. CASE PongTimeout
    <2>1. \A t \in Sockets : sock'[t] = IF t = ws /\ Live(t) THEN "closing" ELSE sock[t]
      BY <1>8 DEF PongTimeout
    <2>2. sock' \in [Sockets -> ReadyStates]
      BY <1>0, <1>8 DEF PongTimeout, ReadyStates
    <2> QED  BY <1>6, <1>8, <2>1, <2>2 DEF PongTimeout, Unfinished, Live
  <1>9. ASSUME UNCHANGED <<state, ws, shaken, armed, held, pinging, sock, connecting>>
        PROVE  Discipline'
    BY <1>0, <1>6, <1>9
  <1>10. ASSUME NEW r \in Requests, Request(r) \/ RequestTimeout(r) \/ \E s \in Sockets : OnResponse(s, r)
         PROVE  Discipline'
    BY <1>9, <1>10 DEF Request, RequestTimeout, OnResponse, lifecycle
  <1>11. CASE PingTick \/ UNCHANGED vars
    BY <1>9, <1>11 DEF PingTick, vars
  <1> QED
    BY <1>1, <1>2, <1>3, <1>4, <1>5, <1>7, <1>8, <1>10, <1>11 DEF Next

\* What the application and its handlers see of the sockets is the truth.
THEOREM StateIsTrue ==
  ASSUME Patient = TRUE
  PROVE  Spec => []StateTellsTheTruth
  <1>1. ASSUME Discipline PROVE StateTellsTheTruth
    BY <1>1 DEF Discipline, OneThing, StateOfSocket, StateTellsTheTruth, Idle, Unfinished, Live
  <1>2. Discipline /\ [Next]_vars => Discipline'  BY DisciplineStep
  <1> QED  BY <1>1, <1>2, DisciplineInit, PTL DEF Spec

\* The keep-alive timers run exactly while the client shows a connection: none is
\* left over from an earlier socket to fire on the next one.
THEOREM KeepAliveFollowsState ==
  ASSUME Patient = TRUE
  PROVE  Spec => []KeepAliveCovers
  <1>1. Discipline /\ [Next]_vars => Discipline'  BY DisciplineStep
  <1> QED  BY <1>1, DisciplineInit, PTL DEF Spec, Discipline

\* There is never a second socket for the handlers of the first to disturb.
THEOREM OneSocket ==
  ASSUME Patient = TRUE
  PROVE  Spec => []OneSocketAtATime
  <1>1. ASSUME Discipline PROVE OneSocketAtATime
    <2> DEFINE L == {s \in Sockets : Live(s)}
    <2>1. armed > 0 => \A s \in Sockets : ~Live(s)
      BY <1>1 DEF Discipline, OneThing, Idle, Unfinished, Live
    <2>2. CASE L = {}
      BY <2>1, <2>2, FS_EmptySet DEF OneSocketAtATime
    <2>3. ASSUME NEW s \in L PROVE OneSocketAtATime
      <3>1. L = {s}
        BY <1>1, <2>3 DEF Discipline, OneThing, Unfinished, Live
      <3> QED  BY <2>1, <3>1, FS_Singleton DEF OneSocketAtATime
    <2> QED  BY <2>2, <2>3
  <1>2. Discipline /\ [Next]_vars => Discipline'  BY DisciplineStep
  <1> QED  BY <1>1, <1>2, DisciplineInit, PTL DEF Spec

-----------------------------------------------------------------------------
(* Requests, for the same application.                                     *)

\* A request that is waiting waits for an answer that can still come or a
\* close event that will; one that was lost had its socket closed.
RequestInv ==
  \A r \in Requests :
      /\ outcome[r] = "waiting" => r \in pending /\ via[r] # None /\ Unfinished(via[r])
      /\ outcome[r] = "lost" /\ via[r] # None => sock[via[r]] \in {"closing", "closed"}
      /\ outcome[r] = "unasked" => via[r] = None

\* Steps that settle nothing and only move sockets towards their end.
LEMMA RequestCalm ==
  ASSUME RequestInv, TypeInv, UNCHANGED requests,
         \A s \in Sockets : /\ Unfinished(s) => Unfinished(s)'
                            /\ sock[s] \in {"closing", "closed"} => sock'[s] \in {"closing", "closed"}
  PROVE  RequestInv'
  <1>1. \A r \in Requests : via[r] # None => via[r] \in Sockets
    BY DEF TypeInv, TypeOK
  <1> QED  BY <1>1 DEF RequestInv, requests, Unfinished

\* rejectAllPending() in a step after which no socket is live.
LEMMA RequestReject ==
  ASSUME RequestInv, TypeInv, RejectAllPending,
         \A s \in Sockets : sock[s] # "unused" => sock'[s] \in {"closing", "closed"}
  PROVE  RequestInv'
  <1>1. \A r \in Requests : via[r] # None => via[r] \in Sockets
    BY DEF TypeInv, TypeOK
  <1>2. \A r \in Requests : outcome'[r] # "waiting" /\ via'[r] = via[r]
      /\ (outcome'[r] = "lost" => outcome[r] \in {"waiting", "lost"})
      /\ (outcome'[r] = "unasked" => outcome[r] = "unasked")
    BY DEF RequestInv, RejectAllPending, TypeInv, TypeOK
  <1> QED  BY <1>1, <1>2 DEF RequestInv, Unfinished

\* Every step keeps the requests tied to their sockets: what closes a socket
\* empties pendingRequests, and all that wait there were sent on that socket.
LEMMA RequestStep ==
  ASSUME Discipline, Discipline', RequestInv, [Next]_vars
  PROVE  RequestInv'
  <1>0. /\ TypeInv /\ TypeInv' /\ TypeOK /\ OneThing /\ StateOfSocket
        /\ sock \in [Sockets -> ReadyStates] /\ None \notin Sockets
        /\ outcome \in [Requests -> {"unasked", "waiting", "resolved", "lost", "timeout"}]
        /\ via \in [Requests -> Sockets \cup {None}]
    BY ConnectionAssumption DEF Discipline, TypeInv, TypeOK, Sockets
  <1>1. CASE Connect \/ ReconnectTimeout
    <2>1. DoConnect /\ UNCHANGED requests  BY <1>1 DEF Connect, ReconnectTimeout
    <2>2. \A s \in Sockets : sock'[s] = sock[s] \/ sock[s] = "unused"
      BY <1>0, <2>1, DoConnectEffect
    <2> QED  BY <1>0, <2>1, <2>2, RequestCalm DEF Unfinished
  <1>2. CASE Close
    <2>1. \A s \in Sockets : sock[s] # "unused" => sock'[s] \in {"closing", "closed"}
      BY <1>0, <1>2 DEF Close, StateOfSocket, Live, ReadyStates
    <2> QED  BY <1>0, <1>2, <2>1, RequestReject DEF Close
  <1>3. ASSUME NEW s \in Sockets, OnClose(s)
        PROVE  RequestInv'
    <2>1. \A t \in Sockets : sock[t] # "unused" => sock'[t] \in {"closing", "closed"}
      <3>1. Unfinished(s) /\ sock' = [sock EXCEPT ![s] = "closed"]  BY <1>3 DEF OnClose, Unfinished
      <3> QED  BY <1>0, <3>1 DEF OneThing, Unfinished, ReadyStates
    <2> QED  BY <1>0, <1>3, <2>1, RequestReject DEF OnClose
  <1>4. ASSUME NEW q \in Requests, Request(q)
        PROVE  RequestInv'
    <2>1. UNCHANGED sock /\ pending' = pending \cup {q} /\ outcome[q] = "unasked" /\ via[q] = None
      BY <1>4 DEF Request, lifecycle, RequestInv
    <2>2. CASE state = "connected" /\ ws # None /\ sock[ws] # "connecting"
      <3>1. outcome' = [outcome EXCEPT ![q] = "waiting"] /\ via' = [via EXCEPT ![q] = ws]
        BY <1>4, <2>2 DEF Request
      <3>2. ws # None /\ sock[ws] \in {"open", "closing"}  BY <1>0, <2>2 DEF StateOfSocket
      <3> QED  BY <1>0, <2>1, <3>1, <3>2 DEF RequestInv, Unfinished
    <2>3. CASE ~(state = "connected" /\ ws # None /\ sock[ws] # "connecting")
      <3>1. outcome' = [outcome EXCEPT ![q] = "lost"] /\ via' = via
        BY <1>4, <2>3 DEF Request
      <3> QED  BY <1>0, <2>1, <3>1 DEF RequestInv, Unfinished
    <2> QED  BY <2>2, <2>3
  <1>5. ASSUME NEW q \in Requests, RequestTimeout(q)
        PROVE  RequestInv'
    <2>1. /\ \A r \in Requests : outcome'[r] = outcome[r] \/ outcome'[r] = "timeout"
          /\ outcome'[q] # "waiting" /\ pending' = pending \ {q} /\ UNCHANGED <<via, sock>>
      BY <1>0, <1>5 DEF RequestTimeout, lifecycle
    <2> QED  BY <2>1 DEF RequestInv, Unfinished
  <1>6. ASSUME NEW s \in Sockets, NEW q \in Requests, OnResponse(s, q)
        PROVE  RequestInv'
    <2>1. /\ \A r \in Requests : outcome'[r] = outcome[r] \/ outcome'[r] = "resolved"
          /\ outcome'[q] # "waiting" /\ pending' = pending \ {q} /\ UNCHANGED <<via, sock>>
      BY <1>0, <1>6 DEF OnResponse, lifecycle
    <2> QED  BY <2>1 DEF RequestInv, Unfinished
  <1>7. ASSUME NEW s \in Sockets, OnOpen(s) \/ ConnectTimeout(s) \/ OnAck(s) \/ OnPong(s)
        PROVE  RequestInv'
    <2>1. UNCHANGED requests  BY <1>7 DEF OnOpen, ConnectTimeout, OnAck, OnPong
    <2>2. CASE OnOpen(s)
      BY <1>0, <2>1, <2>2, RequestCalm DEF OnOpen, Unfinished
    <2>3. CASE ConnectTimeout(s)
      BY <1>0, <2>1, <2>3, RequestCalm DEF ConnectTimeout, Unfinished
    <2>4. CASE OnAck(s) \/ OnPong(s)
      BY <1>0, <2>1, <2>4, RequestCalm DEF OnAck, OnPong, Unfinished
    <2> QED  BY <1>7, <2>2, <2>3, <2>4
  <1>8. CASE PongTimeout
    BY <1>0, <1>8, RequestCalm DEF PongTimeout, Unfinished, Live
  <1>9. CASE PingTick \/ UNCHANGED vars
    BY <1>0, <1>9, RequestCalm DEF PingTick, vars, requests, Unfinished
  <1> QED
    BY <1>1, <1>2, <1>3, <1>4, <1>5, <1>6, <1>7, <1>8, <1>9 DEF Next

\* RequestInv holds throughout, for a patient application.
LEMMA RequestsStayTied ==
  ASSUME Patient = TRUE
  PROVE  Spec => []RequestInv
  <1>1. Init => RequestInv  BY DEF Init, RequestInv
  <1>2. Discipline /\ [Next]_vars => Discipline'  BY DisciplineStep
  <1>3. Discipline /\ Discipline' /\ RequestInv /\ [Next]_vars => RequestInv'
    BY RequestStep
  <1> QED  BY <1>1, <1>2, <1>3, DisciplineInit, PTL DEF Spec

\* No promise outlives the socket its request went out on.
THEOREM RequestsFollowTheirSocket ==
  ASSUME Patient = TRUE
  PROVE  Spec => []NoOrphanedRequest
  <1>1. RequestInv => NoOrphanedRequest
    BY DEF RequestInv, NoOrphanedRequest, Unfinished
  <1> QED  BY <1>1, RequestsStayTied, PTL

-----------------------------------------------------------------------------
(* Requests, for any application: the close events of older sockets come    *)
(* when they come.                                                         *)

\* Sockets are used one after the other, and one that is still there when a later
\* one is opened is replaced.
Succession ==
  /\ \A s, t \in Sockets : t < s /\ Used(s) => Used(t) /\ (Unfinished(t) => t \in replaced)
  /\ ws # None => Used(ws)

Gone(s) == sock[s] \in {"closing", "closed"}

\* A request that waits was sent on the current socket or an older one.
Tied ==
  \A r \in Requests :
      /\ outcome[r] = "waiting" =>
            r \in pending /\ via[r] # None /\ ws # None /\ Used(via[r]) /\ via[r] <= ws
      /\ outcome[r] = "lost" /\ via[r] # None => Gone(via[r]) \/ LeftBehind(via[r])
      /\ outcome[r] = "unasked" => via[r] = None

Hasty == TypeInv /\ Succession /\ Tied

\* A connection timer is armed until its socket is open or closed.
Timed == \A s \in connecting : sock[s] \in {"connecting", "closing"}

LEMMA TimedStep == TypeInv /\ Timed /\ [Next]_vars => Timed'
  <1> SUFFICES ASSUME TypeInv, Timed, [Next]_vars PROVE Timed'  OBVIOUS
  <1>0. TypeOK /\ sock \in [Sockets -> ReadyStates] /\ connecting \subseteq Sockets
    BY DEF TypeInv, TypeOK
  <1>1. CASE Connect \/ ReconnectTimeout
    <2>1. DoConnect  BY <1>1 DEF Connect, ReconnectTimeout
    <2> QED  BY <1>0, <2>1, DoConnectEffect DEF Timed
  <1>2. CASE Close \/ PongTimeout
    <2>1. /\ connecting' = connecting
          /\ \A s \in Sockets : sock'[s] \in {sock[s], "closing"}
      BY <1>2 DEF Close, PongTimeout
    <2> QED  BY <1>0, <2>1 DEF Timed
  <1>3. ASSUME NEW s \in Sockets, OnOpen(s) \/ ConnectTimeout(s) \/ OnClose(s)
        PROVE  Timed'
    <2>1. /\ connecting' = connecting \ {s}
          /\ \A t \in Sockets : t # s => sock'[t] = sock[t]
      BY <1>0, <1>3 DEF OnOpen, ConnectTimeout, OnClose
    <2> QED  BY <1>0, <2>1 DEF Timed
  <1>4. CASE UNCHANGED <<connecting, sock>>
    BY <1>4 DEF Timed
  <1>5. ASSUME NEW s \in Sockets, OnAck(s) \/ OnPong(s) \/ \E r \in Requests : OnResponse(s, r)
        PROVE  Timed'
    BY <1>4, <1>5 DEF OnAck, OnPong, OnResponse, lifecycle
  <1>6. ASSUME NEW r \in Requests, Request(r) \/ RequestTimeout(r)
        PROVE  Timed'
    BY <1>4, <1>6 DEF Request, RequestTimeout, lifecycle
  <1>7. CASE PingTick \/ UNCHANGED vars
    BY <1>4, <1>7 DEF PingTick, vars
  <1> QED  BY <1>1, <1>2, <1>3, <1>5, <1>6, <1>7 DEF Next

LEMMA HastyInit == Init => Hasty
  <1> SUFFICES ASSUME Init PROVE Hasty  OBVIOUS
  <1>1. Succession /\ Tied  BY DEF Init, Succession, Tied, Used
  <1> QED  BY <1>1, TypeInit DEF Hasty

LEMMA HastyTypes ==
  ASSUME Hasty
  PROVE  /\ TypeInv /\ TypeOK /\ None \notin Sockets /\ Sockets \subseteq Nat
         /\ sock \in [Sockets -> ReadyStates] /\ ws \in Sockets \cup {None}
         /\ replaced \subseteq Sockets
         /\ outcome \in [Requests -> {"unasked", "waiting", "resolved", "lost", "timeout"}]
         /\ via \in [Requests -> Sockets \cup {None}]
         /\ \A s \in Sockets : Used(s) <=> Unfinished(s) \/ sock[s] = "closed"
  <1>1. sock \in [Sockets -> ReadyStates]  BY DEF Hasty, TypeInv, TypeOK
  <1>2. \A s \in Sockets : Used(s) <=> Unfinished(s) \/ sock[s] = "closed"
    BY <1>1 DEF Used, Unfinished, ReadyStates
  <1> QED  BY <1>1, <1>2, ConnectionAssumption DEF Hasty, TypeInv, TypeOK, Sockets

\* Steps that open no socket, and move those there are only towards their end.
Onward ==
  /\ \A s \in Sockets : /\ sock[s] = "unused" <=> sock'[s] = "unused"
                        /\ Unfinished(s)' => Unfinished(s)
                        /\ Gone(s) => Gone(s)'
                        /\ sock[s] = "closed" => sock'[s] = "closed"
  /\ replaced' = replaced

LEMMA OnwardKeeps ==
  ASSUME Hasty, Onward, ws' \in {ws, None}
  PROVE  /\ Succession'
         /\ \A s \in Sockets : Gone(s) \/ LeftBehind(s) => Gone(s)' \/ LeftBehind(s)'
  <1>1. Succession'
    BY HastyTypes DEF Hasty, Onward, Succession, Used, Unfinished
  <1>2. ASSUME NEW s \in Sockets, LeftBehind(s) PROVE LeftBehind(s)'
    <2>1. replaced' = replaced /\ replaced \subseteq Sockets  BY HastyTypes DEF Onward
    <2>2. \A t \in replaced : sock[t] = "closed" => sock'[t] = "closed"
      BY <2>1 DEF Onward
    <2> QED  BY <1>2, <2>1, <2>2 DEF LeftBehind
  <1>3. \A s \in Sockets : Gone(s) => Gone(s)'  BY DEF Onward
  <1> QED  BY <1>1, <1>2, <1>3

\* ... and that settle nothing.
LEMMA CalmKeeps ==
  ASSUME Hasty, TypeInv', Onward, ws' = ws, UNCHANGED requests
  PROVE  Hasty'
  <1>1. Tied'
    <2>1. \A s \in Sockets : Used(s) => Used(s)'  BY DEF Onward, Used
    <2>2. \A s \in Sockets : Gone(s) \/ LeftBehind(s) => Gone(s)' \/ LeftBehind(s)'
      BY OnwardKeeps
    <2>3. \A r \in Requests : via[r] # None => via[r] \in Sockets  BY HastyTypes
    <2> QED
      BY <2>1, <2>2, <2>3 DEF Hasty, Tied, requests, Gone, LeftBehind, Used
  <1> QED  BY <1>1, OnwardKeeps DEF Hasty

\* Opening a socket replaces those whose close event is still to come.
LEMMA OpeningKeeps ==
  ASSUME Hasty, TypeInv', DoConnect, UNCHANGED requests
  PROVE  Hasty'
  <1>1. PICK n \in Sockets :
           /\ sock[n] = "unused" /\ ws' = n
           /\ sock' = [sock EXCEPT ![n] = "connecting"]
           /\ replaced' = replaced \cup {t \in Sockets : Unfinished(t)}
           /\ \A t \in Sockets : t < n => sock[t] # "unused"
    BY HastyTypes, DoConnectEffect
  <1>2. \A s \in Sockets : sock'[s] = IF s = n THEN "connecting" ELSE sock[s]
    BY <1>1, HastyTypes
  <1>3. \A s \in Sockets : /\ Used(s) => Used(s)' /\ s < n
                           /\ Used(s)' <=> Used(s) \/ s = n
    <2>1. ASSUME NEW s \in Sockets, Used(s) PROVE s < n
      <3>1. s # n /\ ~(n < s)  BY <1>1, <2>1 DEF Hasty, Succession, Used
      <3> QED  BY <3>1, HastyTypes
    <2> QED  BY <1>2, <2>1 DEF Used
  <1>4. Succession'
    <2>1. ASSUME NEW s \in Sockets, NEW t \in Sockets, t < s, Used(s)'
          PROVE  Used(t)' /\ (Unfinished(t)' => t \in replaced')
      <3>1. Used(t) /\ t # n
        <4>1. CASE s = n  BY <1>1, <2>1, <4>1, HastyTypes DEF Used
        <4>2. CASE Used(s)
          BY <1>1, <2>1, <4>2, HastyTypes DEF Hasty, Succession, Used
        <4> QED  BY <1>3, <2>1, <4>1, <4>2
      <3>2. Unfinished(t)' <=> Unfinished(t)  BY <1>2, <3>1 DEF Unfinished
      <3> QED  BY <1>1, <1>3, <3>1, <3>2
    <2>2. Used(ws)'  BY <1>1, <1>3
    <2> QED  BY <2>1, <2>2 DEF Succession
  <1>5. Tied'
    <2>1. \A r \in Requests : via[r] # None => via[r] \in Sockets  BY HastyTypes
    <2>2. \A s \in Sockets : Gone(s) => Gone(s)'  BY <1>1, <1>2 DEF Gone
    <2>3. ASSUME NEW s \in Sockets, LeftBehind(s) PROVE LeftBehind(s)'
      <3>1. replaced \subseteq replaced'  BY <1>1
      <3>2. \A t \in replaced : sock[t] = "closed" => sock'[t] = "closed"
        BY <1>1, <1>2, HastyTypes
      <3> QED  BY <2>3, <3>1, <3>2 DEF LeftBehind
    <2>4. \A s \in Sockets : Used(s) => Used(s)' /\ s <= ws'
      BY <1>1, <1>3, HastyTypes
    <2>5. ws' # None  BY <1>1, HastyTypes
    <2> QED
      BY <2>1, <2>2, <2>3, <2>4, <2>5 DEF Hasty, Tied, requests, Gone, LeftBehind, Used
  <1> QED  BY <1>4, <1>5 DEF Hasty

\* rejectAllPending(): what waits is lost, so its socket must be gone or left behind.
LEMMA RejectKeeps ==
  ASSUME Hasty, TypeInv', Onward, ws' \in {ws, None}, RejectAllPending,
         ws # None => \A v \in Sockets : v <= ws /\ Used(v) => Gone(v)' \/ LeftBehind(v)'
  PROVE  Hasty'
  <1>1. /\ via' = via /\ pending' = {}
        /\ \A r \in Requests : /\ outcome'[r] # "waiting"
                               /\ outcome'[r] = "lost" => outcome[r] \in {"waiting", "lost"}
                               /\ outcome'[r] = "unasked" => outcome[r] = "unasked"
    BY HastyTypes DEF RejectAllPending, Hasty, Tied
  <1>2. ASSUME NEW r \in Requests, NEW v \in Sockets, via[r] = v, outcome'[r] = "lost"
        PROVE  Gone(v)' \/ LeftBehind(v)'
    <2>0. v # None  BY HastyTypes
    <2>1. CASE outcome[r] = "waiting"
      <3>1. ws # None /\ v <= ws /\ Used(v)
        BY <1>2, <2>1 DEF Hasty, Tied
      <3> QED  BY <3>1
    <2>2. CASE outcome[r] = "lost"
      <3>1. Gone(v) \/ LeftBehind(v)  BY <1>2, <2>0, <2>2 DEF Hasty, Tied
      <3> QED  BY <3>1, OnwardKeeps
    <2> QED  BY <1>1, <1>2, <2>1, <2>2
  <1>3. Tied'
    <2>1. \A r \in Requests : via[r] # None => via[r] \in Sockets  BY HastyTypes
    <2>2. \A r \in Requests : outcome[r] = "unasked" => via[r] = None  BY DEF Hasty, Tied
    <2>3. ASSUME NEW r \in Requests, outcome'[r] = "lost", via[r] # None
          PROVE  (Gone(via[r]) \/ LeftBehind(via[r]))'
      BY <1>1, <1>2, <2>1, <2>3 DEF Gone, LeftBehind
    <2> QED  BY <1>1, <2>2, <2>3 DEF Tied
  <1> QED  BY <1>3, OnwardKeeps DEF Hasty

\* One request is made or settled.
LEMMA OneRequestKeeps ==
  ASSUME Hasty, NEW q \in Requests,
         Request(q) \/ RequestTimeout(q) \/ \E s \in Sockets : OnResponse(s, q)
  PROVE  Hasty'
  <1>0. TypeInv' /\ UNCHANGED <<ws, sock, replaced, state>>
    <2>1. [Next]_vars
      BY DEF Next
    <2> QED  BY <2>1, HastyTypes, TypeStep DEF Request, RequestTimeout, OnResponse, lifecycle
  <1>1. Succession'  BY <1>0 DEF Hasty, Succession, Used, Unfinished
  <1>2. Tied'
    <2>1. CASE Request(q)
      <3>1. outcome[q] = "unasked" /\ pending' = pending \cup {q} /\ via[q] = None
        BY <2>1 DEF Request, Hasty, Tied
      <3>2. CASE state = "connected" /\ ws # None /\ sock[ws] # "connecting"
        <4>1. outcome' = [outcome EXCEPT ![q] = "waiting"] /\ via' = [via EXCEPT ![q] = ws]
          BY <2>1, <3>2 DEF Request
        <4>2. ws \in Sockets /\ Used(ws) /\ ws <= ws
          BY <3>2, HastyTypes DEF Hasty, Succession
        <4> QED
          BY <1>0, <3>1, <3>2, <4>1, <4>2, HastyTypes
          DEF Hasty, Tied, Gone, LeftBehind, Used
      <3>3. CASE ~(state = "connected" /\ ws # None /\ sock[ws] # "connecting")
        <4>1. outcome' = [outcome EXCEPT ![q] = "lost"] /\ via' = via
          BY <2>1, <3>3 DEF Request
        <4> QED
          BY <1>0, <3>1, <4>1, HastyTypes DEF Hasty, Tied, Gone, LeftBehind, Used
      <3> QED  BY <3>2, <3>3
    <2>2. CASE RequestTimeout(q) \/ \E s \in Sockets : OnResponse(s, q)
      <3>1. /\ \A r \in Requests : outcome'[r] \in {outcome[r], "timeout", "resolved"}
            /\ outcome'[q] # "waiting" /\ pending' = pending \ {q} /\ via' = via
        BY <2>2, HastyTypes DEF RequestTimeout, OnResponse
      <3> QED  BY <1>0, <3>1 DEF Hasty, Tied, Gone, LeftBehind, Used
    <2> QED  BY <2>1, <2>2
  <1> QED  BY <1>0, <1>1, <1>2 DEF Hasty

LEMMA HastyStep == Hasty /\ Timed /\ [Next]_vars => Hasty'
  <1> SUFFICES ASSUME Hasty, Timed, [Next]_vars PROVE Hasty'  OBVIOUS
  <1>0. TypeInv' /\ TypeInv  BY HastyTypes, TypeStep
  <1>1. CASE Connect \/ ReconnectTimeout
    BY <1>0, <1>1, OpeningKeeps DEF Connect, ReconnectTimeout
  <1>2. CASE Close
    <2>1. /\ \A s \in Sockets : sock'[s] = IF s = ws /\ Live(s) THEN "closing" ELSE sock[s]
          /\ ws' = None /\ RejectAllPending /\ replaced' = replaced
      BY <1>2 DEF Close
    <2>2. Onward
      BY <2>1 DEF Onward, Live, Unfinished, Gone
    <2>3. ASSUME ws # None, NEW v \in Sockets, v <= ws, Used(v)
          PROVE  Gone(v)' \/ LeftBehind(v)'
      <3>1. CASE v = ws
        BY <2>1, <2>3, <3>1, HastyTypes DEF Live, Used, Gone, ReadyStates
      <3>2. CASE v # ws
        <4>1. ws \in Sockets /\ v < ws /\ Used(ws)
          BY <2>3, <3>2, HastyTypes DEF Hasty, Succession
        <4>2. Unfinished(v) => v \in replaced
          BY <4>1 DEF Hasty, Succession
        <4> QED  BY <2>1, <2>2, <2>3, <4>2, HastyTypes DEF Onward, Gone, LeftBehind
      <3> QED  BY <3>1, <3>2
    <2> QED  BY <1>0, <2>1, <2>2, <2>3, RejectKeeps
  <1>3. ASSUME NEW s \in Sockets, OnClose(s)
        PROVE  Hasty'
    <2>1. /\ Unfinished(s) /\ sock' = [sock EXCEPT ![s] = "closed"] /\ ws' = ws
          /\ replaced' = replaced /\ RejectAllPending
      BY <1>3 DEF OnClose, Unfinished
    <2>2. \A t \in Sockets : sock'[t] = IF t = s THEN "closed" ELSE sock[t]
      BY <2>1, HastyTypes
    <2>3. Onward
      BY <2>1, <2>2 DEF Onward, Unfinished, Gone
    <2>4. ASSUME NEW v \in Sockets, Used(v)
          PROVE  Gone(v)' \/ LeftBehind(v)'
      <3>1. CASE v = s
        BY <2>2, <3>1 DEF Gone
      <3>2. CASE s < v
        <4>1. s \in replaced
          BY <2>1, <2>4, <3>2 DEF Hasty, Succession
        <4> QED  BY <2>1, <2>2, <3>2, <4>1 DEF LeftBehind
      <3>3. CASE v < s
        <4>1. Used(s)  BY <2>1, HastyTypes
        <4>2. Unfinished(v) => v \in replaced
          BY <3>3, <4>1 DEF Hasty, Succession
        <4> QED  BY <2>1, <2>3, <2>4, <4>2, HastyTypes DEF Onward, Gone, LeftBehind
      <3> QED  BY <3>1, <3>2, <3>3, HastyTypes
    <2> QED  BY <1>0, <2>1, <2>3, <2>4, RejectKeeps
  <1>4. ASSUME NEW s \in Sockets, OnOpen(s) \/ ConnectTimeout(s) \/ OnAck(s) \/ OnPong(s)
        PROVE  Hasty'
    <2>1. ws' = ws /\ UNCHANGED requests /\ replaced' = replaced
      BY <1>4 DEF OnOpen, ConnectTimeout, OnAck, OnPong
    <2>2. CASE OnAck(s) \/ OnPong(s)
      BY <1>0, <2>1, <2>2, CalmKeeps DEF OnAck, OnPong, Onward, Unfinished, Gone
    <2>3. CASE OnOpen(s)
      <3>1. sock[s] = "connecting" /\ \A t \in Sockets : sock'[t] = IF t = s THEN "open" ELSE sock[t]
        BY <2>3, HastyTypes DEF OnOpen
      <3> QED  BY <1>0, <2>1, <3>1, CalmKeeps DEF Onward, Unfinished, Gone
    <2>4. CASE ConnectTimeout(s)
      <3>1. /\ Unfinished(s) /\ sock[s] # "closed"
            /\ \A t \in Sockets : sock'[t] = IF t = s THEN "closing" ELSE sock[t]
        BY <2>4, HastyTypes DEF ConnectTimeout, Timed, Unfinished
      <3> QED  BY <1>0, <2>1, <3>1, CalmKeeps DEF Onward, Unfinished, Gone
    <2> QED  BY <1>4, <2>2, <2>3, <2>4
  <1>5. CASE PongTimeout
    <2>1. /\ \A s \in Sockets : sock'[s] = IF s = ws /\ Live(s) THEN "closing" ELSE sock[s]
          /\ ws' = ws /\ replaced' = replaced /\ UNCHANGED requests
      BY <1>5 DEF PongTimeout
    <2> QED  BY <1>0, <2>1, CalmKeeps DEF Onward, Live, Unfinished, Gone
  <1>6. ASSUME NEW q \in Requests, Request(q) \/ RequestTimeout(q) \/ \E s \in Sockets : OnResponse(s, q)
        PROVE  Hasty'
    BY <1>6, OneRequestKeeps
  <1>7. CASE PingTick \/ UNCHANGED vars
    <2>1. ws' = ws /\ sock' = sock /\ replaced' = replaced /\ UNCHANGED requests
      BY <1>7 DEF PingTick, vars, requests
    <2> QED  BY <1>0, <2>1, CalmKeeps DEF Onward, Unfinished, Gone
  <1> QED
    BY <1>1, <1>2, <1>3, <1>4, <1>5, <1>6, <1>7 DEF Next

\* A request is lost only with its own socket if the application waits for old sockets to
\* close before it connects again.  If it does not, the close event of an older socket may
\* lose others, but only those of a socket that was replaced, or that came after one that
\* was replaced and has closed since (connection.ts:438-451, 638-644).
THEOREM RequestsLostWithTheirSocket == Spec => []LostOnlyWithItsSocket
  <1>1. ASSUME Patient = TRUE
        PROVE  Spec => []LostOnlyWithItsSocket
    <2>1. RequestInv => LostOnlyWithItsSocket
      BY DEF RequestInv, LostOnlyWithItsSocket
    <2> QED  BY <1>1, <2>1, RequestsStayTied, PTL
  <1>2. ASSUME Patient = FALSE
        PROVE  Spec => []LostOnlyWithItsSocket
    <2>1. Hasty => LostOnlyWithItsSocket
      BY <1>2 DEF Hasty, Tied, Gone, LostOnlyWithItsSocket
    <2>2. Init => Timed  BY DEF Init, Timed
    <2>3. Hasty /\ Timed /\ [Next]_vars => Hasty' /\ Timed'
      BY HastyTypes, HastyStep, TimedStep
    <2> QED  BY <2>1, <2>2, <2>3, HastyInit, PTL DEF Spec
  <1>3. Patient = TRUE \/ Patient = FALSE
    BY ConnectionAssumption
  <1> QED  BY <1>1, <1>2, <1>3
=============================================================================
