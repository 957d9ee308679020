------------------------------ MODULE BitvavoWs -------------------------------
(***************************************************************************)
(* The Bitvavo stream of providers/bitvavo/ws.rs: connect() starts a task  *)
(* that connects, authenticates, replays the subscriptions and reads, and  *)
(* connects again after a delay; shutdown() tells it to stop and aborts    *)
(* it.  The exchange's end of the socket is external.                      *)
(***************************************************************************)
EXTENDS Naturals, Sequences

CONSTANTS Topics,       \* the kinds of Subscription in use
          MaxSubs,      \* bound: subscriptions kept
          MaxAttempts   \* bound: attempts counted

ASSUME WsAssumption ==
    /\ Topics \subseteq {"Ticker24h", "Candles", "Book", "Trades"}
    /\ {MaxSubs, MaxAttempts} \subseteq Nat

VARIABLES
    task,       \* where the connection task is
    attempt,    \* reconnect.attempt
    delay,      \* the delay it is waiting, in milliseconds
    subs,       \* the subscriptions to maintain
    replay,     \* those it still has to send on this connection
    onServer,   \* what this connection is subscribed to
    authed,     \* whether the authentication message was sent
    told,       \* the last of the two states the manager was told
    news,       \* the latest other event
    stopped,    \* shutdown() has been called: the signal is sent, the task aborted
    unread,     \* history: how many were added since this connection read the list
    cleared,    \* history: the list was cleared since
    cut         \* history: the replay on this connection was given up

heardVars == <<unread, cleared, cut>>
wsVars == <<task, attempt, delay, subs, replay, onServer, authed, told, news, stopped, heardVars>>

Ended == {"none", "returned", "aborted", "panicked"}

\* The channel whose name a subscription is sent under.
ChannelOf == [Ticker24h |-> "ticker24h", Candles |-> "candles", Book |-> "book", Trades |-> "trades"]

\* base_delay_ms and max_delay_ms.
Base == 1000
Ceiling == 60000

WsTypeOK ==
    /\ task \in {"none", "connecting", "authenticating", "replaying", "reading", "waiting",
                 "returned", "aborted", "panicked"}
    /\ attempt \in 0..MaxAttempts /\ delay \in 0..Ceiling
    /\ subs \in Seq(Topics) /\ Len(subs) <= MaxSubs
    /\ replay \in Seq(Topics) /\ onServer \subseteq {ChannelOf[s] : s \in Topics}
    /\ authed \in BOOLEAN /\ stopped \in BOOLEAN
    /\ told \in {"nothing", "Connected", "Disconnected"}
    /\ news \in {"nothing", "TickerUpdate", "CandleUpdate", "Error"}
    /\ unread \in 0..Len(subs) /\ cleared \in BOOLEAN /\ cut \in BOOLEAN

WsInit ==
    /\ task = "none" /\ attempt = 0 /\ delay = 0
    /\ subs = <<>> /\ replay = <<>> /\ onServer = {} /\ authed = FALSE
    /\ told = "nothing" /\ news = "nothing" /\ stopped = FALSE
    /\ unread = 0 /\ cleared = FALSE /\ cut = FALSE

-----------------------------------------------------------------------------

\* base_delay_ms * 2^attempt in 64 bits, with max_delay_ms as its ceiling.
\* 1000 * 2^attempt is below 2^64 up to 54, and a multiple of 2^64 from 61 on.
Overflows(a) == a > 54
WrapsToZero(a) == a >= 64 \/ (a > 54 /\ Base % 2^(64 - a) = 0)

NextDelay(a) == IF a < 6 THEN Base * 2^a ELSE IF WrapsToZero(a) THEN 0 ELSE Ceiling

StartStream ==
    /\ task = "none" /\ ~stopped
    /\ task' = "connecting"
    /\ UNCHANGED <<attempt, delay, subs, replay, onServer, authed, told, news, stopped, heardVars>>

ConnectOk ==
    /\ task = "connecting" /\ ~stopped
    /\ task' = "authenticating" /\ attempt' = 0
    /\ onServer' = {} /\ authed' = FALSE /\ replay' = <<>>
    /\ told' = "Connected"
    /\ UNCHANGED <<delay, subs, news, stopped, heardVars>>

\* A delay that overflows panics in a debug build, and wraps in a release one.
BackOff ==
    /\ attempt < MaxAttempts
    /\ attempt' = attempt + 1
    /\ \/ task' = "waiting" /\ delay' = NextDelay(attempt)
       \/ Overflows(attempt) /\ task' = "panicked" /\ UNCHANGED delay

ConnectFails ==
    /\ task = "connecting" /\ ~stopped
    /\ BackOff
    /\ news' = "Error"
    /\ UNCHANGED <<subs, replay, onServer, authed, told, stopped, heardVars>>

\* The subscriptions are read once, when the authentication is on its way; a
\* failure to send it is followed by another attempt at once, with no event.
Authenticate ==
    /\ task = "authenticating"
    /\ \/ task' = "replaying" /\ authed' = TRUE /\ replay' = subs
       \/ task' = "connecting" /\ UNCHANGED <<authed, replay>>
    /\ UNCHANGED <<attempt, delay, subs, onServer, told, news, stopped, heardVars>>

\* Fault: the replay stops one subscription early.
ReplayAllButLast ==
    /\ task = "replaying"
    /\ \/ /\ Len(replay) <= 1
          /\ task' = "reading" /\ UNCHANGED <<replay, onServer, cut>>
       \/ /\ Len(replay) > 1
          /\ onServer' = onServer \cup {ChannelOf[Head(replay)]}
          /\ replay' = Tail(replay) /\ UNCHANGED <<task, cut>>
       \/ /\ replay # <<>>
          /\ task' = "reading" /\ cut' = TRUE /\ UNCHANGED <<replay, onServer>>
    /\ UNCHANGED <<attempt, delay, subs, authed, told, news, stopped, unread, cleared>>

\* A subscription that cannot be sent ends the replay, not the connection.
Replay ==
    /\ task = "replaying"
    /\ \/ /\ replay = <<>>
          /\ task' = "reading" /\ UNCHANGED <<replay, onServer, cut>>
       \/ /\ replay # <<>>
          /\ onServer' = onServer \cup {ChannelOf[Head(replay)]}
          /\ replay' = Tail(replay) /\ UNCHANGED <<task, cut>>
       \/ /\ replay # <<>>
          /\ task' = "reading" /\ cut' = TRUE /\ UNCHANGED <<replay, onServer>>
    /\ UNCHANGED <<attempt, delay, subs, authed, told, news, stopped, unread, cleared>>

\* What dispatch_message() reports of a message: a refused authentication is
\* an error like any other.
EventOf == [ticker24h |-> "TickerUpdate", candle |-> "CandleUpdate",
            authenticate |-> "Error", error |-> "Error"]

\* The channel that each message comes from: those of "candles" say "candle".
Feeds == [ticker24h |-> {"ticker24h"}, candle |-> {"candles"}, authenticate |-> {}, error |-> {}]

\* Tickers and candles come to those who subscribed; what is acknowledged,
\* unknown or unreadable changes nothing.
ReadMessage ==
    /\ task = "reading"
    /\ \E m \in DOMAIN EventOf :
          /\ Feeds[m] \subseteq onServer
          /\ news' = EventOf[m]
    /\ UNCHANGED <<task, attempt, delay, subs, replay, onServer, authed, told, stopped, heardVars>>

\* The next connection reads the list anew.
Forget == unread' = 0 /\ cleared' = FALSE /\ cut' = FALSE

ConnectionEnds ==
    /\ task = "reading"
    /\ told' = "Disconnected"
    /\ BackOff
    /\ onServer' = {} /\ Forget
    /\ UNCHANGED <<subs, replay, authed, news, stopped>>

DelayPasses ==
    /\ task = "waiting" /\ ~stopped
    /\ task' = "connecting"
    /\ UNCHANGED <<attempt, delay, subs, replay, onServer, authed, told, news, stopped, heardVars>>

\* Only the read loop and the delay look at the signal.
SeeShutdown ==
    /\ stopped /\ task \in {"reading", "waiting"}
    /\ task' = "returned"
    /\ onServer' = {} /\ Forget
    /\ UNCHANGED <<attempt, delay, subs, replay, authed, told, news, stopped>>

-----------------------------------------------------------------------------
(* The application.                                                        *)

\* The task has its own copy of the list, and does not look at the list again.
HasRead == task \in {"replaying", "reading"}

\* Despite its comment, subscribe() only adds to the list.
SubscribeTo(s) ==
    /\ Len(subs) < MaxSubs
    /\ subs' = Append(subs, s)
    /\ unread' = IF HasRead THEN unread + 1 ELSE 0
    /\ UNCHANGED <<task, attempt, delay, replay, onServer, authed, told, news, stopped, cleared, cut>>

\* The exchange is not told.
ClearSubscriptions ==
    /\ subs # <<>>
    /\ subs' = <<>> /\ unread' = 0 /\ cleared' = HasRead
    /\ UNCHANGED <<task, attempt, delay, replay, onServer, authed, told, news, stopped, cut>>

\* The signal, and the abort.
ShutdownStream ==
    /\ ~stopped /\ stopped' = TRUE
    /\ UNCHANGED <<task, attempt, delay, subs, replay, onServer, authed, told, news, heardVars>>

\* An abort ends the task where it next has to wait; what needs no wait, it
\* still does.
AbortTask ==
    /\ stopped /\ task \notin Ended
    /\ task' = "aborted" /\ onServer' = {} /\ Forget
    /\ UNCHANGED <<attempt, delay, subs, replay, authed, told, news, stopped>>

WsNext ==
    \/ StartStream \/ ConnectOk \/ ConnectFails \/ Authenticate \/ Replay \/ ReadMessage
    \/ ConnectionEnds \/ DelayPasses \/ SeeShutdown
    \/ \E s \in Topics : SubscribeTo(s)
    \/ ClearSubscriptions \/ ShutdownStream \/ AbortTask

WsSpec == WsInit /\ [][WsNext]_wsVars

-----------------------------------------------------------------------------
(* Properties.                                                             *)

\* The channels of the subscriptions that the connection has read and are still there.
AsRead == {ChannelOf[subs[i]] : i \in 1..(Len(subs) - unread)}

\* "Subscriptions to maintain across reconnections" (ws.rs:58): however often the
\* stream connects again, and whatever is added meanwhile, the exchange has each
\* subscription that was there when the list was read, unless sending one failed, and
\* no other, unless the list was cleared since (ws.rs:111-119, 182-189).
MaintainsSubscriptions ==
    task = "reading" /\ ~cleared => onServer \subseteq AsRead /\ (~cut => onServer = AsRead)

\* "Exponential backoff before reconnect" (ws.rs:163): while no connection
\* succeeds, no delay is shorter than the one before it.
BackoffNeverShrinks ==
    [][task' = "waiting" /\ task # "waiting" /\ attempt # 0 => delay' >= delay]_wsVars

===============================================================================
