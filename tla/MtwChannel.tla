------------------------------ MODULE MtwChannel -------------------------------
(***************************************************************************)
(* MtwChannel of packages/client/src/channel.ts: one channel, to which the *)
(* application may subscribe several times, at the same time too, and the  *)
(* server that has the connection among its members or not.  Publishing    *)
(* and requests only send; one handler stands for those of the application.*)
(***************************************************************************)
EXTENDS ClientLink, FiniteSets

CONSTANTS MaxSubscribes, \* bound: calls of subscribe()
          MaxSaid,       \* bound: messages others publish
          Others,        \* other members, whose presence the server tells
          MaxPresence    \* bound: how often one of them comes or goes

ASSUME ChannelObjectAssumption ==
    MaxSubscribes \in Nat /\ MaxSaid \in Nat /\ MaxPresence \in Nat /\ IsFiniteSet(Others)

VARIABLES
    active,           \* _active
    connectionUnsub,  \* the call whose listener it removes, 0: null
    channelListeners, \* the calls whose listeners the connection has
    subscribeCalls,   \* how each call of subscribe() stands
    toldOf,           \* history: what the handler was given since the last one succeeded
    present,          \* _members
    isMember,         \* the server has the connection in the channel
    spoken,           \* messages others have published
    here,             \* the other members
    presences,        \* how often they have changed
    since,            \* history: messages there were when the server took the last subscribe
    subscribedIn,     \* history: the connection it was answered on
    overlap,          \* history: two calls of subscribe() were waiting at the same time
    unanswered        \* history: a call timed out on this connection

objectVars == <<active, connectionUnsub, channelListeners, subscribeCalls, toldOf, present>>
roomVars == <<isMember, spoken, here, presences>>
channelHistory == <<since, subscribedIn, overlap, unanswered>>
channelObjectVars == <<linkVars, objectVars, roomVars, channelHistory>>

SubscribeIds == 1..MaxSubscribes
Numbers == 1..MaxSaid

ChannelObjectTypeOK ==
    /\ LinkTypeOK
    /\ active \in BOOLEAN /\ connectionUnsub \in {0} \cup SubscribeIds
    /\ channelListeners \subseteq SubscribeIds
    /\ subscribeCalls \in [SubscribeIds -> {"none", "waiting", "subscribed", "failed"}]
    /\ toldOf \in Seq(Numbers) /\ present \subseteq Others /\ here \subseteq Others
    /\ isMember \in BOOLEAN /\ spoken \in 0..MaxSaid /\ presences \in 0..MaxPresence
    /\ since \in 0..MaxSaid /\ subscribedIn \in 0..MaxEras
    /\ overlap \in BOOLEAN /\ unanswered \in BOOLEAN

ChannelObjectInit ==
    /\ LinkInit
    /\ active = FALSE /\ connectionUnsub = 0 /\ channelListeners = {}
    /\ subscribeCalls = [k \in SubscribeIds |-> "none"]
    /\ toldOf = <<>> /\ present = {}
    /\ isMember = FALSE /\ spoken = 0 /\ here = {} /\ presences = 0
    /\ since = 0 /\ subscribedIn = 0 /\ overlap = FALSE /\ unanswered = FALSE

WaitingCalls == {k \in SubscribeIds : subscribeCalls[k] = "waiting"}

-----------------------------------------------------------------------------
(* The application.                                                        *)

\* subscribe() returns or throws at once if the channel is active or the
\* connection is not; else it waits for an answer to its request.
SubscribeChannel(k) ==
    /\ subscribeCalls[k] = "none" /\ \A j \in 1..(k - 1) : subscribeCalls[j] # "none"
    /\ ~active /\ linkUp
    /\ subscribeCalls' = [subscribeCalls EXCEPT ![k] = "waiting"]
    /\ uplink' = Append(uplink, [is |-> "subscribe", call |-> k])
    /\ overlap' = (overlap \/ WaitingCalls # {})
    /\ UNCHANGED <<linkUp, era, downlink, active, connectionUnsub, channelListeners, toldOf,
                   present, roomVars, since, subscribedIn, unanswered>>

SubscribeTimesOut(k) ==
    /\ subscribeCalls[k] = "waiting"
    /\ subscribeCalls' = [subscribeCalls EXCEPT ![k] = "failed"]
    /\ unanswered' = TRUE
    /\ UNCHANGED <<linkVars, active, connectionUnsub, channelListeners, toldOf, present,
                   roomVars, since, subscribedIn, overlap>>

\* Fault: the listener stays.
StillListening == channelListeners

NoLongerListening == channelListeners \ {connectionUnsub}

\* unsubscribe() does not wait for the server.
UnsubscribeChannel ==
    /\ active
    /\ active' = FALSE /\ present' = {}
    /\ channelListeners' = NoLongerListening /\ connectionUnsub' = 0
    /\ uplink' = IF linkUp THEN Append(uplink, [is |-> "unsubscribe", call |-> 0]) ELSE uplink
    /\ UNCHANGED <<linkUp, era, downlink, subscribeCalls, toldOf, roomVars, channelHistory>>

-----------------------------------------------------------------------------
(* What the connection brings.                                             *)

\* Fault: a handler that is told of one message twice.
HandedTwice(n) == toldOf \o [i \in 1..(2 * Cardinality(channelListeners)) |-> n]

\* dispatchMessage(), once for each listener.
Handed(n) == toldOf \o [i \in 1..Cardinality(channelListeners) |-> n]

\* The answer to a call that waits: what the server sends from then on finds a
\* listener, and the messages that came with it are handed on first.
Subscribed(frame) ==
    /\ subscribeCalls' = [subscribeCalls EXCEPT ![frame.call] = "subscribed"]
    /\ channelListeners' = channelListeners \cup {frame.call}
    /\ connectionUnsub' = frame.call
    /\ active' = TRUE
    /\ toldOf' = frame.history
    /\ since' = frame.at /\ subscribedIn' = era
    /\ UNCHANGED present

SubscribeRefused(frame) ==
    /\ subscribeCalls' = [subscribeCalls EXCEPT ![frame.call] = "failed"]
    /\ UNCHANGED <<active, connectionUnsub, channelListeners, toldOf, present, since, subscribedIn>>

\* handleIncoming().
Incoming(frame) ==
    /\ toldOf' = IF frame.is = "publish" THEN Handed(frame.number) ELSE toldOf
    /\ present' = IF channelListeners = {} THEN present
                  ELSE CASE frame.is = "join" -> present \cup {frame.who}
                         [] frame.is = "leave" -> present \ {frame.who}
                         [] OTHER -> present
    /\ UNCHANGED <<active, connectionUnsub, channelListeners, subscribeCalls, since, subscribedIn>>

\* handleMessage() of the connection; an answer nobody waits for any more names
\* no channel and reaches no listener of it.
ReceiveFrame ==
    /\ downlink # <<>>
    /\ downlink' = Tail(downlink)
    /\ LET frame == Head(downlink)
           waiting == frame.is \in {"ack", "error"} /\ subscribeCalls[frame.call] = "waiting"
       IN CASE waiting /\ frame.is = "ack" -> Subscribed(frame)
            [] waiting /\ frame.is = "error" -> SubscribeRefused(frame)
            [] OTHER -> Incoming(frame)
    /\ UNCHANGED <<linkUp, era, uplink, roomVars, overlap, unanswered>>

\* The close event rejects what is pending, and tells the channel nothing.
ChannelLinkLost ==
    /\ LinkLost
    /\ subscribeCalls' = [k \in SubscribeIds |-> IF k \in WaitingCalls THEN "failed"
                                                 ELSE subscribeCalls[k]]
    /\ isMember' = FALSE /\ unanswered' = FALSE
    /\ UNCHANGED <<active, connectionUnsub, channelListeners, toldOf, present, spoken, here,
                   presences, since, subscribedIn, overlap>>

ChannelLinkRestored == LinkRestored /\ UNCHANGED <<objectVars, roomVars, channelHistory>>

-----------------------------------------------------------------------------
(* The server and the other members.                                       *)

\* A subscribe is acknowledged, perhaps with the last message, or refused; an
\* error of mtw-server names no request, so nobody hears of it.
ServerTakes ==
    /\ uplink # <<>>
    /\ uplink' = Tail(uplink)
    /\ IF Head(uplink).is = "unsubscribe" THEN isMember' = FALSE /\ UNCHANGED downlink
       ELSE \/ /\ isMember' = TRUE
               /\ \E past \in {<<>>} \cup {<<n>> : n \in {spoken} \ {0}} :
                     Bring([is |-> "ack", call |-> Head(uplink).call, history |-> past,
                            at |-> spoken])
            \/ UNCHANGED isMember /\ Bring([is |-> "error", call |-> Head(uplink).call])
            \/ UNCHANGED <<isMember, downlink>>
    /\ UNCHANGED <<linkUp, era, objectVars, spoken, here, presences, channelHistory>>

TellMember(frame) == IF isMember THEN Bring(frame) ELSE UNCHANGED downlink

OtherPublishes ==
    /\ spoken < MaxSaid /\ spoken' = spoken + 1
    /\ TellMember([is |-> "publish", number |-> spoken + 1])
    /\ UNCHANGED <<linkUp, era, uplink, objectVars, isMember, here, presences, channelHistory>>

OtherComesOrGoes(m) ==
    /\ presences < MaxPresence /\ presences' = presences + 1
    /\ here' = IF m \in here THEN here \ {m} ELSE here \cup {m}
    /\ TellMember([is |-> IF m \in here THEN "leave" ELSE "join", who |-> m])
    /\ UNCHANGED <<linkUp, era, uplink, objectVars, isMember, spoken, channelHistory>>

ChannelObjectNext ==
    \/ \E k \in SubscribeIds : SubscribeChannel(k) \/ SubscribeTimesOut(k)
    \/ UnsubscribeChannel \/ ReceiveFrame
    \/ ChannelLinkLost \/ ChannelLinkRestored
    \/ ServerTakes \/ OtherPublishes \/ \E m \in Others : OtherComesOrGoes(m)

ChannelObjectSpec == ChannelObjectInit /\ [][ChannelObjectNext]_channelObjectVars

-----------------------------------------------------------------------------

StillSubscribed == active /\ linkUp /\ subscribedIn = era
Publications == {i \in DOMAIN downlink : downlink[i].is = "publish"}
TellsOf(m) == {i \in DOMAIN downlink : downlink[i].is \in {"join", "leave"} /\ downlink[i].who = m}

\* While the subscription lasts and so does the connection, the server has the
\* client among its members, and every message since is handed on once and in
\* order, or on its way (channel.ts:88-99, 319-321); messages that came with the
\* answer come before them.  The n-th was the last that was handed on.
NothingMissedOnChannel ==
    StillSubscribed =>
       /\ isMember
       /\ \E n \in 0..spoken :
             /\ Len(toldOf) >= n - since
             /\ \A i \in DOMAIN toldOf : toldOf[i] = n - Len(toldOf) + i
             /\ {downlink[i].number : i \in Publications} = (n + 1)..spoken
             /\ \A i, j \in Publications : i < j => downlink[i].number < downlink[j].number

\* The last that the channel is told of a member is so, and of those it is told
\* nothing more, the members it knows are there.
MembersAreHere ==
    StillSubscribed =>
       \A m \in Others :
          /\ TellsOf(m) = {} /\ m \in present => m \in here
          /\ \A i \in TellsOf(m) : (\A j \in TellsOf(m) : j <= i) =>
                (downlink[i].is = "join" <=> m \in here)

\* The handler is told of messages only while the channel is active, and the
\* server goes on sending to a channel that is not only if a call had given up
\* waiting for its answer (channel.ts:120-142).
QuietWhenInactive ==
    /\ channelListeners = IF active THEN {connectionUnsub} ELSE {}
    /\ isMember /\ ~active =>
          \/ unanswered \/ WaitingCalls # {}
          \/ \E i \in DOMAIN uplink : uplink[i].is = "unsubscribe"

\* All this as long as no two calls of subscribe() wait at the same time: the
\* second would overwrite what unsubscribe() calls (channel.ts:94).
SubscriptionHolds ==
    ~overlap => NothingMissedOnChannel /\ MembersAreHere /\ QuietWhenInactive

===============================================================================
