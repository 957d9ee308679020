------------------------------ MODULE Channels ------------------------------
(***************************************************************************)
(* The pub/sub channels of crates/mtw-router/src/channel.rs as the server  *)
(* uses them: each operation below is one call made by a single task.      *)
(* Message payloads are left out: a published message is its number.       *)
(***************************************************************************)
EXTENDS Names, Naturals, Sequences, FiniteSets

CONSTANTS Configured,   \* the channels of the configuration file
          MaxMembers,   \* their max_members: a number, or None
          HistorySize,  \* their history size
          None

ASSUME ChannelsAssumption ==
    /\ Configured \subseteq Channels
    /\ MaxMembers \in [Configured -> Nat \cup {None}]
    /\ HistorySize \in [Configured -> Nat]
    /\ None \notin Nat

VARIABLES
    channels,     \* the names in the manager's map
    subscribers,  \* the subscribers of each channel
    history,      \* the ring buffer of each channel
    fwdQ          \* message_tx / message_rx: (subscriber, message) pairs

channelVars == <<channels, subscribers, history, fwdQ>>

ChannelsTypeOK ==
    /\ channels \subseteq Channels
    /\ subscribers \in [Channels -> SUBSET Conns]
    /\ history \in [Channels -> Seq(Nat)]
    /\ fwdQ \in Seq([to: Conns, id: Nat])

ChannelsInit ==
    /\ channels = Configured
    /\ subscribers = [ch \in Channels |-> {}]
    /\ history = [ch \in Channels |-> <<>>]
    /\ fwdQ = <<>>

\* get_or_create() gives every other channel no limit and a history of 50.
Limit(ch) == IF ch \in Configured THEN MaxMembers[ch] ELSE None
Size(ch) == IF ch \in Configured THEN HistorySize[ch] ELSE 50

\* Fault: one member too many.
IsOverfull(ch) == Limit(ch) # None /\ Cardinality(subscribers[ch]) > Limit(ch)

\* subscribe() counts the members before it looks whether the connection is
\* already one of them.
IsFull(ch) == Limit(ch) # None /\ Cardinality(subscribers[ch]) >= Limit(ch)

Subscribe(ch, c) ==
    /\ channels' = channels \cup {ch}
    /\ subscribers' = IF IsFull(ch) THEN subscribers
                      ELSE [subscribers EXCEPT ![ch] = @ \cup {c}]
    /\ UNCHANGED <<history, fwdQ>>

Unsubscribe(ch, c) ==
    /\ subscribers' = [subscribers EXCEPT ![ch] = @ \ {c}]
    /\ UNCHANGED <<channels, history, fwdQ>>

\* Fault: the bound is tested as if the message were not yet in.
PushedTooMany(ch, id) ==
    IF Size(ch) = 0 THEN history[ch]
    ELSE IF Len(history[ch]) > Size(ch) THEN Tail(Append(history[ch], id))
         ELSE Append(history[ch], id)

\* The message is pushed and then, at most once, the oldest one is removed.
Pushed(ch, id) ==
    LET h == Append(history[ch], id)
    IN  IF Size(ch) = 0 THEN history[ch]
        ELSE IF Len(h) > Size(ch) THEN Tail(h) ELSE h

\* The orders in which iterating over the concurrent map may visit a set.
Orders(S) == {o \in [1..Cardinality(S) -> S] : \A s \in S : \E i \in DOMAIN o : o[i] = s}

\* Fault: the publisher hears itself.
PublishToAll(ch, id, from) ==
    /\ history' = [history EXCEPT ![ch] = Pushed(ch, id)]
    /\ \E o \in Orders(subscribers[ch]) :
          fwdQ' = fwdQ \o [i \in DOMAIN o |-> [to |-> o[i], id |-> id]]
    /\ UNCHANGED <<channels, subscribers>>

\* Fault: the loop is left after the first member.
PublishToOne(ch, id, from) ==
    /\ history' = [history EXCEPT ![ch] = Pushed(ch, id)]
    /\ LET S == subscribers[ch] \ {from}
       IN  IF S = {} THEN fwdQ' = fwdQ
           ELSE \E c \in S : fwdQ' = Append(fwdQ, [to |-> c, id |-> id])
    /\ UNCHANGED <<channels, subscribers>>

Publish(ch, id, from) ==
    /\ history' = [history EXCEPT ![ch] = Pushed(ch, id)]
    /\ \E o \in Orders(subscribers[ch] \ {from}) :
          fwdQ' = fwdQ \o [i \in DOMAIN o |-> [to |-> o[i], id |-> id]]
    /\ UNCHANGED <<channels, subscribers>>

\* Fault: the subscriptions are left behind.
RemoveNothing(c) == UNCHANGED channelVars

RemoveConnection(c) ==
    /\ subscribers' = [ch \in Channels |-> subscribers[ch] \ {c}]
    /\ UNCHANGED <<channels, history, fwdQ>>
=============================================================================
