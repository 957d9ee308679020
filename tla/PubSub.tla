------------------------------- MODULE PubSub -------------------------------
(***************************************************************************)
(* What publish/subscribe promises, without tasks, queues or sockets.      *)
(* What the clients say takes effect in the order it was said, each        *)
(* message once and in one step.  A published message reaches everyone who *)
(* is at that moment a member and attached, except its author; what is     *)
(* pending is received in order, unless the receiver is detached, and then *)
(* what it misses is the end of its stream.  A message is its number, and  *)
(* their order is that of the numbers.                                     *)
(***************************************************************************)
EXTENDS Naturals, Sequences

CONSTANTS Conns, Channels,
          Messages  \* what can be said: records with a conn, a kind and a ch

VARIABLES said,      \* the messages of all clients
          done,      \* how many of them have taken effect
          members,   \* members[ch]: who hears what is published on ch
          attached,  \* who can still be reached
          pending,   \* the messages each one has yet to receive
          received   \* the messages each one has received

vars == <<said, done, members, attached, pending, received>>

Init ==
    /\ said = <<>> /\ done = 0
    /\ members = [ch \in Channels |-> {}]
    /\ attached = {}
    /\ pending = [c \in Conns |-> {}]
    /\ received = [c \in Conns |-> {}]

Attach(c) ==
    /\ received[c] = {} /\ pending[c] = {}
    /\ attached' = attached \cup {c}
    /\ UNCHANGED <<said, done, members, pending, received>>

Say(m) ==
    /\ said' = Append(said, m)
    /\ UNCHANGED <<done, members, attached, pending, received>>

\* The oldest message that is pending.
Receive(c) ==
    /\ \E m \in pending[c] :
          /\ \A n \in pending[c] : m <= n
          /\ received' = [received EXCEPT ![c] = @ \cup {m}]
          /\ pending' = [pending EXCEPT ![c] = @ \ {m}]
    /\ UNCHANGED <<said, done, members, attached>>

\* Nothing is lost but the end of what is pending.
Shorten(c) ==
    /\ pending'[c] \subseteq pending[c]
    /\ \A m \in pending'[c], n \in pending[c] \ pending'[c] : m < n

CutOff(S) ==
    /\ attached' = attached \ S
    /\ pending' \in [Conns -> SUBSET Nat]
    /\ \A c \in Conns : IF c \in S THEN Shorten(c) ELSE pending'[c] = pending[c]
    /\ UNCHANGED received

Detach(S) == CutOff(S) /\ UNCHANGED <<said, done, members>>

Forget(c) ==
    /\ c \notin attached
    /\ members' = [ch \in Channels |-> members[ch] \ {c}]
    /\ UNCHANGED <<said, done, attached, pending, received>>

-----------------------------------------------------------------------------
(* The next message takes effect.                                          *)

Effect(kind) ==
    /\ done < Len(said) /\ said[done + 1].kind = kind
    /\ done' = done + 1
    /\ UNCHANGED said

Current == said[done + 1]

\* A subscription may be refused.
Join ==
    /\ Effect("subscribe")
    /\ members' \in {members, [members EXCEPT ![Current.ch] = @ \cup {Current.conn}]}
    /\ UNCHANGED <<attached, pending, received>>

Leave ==
    /\ Effect("unsubscribe")
    /\ members' = [members EXCEPT ![Current.ch] = @ \ {Current.conn}]
    /\ UNCHANGED <<attached, pending, received>>

Publish ==
    /\ Effect("publish")
    /\ pending' = [c \in Conns |->
                      IF c \in (members[Current.ch] \cap attached) \ {Current.conn}
                      THEN pending[c] \cup {done + 1} ELSE pending[c]]
    /\ UNCHANGED <<members, attached, received>>

GoAway ==
    /\ Effect("disconnect")
    /\ CutOff({Current.conn})
    /\ UNCHANGED members

Nothing ==
    /\ \E kind \in {"request", "connect", "ping", "other"} : Effect(kind)
    /\ UNCHANGED <<members, attached, pending, received>>

Next ==
    \/ \E c \in Conns : Attach(c) \/ Receive(c) \/ Forget(c)
    \/ \E m \in Messages : Say(m)
    \/ \E S \in SUBSET Conns : Detach(S)
    \/ Join \/ Leave \/ Publish \/ GoAway \/ Nothing

Spec == Init /\ [][Next]_vars
=============================================================================
