-------------------------------- MODULE Router --------------------------------
(***************************************************************************)
(* MtwRouter with its MiddlewareChain (crates/mtw-router) and the          *)
(* AuthMiddleware of crates/mtw-auth: a message goes through the chain,    *)
(* one middleware after the other, and then to the channels or a handler.  *)
(* Each middleware is awaited, and keys may be revoked meanwhile.  Channels*)
(* are sets of members here; Channels.tla has their limits and histories.  *)
(***************************************************************************)
EXTENDS Auth

CONSTANTS Peers,      \* the connections
          Rooms,      \* the channels
          Stock,      \* middlewares an application may add: what each does, with
                      \* which priority, and what of a message it writes
          MaxAdded,   \* bound: middlewares added
          MaxRouted   \* bound: messages routed

Types == {"Subscribe", "Unsubscribe", "Publish", "Ping", "Request"}
Bypass == {"Ping"}

Fields == {"type", "room", "credential", "user"}

ASSUME RouterAssumption ==
    /\ MaxAdded \in Nat /\ MaxRouted \in Nat
    /\ \A m \in Stock : /\ m.priority \in Nat /\ m.does \in {"jwt", "apikey", "other"}
                        /\ m.writes \subseteq Fields
    /\ "none" \notin Owners \cup ApiKeys

VARIABLES
    added,    \* history: the middlewares, in the order they were added
    chain,    \* the middlewares, as the chain has them
    routing,  \* the router has been built
    position,       \* where the message is in the chain; 0: none is being routed
    mail,     \* that message: from, type, room, credential, and auth_user
    vouched,  \* history: the credential that was found good the last time
    members,  \* the members of each room
    rooms,    \* the rooms there are
    reply,    \* how the latest message ended
    routed    \* messages so far

routerVars == <<added, chain, routing, position, mail, vouched, members, rooms, reply, routed>>
buildVars == <<added, chain, routing>>

None == "none"
Replies == {None, "ack", "404", "pong", "response", "published", "halted", "error"}
\* A token by its number, a key, or neither.
Credentials == [token : 0..MaxTokens, key : {None}] \cup [token : {0}, key : ApiKeys]
Mails == [from : Peers, type : Types, room : Rooms \cup {None}, credential : Credentials,
          user : Owners \cup {None}]
NoCredential == [token |-> 0, key |-> None]

RouterTypeOK ==
    /\ AuthTypeOK
    /\ added \in Seq(Stock) /\ chain \in Seq(Stock) /\ Len(chain) <= MaxAdded
    /\ routing \in BOOLEAN
    /\ position \in 0..(Len(chain) + 1)
    /\ position # 0 => mail \in Mails
    /\ vouched \in Credentials
    /\ members \in [Rooms -> SUBSET Peers] /\ rooms \subseteq Rooms
    /\ reply \in Replies
    /\ routed \in 0..MaxRouted

RouterInit ==
    /\ AuthInit
    /\ added = <<>> /\ chain = <<>> /\ routing = FALSE
    /\ position = 0 /\ mail = <<>> /\ vouched = NoCredential
    /\ members = [r \in Rooms |-> {}] /\ rooms = {}
    /\ reply = None /\ routed = 0

-----------------------------------------------------------------------------
(* The chain.                                                              *)

InsertAfter(n, m) == SubSeq(chain, 1, n) \o <<m>> \o SubSeq(chain, n + 1, Len(chain))

MayAdd(m) == ~routing /\ Len(chain) < MaxAdded /\ \A i \in DOMAIN added : added[i] # m

\* Fault: the chain is sorted by priority, and the last comes first of its own.
AddBefore(m) ==
    /\ MayAdd(m) /\ added' = Append(added, m)
    /\ \E n \in 0..Len(chain) :
          /\ \A i \in DOMAIN chain : i <= n <=> chain[i].priority < m.priority
          /\ chain' = InsertAfter(n, m)
    /\ UNCHANGED <<routing, position, mail, vouched, members, rooms, reply, routed, authVars>>

\* Pushed and sorted by priority; the sort is stable, so a middleware comes to
\* stand behind those that go before it or were there before it.  (One is added
\* once.)
Add(m) ==
    /\ MayAdd(m) /\ added' = Append(added, m)
    /\ \E n \in 0..Len(chain) :
          /\ \A i \in DOMAIN chain : i <= n <=> chain[i].priority <= m.priority
          /\ chain' = InsertAfter(n, m)
    /\ UNCHANGED <<routing, position, mail, vouched, members, rooms, reply, routed, authVars>>

BuildRouter ==
    /\ ~routing /\ routing' = TRUE
    /\ UNCHANGED <<added, chain, position, mail, vouched, members, rooms, reply, routed, authVars>>

\* The metadata is the client's, who may have put an auth_user into it.
Arrive ==
    /\ routing /\ position = 0 /\ routed < MaxRouted
    /\ mail' \in Mails
    /\ position' = 1 /\ vouched' = NoCredential /\ reply' = None /\ routed' = routed + 1
    /\ UNCHANGED <<buildVars, members, rooms, authVars>>

EndWith(how) ==
    /\ position' = 0 /\ mail' = <<>> /\ vouched' = NoCredential /\ reply' = how
    /\ UNCHANGED <<buildVars, routed, authVars>>

Current == chain[position]
InChain == position \in DOMAIN chain

PassesOn(m) ==
    /\ mail' = m /\ position' = position + 1
    /\ UNCHANGED <<buildVars, members, rooms, reply, routed, authVars>>

OwnerOf(c) == IF c.key = None THEN issued[c.token].owner ELSE KeyOwner[c.key]
Validates(m, c) == IF m.does = "jwt" THEN ValidatesToken(c.token) ELSE ValidatesKey(c.key)

\* Fault: an auth_user that is already there is kept.
AuthKeepsUser ==
    /\ InChain /\ Current.does \in {"jwt", "apikey"}
    /\ CASE mail.type \in Bypass -> PassesOn(mail) /\ UNCHANGED vouched
         [] mail.type \notin Bypass /\ Validates(Current, mail.credential) ->
              /\ PassesOn([mail EXCEPT !.user = IF @ = None THEN OwnerOf(mail.credential) ELSE @])
              /\ vouched' = mail.credential
         [] OTHER -> EndWith("error") /\ UNCHANGED <<members, rooms>>

\* Pings pass; a message without a credential, or with one that is not good,
\* is an error; the claims of a good one go into its metadata, over what is there.
AuthInbound ==
    /\ InChain /\ Current.does \in {"jwt", "apikey"}
    /\ CASE mail.type \in Bypass -> PassesOn(mail) /\ UNCHANGED vouched
         [] mail.type \notin Bypass /\ Validates(Current, mail.credential) ->
              /\ PassesOn([mail EXCEPT !.user = OwnerOf(mail.credential)])
              /\ vouched' = mail.credential
         [] OTHER -> EndWith("error") /\ UNCHANGED <<members, rooms>>

\* What an application's middleware may make of the message it was given.
MayBecome(f, S) == IF f \in Current.writes THEN S ELSE {mail[f]}
Rewrites ==
    [from : {mail.from}, type : MayBecome("type", Types), room : MayBecome("room", Rooms \cup {None}),
     credential : MayBecome("credential", Credentials), user : MayBecome("user", Owners \cup {None})]

\* It lets the message through as it is, or as something else (Continue and
\* Transform), moves it to another channel as well, halts it, or fails.
OtherInbound ==
    /\ InChain /\ Current.does = "other"
    /\ \/ \E m \in Rewrites : PassesOn(m) /\ UNCHANGED vouched
       \/ \E m \in Rewrites, r \in Rooms : PassesOn([m EXCEPT !.room = r]) /\ UNCHANGED vouched
       \/ \E how \in {"halted", "error"} : EndWith(how) /\ UNCHANGED <<members, rooms>>

-----------------------------------------------------------------------------
(* handle_event() once the chain has been passed.                          *)

Processed == position = Len(chain) + 1

\* A message without a channel is not answered, nor is a request that no
\* handler, or no handler's response, answers.
RouteNothing ==
    /\ Processed
    /\ mail.type \in {"Subscribe", "Unsubscribe", "Publish"} => mail.room = None
    /\ mail.type # "Ping"
    /\ EndWith(None) /\ UNCHANGED <<members, rooms>>

\* An acknowledgment that cannot be sent is an error; the membership stays.
RouteSubscribe ==
    /\ Processed /\ mail.type = "Subscribe" /\ mail.room # None
    /\ members' = [members EXCEPT ![mail.room] = @ \cup {mail.from}]
    /\ rooms' = rooms \cup {mail.room}
    /\ \E how \in {"ack", "error"} : EndWith(how)

RouteUnsubscribe ==
    /\ Processed /\ mail.type = "Unsubscribe" /\ mail.room # None
    /\ members' = [members EXCEPT ![mail.room] = @ \ {mail.from}]
    /\ \E how \in {"ack", "error"} : EndWith(how)
    /\ UNCHANGED rooms

RoutePublish ==
    /\ Processed /\ mail.type = "Publish" /\ mail.room # None
    /\ \E how \in IF mail.room \in rooms THEN {"published"} ELSE {"404", "error"} : EndWith(how)
    /\ UNCHANGED <<members, rooms>>

RoutePing ==
    /\ Processed /\ mail.type = "Ping"
    /\ \E how \in {"pong", "error"} : EndWith(how)
    /\ UNCHANGED <<members, rooms>>

\* Any other type goes to the handlers registered for it.
RouteToHandler ==
    /\ Processed /\ mail.type = "Request"
    /\ \E how \in {"response", "error"} : EndWith(how)
    /\ UNCHANGED <<members, rooms>>

PeerLeft(p) ==
    /\ routing /\ position = 0
    /\ \E r \in Rooms : p \in members[r]
    /\ members' = [r \in Rooms |-> members[r] \ {p}]
    /\ UNCHANGED <<buildVars, position, mail, vouched, rooms, reply, routed, authVars>>

\* Other tasks use the authenticator, as long as there are messages to come.
Meanwhile ==
    /\ routing /\ (routed < MaxRouted \/ position # 0)
    /\ AuthNext /\ UNCHANGED routerVars

RouterNext ==
    \/ \E m \in Stock : Add(m)
    \/ BuildRouter \/ Arrive \/ AuthInbound \/ OtherInbound
    \/ RouteNothing \/ RouteSubscribe \/ RouteUnsubscribe \/ RoutePublish \/ RoutePing
    \/ RouteToHandler
    \/ \E p \in Peers : PeerLeft(p)
    \/ Meanwhile

RouterSpec == RouterInit /\ [][RouterNext]_<<routerVars, authVars>>

-----------------------------------------------------------------------------

Authenticators == {m \in Stock : m.does \in {"jwt", "apikey"}}

\* The documented order: by priority, and those of one as they were added.
Precedes(m, n) ==
    \/ m.priority < n.priority
    \/ /\ m.priority = n.priority
       /\ \E k, l \in DOMAIN added : k < l /\ added[k] = m /\ added[l] = n

\* A middleware that decides whom a message is from, or whether it is looked at.
MayForge(m) == m.does = "other" /\ m.writes \cap {"type", "user"} # {}

\* An authenticator that is to come after every middleware that may forge.
HasLastWord(m) ==
    m \in Authenticators
      /\ \A k \in DOMAIN added : MayForge(added[k]) => Precedes(added[k], m)

\* The message has the user whose credential, of the kind for requests, was good.
Vouched ==
    /\ \/ vouched.key = None /\ vouched.token \in DOMAIN issued /\ ~issued[vouched.token].refresh
       \/ vouched.key \in ApiKeys /\ apiKeys[vouched.key] # "none"
    /\ mail.user = OwnerOf(vouched)

\* Whoever the client says it is, whatever the application's middlewares make of
\* the message, and whatever is issued and revoked meanwhile: if those that may
\* forge are to come before some authenticator, as the documented order has it,
\* what is handled is handled for the user whose credential was found good; and
\* the chain has that order (mtw-router/src/middleware.rs:66-92,
\* mtw-auth/src/middleware.rs:58-91).
RoutedAsVouched ==
    /\ Processed /\ mail.type \notin Bypass /\ (\E i \in DOMAIN added : HasLastWord(added[i]))
         => Vouched
    /\ \A i, j \in DOMAIN chain : i < j => Precedes(chain[i], chain[j])

===============================================================================
