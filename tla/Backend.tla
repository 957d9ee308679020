------------------------------- MODULE Backend --------------------------------
(***************************************************************************)
(* What stands behind the server's requests (crates/mtw-server/src/main.rs): *)
(* main() opens the store and connects the bridge, and handle_request()    *)
(* sends each request to one of them, one at a time, inside the event      *)
(* loop.  Other tasks of the process share both.                           *)
(***************************************************************************)
EXTENDS Bridge, Store

CONSTANTS Loop,         \* the event loop, as a caller and as a reader
          Deployments,  \* configurations, what clients request and others share
          MaxRequests   \* bound: requests the clients send

\* A request by its action, or by its tool.
Requests == Queries \cup {"tool", "other"}

ASSUME BackendAssumption ==
    /\ Loop \in Callers \cap Readers /\ MaxRequests \in Nat
    /\ Deployments \subseteq [store : BOOLEAN, readonly : BOOLEAN, bridge : {"none", "socket", "address"},
                             shared : {"none", "bridge", "store"},
                             requests : SUBSET Requests]

VARIABLES
    config,     \* what the configuration asks for
    server,     \* how far main() is
    connected,  \* the bridge is there: Some(bridge)
    handled,    \* how many requests the loop has taken
    busy,       \* what the loop is waiting for in handle_request()
    replies     \* what has been sent back for each request

loopVars == <<config, server, connected, handled, busy, replies>>
vars == <<bridgeVars, storeVars, loopVars>>

Replies == {"response", "500", "503", "echo"}

TypeOK ==
    /\ BridgeTypeOK /\ StoreTypeOK
    /\ config \in Deployments
    /\ server \in {"starting", "reading info", "connecting", "serving", "aborted"}
    /\ connected \in BOOLEAN
    /\ handled \in 0..MaxRequests
    /\ busy \in {"no", "store", "bridge"}
    /\ replies \in [1..handled -> Seq(Replies)]

Init ==
    /\ BridgeInit /\ StoreInit
    /\ config \in Deployments /\ readonly = config.readonly
    /\ server = "starting" /\ connected = FALSE
    /\ handled = 0 /\ busy = "no" /\ replies = <<>>

-----------------------------------------------------------------------------
(* main() up to its event loop.                                            *)

\* A store that cannot be opened, or cannot tell its tables, ends main().
StartStore ==
    /\ server = "starting"
    /\ \/ /\ ~config.store
          /\ server' = "connecting" /\ UNCHANGED <<storeVars, busy>>
       \/ /\ config.store /\ store = "closed"
          /\ Open
          /\ server' = IF store' = "failed" THEN "aborted" ELSE server
          /\ UNCHANGED busy
       \/ /\ config.store /\ store = "open"
          /\ StartQuery(Loop, "info")
          /\ server' = "reading info" /\ busy' = "store"
    /\ UNCHANGED <<config, connected, handled, replies, bridgeVars>>

InfoRead ==
    /\ server = "reading info" /\ querying[Loop] = "nothing"
    /\ server' = IF found[Loop] = "info" THEN "connecting" ELSE "aborted"
    /\ busy' = "no"
    /\ UNCHANGED <<config, connected, handled, replies, bridgeVars, storeVars>>

\* The bridge is part of the store's configuration; only a socket that can
\* be connected gives one, and its failure is no error.
ConnectBridge ==
    /\ server = "connecting"
    /\ server' = "serving"
    /\ connected' \in {FALSE, config.store /\ config.bridge = "socket" /\ peer}
    /\ UNCHANGED <<config, handled, busy, replies, bridgeVars, storeVars>>

-----------------------------------------------------------------------------
(* handle_request().                                                       *)

ForStore(q) == q \in Queries

Take ==
    /\ server = "serving" /\ busy = "no" /\ handled < MaxRequests
    /\ handled' = handled + 1
    /\ UNCHANGED <<config, server, connected>>

\* Answered at once: what is not configured, and what nobody handles.
TakePrompt(answer) ==
    /\ Take
    /\ replies' = Append(replies, <<answer>>)
    /\ UNCHANGED <<busy, bridgeVars, storeVars>>

HandlePrompt ==
    \E q \in config.requests :
       \/ ForStore(q) /\ ~config.store /\ TakePrompt("503")
       \/ q = "tool" /\ ~connected /\ TakePrompt("503")
       \/ q = "other" /\ TakePrompt("echo")

HandleQuery ==
    /\ Take /\ config.store
    /\ \E q \in config.requests : ForStore(q) /\ StartQuery(Loop, q)
    /\ busy' = "store" /\ replies' = Append(replies, <<>>)
    /\ UNCHANGED bridgeVars

HandleTool ==
    /\ Take /\ connected /\ "tool" \in config.requests
    /\ StartCall(Loop, TRUE)
    /\ busy' = "bridge" /\ replies' = Append(replies, <<>>)
    /\ UNCHANGED storeVars

Reply(ok) ==
    /\ replies' = [replies EXCEPT ![handled] = Append(@, IF ok THEN "response" ELSE "500")]
    /\ busy' = "no"
    /\ UNCHANGED <<config, server, connected, handled, bridgeVars, storeVars>>

QueryEnds ==
    /\ server = "serving" /\ busy = "store" /\ querying[Loop] = "nothing"
    /\ Reply(found[Loop] \in {"rows", "truncated", "done", "info"})

CallEnds ==
    /\ busy = "bridge" /\ phase[Loop] = "idle"
    /\ Reply(got[Loop] = "result")

LoopStep == StartStore \/ InfoRead \/ ConnectBridge \/ HandlePrompt \/ HandleQuery
                \/ HandleTool \/ QueryEnds \/ CallEnds

\* The bridge and the store at work, and the other tasks that use them.
CallOf(c) == connected /\ CallStep(c) /\ UNCHANGED <<storeVars, loopVars>>
LockOf(c) == connected /\ Lock(c) /\ UNCHANGED <<storeVars, loopVars>>
ProcessReads == PeerReads /\ UNCHANGED <<storeVars, loopVars>>
Process == config.bridge = "socket" /\ PeerStep /\ UNCHANGED <<storeVars, loopVars>>
OthersCall ==
    /\ connected /\ config.shared = "bridge"
    /\ \E c \in Callers \ {Loop}, isTool \in BOOLEAN : StartCall(c, isTool)
    /\ UNCHANGED <<storeVars, loopVars>>

QueryOf(r) == QueryStep(r) /\ UNCHANGED <<bridgeVars, loopVars>>
OthersQuery ==
    /\ server = "serving" /\ config.shared = "store"
    /\ \E r \in Readers \ {Loop} :
          \/ ReturnConnection(r)
          \/ \E q \in (config.requests \cap Queries) \cup {"custom"} : StartQuery(r, q)
    /\ UNCHANGED <<bridgeVars, loopVars>>
Database == config.shared = "store" /\ OthersWrite /\ UNCHANGED <<bridgeVars, loopVars>>

Next ==
    \/ LoopStep
    \/ \E c \in Callers : CallOf(c)
    \/ Process \/ OthersCall
    \/ \E r \in Readers : QueryOf(r)
    \/ OthersQuery \/ Database

Spec == Init /\ [][Next]_vars

\* The loop and the blocking tasks run; a lock that is let go of again and
\* again is given to each that waits (Tokio's is a queue).  The external
\* process reads what is sent to it, and owes no answer: a call ends by its
\* timeout.
FairSpec ==
    /\ Spec
    /\ WF_vars(LoopStep)
    /\ \A c \in Callers : SF_vars(LockOf(c)) /\ WF_vars(CallOf(c))
    /\ \A r \in Readers : WF_vars(QueryOf(r))
    /\ WF_vars(ProcessReads)

-----------------------------------------------------------------------------

\* Every request is answered, once (main.rs:310-383 in the loop of main.rs:133):
\* a connection a module keeps, a process that never answers, a stream out of
\* step and a process that goes away end a request with an error, not with
\* silence.
EveryRequestAnswered ==
    \A i \in 1..MaxRequests :
       handled = i ~> i \in DOMAIN replies /\ Len(replies[i]) = 1

=============================================================================
