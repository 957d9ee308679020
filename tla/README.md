# TLA+ models of mtwRequest

mtwRequest is a real-time framework: a Rust WebSocket server with publish/subscribe
channels, a TypeScript client with views for several UI frameworks, and a set of Rust
libraries around them (an HTTP client with a pipeline, a state store, exchange and
third-party integrations, AI orchestration, a module registry). This directory holds the
models of its core and of the libraries, the configurations that check them with TLC, and
proofs of the most important properties for every value of the constants.

## Inventory

| Component | Its state | Its operations | What is hard about it |
|---|---|---|---|
| WebSocket transport (`mtw-transport/src/ws.rs`) | maps `connections`, `binary_connections`; a queue per connection; the event queue | accept, read loop, write task, ping task, cleanup; `send`, `close`, `shutdown` | four tasks per connection share the maps with the server's two loops; a connection may end between any two of their steps |
| Channels (`mtw-router/src/channel.rs`) | members and history of each channel; the queue of messages to forward | `subscribe`, `unsubscribe`, `publish`, `remove_connection`, `get_or_create` | limits tested and used in two steps; fan-out over a concurrent map |
| Server (`mtw-server/src/main.rs`) | the event loop, the forwarder | one handler per message type, shutdown | a handler may wait; two routes lead from a handler to a client |
| Client connection (`packages/client/src/connection.ts`) | state, current socket, four kinds of timers, pending requests, flags | `connect`, `close`, `request`, `send`, timers, socket events | callbacks of a replaced socket act on its successor; timers race calls |
| Client channel and agent (`channel.ts`, `agent.ts`) | whether it is active, its listener, members; the tasks, their listeners, queues and tools | `subscribe`, `unsubscribe`, messages, presence; `send`, `stream`, tool calls | answers awaited while other calls, timeouts and lost connections come between; what survives a reconnection |
| HTTP client (`mtw-http`) | breaker state, refresh count, rate-limit windows, cache; the metrics; the place of a paginator | the attempt loop and its stages; `next_page` | stages share state between concurrent requests, several may retry one response, each relies on what others made of it |
| Bridge (`mtw-bridge`) | one stream behind a lock | `call_tool`, `health`, with a timeout | a late answer, or half of one, stays on the stream |
| Data store (`mtw-store`) | a pool of SQLite connections, each with its flags | open, `query`, `query_raw`, `info` | the pool runs dry; a pragma reaches one connection |
| State store (`mtw-state/src/memory.rs`) | entries with expiry | get, set, delete, exists, ttl, clear, the cleanup task | expiry tested and acted on in two steps |
| OAuth2 manager (`mtw-integrations/src/oauth2.rs`) | the cached token | get, exchange, refresh, force, set | the lock is not held while the token is fetched |
| Exchange (`mtw-exchange`) | token bucket, sliding window, ticker cache; the connection task, its subscriptions and attempts | acquire, orders and reads, parallel fetches; connect, subscribe, shutdown | waiting callers; orders whose answer is lost; backoff; shutdown |
| Module lifecycle, hooks, configuration (`mtw-core`) | modules and their order; hooks behind a fair lock; the configuration | run, shutdown, register, call; load a file, expand variables | failure half way; hooks that call back; text that refers to itself |
| Registry (`mtw-registry`) | none | resolve, version matching, manifests | a pure algorithm with cycles and duplicates |
| Router, middleware, authentication (`mtw-router`, `mtw-auth`) | the chain by priority; members; tokens and keys | add, route; create, refresh, generate, revoke, validate | the chain's order decides who is trusted; keys end while a message is on its way |
| AI orchestration and providers (`mtw-ai`, `mtw-integrations/src/ai`) | agents, round-robin index, conversation memory; a stream's parser | route, pipeline, fan-out, summarize; chat, stream, embed | a shared index, bounded memory, chunks cut anywhere |
| Protocol and codec, Node binding (`mtw-protocol`, `mtw-codec`, `bindings/node/src/ws.rs`) | a socket's two halves, each behind a lock | encode, decode; send, receive, close | frames cut short or damaged; concurrent receivers |
| Integrations, SDK, other bindings, UI packages | see `PROJECT.json` | | descriptions of endpoints, builders, stubs and views |

How they interact: a client's frames are decoded by the read loop of its connection, which
posts an event; the server's event loop takes events one at a time and calls the channel
manager, the store or the bridge and the transport; a publication puts one entry per member
in the manager's queue, which the forwarder hands to `transport.send()`; `send()` puts a
frame in the connection's queue; the connection's write task moves it to the socket. The
client sends `connect` when its socket opens, is connected when the acknowledgment arrives,
and answers a socket's close event by scheduling the next attempt. `main()` opens the store
and connects the bridge before it serves; a request waits for one of them inside the event
loop. The server of `mtw-server` uses neither the router nor its middlewares, no hooks, no
state store and no module with a configuration; the remaining libraries are called by an
application, each by itself.

`PROJECT.json` lists the hazards of this code, each at its line, with the properties that
would catch it going wrong. Two have none, and a note says why: both are timers the code
does not have.

## Modules

    Names        the identities the server's parts share
    Transport    ws.rs: the tasks of a connection, the maps, the queues, send/close/shutdown
    Channels     channel.rs: the operations the server calls
    Server       main.rs: the event loop, the forwarder, shutdown; EXTENDS the two above
    PubSub       what publish/subscribe promises, without tasks, queues or sockets
    MCServer     instances of Server
    Server_proofs           theorems about Server: types, membership, the end of a stream,
                            the order and framing of what is sent, the history, and that it
                            implements PubSub
    MtwConnection         connection.ts
    MCConnection          instances of MtwConnection
    MtwConnection_proofs  theorems about MtwConnection
    HttpClient            the attempt loop of client.rs and the stages with a say in it
    MCHttp                instances of HttpClient
    HttpClient_proofs     theorems about HttpClient

    Bridge       unix.rs and protocol.rs: calls over one stream, the external process
    Store        sqlite.rs: the pool, its modes, the outcome of each kind of query
    Backend      main.rs: start-up and handle_request() over the two above, which it EXTENDS
    MCBackend    instances of Backend
    Backend_proofs        theorems about Backend, Bridge and Store

    RateLimit        mtw-exchange/src/rate_limit.rs: both limiters
    Exchange         manager.rs and the Bitvavo REST provider, on RateLimit
    BitvavoWs        the Bitvavo connection task
    Lifecycle        MtwServer, ModuleRegistry and the exchange module
    StateStore       mtw-state/src/memory.rs
    TokenCache       oauth2.rs
    Resolver         the registry's dependency resolver
    Auth             jwt.rs and apikey.rs
    Router           router.rs, middleware.rs and AuthMiddleware, on Auth
    AgentMemory      mtw-ai/src/memory.rs
    Agents           orchestrator.rs, on AgentMemory
    AiProvider       four AI services and their streams
    Content          the response stages of mtw-http and the paginator
    Metrics          stages/metrics.rs
    ManagedChannels  channel.rs shared by tasks
    Hooks            hooks.rs
    Wire             frame.rs, the JSON codec and the Node binding's socket
    Settings         config.rs, load_config() and registry manifests
    ClientLink       the client connection as the objects on top of it see it
    MtwChannel       packages/client/src/channel.ts, on ClientLink
    MtwAgent         packages/client/src/agent.ts, on ClientLink
    Services         all of these, one at a time
    MCServices       instances of Services
    ClientObjects_proofs    what MtwChannel and MtwAgent keep, for the two that follow
    Shared_proofs           that SharedStaysRight holds: also Metrics, ManagedChannels, Hooks
    Reading_proofs          and ReadAsWritten: also Wire, Settings, AiProvider, Content
    Libraries_proofs        theorems about Lifecycle, StateStore, TokenCache, RateLimit,
                            Exchange, BitvavoWs, Router, Resolver, Agents and AgentMemory, and the types
                            of all parts of Services

### The server

A step of the model is what a task does between two points where another task can see or
change what it uses. The read loop decodes a frame and posts an event: one step. Taking an
event and handling it to its end is one step, because everything a handler does in between
(the channel's map, the forwarder's queue, the connection's queue) is seen by the other
tasks only through first-in-first-out queues and per-key operations, and only the event
loop changes a channel. A request is the exception: the handler waits for the store or the
bridge, so `HandleRequest` and `AnswerRequest` are two steps and the loop takes no event
between them. `Publish` is one step because the forwarder takes the entries in the order
they were queued, whether it starts before or after the last one; the order in which the
members are visited is left open (`Orders`), as the iteration over the concurrent map does.

`phase` is where a connection's own task is: `idle` before the handshake, `accepted` once
it is in the map and announced, `reading` once the hello was written and the write and ping
tasks run, `ended` when the read loop has broken and both were aborted, `closed` when the
maps forgot it and the Disconnected event is queued. `deaf` is the set of connections whose
receiver half is gone: what is handed to them is dropped. `close()` takes the sender out of
`connections` and queues the Close frame; the task itself goes on until the peer answers,
and clients owe nothing, so it may go on for ever. Frames are `[kind, enc, id]`: which
answer, in which framing, to which message; payloads are left out. `log` is a history
variable: the messages read so far, in order; its length numbers them.

What is not modelled of these files: a subscribe, unsubscribe or publish message without a
channel name is ignored by the server exactly as `other` is; `send_binary`, `broadcast`,
`delete_channel` and `get_history` have no caller in the server.

`PubSub` is the abstract specification. It has the messages said so far, how many have
taken effect, the members, who is attached, what is pending for each and what each has
received. A message takes effect once, in the order it was said, in one step; a publication
is appended to what is pending for every attached member but its author; what is pending is
received in order; a receiver that is cut off loses an end of its stream and nothing in the
middle. `Server` implements it (`ImplementsPubSub`): `pending[c]` is what the connection's
queue and the forwarder's queue carry for it, `received[c]` what its socket carried, and
`done` is how many messages the event loop has taken. A message is its number, and the
numbers are in the order of the log, so sets of them say what a sequence would: in a step
that delivers, the oldest pending message leaves `pending` and enters `received`, and a
message that was twice in a queue would be still pending after it was received.

### The client connection

JavaScript runs one callback to its end, so each callback and each call is one action. A
socket keeps its handlers when it is closed or replaced; `sock` holds the ready state of
every socket opened so far and `ws` names the current one. `armed` counts the reconnect
timers and `held` says whether `reconnectTimer` names one of them, because
`scheduleReconnect()` overwrites the field without clearing it. `announced`, `via` and
`replaced` are history variables: the event the last handshake emitted, the socket a request
went out on, and the sockets whose place another took before their close event. `Patient` is
an assumption on the application: it calls `connect()` only in the state `disconnected` and
after the close events of the earlier sockets, so that for a patient one no close event
meets a successor. The properties of the state, the sockets and the promises left open hold
for patient applications only; `connection_states` shows what happens otherwise, with the
calls the React provider makes. The types and `NeverGivesUp` hold for both, and so does
`LostOnlyWithItsSocket`, which says for each what a request may be lost to: with a patient
application its own socket, with the other also the close event of a socket that was
replaced, which rejects whatever is pending (`rejectAllPending()` does not ask on which
socket a request went out). The run `connection` has a patient application; for the other
one these three are proved and not run. Applications that call `connect()` or `close()` from
inside an event handler are not modelled.

### The HTTP client

`Tasks` use one client at the same time, each for one call after another. `at` is where the
call of each task is: `idle`, `sending`, in a stage (by its name), or in one of the waits and
gaps of a stage. `stages` is the pipeline the client was built with, chosen once from
`Pipelines`; a response goes through its stages by priority, and each stage hands it on
(`Continue`), asks for a retry (`Again`, the head of the loop) or ends the call (`Finish`).

A stage is one step where it holds its lock throughout (the breaker) or shares nothing. It
is several where it awaits (the refresh, the sleeps) or uses the cache's concurrent map more
than once: `CacheChecks` counts, `CacheExpires` sweeps and counts again, `CachePicks` finds
an entry, `CacheRemoves` drops it and `CacheStores` inserts. A sweep and the count after it
are one step because what another task adds or removes between them might as well have been
added or removed before.

Statuses stand for 200, 200 with no-store, 304, 401, 404, 429 and 503. The calls go to one
host, so there is one breaker; `cooled` says that `recovery_timeout` has passed since the
last failure, and may become true at any time while the circuit is open. Which cached
entries have expired is left open. `overlapped` is a history variable. `StatusCheckStage`
and `RetryStage` are taken with their default tables of codes and `fail_fast`. Not modelled:
the token a request carries, delays, and stages that only enrich or parse a response.

### The store, the bridge and the server's requests

A call of the bridge takes the stream's lock (`holder`), writes, reads the length and then
the payload, and any of these may fail or time out. A timeout lets go of the lock and
nothing else: the request may still be answered, and the answer is read by whoever comes
next, or half a frame is left and everything after it is read out of step (`skewed`). Only
the answer's id tells; `call_tool()` compares it, `health()` does not. `unread`, `asked` and
`answers` are what is on its way to the process, in it, and on its way back; the process
may answer late, in any order, in part, or go away. `expired` is a history variable.

The store is a set of connections, each opened with flags, borrowed by one task for one
query (`spawn_blocking`); the pool's timeout ends a wait. The pragmas, `query_only` among
them, reach the one connection `open()` borrowed. What a statement does is left to SQLite:
it returns rows or fails, and writes only where the connection can.

`Backend` is `main()` up to its loop and `handle_request()` inside it, with other tasks of
the process that use the same bridge or store. In it the bridge does what `Bridge` by
itself does and the store what `Store` does; this refinement is proved.

### The libraries

`Services` is not a composition of things that interact: no two of its parts share state or
call each other (`Exchange` has its limiter, `Router` its authenticators, and these are
composed). An interleaving of independent parts says no more than each of them alone, so
`part` is chosen at the start and only that part moves; `TypeOK` is that of the part. What
an action is in each of them follows one rule: what a task does between two points where
another can see or change what it uses, which are the awaits, the lock's release and every
single operation of a concurrent map or an atomic.

* `RateLimit`: time is a clock in milliseconds. A task looks under the lock, drops the
  timestamps that are outdated, and is granted or sleeps for the time it computed; a wake
  may be late. Tokens are counted in parts of
  1 / window, in which the code's fractions are exact.
* `Exchange`: an order or a read is one request behind the limiter; it may be done and its
  answer lost. `ToBitvavo` and `FromBitvavo` are the order types as they are sent and read.
* `BitvavoWs`: the connection task from connect over authenticate and replay to read and
  back off. The delay is computed as the release build does, modulo 2^64: `Overflows` and
  `WrapsToZero` say for which attempts, and a debug build's panic is the other outcome. The
  list of subscriptions is read once per connection; `unread`, `cleared` and `cut` are history
  variables: what was added to the list since, whether it was cleared since (which the
  exchange is not told), and whether sending one of it failed, which ends the replay but not
  the connection.
* `Lifecycle`: `state` is what a module was asked last, so that a module whose start failed
  counts as started. `failed` is a history variable.
* `StateStore`: an expired entry is found and its key removed in two steps, by a
  caller or by the cleanup task, which collects all of them first.
* `TokenCache`: a token is told from others by the write that cached it; each look and each
  write is a step, and so is the request in between.
* `Resolver`: `resolve()` is a search and a sort with one step per module. Versions are
  sequences of numbers, of which a missing or unreadable part counts as zero, as in the code.
* `Router`, `Auth`: a message passes one middleware per step while other tasks issue and
  revoke. It arrives with any content, an `auth_user` of the client's own included. A
  middleware of the application continues or transforms, which is any message that differs in
  what `Stock` lets it write, may redirect it as well, halts it or fails. `vouched` is a
  history variable: the credential that was found good last. `JwtAuth` accepts a refresh token where an access token is meant, and so
  does the model; that it allows 60 seconds beyond a token's end only moves that end.
* `Agents`, `AgentMemory`: the index of the turn is taken once per route and per stream; the
  order of the concurrent map is arbitrary and may change when the map does.
* `AiProvider`: a stream is lines of two halves each, which arrive in chunks cut anywhere;
  each chunk is parsed alone, as the four parsers do.
* `Content`: a listing of pages or a stream goes through the stages in the order of their
  priorities, one per step. A document is its shape and which fields it has.
* `Metrics`: the updates of one record are separate and in no fixed order, and a reading
  loads the counters one by one (`Ordering::Relaxed`).
* `ManagedChannels`: the operations that `Channels` has as one step each, step by step, with
  several tasks, and with names that are deleted and declared anew.
* `Hooks`: the lock is a queue. A hook may call the registry from inside.
* `Wire`: a frame is what its header says and what follows it; damages change one of them.
* `Settings`: text is a sequence of pieces, among which `${`, `}` and names; the file system
  and the variables belong to others, who may change the files while they are looked for.
* `ClientLink`: connected or not, and frames under way in both directions, which a lost
  connection takes along; `MtwConnection` has how it is lost and restored. The code after an
  `await` runs before the next frame is handled, so an answer and what `subscribe()` does with
  it are one step.
* `MtwChannel`: one channel and the server's idea of it. A message is its number, a member a
  name; the server acknowledges, perhaps with its last message, refuses, or stays silent.
* `MtwAgent`: several tasks of both kinds at once. An answer is the pieces 1, 2, ..., some of
  them tool calls; a caller of `stream()` asks, is given a piece, and asks again or leaves.

| Run | Instance | What it shows |
|---|---|---|
| `server` | 2 clients, 4 frames, one configured channel, limit 1, history 1 | membership, limit, history, acknowledgment before messages, and that the server implements `PubSub` |
| `server_fan` | 3 clients, 3 frames, a channel created on demand | fan-out to two members in either order implements `PubSub` |
| `server_wire` | 2 clients, both framings, disconnect, ctrl-c, ping and undecodable frames, 3 frames | nothing follows a Close frame; a binary client is answered in binary |
| `server_life` | 2 clients, 2 frames, fairness, requests | every message is answered; closed connections are forgotten |
| `connection` | 4 sockets, 2 attempts, 2 requests, fairness, patient | the whole life of the client connection |
| `connection_states` | 3 sockets, impatient | violated: the documented state diagram |
| `connection_announce` | 3 sockets, patient | violated: `reconnected` is never announced |
| `http` | 2 tasks, 2 URLs, three pipelines, one retry, threshold 2, cache of 1, fairness | the breaker counts right, every call ends and learns its last status, the cache overflows only when two calls store at once |
| `http_refresh` | 2 tasks, auth refresh only | violated: a call is refused while the refresh it needs is under way |
| `backend` | 2 callers, 3 readers, 2 connections, 3 calls, 2 requests, four deployments, fairness | nobody is given the answer of another call, a read-only store stays as it is, every request is answered |
| `services` | nineteen parts | see below |
| `bitvavo_backoff` | 63 attempts | violated: the backoff delay wraps to zero |

The largest runs are `server_wire` (3 800 000 distinct states), `services` (710 000, over two
minutes, the longest), `server` (620 000), `server_fan` (590 000), `server_life` (260 000) and
`backend` (190 000). The properties of `services`:

| Property | Of | What it says |
|---|---|---|
| `ShutdownIsComplete` | Lifecycle | a shutdown stops each module once, in reverse, and leaves nothing at work, unless a start had failed |
| `WithinTheLimits` | RateLimit, Exchange | no window sees more than its maximum, whoever sleeps and wakes; an order is placed at most once and of its type |
| `KeptUntilRemoved` | StateStore | a value without expiry is lost only to a removal that had begun before it was set |
| `ForceRefreshRenews` | TokenCache | a forced refresh never returns what was cached before; the `unwrap` of `exchange_code()` fails only next to it |
| `ResolvesOrTellsWhy` | Resolver | everything needed, once, dependencies first, or an error with a reason, against a reference definition |
| `RoutedAsVouched` | Router, Auth | the chain has its documented order; if an authenticator comes, in that order, after every middleware that may forge, what is handled is handled for the owner of a credential that was found good |
| `AgentsInTurn` | Agents, AgentMemory | turns are even while agents stay, pipelines pass on, the memory keeps what is recent |
| `ReadAsWritten` | AiProvider, Content, Wire, Settings, MtwAgent | what is read is what was written, whole and in order: only lines cut by a chunk are lost, events and pages come once, frames decode to what was encoded, the first file wins and its variables are replaced, and an agent's answer has every piece the agent gave |
| `SharedStaysRight` | Metrics, ManagedChannels, Hooks, MtwChannel, MtwAgent | readings lie between the states at their start and end; limits, histories and names give way to overlapping calls only; calls of hooks end unless a hook registers from inside or calls back while a registration waits; a channel subscribed on this connection misses no message, has each once and in order, and is silent when inactive, unless two calls of `subscribe()` overlap; tools are answered once and listeners go with their tasks |
| `MaintainsSubscriptions` | BitvavoWs | however often the stream connects again and whatever is added meanwhile, the exchange has every subscription the list had when it was read, unless sending one failed, and no other, unless the list was cleared since |

`RoutedAsVouched` needs its condition. The documented order is by priority, and that of
`add()` among equals. A middleware may forge if it writes the user or the type of a message:
one behind the authentication may make of a message what it likes, and one before it may make
a ping of a request, so without an authenticator behind all of these (`HasLastWord`) the
property is false, and rightly so. In `services` the chain is any two of three middlewares:
the two authenticators, of priority 10 as in the code, and one of an application that shares
it and writes user and type, so that the order of `add()` decides. That a middleware behind
the authentication may change the credential and the channel is covered by the proof, which
is for any stock of middlewares.

Bounds. `MaxFrames` bounds what clients send all together, `MaxPings` the keep-alive pings,
`MaxSockets` the sockets one connection object opens, `MaxAttempts` is the option of that
name. Two subscribers and a publisher need three frames; re-subscription, leaving and a
second publication that overflows a history of one need the fourth. With a limit of one,
two clients reach the full channel, the refused re-subscription and the freed place. Four
sockets are two whole attempts beyond the first connection and one after exhaustion. In `http`, the pipelines
put the stages that may interfere into one client: a breaker and a refresh before the
status check, the two stages that sleep, the refresh before the cache.
Two tasks and a threshold of two let responses of requests sent before the circuit opened
arrive after it; `MaxFailures` bounds the failures in a row, one beyond the threshold.
`Interruptible` and `Patient` say which of two kinds of runs an instance has. Symmetry over
the connections is used in the runs without liveness. Deadlock is not checked: an instance
whose clients have sent their frames and closed has nothing left to do.

In `backend` the bridge and the store share no state, so another user of both at once adds
nothing to another user of either: the deployments have one each, one read-only, one without
a store and one whose bridge has an address, which is refused. Three calls are one that
times out, one that reads its answer and one that follows; a socket with room for one frame
lets a write wait. In `services` every part has two tasks where it has any. `MaxAttempts`
is past the attempt whose delay overflows; the registries are every combination of two or
three needs of three modules, circles, duplicates and self-needs among them; lines of a
stream are every sequence of three kinds, and one that mixes more; a chunk boundary may be
inside any of three lines; the frames have every damage, payloads at and beyond
`MaxFrameSize`; `MaxExpansions` is beyond what a text without a circle needs, so a text that
still refers to something then is one that does for ever. `MaxGrants`, `MaxSets`,
`MaxWrites`, `MaxRoutes`, `MaxChanges`, `MaxMessages`, `MaxFetches`,
`MaxCreated`, `MaxJobs`, `MaxHookCalls`, `MaxSent`, `MaxScriptCalls`, `MaxSubscribes`,
`MaxSaid` and `MaxPresence` bound how often something is done, and leave room for two
overlapping calls; `MaxEras` of two is a connection lost and another after it, `MaxUnderWay`
two frames on their way. Each call of `create_token()` makes two tokens, so a `MaxTokens` of
four leaves room for a second call or for refreshes while a message is on its way; one owner
asks for them (`Subjects`) and the other comes with a key. `MaxTasks` and `MaxPieces` are an answer in two pieces, which may be
those of a stream its caller is slow to read, beside a task whose answer is empty.

Fairness. The runtime polls every task that can run, so handling an event, forwarding,
writing, greeting and cleaning up are weakly fair; the store and the bridge answer or fail
(the bridge call has a timeout). Nothing is assumed of clients: they need not send, answer a
Close frame, or go away. In the client, timers fire and a socket that is closing reports its
close; the server and the network owe nothing. In the HTTP client, stages run, sleeps end
and `refresh_fn` returns; that a request is answered or fails is assumed for each of them,
which holds of the code when the request or the client has a timeout. In `backend` the loop,
the callers and the blocking tasks run, and a lock that is let go of again and again is given
to each that waits (strong fairness; Tokio's mutex is a queue); the external process reads
what is sent to it, because `unix.rs` writes without a timeout, and owes no answer. The
other runs assume no fairness, `services` included.

## Proofs

* `Server_proofs`, its first part: `TypeCorrect`, `NoGhosts`, `LimitHolds`,
  `CloseEndsTheStream`. The types
  are inductive once it is known that the member sets are finite and that a queued message
  event refers to a message in the log (`TypeInv`). For `NoGhosts`, a late message of a
  closed connection must be ahead of its Disconnected event in the queue (`GhostInv`, with
  `LateIsTold`); for the last, a Close frame in a queue or on the wire means that the sender
  has left the map, and an idle connection has an empty queue (`CloseInv`).
* Its second: `AcknowledgedFirst`, `FramingIsAnswered`, `HistoryKeepsTheLatest`. Their invariant (`DeliveryInv`) goes along the way of a message: messages are queued in
  the order of the log without a gap (`QueueInv`); which phase a connection is in when it
  has spoken, and that its framing is known (`PlaceInv`); what is in its stream answers
  messages that were handled, and a message of a channel stands behind an acknowledgment
  (`StreamInv`); who is a member was acknowledged, unless it is gone (`MemberInv`); and what
  the forwarder has for it belongs behind all that is in its stream (`FwdInv`). The last two
  are needed because a publication takes another route than the acknowledgment.
* Its third: `ServerKeepsItsPromise`, that `Server` implements `PubSub`. The
  initial states map to its initial state, and each kind of step to one step of it or none:
  the transport's tasks to `Attach`, `Say`, `Receive`, `Detach` or a stutter, the loop to the
  effect of a message or to `Forget`, the forwarder to a stutter or, when the receiver is gone,
  to the loss of an end. It rests on `DeliveryInv`: the order of the numbers is why the head
  of a queue is the oldest message pending.
* `MtwConnection_proofs`: `ConnectionTypeCorrect`, `ClientNeverGivesUp` and
  `RequestsLostWithTheirSocket` for all applications; `StateIsTrue`, `KeepAliveFollowsState`,
  `OneSocket` and `RequestsFollowTheirSocket` for patient ones. The invariant behind these
  (`Discipline`) says that there is one thing under way at a time, a socket whose close event
  is to come or a reconnect timer or nothing, and which of these it is in each state. For the
  other applications sockets come one after the other, and one that is still to close when a
  later one is there was replaced (`Succession`); a request that waits went out on the current
  socket or an older one, and one that is lost on a socket that is gone or left behind
  (`Tied`).
* `HttpClient_proofs`: `HttpTypeCorrect`, for any set of stages: a call under way knows what
  it asks for (`KeysKnown`), and each kind of step leads a call to a place it may be at.
  `BreakerSound`, for a threshold and a number of probes of at least one, is inductive with
  the types. `CacheBounded`, for `max_entries` of at least one: until two calls overlap, the
  one in the gap finds the entry it picked still there and has made room when it stores
  (`CacheInv`). `LastAttemptIsTold` is about steps: a call that waits for a retry has an
  attempt left, or its retry stage allows more than the client (`WaitInv`).
* `Backend_proofs`: `BackendImplementsParts` maps every step of `Backend` to a step of
  `Bridge` or a stutter, and of `Store` likewise (`BackendStep`), so what is proved of a
  part holds in the server. `OwnAnswers` and `InStep` rest on `BridgeIInv`: who reads is who
  holds the lock, and until a call times out there is at most one request or answer under
  way, that of the reader (`OneOnTheWire`). `ReadonlyWritesNothing` rests on `StoreIInv`: a
  read-only store has no connection opened for writing. `BackendTypeCorrect` adds the loop.
* `Libraries_proofs`, a section for each part:
  * `ShutdownCompletes`. What is at work is what the loop of `stop_all()` still has before it
    (`AtWorkIsToStop`), and what it has stopped is the tail of the load order, reversed
    (`StoppedIsTail`).
  * `ValuesAreKept`. The property is inductive with the types: it already says, of each
    value, who was about to remove its key when it was set.
  * `RefreshRenews`. What is cached after a task cleared the cache is newer than what it
    cleared (`NewerThanCleared`), and only a forced refresh empties a cache that was filled
    (`EmptyOnlyIfForced`).
  * `LimitsHold`. What is in the bucket and what was let through since a request is at most a
    full bucket and what time has brought since (`BucketCovers`); the window holds the latest
    requests, and those it does not are expired (`WindowCovers`). The order of a call is at
    most once on its way, whatever becomes of its answer.
  * `OnlyVouchedIsRouted`. Each middleware is added behind those it is to follow, so the
    chain stays in order (`ChainInOrder`). A message past an authenticator that has only
    middlewares behind it that cannot forge (`TrustedBefore`) is the owner's of a credential
    that was found good, of a token for requests (`VouchedSoFar`), whatever the client and the
    middlewares before it said and whatever is revoked or issued meanwhile.
  * `SubscriptionsAreMaintained`. What the exchange has and what the task still has to send are
    together what it read of the list (`ReplayInStep`), through additions, clears and failed
    sends.
  * `EveryNeedIsMet`. What is collected is needed, and what it needs is collected or queued
    (`NoneForgotten`), so all that is needed is sorted; an in-degree counts the needs not yet
    installed, and whatever has none is installed or queued (`DegreesCount`), so what is left
    when the queue is empty needs itself; and what is installed follows what it needs
    (`InOrder`). That `Needed` is the least closed set is used, and no induction.
  * `TurnsAreShared`. The agents up to the index have had their turn in this lap and the
    others have not, so none is two tasks ahead (`Laps`), through changes of the agents,
    which begin the count anew; an answer went through a first part of the pipeline and the
    rest is to come (`ThroughPipeline`), or through some agents of the map once and the
    others are to come (`OnceEach`); and a summary keeps at least the half that is recent.
  * `ServicesTypeCorrect`. The types of the parts follow from all of their invariants
    together (`TypesIInv`). For two parts that takes more than the types: a permit is in the
    semaphore or with a task that fetches (`PermitsAreKept`), and no delay of the stream
    passes its ceiling, the one that wrapped included (`DelayIs`).
* `ClientObjects_proofs` has the invariants of the two client objects and that their steps
  keep them. `ChannelIInv`: unless two calls of `subscribe()` overlap, one call waits at a
  time, a request of it has its only answer to come (`RequestsFit`), and the frames behind
  that answer bring what the channel has not been told (`AnswersFit`), as those of a channel
  subscribed on this connection do (`SubscriptionFits`). `TasksIInv`, `AnswersIInv`: a task
  has the first pieces of its answer, its queue has those that follow and perhaps the end,
  and the frames under way bring the others in order and the end last (`AnswerStands`,
  `FramesInOrder`).
* `Shared_proofs`: `SharedIsSafe`, from an invariant of each part.
  * Metrics (`MetricsIInv`). Every counter of a host is exactly the responses that counted in
    it so far (`StatsExact`), and a reading under way has of each counter it loaded a value
    between the responses recorded when it began and those begun by now (`ReadingRight`);
    both bounds only grow.
  * A shared `ChannelManager` (`ManagedIInv`). Members and tasks about to insert one are
    together within the limit, but for races, which let in as many as there are other tasks
    (`Room`); a history lacks a message only if it has as many later ones as it may be long
    (`HistoriesFit`); who joined is a member and was shown such a history (`JoinedFit`); and a
    later message is on its way to it or was sent (`NewsReach`).
  * Hooks (`HooksIInv`). A task is in the queue of the lock once, and one that wants to read
    it will find the hooks registered when it asked, with the registrations ahead of it
    (`QueueFits`); a call has run a first part of the hooks, none of which ended it
    (`CallsFit`).
  * The channel object and the agent client, as above (`ClientsIInv`).
* `Reading_proofs`: `ReadingIsSafe`, likewise.
  * Sockets and frames (`WireIInv`). What is on its way is in order and younger than what was
    received, and nothing is behind the end of a stream (`OnTheWay`). That a frame decodes to
    what was encoded is a fact about the operators (`FramedIsRead`).
  * Configurations (`SettingsIInv`). The search passed a path only if it was without a file
    at some time since it began, and otherwise stopped there (`SearchFits`).
  * Streamed answers (`AiIInv`). What the caller heard is of lines that are parsed
    (`HeardBefore`), and behind the line that ends it a stream says nothing (`LastIsLast`).
  * The listing (`ContentIInv`). The pipeline is sorted by priority, and the stages still
    ahead are an end of it (`PipeShape`, `PipeSorted`); the response is what the stages
    behind it make of the page's answer (`ResponseFits`); the pages up to the position were
    handed over, ascending, or reported (`Position`); the metrics are even with the
    responses that came out (`Tally`).
  * The events of a stream. After any number of lines each line of data is in one event or in
    the group still open, and two lines are together unless an empty one is between them
    (`Gathered`), shown along the lines (`ReadGathered`).

The theorems assume what the ASSUMEs of the modules say of the constants, and what is named
above, and nothing else. All invariants the passing runs check are theorems, with one
exception inside `ReadAsWritten`: `ReadingIsSafe` says that it holds while `ExpandedWhole`
does. That the references in a configuration are expanded to what they mean is true only if
`MaxExpansions`, the model's bound, is large enough, and it compares the loop of the code
with a recursive definition of the meaning; it is left to the run. Model-checked only are
also the liveness properties, as fairness is out of the prover's reach
(`EveryMessageAnswered`, `EventuallyForgotten`, `CloseIsFinal`, `EveryCallEnds`,
`EveryRequestAnswered`).

Induction over data takes a detour, because the theorems of the library that have an operator
as a parameter cannot be used: a set of numbers that is not empty has a least one
(`LeastNumber`, from the well-foundedness of the numbers), so a statement about each line of
a stream holds because there is no first line where it fails.

## Findings

* `connection_states`: after `close()` and `connect()` in a row the old socket's close event
  acts on the new connection; the state goes from `reconnecting` to `connected`, which the
  diagram in `docs/frontend-guide.md` does not have, and a timer is left armed.
* `connection_announce`: `reconnectAttempt` is reset before it is read, so `reconnected` is
  never emitted.
* `http_refresh`: the refresh counter is shared by all calls and counts the refresh that is
  still under way, so a second call with the same expired token fails with "token refresh
  failed after max attempts". For the same reason a client whose one refresh failed refuses
  every 401 from then on, until some response is not a 401.

* `bitvavo_backoff`: `next_delay()` multiplies before it takes the minimum and nothing
  limits the attempts. From attempt 55 the product no longer fits 64 bits, a panic in a debug
  build; in a release build it wraps and is zero from attempt 61 on, so that after about an
  hour without the exchange the client connects without any delay.

Without a run of their own, but in the models:

* `max_entries` is called the "Maximum number of cached entries" (`stages/cache.rs:13`), but
  calls that overlap exceed it, and as eviction never takes more than the expired entries
  and one, the excess of several overlaps adds up.
* A line of a streamed AI answer that the network cuts in two is lost without an error
  (`openai.rs:328`, `anthropic.rs:368`, `ollama.rs:357`), and an HTTP error ends a stream as
  if it were empty.
* After one timeout the bridge may fail every call until the server is started again.
* A paginator whose client has no pagination stage ends after the first page, and one whose
  page does not decode has already moved on to the next (`paginator.rs:52`).
* The type of a server-sent event that has no data goes to the next event that has some
  (`stages/stream.rs:67`).
* A configuration with a variable that refers to itself keeps the server from starting
  (`config.rs:318`).
* A hook that registers a hook waits for itself (`hooks.rs:60`).
* A channel stays active after a reconnection, and nothing subscribes it again: it is silent
  until the application unsubscribes and subscribes. A `subscribe()` whose answer is late
  fails although the server has subscribed the connection. Two at the same time leave a
  listener that `unsubscribe()` does not remove (`channel.ts:108`).
* `unsubscribe()` clears no handlers, though its comment says so (`channel.ts:129`).
* `stream()` waits for ever when the connection is lost, and the listener of one that is
  abandoned stays, its tools with it (`agent.ts:186`, `agent.ts:211`).
* `subscribe()` of the exchange stream, "Sent immediately if connected" (`ws.rs:181`), only
  puts a subscription into the list, which the task reads once per connection: the exchange
  hears of it when the connection has broken and been restored.
* `clear_subscriptions()`, "Unsubscribe from all subscriptions" (`ws.rs:186`), empties the list
  and tells the exchange nothing: events go on until the connection breaks.
* With a limit of no requests a limiter never grants one and its callers wait for ever.
* `ChannelManager` loses a channel, and lets one member too many in, when two tasks make the
  same call at the same time; the server has one that does.

## Not modelled

* Of `packages/client`: `nextMessage()` and the registration of handlers, which keep sets of
  them; `publish()` and `request()` of a channel, which only send; the encoding in
  `types.ts`, whose counterpart on the server is in `Wire`.
* `redis.rs`, `sandbox.rs`, the registry's `client.rs` and the client objects of the four
  language bindings are stubs: they answer with an error or keep their arguments.
* The remaining integrations describe endpoints: a URL, headers and data types for each.
  SDK and test harness are builders and mocks for users' tests.
* The packages for React, Svelte, Vue and three.js mirror the connection's events into the
  framework's state; the calls their providers make are those of `connection_states`.
* Of the modelled files: `send_binary()` and `broadcast()` of the transport,
  `process_outbound()` of the middleware chain and `find_matching()` of the channel manager,
  which nothing calls; `keys()` of the state store, which only lists; health checks of
  modules; signatures, hashes, compression, JSON and SQL themselves; wall-clock durations,
  except where a limiter counts them.
