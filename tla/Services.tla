------------------------------- MODULE Services -------------------------------
(***************************************************************************)
(* The libraries around the server that an application calls by itself.   *)
(* No two of them share state or call each other, so a behaviour of all of *)
(* them says no more than one behaviour of each: in a behaviour of this    *)
(* module one part, chosen at the start, moves and the others rest.        *)
(***************************************************************************)
EXTENDS Exchange, BitvavoWs, Lifecycle, StateStore, TokenCache, Resolver, Router, Agents,
        AiProvider, Content, Metrics, ManagedChannels, Hooks, Wire, Settings,
        MtwChannel, MtwAgent

CONSTANTS RateLimiters,      \* configurations to run a limiter by itself with
          ExchangeLimiters,  \* ... and to run the exchange manager with
          ExchangeNow,       \* bound: the clock of the exchange manager
          ExchangeGrants     \* bound: requests its limiter lets through

ASSUME ServicesAssumption ==
    /\ RateLimiters \subseteq Limiters /\ RateLimiters # {}
    /\ ExchangeLimiters \subseteq Limiters
    /\ ExchangeNow \in 0..MaxNow /\ ExchangeGrants \in 0..MaxGrants

VARIABLE part  \* the part that moves

Parts == {"rates", "exchange", "stream", "modules", "state", "tokens", "resolver", "router",
          "agents", "memory", "ai", "content", "metrics", "channels", "hooks", "wire", "settings",
          "subscription", "tasks"}

\* Of the part that moves: one that rests is as it began, and any may move.
TypeOK ==
    CASE part = "rates" -> RateTypeOK
      [] part = "exchange" -> RateTypeOK /\ ExchangeTypeOK
      [] part = "stream" -> WsTypeOK
      [] part = "modules" -> LifeTypeOK
      [] part = "state" -> StateTypeOK
      [] part = "tokens" -> TokenTypeOK
      [] part = "resolver" -> ResolverTypeOK
      [] part = "router" -> RouterTypeOK
      [] part = "agents" -> AgentsTypeOK
      [] part = "memory" -> MemoryTypeOK
      [] part = "ai" -> AiTypeOK
      [] part = "content" -> ContentTypeOK
      [] part = "metrics" -> MetricsTypeOK
      [] part = "channels" -> ManagedTypeOK
      [] part = "hooks" -> HooksTypeOK
      [] part = "wire" -> WireTypeOK
      [] part = "settings" -> SettingsTypeOK
      [] part = "subscription" -> ChannelObjectTypeOK
      [] part = "tasks" -> AgentClientTypeOK
      [] OTHER -> FALSE

\* The configuration of a part that rests does not matter.
Some(S) == CHOOSE x \in S : TRUE
Configurations(p, S) == IF part = p THEN S ELSE {Some(S)}

Init ==
    /\ part \in Parts
    /\ limiter \in IF part = "exchange" THEN ExchangeLimiters
                   ELSE Configurations("rates", RateLimiters)
    /\ ExchangeInit
    /\ WsInit /\ LifeInit /\ TokenInit /\ RouterInit
    /\ cleaner \in Configurations("state", {"sleeping", "ended"}) /\ StateInit
    /\ registry \in Configurations("resolver", Registries)
    /\ required \in Configurations("resolver", Requests)
    /\ ResolverInit
    /\ strategy \in Configurations("agents", Strategies) /\ AgentsInit
    /\ maxMessages \in Configurations("memory", Sizes) /\ MemoryInit
    /\ provider \in Configurations("ai", Providers) /\ AiInit
    /\ adding \in Configurations("content", Builds) /\ ContentInit
    /\ workload \in Configurations("metrics", Workloads) /\ MetricsInit
    /\ ManagedInit /\ HooksInit /\ WireInit
    /\ environment \in Configurations("settings", Environments)
    /\ configArg \in Configurations("settings", ConfigArgs)
    /\ loading \in Configurations("settings", {"args", "none"})
    /\ \E there \in Configurations("settings", AtStart),
          d \in Configurations("settings", Documents) : FilesAtStart(there, d)
    /\ SettingsInit
    /\ ChannelObjectInit /\ AgentClientInit

-----------------------------------------------------------------------------

marketVars == <<rateVars, exchangeVars, wsVars>>
keptVars == <<lifeVars, stateVars, tokenVars, resolverVars>>
talkVars == <<routerVars, authVars, agentVars, memoryVars, aiVars>>
webVars == <<contentVars, metricsVars, wireVars>>
hostVars == <<managedVars, hookVars, settingsVars>>
channelVars == <<objectVars, roomVars, channelHistory>>
answerVars == <<listenVars, toolVars, farVars>>
clientVars == <<linkVars, channelVars, answerVars>>
vars == <<part, marketVars, keptVars, talkVars, webVars, hostVars, clientVars>>

MarketNext ==
    /\ \/ part = "rates" /\ RateNext /\ UNCHANGED <<exchangeVars, wsVars>>
       \/ /\ part = "exchange" /\ ExchangeNext /\ UNCHANGED wsVars
          /\ now' <= ExchangeNow /\ Len(grants') <= ExchangeGrants
       \/ part = "stream" /\ WsNext /\ UNCHANGED <<rateVars, exchangeVars>>
    /\ UNCHANGED <<part, keptVars, talkVars, webVars, hostVars, clientVars>>

KeptNext ==
    /\ \/ part = "modules" /\ LifeNext /\ UNCHANGED <<stateVars, tokenVars, resolverVars>>
       \/ part = "state" /\ StateNext /\ UNCHANGED <<lifeVars, tokenVars, resolverVars>>
       \/ part = "tokens" /\ TokenNext /\ UNCHANGED <<lifeVars, stateVars, resolverVars>>
       \/ part = "resolver" /\ ResolverNext /\ UNCHANGED <<lifeVars, stateVars, tokenVars>>
    /\ UNCHANGED <<part, marketVars, talkVars, webVars, hostVars, clientVars>>

TalkNext ==
    /\ \/ part = "router" /\ RouterNext /\ UNCHANGED <<agentVars, memoryVars, aiVars>>
       \/ part = "agents" /\ AgentsNext /\ UNCHANGED <<routerVars, authVars, memoryVars, aiVars>>
       \/ part = "memory" /\ MemoryNext /\ UNCHANGED <<routerVars, authVars, agentVars, aiVars>>
       \/ part = "ai" /\ AiNext /\ UNCHANGED <<routerVars, authVars, agentVars, memoryVars>>
    /\ UNCHANGED <<part, marketVars, keptVars, webVars, hostVars, clientVars>>

WebNext ==
    /\ \/ part = "content" /\ ContentNext /\ UNCHANGED <<metricsVars, wireVars>>
       \/ part = "metrics" /\ MetricsNext /\ UNCHANGED <<contentVars, wireVars>>
       \/ part = "wire" /\ WireNext /\ UNCHANGED <<contentVars, metricsVars>>
    /\ UNCHANGED <<part, marketVars, keptVars, talkVars, hostVars, clientVars>>

HostNext ==
    /\ \/ part = "channels" /\ ManagedNext /\ UNCHANGED <<hookVars, settingsVars>>
       \/ part = "hooks" /\ HooksNext /\ UNCHANGED <<managedVars, settingsVars>>
       \/ part = "settings" /\ SettingsNext /\ UNCHANGED <<managedVars, hookVars>>
    /\ UNCHANGED <<part, marketVars, keptVars, talkVars, webVars, clientVars>>

ClientNext ==
    /\ \/ part = "subscription" /\ ChannelObjectNext /\ UNCHANGED answerVars
       \/ part = "tasks" /\ AgentClientNext /\ UNCHANGED channelVars
    /\ UNCHANGED <<part, marketVars, keptVars, talkVars, webVars, hostVars>>

Next == MarketNext \/ KeptNext \/ TalkNext \/ WebNext \/ HostNext \/ ClientNext

Spec == Init /\ [][Next]_vars

-----------------------------------------------------------------------------
(* The properties of the parts are in their modules; these are of several. *)

\* An exchange gets no more than was allowed: neither requests in a window
\* (crates/mtw-exchange/src/rate_limit.rs) nor orders for a call
\* (crates/mtw-exchange/src/providers/bitvavo/rest.rs).
WithinTheLimits == RateRespected /\ OneOrderPerCall

\* What is read is what was written, whole and in order, unless it says that it is
\* not: the lines of a streamed answer (crates/mtw-integrations/src/ai), the events
\* and pages of a response (crates/mtw-http), frames (crates/mtw-protocol) and the
\* messages of a socket (bindings/node), configurations (crates/mtw-core), the answer
\* of an agent (packages/client).
ReadAsWritten ==
    /\ LosesOnlyCutLines
    /\ EventsAreTheLines /\ ListingIsWhole
    /\ FramesReadAsWritten /\ ReceivedInOrder
    /\ ReadAtStart
    /\ AnswersWhole

\* What several use at the same time stays right: the metrics of crates/mtw-http, a
\* ChannelManager and the hook registry by tasks, and in packages/client a channel by
\* the application and the connection, and the agent client by the tasks it was given.
SharedStaysRight ==
    /\ MetricsHold /\ SharedManagerHolds /\ HooksHold
    /\ SubscriptionHolds /\ TasksApart

===============================================================================
