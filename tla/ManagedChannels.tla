---------------------------- MODULE ManagedChannels ----------------------------
(***************************************************************************)
(* The ChannelManager of crates/mtw-router/src/channel.rs shared by tasks, *)
(* as an application that is not the server may use it: between any two of *)
(* its steps on the concurrent maps another task may come.  Channels is    *)
(* the same code under the server's single event loop.  One name is enough *)
(* here; the channel behind it may be another one after a while.           *)
(***************************************************************************)
EXTENDS Naturals, FiniteSets, SequencesExt

CONSTANTS Callers,      \* the tasks that share the manager
          Members,      \* the connections they act for
          Declared,     \* the channels create_channel() is asked for: limit and history
          DefaultSize,  \* the history of a channel made on demand
          NoLimit,      \* max_members: None
          MaxCreated,   \* bound: channels
          MaxJobs       \* bound: calls

ASSUME ManagedAssumption ==
    /\ NoLimit \notin Nat /\ IsFiniteSet(Callers)
    /\ \A d \in Declared : d.limit \in Nat \cup {NoLimit} /\ d.size \in Nat
    /\ DefaultSize \in Nat /\ MaxCreated \in Nat /\ MaxJobs \in Nat

VARIABLES
    named,      \* the channel the name stands for, 0 if there is none
    chans,      \* every channel ever made: limit, size, members, history
    outbox,     \* message_tx: what was sent to whom
    jobs,       \* what each task is about
    started,    \* how many calls have been made
    published,  \* history: the channel of each message, its sender, and whether publish() is over
    joined,     \* history: who joined which channel, with what it was shown then
    raced,      \* history: channels whose limit two tasks tested before either joined
    parted,     \* history: channels the name was taken from, and by what
    amid        \* history: channels made while another task was about to make one

historyOfChannels == <<published, joined, raced, parted, amid>>
managedVars == <<named, chans, outbox, jobs, started, historyOfChannels>>

Free == [at |-> "free"]
Steps == {"free", "get", "create", "check", "insert", "recall", "push", "send", "remove"}

ManagedTypeOK ==
    /\ named \in 0..Len(chans) /\ Len(chans) <= MaxCreated
    /\ \A o \in DOMAIN chans : chans[o].members \subseteq Members
                              /\ chans[o].history \in Seq(DOMAIN published)
    /\ \A i \in DOMAIN outbox : outbox[i].to \in Members /\ outbox[i].msg \in DOMAIN published
    /\ \A t \in Callers : jobs[t].at \in Steps
    /\ started \in 0..MaxJobs
    /\ \A j \in joined : j.who \in Members /\ j.on \in DOMAIN chans
    /\ raced \subseteq DOMAIN chans

ManagedInit ==
    /\ named = 0 /\ chans = <<>> /\ outbox = <<>>
    /\ jobs = [t \in Callers |-> Free] /\ started = 0
    /\ published = <<>> /\ joined = {} /\ raced = {}
    /\ parted = {} /\ amid = {}

-----------------------------------------------------------------------------
(* Calls that are one step.                                                *)

Channel(limit, size) == [limit |-> limit, size |-> size, members |-> {}, history |-> <<>>]
Creating == {t \in Callers : jobs[t].at = "create"}

\* The name now stands for another channel, or for none; who holds the old one
\* keeps it.
Rename(o, how, others) ==
    /\ named' = o
    /\ parted' = IF named = 0 THEN parted ELSE parted \cup {[channel |-> named, how |-> how]}
    /\ amid' = IF o # 0 /\ others # {} THEN amid \cup {o} ELSE amid

Count == started < MaxJobs /\ started' = started + 1

CreateChannel ==
    /\ Count /\ Len(chans) < MaxCreated
    /\ \E d \in Declared : chans' = Append(chans, Channel(d.limit, d.size))
    /\ Rename(Len(chans) + 1, "declared", Creating)
    /\ UNCHANGED <<outbox, jobs, published, joined, raced>>

DeleteChannel ==
    /\ Count /\ named # 0
    /\ Rename(0, "deleted", {})
    /\ UNCHANGED <<chans, outbox, jobs, published, joined, raced>>

\* Whoever is visiting the members of a channel does not wait for one who left.
Without(c, o) ==
    [u \in Callers |-> IF jobs[u].at = "send" /\ jobs[u].on = o
                       THEN [jobs[u] EXCEPT !.waiting = @ \ {c}] ELSE jobs[u]]

\* remove_connection() only knows the channels that have a name.
RemoveFromAll ==
    /\ Count /\ named # 0
    /\ \E c \in Members :
          /\ chans' = [chans EXCEPT ![named].members = @ \ {c}]
          /\ jobs' = Without(c, named)
          /\ joined' = {j \in joined : j.who # c \/ j.on # named}
    /\ UNCHANGED <<named, outbox, published, raced, parted, amid>>

-----------------------------------------------------------------------------
(* Calls of several steps.                                                 *)

Do(t, job) == jobs' = [jobs EXCEPT ![t] = job]

\* A task joins (subscribe, then get_history), publishes or unsubscribes.
StartJob(t) ==
    /\ Count /\ jobs[t] = Free
    /\ \E call \in {"join", "publish", "leave"}, c \in Members :
          Do(t, [at |-> "get", call |-> call, who |-> c])
    /\ UNCHANGED <<named, chans, outbox, historyOfChannels>>

\* Where a call goes on once it has its channel, in its hands for good.
Found(job, o) ==
    [call |-> job.call, who |-> job.who, on |-> o,
     at |-> CASE job.call = "join" -> "check" [] job.call = "publish" -> "push" [] OTHER -> "remove"]

\* get(), or the first half of get_or_create().
LookUpName(t) ==
    /\ jobs[t].at = "get"
    /\ Do(t, IF named # 0 THEN Found(jobs[t], named)
             ELSE IF jobs[t].call = "leave" THEN Free
             ELSE [at |-> "create", call |-> jobs[t].call, who |-> jobs[t].who])
    /\ UNCHANGED <<named, chans, outbox, started, historyOfChannels>>

\* The second half, whatever the name stands for by now.
CreateOnDemand(t) ==
    /\ jobs[t].at = "create" /\ Len(chans) < MaxCreated
    /\ chans' = Append(chans, Channel(NoLimit, DefaultSize))
    /\ Rename(Len(chans) + 1, "overlapped", Creating \ {t})
    /\ Do(t, Found(jobs[t], Len(chans) + 1))
    /\ UNCHANGED <<outbox, started, published, joined, raced>>

\* Fault: room for one more.
TooMany(o) == chans[o].limit # NoLimit /\ Cardinality(chans[o].members) > chans[o].limit

Full(o) == chans[o].limit # NoLimit /\ Cardinality(chans[o].members) >= chans[o].limit

\* subscribe() counts first ...
CheckLimit(t) ==
    LET o == jobs[t].on IN
    /\ jobs[t].at = "check"
    /\ Do(t, IF Full(o) THEN Free ELSE [jobs[t] EXCEPT !.at = "insert"])
    /\ raced' = IF ~Full(o) /\ \E u \in Callers \ {t} : jobs[u].at = "insert" /\ jobs[u].on = o
                THEN raced \cup {o} ELSE raced
    /\ UNCHANGED <<named, chans, outbox, started, published, joined, parted, amid>>

\* ... and inserts then.
Insert(t) ==
    /\ jobs[t].at = "insert"
    /\ chans' = [chans EXCEPT ![jobs[t].on].members = @ \cup {jobs[t].who}]
    /\ Do(t, [jobs[t] EXCEPT !.at = "recall"])
    /\ UNCHANGED <<named, outbox, started, historyOfChannels>>

\* get_history(None) on the channel joined.
Recall(t) ==
    LET o == jobs[t].on
        others == {j \in joined : j.who # jobs[t].who \/ j.on # o}
    IN /\ jobs[t].at = "recall"
       /\ joined' = IF jobs[t].who \notin chans[o].members THEN others
                    ELSE others \cup {[who |-> jobs[t].who, on |-> o, shown |-> chans[o].history,
                                       upto |-> Len(published)]}
       /\ Do(t, Free)
       /\ UNCHANGED <<named, chans, outbox, started, published, raced, parted, amid>>

\* unsubscribe() on a channel found by its name.
Leave(t) ==
    LET o == jobs[t].on IN
    /\ jobs[t].at = "remove"
    /\ chans' = [chans EXCEPT ![o].members = @ \ {jobs[t].who}]
    /\ joined' = {j \in joined : j.who # jobs[t].who \/ j.on # o}
    /\ jobs' = [Without(jobs[t].who, o) EXCEPT ![t] = Free]
    /\ UNCHANGED <<named, outbox, started, published, raced, parted, amid>>

\* publish(), without its sender, pushes to the history, which only keeps so many ...
Push(t) ==
    LET o == jobs[t].on
        h == Append(chans[o].history, Len(published) + 1)
    IN /\ jobs[t].at = "push"
       /\ chans' = [chans EXCEPT ![o].history = IF chans[o].size = 0 THEN @
                                              ELSE IF Len(h) > chans[o].size THEN Tail(h) ELSE h]
       /\ published' = Append(published, [on |-> o, by |-> jobs[t].who, over |-> FALSE])
       /\ Do(t, [at |-> "send", on |-> o, who |-> jobs[t].who, msg |-> Len(published) + 1,
                 visited |-> {jobs[t].who}, waiting |-> chans[o].members \ {jobs[t].who}])
       /\ UNCHANGED <<named, outbox, started, joined, raced, parted, amid>>

\* Fault: the loop ends before it has come to every member.
EndPublishEarly(t) ==
    /\ jobs[t].at = "send"
    /\ published' = [published EXCEPT ![jobs[t].msg].over = TRUE]
    /\ Do(t, Free)
    /\ UNCHANGED <<named, chans, outbox, started, joined, raced, parted, amid>>

\* ... and visits the members: those there at the start, and any that come.
SendOne(t) ==
    /\ jobs[t].at = "send"
    /\ \E c \in chans[jobs[t].on].members \ jobs[t].visited :
          /\ outbox' = Append(outbox, [to |-> c, msg |-> jobs[t].msg])
          /\ Do(t, [jobs[t] EXCEPT !.visited = @ \cup {c}])
    /\ UNCHANGED <<named, chans, started, historyOfChannels>>

EndPublish(t) ==
    /\ jobs[t].at = "send"
    /\ jobs[t].waiting \cap chans[jobs[t].on].members \subseteq jobs[t].visited
    /\ published' = [published EXCEPT ![jobs[t].msg].over = TRUE]
    /\ Do(t, Free)
    /\ UNCHANGED <<named, chans, outbox, started, joined, raced, parted, amid>>

ManagedNext ==
    \/ CreateChannel \/ DeleteChannel \/ RemoveFromAll
    \/ \E t \in Callers :
          \/ StartJob(t) \/ LookUpName(t) \/ CreateOnDemand(t)
          \/ CheckLimit(t) \/ Insert(t) \/ Recall(t) \/ Leave(t)
          \/ Push(t) \/ SendOne(t) \/ EndPublish(t)

ManagedSpec == ManagedInit /\ [][ManagedNext]_managedVars

-----------------------------------------------------------------------------

\* A limit is passed only by tasks that tested it before any of them joined, and
\* by no more than those.
LimitGivesToRacesOnly ==
    \A o \in DOMAIN chans :
       chans[o].limit = NoLimit
       \/ Cardinality(chans[o].members)
            <= chans[o].limit + IF o \in raced THEN Cardinality(Callers) - 1 ELSE 0

\* Who joined and reads the history then has every message that publish() was
\* done with: shown, sent once after it, or older than the history is long.
NothingMissed ==
    \A j \in joined, m \in DOMAIN published :
       published[m].on = j.on /\ published[m].by # j.who =>
          LET copies == {i \in DOMAIN outbox : outbox[i] = [to |-> j.who, msg |-> m]}
              newer == {n \in (m + 1)..j.upto : published[n].on = j.on}
          IN /\ Cardinality(copies) <= 1
             /\ \/ m \in Range(j.shown) \/ copies # {}
                \/ m <= j.upto /\ Cardinality(newer) >= chans[j.on].size
                \/ m > j.upto /\ ~published[m].over

\* A channel loses its name only if it is deleted or declared anew, or if it was
\* made while another task was about to make one.
NamesLostByOverlap ==
    \A p \in parted : p.how = "overlapped" => p.channel \in amid

\* A manager may be shared: what goes wrong needs two calls at the same time.
SharedManagerHolds == LimitGivesToRacesOnly /\ NothingMissed /\ NamesLostByOverlap

================================================================================
