-------------------------------- MODULE Metrics --------------------------------
(***************************************************************************)
(* The metrics of crates/mtw-http (stages/metrics.rs): one collector for   *)
(* all requests, whose counters are atomics that recorders and readers     *)
(* touch one by one and in no promised order (Ordering::Relaxed).          *)
(* Of counters that are kept alike one is modelled: total_duration_ms goes *)
(* with request_count, failures with successes, the maximum with the       *)
(* minimum.                                                                *)
(***************************************************************************)
EXTENDS Naturals, FiniteSets, FiniteSetsExt, SequencesExt

CONSTANTS Recorders,  \* the requests that may be in the stage at the same time
          Workloads,  \* sequences of responses: their endpoint, duration and outcome
          Unset       \* u64::MAX, longer than any duration

ASSUME MetricsAssumption ==
    /\ Unset \in Nat
    /\ \A w \in Workloads :
          /\ Len(w) \in Nat /\ DOMAIN w = 1..Len(w)
          /\ \A i \in DOMAIN w : w[i].ms \in 0..(Unset - 1) /\ w[i].ok \in BOOLEAN

VARIABLES
    workload,   \* the responses there will be
    begun,      \* how many of them have reached the stage
    recorded,   \* history: those whose every counter is updated
    stats,      \* the counters of each endpoint that has any
    recording,  \* what each recorder has still to do, and for which response
    reading,    \* total_stats() or get_stats() under way
    result      \* what the last of them returned

metricsVars == <<workload, begun, recorded, stats, recording, reading, result>>

Counters == {"count", "success", "min"}
Endpoints == {workload[i].to : i \in DOMAIN workload}

Fresh == [count |-> 0, success |-> 0, min |-> Unset]
Resting == [of |-> 0, pending |-> {}]
NotReading == [keys |-> {}]

MetricsTypeOK ==
    /\ workload \in Workloads /\ begun \in 0..Len(workload) /\ recorded \subseteq 1..begun
    /\ DOMAIN stats \subseteq Endpoints
    /\ \A k \in DOMAIN stats : stats[k].count <= begun /\ stats[k].min \in 0..Unset
    /\ \A t \in Recorders : recording[t].of \in 0..begun /\ recording[t].pending \subseteq Counters
    /\ reading = NotReading \/ reading.visited \subseteq DOMAIN stats
    /\ result = NotReading \/ result.until \in 0..begun

MetricsInit ==
    /\ workload \in Workloads
    /\ begun = 0 /\ recorded = {}
    /\ stats = <<>>
    /\ recording = [t \in Recorders |-> Resting]
    /\ reading = NotReading /\ result = NotReading

-----------------------------------------------------------------------------

\* Fault: counters of their own for every request.
EntryAnew(k) == [e \in DOMAIN stats \cup {k} |-> IF e = k THEN Fresh ELSE stats[e]]

Entry(k) == [e \in DOMAIN stats \cup {k} |-> IF e \in DOMAIN stats THEN stats[e] ELSE Fresh]

\* The next response reaches the stage: entry().or_insert_with().
BeginRecord(t) ==
    /\ recording[t] = Resting /\ begun < Len(workload)
    /\ begun' = begun + 1
    /\ stats' = Entry(workload[begun + 1].to)
    /\ recording' = [recording EXCEPT ![t] = [of |-> begun + 1, pending |-> Counters]]
    /\ UNCHANGED <<workload, recorded, reading, result>>

\* What a failure adds to is one of the counters left out.
Updated(s, r, u) ==
    CASE u = "count" -> [s EXCEPT !.count = @ + 1]
      [] u = "success" -> IF r.ok THEN [s EXCEPT !.success = @ + 1] ELSE s
      [] OTHER -> [s EXCEPT !.min = IF r.ms < @ THEN r.ms ELSE @]

\* One of the updates, whichever the others see first.
Update(t, u) ==
    LET r == workload[recording[t].of]
        rest == recording[t].pending \ {u}
    IN /\ u \in recording[t].pending
       /\ stats' = [stats EXCEPT ![r.to] = Updated(@, r, u)]
       /\ recording' = [recording EXCEPT ![t] = IF rest = {} THEN Resting
                                                ELSE [@ EXCEPT !.pending = rest]]
       /\ recorded' = IF rest = {} THEN recorded \cup {recording[t].of} ELSE recorded
       /\ UNCHANGED <<workload, begun, reading, result>>

-----------------------------------------------------------------------------

\* total_stats() meets the endpoints there are, and those that come may be met.
\* get_stats(key) meets one.
BeginReading ==
    /\ reading = NotReading /\ result = NotReading
    /\ \E keys \in {Endpoints} \cup {{k} : k \in DOMAIN stats} :
          reading' = [keys |-> keys, must |-> keys \cap DOMAIN stats, since |-> recorded,
                      visited |-> {}, loaded |-> Fresh, missing |-> {}, total |-> Fresh]
    /\ UNCHANGED <<workload, begun, recorded, stats, recording, result>>

VisitKey ==
    /\ reading # NotReading /\ reading.missing = {}
    /\ \E k \in (reading.keys \cap DOMAIN stats) \ reading.visited :
          reading' = [reading EXCEPT !.visited = @ \cup {k}, !.missing = {k} \X Counters]
    /\ UNCHANGED <<workload, begun, recorded, stats, recording, result>>

\* A load; the last one of an endpoint adds its snapshot to the total, in which
\* a minimum nobody has set is zero.
Load(k, f) ==
    /\ reading # NotReading /\ <<k, f>> \in reading.missing
    /\ LET s == [reading.loaded EXCEPT ![f] = stats[k][f]]
           t == reading.total
           min == IF s.min = Unset THEN 0 ELSE s.min
           rest == reading.missing \ {<<k, f>>}
       IN reading' =
             [reading EXCEPT
                !.missing = rest,
                !.loaded = IF rest = {} THEN Fresh ELSE s,
                !.total = IF rest # {} THEN @
                          ELSE [count |-> t.count + s.count, success |-> t.success + s.success,
                                min |-> IF min < t.min THEN min ELSE t.min]]
    /\ UNCHANGED <<workload, begun, recorded, stats, recording, result>>

EndReading ==
    /\ reading # NotReading /\ reading.missing = {} /\ reading.must \subseteq reading.visited
    /\ result' = [keys |-> reading.keys, since |-> reading.since, until |-> begun,
                  total |-> [reading.total EXCEPT !.min = IF @ = Unset THEN 0 ELSE @]]
    /\ reading' = NotReading
    /\ UNCHANGED <<workload, begun, recorded, stats, recording>>

MetricsNext ==
    \/ \E t \in Recorders : BeginRecord(t) \/ \E u \in Counters : Update(t, u)
    \/ BeginReading \/ VisitKey \/ EndReading
    \/ \E k \in Endpoints, f \in Counters : Load(k, f)

MetricsSpec == MetricsInit /\ [][MetricsNext]_metricsVars

-----------------------------------------------------------------------------

To(keys, S) == {i \in S : workload[i].to \in keys}
Good(S) == {i \in S : workload[i].ok}
Between(S, n, T) == Cardinality(S) <= n /\ n <= Cardinality(T)

\* A reading counts every response that was recorded before it began and none
\* that came after its end.  Its minimum is that of such a set of responses, or
\* zero, as if there were none, only while none or none of some endpoint is recorded.
ReadingsBracketed ==
    result # NotReading =>
       LET old == To(result.keys, result.since)
           all == To(result.keys, 1..result.until)
           got == result.total
           Times(S) == {workload[i].ms : i \in S}
       IN /\ Between(old, got.count, all)
          /\ Between(Good(old), got.success, Good(all))
          /\ \/ got.min \in Times(all) /\ \A ms \in Times(old) : got.min <= ms
             \/ got.min = 0 /\ (old = {} \/ \E k \in result.keys : To({k}, result.since) = {})

\* Once no response is in the stage the counters are exact.
NothingLost ==
    (\A t \in Recorders : recording[t] = Resting) =>
       \A k \in DOMAIN stats :
          LET all == To({k}, 1..begun)
          IN stats[k] = [count |-> Cardinality(all), success |-> Cardinality(Good(all)),
                         min |-> Min({workload[i].ms : i \in all})]

\* The counters are right however recorders and readers overlap.
MetricsHold == ReadingsBracketed /\ NothingLost

================================================================================
