---------------------------- MODULE Shared_proofs ----------------------------
(***************************************************************************)
(* What several use at the same time stays right, for any number of users: *)
(* the metrics of HTTP, a channel manager and the hook registry that tasks *)
(* share, a channel of the client and the tasks of its agent.  Each part   *)
(* has its inductive invariant, kept by every step of the part.            *)
(***************************************************************************)
EXTENDS ClientObjects_proofs

-----------------------------------------------------------------------------
(***************************************************************************)
(* The metrics.  A counter is the number of the responses that have been   *)
(* added to it, so a load is between the number recorded before the        *)
(* reading began and that of those begun by now, and so are their sums.    *)
(***************************************************************************)

\* Of S, the responses to these endpoints; those that succeeded; their durations.
Of(w, K, S) == {i \in S : w[i].to \in K}
Succeeded(w, S) == {i \in S : w[i].ok}
Durations(w, S) == {w[i].ms : i \in S}

\* The responses that are in a counter.
Counted(b, rcd, u) == {i \in 1..b : \A t \in Recorders : rcd[t].of = i => u \notin rcd[t].pending}

\* The counters of an endpoint are exactly those.
Least(m, T) == (T = {} /\ m = Unset) \/ (m \in T /\ \A x \in T : m <= x)
Exact(w, s, k, b, rcd) ==
  /\ s.count = Cardinality(Of(w, {k}, Counted(b, rcd, "count")))
  /\ s.success = Cardinality(Succeeded(w, Of(w, {k}, Counted(b, rcd, "success"))))
  /\ Least(s.min, Durations(w, Of(w, {k}, Counted(b, rcd, "min"))))

Snapshot == [count : Nat, success : Nat, min : 0..Unset]
Reached(w, b) == {w[i].to : i \in 1..b}

MetricsShape ==
  /\ workload \in Workloads /\ begun \in 0..Len(workload)
  /\ DOMAIN stats = Reached(workload, begun)
  /\ \A k \in DOMAIN stats : stats[k] \in Snapshot
  /\ recording \in [Recorders -> [of : 0..begun, pending : SUBSET Counters]]
  /\ \A t \in Recorders : recording[t].of = 0 <=> recording[t].pending = {}
  /\ \A t, o \in Recorders : t # o /\ recording[t].of = recording[o].of => recording[t].of = 0
  /\ recorded = {i \in 1..begun : \A t \in Recorders : recording[t].of # i}

StatsExact == \A k \in DOMAIN stats : Exact(workload, stats[k], k, begun, recording)

\* What a snapshot tells of the counters F that are loaded, and the total of K.
Low(m, old, all) == (m = Unset /\ old = {}) \/ (m \in all /\ \A x \in old : m <= x)
SnapFits(w, s, k, old, b, F) ==
  /\ "count" \in F => Between(Of(w, {k}, old), s.count, Of(w, {k}, 1..b))
  /\ "success" \in F => Between(Succeeded(w, Of(w, {k}, old)), s.success,
                                Succeeded(w, Of(w, {k}, 1..b)))
  /\ "min" \in F => Low(s.min, Durations(w, Of(w, {k}, old)), Durations(w, Of(w, {k}, 1..b)))

TotalFits(w, t, K, old, b) ==
  /\ Between(Of(w, K, old), t.count, Of(w, K, 1..b))
  /\ Between(Succeeded(w, Of(w, K, old)), t.success, Succeeded(w, Of(w, K, 1..b)))
  /\ \/ t.min = Unset /\ K = {}
     \/ t.min \in Durations(w, Of(w, K, 1..b)) /\ \A x \in Durations(w, Of(w, K, old)) : t.min <= x
     \/ t.min = 0 /\ \E k \in K : Of(w, {k}, old) = {}

\* A reading: the endpoints it is done with, what it has of the one it is at.
Aimed(w) == {w[i].to : i \in DOMAIN w}
Readings(w) ==
  [keys : SUBSET Aimed(w), must : SUBSET Aimed(w), since : SUBSET Nat, visited : SUBSET Aimed(w),
   loaded : Snapshot, missing : SUBSET (Aimed(w) \X Counters), total : Snapshot]
Finished(r) == {k \in r.visited : \A f \in Counters : <<k, f>> \notin r.missing}
Loaded(r, k) == {f \in Counters : <<k, f>> \notin r.missing}

ReadingFits(w, b, rec, r) ==
  /\ r \in Readings(w)
  /\ r.since \subseteq rec /\ r.visited \subseteq r.keys /\ r.visited \subseteq Reached(w, b)
  /\ \A i \in r.since : w[i].to \in r.keys => w[i].to \in r.must
  /\ \A p, q \in r.missing : p[1] \in r.visited /\ p[1] = q[1]
  /\ TotalFits(w, r.total, Finished(r), r.since, b)
  /\ \A k \in r.visited \ Finished(r) : SnapFits(w, r.loaded, k, r.since, b, Loaded(r, k))

ReadingRight == reading = NotReading \/ ReadingFits(workload, begun, recorded, reading)

MetricsIInv == MetricsShape /\ StatsExact /\ ReadingRight

\* Sets of responses are finite, and a part of one is no larger.
LEMMA PartIsSmaller ==
  ASSUME NEW b \in Nat, NEW T \in SUBSET (1..b), NEW S \in SUBSET T
  PROVE  /\ IsFiniteSet(T) /\ Cardinality(T) \in Nat
         /\ IsFiniteSet(S) /\ Cardinality(S) \in Nat
         /\ Cardinality(S) <= Cardinality(T)
  <1>1. IsFiniteSet(1..b)  BY FS_Interval
  <1>2. IsFiniteSet(T)  BY <1>1, FS_Subset
  <1>3. IsFiniteSet(S) /\ Cardinality(S) <= Cardinality(T)  BY <1>2, FS_Subset
  <1> QED  BY <1>2, <1>3, FS_CardinalityType

\* What is between the sizes of two sets is between those of a part and a whole.
LEMMA BetweenWider ==
  ASSUME NEW b \in Nat, NEW T \in SUBSET (1..b), NEW S \in SUBSET T,
         NEW S1 \in SUBSET S, NEW T0 \in SUBSET T, NEW n \in Nat, Between(S, n, T0)
  PROVE  Between(S1, n, T)
  <1>1. S \in SUBSET (1..b)  OBVIOUS
  <1>2. /\ Cardinality(S1) \in Nat /\ Cardinality(S) \in Nat /\ Cardinality(T0) \in Nat
        /\ Cardinality(T) \in Nat
        /\ Cardinality(S1) <= Cardinality(S) /\ Cardinality(T0) <= Cardinality(T)
    BY <1>1, PartIsSmaller
  <1>3. Cardinality(S) <= n /\ n <= Cardinality(T0)  BY DEF Between
  <1> QED  BY <1>2, <1>3 DEF Between

\* The size of a set is between those of a part of it and a whole.
LEMMA BetweenSize ==
  ASSUME NEW b \in Nat, NEW T \in SUBSET (1..b), NEW P \in SUBSET T, NEW S \in SUBSET P
  PROVE  Between(S, Cardinality(P), T)
  <1>1. P \in SUBSET (1..b)  OBVIOUS
  <1> QED  BY <1>1, PartIsSmaller DEF Between

\* Two sums, of sets that have nothing in common.
LEMMA BetweenSum ==
  ASSUME NEW b \in Nat, NEW T \in SUBSET (1..b), NEW U \in SUBSET (1..b), T \cap U = {},
         NEW S \in SUBSET T, NEW R \in SUBSET U, NEW m \in Nat, NEW n \in Nat,
         Between(S, m, T), Between(R, n, U)
  PROVE  Between(S \cup R, m + n, T \cup U)
  <1>1. /\ IsFiniteSet(T) /\ IsFiniteSet(S) /\ IsFiniteSet(U) /\ IsFiniteSet(R)
        /\ Cardinality(T) \in Nat /\ Cardinality(S) \in Nat
        /\ Cardinality(U) \in Nat /\ Cardinality(R) \in Nat
    BY PartIsSmaller
  <1>2. S \cap R = {}  OBVIOUS
  <1>3. Cardinality(T \cap U) = 0 /\ Cardinality(S \cap R) = 0  BY <1>2, FS_EmptySet
  <1>4. Cardinality(T \cup U) = Cardinality(T) + Cardinality(U) - Cardinality(T \cap U)
    BY <1>1, FS_Union
  <1>6. Cardinality(S \cup R) = Cardinality(S) + Cardinality(R) - Cardinality(S \cap R)
    BY <1>1, FS_Union
  <1>5. /\ Cardinality(S) <= m /\ m <= Cardinality(T)
        /\ Cardinality(R) <= n /\ n <= Cardinality(U)
    BY DEF Between
  <1> QED  BY <1>1, <1>3, <1>4, <1>6, <1>5 DEF Between

\* What a snapshot or a total tells stays true as responses come.
LEMMA SnapStays ==
  ASSUME NEW w, NEW s \in Snapshot, NEW k, NEW b \in Nat, NEW old \in SUBSET (1..b), NEW F,
         SnapFits(w, s, k, old, b, F)
  PROVE  SnapFits(w, s, k, old, b + 1, F)
  <1> DEFINE S == Of(w, {k}, old)
             T == Of(w, {k}, 1..b)
             U == Of(w, {k}, 1..(b + 1))
  <1>0. 1..b \subseteq 1..(b + 1)  OBVIOUS
  <1>a. S \subseteq T /\ T \subseteq U /\ U \subseteq 1..(b + 1)  BY <1>0 DEF Of
  <1>1. /\ S \subseteq T /\ T \subseteq U /\ U \subseteq 1..(b + 1)
        /\ Succeeded(w, S) \subseteq Succeeded(w, T) /\ Succeeded(w, T) \subseteq Succeeded(w, U)
        /\ Succeeded(w, U) \subseteq 1..(b + 1)
        /\ Durations(w, T) \subseteq Durations(w, U)
    <2> HIDE DEF S, T, U
    <2> QED  BY <1>a DEF Succeeded, Durations
  <1>2. s.count \in Nat /\ s.success \in Nat /\ b + 1 \in Nat  BY DEF Snapshot
  <1> HIDE DEF S, T, U
  <1>3. Between(S, s.count, T) => Between(S, s.count, U)  BY <1>1, <1>2, BetweenWider
  <1>4. Between(Succeeded(w, S), s.success, Succeeded(w, T))
          => Between(Succeeded(w, S), s.success, Succeeded(w, U))
    BY <1>1, <1>2, BetweenWider
  <1>5. Low(s.min, Durations(w, S), Durations(w, T)) => Low(s.min, Durations(w, S), Durations(w, U))
    BY <1>1 DEF Low
  <1> QED  BY <1>3, <1>4, <1>5 DEF SnapFits, S, T, U

LEMMA TotalStays ==
  ASSUME NEW w, NEW t \in Snapshot, NEW K, NEW b \in Nat, NEW old \in SUBSET (1..b),
         TotalFits(w, t, K, old, b)
  PROVE  TotalFits(w, t, K, old, b + 1)
  <1> DEFINE S == Of(w, K, old)
             T == Of(w, K, 1..b)
             U == Of(w, K, 1..(b + 1))
  <1>0. 1..b \subseteq 1..(b + 1)  OBVIOUS
  <1>a. S \subseteq T /\ T \subseteq U /\ U \subseteq 1..(b + 1)  BY <1>0 DEF Of
  <1>1. /\ S \subseteq T /\ T \subseteq U /\ U \subseteq 1..(b + 1)
        /\ Succeeded(w, S) \subseteq Succeeded(w, T) /\ Succeeded(w, T) \subseteq Succeeded(w, U)
        /\ Succeeded(w, U) \subseteq 1..(b + 1)
        /\ Durations(w, T) \subseteq Durations(w, U)
    <2> HIDE DEF S, T, U
    <2> QED  BY <1>a DEF Succeeded, Durations
  <1>2. t.count \in Nat /\ t.success \in Nat /\ b + 1 \in Nat  BY DEF Snapshot
  <1>3. Between(S, t.count, T) /\ Between(Succeeded(w, S), t.success, Succeeded(w, T))
    BY DEF TotalFits
  <1> HIDE DEF S, T, U
  <1>4. Between(S, t.count, U)  BY <1>1, <1>2, <1>3, BetweenWider
  <1>5. Between(Succeeded(w, S), t.success, Succeeded(w, U))  BY <1>1, <1>2, <1>3, BetweenWider
  <1>6. \/ t.min = Unset /\ K = {}
        \/ t.min \in Durations(w, U) /\ \A x \in Durations(w, S) : t.min <= x
        \/ t.min = 0 /\ \E k \in K : Of(w, {k}, old) = {}
    BY <1>1 DEF TotalFits, S, T
  <1> QED  BY <1>4, <1>5, <1>6 DEF TotalFits, S, U

\* Loading one more counter of an endpoint, which has every response of before.
LEMMA LoadFits ==
  ASSUME NEW w, NEW b \in Nat, NEW rcd, NEW k, NEW c \in Snapshot, Exact(w, c, k, b, rcd),
         NEW old, \A u \in Counters : old \subseteq Counted(b, rcd, u),
         NEW s \in Snapshot, NEW F, NEW f \in Counters, SnapFits(w, s, k, old, b, F)
  PROVE  /\ [s EXCEPT ![f] = c[f]] \in Snapshot
         /\ SnapFits(w, [s EXCEPT ![f] = c[f]], k, old, b, F \cup {f})
  <1> DEFINE S == Of(w, {k}, old)
             T == Of(w, {k}, 1..b)
             P(u) == Of(w, {k}, Counted(b, rcd, u))
  <1>1. \A u \in Counters : S \subseteq P(u) /\ P(u) \subseteq T /\ T \subseteq 1..b
    BY DEF Of, Counted
  <1>2. "count" \in Counters /\ "success" \in Counters /\ "min" \in Counters  BY DEF Counters
  <1>3. CASE f = "count"
    <2> DEFINE l == [s EXCEPT !.count = c.count]
    <2>1. l \in Snapshot /\ l.count = c.count /\ l.success = s.success /\ l.min = s.min
      BY DEF Snapshot
    <2>2. c.count = Cardinality(P("count"))  BY DEF Exact
    <2>a. S \in SUBSET P("count") /\ P("count") \in SUBSET T /\ T \in SUBSET (1..b)
      BY <1>1, <1>2
    <2>3. Between(S, l.count, T)
      <3> HIDE DEF S, T, P, l
      <3> QED  BY <2>a, <2>1, <2>2, BetweenSize
    <2>4. SnapFits(w, l, k, old, b, F \cup {f})
      <3> HIDE DEF l
      <3> QED  BY <1>3, <2>1, <2>3 DEF SnapFits
    <2> QED  BY <1>3, <2>1, <2>4
  <1>4. CASE f = "success"
    <2> DEFINE l == [s EXCEPT !.success = c.success]
    <2>1. l \in Snapshot /\ l.success = c.success /\ l.count = s.count /\ l.min = s.min
      BY DEF Snapshot
    <2>2. c.success = Cardinality(Succeeded(w, P("success")))  BY DEF Exact
    <2>b. S \subseteq P("success") /\ P("success") \subseteq T /\ T \subseteq 1..b
      BY <1>1, <1>2
    <2>a. /\ Succeeded(w, S) \in SUBSET Succeeded(w, P("success"))
          /\ Succeeded(w, P("success")) \in SUBSET Succeeded(w, T)
          /\ Succeeded(w, T) \in SUBSET (1..b)
      <3> HIDE DEF S, T, P
      <3> QED  BY <2>b DEF Succeeded
    <2>3. Between(Succeeded(w, S), l.success, Succeeded(w, T))
      <3> HIDE DEF S, T, P, l
      <3> QED  BY <2>a, <2>1, <2>2, BetweenSize
    <2>4. SnapFits(w, l, k, old, b, F \cup {f})
      <3> HIDE DEF l
      <3> QED  BY <1>4, <2>1, <2>3 DEF SnapFits
    <2> QED  BY <1>4, <2>1, <2>4
  <1>5. CASE f = "min"
    <2> DEFINE l == [s EXCEPT !.min = c.min]
    <2>1. l \in Snapshot /\ l.min = c.min /\ l.success = s.success /\ l.count = s.count
      BY DEF Snapshot
    <2>2. Least(c.min, Durations(w, P("min")))  BY DEF Exact
    <2>b. S \subseteq P("min") /\ P("min") \subseteq T  BY <1>1, <1>2
    <2>a. /\ Durations(w, S) \subseteq Durations(w, P("min"))
          /\ Durations(w, P("min")) \subseteq Durations(w, T)
      <3> HIDE DEF S, T, P
      <3> QED  BY <2>b DEF Durations
    <2>3. Low(l.min, Durations(w, S), Durations(w, T))
      <3> HIDE DEF S, T, P, l
      <3> QED  BY <2>a, <2>1, <2>2 DEF Least, Low
    <2>4. SnapFits(w, l, k, old, b, F \cup {f})
      <3> HIDE DEF l
      <3> QED  BY <1>5, <2>1, <2>3 DEF SnapFits
    <2> QED  BY <1>5, <2>1, <2>4
  <1> QED  BY <1>3, <1>4, <1>5 DEF Counters

\* The total with the snapshot of one more endpoint.
Added(t, s) ==
  LET min == IF s.min = Unset THEN 0 ELSE s.min
  IN [count |-> t.count + s.count, success |-> t.success + s.success,
      min |-> IF min < t.min THEN min ELSE t.min]

LEMMA TotalAdds ==
  ASSUME NEW w \in Workloads, NEW t \in Snapshot, NEW s \in Snapshot, NEW K, NEW k, k \notin K,
         NEW b \in 0..Len(w), NEW old \in SUBSET (1..b),
         TotalFits(w, t, K, old, b), SnapFits(w, s, k, old, b, Counters)
  PROVE  Added(t, s) \in Snapshot /\ TotalFits(w, Added(t, s), K \cup {k}, old, b)
  <1> DEFINE S == Of(w, K, old)
             T == Of(w, K, 1..b)
             R == Of(w, {k}, old)
             U == Of(w, {k}, 1..b)
             r == Added(t, s)
  <1>b. b \in Nat /\ Unset \in Nat  BY MetricsAssumption
  <1>c. \A i \in 1..b : i \in DOMAIN w /\ w[i].ms \in 0..(Unset - 1)  BY MetricsAssumption
  <1>1. S \subseteq T /\ R \subseteq U /\ T \subseteq 1..b /\ U \subseteq 1..b /\ T \cap U = {}
    BY DEF Of
  <1>2. S \cup R = Of(w, K \cup {k}, old) /\ T \cup U = Of(w, K \cup {k}, 1..b)  BY DEF Of
  <1>3. /\ t.count \in Nat /\ t.success \in Nat /\ t.min \in 0..Unset
        /\ s.count \in Nat /\ s.success \in Nat /\ s.min \in 0..Unset
    BY DEF Snapshot
  <1>4. /\ r \in Snapshot
        /\ r.count = t.count + s.count /\ r.success = t.success + s.success
        /\ r.min = IF (IF s.min = Unset THEN 0 ELSE s.min) < t.min
                   THEN IF s.min = Unset THEN 0 ELSE s.min ELSE t.min
    BY <1>3, <1>b DEF Added, Snapshot
  <1>5. /\ Between(S, t.count, T) /\ Between(R, s.count, U)
        /\ Between(Succeeded(w, S), t.success, Succeeded(w, T))
        /\ Between(Succeeded(w, R), s.success, Succeeded(w, U))
    BY DEF TotalFits, SnapFits, Counters
  <1>6. Low(s.min, Durations(w, R), Durations(w, U))  BY DEF SnapFits, Counters
  <1>7. /\ Succeeded(w, S) \cup Succeeded(w, R) = Succeeded(w, S \cup R)
        /\ Succeeded(w, T) \cup Succeeded(w, U) = Succeeded(w, T \cup U)
        /\ Succeeded(w, S) \subseteq Succeeded(w, T) /\ Succeeded(w, R) \subseteq Succeeded(w, U)
        /\ Succeeded(w, T) \subseteq 1..b /\ Succeeded(w, U) \subseteq 1..b
        /\ Succeeded(w, T) \cap Succeeded(w, U) = {}
        /\ Durations(w, S \cup R) = Durations(w, S) \cup Durations(w, R)
        /\ Durations(w, T \cup U) = Durations(w, T) \cup Durations(w, U)
    <2> HIDE DEF S, T, R, U
    <2> QED  BY <1>1 DEF Succeeded, Durations
  <1>8. Between(S \cup R, r.count, T \cup U)
    <2> HIDE DEF S, T, R, U, r
    <2>1. Between(S \cup R, t.count + s.count, T \cup U)
      BY <1>b, <1>1, <1>3, <1>5, BetweenSum
    <2> QED  BY <2>1, <1>4
  <1>9. Between(Succeeded(w, S \cup R), r.success, Succeeded(w, T \cup U))
    <2> HIDE DEF S, T, R, U, r
    <2>1. Between(Succeeded(w, S) \cup Succeeded(w, R), t.success + s.success,
                  Succeeded(w, T) \cup Succeeded(w, U))
      BY <1>b, <1>3, <1>5, <1>7, BetweenSum
    <2> QED  BY <2>1, <1>4, <1>7
  <1>10. \A x \in Durations(w, U) : x \in 0..(Unset - 1)
    BY <1>c DEF Durations, Of
  <1>11. \A x \in Durations(w, T) : x \in 0..(Unset - 1)
    BY <1>c DEF Durations, Of
  <1>d. Durations(w, S) \subseteq Durations(w, T) /\ Durations(w, R) \subseteq Durations(w, U)
    BY <1>1 DEF Durations
  <1>12. \/ r.min \in Durations(w, T \cup U) /\ \A x \in Durations(w, S \cup R) : r.min <= x
         \/ r.min = 0 /\ \E e \in K \cup {k} : Of(w, {e}, old) = {}
    <2>1. CASE s.min = Unset
      <3>1. Durations(w, R) = {}
        <4> HIDE DEF R, U
        <4>1. Unset \notin Durations(w, U)  BY <1>10, <1>b
        <4> QED  BY <2>1, <1>6, <4>1 DEF Low
      <3>2. Of(w, {k}, old) = {}  BY <3>1 DEF Durations
      <3>3. r.min = 0  BY <2>1, <1>3, <1>4, <1>b
      <3> QED  BY <3>2, <3>3
    <2>2. CASE s.min # Unset
      <3>1. s.min \in Durations(w, U) /\ \A x \in Durations(w, R) : s.min <= x
        BY <2>2, <1>6 DEF Low
      <3>2. CASE t.min = Unset /\ K = {}
        <4>1. S = {} /\ Durations(w, S) = {}  BY <3>2 DEF Of, Durations
        <4>2. r.min = s.min  BY <3>2, <1>3, <1>4, <2>2, <1>b
        <4> HIDE DEF S, T, R, U, r
        <4> QED  BY <3>1, <4>1, <4>2, <1>7
      <3>3. CASE t.min \in Durations(w, T) /\ \A x \in Durations(w, S) : t.min <= x
        <4> HIDE DEF S, T, R, U, r
        <4>1. r.min \in Durations(w, T \cup U)  BY <3>1, <3>3, <1>4, <2>2, <1>7
        <4>2. \A x \in Durations(w, S) : r.min <= x
          BY <3>1, <3>3, <1>3, <1>4, <2>2, <1>11, <1>d, <1>b
        <4>3. \A x \in Durations(w, R) : r.min <= x
          BY <3>1, <3>3, <1>3, <1>4, <2>2, <1>10, <1>d, <1>b
        <4> QED  BY <4>1, <4>2, <4>3, <1>7
      <3>4. CASE t.min = 0 /\ \E e \in K : Of(w, {e}, old) = {}
        <4>1. r.min = 0
          <5> HIDE DEF r
          <5>1. ~(s.min < 0)  BY <1>3, <1>b
          <5> QED  BY <3>4, <5>1, <1>4, <2>2
        <4> QED  BY <3>4, <4>1
      <3> QED  BY <3>2, <3>3, <3>4 DEF TotalFits
    <2> QED  BY <2>1, <2>2
  <1> QED  BY <1>2, <1>4, <1>8, <1>9, <1>12 DEF TotalFits

LEMMA MetricsStart == MetricsInit => MetricsIInv
  <1> SUFFICES ASSUME MetricsInit  PROVE MetricsIInv
    OBVIOUS
  <1>1. Len(workload) \in Nat  BY MetricsAssumption DEF MetricsInit
  <1>2. 1..0 = {} /\ Reached(workload, 0) = {}  BY DEF Reached
  <1>3. DOMAIN stats = {}  BY DEF MetricsInit
  <1>4. recording \in [Recorders -> [of : 0..0, pending : SUBSET Counters]]
    BY DEF MetricsInit, Resting, Counters
  <1>5. MetricsShape
    BY <1>1, <1>2, <1>3, <1>4 DEF MetricsInit, MetricsShape, Resting
  <1>6. StatsExact  BY <1>3 DEF StatsExact
  <1>7. ReadingRight  BY DEF MetricsInit, ReadingRight
  <1> QED  BY <1>5, <1>6, <1>7 DEF MetricsIInv

\* What was exact, of an endpoint whose responses in each counter are as before.
LEMMA ExactStays ==
  ASSUME NEW w, NEW s, NEW k, NEW b, NEW c, NEW rcd, NEW rcd2, Exact(w, s, k, b, rcd),
         \A u \in Counters :
            Of(w, {k}, Counted(c, rcd2, u)) = Of(w, {k}, Counted(b, rcd, u))
  PROVE  Exact(w, s, k, c, rcd2)
  BY DEF Exact, Counters

\* A reading goes on as responses come and are recorded.
LEMMA ReadingStays ==
  ASSUME NEW w, NEW b \in Nat, NEW rec \in SUBSET (1..b), NEW rec2, rec \subseteq rec2,
         NEW c \in {b, b + 1}, NEW r, ReadingFits(w, b, rec, r)
  PROVE  ReadingFits(w, c, rec2, r)
  <1>1. r.loaded \in Snapshot /\ r.total \in Snapshot  BY DEF ReadingFits, Readings
  <1>2. r.since \in SUBSET (1..b)  BY DEF ReadingFits
  <1>3. 1..b \subseteq 1..c  OBVIOUS
  <1>4. Reached(w, b) \subseteq Reached(w, c)  BY <1>3 DEF Reached
  <1>5. TotalFits(w, r.total, Finished(r), r.since, c)
    BY <1>1, <1>2, TotalStays DEF ReadingFits
  <1>6. ASSUME NEW k \in r.visited \ Finished(r)
        PROVE  SnapFits(w, r.loaded, k, r.since, c, Loaded(r, k))
    <2>1. SnapFits(w, r.loaded, k, r.since, b, Loaded(r, k))  BY DEF ReadingFits
    <2> QED  BY <1>1, <1>2, <2>1, SnapStays
  <1>7. /\ r \in Readings(w)
        /\ r.since \subseteq rec2 /\ r.visited \subseteq r.keys
        /\ r.visited \subseteq Reached(w, c)
        /\ \A i \in r.since : w[i].to \in r.keys => w[i].to \in r.must
        /\ \A p, q \in r.missing : p[1] \in r.visited /\ p[1] = q[1]
    BY <1>4 DEF ReadingFits
  <1> QED  BY <1>5, <1>6, <1>7 DEF ReadingFits

LEMMA BeginRecordKeeps ==
  ASSUME MetricsIInv, NEW t \in Recorders, BeginRecord(t)
  PROVE  MetricsIInv'
  <1> DEFINE w == workload
             b == begun
             k0 == w[b + 1].to
  <1>1. /\ w \in Workloads /\ Len(w) \in Nat /\ DOMAIN w = 1..Len(w) /\ Unset \in Nat
        /\ b \in Nat /\ b + 1 \in 1..Len(w) /\ b \in 0..Len(w)
    BY MetricsAssumption DEF MetricsIInv, MetricsShape, BeginRecord
  <1>2. recording[t].of = 0 /\ recording[t].pending = {}  BY DEF BeginRecord, Resting
  <1>3. /\ begun' = b + 1 /\ workload' = w /\ recorded' = recorded /\ reading' = reading
        /\ stats' = Entry(k0)
        /\ recording' = [recording EXCEPT ![t] = [of |-> b + 1, pending |-> Counters]]
    BY DEF BeginRecord
  <1>4. recording \in [Recorders -> [of : 0..b, pending : SUBSET Counters]]
    BY DEF MetricsIInv, MetricsShape
  <1>5. /\ recording'[t].of = b + 1 /\ recording'[t].pending = Counters
        /\ \A o \in Recorders : o # t => recording'[o] = recording[o]
    BY <1>3, <1>4
  <1>6. \A o \in Recorders : recording[o].of \in 0..b /\ recording[o].pending \subseteq Counters
    BY <1>4
  <1>7. 1..(b + 1) = (1..b) \cup {b + 1} /\ b + 1 \notin 0..b /\ b + 1 # 0  BY <1>1
  <1>8. recording' \in [Recorders -> [of : 0..(b + 1), pending : SUBSET Counters]]
    <2>1. 0..b \subseteq 0..(b + 1) /\ b + 1 \in 0..(b + 1)  BY <1>1
    <2> QED  BY <1>3, <1>4, <2>1
  <1>9. \A u \in Counters : Counted(b + 1, recording', u) = Counted(b, recording, u)
    <2> SUFFICES ASSUME NEW u \in Counters
                 PROVE  Counted(b + 1, recording', u) = Counted(b, recording, u)
      OBVIOUS
    <2>1. b + 1 \notin Counted(b + 1, recording', u)  BY <1>5 DEF Counted
    <2>2. ASSUME NEW i \in 1..b
          PROVE  i \in Counted(b + 1, recording', u) <=> i \in Counted(b, recording, u)
      <3>1. i # b + 1 /\ i # 0 /\ i \in 1..(b + 1)  BY <1>1
      <3>2. \A o \in Recorders : (recording'[o].of = i => u \notin recording'[o].pending)
              <=> (recording[o].of = i => u \notin recording[o].pending)
        BY <1>2, <1>5, <3>1
      <3>3. i \in Counted(b + 1, recording', u)
              <=> \A o \in Recorders : recording'[o].of = i => u \notin recording'[o].pending
        BY <3>1 DEF Counted
      <3>4. i \in Counted(b, recording, u)
              <=> \A o \in Recorders : recording[o].of = i => u \notin recording[o].pending
        BY DEF Counted
      <3> HIDE DEF b
      <3> QED  BY <3>2, <3>3, <3>4
    <2>3. Counted(b + 1, recording', u) \subseteq 1..(b + 1) /\ Counted(b, recording, u) \subseteq 1..b
      BY DEF Counted
    <2> QED  BY <1>7, <2>1, <2>2, <2>3
  <1>10. DOMAIN stats = Reached(w, b) /\ \A k \in DOMAIN stats : stats[k] \in Snapshot
    BY DEF MetricsIInv, MetricsShape
  <1>11. /\ DOMAIN stats' = DOMAIN stats \cup {k0}
         /\ \A k \in DOMAIN stats : stats'[k] = stats[k]
         /\ k0 \notin DOMAIN stats => stats'[k0] = Fresh
    BY <1>3 DEF Entry
  <1>12. Fresh \in Snapshot  BY <1>1 DEF Fresh, Snapshot
  <1>13. MetricsShape'
    <2>1. DOMAIN stats' = Reached(w, b + 1)
      BY <1>7, <1>10, <1>11 DEF Reached
    <2>2. \A k \in DOMAIN stats' : stats'[k] \in Snapshot  BY <1>10, <1>11, <1>12
    <2>3. \A o \in Recorders : recording'[o].of = 0 <=> recording'[o].pending = {}
      <3>1. Counters # {}  BY DEF Counters
      <3>2. \A o \in Recorders : recording[o].of = 0 <=> recording[o].pending = {}
        BY DEF MetricsIInv, MetricsShape
      <3> QED  BY <1>5, <1>7, <3>1, <3>2
    <2>4. \A o, p \in Recorders :
            o # p /\ recording'[o].of = recording'[p].of => recording'[o].of = 0
      BY <1>5, <1>6, <1>7 DEF MetricsIInv, MetricsShape
    <2>5. recorded = {i \in 1..(b + 1) : \A o \in Recorders : recording'[o].of # i}
      <3>1. recorded = {i \in 1..b : \A o \in Recorders : recording[o].of # i}
        BY DEF MetricsIInv, MetricsShape
      <3>2. \A i \in 1..b : i # b + 1 /\ i # 0  BY <1>1
      <3> HIDE DEF b
      <3> QED  BY <1>2, <1>5, <1>7, <3>1, <3>2
    <2>6. b + 1 \in 0..Len(w)  BY <1>1
    <2> QED  BY <1>1, <1>3, <1>8, <2>1, <2>2, <2>3, <2>4, <2>5, <2>6 DEF MetricsShape
  <1>14. \A k \in DOMAIN stats' : Exact(w, stats'[k], k, b + 1, recording')
    <2> SUFFICES ASSUME NEW k \in DOMAIN stats'
                 PROVE  Exact(w, stats'[k], k, b + 1, recording')
      OBVIOUS
    <2>1. CASE k \in DOMAIN stats
      <3>1. Exact(w, stats[k], k, b, recording)  BY <2>1 DEF MetricsIInv, StatsExact
      <3>2. \A u \in Counters :
              Of(w, {k}, Counted(b + 1, recording', u)) = Of(w, {k}, Counted(b, recording, u))
        BY <1>9
      <3>3. stats'[k] = stats[k]  BY <1>11, <2>1
      <3> HIDE DEF w, b
      <3> QED  BY <3>1, <3>2, <3>3, ExactStays
    <2>2. CASE k \notin DOMAIN stats
      <3>1. stats'[k] = Fresh  BY <1>11, <2>2
      <3>2. \A u \in Counters : Of(w, {k}, Counted(b, recording, u)) = {}
        BY <1>10, <2>2 DEF Of, Counted, Reached
      <3>3. /\ Of(w, {k}, Counted(b + 1, recording', "count")) = {}
            /\ Of(w, {k}, Counted(b + 1, recording', "success")) = {}
            /\ Of(w, {k}, Counted(b + 1, recording', "min")) = {}
        BY <1>9, <3>2 DEF Counters
      <3>4. Succeeded(w, {}) = {} /\ Durations(w, {}) = {}  BY DEF Succeeded, Durations
      <3> QED  BY <3>1, <3>3, <3>4, FS_EmptySet DEF Exact, Fresh, Least
    <2> QED  BY <2>1, <2>2
  <1>15. StatsExact'  BY <1>3, <1>14 DEF StatsExact
  <1>16. ReadingRight'
    <2>1. CASE reading = NotReading  BY <1>3, <2>1 DEF ReadingRight
    <2>2. CASE ReadingFits(w, b, recorded, reading)
      <3>1. recorded \in SUBSET (1..b)  BY DEF MetricsIInv, MetricsShape
      <3> HIDE DEF w, b
      <3>2. ReadingFits(w, b + 1, recorded, reading)  BY <1>1, <2>2, <3>1, ReadingStays
      <3> QED  BY <1>3, <3>2 DEF ReadingRight
    <2> QED  BY <2>1, <2>2 DEF MetricsIInv, ReadingRight
  <1> QED  BY <1>13, <1>15, <1>16 DEF MetricsIInv

\* One response more in one counter, which it was not in.
LEMMA UpdateExact ==
  ASSUME NEW w \in Workloads, NEW b \in 0..Len(w), NEW i \in 1..b, NEW s \in Snapshot,
         NEW rcd, NEW rcd2, NEW u \in Counters, Exact(w, s, w[i].to, b, rcd),
         i \notin Counted(b, rcd, u), Counted(b, rcd2, u) = Counted(b, rcd, u) \cup {i},
         \A v \in Counters \ {u} : Counted(b, rcd2, v) = Counted(b, rcd, v)
  PROVE  /\ Updated(s, w[i], u) \in Snapshot
         /\ Exact(w, Updated(s, w[i], u), w[i].to, b, rcd2)
  <1> DEFINE k == w[i].to
             P(v) == Of(w, {k}, Counted(b, rcd, v))
             Q(v) == Of(w, {k}, Counted(b, rcd2, v))
             x == Updated(s, w[i], u)
  <1>1. /\ Unset \in Nat /\ b \in Nat /\ i \in DOMAIN w
        /\ w[i].ms \in 0..(Unset - 1) /\ w[i].ok \in BOOLEAN
    BY MetricsAssumption
  <1>2. \A v \in Counters : P(v) \subseteq 1..b /\ (v # u => Q(v) = P(v))
    BY DEF Of, Counted
  <1>3. Q(u) = P(u) \cup {i} /\ i \notin P(u)  BY DEF Of
  <1>4. s.count \in Nat /\ s.success \in Nat /\ s.min \in 0..Unset  BY DEF Snapshot
  <1>5. /\ s.count = Cardinality(P("count"))
        /\ s.success = Cardinality(Succeeded(w, P("success")))
        /\ Least(s.min, Durations(w, P("min")))
    BY DEF Exact
  <1>6. "count" \in Counters /\ "success" \in Counters /\ "min" \in Counters  BY DEF Counters
  <1>7. IsFiniteSet(1..b)  BY <1>1, FS_Interval
  <1>8. IsFiniteSet(P(u)) /\ IsFiniteSet(Succeeded(w, P(u)))
    <2>1. P(u) \in SUBSET (1..b) /\ Succeeded(w, P(u)) \in SUBSET (1..b)
      BY <1>2 DEF Succeeded
    <2> HIDE DEF P
    <2> QED  BY <1>7, <2>1, FS_Subset
  <1>9. CASE u = "count"
    <2>1. x = [s EXCEPT !.count = @ + 1]  BY <1>9 DEF Updated
    <2>2. x \in Snapshot /\ x.count = s.count + 1 /\ x.success = s.success /\ x.min = s.min
      BY <2>1, <1>4 DEF Snapshot
    <2> HIDE DEF P, Q, x, k
    <2>3. Cardinality(Q(u)) = Cardinality(P(u)) + 1  BY <1>3, <1>8, FS_AddElement
    <2>4. /\ x.count = Cardinality(Q("count"))
          /\ x.success = Cardinality(Succeeded(w, Q("success")))
          /\ Least(x.min, Durations(w, Q("min")))
      BY <1>2, <1>5, <1>6, <1>9, <2>2, <2>3
    <2> QED  BY <2>2, <2>4 DEF Exact, P, Q, x, k
  <1>10. CASE u = "success" /\ w[i].ok
    <2>1. x = [s EXCEPT !.success = @ + 1]  BY <1>10 DEF Updated
    <2>2. x \in Snapshot /\ x.count = s.count /\ x.success = s.success + 1 /\ x.min = s.min
      BY <2>1, <1>4 DEF Snapshot
    <2> HIDE DEF P, Q, x, k
    <2>3. Succeeded(w, Q(u)) = Succeeded(w, P(u)) \cup {i} /\ i \notin Succeeded(w, P(u))
      BY <1>3, <1>10 DEF Succeeded
    <2>4. Cardinality(Succeeded(w, Q(u))) = Cardinality(Succeeded(w, P(u))) + 1
      BY <1>8, <2>3, FS_AddElement
    <2>5. /\ x.count = Cardinality(Q("count"))
          /\ x.success = Cardinality(Succeeded(w, Q("success")))
          /\ Least(x.min, Durations(w, Q("min")))
      BY <1>2, <1>5, <1>6, <1>10, <2>2, <2>4
    <2> QED  BY <2>2, <2>5 DEF Exact, P, Q, x, k
  <1>11. CASE u = "success" /\ ~w[i].ok
    <2>1. x = s  BY <1>11 DEF Updated
    <2> HIDE DEF P, Q, x, k
    <2>2. Succeeded(w, Q(u)) = Succeeded(w, P(u))  BY <1>3, <1>11 DEF Succeeded
    <2>3. /\ x.count = Cardinality(Q("count"))
          /\ x.success = Cardinality(Succeeded(w, Q("success")))
          /\ Least(x.min, Durations(w, Q("min")))
      BY <1>2, <1>5, <1>6, <1>11, <2>1, <2>2
    <2> QED  BY <2>1, <2>3 DEF Exact, P, Q, x, k
  <1>12. CASE u = "min"
    <2> DEFINE ms == w[i].ms
    <2>1. x = [s EXCEPT !.min = IF ms < @ THEN ms ELSE @]  BY <1>12 DEF Updated
    <2>2. ms \in 0..Unset /\ ms < Unset  BY <1>1
    <2>3. /\ x \in Snapshot /\ x.count = s.count /\ x.success = s.success
          /\ x.min = IF ms < s.min THEN ms ELSE s.min
      BY <2>1, <2>2, <1>4 DEF Snapshot
    <2>4. Durations(w, Q(u)) = Durations(w, P(u)) \cup {ms}  BY <1>3 DEF Durations
    <2>5. \A y \in Durations(w, P(u)) : y \in 0..Unset
      BY <1>1, MetricsAssumption DEF Durations, Of, Counted
    <2> HIDE DEF P, Q, x, k, ms
    <2>6. Least(x.min, Durations(w, Q(u)))
      <3>1. CASE Durations(w, P(u)) = {} /\ s.min = Unset
        BY <3>1, <2>2, <2>3, <2>4, <1>1 DEF Least
      <3>2. CASE s.min \in Durations(w, P(u)) /\ \A y \in Durations(w, P(u)) : s.min <= y
        <4>1. x.min \in Durations(w, Q(u))  BY <3>2, <2>3, <2>4
        <4>2. \A y \in Durations(w, P(u)) : x.min <= y
          BY <3>2, <2>2, <2>3, <2>5, <1>1, <1>4
        <4>3. x.min <= ms  BY <2>2, <2>3, <1>1, <1>4
        <4> QED  BY <4>1, <4>2, <4>3, <2>4 DEF Least
      <3> QED  BY <3>1, <3>2, <1>5, <1>12 DEF Least
    <2>7. /\ x.count = Cardinality(Q("count"))
          /\ x.success = Cardinality(Succeeded(w, Q("success")))
      BY <1>2, <1>5, <1>6, <1>12, <2>3
    <2> QED  BY <1>12, <2>3, <2>6, <2>7 DEF Exact, P, Q, x, k
  <1> QED  BY <1>9, <1>10, <1>11, <1>12, <1>1 DEF Counters

\* Which counters a response is in once one more has been updated.
LEMMA CountedAfter ==
  ASSUME NEW b \in Nat,
         NEW rcd \in [Recorders -> [of : 0..b, pending : SUBSET Counters]],
         \A t, o \in Recorders : t # o /\ rcd[t].of = rcd[o].of => rcd[t].of = 0,
         NEW t \in Recorders, NEW u \in Counters, u \in rcd[t].pending, rcd[t].of # 0,
         NEW rcd2, \A o \in Recorders : o # t => rcd2[o] = rcd[o],
         rcd2[t].pending = rcd[t].pending \ {u},
         rcd2[t].of = IF rcd2[t].pending = {} THEN 0 ELSE rcd[t].of
  PROVE  /\ rcd[t].of \notin Counted(b, rcd, u)
         /\ Counted(b, rcd2, u) = Counted(b, rcd, u) \cup {rcd[t].of}
         /\ \A v \in Counters \ {u} : Counted(b, rcd2, v) = Counted(b, rcd, v)
  <1> DEFINE i == rcd[t].of
             n == rcd2[t]
  <1>1. i \in 0..b  OBVIOUS
  <1>2. i \in 1..b  BY <1>1
  <1>3. rcd2[t] = n /\ \A o \in Recorders : o # t => rcd2[o] = rcd[o]  OBVIOUS
  <1>4. \A o \in Recorders : o # t => rcd[o].of # i  OBVIOUS
  <1>5. \A j \in 1..b : j # 0  OBVIOUS
  <1>6. ASSUME NEW v \in Counters
        PROVE  /\ \A j \in (1..b) \ {i} : j \in Counted(b, rcd2, v) <=> j \in Counted(b, rcd, v)
               /\ i \in Counted(b, rcd, v) <=> v \notin rcd[t].pending
               /\ i \in Counted(b, rcd2, v) <=> v \notin n.pending
    <2> HIDE DEF i
    <2>1. ASSUME NEW j \in (1..b) \ {i}
          PROVE  j \in Counted(b, rcd2, v) <=> j \in Counted(b, rcd, v)
      <3>1. rcd[t].of # j /\ rcd2[t].of # j  BY <1>3, <1>5 DEF i
      <3>2. \A o \in Recorders :
               (rcd2[o].of = j => v \notin rcd2[o].pending)
                 <=> (rcd[o].of = j => v \notin rcd[o].pending)
        BY <1>3, <3>1
      <3> QED  BY <3>2 DEF Counted
    <2>2. i \in Counted(b, rcd, v) <=> v \notin rcd[t].pending
      <3>1. \A o \in Recorders : rcd[o].of = i <=> o = t  BY <1>4 DEF i
      <3> QED  BY <1>2, <3>1 DEF Counted
    <2>3. i \in Counted(b, rcd2, v) <=> v \notin n.pending
      <3>1. \A o \in Recorders : rcd2[o].of = i => o = t  BY <1>3, <1>4
      <3>2. n.pending # {} => rcd2[t].of = i  BY <1>3 DEF i
      <3> QED  BY <1>2, <1>3, <3>1, <3>2 DEF Counted
    <2> QED  BY <2>1, <2>2, <2>3
  <1>7. \A v \in Counters : Counted(b, rcd2, v) \subseteq 1..b /\ Counted(b, rcd, v) \subseteq 1..b
    BY DEF Counted
  <1>8. u \in Counters /\ rcd[t].pending \subseteq Counters  OBVIOUS
  <1> HIDE DEF i
  <1>9. i \notin Counted(b, rcd, u)  BY <1>6, <1>8
  <1>10. Counted(b, rcd2, u) = Counted(b, rcd, u) \cup {i}  BY <1>2, <1>6, <1>7, <1>8
  <1>11. \A v \in Counters \ {u} : Counted(b, rcd2, v) = Counted(b, rcd, v)
    <2> SUFFICES ASSUME NEW v \in Counters \ {u}
                 PROVE  Counted(b, rcd2, v) = Counted(b, rcd, v)
      OBVIOUS
    <2>1. v \in n.pending <=> v \in rcd[t].pending  OBVIOUS
    <2>2. v \in Counters  OBVIOUS
    <2>3. i \in Counted(b, rcd2, v) <=> i \in Counted(b, rcd, v)  BY <1>6, <2>1, <2>2
    <2>4. \A j \in (1..b) \ {i} : j \in Counted(b, rcd2, v) <=> j \in Counted(b, rcd, v)
      BY <1>6, <2>2
    <2>5. Counted(b, rcd2, v) \subseteq 1..b /\ Counted(b, rcd, v) \subseteq 1..b  BY <1>7, <2>2
    <2> DEFINE B == 1..b
    <2> HIDE DEF B
    <2>6. \A j \in B : j \in Counted(b, rcd2, v) <=> j \in Counted(b, rcd, v)
      BY <2>3, <2>4 DEF B
    <2> QED  BY <2>5, <2>6 DEF B
  <1> QED  BY <1>9, <1>10, <1>11 DEF i

LEMMA UpdateKeeps ==
  ASSUME MetricsIInv, NEW t \in Recorders, NEW u \in Counters, Update(t, u)
  PROVE  MetricsIInv'
  <1> DEFINE w == workload
             b == begun
             i == recording[t].of
             k0 == w[i].to
             rest == recording[t].pending \ {u}
             n == IF rest = {} THEN Resting ELSE [recording[t] EXCEPT !.pending = rest]
             rcd2 == [recording EXCEPT ![t] = n]
  <1>1. /\ w \in Workloads /\ Len(w) \in Nat /\ DOMAIN w = 1..Len(w) /\ b \in Nat
        /\ b \in 0..Len(w)
    BY MetricsAssumption DEF MetricsIInv, MetricsShape
  <1>2. /\ recording \in [Recorders -> [of : 0..b, pending : SUBSET Counters]]
        /\ \A o \in Recorders : recording[o].of = 0 <=> recording[o].pending = {}
        /\ \A o, p \in Recorders :
             o # p /\ recording[o].of = recording[p].of => recording[o].of = 0
    BY DEF MetricsIInv, MetricsShape
  <1>3. /\ u \in recording[t].pending
        /\ workload' = w /\ begun' = b /\ reading' = reading
        /\ stats' = [stats EXCEPT ![k0] = Updated(@, w[i], u)]
        /\ recording' = rcd2
        /\ recorded' = IF rest = {} THEN recorded \cup {i} ELSE recorded
    BY DEF Update
  <1>4. i \in 0..b /\ i # 0 /\ i \in 1..b  BY <1>2, <1>3
  <1>5. /\ n.pending = rest /\ n.of = IF n.pending = {} THEN 0 ELSE i
        /\ n \in [of : 0..b, pending : SUBSET Counters]
    BY <1>1, <1>2 DEF Resting
  <1> HIDE DEF n
  <1>6. /\ i \notin Counted(b, recording, u)
        /\ Counted(b, rcd2, u) = Counted(b, recording, u) \cup {i}
        /\ \A v \in Counters \ {u} : Counted(b, rcd2, v) = Counted(b, recording, v)
    <2>1. /\ n.pending = recording[t].pending \ {u}
          /\ n.of = IF n.pending = {} THEN 0 ELSE recording[t].of
      BY <1>5
    <2>2. recording[t].of # 0 /\ u \in recording[t].pending  BY <1>3, <1>4
    <2>3. b \in Nat /\ recording \in [Recorders -> [of : 0..b, pending : SUBSET Counters]]
      BY <1>1, <1>2
    <2>4. \A o, p \in Recorders :
            o # p /\ recording[o].of = recording[p].of => recording[o].of = 0
      BY <1>2
    <2> HIDE DEF b
    <2>5. /\ recording[t].of \notin Counted(b, recording, u)
          /\ Counted(b, rcd2, u) = Counted(b, recording, u) \cup {recording[t].of}
          /\ \A v \in Counters \ {u} : Counted(b, rcd2, v) = Counted(b, recording, v)
      <3>1. rcd2[t] = n /\ \A o \in Recorders : o # t => rcd2[o] = recording[o]  BY <2>3
      <3>2. /\ rcd2[t].pending = recording[t].pending \ {u}
            /\ rcd2[t].of = IF rcd2[t].pending = {} THEN 0 ELSE recording[t].of
        BY <2>1, <3>1
      <3> HIDE DEF rcd2
      <3> QED  BY <2>2, <2>3, <2>4, <3>1, <3>2, CountedAfter
    <2> QED  BY <2>5
  <1>7. rcd2[t] = n /\ \A o \in Recorders : o # t => rcd2[o] = recording[o]  BY <1>2
  <1>8. /\ DOMAIN stats = Reached(w, b)
        /\ \A k \in DOMAIN stats : stats[k] \in Snapshot /\ Exact(w, stats[k], k, b, recording)
    BY DEF MetricsIInv, MetricsShape, StatsExact
  <1>9. k0 \in DOMAIN stats  BY <1>4, <1>8 DEF Reached
  <1>10. /\ DOMAIN stats' = DOMAIN stats /\ stats'[k0] = Updated(stats[k0], w[i], u)
         /\ \A k \in DOMAIN stats : k # k0 => stats'[k] = stats[k]
    BY <1>3, <1>9
  <1>11. stats'[k0] \in Snapshot /\ Exact(w, stats'[k0], k0, b, rcd2)
    <2>1. stats[k0] \in Snapshot /\ Exact(w, stats[k0], k0, b, recording)  BY <1>8, <1>9
    <2> HIDE DEF w, b, rcd2, i
    <2> QED  BY <1>1, <1>4, <1>6, <1>10, <2>1, UpdateExact
  <1>12. ASSUME NEW k \in DOMAIN stats, k # k0
         PROVE  stats'[k] \in Snapshot /\ Exact(w, stats'[k], k, b, rcd2)
    <2>1. stats'[k] = stats[k] /\ stats[k] \in Snapshot /\ Exact(w, stats[k], k, b, recording)
      BY <1>8, <1>10, <1>12
    <2>2. \A v \in Counters :
            Of(w, {k}, Counted(b, rcd2, v)) = Of(w, {k}, Counted(b, recording, v))
      BY <1>6, <1>12 DEF Of
    <2> HIDE DEF w, b, rcd2
    <2> QED  BY <2>1, <2>2, ExactStays
  <1> HIDE DEF rcd2
  <1>13. recorded' = {j \in 1..b : \A o \in Recorders : rcd2[o].of # j}
    <2>1. recorded = {j \in 1..b : \A o \in Recorders : recording[o].of # j}
      BY DEF MetricsIInv, MetricsShape
    <2>2. \A o \in Recorders : o # t => recording[o].of # i  BY <1>2, <1>4
    <2>3. \A j \in 1..b : j # 0  OBVIOUS
    <2>4. CASE rest = {}
      <3>1. rcd2[t].of = 0  BY <2>4, <1>5, <1>7
      <3> HIDE DEF b, i
      <3>2. \A j \in (1..b) \ {i} :
               (\A o \in Recorders : rcd2[o].of # j) <=> (\A o \in Recorders : recording[o].of # j)
        BY <3>1, <1>7, <2>3 DEF i
      <3>3. \A o \in Recorders : rcd2[o].of # i  BY <3>1, <1>4, <1>7, <2>2
      <3> QED  BY <1>3, <1>4, <2>1, <2>4, <3>2, <3>3
    <2>5. CASE rest # {}
      <3>1. rcd2[t].of = recording[t].of  BY <2>5, <1>5, <1>7
      <3>2. \A o \in Recorders : rcd2[o].of = recording[o].of  BY <3>1, <1>7
      <3> HIDE DEF b, i
      <3> QED  BY <1>3, <2>1, <2>5, <3>2
    <2> QED  BY <2>4, <2>5
  <1>14. MetricsShape'
    <2>1. rcd2 \in [Recorders -> [of : 0..b, pending : SUBSET Counters]]
      BY <1>2, <1>5 DEF rcd2
    <2>2. \A o \in Recorders : rcd2[o].of = 0 <=> rcd2[o].pending = {}
      BY <1>2, <1>4, <1>5, <1>7
    <2>3. \A o, p \in Recorders : o # p /\ rcd2[o].of = rcd2[p].of => rcd2[o].of = 0
      BY <1>2, <1>4, <1>5, <1>7
    <2>4. \A k \in DOMAIN stats' : stats'[k] \in Snapshot  BY <1>10, <1>11, <1>12
    <2> QED  BY <1>1, <1>3, <1>8, <1>10, <1>13, <2>1, <2>2, <2>3, <2>4 DEF MetricsShape
  <1>15. StatsExact'
    <2>1. workload' = w /\ begun' = b /\ recording' = rcd2  BY <1>3
    <2> HIDE DEF w, b, i, k0, rcd2
    <2>2. ASSUME NEW k \in DOMAIN stats'  PROVE  Exact(w, stats'[k], k, b, rcd2)
      <3>1. k \in DOMAIN stats  BY <1>10
      <3> QED  BY <1>11, <1>12, <3>1
    <2> QED  BY <2>1, <2>2 DEF StatsExact
  <1>16. ReadingRight'
    <2>1. CASE reading = NotReading  BY <1>3, <2>1 DEF ReadingRight
    <2>2. CASE ReadingFits(w, b, recorded, reading)
      <3>1. recorded \in SUBSET (1..b)  BY DEF MetricsIInv, MetricsShape
      <3>2. recorded \subseteq recorded'  BY <1>3
      <3> HIDE DEF w, b
      <3>3. ReadingFits(w, b, recorded', reading)  BY <1>1, <2>2, <3>1, <3>2, ReadingStays
      <3> QED  BY <1>3, <3>3 DEF ReadingRight
    <2> QED  BY <2>1, <2>2 DEF MetricsIInv, ReadingRight
  <1> QED  BY <1>14, <1>15, <1>16 DEF MetricsIInv

\* The steps of a reading leave the counters as they are.
LEMMA OnlyReads ==
  ASSUME MetricsIInv, ReadingFits(workload, begun, recorded, reading)' \/ reading' = NotReading,
         UNCHANGED <<workload, begun, recorded, stats, recording>>
  PROVE  MetricsIInv'
  <1>1. /\ workload' = workload /\ begun' = begun /\ recorded' = recorded
        /\ stats' = stats /\ recording' = recording
    OBVIOUS
  <1>2. MetricsShape'  BY <1>1 DEF MetricsIInv, MetricsShape
  <1>3. StatsExact'  BY <1>1 DEF MetricsIInv, StatsExact
  <1>4. ReadingRight'  BY DEF ReadingRight
  <1> QED  BY <1>2, <1>3, <1>4 DEF MetricsIInv

LEMMA BeginReadingKeeps ==
  ASSUME MetricsIInv, BeginReading
  PROVE  MetricsIInv'
  <1> DEFINE w == workload
             b == begun
  <1>1. PICK keys \in {Endpoints} \cup {{k} : k \in DOMAIN stats} :
          reading' = [keys |-> keys, must |-> keys \cap DOMAIN stats, since |-> recorded,
                      visited |-> {}, loaded |-> Fresh, missing |-> {}, total |-> Fresh]
    BY DEF BeginReading
  <1>2. UNCHANGED <<workload, begun, recorded, stats, recording>>  BY DEF BeginReading
  <1>3. /\ w \in Workloads /\ b \in 0..Len(w) /\ Len(w) \in Nat /\ DOMAIN w = 1..Len(w)
        /\ Unset \in Nat /\ DOMAIN stats = Reached(w, b)
        /\ recorded \subseteq 1..b /\ b \in Nat
    BY MetricsAssumption DEF MetricsIInv, MetricsShape
  <1>4. 1..b \subseteq DOMAIN w  BY <1>3
  <1>5. Reached(w, b) \subseteq Aimed(w) /\ Endpoints = Aimed(w)
    BY <1>4 DEF Reached, Aimed, Endpoints
  <1>6. keys \subseteq Aimed(w)  BY <1>1, <1>3, <1>5
  <1> DEFINE r == [keys |-> keys, must |-> keys \cap DOMAIN stats, since |-> recorded,
                   visited |-> {}, loaded |-> Fresh, missing |-> {}, total |-> Fresh]
  <1>7. Fresh \in Snapshot  BY <1>3 DEF Fresh, Snapshot
  <1>8. r \in Readings(w)
    <2>1. recorded \subseteq Nat  BY <1>3
    <2>2. (keys \cap DOMAIN stats) \subseteq Aimed(w)  BY <1>6
    <2> HIDE DEF w
    <2> QED  BY <1>6, <1>7, <2>1, <2>2 DEF Readings
  <1>9. \A i \in recorded : w[i].to \in DOMAIN stats  BY <1>3 DEF Reached
  <1>10. Of(w, {}, recorded) = {} /\ Of(w, {}, 1..b) = {} /\ Succeeded(w, {}) = {}
    BY DEF Of, Succeeded
  <1>11. TotalFits(w, Fresh, {}, recorded, b)
    BY <1>10, FS_EmptySet DEF TotalFits, Between, Fresh
  <1>12. Finished(r) = {}  BY DEF Finished
  <1>13. ReadingFits(w, b, recorded, r)
    <2>1. /\ r.keys = keys /\ r.must = keys \cap DOMAIN stats /\ r.since = recorded
          /\ r.visited = {} /\ r.missing = {} /\ r.total = Fresh
      OBVIOUS
    <2> HIDE DEF r, w, b
    <2> QED  BY <1>8, <1>9, <1>11, <1>12, <2>1 DEF ReadingFits
  <1>14. ReadingFits(workload, begun, recorded, reading)'
    BY <1>1, <1>2, <1>13
  <1> QED  BY <1>2, <1>14, OnlyReads

\* A reading that is at no endpoint is done with those it has visited.
LEMMA AllFinished ==
  ASSUME NEW r, r.missing = {}
  PROVE  Finished(r) = r.visited
  BY DEF Finished

LEMMA VisitKeyKeeps ==
  ASSUME MetricsIInv, VisitKey
  PROVE  MetricsIInv'
  <1> DEFINE w == workload
             b == begun
  <1>1. PICK k \in (reading.keys \cap DOMAIN stats) \ reading.visited :
          reading' = [reading EXCEPT !.visited = @ \cup {k}, !.missing = {k} \X Counters]
    BY DEF VisitKey
  <1>2. UNCHANGED <<workload, begun, recorded, stats, recording>> /\ reading.missing = {}
    BY DEF VisitKey
  <1>3. ReadingFits(w, b, recorded, reading)
    BY DEF MetricsIInv, ReadingRight, VisitKey
  <1>4. /\ reading \in Readings(w)
        /\ reading.keys \subseteq Aimed(w) /\ reading.visited \subseteq Aimed(w)
    BY <1>3 DEF ReadingFits, Readings
  <1> DEFINE r == [reading EXCEPT !.visited = @ \cup {k}, !.missing = {k} \X Counters]
  <1>5. /\ r.keys = reading.keys /\ r.must = reading.must /\ r.since = reading.since
        /\ r.loaded = reading.loaded /\ r.total = reading.total
        /\ r.visited = reading.visited \cup {k} /\ r.missing = {k} \X Counters
        /\ r \in Readings(w)
    <2>1. ({k} \X Counters) \subseteq (Aimed(w) \X Counters)  BY <1>1, <1>4
    <2>2. (reading.visited \cup {k}) \subseteq Aimed(w)  BY <1>1, <1>4
    <2> HIDE DEF w
    <2> QED  BY <1>4, <2>1, <2>2 DEF Readings
  <1>6. k \notin reading.visited /\ k \in reading.keys /\ k \in Reached(w, b)
    BY <1>1 DEF MetricsIInv, MetricsShape
  <1> HIDE DEF r
  <1>7. Finished(reading) = reading.visited  BY <1>2, AllFinished
  <1>8. Finished(r) = reading.visited
    <2>1. "count" \in Counters  BY DEF Counters
    <2> QED  BY <1>5, <1>6, <2>1 DEF Finished
  <1>9. r.visited \ Finished(r) = {k} /\ Loaded(r, k) = {}
    BY <1>5, <1>6, <1>8 DEF Loaded
  <1>10. SnapFits(w, r.loaded, k, r.since, b, {})  BY DEF SnapFits
  <1>11. ReadingFits(w, b, recorded, r)
    <2>1. TotalFits(w, r.total, Finished(r), r.since, b)
      BY <1>3, <1>5, <1>7, <1>8 DEF ReadingFits
    <2>2. \A p, q \in r.missing : p[1] \in r.visited /\ p[1] = q[1]  BY <1>5
    <2>3. \A e \in r.visited \ Finished(r) : SnapFits(w, r.loaded, e, r.since, b, Loaded(r, e))
      BY <1>9, <1>10
    <2>4. /\ r.since \subseteq recorded /\ r.visited \subseteq r.keys
          /\ r.visited \subseteq Reached(w, b)
          /\ \A i \in r.since : w[i].to \in r.keys => w[i].to \in r.must
      BY <1>3, <1>5, <1>6 DEF ReadingFits
    <2> QED  BY <1>5, <2>1, <2>2, <2>3, <2>4 DEF ReadingFits
  <1>12. ReadingFits(workload, begun, recorded, reading)'
    BY <1>1, <1>2, <1>11 DEF r
  <1> QED  BY <1>2, <1>12, OnlyReads

LEMMA LoadKeeps ==
  ASSUME MetricsIInv, NEW k \in Endpoints, NEW f \in Counters, Load(k, f)
  PROVE  MetricsIInv'
  <1> DEFINE w == workload
             b == begun
             x == reading
             s == [x.loaded EXCEPT ![f] = stats[k][f]]
             rest == x.missing \ {<<k, f>>}
             D == Finished(x)
  <1>1. UNCHANGED <<workload, begun, recorded, stats, recording>>  BY DEF Load
  <1>2. /\ <<k, f>> \in x.missing
        /\ reading' = [x EXCEPT !.missing = rest,
                                !.loaded = IF rest = {} THEN Fresh ELSE s,
                                !.total = IF rest # {} THEN @ ELSE Added(@, s)]
    BY DEF Load, Added
  <1>3. ReadingFits(w, b, recorded, x)  BY DEF MetricsIInv, ReadingRight, Load
  <1>4. /\ x \in Readings(w) /\ x.loaded \in Snapshot /\ x.total \in Snapshot
        /\ x.missing \subseteq Aimed(w) \X Counters
    BY <1>3 DEF ReadingFits, Readings
  <1>5. /\ w \in Workloads /\ b \in 0..Len(w) /\ b \in Nat /\ Len(w) \in Nat /\ Unset \in Nat
        /\ recorded \subseteq 1..b
        /\ recorded = {i \in 1..b : \A t \in Recorders : recording[t].of # i}
    BY MetricsAssumption DEF MetricsIInv, MetricsShape
  <1>6. k \in x.visited /\ \A p \in x.missing : p[1] = k /\ p = <<k, p[2]>> /\ p[2] \in Counters
    BY <1>2, <1>3, <1>4 DEF ReadingFits
  <1>7. /\ x.since \subseteq recorded /\ x.visited \subseteq x.keys
        /\ x.visited \subseteq Reached(w, b)
        /\ \A i \in x.since : w[i].to \in x.keys => w[i].to \in x.must
        /\ \A p, q \in x.missing : p[1] \in x.visited /\ p[1] = q[1]
        /\ TotalFits(w, x.total, D, x.since, b)
        /\ \A e \in x.visited \ D : SnapFits(w, x.loaded, e, x.since, b, Loaded(x, e))
    BY <1>3 DEF ReadingFits
  <1>8. D = x.visited \ {k}
    <2>1. \A e \in x.visited \ {k} : \A g \in Counters : <<e, g>> \notin x.missing  BY <1>6
    <2>2. k \notin D  BY <1>2 DEF Finished
    <2> QED  BY <1>6, <2>1, <2>2 DEF Finished
  <1>9. SnapFits(w, x.loaded, k, x.since, b, Loaded(x, k))  BY <1>6, <1>7, <1>8
  <1>10. stats[k] \in Snapshot /\ Exact(w, stats[k], k, b, recording)
    <2>1. k \in DOMAIN stats  BY <1>6, <1>7 DEF MetricsIInv, MetricsShape
    <2> QED  BY <2>1 DEF MetricsIInv, MetricsShape, StatsExact
  <1>11. \A u \in Counters : x.since \subseteq Counted(b, recording, u)
    BY <1>5, <1>7 DEF Counted
  <1>12. s \in Snapshot /\ SnapFits(w, s, k, x.since, b, Loaded(x, k) \cup {f})
    <2> HIDE DEF w, b, x
    <2> QED  BY <1>4, <1>5, <1>9, <1>10, <1>11, LoadFits
  <1> DEFINE r == [x EXCEPT !.missing = rest,
                            !.loaded = IF rest = {} THEN Fresh ELSE s,
                            !.total = IF rest # {} THEN @ ELSE Added(@, s)]
  <1> HIDE DEF s
  <1>13. /\ r.keys = x.keys /\ r.must = x.must /\ r.since = x.since /\ r.visited = x.visited
         /\ r.missing = rest /\ r.loaded = IF rest = {} THEN Fresh ELSE s
         /\ r.total = IF rest # {} THEN x.total ELSE Added(x.total, s)
    BY <1>4 DEF Readings
  <1>14. r.total \in Snapshot /\ TotalFits(w, r.total, Finished(r), r.since, b)
    <2>1. CASE rest = {}
      <3>1. Loaded(x, k) \cup {f} = Counters
        BY <1>6, <2>1 DEF Loaded
      <3>2. Finished(r) = D \cup {k}  BY <1>6, <1>8, <1>13, <2>1 DEF Finished
      <3>3. k \notin D /\ x.since \subseteq 1..b  BY <1>5, <1>7, <1>8
      <3> HIDE DEF w, b, x, D
      <3>4. Added(x.total, s) \in Snapshot /\ TotalFits(w, Added(x.total, s), D \cup {k}, x.since, b)
        BY <1>4, <1>5, <1>7, <1>12, <3>1, <3>3, TotalAdds
      <3>5. r.total = Added(x.total, s)  BY <1>13, <2>1
      <3> QED  BY <1>13, <3>2, <3>4, <3>5
    <2>2. CASE rest # {}
      <3>1. Finished(r) = D
        <4>1. k \notin Finished(r)
          <5>1. PICK p \in rest : TRUE  BY <2>2
          <5>2. p = <<k, p[2]>> /\ p[2] \in Counters  BY <1>6, <5>1
          <5> QED  BY <1>13, <5>1, <5>2 DEF Finished
        <4>2. \A e \in D : \A g \in Counters : <<e, g>> \notin rest  BY DEF Finished
        <4> QED  BY <1>8, <1>13, <4>1, <4>2 DEF Finished
      <3> QED  BY <1>4, <1>7, <1>13, <2>2, <3>1
    <2> QED  BY <2>1, <2>2
  <1>15. \A e \in r.visited \ Finished(r) : SnapFits(w, r.loaded, e, r.since, b, Loaded(r, e))
    <2> SUFFICES ASSUME NEW e \in r.visited \ Finished(r)
                 PROVE  SnapFits(w, r.loaded, e, r.since, b, Loaded(r, e))
      OBVIOUS
    <2>1. PICK g \in Counters : <<e, g>> \in rest  BY <1>13 DEF Finished
    <2>2. e = k  BY <1>6, <2>1
    <2>3. Loaded(r, k) = Loaded(x, k) \cup {f}  BY <1>13 DEF Loaded
    <2>4. r.loaded = s  BY <1>13, <2>1
    <2> HIDE DEF w, b, x, r, rest
    <2> QED  BY <1>12, <1>13, <2>2, <2>3, <2>4
  <1>16. r \in Readings(w)
    <2>1. Fresh \in Snapshot  BY <1>5 DEF Fresh, Snapshot
    <2>2. rest \subseteq Aimed(w) \X Counters  BY <1>4
    <2> HIDE DEF w, rest
    <2> QED  BY <1>4, <1>12, <1>13, <1>14, <2>1, <2>2 DEF Readings
  <1>17. ReadingFits(w, b, recorded, r)
    <2>1. \A p, q \in r.missing : p[1] \in r.visited /\ p[1] = q[1]  BY <1>7, <1>13
    <2> HIDE DEF r, w, b, x, rest
    <2> QED  BY <1>7, <1>13, <1>14, <1>15, <1>16, <2>1 DEF ReadingFits
  <1>18. ReadingFits(workload, begun, recorded, reading)'  BY <1>1, <1>2, <1>17
  <1> QED  BY <1>1, <1>18, OnlyReads

ResultRight == ReadingsBracketed /\ (result = NotReading \/ result.until \in 0..begun)

\* What ReadingsBracketed says of a result.
Bracketed(w, r) ==
  LET old == Of(w, r.keys, r.since)
      all == Of(w, r.keys, 1..r.until)
  IN /\ Between(old, r.total.count, all)
     /\ Between(Succeeded(w, old), r.total.success, Succeeded(w, all))
     /\ \/ r.total.min \in Durations(w, all) /\ \A y \in Durations(w, old) : r.total.min <= y
        \/ r.total.min = 0 /\ (old = {} \/ \E k \in r.keys : Of(w, {k}, r.since) = {})

\* What a reading returns has the total of what it has visited: as it visited every
\* endpoint there was when it began, nothing recorded then is missing.
LEMMA EndReadingKeeps ==
  ASSUME MetricsIInv, EndReading
  PROVE  MetricsIInv' /\ ResultRight'
  <1> DEFINE w == workload
             b == begun
             x == reading
             V == reading.visited
             total == [x.total EXCEPT !.min = IF @ = Unset THEN 0 ELSE @]
  <1>1. /\ UNCHANGED <<workload, begun, recorded, stats, recording>> /\ reading' = NotReading
        /\ x.missing = {} /\ x.must \subseteq V
        /\ result' = [keys |-> x.keys, since |-> x.since, until |-> b, total |-> total]
    BY DEF EndReading
  <1>2. MetricsIInv'  BY <1>1, OnlyReads
  <1>3. ReadingFits(w, b, recorded, x)  BY DEF MetricsIInv, ReadingRight, EndReading
  <1>4. /\ w \in Workloads /\ b \in Nat /\ Len(w) \in Nat /\ DOMAIN w = 1..Len(w) /\ Unset \in Nat
        /\ b \in 0..Len(w) /\ recorded \subseteq 1..b
    BY MetricsAssumption DEF MetricsIInv, MetricsShape
  <1>5. Finished(x) = V  BY <1>1, AllFinished
  <1>6. /\ x.total \in Snapshot /\ x.since \subseteq 1..b /\ V \subseteq x.keys
        /\ \A i \in x.since : w[i].to \in x.keys => w[i].to \in V
        /\ TotalFits(w, x.total, V, x.since, b)
    BY <1>1, <1>3, <1>4, <1>5 DEF ReadingFits, Readings
  <1> DEFINE old == Of(w, x.keys, x.since)
             all == Of(w, x.keys, 1..b)
             seen == Of(w, V, 1..b)
  <1>7. Of(w, V, x.since) = old /\ old \subseteq seen /\ seen \subseteq all /\ all \subseteq 1..b
    BY <1>6 DEF Of
  <1>8. /\ Between(old, x.total.count, seen)
        /\ Between(Succeeded(w, old), x.total.success, Succeeded(w, seen))
        /\ \/ x.total.min = Unset /\ V = {}
           \/ x.total.min \in Durations(w, seen) /\ \A y \in Durations(w, old) : x.total.min <= y
           \/ x.total.min = 0 /\ \E k \in V : Of(w, {k}, x.since) = {}
    BY <1>6, <1>7 DEF TotalFits
  <1>9. x.total.count \in Nat /\ x.total.success \in Nat /\ x.total.min \in 0..Unset
    BY <1>6 DEF Snapshot
  <1>10. /\ total.count = x.total.count /\ total.success = x.total.success
         /\ total.min = IF x.total.min = Unset THEN 0 ELSE x.total.min
    BY <1>6 DEF Snapshot
  <1>11. /\ Succeeded(w, old) \subseteq Succeeded(w, seen)
         /\ Succeeded(w, seen) \subseteq Succeeded(w, all)
         /\ Succeeded(w, all) \subseteq 1..b
         /\ Durations(w, seen) \subseteq Durations(w, all)
    <2> HIDE DEF old, seen, all
    <2> QED  BY <1>7 DEF Succeeded, Durations
  <1>12. \A y \in Durations(w, seen) : y \in 0..(Unset - 1)
    <2>1. \A i \in 1..b : i \in DOMAIN w  BY <1>4
    <2> QED  BY <2>1, <1>4, MetricsAssumption DEF Durations, Of
  <1> HIDE DEF old, seen, all, total
  <1>a. old \in SUBSET all /\ seen \in SUBSET all /\ all \in SUBSET (1..b)  BY <1>7
  <1> HIDE DEF b
  <1>13. Between(old, total.count, all)
    <2>1. old \in SUBSET old /\ total.count \in Nat /\ Between(old, total.count, seen)
      BY <1>8, <1>9, <1>10
    <2> QED  BY <1>4, <1>a, <2>1, BetweenWider
  <1>14. Between(Succeeded(w, old), total.success, Succeeded(w, all))
    BY <1>4, <1>8, <1>9, <1>10, <1>11, BetweenWider
  <1>15. \/ total.min \in Durations(w, all) /\ \A y \in Durations(w, old) : total.min <= y
         \/ total.min = 0 /\ (old = {} \/ \E k \in x.keys : Of(w, {k}, x.since) = {})
    <2>1. CASE x.total.min = Unset /\ V = {}
      <3>1. old = {}  BY <1>7, <2>1 DEF Of
      <3> QED  BY <1>10, <2>1, <3>1
    <2>2. CASE x.total.min \in Durations(w, seen)
               /\ \A y \in Durations(w, old) : x.total.min <= y
      <3>1. x.total.min # Unset  BY <1>4, <1>12, <2>2
      <3> QED  BY <1>10, <1>11, <2>2, <3>1
    <2>3. CASE x.total.min = 0 /\ \E k \in V : Of(w, {k}, x.since) = {}
      BY <1>6, <1>10, <2>3
    <2> QED  BY <1>8, <2>1, <2>2, <2>3
  <1>16. ReadingsBracketed' <=> (result' # NotReading => Bracketed(workload', result'))
    BY DEF ReadingsBracketed, To, Good, Bracketed, Of, Succeeded, Durations
  <1>17. Bracketed(w, [keys |-> x.keys, since |-> x.since, until |-> b, total |-> total])
    BY <1>13, <1>14, <1>15 DEF Bracketed, old, all
  <1>18. ReadingsBracketed'  BY <1>1, <1>16, <1>17 DEF total
  <1>19. (result = NotReading \/ result.until \in 0..begun)'
    <2>1. b \in 0..b  BY <1>4
    <2> QED  BY <1>1, <2>1 DEF b
  <1> QED  BY <1>2, <1>18, <1>19 DEF ResultRight

\* Every step keeps the invariant and leaves, or makes, the last result a right one.
LEMMA MetricsStep ==
  ASSUME MetricsIInv, ResultRight, [MetricsNext]_metricsVars
  PROVE  MetricsIInv' /\ ResultRight'
  <1>1. CASE UNCHANGED metricsVars
    BY <1>1 DEF metricsVars, MetricsIInv, MetricsShape, StatsExact, ReadingRight, ResultRight,
                ReadingsBracketed, To, Good
  <1>2. ASSUME result' = result, workload' = workload, begun' \in {begun, begun + 1}
        PROVE  ResultRight'
    <2>1. begun \in Nat  BY MetricsAssumption DEF MetricsIInv, MetricsShape
    <2>2. ReadingsBracketed'  BY <1>2 DEF ResultRight, ReadingsBracketed, To, Good
    <2>3. result = NotReading \/ result.until \in 0..begun  BY DEF ResultRight
    <2>4. 0..begun \subseteq 0..begun'  BY <1>2, <2>1
    <2> QED  BY <1>2, <2>2, <2>3, <2>4 DEF ResultRight
  <1>3. ASSUME NEW t \in Recorders, BeginRecord(t)  PROVE MetricsIInv' /\ ResultRight'
    BY <1>2, <1>3, BeginRecordKeeps DEF BeginRecord
  <1>4. ASSUME NEW t \in Recorders, NEW u \in Counters, Update(t, u)
        PROVE  MetricsIInv' /\ ResultRight'
    BY <1>2, <1>4, UpdateKeeps DEF Update
  <1>5. CASE BeginReading  BY <1>2, <1>5, BeginReadingKeeps DEF BeginReading
  <1>6. CASE VisitKey  BY <1>2, <1>6, VisitKeyKeeps DEF VisitKey
  <1>7. CASE EndReading  BY <1>7, EndReadingKeeps
  <1>8. ASSUME NEW k \in Endpoints, NEW f \in Counters, Load(k, f)
        PROVE  MetricsIInv' /\ ResultRight'
    BY <1>2, <1>8, LoadKeeps DEF Load
  <1> QED  BY <1>1, <1>3, <1>4, <1>5, <1>6, <1>7, <1>8 DEF MetricsNext

\* Counters that are exact are as many as the responses once all of these rest.
LEMMA MetricsRight == MetricsIInv /\ ResultRight => MetricsHold /\ MetricsTypeOK
  <1> SUFFICES ASSUME MetricsIInv, ResultRight  PROVE MetricsHold /\ MetricsTypeOK
    OBVIOUS
  <1> DEFINE w == workload
             b == begun
  <1>1. /\ w \in Workloads /\ b \in Nat /\ Len(w) \in Nat /\ DOMAIN w = 1..Len(w) /\ Unset \in Nat
        /\ b \in 0..Len(w) /\ recorded \subseteq 1..b /\ DOMAIN stats = Reached(w, b)
        /\ recording \in [Recorders -> [of : 0..b, pending : SUBSET Counters]]
        /\ \A k \in DOMAIN stats : stats[k] \in Snapshot /\ Exact(w, stats[k], k, b, recording)
    BY MetricsAssumption DEF MetricsIInv, MetricsShape, StatsExact
  <1>2. NothingLost
    <2> SUFFICES ASSUME \A t \in Recorders : recording[t] = Resting, NEW k \in DOMAIN stats
                 PROVE  stats[k] = [count |-> Cardinality(To({k}, 1..b)),
                                    success |-> Cardinality(Good(To({k}, 1..b))),
                                    min |-> Min({w[i].ms : i \in To({k}, 1..b)})]
      BY DEF NothingLost
    <2>1. \A u \in Counters : Counted(b, recording, u) = 1..b  BY DEF Counted, Resting
    <2>2. Of(w, {k}, 1..b) = To({k}, 1..b) /\ Succeeded(w, To({k}, 1..b)) = Good(To({k}, 1..b))
      BY DEF Of, To, Succeeded, Good
    <2> DEFINE T == Durations(w, To({k}, 1..b))
    <2>3. /\ stats[k].count = Cardinality(To({k}, 1..b))
          /\ stats[k].success = Cardinality(Good(To({k}, 1..b)))
          /\ Least(stats[k].min, T)
      BY <1>1, <2>1, <2>2 DEF Exact, Counters
    <2>4. T # {} /\ T \subseteq Nat
      <3>1. PICK i \in 1..b : w[i].to = k  BY <1>1 DEF Reached
      <3>2. 1..b \subseteq DOMAIN w  BY <1>1
      <3>3. 0..(Unset - 1) \subseteq Nat  BY <1>1
      <3>4. \A j \in 1..b : w[j].ms \in Nat  BY <1>1, <3>2, <3>3, MetricsAssumption
      <3>5. i \in To({k}, 1..b)  BY <3>1 DEF To
      <3>6. w[i].ms \in T  BY <3>5 DEF Durations
      <3>7. T \subseteq Nat  BY <3>4 DEF Durations, To
      <3> QED  BY <3>6, <3>7
    <2> HIDE DEF T
    <2>5. stats[k].min \in T /\ \A y \in T : stats[k].min <= y  BY <2>3, <2>4 DEF Least
    <2>6. Min(T) \in T /\ \A y \in T : Min(T) <= y  BY <2>5 DEF Min
    <2>7. stats[k].min = Min(T)  BY <2>4, <2>5, <2>6
    <2>8. stats[k] \in Snapshot  BY <1>1
    <2>9. T = {w[i].ms : i \in To({k}, 1..b)}  BY DEF T, Durations
    <2> QED  BY <2>3, <2>7, <2>8, <2>9 DEF Snapshot
  <1>3. MetricsTypeOK
    <2>1. 1..b \subseteq DOMAIN w  BY <1>1
    <2>2. DOMAIN stats \subseteq Endpoints  BY <1>1, <2>1 DEF Endpoints, Reached
    <2>3. ASSUME NEW k \in DOMAIN stats
          PROVE  stats[k].count <= b /\ stats[k].min \in 0..Unset
      <3> DEFINE S == Of(w, {k}, Counted(b, recording, "count"))
      <3>1. stats[k].count = Cardinality(S) /\ stats[k].min \in 0..Unset
        BY <1>1 DEF Exact, Snapshot
      <3>2. S \in SUBSET (1..b)  BY DEF Of, Counted
      <3>3. IsFiniteSet(1..b) /\ Cardinality(1..b) = b
        <4>1. Cardinality(1..b) = IF 1 > b THEN 0 ELSE b - 1 + 1  BY <1>1, FS_Interval
        <4> QED  BY <1>1, <4>1, FS_Interval
      <3> HIDE DEF S
      <3> QED  BY <3>1, <3>2, <3>3, FS_Subset
    <2>4. \A t \in Recorders : recording[t].of \in 0..b /\ recording[t].pending \subseteq Counters
      BY <1>1
    <2>5. reading = NotReading \/ reading.visited \subseteq DOMAIN stats
      BY <1>1 DEF MetricsIInv, ReadingRight, ReadingFits
    <2> QED  BY <1>1, <2>2, <2>3, <2>4, <2>5 DEF MetricsTypeOK, ResultRight
  <1> QED  BY <1>2, <1>3 DEF MetricsHold, ResultRight

LEMMA MetricsBegin == MetricsInit => MetricsIInv /\ ResultRight
  BY MetricsStart DEF MetricsInit, ResultRight, ReadingsBracketed

-----------------------------------------------------------------------------
(***************************************************************************)
(* The shared channel manager.  Members and tasks about to insert one are  *)
(* never more together than a limit gives, but for races; a history is the *)
(* latest messages, in order; a publish() on its way knows whom it has     *)
(* still to visit, and who joined before it is among them.                 *)
(***************************************************************************)

ChannelRecord ==
  [limit : Nat \cup {NoLimit}, size : Nat, members : SUBSET Members, history : Seq(Nat)]
CallNames == {"join", "publish", "leave"}
Asking == [at : {"get", "create"}, call : CallNames, who : Members]
Holding(n) ==
  [at : {"check", "insert", "recall", "push", "remove"}, call : CallNames, who : Members, on : 1..n]
Sending(n, p) ==
  [at : {"send"}, on : 1..n, who : Members, msg : 1..p,
   visited : SUBSET Members, waiting : SUBSET Members]
JobFits(x, n, p) == x = Free \/ x \in Asking \/ x \in Holding(n) \/ x \in Sending(n, p)
Joins(n, p) == [who : Members, on : 1..n, shown : Seq(Nat), upto : 0..p]

ManagedShape ==
  /\ chans \in Seq(ChannelRecord) /\ Len(chans) <= MaxCreated
  /\ \A o \in DOMAIN chans : IsFiniteSet(chans[o].members)
  /\ named \in 0..Len(chans) /\ started \in 0..MaxJobs
  /\ published \in Seq([on : Nat, by : Members, over : BOOLEAN])
  /\ outbox \in Seq([to : Members, msg : 1..Len(published)])
  /\ DOMAIN jobs = Callers /\ \A t \in Callers : JobFits(jobs[t], Len(chans), Len(published))
  /\ joined \subseteq Joins(Len(chans), Len(published))
  /\ raced \subseteq DOMAIN chans

\* Whoever is about to join counts as a member.
Joining(js, o) == {t \in Callers : js[t].at = "insert" /\ js[t].on = o}
Room(ch, js, rc, o) ==
  ch.limit = NoLimit
  \/ Cardinality(ch.members) + Cardinality(Joining(js, o))
       <= ch.limit + IF o \in rc THEN Cardinality(Callers) - 1 ELSE 0
LimitKept == \A o \in DOMAIN chans : Room(chans[o], jobs, raced, o)

\* A task is about to make a channel only if there was none when it looked.
NameKept ==
  /\ named # 0 /\ (\E t \in Callers : jobs[t].at = "create") => named \in amid
  /\ NamesLostByOverlap

\* Messages of a channel among S; a history that lacks one has as many later ones
\* as it is long.
About(pub, o, S) == {n \in S : pub[n].on = o}
Recalls(h, size, pub, o, upto) ==
  \A m \in 1..upto :
     pub[m].on = o => m \in Range(h) \/ Cardinality(About(pub, o, (m + 1)..upto)) >= size
HistoryFits(h, size, pub, o) ==
  /\ \A i \in DOMAIN h : h[i] \in 1..Len(pub) /\ pub[h[i]].on = o
  /\ \A i, k \in DOMAIN h : i < k => h[i] < h[k]
  /\ Recalls(h, size, pub, o, Len(pub))
HistoriesFit ==
  /\ \A o \in DOMAIN chans : HistoryFits(chans[o].history, chans[o].size, published, o)
  /\ \A m \in DOMAIN published : published[m].on \in DOMAIN chans

\* Who joined is a member, and was shown the history of then.
JoinedFit ==
  \A j \in joined :
     /\ j.who \in chans[j.on].members
     /\ Recalls(j.shown, chans[j.on].size, published, j.on, j.upto)

Copied(out, c, m) == \E i \in DOMAIN out : out[i] = [to |-> c, msg |-> m]
SendFits(x, pub, out) ==
  /\ ~pub[x.msg].over /\ pub[x.msg].by = x.who /\ pub[x.msg].on = x.on /\ x.who \in x.visited
  /\ \A i \in DOMAIN out : out[i].msg = x.msg => out[i].to \in x.visited
  /\ \A c \in x.visited \ {x.who} : Copied(out, c, x.msg)
SendsFit ==
  /\ \A i, k \in DOMAIN outbox : i # k => outbox[i] # outbox[k]
  /\ \A t \in Callers : jobs[t].at = "send" => SendFits(jobs[t], published, outbox)
  /\ \A t, u \in Callers :
        t # u /\ jobs[t].at = "send" /\ jobs[u].at = "send" => jobs[t].msg # jobs[u].msg

\* A message of after the join is on its way to who joined, or was sent.
Awaited(js, j) ==
  \A t \in Callers :
     js[t].at = "send" /\ js[t].on = j.on /\ j.upto < js[t].msg /\ j.who # js[t].who
       => j.who \in js[t].waiting
Delivered(pub, out, j) ==
  \A m \in DOMAIN pub :
     pub[m].on = j.on /\ pub[m].by # j.who /\ m > j.upto /\ pub[m].over => Copied(out, j.who, m)
NewsReach == \A j \in joined : Awaited(jobs, j) /\ Delivered(published, outbox, j)

ManagedIInv ==
  /\ ManagedShape /\ LimitKept /\ NameKept /\ HistoriesFit
  /\ JoinedFit /\ SendsFit /\ NewsReach

\* What a task has in hand stays as channels and messages come.
LEMMA JobGrows ==
  ASSUME NEW n \in Nat, NEW p \in Nat, NEW n2 \in Nat, NEW p2 \in Nat, n <= n2, p <= p2,
         NEW x, JobFits(x, n, p)
  PROVE  JobFits(x, n2, p2)
  <1>1. \A y \in 1..n : y \in 1..n2  OBVIOUS
  <1>2. \A y \in 1..p : y \in 1..p2  OBVIOUS
  <1>3. Holding(n) \subseteq Holding(n2)  BY <1>1 DEF Holding
  <1>4. Sending(n, p) \subseteq Sending(n2, p2)  BY <1>1, <1>2 DEF Sending
  <1> QED  BY <1>3, <1>4 DEF JobFits

\* What a task is at tells what it has in hand.
LEMMA AtTells ==
  ASSUME NEW x, NEW n, NEW p, JobFits(x, n, p)
  PROVE  /\ x.at \in {"get", "create"} => x \in Asking
         /\ x.at \in {"check", "insert", "recall", "push", "remove"} => x \in Holding(n)
         /\ x.at = "send" => x \in Sending(n, p)
         /\ x.at \in {"free", "get", "create", "check", "insert", "recall", "push", "remove", "send"}
  BY DEF JobFits, Free, Asking, Holding, Sending

LEMMA FoundFits ==
  ASSUME NEW x \in Asking, NEW n \in Nat, NEW o \in 1..n
  PROVE  Found(x, o) \in Holding(n) /\ Found(x, o).at # "insert" /\ Found(x, o).at # "send"
         /\ Found(x, o).at # "create"
  <1>1. x.call \in CallNames /\ x.who \in Members  BY DEF Asking
  <1>2. /\ Found(x, o).at \in {"check", "push", "remove"} /\ Found(x, o).call = x.call
        /\ Found(x, o).who = x.who /\ Found(x, o).on = o
    BY DEF Found
  <1> DEFINE at == CASE x.call = "join" -> "check" [] x.call = "publish" -> "push" [] OTHER -> "remove"
  <1>3. Found(x, o) = [call |-> x.call, who |-> x.who, on |-> o, at |-> at]  BY DEF Found
  <1>4. at \in {"check", "push", "remove"}  OBVIOUS
  <1> HIDE DEF at
  <1> QED  BY <1>1, <1>2, <1>3, <1>4 DEF Holding, CallNames

\* Those who visit the members of a channel no longer wait for one who left.
LEMMA WithoutFits ==
  ASSUME NEW n \in Nat, NEW p \in Nat, DOMAIN jobs = Callers,
         \A t \in Callers : JobFits(jobs[t], n, p), NEW c, NEW o
  PROVE  /\ DOMAIN Without(c, o) = Callers
         /\ \A t \in Callers :
              /\ JobFits(Without(c, o)[t], n, p)
              /\ Without(c, o)[t].at = jobs[t].at
              /\ jobs[t].at # "send" => Without(c, o)[t] = jobs[t]
              /\ jobs[t].at = "send" =>
                   /\ Without(c, o)[t].msg = jobs[t].msg /\ Without(c, o)[t].who = jobs[t].who
                   /\ Without(c, o)[t].on = jobs[t].on /\ Without(c, o)[t].visited = jobs[t].visited
                   /\ \A d \in jobs[t].waiting :
                        d \in Without(c, o)[t].waiting \/ (d = c /\ jobs[t].on = o)
  <1>1. DOMAIN Without(c, o) = Callers  BY DEF Without
  <1>2. ASSUME NEW t \in Callers
        PROVE  /\ JobFits(Without(c, o)[t], n, p)
               /\ Without(c, o)[t].at = jobs[t].at
               /\ jobs[t].at # "send" => Without(c, o)[t] = jobs[t]
               /\ jobs[t].at = "send" =>
                    /\ Without(c, o)[t].msg = jobs[t].msg /\ Without(c, o)[t].who = jobs[t].who
                    /\ Without(c, o)[t].on = jobs[t].on /\ Without(c, o)[t].visited = jobs[t].visited
                    /\ \A d \in jobs[t].waiting :
                         d \in Without(c, o)[t].waiting \/ (d = c /\ jobs[t].on = o)
    <2>1. CASE jobs[t].at = "send" /\ jobs[t].on = o
      <3>1. jobs[t] \in Sending(n, p)  BY <2>1, AtTells
      <3>2. Without(c, o)[t] = [jobs[t] EXCEPT !.waiting = @ \ {c}]  BY <2>1 DEF Without
      <3>3. [jobs[t] EXCEPT !.waiting = @ \ {c}] \in Sending(n, p)  BY <3>1 DEF Sending
      <3> QED  BY <2>1, <3>1, <3>2, <3>3 DEF JobFits, Sending
    <2>2. CASE ~(jobs[t].at = "send" /\ jobs[t].on = o)
      <3>1. Without(c, o)[t] = jobs[t]  BY <2>2 DEF Without
      <3> QED  BY <3>1
    <2> QED  BY <2>1, <2>2
  <1> QED  BY <1>1, <1>2

\* What there is of channels and messages only grows.
LEMMA ShapeKept ==
  ASSUME ManagedShape, ManagedNext
  PROVE  ManagedShape'
  <1> DEFINE n == Len(chans)
             p == Len(published)
  <1>1. /\ chans \in Seq(ChannelRecord) /\ n \in Nat /\ DOMAIN chans = 1..n
        /\ published \in Seq([on : Nat, by : Members, over : BOOLEAN])
        /\ p \in Nat /\ DOMAIN published = 1..p
        /\ outbox \in Seq([to : Members, msg : 1..p])
        /\ DOMAIN jobs = Callers /\ \A t \in Callers : JobFits(jobs[t], n, p)
        /\ joined \subseteq Joins(n, p) /\ raced \subseteq 1..n /\ named \in 0..n
        /\ \A o \in 1..n : chans[o] \in ChannelRecord /\ IsFiniteSet(chans[o].members)
        /\ n <= MaxCreated /\ started \in 0..MaxJobs /\ MaxJobs \in Nat /\ MaxCreated \in Nat
    BY ManagedAssumption DEF ManagedShape
  <1>2. started' \in 0..MaxJobs
    <2>1. Count \/ started' = started
      BY DEF ManagedNext, CreateChannel, DeleteChannel, RemoveFromAll, StartJob, LookUpName,
             CreateOnDemand, CheckLimit, Insert, Recall, Leave, Push, SendOne, EndPublish
    <2> QED  BY <1>1, <2>1 DEF Count
  <1>a. \A m \in 1..p : published[m] \in [on : Nat, by : Members, over : BOOLEAN]
    <2>1. published \in Seq([on : Nat, by : Members, over : BOOLEAN])  BY <1>1
    <2> QED  BY <2>1, ElementOfSeq
  \* One more channel.
  <1>3. ASSUME NEW c \in ChannelRecord, c.members = {}, chans' = Append(chans, c), n < MaxCreated
        PROVE  /\ chans' \in Seq(ChannelRecord) /\ Len(chans') = n + 1 /\ n + 1 <= MaxCreated
               /\ DOMAIN chans' = 1..(n + 1)
               /\ \A o \in DOMAIN chans' : IsFiniteSet(chans'[o].members)
               /\ raced \subseteq DOMAIN chans' /\ joined \subseteq Joins(n + 1, p)
    <2>1. /\ chans' \in Seq(ChannelRecord) /\ Len(chans') = n + 1 /\ n + 1 <= MaxCreated
          /\ DOMAIN chans' = 1..(n + 1)
          /\ \A o \in 1..n : chans'[o] = chans[o]
          /\ chans'[n + 1] = c
      BY <1>1, <1>3
    <2>2. \A o \in 1..(n + 1) : o \in 1..n \/ o = n + 1  BY <1>1
    <2>3. 1..n \subseteq 1..(n + 1)  BY <1>1
    <2>4. \A o \in DOMAIN chans' : IsFiniteSet(chans'[o].members)
      BY <1>1, <1>3, <2>1, <2>2, FS_EmptySet
    <2> HIDE DEF n, p
    <2>5. Joins(n, p) \subseteq Joins(n + 1, p)  BY <2>3 DEF Joins
    <2> QED  BY <1>1, <2>1, <2>3, <2>4, <2>5
  <1>4. \A s : s \in Nat =>
          /\ \A l \in Nat \cup {NoLimit} : Channel(l, s) \in ChannelRecord
          /\ \A l : Channel(l, s).members = {}
    <2>1. <<>> \in Seq(Nat)  OBVIOUS
    <2> QED  BY <2>1 DEF Channel, ChannelRecord
  <1>5. CASE CreateChannel
    <2>1. PICK d \in Declared : chans' = Append(chans, Channel(d.limit, d.size))
      BY <1>5 DEF CreateChannel
    <2>2. Channel(d.limit, d.size) \in ChannelRecord /\ Channel(d.limit, d.size).members = {}
      BY <1>4, ManagedAssumption
    <2>3. n < MaxCreated /\ named' = n + 1
          /\ UNCHANGED <<outbox, jobs, published, joined, raced>>
      BY <1>5 DEF CreateChannel, Rename
    <2>4. \A t \in Callers : JobFits(jobs[t], n + 1, p)
      <3> HIDE DEF n, p
      <3>1. n + 1 \in Nat /\ n <= n + 1 /\ p <= p  BY <1>1
      <3> QED  BY <1>1, <3>1, JobGrows
    <2>5. n + 1 \in 0..(n + 1)  BY <1>1
    <2> QED  BY <1>1, <1>2, <1>3, <2>1, <2>2, <2>3, <2>4, <2>5 DEF ManagedShape
  <1>6. CASE DeleteChannel
    <2>1. UNCHANGED <<chans, outbox, jobs, published, joined, raced>> /\ named' = 0
      BY <1>6 DEF DeleteChannel, Rename
    <2> QED  BY <1>1, <1>2, <2>1 DEF ManagedShape
  \* The members of one channel are others.
  <1>7. ASSUME NEW o \in 1..n, NEW M \in SUBSET Members, IsFiniteSet(M),
               chans' = [chans EXCEPT ![o].members = M]
        PROVE  /\ chans' \in Seq(ChannelRecord) /\ Len(chans') = n /\ DOMAIN chans' = 1..n
               /\ \A e \in DOMAIN chans' : IsFiniteSet(chans'[e].members)
    <2>1. [chans[o] EXCEPT !.members = M] \in ChannelRecord  BY <1>1 DEF ChannelRecord
    <2>2. chans' = [chans EXCEPT ![o] = [chans[o] EXCEPT !.members = M]]  BY <1>7
    <2>3. /\ chans' \in Seq(ChannelRecord) /\ Len(chans') = n /\ DOMAIN chans' = 1..n
          /\ \A e \in 1..n : e # o => chans'[e] = chans[e]
      BY <1>1, <2>1, <2>2
    <2>4. chans'[o].members = M  BY <1>1, <2>2 DEF ChannelRecord
    <2> QED  BY <1>1, <1>7, <2>3, <2>4
  <1>8. CASE RemoveFromAll
    <2>1. PICK c \in Members :
            /\ chans' = [chans EXCEPT ![named].members = @ \ {c}]
            /\ jobs' = Without(c, named)
            /\ joined' = {j \in joined : j.who # c \/ j.on # named}
      BY <1>8 DEF RemoveFromAll
    <2>2. UNCHANGED <<named, outbox, published, raced>> /\ named \in 1..n
      BY <1>1, <1>8 DEF RemoveFromAll
    <2>3. chans[named].members \ {c} \in SUBSET Members /\ IsFiniteSet(chans[named].members \ {c})
      BY <1>1, <2>2, FS_RemoveElement DEF ChannelRecord
    <2>4. DOMAIN jobs' = Callers /\ \A t \in Callers : JobFits(jobs'[t], n, p)
      <3> HIDE DEF n, p
      <3> QED  BY <1>1, <2>1, WithoutFits
    <2>5. joined' \subseteq Joins(n, p)  BY <1>1, <2>1
    <2>6. chans' = [chans EXCEPT ![named].members = chans[named].members \ {c}]  BY <2>1
    <2> QED  BY <1>1, <1>2, <1>7, <2>2, <2>3, <2>4, <2>5, <2>6 DEF ManagedShape
  \* Only what one task is at has changed.
  <1>9. ASSUME NEW t \in Callers, NEW x, JobFits(x, n, p), Do(t, x)
        PROVE  DOMAIN jobs' = Callers /\ \A u \in Callers : JobFits(jobs'[u], n, p)
    <2> HIDE DEF n, p
    <2> QED  BY <1>1, <1>9 DEF Do
  <1>10. ASSUME NEW t \in Callers, StartJob(t)  PROVE ManagedShape'
    <2>1. PICK cn \in {"join", "publish", "leave"}, c \in Members :
            Do(t, [at |-> "get", call |-> cn, who |-> c])
      BY <1>10 DEF StartJob
    <2>2. [at |-> "get", call |-> cn, who |-> c] \in Asking  BY DEF Asking, CallNames
    <2>3. UNCHANGED <<named, chans, outbox, historyOfChannels>>  BY <1>10 DEF StartJob
    <2> QED  BY <1>1, <1>2, <1>9, <2>1, <2>2, <2>3 DEF ManagedShape, historyOfChannels, JobFits
  <1>11. ASSUME NEW t \in Callers, LookUpName(t)  PROVE ManagedShape'
    <2>1. jobs[t] \in Asking  BY <1>1, <1>11, AtTells DEF LookUpName
    <2>2. [at |-> "create", call |-> jobs[t].call, who |-> jobs[t].who] \in Asking
      BY <2>1 DEF Asking
    <2>3. named # 0 => named \in 1..n  BY <1>1
    <2>4. named # 0 => Found(jobs[t], named) \in Holding(n)  BY <1>1, <2>1, <2>3, FoundFits
    <2>5. UNCHANGED <<named, chans, outbox, started, historyOfChannels>>  BY <1>11 DEF LookUpName
    <2>6. PICK x : Do(t, x) /\ JobFits(x, n, p)
      BY <1>11, <2>2, <2>4 DEF LookUpName, JobFits
    <2> QED  BY <1>1, <1>2, <1>9, <2>5, <2>6 DEF ManagedShape, historyOfChannels
  <1>12. ASSUME NEW t \in Callers, CreateOnDemand(t)  PROVE ManagedShape'
    <2>1. chans' = Append(chans, Channel(NoLimit, DefaultSize)) /\ n < MaxCreated
      BY <1>12 DEF CreateOnDemand
    <2>2. /\ Channel(NoLimit, DefaultSize) \in ChannelRecord
          /\ Channel(NoLimit, DefaultSize).members = {}
      BY <1>4, ManagedAssumption
    <2>3. UNCHANGED <<outbox, published, joined, raced>> /\ named' = n + 1
          /\ jobs' = [jobs EXCEPT ![t] = Found(jobs[t], n + 1)]
      BY <1>12 DEF CreateOnDemand, Rename, Do
    <2>4. jobs[t] \in Asking  BY <1>1, <1>12, AtTells DEF CreateOnDemand
    <2>5. n + 1 \in 1..(n + 1) /\ n + 1 \in 0..(n + 1) /\ n + 1 \in Nat /\ n <= n + 1 /\ p <= p
      BY <1>1
    <2>6. JobFits(Found(jobs[t], n + 1), n + 1, p)  BY <2>4, <2>5, FoundFits DEF JobFits
    <2>7. DOMAIN jobs' = Callers /\ \A u \in Callers : JobFits(jobs'[u], n + 1, p)
      <3> DEFINE n2 == n + 1
                 x == Found(jobs[t], n + 1)
      <3>1. n2 \in Nat /\ n <= n2 /\ p <= p /\ JobFits(x, n2, p) /\ jobs' = [jobs EXCEPT ![t] = x]
        BY <2>3, <2>5, <2>6
      <3> HIDE DEF n, p, n2, x
      <3>2. \A u \in Callers : JobFits(jobs[u], n2, p)  BY <1>1, <3>1, JobGrows
      <3>3. DOMAIN jobs' = Callers /\ \A u \in Callers : JobFits(jobs'[u], n2, p)
        BY <1>1, <3>1, <3>2
      <3> QED  BY <3>3 DEF n2
    <2> QED  BY <1>1, <1>2, <1>3, <2>1, <2>2, <2>3, <2>5, <2>7 DEF ManagedShape
  <1>13. ASSUME NEW t \in Callers, CheckLimit(t)  PROVE ManagedShape'
    <2>1. jobs[t] \in Holding(n)  BY <1>1, <1>13, AtTells DEF CheckLimit
    <2>2. [jobs[t] EXCEPT !.at = "insert"] \in Holding(n) /\ jobs[t].on \in 1..n
      BY <2>1 DEF Holding
    <2>3. UNCHANGED <<named, chans, outbox, started, published, joined>>
          /\ raced' \in {raced, raced \cup {jobs[t].on}}
      BY <1>13 DEF CheckLimit
    <2>4. PICK x : Do(t, x) /\ JobFits(x, n, p)
      BY <1>13, <2>2 DEF CheckLimit, JobFits
    <2> QED  BY <1>1, <1>2, <1>9, <2>2, <2>3, <2>4 DEF ManagedShape
  <1>14. ASSUME NEW t \in Callers, Insert(t)  PROVE ManagedShape'
    <2>1. jobs[t] \in Holding(n)  BY <1>1, <1>14, AtTells DEF Insert
    <2>2. [jobs[t] EXCEPT !.at = "recall"] \in Holding(n) /\ jobs[t].on \in 1..n /\ jobs[t].who \in Members
      BY <2>1 DEF Holding
    <2>3. /\ UNCHANGED <<named, outbox, started, historyOfChannels>>
          /\ chans' = [chans EXCEPT ![jobs[t].on].members = @ \cup {jobs[t].who}]
          /\ Do(t, [jobs[t] EXCEPT !.at = "recall"])
      BY <1>14 DEF Insert
    <2> DEFINE M == chans[jobs[t].on].members \cup {jobs[t].who}
    <2>a. chans[jobs[t].on].members \in SUBSET Members /\ IsFiniteSet(chans[jobs[t].on].members)
      BY <1>1, <2>2 DEF ChannelRecord
    <2>4. M \in SUBSET Members /\ IsFiniteSet(M)  BY <2>2, <2>a, FS_AddElement
    <2>5. chans' = [chans EXCEPT ![jobs[t].on].members = M]  BY <2>3
    <2>6. JobFits([jobs[t] EXCEPT !.at = "recall"], n, p)  BY <2>2 DEF JobFits
    <2> HIDE DEF M
    <2> QED  BY <1>1, <1>2, <1>7, <1>9, <2>2, <2>3, <2>4, <2>5, <2>6
          DEF ManagedShape, historyOfChannels
  <1>15. ASSUME NEW t \in Callers, Recall(t)  PROVE ManagedShape'
    <2>1. jobs[t] \in Holding(n)  BY <1>1, <1>15, AtTells DEF Recall
    <2>2. /\ UNCHANGED <<named, chans, outbox, started, published, raced>>
          /\ Do(t, Free)
          /\ joined' \subseteq joined \cup {[who |-> jobs[t].who, on |-> jobs[t].on,
                                 shown |-> chans[jobs[t].on].history, upto |-> p]}
      BY <1>15 DEF Recall
    <2>3. jobs[t].on \in 1..n /\ jobs[t].who \in Members  BY <2>1 DEF Holding
    <2>4. chans[jobs[t].on].history \in Seq(Nat) /\ p \in 0..p
      BY <1>1, <2>3 DEF ChannelRecord
    <2>5. [who |-> jobs[t].who, on |-> jobs[t].on, shown |-> chans[jobs[t].on].history, upto |-> p]
             \in Joins(n, p)
      <3> HIDE DEF n, p
      <3> QED  BY <2>3, <2>4 DEF Joins
    <2>6. joined' \subseteq Joins(n, p)  BY <1>1, <2>2, <2>5
    <2>7. JobFits(Free, n, p)  BY DEF JobFits
    <2> QED  BY <1>1, <1>2, <1>9, <2>2, <2>6, <2>7 DEF ManagedShape
  <1>16. ASSUME NEW t \in Callers, Leave(t)  PROVE ManagedShape'
    <2>1. jobs[t] \in Holding(n)  BY <1>1, <1>16, AtTells DEF Leave
    <2> DEFINE o == jobs[t].on
               M == chans[o].members \ {jobs[t].who}
    <2>2. /\ UNCHANGED <<named, outbox, started, published, raced>>
          /\ chans' = [chans EXCEPT ![o].members = M]
          /\ joined' \subseteq joined
          /\ jobs' = [Without(jobs[t].who, o) EXCEPT ![t] = Free]
      BY <1>16 DEF Leave
    <2>3. o \in 1..n  BY <2>1 DEF Holding
    <2>a. chans[o].members \in SUBSET Members /\ IsFiniteSet(chans[o].members)
      BY <1>1, <2>3 DEF ChannelRecord
    <2>4. M \in SUBSET Members /\ IsFiniteSet(M)  BY <2>a, FS_RemoveElement
    <2>5. /\ DOMAIN Without(jobs[t].who, o) = Callers
          /\ \A u \in Callers : JobFits(Without(jobs[t].who, o)[u], n, p)
      <3> DEFINE c == jobs[t].who
      <3> HIDE DEF n, p, o, c
      <3>1. DOMAIN Without(c, o) = Callers /\ \A u \in Callers : JobFits(Without(c, o)[u], n, p)
        BY <1>1, WithoutFits
      <3> QED  BY <3>1 DEF c
    <2>6. JobFits(Free, n, p) /\ n <= n /\ p <= p  BY <1>1 DEF JobFits
    <2>7. DOMAIN jobs' = Callers /\ \A u \in Callers : JobFits(jobs'[u], n, p)
      <3> HIDE DEF n, p, o
      <3> QED  BY <1>1, <2>2, <2>5, <2>6
    <2> HIDE DEF M, o
    <2> QED  BY <1>1, <1>2, <1>7, <2>2, <2>3, <2>4, <2>7 DEF ManagedShape
  <1>17. ASSUME NEW t \in Callers, Push(t)  PROVE ManagedShape'
    <2>1. jobs[t] \in Holding(n)  BY <1>1, <1>17, AtTells DEF Push
    <2> DEFINE o == jobs[t].on
               h == Append(chans[o].history, p + 1)
               h2 == IF chans[o].size = 0 THEN chans[o].history
                     ELSE IF Len(h) > chans[o].size THEN Tail(h) ELSE h
               x == [at |-> "send", on |-> o, who |-> jobs[t].who, msg |-> p + 1,
                     visited |-> {jobs[t].who}, waiting |-> chans[o].members \ {jobs[t].who}]
    <2>2. /\ UNCHANGED <<named, outbox, started, joined, raced>>
          /\ chans' = [chans EXCEPT ![o].history = h2]
          /\ published' = Append(published, [on |-> o, by |-> jobs[t].who, over |-> FALSE])
          /\ jobs' = [jobs EXCEPT ![t] = x]
      BY <1>17 DEF Push, Do
    <2>3. o \in 1..n /\ jobs[t].who \in Members /\ o \in Nat  BY <1>1, <2>1 DEF Holding
    <2>4. h2 \in Seq(Nat)
      <3>1. chans[o].history \in Seq(Nat) /\ p + 1 \in Nat  BY <1>1, <2>3 DEF ChannelRecord
      <3>2. h \in Seq(Nat) /\ h # <<>>  BY <3>1
      <3> QED  BY <3>1, <3>2
    <2> HIDE DEF h2
    <2>5. /\ chans' \in Seq(ChannelRecord) /\ Len(chans') = n /\ DOMAIN chans' = 1..n
          /\ \A e \in DOMAIN chans' : IsFiniteSet(chans'[e].members)
      <3>1. [chans[o] EXCEPT !.history = h2] \in ChannelRecord  BY <1>1, <2>3, <2>4 DEF ChannelRecord
      <3>2. chans' = [chans EXCEPT ![o] = [chans[o] EXCEPT !.history = h2]]  BY <2>2
      <3>3. /\ chans' \in Seq(ChannelRecord) /\ Len(chans') = n /\ DOMAIN chans' = 1..n
            /\ \A e \in 1..n : e # o => chans'[e] = chans[e]
        BY <1>1, <2>3, <3>1, <3>2
      <3>4. chans'[o].members = chans[o].members  BY <1>1, <2>3, <3>2 DEF ChannelRecord
      <3> QED  BY <1>1, <3>3, <3>4
    <2>6. /\ published' \in Seq([on : Nat, by : Members, over : BOOLEAN]) /\ Len(published') = p + 1
      BY <1>1, <2>2, <2>3
    <2>7. 1..p \subseteq 1..(p + 1) /\ 0..p \subseteq 0..(p + 1) /\ p + 1 \in 1..(p + 1)
          /\ p + 1 \in Nat /\ p <= p + 1 /\ n <= n
      BY <1>1
    <2>8. JobFits(x, n, p + 1)
      <3>1. chans[o].members \subseteq Members  BY <1>1, <2>3 DEF ChannelRecord
      <3> HIDE DEF n, p
      <3>2. x \in Sending(n, p + 1)  BY <2>3, <2>7, <3>1 DEF Sending
      <3> QED  BY <3>2 DEF JobFits
    <2> HIDE DEF x
    <2>9. DOMAIN jobs' = Callers /\ \A u \in Callers : JobFits(jobs'[u], n, p + 1)
      <3> DEFINE p2 == p + 1
      <3>1. p2 \in Nat /\ n <= n /\ p <= p2 /\ JobFits(x, n, p2) /\ jobs' = [jobs EXCEPT ![t] = x]
        BY <2>2, <2>7, <2>8
      <3> HIDE DEF n, p, p2
      <3>2. \A u \in Callers : JobFits(jobs[u], n, p2)  BY <1>1, <3>1, JobGrows
      <3>3. DOMAIN jobs' = Callers /\ \A u \in Callers : JobFits(jobs'[u], n, p2)
        BY <1>1, <3>1, <3>2
      <3> QED  BY <3>3 DEF p2
    <2>10. joined \subseteq Joins(n, p + 1)
      <3> HIDE DEF n, p
      <3>1. Joins(n, p) \subseteq Joins(n, p + 1)  BY <2>7 DEF Joins
      <3> QED  BY <1>1, <3>1
    <2>11. outbox \in Seq([to : Members, msg : 1..(p + 1)])
      <3> HIDE DEF n, p
      <3>1. [to : Members, msg : 1..p] \subseteq [to : Members, msg : 1..(p + 1)]  BY <2>7
      <3>2. \A S, T : S \subseteq T => Seq(S) \subseteq Seq(T)  OBVIOUS
      <3> QED  BY <1>1, <3>1, <3>2
    <2> QED  BY <1>1, <1>2, <2>2, <2>5, <2>6, <2>9, <2>10, <2>11 DEF ManagedShape
  <1>18. ASSUME NEW t \in Callers, SendOne(t)  PROVE ManagedShape'
    <2>1. jobs[t] \in Sending(n, p)  BY <1>1, <1>18, AtTells DEF SendOne
    <2>2. PICK c \in chans[jobs[t].on].members \ jobs[t].visited :
            /\ outbox' = Append(outbox, [to |-> c, msg |-> jobs[t].msg])
            /\ Do(t, [jobs[t] EXCEPT !.visited = @ \cup {c}])
      BY <1>18 DEF SendOne
    <2>3. UNCHANGED <<named, chans, started, historyOfChannels>>  BY <1>18 DEF SendOne
    <2>4. jobs[t].on \in 1..n /\ jobs[t].msg \in 1..p  BY <2>1 DEF Sending
    <2>5. c \in Members  BY <1>1, <2>4 DEF ChannelRecord
    <2>6. outbox' \in Seq([to : Members, msg : 1..p])
      <3> HIDE DEF n, p
      <3> QED  BY <1>1, <2>2, <2>4, <2>5
    <2>7. JobFits([jobs[t] EXCEPT !.visited = @ \cup {c}], n, p)
      <3>1. [jobs[t] EXCEPT !.visited = @ \cup {c}] \in Sending(n, p)  BY <2>1, <2>5 DEF Sending
      <3> QED  BY <3>1 DEF JobFits
    <2> QED  BY <1>1, <1>2, <1>9, <2>2, <2>3, <2>6, <2>7 DEF ManagedShape, historyOfChannels
  <1>19. ASSUME NEW t \in Callers, EndPublish(t)  PROVE ManagedShape'
    <2>1. jobs[t] \in Sending(n, p)  BY <1>1, <1>19, AtTells DEF EndPublish
    <2>2. /\ UNCHANGED <<named, chans, outbox, started, joined, raced>>
          /\ published' = [published EXCEPT ![jobs[t].msg].over = TRUE]
          /\ Do(t, Free)
      BY <1>19 DEF EndPublish
    <2>3. jobs[t].msg \in 1..p  BY <2>1 DEF Sending
    <2>4. /\ published' \in Seq([on : Nat, by : Members, over : BOOLEAN]) /\ Len(published') = p
      <3>1. published[jobs[t].msg] \in [on : Nat, by : Members, over : BOOLEAN]  BY <1>a, <2>3
      <3>2. [published[jobs[t].msg] EXCEPT !.over = TRUE] \in [on : Nat, by : Members, over : BOOLEAN]
        BY <3>1
      <3>3. published' = [published EXCEPT ![jobs[t].msg] = [published[jobs[t].msg] EXCEPT !.over = TRUE]]
        BY <2>2
      <3> QED  BY <1>1, <2>3, <3>2, <3>3
    <2>5. JobFits(Free, n, p)  BY DEF JobFits
    <2> QED  BY <1>1, <1>2, <1>9, <2>2, <2>4, <2>5 DEF ManagedShape
  <1> QED  BY <1>5, <1>6, <1>8, <1>10, <1>11, <1>12, <1>13, <1>14, <1>15, <1>16, <1>17, <1>18, <1>19
        DEF ManagedNext

\* A step leaves these as they are, or only adds to them.
LEMMA ManagedParts ==
  ASSUME ManagedShape
  PROVE  /\ Len(chans) \in Nat /\ DOMAIN chans = 1..Len(chans)
         /\ Len(published) \in Nat /\ DOMAIN published = 1..Len(published)
         /\ Len(outbox) \in Nat /\ DOMAIN outbox = 1..Len(outbox)
         /\ DOMAIN jobs = Callers
         /\ \A t \in Callers : JobFits(jobs[t], Len(chans), Len(published))
         /\ joined \subseteq Joins(Len(chans), Len(published))
         /\ \A o \in 1..Len(chans) : chans[o] \in ChannelRecord /\ IsFiniteSet(chans[o].members)
         /\ \A m \in 1..Len(published) : published[m] \in [on : Nat, by : Members, over : BOOLEAN]
         /\ \A i \in 1..Len(outbox) : outbox[i] \in [to : Members, msg : 1..Len(published)]
  <1>1. /\ chans \in Seq(ChannelRecord) /\ published \in Seq([on : Nat, by : Members, over : BOOLEAN])
        /\ outbox \in Seq([to : Members, msg : 1..Len(published)])
    BY DEF ManagedShape
  <1>2. /\ Len(chans) \in Nat /\ DOMAIN chans = 1..Len(chans)
        /\ Len(published) \in Nat /\ DOMAIN published = 1..Len(published)
        /\ Len(outbox) \in Nat /\ DOMAIN outbox = 1..Len(outbox)
    BY <1>1
  <1>3. \A o \in 1..Len(chans) : chans[o] \in ChannelRecord  BY <1>1, ElementOfSeq
  <1>4. \A m \in 1..Len(published) : published[m] \in [on : Nat, by : Members, over : BOOLEAN]
    BY <1>1, ElementOfSeq
  <1>5. \A i \in 1..Len(outbox) : outbox[i] \in [to : Members, msg : 1..Len(published)]
    BY <1>1, ElementOfSeq
  <1> QED  BY <1>2, <1>3, <1>4, <1>5 DEF ManagedShape

\* A limit is passed only after a race.
LEMMA LimitStays ==
  ASSUME ManagedShape, LimitKept, ManagedNext
  PROVE  LimitKept'
  <1> DEFINE n == Len(chans)
  <1>1. /\ n \in Nat /\ DOMAIN chans = 1..n /\ DOMAIN jobs = Callers
        /\ \A t \in Callers : JobFits(jobs[t], n, Len(published))
        /\ \A o \in 1..n : chans[o] \in ChannelRecord /\ IsFiniteSet(chans[o].members)
        /\ chans \in Seq(ChannelRecord)
    BY ManagedParts DEF ManagedShape
  <1>2. /\ Cardinality(Callers) \in Nat
        /\ \A S : S \subseteq Callers =>
             IsFiniteSet(S) /\ Cardinality(S) \in Nat /\ Cardinality(S) <= Cardinality(Callers)
    BY ManagedAssumption, FS_Subset, FS_CardinalityType
  <1>3. \A o : IsFiniteSet(Joining(jobs, o)) /\ Cardinality(Joining(jobs, o)) \in Nat
               /\ Cardinality(Joining(jobs, o)) <= Cardinality(Callers)
    BY <1>2 DEF Joining
  <1>4. \A o \in 1..n : /\ chans[o].limit \in Nat \cup {NoLimit}
                        /\ IsFiniteSet(chans[o].members) /\ Cardinality(chans[o].members) \in Nat
    BY <1>1, FS_CardinalityType DEF ChannelRecord
  <1> HIDE DEF n
  \* Nobody has come to the point of joining.
  <1>5. ASSUME NEW o \in 1..n, chans'[o].limit = chans[o].limit,
               chans'[o].members \subseteq chans[o].members,
               \A t \in Callers : jobs'[t].at = "insert" => jobs'[t] = jobs[t]
        PROVE  Room(chans'[o], jobs', raced, o)
    <2>1. Room(chans[o], jobs, raced, o)  BY <1>1 DEF LimitKept
    <2>2. Joining(jobs', o) \subseteq Joining(jobs, o)  BY <1>5 DEF Joining
    <2>3. /\ Cardinality(Joining(jobs', o)) \in Nat
          /\ Cardinality(Joining(jobs', o)) <= Cardinality(Joining(jobs, o))
      BY <1>3, <2>2, FS_Subset, FS_CardinalityType
    <2>4. /\ Cardinality(chans'[o].members) \in Nat
          /\ Cardinality(chans'[o].members) <= Cardinality(chans[o].members)
      BY <1>4, <1>5, FS_Subset, FS_CardinalityType
    <2>5. CASE chans[o].limit = NoLimit
      BY <1>5, <2>5 DEF Room
    <2>6. CASE chans[o].limit # NoLimit
      <3> DEFINE a == Cardinality(chans[o].members)
                 b == Cardinality(Joining(jobs, o))
                 a2 == Cardinality(chans'[o].members)
                 b2 == Cardinality(Joining(jobs', o))
                 r == IF o \in raced THEN Cardinality(Callers) - 1 ELSE 0
      <3>1. /\ a \in Nat /\ b \in Nat /\ a2 \in Nat /\ b2 \in Nat /\ a2 <= a /\ b2 <= b
            /\ chans[o].limit \in Nat /\ a + b <= chans[o].limit + r
        BY <1>3, <1>4, <2>1, <2>3, <2>4, <2>6 DEF Room
      <3>2. r \in Int  BY <1>2
      <3>3. a2 + b2 <= chans[o].limit + r
        <4> HIDE DEF a, b, a2, b2, r
        <4> QED  BY <3>1, <3>2
      <3> QED  BY <1>5, <3>3 DEF Room
    <2> QED  BY <2>5, <2>6
  \* The channels there were, and nobody races.
  <1>6. ASSUME DOMAIN chans' = 1..n, raced' = raced,
               \A o \in 1..n : /\ chans'[o].limit = chans[o].limit
                               /\ chans'[o].members \subseteq chans[o].members,
               \A t \in Callers : jobs'[t].at = "insert" => jobs'[t] = jobs[t]
        PROVE  LimitKept'
    BY <1>5, <1>6 DEF LimitKept
  \* One more channel, without members.
  <1>7. ASSUME NEW c \in ChannelRecord, c.members = {}, chans' = Append(chans, c), raced' = raced,
               \A t \in Callers : jobs'[t].at = "insert" => jobs'[t] = jobs[t],
               raced \subseteq 1..n
        PROVE  LimitKept'
    <2>1. /\ DOMAIN chans' = 1..(n + 1) /\ \A o \in 1..n : chans'[o] = chans[o]
          /\ chans'[n + 1] = c /\ n + 1 \notin 1..n
      BY <1>1, <1>7 DEF n
    <2>2. \A o \in 1..n : Room(chans'[o], jobs', raced', o)  BY <1>5, <1>7, <2>1
    <2>3. Joining(jobs', n + 1) = {}
      <3>1. \A t \in Callers : jobs'[t].at = "insert" => jobs'[t] \in Holding(n)
        BY <1>1, <1>7, AtTells
      <3>2. \A x \in Holding(n) : x.on # n + 1  BY <2>1 DEF Holding
      <3> QED  BY <3>1, <3>2 DEF Joining
    <2>4. Room(chans'[n + 1], jobs', raced', n + 1)
      <3>1. n + 1 \notin raced'  BY <1>7, <2>1
      <3>2. Cardinality(c.members) = 0 /\ Cardinality(Joining(jobs', n + 1)) = 0
        BY <1>7, <2>3, FS_EmptySet
      <3>3. c.limit = NoLimit \/ c.limit \in Nat  BY DEF ChannelRecord
      <3> QED  BY <2>1, <3>1, <3>2, <3>3 DEF Room
    <2>5. \A o \in 1..(n + 1) : o \in 1..n \/ o = n + 1  BY <1>1
    <2> QED  BY <2>1, <2>2, <2>4, <2>5 DEF LimitKept
  <1>8. \A l \in Nat \cup {NoLimit}, s \in Nat :
          Channel(l, s) \in ChannelRecord /\ Channel(l, s).members = {}
    <2>1. <<>> \in Seq(Nat)  OBVIOUS
    <2> QED  BY <2>1 DEF Channel, ChannelRecord
  <1>9. raced \subseteq 1..n  BY <1>1 DEF ManagedShape
  <1>10. CASE CreateChannel
    <2>1. PICK d \in Declared : chans' = Append(chans, Channel(d.limit, d.size))
      BY <1>10 DEF CreateChannel
    <2>2. Channel(d.limit, d.size) \in ChannelRecord /\ Channel(d.limit, d.size).members = {}
      BY <1>8, ManagedAssumption
    <2>3. UNCHANGED <<jobs, raced>>  BY <1>10 DEF CreateChannel
    <2> QED  BY <1>7, <1>9, <2>1, <2>2, <2>3
  <1>11. CASE DeleteChannel
    <2>1. UNCHANGED <<chans, jobs, raced>>  BY <1>11 DEF DeleteChannel
    <2> QED  BY <1>1, <1>6, <2>1
  \* The members of one channel are others.
  <1>12. ASSUME NEW o \in 1..n, NEW M, chans' = [chans EXCEPT ![o].members = M]
         PROVE  /\ DOMAIN chans' = 1..n
                /\ \A e \in 1..n : chans'[e].limit = chans[e].limit
                                   /\ (e # o => chans'[e].members = chans[e].members)
                /\ chans'[o].members = M
    BY <1>1, <1>12 DEF ChannelRecord
  <1>13. CASE RemoveFromAll
    <2>1. PICK c \in Members : /\ chans' = [chans EXCEPT ![named].members = @ \ {c}]
                               /\ jobs' = Without(c, named)
      BY <1>13 DEF RemoveFromAll
    <2>2. named \in 1..n  BY <1>1, <1>13 DEF RemoveFromAll, ManagedShape, n
    <2>3. chans' = [chans EXCEPT ![named].members = chans[named].members \ {c}]  BY <2>1
    <2>4. \A t \in Callers : jobs'[t].at = "insert" => jobs'[t] = jobs[t]
      <3> DEFINE p == Len(published)
      <3>1. p \in Nat /\ \A t \in Callers : JobFits(jobs[t], n, p)  BY <1>1, ManagedParts
      <3> HIDE DEF p
      <3>2. \A t \in Callers : /\ Without(c, named)[t].at = jobs[t].at
                               /\ jobs[t].at # "send" => Without(c, named)[t] = jobs[t]
        BY <1>1, <3>1, WithoutFits
      <3> QED  BY <2>1, <3>2
    <2>5. raced' = raced  BY <1>13 DEF RemoveFromAll
    <2>6. PICK M : M \subseteq chans[named].members /\ chans' = [chans EXCEPT ![named].members = M]
      BY <2>3
    <2>7. /\ DOMAIN chans' = 1..n
          /\ \A e \in 1..n : /\ chans'[e].limit = chans[e].limit
                             /\ chans'[e].members \subseteq chans[e].members
      BY <1>12, <2>2, <2>6
    <2> QED  BY <1>6, <2>4, <2>5, <2>7
  <1>14. ASSUME NEW t \in Callers, NEW x, x.at # "insert", Do(t, x),
                UNCHANGED <<chans, raced>>
         PROVE  LimitKept'
    BY <1>1, <1>6, <1>14 DEF Do
  <1>15. ASSUME NEW t \in Callers, StartJob(t) PROVE LimitKept'
    <2>1. PICK x : Do(t, x) /\ x.at # "insert"  BY <1>15 DEF StartJob
    <2> QED  BY <1>14, <1>15, <2>1 DEF StartJob, historyOfChannels
  <1>16. ASSUME NEW t \in Callers, LookUpName(t) PROVE LimitKept'
    <2>1. jobs[t] \in Asking  BY <1>1, <1>16, AtTells DEF LookUpName
    <2>2. named # 0 => named \in 1..n  BY <1>1 DEF ManagedShape, n
    <2>3. named # 0 => Found(jobs[t], named).at # "insert"  BY <1>1, <2>1, <2>2, FoundFits
    <2>4. PICK x : Do(t, x) /\ x.at # "insert"  BY <1>16, <2>3 DEF LookUpName, Free
    <2> QED  BY <1>14, <1>16, <2>4 DEF LookUpName, historyOfChannels
  <1>17. ASSUME NEW t \in Callers, CreateOnDemand(t) PROVE LimitKept'
    <2>1. /\ chans' = Append(chans, Channel(NoLimit, DefaultSize))
          /\ jobs' = [jobs EXCEPT ![t] = Found(jobs[t], n + 1)] /\ raced' = raced
      BY <1>17 DEF CreateOnDemand, Do, n
    <2>2. Channel(NoLimit, DefaultSize) \in ChannelRecord /\ Channel(NoLimit, DefaultSize).members = {}
      BY <1>8, ManagedAssumption
    <2>3. jobs[t] \in Asking  BY <1>1, <1>17, AtTells DEF CreateOnDemand
    <2>4. n + 1 \in Nat /\ n + 1 \in 1..(n + 1)  BY <1>1
    <2>5. Found(jobs[t], n + 1).at # "insert"  BY <2>3, <2>4, FoundFits
    <2>6. \A u \in Callers : jobs'[u].at = "insert" => jobs'[u] = jobs[u]  BY <1>1, <2>1, <2>5
    <2> QED  BY <1>7, <1>9, <2>1, <2>2, <2>6
  <1>18. ASSUME NEW t \in Callers, CheckLimit(t) PROVE LimitKept'
    <2> DEFINE o == jobs[t].on
    <2>1. CASE Full(o)
      <3>1. Do(t, Free) /\ UNCHANGED <<chans, raced>>  BY <1>18, <2>1 DEF CheckLimit
      <3> QED  BY <1>14, <3>1 DEF Free
    <2>2. CASE ~Full(o)
      <3>1. /\ jobs' = [jobs EXCEPT ![t].at = "insert"] /\ chans' = chans
            /\ raced' = IF \E u \in Callers \ {t} : jobs[u].at = "insert" /\ jobs[u].on = o
                        THEN raced \cup {o} ELSE raced
        BY <1>1, <1>18, <2>2 DEF CheckLimit, Do
      <3>2. jobs[t] \in Holding(n)  BY <1>1, <1>18, AtTells DEF CheckLimit
      <3>3. o \in 1..n  BY <3>2 DEF Holding
      <3>4. jobs'[t].at = "insert" /\ jobs'[t].on = o /\ \A u \in Callers : u # t => jobs'[u] = jobs[u]
        BY <1>1, <3>1, <3>2 DEF Holding
      <3>5. \A e : e # o => Joining(jobs', e) = Joining(jobs, e)
        BY <1>18, <3>4 DEF Joining, CheckLimit
      <3>6. ASSUME NEW e \in 1..n, e # o PROVE Room(chans'[e], jobs', raced', e)
        <4>1. Room(chans[e], jobs, raced, e)  BY <1>1, <3>6 DEF LimitKept
        <4>2. e \in raced' <=> e \in raced  BY <3>1, <3>6
        <4> QED  BY <3>1, <3>5, <3>6, <4>1, <4>2 DEF Room
      <3>7. Room(chans'[o], jobs', raced', o)
        <4> HIDE DEF o
        <4>1. CASE chans[o].limit = NoLimit  BY <3>1, <4>1 DEF Room
        <4>2. CASE chans[o].limit # NoLimit
          <5> DEFINE a == Cardinality(chans[o].members)
                     b == Cardinality(Joining(jobs', o))
          <5>1. a \in Nat /\ chans[o].limit \in Nat /\ a < chans[o].limit
            BY <1>4, <2>2, <3>3, <4>2 DEF Full, o
          <5>2. Joining(jobs', o) \subseteq Callers  BY DEF Joining
          <5>3. b \in Nat /\ b <= Cardinality(Callers)  BY <1>2, <5>2
          <5>4. CASE o \in raced'
            <6>1. a + b <= chans[o].limit + (Cardinality(Callers) - 1)
              <7> HIDE DEF a, b
              <7> QED  BY <1>2, <5>1, <5>3
            <6> QED  BY <3>1, <5>4, <6>1 DEF Room
          <5>5. CASE o \notin raced'
            <6>1. Joining(jobs', o) = {t}
              BY <3>1, <3>4, <5>5 DEF Joining
            <6>2. b = 1  BY <6>1, FS_Singleton
            <6>3. a + b <= chans[o].limit + 0
              <7> HIDE DEF a, b
              <7> QED  BY <5>1, <6>2
            <6> QED  BY <3>1, <5>5, <6>3 DEF Room
          <5> QED  BY <5>4, <5>5
        <4> QED  BY <4>1, <4>2
      <3> QED  BY <1>1, <3>1, <3>6, <3>7 DEF LimitKept
    <2> QED  BY <2>1, <2>2
  <1>19. ASSUME NEW t \in Callers, Insert(t) PROVE LimitKept'
    <2> DEFINE o == jobs[t].on
               M == chans[o].members \cup {jobs[t].who}
    <2>1. jobs[t] \in Holding(n) /\ jobs[t].at = "insert"  BY <1>1, <1>19, AtTells DEF Insert
    <2>2. o \in 1..n  BY <2>1 DEF Holding
    <2>3. /\ chans' = [chans EXCEPT ![o].members = M] /\ raced' = raced
          /\ jobs' = [jobs EXCEPT ![t].at = "recall"]
      BY <1>1, <1>19 DEF Insert, Do, historyOfChannels
    <2>4. jobs'[t].at = "recall" /\ \A u \in Callers : u # t => jobs'[u] = jobs[u]
      BY <1>1, <2>1, <2>3 DEF Holding
    <2>a. \A u \in Callers : jobs'[u].at = "insert" => jobs'[u] = jobs[u]  BY <2>4
    <2>5. t \in Joining(jobs, o) /\ Joining(jobs', o) = Joining(jobs, o) \ {t}
      BY <2>1, <2>4 DEF Joining
    <2> HIDE DEF o, M
    <2>6. /\ DOMAIN chans' = 1..n
          /\ \A e \in 1..n : chans'[e].limit = chans[e].limit
                             /\ (e # o => chans'[e].members = chans[e].members)
          /\ chans'[o].members = M
      BY <1>12, <2>2, <2>3
    <2>7. \A e \in 1..n : e # o => Room(chans'[e], jobs', raced', e)
      BY <1>5, <2>a, <2>3, <2>6
    <2>8. Room(chans'[o], jobs', raced', o)
      <3>1. CASE chans[o].limit = NoLimit  BY <2>2, <2>6, <3>1 DEF Room
      <3>2. CASE chans[o].limit # NoLimit
        <4> DEFINE a == Cardinality(chans[o].members)
                   b == Cardinality(Joining(jobs, o))
                   a2 == Cardinality(M)
                   b2 == Cardinality(Joining(jobs', o))
                   r == IF o \in raced THEN Cardinality(Callers) - 1 ELSE 0
        <4>1. /\ a \in Nat /\ b \in Nat /\ r \in Int
              /\ chans[o].limit \in Nat /\ a + b <= chans[o].limit + r
          <5>1. Room(chans[o], jobs, raced, o)  BY <1>1, <2>2 DEF LimitKept
          <5>2. r \in Int  BY <1>2
          <5> QED  BY <1>3, <1>4, <2>2, <3>2, <5>1, <5>2 DEF Room
        <4>2. b2 \in Int /\ b2 = b - 1
          <5>1. b2 = b - 1  BY <1>3, <2>5, FS_RemoveElement
          <5> QED  BY <4>1, <5>1
        <4>3. a2 \in Nat /\ a2 <= a + 1
          <5>1. a2 = a \/ a2 = a + 1  BY <1>4, <2>2, FS_AddElement DEF M
          <5> QED  BY <4>1, <5>1
        <4>4. a2 + b2 <= chans[o].limit + r
          <5> HIDE DEF a, b, a2, b2, r
          <5> QED  BY <4>1, <4>2, <4>3
        <4> QED  BY <2>2, <2>3, <2>6, <4>4 DEF Room
      <3> QED  BY <3>1, <3>2
    <2> QED  BY <2>6, <2>7, <2>8 DEF LimitKept
  <1>20. ASSUME NEW t \in Callers, Recall(t) PROVE LimitKept'
    <2>1. Do(t, Free) /\ UNCHANGED <<chans, raced>>  BY <1>20 DEF Recall
    <2> QED  BY <1>14, <2>1 DEF Free
  <1>21. ASSUME NEW t \in Callers, Leave(t) PROVE LimitKept'
    <2> DEFINE o == jobs[t].on
               c == jobs[t].who
    <2>1. jobs[t] \in Holding(n)  BY <1>1, <1>21, AtTells DEF Leave
    <2>2. o \in 1..n  BY <2>1 DEF Holding
    <2>3. /\ chans' = [chans EXCEPT ![o].members = chans[o].members \ {c}]
          /\ jobs' = [Without(c, o) EXCEPT ![t] = Free] /\ raced' = raced
      BY <1>21 DEF Leave
    <2>4. \A u \in Callers : jobs'[u].at = "insert" => jobs'[u] = jobs[u]
      <3> DEFINE p == Len(published)
      <3>1. p \in Nat /\ \A u \in Callers : JobFits(jobs[u], n, p)  BY <1>1, ManagedParts
      <3> HIDE DEF p, o, c
      <3>2. /\ DOMAIN Without(c, o) = Callers
            /\ \A u \in Callers : /\ Without(c, o)[u].at = jobs[u].at
                                  /\ jobs[u].at # "send" => Without(c, o)[u] = jobs[u]
        BY <1>1, <3>1, WithoutFits
      <3> QED  BY <2>3, <3>2 DEF Free
    <2> HIDE DEF o, c
    <2>6. PICK M : M \subseteq chans[o].members /\ chans' = [chans EXCEPT ![o].members = M]
      BY <2>3
    <2>7. /\ DOMAIN chans' = 1..n
          /\ \A e \in 1..n : /\ chans'[e].limit = chans[e].limit
                             /\ chans'[e].members \subseteq chans[e].members
      BY <1>12, <2>2, <2>6
    <2> QED  BY <1>6, <2>3, <2>4, <2>7
  <1>22. ASSUME NEW t \in Callers, Push(t) PROVE LimitKept'
    <2> DEFINE o == jobs[t].on
    <2>1. jobs[t] \in Holding(n)  BY <1>1, <1>22, AtTells DEF Push
    <2>2. o \in 1..n  BY <2>1 DEF Holding
    <2>3. PICK h, x : chans' = [chans EXCEPT ![o].history = h] /\ Do(t, x) /\ x.at = "send"
      <3> DEFINE h1 == Append(chans[o].history, Len(published) + 1)
                 h2 == IF chans[o].size = 0 THEN chans[o].history
                       ELSE IF Len(h1) > chans[o].size THEN Tail(h1) ELSE h1
      <3>1. chans' = [chans EXCEPT ![o].history = h2]  BY <1>22 DEF Push
      <3>2. \E x : Do(t, x) /\ x.at = "send"  BY <1>22 DEF Push
      <3> HIDE DEF h2
      <3> QED  BY <3>1, <3>2
    <2>4. raced' = raced  BY <1>22 DEF Push
    <2>5. /\ DOMAIN chans' = 1..n
          /\ \A e \in 1..n : chans'[e].limit = chans[e].limit /\ chans'[e].members = chans[e].members
      <3> HIDE DEF o
      <3> QED  BY <1>1, <2>2, <2>3 DEF ChannelRecord
    <2>6. \A u \in Callers : jobs'[u].at = "insert" => jobs'[u] = jobs[u]  BY <1>1, <2>3 DEF Do
    <2> QED  BY <1>6, <2>4, <2>5, <2>6
  <1>23. ASSUME NEW t \in Callers, SendOne(t) PROVE LimitKept'
    <2>1. jobs[t] \in Sending(n, Len(published))  BY <1>1, <1>23, AtTells DEF SendOne
    <2>2. PICK c : Do(t, [jobs[t] EXCEPT !.visited = @ \cup {c}])  BY <1>23 DEF SendOne
    <2>3. [jobs[t] EXCEPT !.visited = @ \cup {c}].at # "insert"  BY <2>1 DEF Sending
    <2> QED  BY <1>14, <1>23, <2>2, <2>3 DEF SendOne, historyOfChannels
  <1>24. ASSUME NEW t \in Callers, EndPublish(t) PROVE LimitKept'
    <2>1. Do(t, Free) /\ UNCHANGED <<chans, raced>>  BY <1>24 DEF EndPublish
    <2> QED  BY <1>14, <2>1 DEF Free
  <1> QED  BY <1>10, <1>11, <1>13, <1>15, <1>16, <1>17, <1>18, <1>19, <1>20, <1>21, <1>22, <1>23, <1>24
        DEF ManagedNext

\* The name: whoever is about to make a channel while there is one has another
\* that came while it was.
LEMMA NameStays ==
  ASSUME ManagedShape, NameKept, ManagedNext
  PROVE  NameKept'
  <1>1. /\ Len(chans) \in Nat /\ DOMAIN jobs = Callers
        /\ \A t \in Callers : JobFits(jobs[t], Len(chans), Len(published))
        /\ Len(published) \in Nat /\ named \in 0..Len(chans)
    BY ManagedParts DEF ManagedShape
  <1>2. /\ named # 0 /\ (\E t \in Callers : jobs[t].at = "create") => named \in amid
        /\ \A p \in parted : p.how = "overlapped" => p.channel \in amid
    BY DEF NameKept, NamesLostByOverlap
  \* Nobody has come to the point of making one.
  <1>3. ASSUME UNCHANGED <<named, parted, amid>>,
               \A t \in Callers : jobs'[t].at = "create" => jobs[t].at = "create"
        PROVE  NameKept'
    BY <1>2, <1>3 DEF NameKept, NamesLostByOverlap
  <1>4. ASSUME NEW t \in Callers, NEW x, x.at # "create", Do(t, x), UNCHANGED <<named, parted, amid>>
        PROVE  NameKept'
    BY <1>1, <1>3, <1>4 DEF Do
  \* The name stands for another channel.
  <1>5. ASSUME NEW o, NEW how, NEW others, Rename(o, how, others),
               how = "overlapped" => named = 0 \/ named \in amid,
               o # 0 /\ (\E t \in Callers : jobs'[t].at = "create") => others # {}
        PROVE  NameKept'
    <2>1. named' = o /\ amid \subseteq amid' /\ (o # 0 /\ others # {} => o \in amid')
      BY <1>5 DEF Rename
    <2>2. parted' = parted \/ (named # 0 /\ parted' = parted \cup {[channel |-> named, how |-> how]})
      BY <1>5 DEF Rename
    <2>3. \A p \in parted' : p.how = "overlapped" => p.channel \in amid'
      BY <1>2, <1>5, <2>1, <2>2
    <2> QED  BY <1>5, <2>1, <2>3 DEF NameKept, NamesLostByOverlap
  <1>6. CASE CreateChannel
    <2>1. Rename(Len(chans) + 1, "declared", Creating) /\ jobs' = jobs  BY <1>6 DEF CreateChannel
    <2>2. (\E t \in Callers : jobs'[t].at = "create") => Creating # {}  BY <2>1 DEF Creating
    <2> QED  BY <1>5, <2>1, <2>2
  <1>7. CASE DeleteChannel
    <2>1. Rename(0, "deleted", {})  BY <1>7 DEF DeleteChannel
    <2> QED  BY <1>5, <2>1
  <1>8. ASSUME NEW c, NEW o, NEW t \in Callers
        PROVE  /\ DOMAIN Without(c, o) = Callers /\ Without(c, o)[t].at = jobs[t].at
    <2> DEFINE n == Len(chans)
               p == Len(published)
    <2>1. n \in Nat /\ p \in Nat /\ \A u \in Callers : JobFits(jobs[u], n, p)  BY <1>1
    <2> HIDE DEF n, p
    <2> QED  BY <1>1, <2>1, WithoutFits
  <1>9. CASE RemoveFromAll
    <2>1. UNCHANGED <<named, parted, amid>> /\ \E c \in Members : jobs' = Without(c, named)
      BY <1>9 DEF RemoveFromAll
    <2> QED  BY <1>3, <1>8, <2>1
  <1>10. ASSUME NEW t \in Callers, StartJob(t) PROVE NameKept'
    <2>1. PICK x : Do(t, x) /\ x.at # "create"  BY <1>10 DEF StartJob
    <2> QED  BY <1>4, <1>10, <2>1 DEF StartJob, historyOfChannels
  <1>11. ASSUME NEW t \in Callers, LookUpName(t) PROVE NameKept'
    <2>1. jobs[t] \in Asking  BY <1>1, <1>11, AtTells DEF LookUpName
    <2>2. UNCHANGED <<named, parted, amid>>  BY <1>11 DEF LookUpName, historyOfChannels
    <2>3. CASE named = 0  BY <1>2, <2>2, <2>3 DEF NameKept, NamesLostByOverlap
    <2>4. CASE named # 0
      <3>1. named \in 1..Len(chans)  BY <1>1, <2>4
      <3>2. Found(jobs[t], named).at # "create"  BY <1>1, <2>1, <3>1, FoundFits
      <3>3. Do(t, Found(jobs[t], named))  BY <1>11, <2>4 DEF LookUpName
      <3> QED  BY <1>4, <2>2, <3>2, <3>3
    <2> QED  BY <2>3, <2>4
  <1>12. ASSUME NEW t \in Callers, CreateOnDemand(t) PROVE NameKept'
    <2> DEFINE n1 == Len(chans) + 1
    <2>1. jobs[t].at = "create" /\ Rename(n1, "overlapped", Creating \ {t}) /\ Do(t, Found(jobs[t], n1))
      BY <1>12 DEF CreateOnDemand
    <2>2. jobs[t] \in Asking  BY <1>1, <1>12, AtTells DEF CreateOnDemand
    <2>3. n1 \in Nat /\ n1 \in 1..n1 /\ n1 # 0  BY <1>1
    <2> HIDE DEF n1
    <2>4. Found(jobs[t], n1).at # "create"  BY <2>2, <2>3, FoundFits
    <2>5. (\E u \in Callers : jobs'[u].at = "create") => Creating \ {t} # {}
      BY <1>1, <2>1, <2>4 DEF Creating, Do
    <2>6. named = 0 \/ named \in amid  BY <1>2, <2>1
    <2> QED  BY <1>5, <2>1, <2>5, <2>6
  <1>13. ASSUME NEW t \in Callers, CheckLimit(t) PROVE NameKept'
    <2>1. jobs[t] \in Holding(Len(chans))  BY <1>1, <1>13, AtTells DEF CheckLimit
    <2> DEFINE y == [jobs[t] EXCEPT !.at = "insert"]
    <2>2. y.at # "create" /\ Free.at # "create"  BY <2>1 DEF Holding, Free
    <2>a. Do(t, Free) \/ Do(t, y)  BY <1>13 DEF CheckLimit
    <2> HIDE DEF y
    <2>3. PICK x : Do(t, x) /\ x.at # "create"  BY <2>2, <2>a
    <2> QED  BY <1>4, <1>13, <2>3 DEF CheckLimit
  <1>14. ASSUME NEW t \in Callers, Insert(t) PROVE NameKept'
    <2>1. jobs[t] \in Holding(Len(chans))  BY <1>1, <1>14, AtTells DEF Insert
    <2>2. [jobs[t] EXCEPT !.at = "recall"].at # "create"  BY <2>1 DEF Holding
    <2>3. Do(t, [jobs[t] EXCEPT !.at = "recall"]) /\ UNCHANGED <<named, parted, amid>>
      BY <1>14 DEF Insert, historyOfChannels
    <2> QED  BY <1>4, <2>2, <2>3
  <1>15. ASSUME NEW t \in Callers, Recall(t) PROVE NameKept'
    <2>1. Do(t, Free) /\ UNCHANGED <<named, parted, amid>>  BY <1>15 DEF Recall
    <2> QED  BY <1>4, <2>1 DEF Free
  <1>16. ASSUME NEW t \in Callers, Leave(t) PROVE NameKept'
    <2>1. /\ jobs' = [Without(jobs[t].who, jobs[t].on) EXCEPT ![t] = Free]
          /\ UNCHANGED <<named, parted, amid>>
      BY <1>16 DEF Leave
    <2>2. \A u \in Callers : jobs'[u].at = "create" => jobs[u].at = "create"
      BY <1>8, <2>1 DEF Free
    <2> QED  BY <1>3, <2>1, <2>2
  <1>17. ASSUME NEW t \in Callers, Push(t) PROVE NameKept'
    <2>1. PICK x : Do(t, x) /\ x.at # "create"  BY <1>17 DEF Push
    <2> QED  BY <1>4, <1>17, <2>1 DEF Push
  <1>18. ASSUME NEW t \in Callers, SendOne(t) PROVE NameKept'
    <2>1. jobs[t] \in Sending(Len(chans), Len(published))  BY <1>1, <1>18, AtTells DEF SendOne
    <2>2. PICK c : Do(t, [jobs[t] EXCEPT !.visited = @ \cup {c}])  BY <1>18 DEF SendOne
    <2>3. [jobs[t] EXCEPT !.visited = @ \cup {c}].at # "create"  BY <2>1 DEF Sending
    <2>4. UNCHANGED <<named, parted, amid>>  BY <1>18 DEF SendOne, historyOfChannels
    <2> QED  BY <1>4, <2>2, <2>3, <2>4
  <1>19. ASSUME NEW t \in Callers, EndPublish(t) PROVE NameKept'
    <2>1. Do(t, Free) /\ UNCHANGED <<named, parted, amid>>  BY <1>19 DEF EndPublish
    <2> QED  BY <1>4, <2>1 DEF Free
  <1> QED  BY <1>6, <1>7, <1>9, <1>10, <1>11, <1>12, <1>13, <1>14, <1>15, <1>16, <1>17, <1>18, <1>19
        DEF ManagedNext

\* A strictly ascending sequence is as long as it has elements.
LEMMA AscendingSize ==
  ASSUME NEW h \in Seq(Nat), \A i, k \in DOMAIN h : i < k => h[i] < h[k]
  PROVE  IsFiniteSet(Range(h)) /\ Cardinality(Range(h)) = Len(h)
  <1>1. Len(h) \in Nat /\ DOMAIN h = 1..Len(h)  OBVIOUS
  <1>2. \A i \in 1..Len(h) : h[i] \in Nat  BY ElementOfSeq
  <1>3. h \in Bijection(1..Len(h), Range(h))
    <2>1. Range(h) = {h[i] : i \in 1..Len(h)}  BY <1>1 DEF Range
    <2>2. h \in [1..Len(h) -> Range(h)]  BY <1>1, <2>1
    <2>3. \A i, k \in 1..Len(h) : h[i] = h[k] => i = k  BY <1>1, <1>2
    <2>4. \A y \in Range(h) : \E i \in 1..Len(h) : h[i] = y  BY <2>1
    <2> QED  BY <2>2, <2>3, <2>4 DEF Bijection, Injection, Surjection, IsInjective
  <1>4. IsFiniteSet(1..Len(h)) /\ Cardinality(1..Len(h)) = Len(h)
    <2>1. 1 \in Int /\ Len(h) \in Int  BY <1>1
    <2>2. Cardinality(1..Len(h)) = IF 1 > Len(h) THEN 0 ELSE Len(h) - 1 + 1
      BY <2>1, FS_Interval
    <2> QED  BY <1>1, <2>1, <2>2, FS_Interval
  <1>5. ExistsBijection(1..Len(h), Range(h))  BY <1>3 DEF ExistsBijection
  <1> DEFINE S == 1..Len(h)
             T == Range(h)
  <1>6. IsFiniteSet(S) /\ ExistsBijection(S, T)  BY <1>4, <1>5
  <1> HIDE DEF S, T
  <1>7. IsFiniteSet(T) /\ Cardinality(T) = Cardinality(S)  BY <1>6, FS_Bijection
  <1> QED  BY <1>4, <1>7 DEF S, T

\* The messages of a channel up to a time are among finitely many.
LEMMA AboutFinite ==
  ASSUME NEW pub, NEW o, NEW a \in Nat, NEW b \in Nat
  PROVE  IsFiniteSet(About(pub, o, a..b)) /\ Cardinality(About(pub, o, a..b)) \in Nat
  <1>1. About(pub, o, a..b) \subseteq a..b  BY DEF About
  <1>2. IsFiniteSet(a..b)  BY FS_Interval
  <1> QED  BY <1>1, <1>2, FS_Subset, FS_CardinalityType

\* A history stays right as another message comes, of its channel or not, or as one
\* is over: what is about a channel up to then is the same.
LEMMA RecallsStay ==
  ASSUME NEW h, NEW size, NEW pub, NEW pub2, NEW o, NEW upto \in Nat,
         \A m \in 1..upto : pub2[m].on = pub[m].on, Recalls(h, size, pub, o, upto)
  PROVE  Recalls(h, size, pub2, o, upto)
  <1>1. ASSUME NEW m \in 1..upto
        PROVE  About(pub2, o, (m + 1)..upto) = About(pub, o, (m + 1)..upto)
    <2>1. (m + 1)..upto \subseteq 1..upto  OBVIOUS
    <2> QED  BY <2>1 DEF About
  <1> QED  BY <1>1 DEF Recalls

LEMMA OtherComes ==
  ASSUME NEW h, NEW size, NEW pub, NEW pub2, NEW o, NEW p \in Nat,
         Len(pub) = p, Len(pub2) = p + 1,
         \A m \in 1..p : pub2[m].on = pub[m].on, pub2[p + 1].on # o, HistoryFits(h, size, pub, o)
  PROVE  HistoryFits(h, size, pub2, o)
  <1>1. /\ \A i \in DOMAIN h : h[i] \in 1..p /\ pub[h[i]].on = o
        /\ \A i, k \in DOMAIN h : i < k => h[i] < h[k]
        /\ Recalls(h, size, pub, o, p)
    BY DEF HistoryFits
  <1>2. \A i \in DOMAIN h : h[i] \in 1..(p + 1) /\ pub2[h[i]].on = o
    BY <1>1
  <1>3. Recalls(h, size, pub2, o, p)  BY <1>1, RecallsStay
  <1>4. ASSUME NEW m \in 1..(p + 1), pub2[m].on = o
        PROVE  m \in Range(h) \/ Cardinality(About(pub2, o, (m + 1)..(p + 1))) >= size
    <2>1. m \in 1..p  BY <1>4
    <2>2. About(pub2, o, (m + 1)..(p + 1)) = About(pub2, o, (m + 1)..p)
      <3>1. \A n \in (m + 1)..(p + 1) : n \in (m + 1)..p \/ n = p + 1  BY <2>1
      <3>2. (m + 1)..p \subseteq (m + 1)..(p + 1)  BY <2>1
      <3> QED  BY <3>1, <3>2 DEF About
    <2>3. m \in Range(h) \/ Cardinality(About(pub2, o, (m + 1)..p)) >= size
      BY <1>3, <1>4, <2>1 DEF Recalls
    <2> QED  BY <2>2, <2>3
  <1> QED  BY <1>1, <1>2, <1>4 DEF HistoryFits, Recalls

\* The message itself: the oldest goes only if there are as many that came after.
Pushed(h, size, m) ==
  IF size = 0 THEN h ELSE IF Len(Append(h, m)) > size THEN Tail(Append(h, m)) ELSE Append(h, m)
LEMMA OneComes ==
  ASSUME NEW h \in Seq(Nat), NEW size \in Nat, NEW pub, NEW pub2, NEW o, NEW p \in Nat,
         Len(pub) = p, Len(pub2) = p + 1,
         \A m \in 1..p : pub2[m].on = pub[m].on, pub2[p + 1].on = o, HistoryFits(h, size, pub, o)
  PROVE  HistoryFits(Pushed(h, size, p + 1), size, pub2, o)
  <1>1. /\ \A i \in DOMAIN h : h[i] \in 1..p /\ pub[h[i]].on = o
        /\ \A i, k \in DOMAIN h : i < k => h[i] < h[k]
        /\ Recalls(h, size, pub, o, p)
        /\ Len(h) \in Nat /\ DOMAIN h = 1..Len(h)
    BY DEF HistoryFits
  <1> DEFINE n == Len(h)
             g == Append(h, p + 1)
  <1>2. /\ g \in Seq(Nat) /\ Len(g) = n + 1 /\ DOMAIN g = 1..(n + 1) /\ g[n + 1] = p + 1
        /\ \A i \in 1..n : g[i] = h[i]
    BY <1>1
  <1>3. \A i \in DOMAIN g : g[i] \in 1..(p + 1) /\ pub2[g[i]].on = o
    <2>1. \A i \in 1..(n + 1) : i \in 1..n \/ i = n + 1  BY <1>1
    <2>2. \A m \in 1..p : m \in 1..(p + 1)  OBVIOUS
    <2>3. p + 1 \in 1..(p + 1)  OBVIOUS
    <2> QED  BY <1>1, <1>2, <2>1, <2>2, <2>3
  <1>4. \A i, k \in DOMAIN g : i < k => g[i] < g[k]
    <2>1. ASSUME NEW i \in 1..(n + 1), NEW k \in 1..(n + 1), i < k PROVE g[i] < g[k]
      <3>1. i \in 1..n  BY <1>1, <2>1
      <3>2. g[i] \in 1..p /\ g[i] = h[i]  BY <1>1, <1>2, <3>1
      <3>3. CASE k = n + 1  BY <1>2, <3>2, <3>3
      <3>4. CASE k # n + 1
        <4>1. k \in 1..n  BY <1>1, <3>4
        <4> QED  BY <1>1, <1>2, <2>1, <3>1, <3>2, <4>1
      <3> QED  BY <3>3, <3>4
    <2> QED  BY <1>2, <2>1
  <1>5. Recalls(h, size, pub2, o, p)  BY <1>1, RecallsStay
  <1>6. \A m \in 1..(p + 1) : About(pub2, o, (m + 1)..(p + 1)) =
                                 IF m <= p THEN About(pub2, o, (m + 1)..p) \cup {p + 1} ELSE {}
    <2>1. TAKE m \in 1..(p + 1)
    <2>2. CASE m <= p
      <3>1. \A e \in (m + 1)..(p + 1) : e \in (m + 1)..p \/ e = p + 1  BY <2>2
      <3>2. (m + 1)..p \subseteq (m + 1)..(p + 1) /\ p + 1 \in (m + 1)..(p + 1)  BY <2>2
      <3> QED  BY <2>2, <3>1, <3>2 DEF About
    <2>3. CASE ~(m <= p)
      <3>1. (m + 1)..(p + 1) = {}  BY <2>3
      <3> QED  BY <2>3, <3>1 DEF About
    <2> QED  BY <2>2, <2>3
  \* Enough later ones stay enough.
  <1>7. ASSUME NEW m \in 1..p, Cardinality(About(pub2, o, (m + 1)..p)) >= size
        PROVE  Cardinality(About(pub2, o, (m + 1)..(p + 1))) >= size
    <2>1. m + 1 \in Nat /\ m \in 1..(p + 1) /\ m <= p  OBVIOUS
    <2> DEFINE A == About(pub2, o, (m + 1)..p)
    <2>2. IsFiniteSet(A) /\ Cardinality(A) \in Nat
      <3> DEFINE a == m + 1
      <3>1. a \in Nat  OBVIOUS
      <3> HIDE DEF a
      <3>2. IsFiniteSet(About(pub2, o, a..p)) /\ Cardinality(About(pub2, o, a..p)) \in Nat
        BY <3>1, AboutFinite
      <3> QED  BY <3>2 DEF a
    <2>3. About(pub2, o, (m + 1)..(p + 1)) = A \cup {p + 1}  BY <1>6, <2>1
    <2> HIDE DEF A
    <2>4. Cardinality(A \cup {p + 1}) = Cardinality(A) \/ Cardinality(A \cup {p + 1}) = Cardinality(A) + 1
      BY <2>2, FS_AddElement
    <2>5. Cardinality(A) >= size  BY <1>7 DEF A
    <2>6. Cardinality(A \cup {p + 1}) >= size  BY <2>2, <2>4, <2>5
    <2> QED  BY <2>3, <2>6
  <1>8. CASE size = 0
    <2>1. Pushed(h, size, p + 1) = h  BY <1>8 DEF Pushed
    <2>2. \A i \in DOMAIN h : h[i] \in 1..(p + 1) /\ pub2[h[i]].on = o  BY <1>1
    <2>3. \A m \in 1..(p + 1) : Cardinality(About(pub2, o, (m + 1)..(p + 1))) >= size
      <3>1. TAKE m \in 1..(p + 1)
      <3> DEFINE a == m + 1
                 b == p + 1
      <3>2. a \in Nat /\ b \in Nat  OBVIOUS
      <3> HIDE DEF a, b
      <3>3. Cardinality(About(pub2, o, a..b)) \in Nat  BY <3>2, AboutFinite
      <3> QED  BY <1>8, <3>3 DEF a, b
    <2> QED  BY <1>1, <2>1, <2>2, <2>3 DEF HistoryFits, Recalls
  \* The history with the message, before the oldest goes.
  <1>9. ASSUME NEW m \in 1..(p + 1), pub2[m].on = o
        PROVE  m \in Range(g) \/ Cardinality(About(pub2, o, (m + 1)..(p + 1))) >= size
    <2>1. CASE m = p + 1
      <3>1. n + 1 \in DOMAIN g /\ g[n + 1] = m  BY <1>1, <1>2, <2>1
      <3> QED  BY <3>1 DEF Range
    <2>2. CASE m # p + 1
      <3>1. m \in 1..p  BY <2>2
      <3>2. m \in Range(h) \/ Cardinality(About(pub2, o, (m + 1)..p)) >= size
        BY <1>5, <1>9, <3>1 DEF Recalls
      <3>3. Range(h) \subseteq Range(g)
        <4>1. \A i \in DOMAIN h : i \in DOMAIN g /\ g[i] = h[i]  BY <1>1, <1>2
        <4> QED  BY <4>1 DEF Range
      <3> QED  BY <1>7, <3>1, <3>2, <3>3
    <2> QED  BY <2>1, <2>2
  <1>10. CASE size # 0 /\ ~(Len(g) > size)
    <2>1. Pushed(h, size, p + 1) = g  BY <1>10 DEF Pushed
    <2> HIDE DEF g
    <2>2. HistoryFits(g, size, pub2, o)  BY <1>3, <1>4, <1>9 DEF HistoryFits, Recalls
    <2> QED  BY <2>1, <2>2
  <1>11. CASE size # 0 /\ Len(g) > size
    <2> DEFINE q == Tail(g)
    <2>1. Pushed(h, size, p + 1) = q  BY <1>11 DEF Pushed
    <2>2. /\ q \in Seq(Nat) /\ Len(q) = n /\ DOMAIN q = 1..n /\ \A i \in 1..n : q[i] = g[i + 1]
      BY <1>1, <1>2
    <2>3. \A i \in 1..n : i + 1 \in DOMAIN g /\ i \in DOMAIN g  BY <1>1, <1>2
    <2> HIDE DEF g, q
    <2>4. \A i \in DOMAIN q : q[i] \in 1..(p + 1) /\ pub2[q[i]].on = o  BY <1>3, <2>2, <2>3
    <2>5. \A i, k \in DOMAIN q : i < k => q[i] < q[k]
      <3>1. TAKE i, k \in DOMAIN q
      <3>2. HAVE i < k
      <3>3. i \in 1..n /\ k \in 1..n /\ q[i] = g[i + 1] /\ q[k] = g[k + 1]  BY <2>2
      <3>4. i + 1 \in DOMAIN g /\ k + 1 \in DOMAIN g  BY <2>3, <3>3
      <3>5. i + 1 < k + 1  BY <1>1, <3>2, <3>3
      <3>6. g[i + 1] < g[k + 1]  BY <1>4, <3>4, <3>5
      <3> QED  BY <3>3, <3>6
    <2>6. ASSUME NEW m \in 1..(p + 1), pub2[m].on = o
          PROVE  m \in Range(q) \/ Cardinality(About(pub2, o, (m + 1)..(p + 1))) >= size
      <3>1. CASE \E i \in 1..n : m = g[i + 1]  BY <2>2, <3>1 DEF Range
      <3>2. CASE m = g[1]
        \* It went: the others of the history, n of them, came later.
        <4>1. Cardinality(Range(q)) = n /\ IsFiniteSet(Range(q))  BY <2>2, <2>5, AscendingSize
        <4>2. Range(q) \subseteq About(pub2, o, (m + 1)..(p + 1))
          <5>1. ASSUME NEW i \in 1..n PROVE q[i] \in About(pub2, o, (m + 1)..(p + 1))
            <6>1. 1 \in DOMAIN g /\ i + 1 \in DOMAIN g /\ 1 < i + 1  BY <1>1, <1>2
            <6>2. g[1] < g[i + 1]  BY <1>4, <6>1
            <6>3. q[i] \in 1..(p + 1) /\ pub2[q[i]].on = o /\ m < q[i]  BY <2>2, <2>4, <3>2, <6>2
            <6>4. q[i] \in (m + 1)..(p + 1)  BY <6>3
            <6> QED  BY <6>3, <6>4 DEF About
          <5> QED  BY <2>2, <5>1 DEF Range
        <4> DEFINE a == m + 1
                   b == p + 1
        <4>3. a \in Nat /\ b \in Nat  OBVIOUS
        <4> HIDE DEF a, b
        <4>4. IsFiniteSet(About(pub2, o, a..b)) /\ Cardinality(About(pub2, o, a..b)) \in Nat
          BY <4>3, AboutFinite
        <4>5. Range(q) \subseteq About(pub2, o, a..b)  BY <4>2 DEF a, b
        <4>6. Cardinality(Range(q)) <= Cardinality(About(pub2, o, a..b))  BY <4>4, <4>5, FS_Subset
        <4>7. n >= size
          <5>1. n + 1 > size  BY <1>2, <1>11
          <5> QED  BY <1>1, <5>1
        <4>8. Cardinality(About(pub2, o, a..b)) >= size
          <5> HIDE DEF n
          <5> QED  BY <1>1, <4>1, <4>4, <4>6, <4>7 DEF n
        <4> QED  BY <4>8 DEF a, b
      <3>3. CASE ~(\E i \in 1..n : m = g[i + 1]) /\ m # g[1]
        <4>1. m \notin Range(g)
          <5>1. \A i \in 1..(n + 1) : i = 1 \/ (i - 1 \in 1..n /\ i = (i - 1) + 1)  BY <1>1
          <5>2. ASSUME NEW i \in DOMAIN g PROVE g[i] # m
            <6>1. CASE i = 1  BY <3>3, <6>1
            <6>2. CASE i # 1
              <7>1. PICK k \in 1..n : i = k + 1  BY <1>2, <5>1, <6>2
              <7> QED  BY <3>3, <7>1
            <6> QED  BY <6>1, <6>2
          <5> QED  BY <5>2 DEF Range
        <4> QED  BY <1>9, <2>6, <4>1
      <3> QED  BY <3>1, <3>2, <3>3
    <2>7. HistoryFits(q, size, pub2, o)  BY <1>1, <2>4, <2>5, <2>6 DEF HistoryFits, Recalls
    <2> QED  BY <2>1, <2>7
  <1> QED  BY <1>8, <1>10, <1>11

\* A history is the latest messages, in order, as many as it is long.
LEMMA HistoriesStay ==
  ASSUME ManagedShape, HistoriesFit, ManagedNext
  PROVE  HistoriesFit'
  <1> DEFINE n == Len(chans)
             p == Len(published)
  <1>1. /\ n \in Nat /\ DOMAIN chans = 1..n /\ chans \in Seq(ChannelRecord)
        /\ p \in Nat /\ DOMAIN published = 1..p
        /\ published \in Seq([on : Nat, by : Members, over : BOOLEAN])
        /\ DOMAIN jobs = Callers /\ \A t \in Callers : JobFits(jobs[t], n, p)
        /\ \A o \in 1..n : chans[o] \in ChannelRecord
        /\ \A m \in 1..p : published[m] \in [on : Nat, by : Members, over : BOOLEAN]
    BY ManagedParts DEF ManagedShape
  <1>2. /\ \A o \in 1..n : HistoryFits(chans[o].history, chans[o].size, published, o)
        /\ \A m \in 1..p : published[m].on \in 1..n
    BY <1>1 DEF HistoriesFit
  <1> HIDE DEF n, p
  \* The same messages, and histories.
  <1>3. ASSUME published' = published, DOMAIN chans' = 1..n,
               \A o \in 1..n : chans'[o].history = chans[o].history /\ chans'[o].size = chans[o].size
        PROVE  HistoriesFit'
    BY <1>1, <1>2, <1>3 DEF HistoriesFit
  <1>4. ASSUME UNCHANGED <<chans, published>> PROVE HistoriesFit'
    BY <1>4 DEF HistoriesFit
  \* A channel of which there are no messages.
  <1>5. ASSUME NEW c \in ChannelRecord, c.history = <<>>, chans' = Append(chans, c),
               published' = published
        PROVE  HistoriesFit'
    <2>1. /\ DOMAIN chans' = 1..(n + 1) /\ \A o \in 1..n : chans'[o] = chans[o]
          /\ chans'[n + 1] = c /\ n + 1 \notin 1..n
      BY <1>1, <1>5 DEF n
    <2>2. HistoryFits(<<>>, c.size, published, n + 1)
      <3>1. \A m \in 1..p : published[m].on # n + 1  BY <1>2, <2>1
      <3>2. DOMAIN <<>> = {}  OBVIOUS
      <3> QED  BY <3>1, <3>2 DEF HistoryFits, Recalls, p
    <2>3. \A o \in 1..(n + 1) : o \in 1..n \/ o = n + 1  BY <1>1
    <2>4. \A o \in 1..(n + 1) : HistoryFits(chans'[o].history, chans'[o].size, published, o)
      BY <1>2, <1>5, <2>1, <2>2, <2>3
    <2>5. \A m \in 1..p : published[m].on \in 1..(n + 1)
      <3>1. 1..n \subseteq 1..(n + 1)  BY <1>1
      <3> QED  BY <1>2, <3>1
    <2> QED  BY <1>1, <1>5, <2>1, <2>4, <2>5 DEF HistoriesFit
  <1>6. \A l, s : Channel(l, s).history = <<>>  BY DEF Channel
  <1>7. \A l \in Nat \cup {NoLimit}, s \in Nat : Channel(l, s) \in ChannelRecord
    <2>1. <<>> \in Seq(Nat)  OBVIOUS
    <2> QED  BY <2>1 DEF Channel, ChannelRecord
  <1>8. CASE CreateChannel
    <2>1. PICK d \in Declared : chans' = Append(chans, Channel(d.limit, d.size))
      BY <1>8 DEF CreateChannel
    <2>2. Channel(d.limit, d.size) \in ChannelRecord /\ Channel(d.limit, d.size).history = <<>>
      BY <1>6, <1>7, ManagedAssumption
    <2>3. published' = published  BY <1>8 DEF CreateChannel
    <2> QED  BY <1>5, <2>1, <2>2, <2>3
  <1>9. CASE DeleteChannel
    BY <1>4, <1>9 DEF DeleteChannel
  <1>10. ASSUME NEW o \in 1..n, NEW M, chans' = [chans EXCEPT ![o].members = M],
                published' = published
         PROVE  HistoriesFit'
    <2>1. /\ DOMAIN chans' = 1..n
          /\ \A e \in 1..n : chans'[e].history = chans[e].history /\ chans'[e].size = chans[e].size
      BY <1>1, <1>10 DEF ChannelRecord
    <2> QED  BY <1>3, <1>10, <2>1
  <1>11. CASE RemoveFromAll
    <2>1. named \in 1..n  BY <1>1, <1>11 DEF RemoveFromAll, ManagedShape, n
    <2>2. PICK M : chans' = [chans EXCEPT ![named].members = M]  BY <1>11 DEF RemoveFromAll
    <2>3. published' = published  BY <1>11 DEF RemoveFromAll
    <2> QED  BY <1>10, <2>1, <2>2, <2>3
  <1>12. ASSUME NEW t \in Callers, CreateOnDemand(t) PROVE HistoriesFit'
    <2>1. chans' = Append(chans, Channel(NoLimit, DefaultSize)) /\ published' = published
      BY <1>12 DEF CreateOnDemand
    <2>2. /\ Channel(NoLimit, DefaultSize) \in ChannelRecord
          /\ Channel(NoLimit, DefaultSize).history = <<>>
      BY <1>6, <1>7, ManagedAssumption
    <2> QED  BY <1>5, <2>1, <2>2
  <1>13. ASSUME NEW t \in Callers, Insert(t) PROVE HistoriesFit'
    <2>1. jobs[t] \in Holding(n)  BY <1>1, <1>13, AtTells DEF Insert
    <2>2. jobs[t].on \in 1..n  BY <2>1 DEF Holding
    <2>3. PICK M : chans' = [chans EXCEPT ![jobs[t].on].members = M]  BY <1>13 DEF Insert
    <2>4. published' = published  BY <1>13 DEF Insert, historyOfChannels
    <2> QED  BY <1>10, <2>2, <2>3, <2>4
  <1>14. ASSUME NEW t \in Callers, Leave(t) PROVE HistoriesFit'
    <2>1. jobs[t] \in Holding(n)  BY <1>1, <1>14, AtTells DEF Leave
    <2>2. jobs[t].on \in 1..n  BY <2>1 DEF Holding
    <2>3. PICK M : chans' = [chans EXCEPT ![jobs[t].on].members = M]  BY <1>14 DEF Leave
    <2>4. published' = published  BY <1>14 DEF Leave
    <2> QED  BY <1>10, <2>2, <2>3, <2>4
  <1>15. ASSUME NEW t \in Callers, Push(t) PROVE HistoriesFit'
    <2> DEFINE o == jobs[t].on
               h == chans[o].history
               h2 == Pushed(h, chans[o].size, p + 1)
               x == [on |-> o, by |-> jobs[t].who, over |-> FALSE]
    <2>1. jobs[t] \in Holding(n)  BY <1>1, <1>15, AtTells DEF Push
    <2>2. o \in 1..n /\ jobs[t].who \in Members  BY <2>1 DEF Holding
    <2>3. chans' = [chans EXCEPT ![o].history = h2] /\ published' = Append(published, x)
      BY <1>15 DEF Push, Pushed, p
    <2>a. chans[o] \in ChannelRecord  BY <1>1, <2>2
    <2>b. h \in Seq(Nat) /\ chans[o].size \in Nat  BY <2>a DEF ChannelRecord
    <2>c. x.on = o /\ o \in Nat  BY <1>1, <2>2
    <2> HIDE DEF h2, o, x
    <2>4. /\ DOMAIN chans' = 1..n /\ chans'[o].history = h2
          /\ \A e \in 1..n : /\ chans'[e].size = chans[e].size
                             /\ e # o => chans'[e].history = chans[e].history
      BY <1>1, <2>2, <2>3 DEF ChannelRecord
    <2>5. /\ Len(published') = p + 1 /\ DOMAIN published' = 1..(p + 1) /\ published'[p + 1] = x
          /\ \A m \in 1..p : published'[m] = published[m]
      BY <1>1, <2>3 DEF p
    <2> DEFINE pub == published
               pub2 == published'
    <2>6. /\ Len(pub) = p /\ Len(pub2) = p + 1 /\ pub2[p + 1].on = o
          /\ \A m \in 1..p : pub2[m].on = pub[m].on
      BY <2>5, <2>c DEF p
    <2>7. HistoryFits(h, chans[o].size, pub, o)  BY <1>2, <2>2
    <2>8. \A e \in 1..n : HistoryFits(chans[e].history, chans[e].size, pub, e)  BY <1>2
    <2> HIDE DEF pub, pub2
    <2>9. HistoryFits(h2, chans[o].size, pub2, o)
      <3> DEFINE size == chans[o].size
      <3>1. h \in Seq(Nat) /\ size \in Nat /\ HistoryFits(h, size, pub, o)  BY <2>7, <2>b
      <3> HIDE DEF h, size
      <3>2. HistoryFits(Pushed(h, size, p + 1), size, pub2, o)  BY <1>1, <2>6, <3>1, OneComes
      <3> QED  BY <3>2 DEF h, size, h2
    <2>10. ASSUME NEW e \in 1..n, e # o
           PROVE  HistoryFits(chans[e].history, chans[e].size, pub2, e)
      <3> DEFINE size == chans[e].size
                 g == chans[e].history
      <3>1. HistoryFits(g, size, pub, e) /\ pub2[p + 1].on # e  BY <2>6, <2>8, <2>10
      <3> HIDE DEF g, size
      <3>2. HistoryFits(g, size, pub2, e)  BY <1>1, <2>6, <3>1, OtherComes
      <3> QED  BY <3>2 DEF g, size
    <2>11. \A e \in 1..n : HistoryFits(chans'[e].history, chans'[e].size, pub2, e)
      BY <2>2, <2>4, <2>9, <2>10
    <2>12. \A m \in 1..(p + 1) : m \in 1..p \/ m = p + 1  BY <1>1
    <2>13. \A m \in 1..(p + 1) : published'[m].on \in 1..n  BY <1>2, <2>2, <2>5, <2>12, <2>c
    <2> QED  BY <2>4, <2>5, <2>11, <2>13 DEF HistoriesFit, pub2
  <1>16. ASSUME NEW t \in Callers, EndPublish(t) PROVE HistoriesFit'
    <2>1. jobs[t] \in Sending(n, p)  BY <1>1, <1>16, AtTells DEF EndPublish
    <2>2. jobs[t].msg \in 1..p  BY <2>1 DEF Sending
    <2>3. chans' = chans /\ published' = [published EXCEPT ![jobs[t].msg].over = TRUE]
      BY <1>16 DEF EndPublish
    <2>4. DOMAIN published' = 1..p /\ \A m \in 1..p : published'[m].on = published[m].on
      BY <1>1, <2>2, <2>3
    <2>5. Len(published') = p
      BY <1>1, <2>3 DEF p
    <2>6. ASSUME NEW o \in 1..n PROVE HistoryFits(chans[o].history, chans[o].size, published', o)
      <3> DEFINE h == chans[o].history
                 size == chans[o].size
                 pub == published
                 pub2 == published'
      <3>1. /\ \A i \in DOMAIN h : h[i] \in 1..p /\ pub[h[i]].on = o
            /\ \A i, k \in DOMAIN h : i < k => h[i] < h[k]
            /\ Recalls(h, size, pub, o, p)
        BY <1>2 DEF HistoryFits, p
      <3>2. \A m \in 1..p : pub2[m].on = pub[m].on  BY <2>4
      <3>3. Len(pub2) = p  BY <2>5
      <3> HIDE DEF h, size, pub, pub2
      <3>4. Recalls(h, size, pub2, o, p)  BY <1>1, <3>1, <3>2, RecallsStay
      <3>5. HistoryFits(h, size, pub2, o)  BY <3>1, <3>2, <3>3, <3>4 DEF HistoryFits
      <3> QED  BY <3>5 DEF h, size, pub2
    <2> QED  BY <1>1, <1>2, <2>3, <2>4, <2>6 DEF HistoriesFit
  <1>17. ASSUME NEW t \in Callers,
                StartJob(t) \/ LookUpName(t) \/ CheckLimit(t) \/ Recall(t) \/ SendOne(t)
         PROVE  HistoriesFit'
    <2>1. UNCHANGED <<chans, published>>
      BY <1>17 DEF StartJob, LookUpName, CheckLimit, Recall, SendOne, historyOfChannels
    <2> QED  BY <1>4, <2>1
  <1> QED  BY <1>8, <1>9, <1>11, <1>12, <1>13, <1>14, <1>15, <1>16, <1>17 DEF ManagedNext

\* Who joined stays a member, and what was shown stays what there was.
LEMMA JoinsStay ==
  ASSUME ManagedShape, HistoriesFit, JoinedFit, ManagedNext
  PROVE  JoinedFit'
  <1> DEFINE n == Len(chans)
             p == Len(published)
  <1>1. /\ n \in Nat /\ DOMAIN chans = 1..n /\ chans \in Seq(ChannelRecord)
        /\ p \in Nat /\ DOMAIN published = 1..p
        /\ published \in Seq([on : Nat, by : Members, over : BOOLEAN])
        /\ DOMAIN jobs = Callers /\ \A t \in Callers : JobFits(jobs[t], n, p)
        /\ \A o \in 1..n : chans[o] \in ChannelRecord
        /\ \A j \in joined : j \in Joins(n, p)
    BY ManagedParts DEF ManagedShape
  <1>2. \A j \in joined : j.on \in 1..n /\ j.upto \in 0..p  BY <1>1 DEF Joins
  <1>3. \A j \in joined : /\ j.who \in chans[j.on].members
                          /\ Recalls(j.shown, chans[j.on].size, published, j.on, j.upto)
    BY DEF JoinedFit
  <1> HIDE DEF n, p
  \* Messages come, but are about what they were.
  <1>4. ASSUME joined' \subseteq joined,
               \A m \in 1..p : published'[m].on = published[m].on,
               \A o \in 1..n : chans'[o].size = chans[o].size,
               \A j \in joined' : j.who \in chans'[j.on].members
        PROVE  JoinedFit'
    <2>1. ASSUME NEW j \in joined'
          PROVE  Recalls(j.shown, chans'[j.on].size, published', j.on, j.upto)
      <3>1. j \in joined /\ j.on \in 1..n /\ j.upto \in 0..p  BY <1>2, <1>4, <2>1
      <3> DEFINE h == j.shown
                 size == chans[j.on].size
                 pub == published
                 pub2 == published'
                 o == j.on
                 upto == j.upto
      <3>2. upto \in Nat /\ upto <= p  BY <1>1, <3>1
      <3>3. Recalls(h, size, pub, o, upto)  BY <1>3, <3>1
      <3>4. \A m \in 1..upto : m \in 1..p  BY <1>1, <3>2
      <3>5. \A m \in 1..upto : pub2[m].on = pub[m].on  BY <1>4, <3>4
      <3>6. chans'[j.on].size = size  BY <1>4, <3>1
      <3> HIDE DEF h, size, pub, pub2, o, upto
      <3>7. Recalls(h, size, pub2, o, upto)  BY <3>2, <3>3, <3>5, RecallsStay
      <3> QED  BY <3>6, <3>7 DEF h, pub2, o, upto
    <2> QED  BY <1>4, <2>1 DEF JoinedFit
  <1>5. ASSUME joined' = joined, published' = published,
               \A o \in 1..n : /\ chans'[o].size = chans[o].size
                               /\ chans[o].members \subseteq chans'[o].members
        PROVE  JoinedFit'
    BY <1>2, <1>3, <1>4, <1>5
  <1>6. ASSUME NEW c, chans' = Append(chans, c), UNCHANGED <<joined, published>> PROVE JoinedFit'
    <2>1. \A o \in 1..n : chans'[o] = chans[o]  BY <1>1, <1>6 DEF n
    <2> QED  BY <1>5, <1>6, <2>1
  <1>7. CASE CreateChannel
    <2>1. PICK c : chans' = Append(chans, c)  BY <1>7 DEF CreateChannel
    <2> QED  BY <1>6, <1>7, <2>1 DEF CreateChannel
  <1>8. CASE DeleteChannel
    BY <1>5, <1>8 DEF DeleteChannel
  \* One leaves a channel.
  <1>9. ASSUME NEW o \in 1..n, NEW c, published' = published,
               chans' = [chans EXCEPT ![o].members = @ \ {c}],
               joined' = {j \in joined : j.who # c \/ j.on # o}
        PROVE  JoinedFit'
    <2>1. /\ chans'[o].members = chans[o].members \ {c}
          /\ \A e \in 1..n : /\ chans'[e].size = chans[e].size
                             /\ e # o => chans'[e].members = chans[e].members
      BY <1>1, <1>9 DEF ChannelRecord
    <2>2. \A j \in joined' : j.who \in chans'[j.on].members
      <3>1. TAKE j \in joined'
      <3>2. j \in joined /\ (j.who # c \/ j.on # o)  BY <1>9
      <3>3. j.on \in 1..n /\ j.who \in chans[j.on].members  BY <1>2, <1>3, <3>2
      <3> QED  BY <2>1, <3>2, <3>3
    <2> QED  BY <1>4, <1>9, <2>1, <2>2
  <1>10. CASE RemoveFromAll
    <2>1. named \in 1..n  BY <1>1, <1>10 DEF RemoveFromAll, ManagedShape, n
    <2>2. PICK c : /\ chans' = [chans EXCEPT ![named].members = @ \ {c}]
                   /\ joined' = {j \in joined : j.who # c \/ j.on # named}
      BY <1>10 DEF RemoveFromAll
    <2>3. published' = published  BY <1>10 DEF RemoveFromAll
    <2> QED  BY <1>9, <2>1, <2>2, <2>3
  <1>11. ASSUME NEW t \in Callers, CreateOnDemand(t) PROVE JoinedFit'
    <2>1. PICK c : chans' = Append(chans, c)  BY <1>11 DEF CreateOnDemand
    <2> QED  BY <1>6, <1>11, <2>1 DEF CreateOnDemand
  <1>12. ASSUME NEW t \in Callers, Insert(t) PROVE JoinedFit'
    <2> DEFINE o == jobs[t].on
    <2>1. jobs[t] \in Holding(n)  BY <1>1, <1>12, AtTells DEF Insert
    <2>2. o \in 1..n  BY <2>1 DEF Holding
    <2>3. /\ chans' = [chans EXCEPT ![o].members = @ \cup {jobs[t].who}]
          /\ UNCHANGED <<joined, published>>
      BY <1>12 DEF Insert, historyOfChannels
    <2> HIDE DEF o
    <2>4. \A e \in 1..n : /\ chans'[e].size = chans[e].size
                          /\ chans[e].members \subseteq chans'[e].members
      BY <1>1, <2>2, <2>3 DEF ChannelRecord
    <2> QED  BY <1>5, <2>3, <2>4
  <1>13. ASSUME NEW t \in Callers, Recall(t) PROVE JoinedFit'
    <2> DEFINE o == jobs[t].on
               x == [who |-> jobs[t].who, on |-> o, shown |-> chans[o].history, upto |-> p]
    <2>1. jobs[t] \in Holding(n)  BY <1>1, <1>13, AtTells DEF Recall
    <2>2. o \in 1..n  BY <2>1 DEF Holding
    <2>3. /\ UNCHANGED <<chans, published>>
          /\ \A j \in joined' : j \in joined \/ (j = x /\ jobs[t].who \in chans[o].members)
      BY <1>13 DEF Recall, p
    <2>4. HistoryFits(chans[o].history, chans[o].size, published, o)
      BY <1>1, <2>2 DEF HistoriesFit
    <2>5. Recalls(chans[o].history, chans[o].size, published, o, p)  BY <2>4 DEF HistoryFits, p
    <2>6. x.who = jobs[t].who /\ x.on = o /\ x.shown = chans[o].history /\ x.upto = p  OBVIOUS
    <2> HIDE DEF x, o
    <2>7. \A j \in joined' : /\ j.who \in chans[j.on].members
                             /\ Recalls(j.shown, chans[j.on].size, published, j.on, j.upto)
      BY <1>3, <2>3, <2>5, <2>6
    <2> QED  BY <2>3, <2>7 DEF JoinedFit
  <1>14. ASSUME NEW t \in Callers, Leave(t) PROVE JoinedFit'
    <2> DEFINE o == jobs[t].on
               c == jobs[t].who
    <2>1. jobs[t] \in Holding(n)  BY <1>1, <1>14, AtTells DEF Leave
    <2>2. o \in 1..n  BY <2>1 DEF Holding
    <2>3. /\ chans' = [chans EXCEPT ![o].members = @ \ {c}] /\ published' = published
          /\ joined' = {j \in joined : j.who # c \/ j.on # o}
      BY <1>14 DEF Leave
    <2> HIDE DEF o, c
    <2> QED  BY <1>9, <2>2, <2>3
  <1>15. ASSUME NEW t \in Callers, Push(t) PROVE JoinedFit'
    <2> DEFINE o == jobs[t].on
    <2>1. jobs[t] \in Holding(n)  BY <1>1, <1>15, AtTells DEF Push
    <2>2. o \in 1..n  BY <2>1 DEF Holding
    <2>3. PICK h, x : /\ chans' = [chans EXCEPT ![o].history = h]
                      /\ published' = Append(published, x)
      <3> DEFINE h1 == Append(chans[o].history, Len(published) + 1)
                 h2 == IF chans[o].size = 0 THEN chans[o].history
                       ELSE IF Len(h1) > chans[o].size THEN Tail(h1) ELSE h1
      <3>1. chans' = [chans EXCEPT ![o].history = h2]  BY <1>15 DEF Push
      <3>2. \E x : published' = Append(published, x)  BY <1>15 DEF Push
      <3> HIDE DEF h2
      <3> QED  BY <3>1, <3>2
    <2>4. joined' = joined  BY <1>15 DEF Push
    <2> HIDE DEF o
    <2>5. \A e \in 1..n : chans'[e].size = chans[e].size /\ chans'[e].members = chans[e].members
      BY <1>1, <2>2, <2>3 DEF ChannelRecord
    <2>6. \A m \in 1..p : published'[m] = published[m]  BY <1>1, <2>3 DEF p
    <2>7. \A j \in joined' : j.who \in chans'[j.on].members  BY <1>2, <1>3, <2>4, <2>5
    <2> QED  BY <1>4, <2>4, <2>5, <2>6, <2>7
  <1>16. ASSUME NEW t \in Callers, EndPublish(t) PROVE JoinedFit'
    <2>1. /\ UNCHANGED <<chans, joined>>
          /\ published' = [published EXCEPT ![jobs[t].msg].over = TRUE]
      BY <1>16 DEF EndPublish
    <2>2. \A m \in 1..p : published'[m].on = published[m].on
      BY <1>1, <2>1
    <2> QED  BY <1>3, <1>4, <2>1, <2>2
  <1>17. ASSUME NEW t \in Callers, StartJob(t) \/ LookUpName(t) \/ CheckLimit(t) \/ SendOne(t)
         PROVE  JoinedFit'
    <2>1. UNCHANGED <<chans, published, joined>>
      BY <1>17 DEF StartJob, LookUpName, CheckLimit, SendOne, historyOfChannels
    <2> QED  BY <2>1 DEF JoinedFit
  <1> QED  BY <1>7, <1>8, <1>10, <1>11, <1>12, <1>13, <1>14, <1>15, <1>16, <1>17 DEF ManagedNext

\* A publish() on its way.
LEMMA SendsStay ==
  ASSUME ManagedShape, SendsFit, ManagedNext
  PROVE  SendsFit'
  <1> DEFINE n == Len(chans)
             p == Len(published)
  <1>1. /\ n \in Nat /\ p \in Nat /\ DOMAIN published = 1..p
        /\ published \in Seq([on : Nat, by : Members, over : BOOLEAN])
        /\ outbox \in Seq([to : Members, msg : 1..p])
        /\ Len(outbox) \in Nat /\ DOMAIN outbox = 1..Len(outbox)
        /\ DOMAIN jobs = Callers /\ \A t \in Callers : JobFits(jobs[t], n, p)
        /\ \A i \in 1..Len(outbox) : outbox[i] \in [to : Members, msg : 1..p]
    BY ManagedParts DEF ManagedShape
  <1>2. /\ \A i, k \in DOMAIN outbox : i # k => outbox[i] # outbox[k]
        /\ \A t \in Callers : jobs[t].at = "send" => SendFits(jobs[t], published, outbox)
        /\ \A t, u \in Callers :
              t # u /\ jobs[t].at = "send" /\ jobs[u].at = "send" => jobs[t].msg # jobs[u].msg
    BY DEF SendsFit
  <1>3. \A t \in Callers : jobs[t].at = "send" =>
          jobs[t] \in Sending(n, p) /\ jobs[t].msg \in 1..p
    BY <1>1, AtTells DEF Sending
  <1> HIDE DEF n, p
  \* Nothing is sent, and who sent still does.
  <1>4. ASSUME UNCHANGED <<outbox, published>>,
               \A t \in Callers : jobs'[t].at = "send" =>
                 /\ jobs[t].at = "send" /\ jobs'[t].msg = jobs[t].msg /\ jobs'[t].who = jobs[t].who
                 /\ jobs'[t].on = jobs[t].on /\ jobs'[t].visited = jobs[t].visited
        PROVE  SendsFit'
    <2>1. \A t \in Callers : jobs'[t].at = "send" => SendFits(jobs'[t], published, outbox)
      BY <1>2, <1>4 DEF SendFits
    <2>2. \A t, u \in Callers :
             t # u /\ jobs'[t].at = "send" /\ jobs'[u].at = "send" => jobs'[t].msg # jobs'[u].msg
      BY <1>2, <1>4
    <2> QED  BY <1>2, <1>4, <2>1, <2>2 DEF SendsFit
  <1>5. ASSUME NEW t \in Callers, NEW x, x.at # "send", Do(t, x), UNCHANGED <<outbox, published>>
        PROVE  SendsFit'
    BY <1>1, <1>4, <1>5 DEF Do
  <1>6. ASSUME NEW c, NEW o, NEW t \in Callers
        PROVE  /\ DOMAIN Without(c, o) = Callers /\ Without(c, o)[t].at = jobs[t].at
               /\ jobs[t].at = "send" =>
                    /\ Without(c, o)[t].msg = jobs[t].msg /\ Without(c, o)[t].who = jobs[t].who
                    /\ Without(c, o)[t].on = jobs[t].on /\ Without(c, o)[t].visited = jobs[t].visited
    <2>1. /\ DOMAIN Without(c, o) = Callers
          /\ \A u \in Callers :
               /\ Without(c, o)[u].at = jobs[u].at
               /\ jobs[u].at = "send" =>
                    /\ Without(c, o)[u].msg = jobs[u].msg /\ Without(c, o)[u].who = jobs[u].who
                    /\ Without(c, o)[u].on = jobs[u].on /\ Without(c, o)[u].visited = jobs[u].visited
      BY <1>1, WithoutFits
    <2> QED  BY <2>1
  <1>7. CASE CreateChannel \/ DeleteChannel
    <2>1. UNCHANGED <<outbox, published, jobs>>  BY <1>7 DEF CreateChannel, DeleteChannel
    <2> QED  BY <1>4, <2>1
  <1>8. CASE RemoveFromAll
    <2>1. UNCHANGED <<outbox, published>>  BY <1>8 DEF RemoveFromAll
    <2>2. PICK c : jobs' = Without(c, named)  BY <1>8 DEF RemoveFromAll
    <2> QED  BY <1>4, <1>6, <2>1, <2>2
  <1>9. ASSUME NEW t \in Callers, StartJob(t) PROVE SendsFit'
    <2>1. PICK x : Do(t, x) /\ x.at # "send"  BY <1>9 DEF StartJob
    <2> QED  BY <1>5, <1>9, <2>1 DEF StartJob, historyOfChannels
  <1>10. ASSUME NEW t \in Callers, LookUpName(t) PROVE SendsFit'
    <2>1. jobs[t] \in Asking  BY <1>1, <1>10, AtTells DEF LookUpName
    <2>2. named # 0 => named \in 1..n  BY <1>1 DEF ManagedShape, n
    <2>3. named # 0 => Found(jobs[t], named).at # "send"  BY <1>1, <2>1, <2>2, FoundFits
    <2>4. PICK x : Do(t, x) /\ x.at # "send"  BY <1>10, <2>3 DEF LookUpName, Free
    <2> QED  BY <1>5, <1>10, <2>4 DEF LookUpName, historyOfChannels
  <1>11. ASSUME NEW t \in Callers, CreateOnDemand(t) PROVE SendsFit'
    <2> DEFINE n1 == n + 1
    <2>1. Do(t, Found(jobs[t], n1)) /\ UNCHANGED <<outbox, published>>
      BY <1>11 DEF CreateOnDemand, n
    <2>2. jobs[t] \in Asking  BY <1>1, <1>11, AtTells DEF CreateOnDemand
    <2>3. n1 \in Nat /\ n1 \in 1..n1  BY <1>1
    <2> HIDE DEF n1
    <2>4. Found(jobs[t], n1).at # "send"  BY <2>2, <2>3, FoundFits
    <2> QED  BY <1>5, <2>1, <2>4
  <1>12. ASSUME NEW t \in Callers, CheckLimit(t) PROVE SendsFit'
    <2> DEFINE y == [jobs[t] EXCEPT !.at = "insert"]
    <2>1. jobs[t] \in Holding(n)  BY <1>1, <1>12, AtTells DEF CheckLimit
    <2>2. y.at # "send" /\ Free.at # "send"  BY <2>1 DEF Holding, Free
    <2>3. (Do(t, Free) \/ Do(t, y)) /\ UNCHANGED <<outbox, published>>  BY <1>12 DEF CheckLimit
    <2> HIDE DEF y
    <2> QED  BY <1>5, <2>2, <2>3
  <1>13. ASSUME NEW t \in Callers, Insert(t) PROVE SendsFit'
    <2> DEFINE y == [jobs[t] EXCEPT !.at = "recall"]
    <2>1. jobs[t] \in Holding(n)  BY <1>1, <1>13, AtTells DEF Insert
    <2>2. y.at # "send"  BY <2>1 DEF Holding
    <2>3. Do(t, y) /\ UNCHANGED <<outbox, published>>  BY <1>13 DEF Insert, historyOfChannels
    <2> HIDE DEF y
    <2> QED  BY <1>5, <2>2, <2>3
  <1>14. ASSUME NEW t \in Callers, Recall(t) PROVE SendsFit'
    <2>1. Do(t, Free) /\ UNCHANGED <<outbox, published>>  BY <1>14 DEF Recall
    <2> QED  BY <1>5, <2>1 DEF Free
  <1>15. ASSUME NEW t \in Callers, Leave(t) PROVE SendsFit'
    <2>1. /\ jobs' = [Without(jobs[t].who, jobs[t].on) EXCEPT ![t] = Free]
          /\ UNCHANGED <<outbox, published>>
      BY <1>15 DEF Leave
    <2> DEFINE w == Without(jobs[t].who, jobs[t].on)
    <2>2. /\ DOMAIN w = Callers
          /\ \A u \in Callers :
               /\ w[u].at = jobs[u].at
               /\ jobs[u].at = "send" =>
                    /\ w[u].msg = jobs[u].msg /\ w[u].who = jobs[u].who
                    /\ w[u].on = jobs[u].on /\ w[u].visited = jobs[u].visited
      BY <1>6
    <2>3. jobs' = [w EXCEPT ![t] = Free]  BY <2>1
    <2> HIDE DEF w
    <2>4. jobs'[t] = Free /\ \A u \in Callers : u # t => jobs'[u] = w[u]  BY <2>2, <2>3
    <2> QED  BY <1>4, <2>1, <2>2, <2>4 DEF Free
  <1>16. ASSUME NEW t \in Callers, Push(t) PROVE SendsFit'
    <2> DEFINE o == jobs[t].on
               c == jobs[t].who
               x == [at |-> "send", on |-> o, who |-> c, msg |-> p + 1,
                     visited |-> {c}, waiting |-> chans[o].members \ {c}]
               y == [on |-> o, by |-> c, over |-> FALSE]
    <2>1. /\ published' = Append(published, y) /\ jobs' = [jobs EXCEPT ![t] = x] /\ outbox' = outbox
      BY <1>16 DEF Push, Do, p
    <2>2. /\ published'[p + 1] = y /\ \A m \in 1..p : published'[m] = published[m]
      BY <1>1, <2>1 DEF p
    <2>3. /\ x.at = "send" /\ x.msg = p + 1 /\ x.who = c /\ x.on = o /\ x.visited = {c}
          /\ y.on = o /\ y.by = c /\ y.over = FALSE
      OBVIOUS
    <2> HIDE DEF x, y, o, c
    <2>4. jobs'[t] = x /\ \A u \in Callers : u # t => jobs'[u] = jobs[u]  BY <1>1, <2>1
    <2>5. p + 1 \notin 1..p  BY <1>1
    <2>6. SendFits(x, published', outbox)
      <3>1. \A i \in DOMAIN outbox : outbox[i].msg # p + 1  BY <1>1, <2>5
      <3> QED  BY <2>2, <2>3, <3>1 DEF SendFits
    <2>7. \A u \in Callers : u # t /\ jobs[u].at = "send" => SendFits(jobs[u], published', outbox)
      BY <1>2, <1>3, <2>2 DEF SendFits
    <2>8. \A u \in Callers : jobs'[u].at = "send" => SendFits(jobs'[u], published', outbox)
      BY <2>4, <2>6, <2>7
    <2>9. \A u, v \in Callers :
             u # v /\ jobs'[u].at = "send" /\ jobs'[v].at = "send" => jobs'[u].msg # jobs'[v].msg
      BY <1>2, <1>3, <2>3, <2>4, <2>5
    <2> QED  BY <1>2, <2>1, <2>8, <2>9 DEF SendsFit
  <1>17. ASSUME NEW t \in Callers, SendOne(t) PROVE SendsFit'
    <2>1. jobs[t] \in Sending(n, p) /\ jobs[t].at = "send"  BY <1>1, <1>17, AtTells DEF SendOne
    <2>2. PICK c \in chans[jobs[t].on].members \ jobs[t].visited :
            /\ outbox' = Append(outbox, [to |-> c, msg |-> jobs[t].msg])
            /\ Do(t, [jobs[t] EXCEPT !.visited = @ \cup {c}])
      BY <1>17 DEF SendOne
    <2>3. published' = published  BY <1>17 DEF SendOne, historyOfChannels
    <2> DEFINE y == [to |-> c, msg |-> jobs[t].msg]
               x == [jobs[t] EXCEPT !.visited = @ \cup {c}]
               l == Len(outbox)
    <2>4. /\ x.at = "send" /\ x.msg = jobs[t].msg /\ x.who = jobs[t].who /\ x.on = jobs[t].on
          /\ x.visited = jobs[t].visited \cup {c} /\ y.to = c /\ y.msg = jobs[t].msg
      BY <2>1 DEF Sending
    <2>5. /\ DOMAIN outbox' = 1..(l + 1) /\ outbox'[l + 1] = y /\ l \in Nat
          /\ \A i \in 1..l : outbox'[i] = outbox[i] /\ i \in DOMAIN outbox
          /\ \A i \in 1..(l + 1) : i \in 1..l \/ i = l + 1
          /\ l + 1 \notin 1..l
      BY <1>1, <2>2
    <2>6. jobs'[t] = x /\ \A u \in Callers : u # t => jobs'[u] = jobs[u]  BY <1>1, <2>2 DEF Do
    <2>d. DOMAIN outbox = 1..l  BY <1>1
    <2> HIDE DEF x, y, l
    <2>7. \A i \in 1..l : outbox[i] # y
      <3>1. SendFits(jobs[t], published, outbox)  BY <1>2, <2>1
      <3> QED  BY <2>2, <2>4, <2>5, <3>1 DEF SendFits
    <2>8. \A i, k \in DOMAIN outbox' : i # k => outbox'[i] # outbox'[k]
      <3>1. \A i, k \in 1..l : i # k => outbox[i] # outbox[k]  BY <1>2, <2>d
      <3> QED  BY <2>5, <2>7, <3>1
    <2>9. \A d, m : Copied(outbox, d, m) => Copied(outbox', d, m)
      <3>1. \A i \in DOMAIN outbox : i \in DOMAIN outbox' /\ outbox'[i] = outbox[i]
        BY <2>5, <2>d
      <3> QED  BY <3>1 DEF Copied
    <2>10. SendFits(x, published, outbox')
      <3>1. SendFits(jobs[t], published, outbox)  BY <1>2, <2>1
      <3>2. Copied(outbox', c, jobs[t].msg)
        <4>1. l + 1 \in DOMAIN outbox'  BY <2>5
        <4> QED  BY <2>5, <4>1 DEF Copied, y
      <3>3. \A i \in DOMAIN outbox' : outbox'[i].msg = x.msg => outbox'[i].to \in x.visited
        BY <2>4, <2>5, <2>d, <3>1 DEF SendFits
      <3>4. \A d \in x.visited \ {x.who} : Copied(outbox', d, x.msg)
        BY <2>4, <2>9, <3>1, <3>2 DEF SendFits
      <3> QED  BY <2>4, <3>1, <3>3, <3>4 DEF SendFits
    <2>11. ASSUME NEW u \in Callers, u # t, jobs[u].at = "send"
           PROVE  SendFits(jobs[u], published, outbox')
      <3>1. SendFits(jobs[u], published, outbox) /\ jobs[u].msg # jobs[t].msg
        BY <1>2, <2>1, <2>11
      <3>2. \A i \in DOMAIN outbox' : outbox'[i].msg = jobs[u].msg => outbox'[i].to \in jobs[u].visited
        BY <2>4, <2>5, <2>d, <3>1 DEF SendFits
      <3>3. \A d \in jobs[u].visited \ {jobs[u].who} : Copied(outbox', d, jobs[u].msg)
        BY <2>9, <3>1 DEF SendFits
      <3> QED  BY <3>1, <3>2, <3>3 DEF SendFits
    <2>12. \A u \in Callers : jobs'[u].at = "send" => SendFits(jobs'[u], published', outbox')
      BY <2>3, <2>6, <2>10, <2>11
    <2>13. \A u, v \in Callers :
             u # v /\ jobs'[u].at = "send" /\ jobs'[v].at = "send" => jobs'[u].msg # jobs'[v].msg
      BY <1>2, <2>1, <2>4, <2>6
    <2> QED  BY <2>8, <2>12, <2>13 DEF SendsFit
  <1>18. ASSUME NEW t \in Callers, EndPublish(t) PROVE SendsFit'
    <2>1. /\ published' = [published EXCEPT ![jobs[t].msg].over = TRUE] /\ outbox' = outbox
          /\ jobs' = [jobs EXCEPT ![t] = Free] /\ jobs[t].at = "send"
      BY <1>18 DEF EndPublish, Do
    <2>2. jobs'[t] = Free /\ \A u \in Callers : u # t => jobs'[u] = jobs[u]  BY <1>1, <2>1
    <2>3. \A m \in 1..p : m # jobs[t].msg => published'[m] = published[m]  BY <1>1, <2>1
    <2>4. ASSUME NEW u \in Callers, u # t, jobs[u].at = "send"
          PROVE  SendFits(jobs[u], published', outbox)
      <3>1. jobs[u].msg # jobs[t].msg /\ SendFits(jobs[u], published, outbox)  BY <1>2, <2>1, <2>4
      <3>2. published'[jobs[u].msg] = published[jobs[u].msg]  BY <1>3, <2>3, <2>4, <3>1
      <3> QED  BY <3>1, <3>2 DEF SendFits
    <2>5. \A u \in Callers : jobs'[u].at = "send" => SendFits(jobs'[u], published', outbox)
      BY <2>2, <2>4 DEF Free
    <2>6. \A u, v \in Callers :
             u # v /\ jobs'[u].at = "send" /\ jobs'[v].at = "send" => jobs'[u].msg # jobs'[v].msg
      BY <1>2, <2>2 DEF Free
    <2> QED  BY <1>2, <2>1, <2>5, <2>6 DEF SendsFit
  <1> QED  BY <1>7, <1>8, <1>9, <1>10, <1>11, <1>12, <1>13, <1>14, <1>15, <1>16, <1>17, <1>18
        DEF ManagedNext

\* A publish() visits whoever joined before it.
LEMMA NewsStay ==
  ASSUME ManagedShape, JoinedFit, SendsFit, NewsReach, ManagedNext
  PROVE  NewsReach'
  <1> DEFINE n == Len(chans)
             p == Len(published)
  <1>1. /\ n \in Nat /\ p \in Nat /\ DOMAIN published = 1..p /\ DOMAIN chans = 1..n
        /\ published \in Seq([on : Nat, by : Members, over : BOOLEAN])
        /\ outbox \in Seq([to : Members, msg : 1..p])
        /\ Len(outbox) \in Nat /\ DOMAIN outbox = 1..Len(outbox)
        /\ DOMAIN jobs = Callers /\ \A t \in Callers : JobFits(jobs[t], n, p)
        /\ \A j \in joined : j \in Joins(n, p)
    BY ManagedParts DEF ManagedShape
  <1>2. \A j \in joined : Awaited(jobs, j) /\ Delivered(published, outbox, j)  BY DEF NewsReach
  <1>3. \A t \in Callers : jobs[t].at = "send" =>
          jobs[t] \in Sending(n, p) /\ jobs[t].msg \in 1..p
    BY <1>1, AtTells DEF Sending
  <1>a. \A j \in joined : j.who \in chans[j.on].members  BY DEF JoinedFit
  <1>b. \A j \in joined : j.upto \in 0..p  BY <1>1 DEF Joins
  <1> HIDE DEF n, p
  \* Nothing is sent, and who sent still waits for all who joined.
  <1>4. ASSUME UNCHANGED <<outbox, published>>, joined' \subseteq joined,
               \A j \in joined', t \in Callers : jobs'[t].at = "send" =>
                 /\ jobs[t].at = "send" /\ jobs'[t].msg = jobs[t].msg /\ jobs'[t].who = jobs[t].who
                 /\ jobs'[t].on = jobs[t].on
                 /\ jobs[t].on = j.on /\ j.who \in jobs[t].waiting => j.who \in jobs'[t].waiting
        PROVE  NewsReach'
    <2>1. \A j \in joined' : Delivered(published', outbox', j)  BY <1>2, <1>4
    <2>2. \A j \in joined' : Awaited(jobs', j)  BY <1>2, <1>4 DEF Awaited
    <2> QED  BY <2>1, <2>2 DEF NewsReach
  <1>5. ASSUME NEW t \in Callers, NEW x, x.at # "send", Do(t, x),
               UNCHANGED <<outbox, published>>, joined' \subseteq joined
        PROVE  NewsReach'
    <2>1. jobs'[t] = x /\ \A u \in Callers : u # t => jobs'[u] = jobs[u]  BY <1>1, <1>5 DEF Do
    <2> QED  BY <1>4, <1>5, <2>1
  <1>6. ASSUME NEW c, NEW o
        PROVE  /\ DOMAIN Without(c, o) = Callers
               /\ \A u \in Callers :
                    /\ Without(c, o)[u].at = jobs[u].at
                    /\ jobs[u].at = "send" =>
                         /\ Without(c, o)[u].msg = jobs[u].msg /\ Without(c, o)[u].who = jobs[u].who
                         /\ Without(c, o)[u].on = jobs[u].on
                         /\ \A d \in jobs[u].waiting :
                              d \in Without(c, o)[u].waiting \/ (d = c /\ jobs[u].on = o)
    BY <1>1, WithoutFits
  <1>7. CASE CreateChannel \/ DeleteChannel
    <2>1. UNCHANGED <<outbox, published, jobs, joined>>  BY <1>7 DEF CreateChannel, DeleteChannel
    <2> QED  BY <1>2, <2>1 DEF NewsReach
  <1>8. CASE RemoveFromAll
    <2>1. UNCHANGED <<outbox, published>>  BY <1>8 DEF RemoveFromAll
    <2>2. PICK c : /\ jobs' = Without(c, named)
                   /\ joined' = {j \in joined : j.who # c \/ j.on # named}
      BY <1>8 DEF RemoveFromAll
    <2> DEFINE w == Without(c, named)
    <2>3. \A u \in Callers :
            /\ w[u].at = jobs[u].at
            /\ jobs[u].at = "send" =>
                 /\ w[u].msg = jobs[u].msg /\ w[u].who = jobs[u].who /\ w[u].on = jobs[u].on
                 /\ \A d \in jobs[u].waiting : d \in w[u].waiting \/ (d = c /\ jobs[u].on = named)
      BY <1>6
    <2>4. jobs' = w  BY <2>2
    <2> HIDE DEF w
    <2>5. joined' \subseteq joined /\ \A j \in joined' : j.who # c \/ j.on # named  BY <2>2
    <2> QED  BY <1>4, <2>1, <2>3, <2>4, <2>5
  <1>9. ASSUME NEW t \in Callers, StartJob(t) PROVE NewsReach'
    <2>1. PICK x : Do(t, x) /\ x.at # "send"  BY <1>9 DEF StartJob
    <2> QED  BY <1>5, <1>9, <2>1 DEF StartJob, historyOfChannels
  <1>10. ASSUME NEW t \in Callers, LookUpName(t) PROVE NewsReach'
    <2>1. jobs[t] \in Asking  BY <1>1, <1>10, AtTells DEF LookUpName
    <2>2. named # 0 => named \in 1..n  BY <1>1 DEF ManagedShape, n
    <2>3. named # 0 => Found(jobs[t], named).at # "send"  BY <1>1, <2>1, <2>2, FoundFits
    <2>4. PICK x : Do(t, x) /\ x.at # "send"  BY <1>10, <2>3 DEF LookUpName, Free
    <2> QED  BY <1>5, <1>10, <2>4 DEF LookUpName, historyOfChannels
  <1>11. ASSUME NEW t \in Callers, CreateOnDemand(t) PROVE NewsReach'
    <2> DEFINE n1 == n + 1
    <2>1. Do(t, Found(jobs[t], n1)) /\ UNCHANGED <<outbox, published, joined>>
      BY <1>11 DEF CreateOnDemand, n
    <2>2. jobs[t] \in Asking  BY <1>1, <1>11, AtTells DEF CreateOnDemand
    <2>3. n1 \in Nat /\ n1 \in 1..n1  BY <1>1
    <2> HIDE DEF n1
    <2>4. Found(jobs[t], n1).at # "send"  BY <2>2, <2>3, FoundFits
    <2> QED  BY <1>5, <2>1, <2>4
  <1>12. ASSUME NEW t \in Callers, CheckLimit(t) PROVE NewsReach'
    <2> DEFINE y == [jobs[t] EXCEPT !.at = "insert"]
    <2>1. jobs[t] \in Holding(n)  BY <1>1, <1>12, AtTells DEF CheckLimit
    <2>2. y.at # "send" /\ Free.at # "send"  BY <2>1 DEF Holding, Free
    <2>3. (Do(t, Free) \/ Do(t, y)) /\ UNCHANGED <<outbox, published, joined>>
      BY <1>12 DEF CheckLimit
    <2> HIDE DEF y
    <2> QED  BY <1>5, <2>2, <2>3
  <1>13. ASSUME NEW t \in Callers, Insert(t) PROVE NewsReach'
    <2> DEFINE y == [jobs[t] EXCEPT !.at = "recall"]
    <2>1. jobs[t] \in Holding(n)  BY <1>1, <1>13, AtTells DEF Insert
    <2>2. y.at # "send"  BY <2>1 DEF Holding
    <2>3. Do(t, y) /\ UNCHANGED <<outbox, published, joined>>
      BY <1>13 DEF Insert, historyOfChannels
    <2> HIDE DEF y
    <2> QED  BY <1>5, <2>2, <2>3
  <1>14. ASSUME NEW t \in Callers, Recall(t) PROVE NewsReach'
    <2> DEFINE x == [who |-> jobs[t].who, on |-> jobs[t].on,
                     shown |-> chans[jobs[t].on].history, upto |-> p]
    <2>1. /\ jobs' = [jobs EXCEPT ![t] = Free] /\ UNCHANGED <<outbox, published>>
          /\ \A j \in joined' : j \in joined \/ j = x
      BY <1>14 DEF Recall, Do, p
    <2>2. x.upto = p  OBVIOUS
    <2> HIDE DEF x
    <2>3. jobs'[t] = Free /\ \A u \in Callers : u # t => jobs'[u] = jobs[u]  BY <1>1, <2>1
    <2>4. \A j \in joined : Awaited(jobs', j) /\ Delivered(published, outbox, j)
      BY <1>2, <2>3 DEF Awaited, Free
    <2>5. Awaited(jobs', x)
      <3>1. \A u \in Callers : jobs'[u].at = "send" => ~(p < jobs'[u].msg)
        BY <1>1, <1>3, <2>3 DEF Free
      <3> QED  BY <2>2, <3>1 DEF Awaited
    <2>6. Delivered(published, outbox, x)
      <3>1. \A m \in 1..p : ~(m > p)  BY <1>1
      <3> QED  BY <1>1, <2>2, <3>1 DEF Delivered
    <2> QED  BY <2>1, <2>4, <2>5, <2>6 DEF NewsReach
  <1>15. ASSUME NEW t \in Callers, Leave(t) PROVE NewsReach'
    <2> DEFINE o == jobs[t].on
               c == jobs[t].who
               w == Without(c, o)
    <2>1. /\ jobs' = [w EXCEPT ![t] = Free] /\ UNCHANGED <<outbox, published>>
          /\ joined' = {j \in joined : j.who # c \/ j.on # o}
      BY <1>15 DEF Leave
    <2>2. /\ DOMAIN w = Callers
          /\ \A u \in Callers :
               /\ w[u].at = jobs[u].at
               /\ jobs[u].at = "send" =>
                    /\ w[u].msg = jobs[u].msg /\ w[u].who = jobs[u].who /\ w[u].on = jobs[u].on
                    /\ \A d \in jobs[u].waiting : d \in w[u].waiting \/ (d = c /\ jobs[u].on = o)
      <3> HIDE DEF o, c
      <3> QED  BY <1>6
    <2> HIDE DEF w, o, c
    <2>3. jobs'[t] = Free /\ \A u \in Callers : u # t => jobs'[u] = w[u]  BY <2>1, <2>2
    <2>4. joined' \subseteq joined /\ \A j \in joined' : j.who # c \/ j.on # o  BY <2>1
    <2> QED  BY <1>4, <2>1, <2>2, <2>3, <2>4 DEF Free
  <1>16. ASSUME NEW t \in Callers, Push(t) PROVE NewsReach'
    <2> DEFINE o == jobs[t].on
               c == jobs[t].who
               x == [at |-> "send", on |-> o, who |-> c, msg |-> p + 1,
                     visited |-> {c}, waiting |-> chans[o].members \ {c}]
               y == [on |-> o, by |-> c, over |-> FALSE]
    <2>1. /\ published' = Append(published, y) /\ jobs' = [jobs EXCEPT ![t] = x]
          /\ outbox' = outbox /\ joined' = joined
      BY <1>16 DEF Push, Do, p
    <2>2. /\ DOMAIN published' = 1..(p + 1) /\ published'[p + 1] = y
          /\ \A m \in 1..p : published'[m] = published[m]
          /\ \A m \in 1..(p + 1) : m \in 1..p \/ m = p + 1
      BY <1>1, <2>1 DEF p
    <2>3. /\ x.msg = p + 1 /\ x.who = c /\ x.on = o /\ x.waiting = chans[o].members \ {c}
          /\ y.over = FALSE
      OBVIOUS
    <2> HIDE DEF x, y, o, c
    <2>4. jobs'[t] = x /\ \A u \in Callers : u # t => jobs'[u] = jobs[u]  BY <1>1, <2>1
    <2>5. \A j \in joined : Awaited(jobs', j)
      <3>1. TAKE j \in joined
      <3>2. Awaited(jobs, j) /\ j.who \in chans[j.on].members  BY <1>2, <1>a
      <3> QED  BY <2>3, <2>4, <3>2 DEF Awaited
    <2>6. \A j \in joined : Delivered(published', outbox, j)
      <3>1. TAKE j \in joined
      <3>2. Delivered(published, outbox, j)  BY <1>2
      <3> QED  BY <1>1, <2>2, <2>3, <3>2 DEF Delivered
    <2> QED  BY <2>1, <2>5, <2>6 DEF NewsReach
  <1>17. ASSUME NEW t \in Callers, SendOne(t) PROVE NewsReach'
    <2>1. jobs[t] \in Sending(n, p) /\ jobs[t].at = "send"  BY <1>1, <1>17, AtTells DEF SendOne
    <2>2. PICK c : /\ outbox' = Append(outbox, [to |-> c, msg |-> jobs[t].msg])
                   /\ Do(t, [jobs[t] EXCEPT !.visited = @ \cup {c}])
      BY <1>17 DEF SendOne
    <2>3. UNCHANGED <<published, joined>>  BY <1>17 DEF SendOne, historyOfChannels
    <2> DEFINE x == [jobs[t] EXCEPT !.visited = @ \cup {c}]
    <2>4. /\ x.at = "send" /\ x.msg = jobs[t].msg /\ x.who = jobs[t].who /\ x.on = jobs[t].on
          /\ x.waiting = jobs[t].waiting
      BY <2>1 DEF Sending
    <2>5. \A i \in DOMAIN outbox : i \in DOMAIN outbox' /\ outbox'[i] = outbox[i]  BY <1>1, <2>2
    <2>6. jobs'[t] = x /\ \A u \in Callers : u # t => jobs'[u] = jobs[u]  BY <1>1, <2>2 DEF Do
    <2> HIDE DEF x
    <2>7. \A j \in joined : Awaited(jobs', j)
      BY <1>2, <2>1, <2>4, <2>6 DEF Awaited
    <2>8. \A d, m : Copied(outbox, d, m) => Copied(outbox', d, m)  BY <2>5 DEF Copied
    <2>9. \A j \in joined : Delivered(published, outbox', j)  BY <1>2, <2>8 DEF Delivered
    <2> QED  BY <2>3, <2>7, <2>9 DEF NewsReach
  <1>18. ASSUME NEW t \in Callers, EndPublish(t) PROVE NewsReach'
    <2> DEFINE m0 == jobs[t].msg
    <2>1. /\ published' = [published EXCEPT ![m0].over = TRUE] /\ UNCHANGED <<outbox, joined>>
          /\ jobs' = [jobs EXCEPT ![t] = Free] /\ jobs[t].at = "send"
          /\ jobs[t].waiting \cap chans[jobs[t].on].members \subseteq jobs[t].visited
      BY <1>18 DEF EndPublish, Do
    <2>2. jobs'[t] = Free /\ \A u \in Callers : u # t => jobs'[u] = jobs[u]  BY <1>1, <2>1
    <2>3. \A j \in joined : Awaited(jobs', j)  BY <1>2, <2>2 DEF Awaited, Free
    <2>4. m0 \in 1..p  BY <1>3, <2>1
    <2>5. /\ DOMAIN published' = 1..p
          /\ \A m \in 1..p : /\ m # m0 => published'[m] = published[m]
                             /\ published'[m].on = published[m].on
                             /\ published'[m].by = published[m].by
      <3> HIDE DEF m0
      <3> QED  BY <1>1, <2>1, <2>4
    <2>6. SendFits(jobs[t], published, outbox)  BY <2>1 DEF SendsFit
    <2>7. ASSUME NEW j \in joined, NEW m \in 1..p,
                 published'[m].on = j.on, published'[m].by # j.who, m > j.upto, published'[m].over
          PROVE  Copied(outbox, j.who, m)
      <3>1. CASE m # m0
        <4>1. Delivered(published, outbox, j)  BY <1>2
        <4>2. published'[m] = published[m]  BY <2>5, <3>1
        <4> QED  BY <1>1, <2>7, <4>1, <4>2 DEF Delivered
      <3>2. CASE m = m0
        <4>1. published[m].on = j.on /\ published[m].by # j.who  BY <2>5, <2>7
        <4>2. jobs[t].on = j.on /\ jobs[t].who # j.who  BY <2>6, <3>2, <4>1 DEF SendFits
        <4>3. j.upto < jobs[t].msg  BY <1>b, <2>4, <2>7, <3>2
        <4>4. j.who \in jobs[t].waiting  BY <1>2, <2>1, <4>2, <4>3 DEF Awaited
        <4>5. j.who \in jobs[t].visited  BY <1>a, <2>1, <4>2, <4>4
        <4> QED  BY <2>6, <3>2, <4>2, <4>5 DEF SendFits
      <3> QED  BY <3>1, <3>2
    <2>8. \A j \in joined : Delivered(published', outbox, j)  BY <2>5, <2>7 DEF Delivered
    <2> QED  BY <2>1, <2>3, <2>8 DEF NewsReach
  <1> QED  BY <1>7, <1>8, <1>9, <1>10, <1>11, <1>12, <1>13, <1>14, <1>15, <1>16, <1>17, <1>18
        DEF ManagedNext

LEMMA ManagedStart == ManagedInit => ManagedIInv
  <1>1. SUFFICES ASSUME ManagedInit PROVE ManagedIInv  OBVIOUS
  <1>2. DOMAIN <<>> = {} /\ Len(<<>>) = 0  OBVIOUS
  <1>3. /\ chans = <<>> /\ outbox = <<>> /\ published = <<>> /\ joined = {} /\ raced = {}
        /\ parted = {} /\ named = 0 /\ started = 0 /\ jobs = [t \in Callers |-> Free]
    BY <1>1 DEF ManagedInit
  <1>4. DOMAIN chans = {} /\ DOMAIN outbox = {} /\ DOMAIN published = {}
        /\ Len(chans) = 0 /\ Len(published) = 0
    BY <1>2, <1>3
  <1>5. DOMAIN jobs = Callers /\ \A t \in Callers : jobs[t] = Free /\ jobs[t].at = "free"
    BY <1>3 DEF Free
  <1>6. ManagedShape
    <2>1. chans \in Seq(ChannelRecord) /\ published \in Seq([on : Nat, by : Members, over : BOOLEAN])
          /\ outbox \in Seq([to : Members, msg : 1..0])
      BY <1>3
    <2>2. Len(chans) <= MaxCreated /\ started \in 0..MaxJobs /\ named \in 0..0
      BY <1>3, <1>4, ManagedAssumption
    <2> QED  BY <1>3, <1>4, <1>5, <2>1, <2>2 DEF ManagedShape, JobFits
  <1>7. LimitKept /\ HistoriesFit /\ JoinedFit /\ NewsReach
    BY <1>3, <1>4 DEF LimitKept, HistoriesFit, JoinedFit, NewsReach
  <1>8. NameKept  BY <1>3, <1>5 DEF NameKept, NamesLostByOverlap
  <1>9. SendsFit  BY <1>4, <1>5 DEF SendsFit
  <1> QED  BY <1>6, <1>7, <1>8, <1>9 DEF ManagedIInv

LEMMA ManagedStep ==
  ASSUME ManagedIInv, [ManagedNext]_managedVars
  PROVE  ManagedIInv'
  <1>1. CASE ManagedNext
    BY <1>1, ShapeKept, LimitStays, NameStays, HistoriesStay, JoinsStay, SendsStay, NewsStay
    DEF ManagedIInv
  <1>2. CASE UNCHANGED managedVars
    <2>1. UNCHANGED <<named, chans, outbox, jobs, started, published, joined, raced, parted, amid>>
      BY <1>2 DEF managedVars, historyOfChannels
    <2>2. ManagedShape' /\ LimitKept'  BY <2>1 DEF ManagedIInv, ManagedShape, LimitKept
    <2>3. NameKept' /\ HistoriesFit' /\ JoinedFit'
      BY <2>1 DEF ManagedIInv, NameKept, NamesLostByOverlap, HistoriesFit, JoinedFit
    <2>4. SendsFit' /\ NewsReach'  BY <2>1 DEF ManagedIInv, SendsFit, NewsReach
    <2> QED  BY <2>2, <2>3, <2>4 DEF ManagedIInv
  <1> QED  BY <1>1, <1>2

LEMMA ManagedRight == ManagedIInv => SharedManagerHolds /\ ManagedTypeOK
  <1>1. SUFFICES ASSUME ManagedIInv PROVE SharedManagerHolds /\ ManagedTypeOK  OBVIOUS
  <1>2. ManagedShape /\ LimitKept /\ NameKept /\ HistoriesFit /\ JoinedFit /\ SendsFit /\ NewsReach
    BY <1>1 DEF ManagedIInv
  <1> DEFINE n == Len(chans)
             p == Len(published)
  <1>3. /\ n \in Nat /\ p \in Nat /\ DOMAIN published = 1..p /\ DOMAIN chans = 1..n
        /\ DOMAIN outbox = 1..Len(outbox) /\ Len(outbox) \in Nat
        /\ \A t \in Callers : JobFits(jobs[t], n, p)
        /\ \A j \in joined : j \in Joins(n, p)
        /\ \A o \in 1..n : chans[o] \in ChannelRecord /\ IsFiniteSet(chans[o].members)
        /\ \A i \in 1..Len(outbox) : outbox[i] \in [to : Members, msg : 1..p]
        /\ n <= MaxCreated /\ raced \subseteq 1..n /\ named \in 0..n /\ started \in 0..MaxJobs
    BY <1>2, ManagedParts DEF ManagedShape
  <1> HIDE DEF n, p
  <1>4. LimitGivesToRacesOnly
    <2>1. ASSUME NEW o \in 1..n, chans[o].limit # NoLimit
          PROVE  Cardinality(chans[o].members)
                   <= chans[o].limit + IF o \in raced THEN Cardinality(Callers) - 1 ELSE 0
      <3> DEFINE a == Cardinality(chans[o].members)
                 b == Cardinality(Joining(jobs, o))
                 r == IF o \in raced THEN Cardinality(Callers) - 1 ELSE 0
      <3>1. a \in Nat  BY <1>3, FS_CardinalityType
      <3>2. b \in Nat
        <4>1. Joining(jobs, o) \subseteq Callers  BY DEF Joining
        <4> QED  BY <4>1, ManagedAssumption, FS_Subset, FS_CardinalityType
      <3>3. r \in Int  BY ManagedAssumption, FS_CardinalityType
      <3>4. a + b <= chans[o].limit + r  BY <1>2, <1>3, <2>1 DEF LimitKept, Room
      <3>5. chans[o].limit \in Nat  BY <1>3, <2>1 DEF ChannelRecord
      <3>6. a <= chans[o].limit + r
        <4> HIDE DEF a, b, r
        <4> QED  BY <3>1, <3>2, <3>3, <3>4, <3>5
      <3> QED  BY <3>6
    <2> QED  BY <1>3, <2>1 DEF LimitGivesToRacesOnly
  <1>5. ASSUME NEW j \in joined, NEW m \in 1..p, published[m].on = j.on, published[m].by # j.who
        PROVE  LET copies == {i \in DOMAIN outbox : outbox[i] = [to |-> j.who, msg |-> m]}
                   newer == {e \in (m + 1)..j.upto : published[e].on = j.on}
               IN /\ Cardinality(copies) <= 1
                  /\ \/ m \in Range(j.shown) \/ copies # {}
                     \/ m <= j.upto /\ Cardinality(newer) >= chans[j.on].size
                     \/ m > j.upto /\ ~published[m].over
    <2> DEFINE copies == {i \in DOMAIN outbox : outbox[i] = [to |-> j.who, msg |-> m]}
               newer == {e \in (m + 1)..j.upto : published[e].on = j.on}
    <2>1. Cardinality(copies) <= 1
      <3>1. \A i, k \in copies : i = k  BY <1>2 DEF SendsFit
      <3>2. CASE copies = {}
        <4>1. Cardinality(copies) = 0  BY <3>2, FS_EmptySet
        <4> QED  BY <4>1
      <3>3. CASE copies # {}
        <4>1. PICK i : i \in copies  BY <3>3
        <4>2. copies = {i}  BY <3>1, <4>1
        <4>3. Cardinality(copies) = 1  BY <4>2, FS_Singleton
        <4> QED  BY <4>3
      <3> QED  BY <3>2, <3>3
    <2>2. CASE m > j.upto
      <3>1. published[m].over => copies # {}
        <4>1. Delivered(published, outbox, j)  BY <1>2 DEF NewsReach
        <4> QED  BY <1>3, <1>5, <2>2, <4>1 DEF Delivered, Copied
      <3> QED  BY <2>1, <2>2, <3>1
    <2>3. CASE ~(m > j.upto)
      <3>1. j.upto \in 0..p  BY <1>3 DEF Joins
      <3>2. m <= j.upto /\ m \in 1..j.upto  BY <1>3, <2>3, <3>1
      <3>3. m \in Range(j.shown) \/ Cardinality(About(published, j.on, (m + 1)..j.upto)) >= chans[j.on].size
        BY <1>2, <1>5, <3>2 DEF JoinedFit, Recalls
      <3>4. About(published, j.on, (m + 1)..j.upto) = newer  BY DEF About
      <3> QED  BY <2>1, <3>2, <3>3, <3>4
    <2> QED  BY <2>2, <2>3
  <1>6. NothingMissed  BY <1>3, <1>5 DEF NothingMissed
  <1>7. NamesLostByOverlap  BY <1>2 DEF NameKept
  <1>8. ManagedTypeOK
    <2>1. named \in 0..Len(chans) /\ Len(chans) <= MaxCreated /\ started \in 0..MaxJobs
          /\ raced \subseteq DOMAIN chans
      BY <1>3 DEF n
    <2>2. \A o \in DOMAIN chans : chans[o].members \subseteq Members
                                  /\ chans[o].history \in Seq(DOMAIN published)
      <3>1. TAKE o \in DOMAIN chans
      <3>2. chans[o] \in ChannelRecord /\ HistoryFits(chans[o].history, chans[o].size, published, o)
        BY <1>2, <1>3 DEF HistoriesFit
      <3>3. chans[o].history \in Seq(Nat) /\ chans[o].members \subseteq Members
        BY <3>2 DEF ChannelRecord
      <3> DEFINE h == chans[o].history
      <3>4. h \in Seq(Nat) /\ \A i \in DOMAIN h : h[i] \in 1..p  BY <3>2, <3>3 DEF HistoryFits, p
      <3> HIDE DEF h
      <3>5. Len(h) \in Nat /\ DOMAIN h = 1..Len(h)  BY <3>4
      <3>6. h \in [1..Len(h) -> 1..p]  BY <3>4, <3>5
      <3>7. h \in Seq(1..p)  BY <3>5, <3>6, SeqDef
      <3> QED  BY <1>3, <3>3, <3>7 DEF h
    <2>3. \A i \in DOMAIN outbox : outbox[i].to \in Members /\ outbox[i].msg \in DOMAIN published
      BY <1>3
    <2>4. \A t \in Callers : jobs[t].at \in Steps  BY <1>3, AtTells DEF Steps
    <2>5. \A j \in joined : j.who \in Members /\ j.on \in DOMAIN chans  BY <1>3 DEF Joins
    <2> QED  BY <2>1, <2>2, <2>3, <2>4, <2>5 DEF ManagedTypeOK
  <1> QED  BY <1>4, <1>6, <1>7, <1>8 DEF SharedManagerHolds

-----------------------------------------------------------------------------
(***************************************************************************)
(* The hook registry.  What was asked for is registered or queues; a call  *)
(* has before it in the queue the registrations it must see; who holds the *)
(* lock runs a hook, or queues because that hook called back.              *)
(***************************************************************************)

HookWish == [who : HookTasks, wants : HookKinds \cup {"read", "pass"}]
HookCall == [of : CallKinds, ran : Nat, after : Nat]

\* The registrations among the first i that queue.
Registrations(w, i) == {k \in 1..i : w[k].wants # "read"}

HooksShape ==
  /\ hooks \in Seq(HookKinds) /\ waitingFor \in Seq(HookWish)
  /\ holding \in [HookTasks -> 0..2]
  /\ DOMAIN hookCalls = HookTasks
  /\ \A t \in HookTasks : hookCalls[t] = AtRest \/ hookCalls[t] \in HookCall
  /\ asked \in [all : 0..MaxHookCalls, registered : Nat] /\ asked.registered <= asked.all

\* A hook that calls the registry is next.
AtCallBack(hk, c) == c.ran < Len(hk) /\ CallsBack(c.of, hk[c.ran + 1])
CallFits(hk, c, locks) ==
  IF c = AtRest THEN locks = 0
  ELSE /\ c.ran <= Len(hk) /\ \A i \in 1..c.ran : ~Ends(c.of, hk[i])
       /\ locks > 0 => c.after <= Len(hk)
       /\ locks = 2 => AtCallBack(hk, c)
CallsFit == \A t \in HookTasks : CallFits(hooks, hookCalls[t], holding[t])

WishFits(hk, w, i, c, locks) ==
  /\ w[i].wants = "read" => c # AtRest /\ c.after <= Len(hk) + Cardinality(Registrations(w, i))
  /\ locks > 0 => locks = 1 /\ c # AtRest /\ AtCallBack(hk, c)
  /\ locks = 0 => w[i].wants \in HookKinds \cup {"read"}
QueueFits ==
  /\ \A i, k \in DOMAIN waitingFor : waitingFor[i].who = waitingFor[k].who => i = k
  /\ \A i \in DOMAIN waitingFor :
        WishFits(hooks, waitingFor, i, hookCalls[waitingFor[i].who], holding[waitingFor[i].who])

AskedFit ==
  asked.registered <= Len(hooks) + Cardinality(Registrations(waitingFor, Len(waitingFor)))

OutcomeFits(o) ==
  /\ o.of \in CallKinds /\ Len(o.saw) >= o.after /\ \A i \in 1..o.ran : ~Ends(o.of, o.saw[i])
  /\ IF o.ended THEN Ends(o.of, o.saw[o.ran + 1]) ELSE o.ran = Len(o.saw)
OutcomesFit == \A o \in outcomes : OutcomeFits(o)

HooksIInv == HooksShape /\ CallsFit /\ QueueFits /\ AskedFit /\ OutcomesFit

LEMMA RegistrationsFinite ==
  ASSUME NEW w, NEW i \in Nat
  PROVE  IsFiniteSet(Registrations(w, i)) /\ Cardinality(Registrations(w, i)) \in Nat
  <1>1. Registrations(w, i) \subseteq 1..i /\ IsFiniteSet(1..i)  BY FS_Interval DEF Registrations
  <1> QED  BY <1>1, FS_Subset, FS_CardinalityType

\* Whoever queues last has all others before it.
AddsLast(w, e, w2) ==
  /\ Len(w2) = Len(w) + 1 /\ DOMAIN w2 = 1..(Len(w) + 1) /\ w2[Len(w) + 1] = e
  /\ \A i \in 1..Len(w) : w2[i] = w[i] /\ Registrations(w2, i) = Registrations(w, i)
  /\ \A i \in 1..(Len(w) + 1) : i \in 1..Len(w) \/ i = Len(w) + 1
  /\ e.wants = "read" => Registrations(w2, Len(w) + 1) = Registrations(w, Len(w))
  /\ e.wants # "read" => Cardinality(Registrations(w2, Len(w) + 1))
                           = Cardinality(Registrations(w, Len(w))) + 1
LEMMA JoinsLast ==
  ASSUME NEW S, NEW w \in Seq(S), NEW e
  PROVE  AddsLast(w, e, Append(w, e))
  <1> DEFINE w2 == Append(w, e)
             l == Len(w)
  <1>1. l \in Nat /\ Len(w2) = l + 1 /\ DOMAIN w2 = 1..(l + 1) /\ w2[l + 1] = e
        /\ \A i \in 1..l : w2[i] = w[i]
    OBVIOUS
  <1> HIDE DEF l
  <1>2. \A i \in 1..l : Registrations(w2, i) = Registrations(w, i)
    <2>1. \A i \in 1..l : 1..i \subseteq 1..l  BY <1>1
    <2> QED  BY <1>1, <2>1 DEF Registrations
  <1>3. \A i \in 1..(l + 1) : i \in 1..l \/ i = l + 1  BY <1>1
  <1>4. 1..l \subseteq 1..(l + 1) /\ l + 1 \in 1..(l + 1) /\ l + 1 \notin 1..l  BY <1>1
  <1>5. e.wants = "read" => Registrations(w2, l + 1) = Registrations(w, l)
    BY <1>1, <1>3, <1>4 DEF Registrations
  <1>6. ASSUME e.wants # "read"
        PROVE  Cardinality(Registrations(w2, l + 1)) = Cardinality(Registrations(w, l)) + 1
    <2>1. Registrations(w2, l + 1) = Registrations(w, l) \cup {l + 1}
      BY <1>1, <1>3, <1>4, <1>6 DEF Registrations
    <2>2. l + 1 \notin Registrations(w, l)  BY <1>4 DEF Registrations
    <2>3. IsFiniteSet(Registrations(w, l))  BY <1>1, RegistrationsFinite
    <2> HIDE DEF l
    <2> QED  BY <2>1, <2>2, <2>3, FS_AddElement
  <1>7. l = Len(w)  BY DEF l
  <1> HIDE DEF w2
  <1>8. AddsLast(w, e, w2)  BY <1>1, <1>2, <1>3, <1>5, <1>6, <1>7 DEF AddsLast
  <1> QED  BY <1>8 DEF w2

\* As the first goes, the others move up.
MovesUp(w, w2) ==
  /\ Len(w) \in Nat \ {0} /\ DOMAIN w = 1..Len(w)
  /\ Len(w2) = Len(w) - 1 /\ DOMAIN w2 = 1..(Len(w) - 1)
  /\ \A i \in DOMAIN w2 : i + 1 \in DOMAIN w /\ w2[i] = w[i + 1]
  /\ \A i \in 0..(Len(w) - 1) :
       Cardinality(Registrations(w, i + 1))
         <= Cardinality(Registrations(w2, i)) + IF w[1].wants = "read" THEN 0 ELSE 1
LEMMA FirstGoes ==
  ASSUME NEW S, NEW w \in Seq(S), w # <<>>
  PROVE  Tail(w) \in Seq(S) /\ MovesUp(w, Tail(w))
  <1> DEFINE w2 == Tail(w)
  <1>1. /\ Len(w) \in Nat \ {0} /\ DOMAIN w = 1..Len(w) /\ w2 \in Seq(S)
        /\ Len(w2) = Len(w) - 1 /\ DOMAIN w2 = 1..(Len(w) - 1)
        /\ \A i \in DOMAIN w2 : w2[i] = w[i + 1]
    OBVIOUS
  <1>2. \A i \in DOMAIN w2 : i + 1 \in DOMAIN w  BY <1>1
  <1>3. ASSUME NEW i \in 0..(Len(w) - 1)
        PROVE  Cardinality(Registrations(w, i + 1))
                 <= Cardinality(Registrations(w2, i)) + IF w[1].wants = "read" THEN 0 ELSE 1
    <2> DEFINE A == Registrations(w2, i)
               B == {k + 1 : k \in A}
               C == Registrations(w, i + 1)
    <2>1. i \in Nat /\ IsFiniteSet(A) /\ Cardinality(A) \in Nat
      <3>1. i \in Nat  BY <1>1
      <3> QED  BY <3>1, RegistrationsFinite
    <2>2. IsFiniteSet(B) /\ Cardinality(B) \in Nat /\ Cardinality(B) <= Cardinality(A)
      <3> DEFINE f == [k \in A |-> k + 1]
      <3>1. f \in Surjection(A, B)  BY DEF Surjection
      <3> HIDE DEF A, B, f
      <3> QED  BY <2>1, <3>1, FS_Surjection, FS_CardinalityType
    <2>3. \A k \in C : k = 1 \/ k \in B
      <3>1. TAKE k \in C
      <3>2. k \in 1..(i + 1) /\ w[k].wants # "read"  BY DEF Registrations
      <3>3. CASE k # 1
        <4>1. k - 1 \in 1..i /\ k = (k - 1) + 1  BY <2>1, <3>2, <3>3
        <4>2. k - 1 \in DOMAIN w2  BY <1>1, <4>1
        <4>3. w2[k - 1] = w[k]  BY <1>1, <4>1, <4>2
        <4>4. k - 1 \in A  BY <3>2, <4>1, <4>3 DEF Registrations
        <4> QED  BY <4>1, <4>4
      <3> QED  BY <3>3
    <2>4. w[1].wants = "read" => 1 \notin C  BY DEF Registrations
    <2>5. CASE w[1].wants = "read"
      <3>1. C \subseteq B  BY <2>3, <2>4, <2>5
      <3> HIDE DEF A, B, C
      <3>2. Cardinality(C) <= Cardinality(B) /\ Cardinality(C) \in Nat
        BY <2>2, <3>1, FS_Subset, FS_CardinalityType
      <3>3. Cardinality(C) <= Cardinality(A) + 0  BY <2>1, <2>2, <3>2
      <3> QED  BY <2>5, <3>3 DEF A, C
    <2>6. CASE w[1].wants # "read"
      <3>1. C \subseteq B \cup {1}  BY <2>3
      <3> HIDE DEF A, B, C
      <3>2. IsFiniteSet(B \cup {1}) /\ Cardinality(B \cup {1}) \in Nat
            /\ Cardinality(B \cup {1}) <= Cardinality(B) + 1
        <4>1. IsFiniteSet(B \cup {1}) /\ (Cardinality(B \cup {1}) = Cardinality(B)
                                          \/ Cardinality(B \cup {1}) = Cardinality(B) + 1)
          BY <2>2, FS_AddElement
        <4> QED  BY <2>2, <4>1
      <3>3. Cardinality(C) <= Cardinality(B \cup {1}) /\ Cardinality(C) \in Nat
        BY <3>1, <3>2, FS_Subset, FS_CardinalityType
      <3>4. Cardinality(C) <= Cardinality(A) + 1  BY <2>1, <2>2, <3>2, <3>3
      <3> QED  BY <2>6, <3>4 DEF A, C
    <2> QED  BY <2>5, <2>6
  <1> HIDE DEF w2
  <1>4. MovesUp(w, w2)  BY <1>1, <1>2, <1>3 DEF MovesUp
  <1> QED  BY <1>1, <1>4 DEF w2

LEMMA HooksParts ==
  ASSUME HooksShape
  PROVE  /\ Len(hooks) \in Nat /\ DOMAIN hooks = 1..Len(hooks)
         /\ \A i \in 1..Len(hooks) : hooks[i] \in HookKinds
         /\ Len(waitingFor) \in Nat /\ DOMAIN waitingFor = 1..Len(waitingFor)
         /\ \A i \in 1..Len(waitingFor) : waitingFor[i] \in HookWish
         /\ \A t \in HookTasks : holding[t] \in 0..2
         /\ asked.registered \in Nat /\ asked.all \in 0..MaxHookCalls /\ MaxHookCalls \in Nat
         /\ "read" \notin HookKinds
  <1>1. hooks \in Seq(HookKinds) /\ waitingFor \in Seq(HookWish)  BY DEF HooksShape
  <1>2. Len(hooks) \in Nat /\ DOMAIN hooks = 1..Len(hooks)
        /\ Len(waitingFor) \in Nat /\ DOMAIN waitingFor = 1..Len(waitingFor)
    BY <1>1
  <1>3. \A i \in 1..Len(hooks) : hooks[i] \in HookKinds  BY <1>1, ElementOfSeq
  <1>4. \A i \in 1..Len(waitingFor) : waitingFor[i] \in HookWish  BY <1>1, ElementOfSeq
  <1>5. "read" \notin HookKinds /\ MaxHookCalls \in Nat  BY HooksAssumption
  <1> QED  BY <1>2, <1>3, <1>4, <1>5 DEF HooksShape

\* A task that does not queue moves: those that do are as they were.
LEMMA QueueRests ==
  ASSUME HooksShape, QueueFits, NEW t, ~Queued(t), UNCHANGED <<hooks, waitingFor>>,
         \A u \in HookTasks \ {t} : hookCalls'[u] = hookCalls[u] /\ holding'[u] = holding[u]
  PROVE  QueueFits'
  <1>1. \A i \in DOMAIN waitingFor : waitingFor[i].who \in HookTasks \ {t}
    BY HooksParts DEF Queued, HookWish
  <1> QED  BY <1>1 DEF QueueFits

\* ... or it queues now.
LEMMA QueueGrows ==
  ASSUME HooksShape, QueueFits, NEW t \in HookTasks, ~Queued(t), NEW k \in HookKinds \cup {"read", "pass"},
         Join(t, k), UNCHANGED <<hooks, holding>>,
         \A u \in HookTasks \ {t} : hookCalls'[u] = hookCalls[u],
         k = "read" => hookCalls'[t] # AtRest /\ hookCalls'[t].after
                          <= Len(hooks) + Cardinality(Registrations(waitingFor, Len(waitingFor))),
         holding[t] > 0 => holding[t] = 1 /\ hookCalls'[t] # AtRest /\ AtCallBack(hooks, hookCalls'[t]),
         holding[t] = 0 => k \in HookKinds \cup {"read"}
  PROVE  QueueFits' /\ waitingFor' \in Seq(HookWish)
         /\ Len(hooks) + Cardinality(Registrations(waitingFor', Len(waitingFor')))
              = Len(hooks) + Cardinality(Registrations(waitingFor, Len(waitingFor)))
                  + (IF k = "read" THEN 0 ELSE 1)
  <1> DEFINE w == waitingFor
             w2 == waitingFor'
             e == [who |-> t, wants |-> k]
             l == Len(waitingFor)
  <1>1. /\ w \in Seq(HookWish) /\ e \in HookWish /\ w2 = Append(w, e)
        /\ DOMAIN w = 1..l /\ l \in Nat /\ \A i \in 1..l : w[i] \in HookWish
    BY HooksParts DEF HooksShape, Join, HookWish
  <1>2. \A i \in DOMAIN w : w[i].who \in HookTasks \ {t}
    BY <1>1 DEF Queued, HookWish
  <1>3. e.who = t /\ e.wants = k  OBVIOUS
  <1>4. /\ \A i, j \in DOMAIN w : w[i].who = w[j].who => i = j
        /\ \A i \in DOMAIN w : WishFits(hooks, w, i, hookCalls[w[i].who], holding[w[i].who])
    BY DEF QueueFits
  <1>5. Len(w) = l  OBVIOUS
  <1> HIDE DEF w, w2, e, l
  <1>6. w2 \in Seq(HookWish)  BY <1>1
  <1>7. /\ Len(w2) = l + 1 /\ DOMAIN w2 = 1..(l + 1) /\ w2[l + 1] = e
        /\ \A i \in 1..l : w2[i] = w[i] /\ Registrations(w2, i) = Registrations(w, i)
        /\ \A i \in 1..(l + 1) : i \in 1..l \/ i = l + 1
        /\ e.wants = "read" => Registrations(w2, l + 1) = Registrations(w, l)
        /\ e.wants # "read" => Cardinality(Registrations(w2, l + 1))
                                 = Cardinality(Registrations(w, l)) + 1
    <2>1. w \in Seq(HookWish)  BY <1>1
    <2>2. AddsLast(w, e, Append(w, e))  BY <2>1, JoinsLast
    <2> QED  BY <1>1, <1>5, <2>2 DEF AddsLast
  <1>8. \A i, j \in DOMAIN w2 : w2[i].who = w2[j].who => i = j
    <2>1. \A i \in 1..l : w2[i].who # t  BY <1>1, <1>2, <1>7
    <2>2. \A i, j \in 1..l : w2[i].who = w2[j].who => i = j  BY <1>1, <1>4, <1>7
    <2>3. w2[l + 1].who = t  BY <1>3, <1>7
    <2> QED  BY <1>7, <2>1, <2>2, <2>3
  <1>9. ASSUME NEW i \in 1..l
        PROVE  WishFits(hooks, w2, i, hookCalls'[w2[i].who], holding[w2[i].who])
    <2>1. w2[i].who = w[i].who /\ w2[i].wants = w[i].wants /\ Registrations(w2, i) = Registrations(w, i)
      BY <1>7
    <2>2. hookCalls'[w[i].who] = hookCalls[w[i].who]  BY <1>1, <1>2
    <2> QED  BY <1>1, <1>4, <2>1, <2>2 DEF WishFits
  <1>10. WishFits(hooks, w2, l + 1, hookCalls'[w2[l + 1].who], holding[w2[l + 1].who])
    <2>1. w2[l + 1].who = t /\ w2[l + 1].wants = k  BY <1>3, <1>7
    <2>2. k = "read" => Cardinality(Registrations(w2, l + 1)) = Cardinality(Registrations(w, l))
      BY <1>3, <1>7
    <2>3. k = "read" => hookCalls'[t].after <= Len(hooks) + Cardinality(Registrations(w, l))
      BY DEF w, l
    <2> QED  BY <2>1, <2>2, <2>3 DEF WishFits
  <1>11. \A i \in DOMAIN w2 : WishFits(hooks, w2, i, hookCalls'[w2[i].who], holding[w2[i].who])
    BY <1>7, <1>9, <1>10
  <1>12. QueueFits'  BY <1>8, <1>11 DEF QueueFits, w2
  <1>13. Len(hooks) + Cardinality(Registrations(w2, Len(w2)))
           = Len(hooks) + Cardinality(Registrations(w, l)) + (IF k = "read" THEN 0 ELSE 1)
    <2>1. Cardinality(Registrations(w, l)) \in Nat /\ Len(hooks) \in Nat
      BY <1>1, HooksParts, RegistrationsFinite
    <2>2. CASE k = "read"  BY <1>3, <1>7, <2>1, <2>2
    <2>3. CASE k # "read"
      <3>1. Cardinality(Registrations(w2, Len(w2))) = Cardinality(Registrations(w, l)) + 1
        BY <1>3, <1>7, <2>3
      <3> QED  BY <2>1, <2>3, <3>1
    <2> QED  BY <2>2, <2>3
  <1> QED  BY <1>6, <1>12, <1>13 DEF w, w2, l

\* ... or the first goes: the others have less before them.
LEMMA QueueShrinks ==
  ASSUME HooksShape, QueueFits, AskedFit, waitingFor # <<>>, waitingFor' = Tail(waitingFor),
         UNCHANGED <<hookCalls, asked>>, NEW g \in 0..1, Len(hooks') = Len(hooks) + g,
         g = IF waitingFor[1].wants = "read" THEN 0 ELSE 1,
         \A u \in HookTasks \ {waitingFor[1].who} : holding'[u] = holding[u],
         \A u \in HookTasks : holding[u] > 0 => hooks' = hooks
  PROVE  QueueFits' /\ AskedFit' /\ waitingFor' \in Seq(HookWish)
  <1> DEFINE w == waitingFor
             w2 == waitingFor'
             l == Len(waitingFor)
             n == Len(hooks)
  <1>1. /\ w \in Seq(HookWish) /\ w # <<>> /\ w2 = Tail(w) /\ DOMAIN w = 1..l /\ n \in Nat
        /\ \A i \in 1..l : w[i] \in HookWish
    BY HooksParts DEF HooksShape
  <1>2. /\ \A i, j \in DOMAIN w : w[i].who = w[j].who => i = j
        /\ \A i \in DOMAIN w : WishFits(hooks, w, i, hookCalls[w[i].who], holding[w[i].who])
        /\ asked.registered <= n + Cardinality(Registrations(w, l))
        /\ Len(w) = l /\ Len(hooks') = n + g /\ asked.registered \in Nat
    BY HooksParts DEF QueueFits, AskedFit
  <1>3. g = IF w[1].wants = "read" THEN 0 ELSE 1  OBVIOUS
  <1>d. n = Len(hooks)  OBVIOUS
  <1> HIDE DEF w, w2, l, n
  <1>4. /\ l \in Nat \ {0} /\ w2 \in Seq(HookWish) /\ Len(w2) = l - 1 /\ DOMAIN w2 = 1..(l - 1)
        /\ \A i \in DOMAIN w2 : i + 1 \in DOMAIN w /\ w2[i] = w[i + 1]
        /\ \A i \in 0..(l - 1) :
             Cardinality(Registrations(w, i + 1))
               <= Cardinality(Registrations(w2, i)) + IF w[1].wants = "read" THEN 0 ELSE 1
    <2>1. w \in Seq(HookWish) /\ w # <<>>  BY <1>1
    <2>2. Tail(w) \in Seq(HookWish) /\ MovesUp(w, Tail(w))  BY <2>1, FirstGoes
    <2> QED  BY <1>1, <1>2, <2>2 DEF MovesUp
  <1>5. \A i \in 0..(l - 1) : /\ Cardinality(Registrations(w, i + 1)) \in Nat
                              /\ Cardinality(Registrations(w2, i)) \in Nat
                              /\ n + Cardinality(Registrations(w, i + 1))
                                   <= (n + g) + Cardinality(Registrations(w2, i))
    <2>1. TAKE i \in 0..(l - 1)
    <2> DEFINE i1 == i + 1
               a == Cardinality(Registrations(w, i1))
               b == Cardinality(Registrations(w2, i))
    <2>2. i \in Nat /\ i1 \in Nat  BY <1>4
    <2>3. a <= b + g  BY <1>3, <1>4
    <2> HIDE DEF i1
    <2>4. a \in Nat /\ b \in Nat  BY <2>2, RegistrationsFinite
    <2> HIDE DEF a, b
    <2>5. n + a <= (n + g) + b  BY <1>1, <2>3, <2>4
    <2> QED  BY <2>4, <2>5 DEF a, b, i1
  <1>6. \A i, j \in DOMAIN w2 : w2[i].who = w2[j].who => i = j
    <2>1. \A i, j \in 1..(l - 1) : i + 1 = j + 1 => i = j  BY <1>4
    <2> QED  BY <1>2, <1>4, <2>1
  <1>7. ASSUME NEW i \in DOMAIN w2
        PROVE  WishFits(hooks', w2, i, hookCalls[w2[i].who], holding'[w2[i].who])
    <2> DEFINE i1 == i + 1
               u == w[i1].who
               c == hookCalls[u]
    <2>1. i1 \in DOMAIN w /\ w2[i] = w[i1] /\ 1 \in DOMAIN w /\ i1 # 1 /\ i \in 0..(l - 1)
      BY <1>1, <1>4
    <2>2. u \in HookTasks /\ u # w[1].who  BY <1>1, <1>2, <2>1 DEF HookWish
    <2>3. holding'[u] = holding[u]  BY <2>2 DEF w
    <2>4. WishFits(hooks, w, i1, c, holding[u])  BY <1>2, <2>1
    <2>5. w[i1].wants = "read" => c.after <= Len(hooks') + Cardinality(Registrations(w2, i))
      <3>1. SUFFICES ASSUME w[i1].wants = "read"
                     PROVE  c.after <= Len(hooks') + Cardinality(Registrations(w2, i))
        OBVIOUS
      <3>2. c.after <= n + Cardinality(Registrations(w, i1)) /\ c # AtRest
        BY <1>d, <2>4, <3>1 DEF WishFits
      <3>3. c.after \in Nat  BY <2>2, <3>2 DEF HooksShape, HookCall
      <3> DEFINE a == Cardinality(Registrations(w, i1))
                 b == Cardinality(Registrations(w2, i))
      <3>4. a \in Nat /\ b \in Nat /\ n + a <= (n + g) + b /\ c.after <= n + a
        BY <1>5, <2>1, <3>2
      <3>5. c.after <= (n + g) + b
        <4> HIDE DEF a, b, c
        <4> QED  BY <1>1, <3>3, <3>4
      <3> QED  BY <1>2, <3>5
    <2>6. holding[u] > 0 => holding[u] = 1 /\ c # AtRest /\ AtCallBack(hooks', c)
      BY <2>2, <2>4 DEF WishFits
    <2> HIDE DEF c, i1
    <2>7. WishFits(hooks', w2, i, c, holding'[u])  BY <2>1, <2>3, <2>4, <2>5, <2>6 DEF WishFits
    <2> QED  BY <2>1, <2>7 DEF c
  <1>8. QueueFits'  BY <1>6, <1>7 DEF QueueFits, w2
  <1>9. AskedFit'
    <2> DEFINE a == Cardinality(Registrations(w, l))
               b == Cardinality(Registrations(w2, l - 1))
    <2>1. l - 1 \in 0..(l - 1) /\ (l - 1) + 1 = l  BY <1>4
    <2>2. a \in Nat /\ b \in Nat /\ n + a <= (n + g) + b  BY <1>5, <2>1
    <2>3. asked.registered <= (n + g) + b
      <3>1. asked.registered <= n + a  BY <1>2
      <3> HIDE DEF a, b
      <3> QED  BY <1>1, <1>2, <2>2, <3>1
    <2>4. asked'.registered <= Len(hooks') + Cardinality(Registrations(w2, Len(w2)))
      BY <1>2, <1>4, <2>3
    <2> QED  BY <2>4 DEF AskedFit, w2
  <1> QED  BY <1>4, <1>8, <1>9 DEF w2

LEMMA AskingKeeps ==
  ASSUME HooksIInv, NEW t \in HookTasks, AskToRegister(t) \/ AskToCall(t)
  PROVE  HooksIInv'
  <1>1. /\ HooksShape /\ CallsFit /\ QueueFits /\ AskedFit /\ OutcomesFit
        /\ hookCalls[t] = AtRest /\ ~Queued(t) /\ UNCHANGED <<hooks, holding, outcomes>>
        /\ Len(hooks) \in Nat /\ Len(waitingFor) \in Nat /\ DOMAIN hookCalls = HookTasks
        /\ asked.registered \in Nat /\ asked.all \in 0..MaxHookCalls /\ MaxHookCalls \in Nat
        /\ asked.registered <= asked.all /\ "read" \notin HookKinds
    BY HooksParts DEF HooksIInv, AskToRegister, AskToCall, HooksShape
  <1>2. holding[t] = 0  BY <1>1 DEF CallsFit, CallFits
  <1>3. OutcomesFit'  BY <1>1 DEF OutcomesFit
  <1> DEFINE r == Len(hooks) + Cardinality(Registrations(waitingFor, Len(waitingFor)))
             r2 == Len(hooks) + Cardinality(Registrations(waitingFor', Len(waitingFor')))
  <1>4. asked.registered <= r /\ r \in Nat  BY <1>1, RegistrationsFinite DEF AskedFit
  <1>5. CASE AskToRegister(t)
    <2>1. PICK k \in HookKinds : Join(t, k)  BY <1>5 DEF AskToRegister
    <2>2. UNCHANGED hookCalls /\ Ask(TRUE) /\ k # "read"  BY <1>1, <1>5 DEF AskToRegister
    <2>3. QueueFits' /\ waitingFor' \in Seq(HookWish) /\ r2 = r + 1
      BY <1>1, <1>2, <2>1, <2>2, QueueGrows
    <2>4. /\ asked' \in [all : 0..MaxHookCalls, registered : Nat] /\ asked'.registered <= asked'.all
          /\ asked'.registered = asked.registered + 1
      BY <1>1, <2>2 DEF Ask
    <2>5. asked'.registered <= r2
      <3> HIDE DEF r, r2
      <3> QED  BY <1>1, <1>4, <2>3, <2>4
    <2>6. AskedFit'  BY <1>1, <2>5 DEF AskedFit
    <2>7. HooksShape' /\ CallsFit'  BY <1>1, <2>2, <2>3, <2>4 DEF HooksShape, CallsFit
    <2> QED  BY <1>3, <2>3, <2>6, <2>7 DEF HooksIInv
  <1>6. CASE AskToCall(t)
    <2>1. PICK k \in CallKinds :
            hookCalls' = [hookCalls EXCEPT ![t] = [of |-> k, ran |-> 0, after |-> asked.registered]]
      BY <1>6 DEF AskToCall
    <2>2. Join(t, "read") /\ Ask(FALSE)  BY <1>6 DEF AskToCall
    <2> DEFINE c == [of |-> k, ran |-> 0, after |-> asked.registered]
    <2>3. c \in HookCall /\ c # AtRest /\ c.ran = 0 /\ c.after = asked.registered /\ c.of = k
      BY <1>1 DEF HookCall, AtRest
    <2>4. DOMAIN hookCalls' = HookTasks /\ hookCalls'[t] = c
          /\ \A u \in HookTasks \ {t} : hookCalls'[u] = hookCalls[u]
      BY <1>1, <2>1
    <2> HIDE DEF c
    <2>5. hookCalls'[t].after <= r  BY <1>4, <2>3, <2>4
    <2>6. QueueFits' /\ waitingFor' \in Seq(HookWish) /\ r2 = r + 0
      BY <1>1, <1>2, <2>2, <2>3, <2>4, <2>5, QueueGrows
    <2>7. /\ asked' \in [all : 0..MaxHookCalls, registered : Nat] /\ asked'.registered <= asked'.all
          /\ asked'.registered = asked.registered
      BY <1>1, <2>2 DEF Ask
    <2>8. asked'.registered <= r2
      <3> HIDE DEF r, r2
      <3> QED  BY <1>4, <2>6, <2>7
    <2>9. AskedFit'  BY <1>1, <2>8 DEF AskedFit
    <2>10. HooksShape'  BY <1>1, <2>3, <2>4, <2>6, <2>7 DEF HooksShape
    <2>11. CallFits(hooks, c, 0)  BY <1>1, <2>3 DEF CallFits
    <2>12. CallsFit'  BY <1>1, <1>2, <2>4, <2>11 DEF CallsFit
    <2> QED  BY <1>3, <2>6, <2>9, <2>10, <2>12 DEF HooksIInv
  <1> QED  BY <1>5, <1>6

LEMMA CallingBackKeeps ==
  ASSUME HooksIInv, NEW t \in HookTasks, CallBack(t)
  PROVE  HooksIInv'
  <1>1. /\ HooksShape /\ CallsFit /\ QueueFits /\ AskedFit /\ OutcomesFit
        /\ hookCalls[t] # AtRest /\ holding[t] = 1 /\ ~Queued(t) /\ hookCalls[t].ran < Len(hooks)
        /\ CallsBack(hookCalls[t].of, NextHook(t))
        /\ UNCHANGED <<hooks, holding, hookCalls, asked, outcomes>>
        /\ Len(hooks) \in Nat /\ Len(waitingFor) \in Nat /\ asked.registered \in Nat
    BY HooksParts DEF HooksIInv, CallBack, Running
  <1>2. PICK k \in {"read", "pass"} : Join(t, k)  BY <1>1 DEF CallBack
  <1>3. AtCallBack(hooks, hookCalls[t])  BY <1>1 DEF AtCallBack, NextHook
  <1> DEFINE r == Len(hooks) + Cardinality(Registrations(waitingFor, Len(waitingFor)))
             r2 == Len(hooks) + Cardinality(Registrations(waitingFor', Len(waitingFor')))
  <1>4. asked.registered <= r /\ r \in Nat /\ Cardinality(Registrations(waitingFor, Len(waitingFor))) \in Nat
    BY <1>1, RegistrationsFinite DEF AskedFit
  <1>5. hookCalls[t].after <= r
    <2>1. hookCalls[t].after <= Len(hooks)  BY <1>1 DEF CallsFit, CallFits
    <2>2. hookCalls[t].after \in Nat  BY <1>1 DEF HooksShape, HookCall
    <2> QED  BY <1>1, <1>4, <2>1, <2>2
  <1>6. QueueFits' /\ waitingFor' \in Seq(HookWish) /\ r2 = r + (IF k = "read" THEN 0 ELSE 1)
    <2>1. k \in HookKinds \cup {"read", "pass"}  OBVIOUS
    <2>2. UNCHANGED <<hooks, holding>> /\ \A u \in HookTasks \ {t} : hookCalls'[u] = hookCalls[u]
      BY <1>1
    <2>3. /\ k = "read" => hookCalls'[t] # AtRest /\ hookCalls'[t].after
                          <= Len(hooks) + Cardinality(Registrations(waitingFor, Len(waitingFor)))
          /\ holding[t] > 0 => holding[t] = 1 /\ hookCalls'[t] # AtRest /\ AtCallBack(hooks, hookCalls'[t])
          /\ holding[t] = 0 => k \in HookKinds \cup {"read"}
      BY <1>1, <1>3, <1>5
    <2> QED  BY <1>1, <1>2, <2>1, <2>2, <2>3, QueueGrows
  <1>7. asked.registered <= r2
    <2> HIDE DEF r, r2
    <2> QED  BY <1>1, <1>4, <1>6
  <1>8. AskedFit'  BY <1>1, <1>7 DEF AskedFit
  <1>9. HooksShape' /\ CallsFit' /\ OutcomesFit'  BY <1>1, <1>6 DEF HooksShape, CallsFit, OutcomesFit
  <1> QED  BY <1>6, <1>8, <1>9 DEF HooksIInv

\* The lock is given to the first.
LEMMA ReadKeeps ==
  ASSUME HooksIInv, Read
  PROVE  HooksIInv'
  <1> DEFINE w == waitingFor
             t == waitingFor[1].who
  <1>1. /\ HooksShape /\ CallsFit /\ QueueFits /\ AskedFit /\ OutcomesFit
        /\ UNCHANGED <<hooks, hookCalls, asked, outcomes>>
        /\ 1 \in DOMAIN w /\ w[1].wants = "read"
        /\ holding' = [holding EXCEPT ![t] = @ + 1] /\ waitingFor' = RemoveAt(w, 1)
        /\ Len(hooks) \in Nat /\ w \in Seq(HookWish) /\ \A u \in HookTasks : holding[u] \in 0..2
    BY HooksParts DEF HooksIInv, Read, MayRead, HooksShape
  <1>2. w # <<>> /\ waitingFor' = Tail(w)
    <2>1. w # <<>>  BY <1>1
    <2>2. SubSeq(w, 1, 0) = <<>>  BY <1>1
    <2>3. Tail(w) = SubSeq(w, 2, Len(w)) /\ SubSeq(w, 2, Len(w)) \in Seq(HookWish)
      BY <1>1, <2>1
    <2>4. waitingFor' = SubSeq(w, 1, 0) \o SubSeq(w, 2, Len(w))  BY <1>1 DEF RemoveAt
    <2> QED  BY <2>1, <2>2, <2>3, <2>4
  <1>3. t \in HookTasks  BY <1>1, HooksParts DEF HookWish
  <1>4. WishFits(hooks, w, 1, hookCalls[t], holding[t])  BY <1>1 DEF QueueFits
  <1>5. /\ holding[t] \in {0, 1} /\ holding'[t] = holding[t] + 1
        /\ \A u \in HookTasks \ {t} : holding'[u] = holding[u]
        /\ holding' \in [HookTasks -> 0..2]
    <2>1. holding[t] \in {0, 1}  BY <1>1, <1>3, <1>4 DEF WishFits
    <2> HIDE DEF t
    <2> QED  BY <1>1, <1>3, <2>1 DEF HooksShape
  <1>6. QueueFits' /\ AskedFit' /\ waitingFor' \in Seq(HookWish)
    <2>1. 0 \in 0..1 /\ Len(hooks') = Len(hooks) + 0
          /\ 0 = IF waitingFor[1].wants = "read" THEN 0 ELSE 1
      BY <1>1
    <2>2. \A u \in HookTasks : holding[u] > 0 => hooks' = hooks  BY <1>1
    <2>3. UNCHANGED <<hookCalls, asked>>  BY <1>1
    <2> QED  BY <1>1, <1>2, <1>5, <2>1, <2>2, <2>3, QueueShrinks
  <1>7. HooksShape'  BY <1>1, <1>5, <1>6 DEF HooksShape
  <1>8. CallFits(hooks, hookCalls[t], holding'[t])
    <2>1. hookCalls[t] # AtRest  BY <1>1, <1>4 DEF WishFits
    <2>2. hookCalls[t] \in HookCall  BY <1>1, <1>3, <2>1 DEF HooksShape
    <2>3. CallFits(hooks, hookCalls[t], holding[t])  BY <1>1, <1>3 DEF CallsFit
    <2>4. hookCalls[t].after <= Len(hooks)
      <3>1. Registrations(w, 1) = {}  BY <1>1 DEF Registrations
      <3>2. Cardinality(Registrations(w, 1)) = 0  BY <3>1, FS_EmptySet
      <3>3. hookCalls[t].after <= Len(hooks) + Cardinality(Registrations(w, 1))
        BY <1>1, <1>4 DEF WishFits
      <3> QED  BY <1>1, <3>2, <3>3
    <2>5. holding'[t] = 2 => AtCallBack(hooks, hookCalls[t])  BY <1>4, <1>5 DEF WishFits
    <2> QED  BY <2>1, <2>3, <2>4, <2>5 DEF CallFits
  <1>9. CallsFit'  BY <1>1, <1>5, <1>8 DEF CallsFit
  <1>10. OutcomesFit'  BY <1>1 DEF OutcomesFit
  <1> QED  BY <1>6, <1>7, <1>9, <1>10 DEF HooksIInv

\* A hook is registered while nobody runs any.
LEMMA EnrolKeeps ==
  ASSUME HooksIInv, Enrol
  PROVE  HooksIInv'
  <1> DEFINE w == waitingFor
             k == waitingFor[1].wants
             n == Len(hooks)
  <1>1. /\ HooksShape /\ CallsFit /\ QueueFits /\ AskedFit /\ OutcomesFit
        /\ UNCHANGED <<holding, hookCalls, asked, outcomes>>
        /\ w # <<>> /\ w \in Seq(HookWish) /\ \A u \in HookTasks : holding[u] = 0
        /\ hooks \in Seq(HookKinds) /\ n \in Nat
    BY HooksParts DEF HooksIInv, Enrol, HooksShape
  <1>2. Head(w) = w[1] /\ 1 \in DOMAIN w  BY <1>1
  <1>3. k # "read" /\ hooks' = Append(hooks, k) /\ waitingFor' = Tail(w)
    BY <1>2 DEF Enrol
  <1>4. k \in HookKinds
    <2>1. w[1].who \in HookTasks  BY <1>1, <1>2, HooksParts DEF HookWish
    <2>2. WishFits(hooks, w, 1, hookCalls[w[1].who], holding[w[1].who])  BY <1>1, <1>2 DEF QueueFits
    <2> QED  BY <1>1, <1>3, <2>1, <2>2 DEF WishFits
  <1>5. /\ hooks' \in Seq(HookKinds) /\ Len(hooks') = n + 1
        /\ \A i \in 1..n : hooks'[i] = hooks[i]
    <2> HIDE DEF k
    <2> QED  BY <1>1, <1>3, <1>4
  <1>6. QueueFits' /\ AskedFit' /\ waitingFor' \in Seq(HookWish)
    <2>1. 1 \in 0..1 /\ Len(hooks') = Len(hooks) + 1
          /\ 1 = IF waitingFor[1].wants = "read" THEN 0 ELSE 1
      BY <1>3, <1>5
    <2>2. \A u \in HookTasks : holding[u] > 0 => hooks' = hooks  BY <1>1
    <2>3. \A u \in HookTasks \ {waitingFor[1].who} : holding'[u] = holding[u]  BY <1>1
    <2>4. UNCHANGED <<hookCalls, asked>>  BY <1>1
    <2> QED  BY <1>1, <1>3, <2>1, <2>2, <2>3, <2>4, QueueShrinks
  <1>7. HooksShape'  BY <1>1, <1>5, <1>6 DEF HooksShape
  <1>8. ASSUME NEW u \in HookTasks PROVE CallFits(hooks', hookCalls[u], 0)
    <2>1. CallFits(hooks, hookCalls[u], 0)  BY <1>1 DEF CallsFit
    <2>2. CASE hookCalls[u] = AtRest  BY <2>2 DEF CallFits
    <2>3. CASE hookCalls[u] # AtRest
      <3> DEFINE c == hookCalls[u]
      <3>1. c.ran \in Nat  BY <1>1, <2>3 DEF HooksShape, HookCall
      <3>2. c.ran <= n /\ \A i \in 1..c.ran : ~Ends(c.of, hooks[i])  BY <2>1, <2>3 DEF CallFits
      <3> HIDE DEF c, n
      <3>3. \A i \in 1..c.ran : i \in 1..n  BY <1>1, <3>1, <3>2
      <3>4. \A i \in 1..c.ran : ~Ends(c.of, hooks'[i])  BY <1>5, <3>2, <3>3
      <3>5. c.ran <= Len(hooks')  BY <1>1, <1>5, <3>1, <3>2
      <3> QED  BY <3>4, <3>5 DEF CallFits, c
    <2> QED  BY <2>2, <2>3
  <1>9. CallsFit'  BY <1>1, <1>8 DEF CallsFit
  <1>10. OutcomesFit'  BY <1>1 DEF OutcomesFit
  <1> QED  BY <1>6, <1>7, <1>9, <1>10 DEF HooksIInv

\* One more hook has been run, and did not end the call.
LEMMA OneMoreRan ==
  ASSUME HooksIInv, NEW t \in HookTasks, hookCalls[t] # AtRest, ~Queued(t),
         hookCalls[t].ran < Len(hooks), ~Ends(hookCalls[t].of, NextHook(t)),
         hookCalls' = [hookCalls EXCEPT ![t].ran = @ + 1], holding[t] > 0, holding'[t] = 1,
         \A u \in HookTasks \ {t} : holding'[u] = holding[u], holding' \in [HookTasks -> 0..2],
         UNCHANGED <<hooks, waitingFor, asked, outcomes>>
  PROVE  HooksIInv'
  <1> DEFINE c == hookCalls[t]
             c2 == hookCalls'[t]
             n == Len(hooks)
  <1>1. HooksShape /\ CallsFit /\ QueueFits /\ AskedFit /\ OutcomesFit /\ n \in Nat
    BY HooksParts DEF HooksIInv
  <1>2. c \in HookCall  BY <1>1 DEF HooksShape
  <1>3. /\ DOMAIN hookCalls' = HookTasks /\ c2 \in HookCall
        /\ c2.ran = c.ran + 1 /\ c2.of = c.of /\ c2.after = c.after
        /\ \A u \in HookTasks \ {t} : hookCalls'[u] = hookCalls[u]
    BY <1>1, <1>2 DEF HooksShape, HookCall
  <1>4. c2 # AtRest  BY <1>3 DEF HookCall, AtRest, CallKinds
  <1>5. CallFits(hooks, c2, 1)
    <2>1. c.ran \in Nat /\ c.ran < n /\ ~Ends(c.of, hooks[c.ran + 1])  BY <1>2 DEF HookCall, NextHook
    <2>2. CallFits(hooks, c, holding[t])  BY <1>1 DEF CallsFit
    <2>3. c.after <= n /\ \A i \in 1..c.ran : ~Ends(c.of, hooks[i])  BY <2>2 DEF CallFits
    <2> HIDE DEF c, c2, n
    <2>4. \A i \in 1..c2.ran : i \in 1..c.ran \/ i = c.ran + 1  BY <1>3, <2>1
    <2>5. c2.ran <= n  BY <1>1, <1>3, <2>1
    <2> QED  BY <1>3, <1>4, <2>1, <2>3, <2>4, <2>5 DEF CallFits, n
  <1>6. CallsFit'  BY <1>1, <1>3, <1>5 DEF CallsFit
  <1>7. HooksShape'  BY <1>1, <1>3 DEF HooksShape
  <1>8. QueueFits'
    <2> HIDE DEF c2
    <2>1. \A u \in HookTasks \ {t} : hookCalls'[u] = hookCalls[u] /\ holding'[u] = holding[u]
      BY <1>3
    <2> QED  BY <1>1, <2>1, QueueRests
  <1>9. AskedFit' /\ OutcomesFit'  BY <1>1 DEF AskedFit, OutcomesFit
  <1> QED  BY <1>6, <1>7, <1>8, <1>9 DEF HooksIInv

LEMMA RunningKeeps ==
  ASSUME HooksIInv, NEW t \in HookTasks, RunHook(t) \/ CalledBack(t)
  PROVE  HooksIInv'
  <1>1. HooksShape /\ hookCalls[t] # AtRest /\ ~Queued(t) /\ holding[t] > 0
        /\ hookCalls' = [hookCalls EXCEPT ![t].ran = @ + 1]
        /\ UNCHANGED <<hooks, waitingFor, asked, outcomes>>
    BY DEF HooksIInv, RunHook, CalledBack, Running
  <1>2. CASE RunHook(t)
    <2>1. /\ holding[t] = 1 /\ hookCalls[t].ran < Len(hooks) /\ holding' = holding
          /\ ~Ends(hookCalls[t].of, NextHook(t))
      BY <1>2 DEF RunHook
    <2>2. holding' \in [HookTasks -> 0..2]  BY <1>1, <2>1 DEF HooksShape
    <2> QED  BY <1>1, <2>1, <2>2, OneMoreRan
  <1>3. CASE CalledBack(t)
    <2>1. holding[t] = 2 /\ holding' = [holding EXCEPT ![t] = 1]  BY <1>3 DEF CalledBack
    <2>2. /\ holding'[t] = 1 /\ \A u \in HookTasks \ {t} : holding'[u] = holding[u]
          /\ holding' \in [HookTasks -> 0..2]
      BY <1>1, <2>1 DEF HooksShape
    <2>3. AtCallBack(hooks, hookCalls[t])  BY <1>1, <2>1 DEF HooksIInv, CallsFit, CallFits
    <2>4. hookCalls[t].ran < Len(hooks) /\ ~Ends(hookCalls[t].of, NextHook(t))
      BY <2>3 DEF AtCallBack, CallsBack, Ends, NextHook
    <2> QED  BY <1>1, <2>2, <2>4, OneMoreRan
  <1> QED  BY <1>2, <1>3

LEMMA EndingKeeps ==
  ASSUME HooksIInv, NEW t \in HookTasks, EndCall(t)
  PROVE  HooksIInv'
  <1> DEFINE c == hookCalls[t]
  <1>1. /\ HooksShape /\ CallsFit /\ QueueFits /\ AskedFit /\ OutcomesFit
        /\ c # AtRest /\ ~Queued(t) /\ holding[t] = 1 /\ Len(hooks) \in Nat
    BY HooksParts DEF HooksIInv, EndCall, Running
  <1>2. PICK e \in BOOLEAN :
          /\ Conclude(t, e)
          /\ IF e THEN c.ran < Len(hooks) /\ Ends(c.of, NextHook(t)) ELSE c.ran = Len(hooks)
    BY DEF EndCall
  <1>3. c \in HookCall  BY <1>1 DEF HooksShape
  <1> DEFINE o == [of |-> c.of, ran |-> c.ran, after |-> c.after, saw |-> hooks, ended |-> e]
  <1>4. /\ outcomes' = outcomes \cup {o} /\ UNCHANGED <<hooks, waitingFor, asked>>
        /\ holding' = [holding EXCEPT ![t] = 0] /\ hookCalls' = [hookCalls EXCEPT ![t] = AtRest]
    BY <1>2 DEF Conclude
  <1>5. CallFits(hooks, c, 1)  BY <1>1 DEF CallsFit
  <1>6. OutcomeFits(o)
    <2>1. c.of \in CallKinds /\ c.after \in Nat /\ c.after <= Len(hooks)
          /\ \A i \in 1..c.ran : ~Ends(c.of, hooks[i])
      BY <1>1, <1>3, <1>5 DEF CallFits, HookCall
    <2>2. /\ o.of = c.of /\ o.ran = c.ran /\ o.after = c.after /\ o.saw = hooks /\ o.ended = e
      OBVIOUS
    <2>3. IF e THEN Ends(c.of, hooks[c.ran + 1]) ELSE c.ran = Len(hooks)
      BY <1>2 DEF NextHook
    <2> HIDE DEF o, c
    <2> QED  BY <1>1, <2>1, <2>2, <2>3 DEF OutcomeFits
  <1> HIDE DEF o
  <1>7. OutcomesFit'  BY <1>1, <1>4, <1>6 DEF OutcomesFit
  <1>8. /\ holding'[t] = 0 /\ hookCalls'[t] = AtRest /\ DOMAIN hookCalls' = HookTasks
        /\ holding' \in [HookTasks -> 0..2]
        /\ \A u \in HookTasks \ {t} : hookCalls'[u] = hookCalls[u] /\ holding'[u] = holding[u]
    BY <1>1, <1>4 DEF HooksShape
  <1>9. QueueFits'  BY <1>1, <1>4, <1>8, QueueRests
  <1>10. CallsFit'  BY <1>1, <1>4, <1>8 DEF CallsFit, CallFits
  <1>11. HooksShape' /\ AskedFit'  BY <1>1, <1>4, <1>8 DEF HooksShape, AskedFit
  <1> QED  BY <1>7, <1>9, <1>10, <1>11 DEF HooksIInv

LEMMA HooksStart == HooksInit => HooksIInv
  <1>1. SUFFICES ASSUME HooksInit PROVE HooksIInv  OBVIOUS
  <1>2. DOMAIN <<>> = {} /\ Len(<<>>) = 0  OBVIOUS
  <1>3. /\ hooks = <<>> /\ waitingFor = <<>> /\ outcomes = {}
        /\ holding = [t \in HookTasks |-> 0] /\ hookCalls = [t \in HookTasks |-> AtRest]
        /\ asked = [all |-> 0, registered |-> 0]
    BY <1>1 DEF HooksInit
  <1>4. HooksShape
    <2>1. hooks \in Seq(HookKinds) /\ waitingFor \in Seq(HookWish)  BY <1>3
    <2>2. 0 \in 0..MaxHookCalls  BY HooksAssumption
    <2> QED  BY <1>3, <2>1, <2>2 DEF HooksShape
  <1>5. CallsFit /\ QueueFits /\ OutcomesFit
    BY <1>2, <1>3 DEF CallsFit, CallFits, QueueFits, OutcomesFit
  <1>6. AskedFit
    <2>1. Cardinality(Registrations(waitingFor, 0)) \in Nat  BY RegistrationsFinite
    <2>2. asked.registered = 0 /\ Len(hooks) = 0 /\ Len(waitingFor) = 0  BY <1>2, <1>3
    <2> QED  BY <2>1, <2>2 DEF AskedFit
  <1> QED  BY <1>4, <1>5, <1>6 DEF HooksIInv

LEMMA HooksStep ==
  ASSUME HooksIInv, [HooksNext]_hookVars
  PROVE  HooksIInv'
  <1>1. CASE HooksNext
    BY <1>1, ReadKeeps, EnrolKeeps, AskingKeeps, CallingBackKeeps, RunningKeeps, EndingKeeps
    DEF HooksNext
  <1>2. CASE UNCHANGED hookVars
    <2>1. UNCHANGED <<hooks, waitingFor, holding, hookCalls, asked, outcomes>>
      BY <1>2 DEF hookVars
    <2>2. HooksShape' /\ CallsFit' /\ QueueFits'
      BY <2>1 DEF HooksIInv, HooksShape, CallsFit, QueueFits
    <2>3. AskedFit' /\ OutcomesFit'  BY <2>1 DEF HooksIInv, AskedFit, OutcomesFit
    <2> QED  BY <2>2, <2>3 DEF HooksIInv
  <1> QED  BY <1>1, <1>2

LEMMA HooksRight == HooksIInv => HooksHold /\ HooksTypeOK
  <1>1. SUFFICES ASSUME HooksIInv PROVE HooksHold /\ HooksTypeOK  OBVIOUS
  <1>2. /\ HooksShape /\ CallsFit /\ QueueFits /\ AskedFit /\ OutcomesFit
        /\ Len(hooks) \in Nat /\ Len(waitingFor) \in Nat /\ DOMAIN waitingFor = 1..Len(waitingFor)
        /\ \A i \in 1..Len(waitingFor) : waitingFor[i] \in HookWish
        /\ asked.registered \in Nat /\ asked.all \in 0..MaxHookCalls /\ asked.registered <= asked.all
        /\ \A t \in HookTasks : holding[t] \in 0..2
    BY <1>1, HooksParts DEF HooksIInv, HooksShape
  <1>3. HooksInOrder  BY <1>2 DEF HooksInOrder, OutcomesFit, OutcomeFits
  <1>4. HaltsOnlyByCallBack
    <2>1. ASSUME waitingFor # <<>>, waitingFor[1].wants # "read", NEW t \in HookTasks,
                 holding[t] # 0, ~Running(t)
          PROVE  \E i \in DOMAIN waitingFor :
                   /\ holding[waitingFor[i].who] > 0
                   /\ \E j \in 1..i : waitingFor[j].wants # "read"
      <3>1. holding[t] > 0  BY <1>2, <2>1
      <3>2. hookCalls[t] # AtRest  BY <1>2, <2>1 DEF CallsFit, CallFits
      <3>3. PICK i \in DOMAIN waitingFor : waitingFor[i].who = t
        BY <2>1, <3>1, <3>2 DEF Running, Queued
      <3>4. 1 \in 1..i  BY <1>2, <3>3
      <3> QED  BY <2>1, <3>1, <3>3, <3>4
    <2> QED  BY <2>1 DEF HaltsOnlyByCallBack
  <1>5. HooksTypeOK
    <2>1. \A t \in HookTasks : hookCalls[t] = AtRest \/ hookCalls[t].ran \in 0..Len(hooks)
      BY <1>2 DEF HooksShape, CallsFit, CallFits, HookCall
    <2>2. \A i \in DOMAIN waitingFor : waitingFor[i].who \in HookTasks  BY <1>2 DEF HookWish
    <2>3. \A o \in outcomes : o.of \in CallKinds  BY <1>2 DEF OutcomesFit, OutcomeFits
    <2>4. hooks \in Seq(HookKinds) /\ holding \in [HookTasks -> 0..2]  BY <1>2 DEF HooksShape
    <2>5. asked.registered \in 0..asked.all  BY <1>2
    <2> QED  BY <1>2, <2>1, <2>2, <2>3, <2>4, <2>5 DEF HooksTypeOK
  <1> QED  BY <1>3, <1>4, <1>5 DEF HooksHold

-----------------------------------------------------------------------------
(* All of them.  The channel object and the agent client have the same     *)
(* link, of which only the one that moves depends.                         *)

SubscriptionRests == ~active /\ ~isMember /\ channelListeners = {}

ClientsIInv ==
    /\ IF part = "subscription" THEN ChannelIInv ELSE SubscriptionRests
    /\ IF part = "tasks" THEN TasksIInv ELSE TasksApart

SharedIInv == MetricsIInv /\ ResultRight /\ ManagedIInv /\ HooksIInv /\ ClientsIInv

LEMMA RestsRight == SubscriptionRests => SubscriptionHolds
  BY DEF SubscriptionRests, SubscriptionHolds, NothingMissedOnChannel, MembersAreHere,
     QuietWhenInactive, StillSubscribed

LEMMA SharedStart == Init => SharedIInv
  <1>1. SUFFICES ASSUME Init PROVE SharedIInv  OBVIOUS
  <1>2. MetricsInit /\ ManagedInit /\ HooksInit /\ ChannelObjectInit /\ AgentClientInit
    BY <1>1 DEF Init
  <1>3. MetricsIInv /\ ResultRight /\ ManagedIInv /\ HooksIInv
    BY <1>2, MetricsBegin, ManagedStart, HooksStart
  <1>4. ChannelIInv /\ TasksIInv /\ TasksApart  BY <1>2, ChannelStart, TasksStart, TasksRight
  <1>5. SubscriptionRests  BY <1>2 DEF ChannelObjectInit, SubscriptionRests
  <1> QED  BY <1>3, <1>4, <1>5 DEF SharedIInv, ClientsIInv

LEMMA ClientsStep ==
  ASSUME ClientsIInv, part' = part,
         \/ part = "subscription" /\ ChannelObjectNext /\ UNCHANGED answerVars
         \/ part = "tasks" /\ AgentClientNext /\ UNCHANGED channelVars
         \/ UNCHANGED clientVars
  PROVE  ClientsIInv'
  <1>1. ASSUME UNCHANGED answerVars, TasksApart PROVE TasksApart'
    <2>1. UNCHANGED <<tasks, taskListeners, isStreaming, manyStreams, tools, heardOf, results, unsent>>
      BY <1>1 DEF answerVars, listenVars, toolVars
    <2> QED  BY <1>1, <2>1 DEF TasksApart, ToolsAnsweredOnce, ListenersBelong, StreamingTold, Streams
  <1>2. ASSUME UNCHANGED channelVars, SubscriptionRests PROVE SubscriptionRests'
    <2>1. UNCHANGED <<active, isMember, channelListeners>>
      BY <1>2 DEF channelVars, objectVars, roomVars
    <2> QED  BY <1>2, <2>1 DEF SubscriptionRests
  <1>3. CASE part = "subscription" /\ ChannelObjectNext /\ UNCHANGED answerVars
    <2>1. ChannelIInv /\ TasksApart  BY <1>3 DEF ClientsIInv
    <2>2. ChannelIInv'  BY <1>3, <2>1, ChannelStep
    <2> QED  BY <1>1, <1>3, <2>1, <2>2 DEF ClientsIInv
  <1>4. CASE part = "tasks" /\ AgentClientNext /\ UNCHANGED channelVars
    <2>1. TasksIInv /\ SubscriptionRests  BY <1>4 DEF ClientsIInv
    <2>2. TasksIInv'  BY <1>4, <2>1, TasksStep
    <2> QED  BY <1>2, <1>4, <2>1, <2>2 DEF ClientsIInv
  <1>5. CASE UNCHANGED clientVars
    <2>1. UNCHANGED <<linkVars, channelVars, answerVars>>  BY <1>5 DEF clientVars
    <2>2. UNCHANGED channelObjectVars  BY <2>1 DEF channelVars, channelObjectVars
    <2>3. UNCHANGED agentClientVars  BY <2>1 DEF answerVars, agentClientVars
    <2>4. ChannelIInv => ChannelIInv'  BY <2>2, ChannelStep
    <2>5. TasksIInv => TasksIInv'  BY <2>3, TasksStep
    <2> QED  BY <1>1, <1>2, <2>1, <2>4, <2>5 DEF ClientsIInv
  <1> QED  BY <1>3, <1>4, <1>5

LEMMA SharedStep == SharedIInv /\ [Next]_vars => SharedIInv'
  <1> SUFFICES ASSUME SharedIInv, [Next]_vars PROVE SharedIInv'  OBVIOUS
  <1>1. MetricsIInv /\ ResultRight /\ ManagedIInv /\ HooksIInv /\ ClientsIInv  BY DEF SharedIInv
  <1>2. [MetricsNext]_metricsVars
    <2>1. CASE WebNext  BY <2>1 DEF WebNext
    <2>2. CASE UNCHANGED webVars  BY <2>2 DEF webVars
    <2> QED  BY <2>1, <2>2 DEF Next, MarketNext, KeptNext, TalkNext, HostNext, ClientNext, vars
  <1>3. [ManagedNext]_managedVars /\ [HooksNext]_hookVars
    <2>1. CASE HostNext  BY <2>1 DEF HostNext
    <2>2. CASE UNCHANGED hostVars  BY <2>2 DEF hostVars
    <2> QED  BY <2>1, <2>2 DEF Next, MarketNext, KeptNext, TalkNext, WebNext, ClientNext, vars
  <1>4. /\ part' = part
        /\ \/ part = "subscription" /\ ChannelObjectNext /\ UNCHANGED answerVars
           \/ part = "tasks" /\ AgentClientNext /\ UNCHANGED channelVars
           \/ UNCHANGED clientVars
    BY DEF Next, MarketNext, KeptNext, TalkNext, WebNext, HostNext, ClientNext, vars
  <1>5. MetricsIInv' /\ ResultRight'  BY <1>1, <1>2, MetricsStep
  <1>6. ManagedIInv' /\ HooksIInv'  BY <1>1, <1>3, ManagedStep, HooksStep
  <1>7. ClientsIInv'  BY <1>1, <1>4, ClientsStep
  <1> QED  BY <1>5, <1>6, <1>7 DEF SharedIInv

LEMMA SharedRight == SharedIInv => SharedStaysRight
  <1>1. SUFFICES ASSUME SharedIInv PROVE SharedStaysRight  OBVIOUS
  <1>2. MetricsHold /\ SharedManagerHolds /\ HooksHold
    BY <1>1, MetricsRight, ManagedRight, HooksRight DEF SharedIInv
  <1>3. SubscriptionHolds /\ TasksApart
    BY <1>1, ChannelRight, RestsRight, TasksRight DEF SharedIInv, ClientsIInv
  <1> QED  BY <1>2, <1>3 DEF SharedStaysRight

\* What several use at the same time stays right: a reading of the metrics is
\* between what was recorded before and after it, a manager that tasks share goes
\* wrong only where two calls meet, hooks run in order and halt only by calling
\* back, a subscription misses nothing while it lasts, and the tasks of an agent
\* stay apart (crates/mtw-http/src/stages/metrics.rs, crates/mtw-router/src/channel.rs,
\* crates/mtw-core/src/hooks.rs, packages/client/src/channel.ts and agent.ts).
THEOREM SharedIsSafe == Spec => []SharedStaysRight
  <1>1. SharedIInv /\ [Next]_vars => SharedIInv'  BY SharedStep
  <1> QED  BY SharedStart, <1>1, SharedRight, PTL DEF Spec

=============================================================================
