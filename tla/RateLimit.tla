------------------------------ MODULE RateLimit -------------------------------
(***************************************************************************)
(* The two rate limiters of crates/mtw-exchange/src/rate_limit.rs.  A task *)
(* that acquires looks at the limiter under its lock, and goes or sleeps   *)
(* and looks again.  Tokens are counted in parts of 1 / Window, so that    *)
(* one millisecond adds max of them.                                       *)
(***************************************************************************)
EXTENDS Integers, Sequences

CONSTANTS Tasks,      \* the tasks that make requests
          Limiters,   \* the configurations: [strategy, max, window]
          MaxNow,     \* bound: milliseconds of the clock
          MaxGrants   \* bound: requests let through

ASSUME RateAssumption ==
    /\ Limiters \subseteq [strategy : {"token_bucket", "sliding_window"}, max : Nat, window : Nat \ {0}]
    /\ MaxNow \in Nat /\ MaxGrants \in Nat

VARIABLES
    limiter,  \* the configuration
    now,      \* the clock
    tokens,   \* tokens of the bucket, in parts
    refilled, \* when it was refilled last
    stamps,   \* the timestamps of the window
    asking,   \* what each task is doing: "no", "acquiring", "asleep", "granted", "panicked"
    wake,     \* when a sleeping task looks again; -1: never
    grants    \* history: when requests were let through

rateVars == <<limiter, now, tokens, refilled, stamps, asking, wake, grants>>
bucketVars == <<tokens, refilled>>

RateTypeOK ==
    /\ limiter \in Limiters
    /\ now \in 0..MaxNow
    /\ tokens \in 0..(limiter.max * limiter.window) /\ refilled \in 0..now
    /\ stamps \in Seq(0..now) /\ Len(stamps) <= limiter.max
    /\ asking \in [Tasks -> {"no", "acquiring", "asleep", "granted", "panicked"}]
    /\ wake \in [Tasks -> Int]
    /\ grants \in Seq(0..now)

RateInit ==
    /\ limiter \in Limiters
    /\ now = 0
    /\ tokens = limiter.max * limiter.window /\ refilled = 0
    /\ stamps = <<>>
    /\ asking = [t \in Tasks |-> "no"]
    /\ wake = [t \in Tasks |-> 0]
    /\ grants = <<>>

-----------------------------------------------------------------------------

\* What the bucket holds with what time has brought, were it without limit.
RefilledOver == tokens + (now - refilled) * limiter.max

Refilled ==
    LET more == RefilledOver
        full == limiter.max * limiter.window
    IN IF more > full THEN full ELSE more

Grant(t) ==
    /\ asking' = [asking EXCEPT ![t] = "granted"]
    /\ grants' = Append(grants, now)
    /\ UNCHANGED wake

\* Sleep for a number of milliseconds, or for ever.
Sleep(t, ms) ==
    /\ asking' = [asking EXCEPT ![t] = "asleep"]
    /\ wake' = [wake EXCEPT ![t] = IF ms < 0 THEN -1 ELSE now + ms]
    /\ UNCHANGED grants

CeilDiv(a, b) == (a + b - 1) \div b

\* An empty bucket of size zero never fills: the wait is infinite.
AcquireToken(t) ==
    /\ limiter.strategy = "token_bucket" /\ asking[t] = "acquiring"
    /\ refilled' = now
    /\ IF Refilled >= limiter.window
       THEN Grant(t) /\ tokens' = Refilled - limiter.window
       ELSE /\ tokens' = Refilled
            /\ Sleep(t, IF limiter.max = 0 THEN -1
                        ELSE CeilDiv(limiter.window - Refilled, limiter.max))
    /\ UNCHANGED <<limiter, now, stamps>>

Cutoff == now - limiter.window

\* Timestamps are dropped from the front, up to the first that is not expired;
\* how many that are.
Outdated == {n \in 0..Len(stamps) :
                /\ \A i \in 1..n : stamps[i] <= Cutoff
                /\ n < Len(stamps) => stamps[n + 1] > Cutoff}
Dropping(n) == SubSeq(stamps, n + 1, Len(stamps))

\* A full window of size zero has no oldest entry: the index panics.
AcquireSlot(t) ==
    /\ limiter.strategy = "sliding_window" /\ asking[t] = "acquiring"
    /\ \E n \in Outdated :
          IF Len(Dropping(n)) < limiter.max
          THEN Grant(t) /\ stamps' = Append(Dropping(n), now)
          ELSE /\ stamps' = Dropping(n)
               /\ IF Dropping(n) = <<>>
                  THEN asking' = [asking EXCEPT ![t] = "panicked"] /\ UNCHANGED <<wake, grants>>
                  ELSE Sleep(t, Dropping(n)[1] + limiter.window - now + 1)
    /\ UNCHANGED <<limiter, now, bucketVars>>

Acquire(t) ==
    /\ asking[t] \in {"no", "granted"} /\ Len(grants) < MaxGrants
    /\ asking' = [asking EXCEPT ![t] = "acquiring"]
    /\ UNCHANGED <<limiter, now, bucketVars, stamps, wake, grants>>

Wake(t) ==
    /\ asking[t] = "asleep" /\ wake[t] >= 0 /\ wake[t] <= now
    /\ asking' = [asking EXCEPT ![t] = "acquiring"]
    /\ UNCHANGED <<limiter, now, bucketVars, stamps, wake, grants>>

Tick ==
    /\ now < MaxNow
    /\ now' = now + 1
    /\ UNCHANGED <<limiter, bucketVars, stamps, asking, wake, grants>>

Look(t) == Len(grants) < MaxGrants /\ (AcquireToken(t) \/ AcquireSlot(t))

RateNext == Tick \/ \E t \in Tasks : Acquire(t) \/ Look(t) \/ Wake(t)

-----------------------------------------------------------------------------

\* However requests come and sleepers wake, no window of the configured length
\* sees more than max of them (sliding), and no stretch of time more than the
\* burst and what was refilled in it (bucket) (rate_limit.rs:51-77, 119-150).
RateRespected ==
    \A i, j \in 1..Len(grants) : i <= j =>
       LET n == j - i + 1
           time == grants[j] - grants[i]
       IN IF limiter.strategy = "sliding_window"
          THEN n > limiter.max => time >= limiter.window
          ELSE (n - limiter.max) * limiter.window <= limiter.max * time

===============================================================================
