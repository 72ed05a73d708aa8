---------------------------- MODULE KnockThrottle ----------------------------
(***************************************************************************)
(* The rate limiter as the knock endpoints use it: handler goroutines read *)
(* the clock and then wait for the limiter's mutex, while the sweeper does *)
(* the same on its own.  What is between the two readings and the calls is *)
(* left to the scheduler, up to MaxLag.                                    *)
(***************************************************************************)
EXTENDS RateLimiter

CONSTANTS
    Attempt,    \* requests to a knock endpoint
    Bucket,     \* bucket keys: service and source
    PerMin,     \* the limit, attempts per window
    MaxLag,     \* ticks of the clock a handler may wait for the mutex
    MaxTime     \* bound of the clock

\* The mutex is held for microseconds, the clock counts seconds and a window
\* lasts 60 of them.
ASSUME KnockThrottleAssumption ==
    /\ PerMin \in Nat \ {0} /\ MaxTime \in Nat
    /\ MaxLag \in {0, 1} /\ MaxLag < WindowLen

VARIABLES
    now,        \* the clock
    attempt,    \* attempt -> [pc, key, t]
    sweepTime   \* the clock reading of a sweep under way, or NoSweep

throttleVars == <<window, now, attempt, sweepTime>>

NoSweep == -1
Fresh == [pc |-> "idle", key |-> {}, t |-> 0]

ThrottleInit ==
    /\ RateLimiterInit
    /\ now = 0
    /\ attempt = [p \in Attempt |-> Fresh]
    /\ sweepTime = NoSweep

\* s.now() in the argument list of Allow.
ReadClock(p) ==
    /\ attempt[p].pc = "idle"
    /\ \E key \in Bucket : attempt' = [attempt EXCEPT ![p] = [pc |-> "count", key |-> key, t |-> now]]
    /\ UNCHANGED <<window, now, sweepTime>>

Count(p) ==
    /\ attempt[p].pc = "count"
    /\ \E ok \in BOOLEAN :
         /\ Allow(attempt[p].key, PerMin, attempt[p].t, ok)
         /\ attempt' = [attempt EXCEPT ![p].pc = IF ok THEN "admitted" ELSE "refused"]
    /\ UNCHANGED <<now, sweepTime>>

SweepRead ==
    /\ sweepTime = NoSweep
    /\ sweepTime' = now
    /\ UNCHANGED <<window, now, attempt>>

SweepRun ==
    /\ sweepTime # NoSweep
    /\ Sweep(sweepTime)
    /\ sweepTime' = NoSweep
    /\ UNCHANGED <<now, attempt>>

\* A waiting handler gets the mutex within MaxLag.
Tick ==
    /\ now < MaxTime
    /\ \A p \in Attempt : attempt[p].pc = "count" => now + 1 - attempt[p].t <= MaxLag
    /\ now' = now + 1
    /\ UNCHANGED <<window, attempt, sweepTime>>

ThrottleNext ==
    \/ \E p \in Attempt : ReadClock(p) \/ Count(p)
    \/ SweepRead \/ SweepRun
    \/ Tick

ThrottleSpec == ThrottleInit /\ [][ThrottleNext]_throttleVars

-----------------------------------------------------------------------------
(* Properties *)

\* The table never outgrows its bound, whatever number of sources knocks and
\* however rarely the sweeper runs: Allow reclaims or refuses before it adds.
TableBounded == Cardinality(DOMAIN window) <= MaxEntries

\* The attempts at key let through with a clock reading in the window of
\* WindowLen seconds that begins at from.
Admitted(key, from) ==
    { p \in Attempt : /\ attempt[p].pc = "admitted" /\ attempt[p].key = key
                      /\ attempt[p].t \in from .. (from + WindowLen - 1) }

\* Fewer than three quotas pass in any stretch of WindowLen seconds.  Fixed
\* windows by themselves let nearly two through; a third comes from a sweep
\* whose clock reading is later than that of an attempt in hand: it drops
\* the window that attempt would still have counted against, and the attempt
\* opens a new one, dated back.  Neither a full table, whose windows are
\* reclaimed in passing, nor a sweep at any moment lets through more.
QuotaBounded ==
    \A key \in Bucket, from \in 0..MaxTime :
        Cardinality(Admitted(key, from)) < 3 * PerMin
=============================================================================
