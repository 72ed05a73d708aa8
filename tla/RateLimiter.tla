----------------------------- MODULE RateLimiter -----------------------------
(***************************************************************************)
(* RateLimiter of core/go/ratelimit.go: a bounded table of fixed windows,  *)
(* one per bucket key.  Each operation holds the limiter's mutex; the time *)
(* t is what the caller read from the clock before it called.              *)
(***************************************************************************)
EXTENDS Integers, FiniteSets, Functions

CONSTANTS
    MaxEntries,   \* bound of the table (100 000 in the code)
    WindowLen     \* length of a window (60 seconds in the code)

ASSUME RateLimiterAssumption ==
    /\ MaxEntries \in Nat \ {0}
    /\ WindowLen \in Nat \ {0}

VARIABLE window   \* key -> [start, n]

RateLimiterInit == window = <<>>

\* The window of key still counts at t; t may lie before its start.
Counting(key, t) == key \in DOMAIN window /\ t - window[key].start < WindowLen

\* Drops a window one second before it is over.
Swept_Early(t) ==
    Restrict(window, { k \in DOMAIN window : t - window[k].start < WindowLen - 1 })

\* Drops the finished windows (sweepLocked).
Swept(t) == Restrict(window, { k \in DOMAIN window : t - window[k].start < WindowLen })

\* Never reclaims or refuses: the table as it was before it was bounded.
NeedsRoom_Unbounded(key) == FALSE

\* A key without an entry needs room in the table.
NeedsRoom(key) == key \notin DOMAIN window /\ Cardinality(DOMAIN window) >= MaxEntries

\* The table a new window would be opened in, and whether it may be.
Table(key, t) == IF NeedsRoom(key) THEN Swept(t) ELSE window
Refused(key, t) == NeedsRoom(key) /\ Cardinality(DOMAIN Swept(t)) >= MaxEntries

\* Counts an attempt at key; ok is the result.  A refused attempt counts
\* too, and a refusal for want of room keeps what the sweep reclaimed.
Allow(key, perMin, t, ok) ==
    \/ /\ perMin <= 0 /\ ok /\ UNCHANGED window
    \/ /\ perMin > 0 /\ Counting(key, t)
       /\ ok <=> window[key].n + 1 <= perMin
       /\ window' = [window EXCEPT ![key].n = @ + 1]
    \/ /\ perMin > 0 /\ ~Counting(key, t)
       /\ ok <=> ~Refused(key, t)
       /\ window' = IF ok
                    THEN [ k \in DOMAIN Table(key, t) \cup {key} |->
                             IF k = key THEN [start |-> t, n |-> 1] ELSE window[k] ]
                    ELSE Table(key, t)

Sweep(t) == window' = Swept(t)
=============================================================================
