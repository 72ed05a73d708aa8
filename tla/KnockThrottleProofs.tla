------------------------- MODULE KnockThrottleProofs -------------------------
(***************************************************************************)
(* The rate limiter's table and what it lets through are bounded, for      *)
(* every bound, window length, limit and number of sources and requests.   *)
(***************************************************************************)
EXTENDS KnockThrottle, FiniteSetTheorems, TLAPS

\* TableBounded says nothing of a table that is not finite.
TableInv == IsFiniteSet(DOMAIN window) /\ TableBounded

\* What a sweep leaves of the table is no larger than the table.
LEMMA SweptSmaller ==
    ASSUME IsFiniteSet(DOMAIN window), NEW t
    PROVE  /\ DOMAIN Swept(t) \subseteq DOMAIN window
           /\ IsFiniteSet(DOMAIN Swept(t))
           /\ Cardinality(DOMAIN Swept(t)) \in Nat
           /\ Cardinality(DOMAIN Swept(t)) <= Cardinality(DOMAIN window)
<1>1. DOMAIN Swept(t) \subseteq DOMAIN window
  BY DEF Swept, Restrict
<1>2. QED  BY <1>1, FS_Subset, FS_CardinalityType

\* Allow keeps the bound in each of its three outcomes: limiter off, a
\* window that still counts, a new window.
LEMMA AllowBounded ==
    ASSUME TableInv, NEW key, NEW perMin, NEW t, NEW ok, Allow(key, perMin, t, ok)
    PROVE  TableInv'
<1> USE DEF TableInv, TableBounded
<1> Cardinality(DOMAIN window) \in Nat
  BY FS_CardinalityType
<1>1. CASE UNCHANGED window
  BY <1>1
<1>2. CASE window' = [window EXCEPT ![key].n = @ + 1]
  <2>1. DOMAIN window' = DOMAIN window
    BY <1>2
  <2>2. QED  BY <2>1
<1>3. CASE ~Counting(key, t) /\ (ok <=> ~Refused(key, t)) /\
           window' = IF ok
                     THEN [ k \in DOMAIN Table(key, t) \cup {key} |->
                              IF k = key THEN [start |-> t, n |-> 1] ELSE window[k] ]
                     ELSE Table(key, t)
  <2> DEFINE D == DOMAIN Table(key, t)
  <2>1. IsFiniteSet(D) /\ Cardinality(D) \in Nat /\ Cardinality(D) <= MaxEntries
    BY SweptSmaller, RateLimiterAssumption DEF Table
  <2>2. CASE ~ok
    <3>1. DOMAIN window' = D
      BY <1>3, <2>2
    <3>2. QED  BY <2>1, <3>1
  <2>3. CASE ok
    <3>1. DOMAIN window' = D \cup {key}
      BY <1>3, <2>3
    <3>2. CASE key \in D
      <4>1. D \cup {key} = D
        BY <3>2
      <4>2. QED  BY <2>1, <3>1, <4>1
    <3>3. CASE key \notin D
      \* The window found over stays where it is: the key was not in the table.
      <4>1. Cardinality(D) < MaxEntries
        BY <1>3, <2>1, <2>3, <3>3, SweptSmaller, RateLimiterAssumption
        DEF Table, Refused, NeedsRoom
      <4>2. IsFiniteSet(D \cup {key}) /\ Cardinality(D \cup {key}) = Cardinality(D) + 1
        BY <2>1, <3>3, FS_AddElement
      <4>3. QED  BY <2>1, <3>1, <4>1, <4>2, RateLimiterAssumption
    <3>4. QED  BY <3>2, <3>3
  <2>4. QED  BY <2>2, <2>3
<1>4. QED  BY <1>1, <1>2, <1>3 DEF Allow

\* Every reachable table is within its bound.
THEOREM TableAlwaysBounded == ThrottleSpec => []TableBounded
<1>1. ThrottleInit => TableInv
  <2>1. Cardinality({}) = 0 /\ IsFiniteSet({})
    BY FS_EmptySet
  <2>2. ASSUME ThrottleInit PROVE DOMAIN window = {}
    BY <2>2 DEF ThrottleInit, RateLimiterInit
  <2>3. QED
    BY <2>1, <2>2, RateLimiterAssumption DEF TableInv, TableBounded
<1>2. TableInv /\ [ThrottleNext]_throttleVars => TableInv'
  <2> SUFFICES ASSUME TableInv, [ThrottleNext]_throttleVars PROVE TableInv'
    OBVIOUS
  <2>1. CASE UNCHANGED window
    BY <2>1 DEF TableInv, TableBounded
  <2>2. ASSUME NEW p \in Attempt, Count(p) PROVE TableInv'
    BY <2>2, AllowBounded DEF Count
  <2>3. CASE SweepRun
    <3>1. DOMAIN window' = DOMAIN Swept(sweepTime)
      BY <2>3 DEF SweepRun, Sweep
    <3>2. Cardinality(DOMAIN window) \in Nat
      BY FS_CardinalityType DEF TableInv
    <3>3. QED
      BY <3>1, <3>2, SweptSmaller, RateLimiterAssumption DEF TableInv, TableBounded
  <2>4. QED
    BY <2>1, <2>2, <2>3
    DEF ThrottleNext, throttleVars, ReadClock, SweepRead, Tick
<1>3. TableInv => TableBounded
  BY DEF TableInv
<1>4. QED  BY <1>1, <1>2, <1>3, PTL DEF ThrottleSpec

-----------------------------------------------------------------------------
(* QuotaBounded *)

\* Clock readings and windows lie in the past, and a handler that waits for
\* the mutex has not waited long.
ThrottleTypes ==
    /\ now \in Nat
    /\ sweepTime \in {NoSweep} \cup 0..now
    /\ DOMAIN attempt = Attempt
    /\ \A p \in Attempt :
         /\ DOMAIN attempt[p] = DOMAIN Fresh
         /\ attempt[p].t \in 0..now
         /\ attempt[p].pc = "count" => now - attempt[p].t <= MaxLag
    /\ \A k \in DOMAIN window :
         /\ DOMAIN window[k] = {"start", "n"}
         /\ window[k].start \in 0..now /\ window[k].n \in Nat

\* The attempts at key that the window begun at s let through.  Which window
\* an attempt was counted in is not part of the state: w says it.
Passed(w, key, s) ==
    { p \in Attempt : attempt[p].pc = "admitted" /\ attempt[p].key = key /\ w[p] = s }

\* An attempt let through is in the reach of its window, and the window is
\* either over or the one in the table.
Placed(w, p) ==
    /\ w[p] \in Nat
    /\ attempt[p].t \in (w[p] - MaxLag) .. (w[p] + WindowLen - 1)
    /\ \/ now >= w[p] + WindowLen
       \/ attempt[p].key \in DOMAIN window /\ window[attempt[p].key].start = w[p]
    /\ attempt[p].key \in DOMAIN window => w[p] <= window[attempt[p].key].start

\* Two windows of one key are apart, and so is what the later one counts
\* from the earlier one.
Apart(w, p, q) ==
    attempt[p].key = attempt[q].key /\ w[p] < w[q] =>
        /\ w[q] >= w[p] + WindowLen - MaxLag
        /\ attempt[q].t >= w[p] + WindowLen - MaxLag

\* A window lets through its quota at most, the attempt that opened it
\* included, and counts what it lets through.
Full(w, key, s) ==
    /\ IsFiniteSet(Passed(w, key, s)) /\ Cardinality(Passed(w, key, s)) <= PerMin
    /\ Passed(w, key, s) # {} => \E p \in Passed(w, key, s) : attempt[p].t = s
    /\ key \in DOMAIN window /\ window[key].start = s
         => Passed(w, key, s) # {} /\ Cardinality(Passed(w, key, s)) <= window[key].n

Accounted(w) ==
    /\ \A p \in Attempt : attempt[p].pc = "admitted" => Placed(w, p)
    /\ \A p, q \in Attempt :
         attempt[p].pc = "admitted" /\ attempt[q].pc = "admitted" => Apart(w, p, q)
    /\ \A key : \A s \in Nat : Full(w, key, s)

QuotaInv == ThrottleTypes /\ \E w : Accounted(w)

\* The table loses windows that are over at t and keeps the others as they
\* were, but for key's.
Thins(key, t) ==
    /\ \A k \in DOMAIN window' \ {key} : k \in DOMAIN window /\ window'[k] = window[k]
    /\ \A k \in DOMAIN window \ DOMAIN window' : t - window[k].start >= WindowLen

\* Allow counts the attempt in the window there is, opens a new one, or
\* refuses for want of room.
LEMMA AllowOutcome ==
    ASSUME ThrottleTypes, NEW key, NEW t \in Nat, NEW ok, Allow(key, PerMin, t, ok)
    PROVE  \/ /\ Counting(key, t) /\ DOMAIN window' = DOMAIN window
              /\ Thins(key, t)
              /\ window'[key] = [start |-> window[key].start, n |-> window[key].n + 1]
              /\ ok <=> window[key].n + 1 <= PerMin
           \/ /\ ~Counting(key, t) /\ ok /\ Thins(key, t)
              /\ key \in DOMAIN window' /\ window'[key] = [start |-> t, n |-> 1]
           \/ /\ ~ok /\ Thins(key, t)
              /\ key \in DOMAIN window' => key \in DOMAIN window /\ window'[key] = window[key]
<1>0. PerMin > 0 /\ ~(PerMin <= 0) /\ WindowLen \in Nat
  BY KnockThrottleAssumption, RateLimiterAssumption
<1>1. CASE Counting(key, t)
  <2>1. /\ ok <=> window[key].n + 1 <= PerMin
        /\ window' = [window EXCEPT ![key].n = @ + 1]
    BY <1>0, <1>1 DEF Allow
  <2>2. key \in DOMAIN window /\ DOMAIN window[key] = {"start", "n"}
    BY <1>1 DEF Counting, ThrottleTypes
  <2>3. DOMAIN window' = DOMAIN window /\ \A k \in DOMAIN window \ {key} : window'[k] = window[k]
    BY <2>1
  <2>4. window'[key] = [window[key] EXCEPT !.n = @ + 1]
    BY <2>1, <2>2
  <2>5. window'[key] = [start |-> window[key].start, n |-> window[key].n + 1]
    BY <2>2, <2>4
  <2> QED
    BY <1>1, <2>1, <2>3, <2>5 DEF Thins
<1>2. CASE ~Counting(key, t)
  <2>1. /\ ok <=> ~Refused(key, t)
        /\ window' = IF ok
                     THEN [ k \in DOMAIN Table(key, t) \cup {key} |->
                              IF k = key THEN [start |-> t, n |-> 1] ELSE window[k] ]
                     ELSE Table(key, t)
    BY <1>0, <1>2 DEF Allow
  <2>2. \A k \in DOMAIN Table(key, t) : k \in DOMAIN window /\ Table(key, t)[k] = window[k]
    BY DEF Table, Swept, Restrict
  <2>3. \A k \in DOMAIN window \ DOMAIN Table(key, t) : t - window[k].start >= WindowLen
    <3> SUFFICES ASSUME NEW k \in DOMAIN window, k \notin DOMAIN Table(key, t)
                 PROVE  t - window[k].start >= WindowLen
      OBVIOUS
    <3>1. ~(t - window[k].start < WindowLen)
      BY DEF Table, Swept, Restrict
    <3>2. window[k].start \in Int
      BY DEF ThrottleTypes
    <3> QED
      BY <1>0, <3>1, <3>2
  <2> HIDE DEF Table
  <2>4. CASE ok
    BY <1>2, <2>1, <2>2, <2>3, <2>4 DEF Thins
  <2>5. CASE ~ok
    <3>1. window' = Table(key, t)
      BY <2>1, <2>5
    <3> QED
      BY <2>2, <2>3, <2>5, <3>1 DEF Thins
  <2> QED
    BY <2>4, <2>5
<1> QED
  BY <1>1, <1>2

\* Count changes the attempt's own record only.
LEMMA CountEffect ==
    ASSUME ThrottleTypes, NEW p \in Attempt, Count(p)
    PROVE  /\ attempt[p].pc = "count" /\ UNCHANGED <<now, sweepTime>>
           /\ DOMAIN attempt' = Attempt /\ DOMAIN attempt'[p] = DOMAIN Fresh
           /\ \A q \in Attempt \ {p} : attempt'[q] = attempt[q]
           /\ attempt'[p].key = attempt[p].key /\ attempt'[p].t = attempt[p].t
           /\ \E ok \in BOOLEAN :
                /\ Allow(attempt[p].key, PerMin, attempt[p].t, ok)
                /\ attempt'[p].pc = IF ok THEN "admitted" ELSE "refused"
<1>1. PICK ok \in BOOLEAN :
         /\ Allow(attempt[p].key, PerMin, attempt[p].t, ok)
         /\ attempt' = [attempt EXCEPT ![p].pc = IF ok THEN "admitted" ELSE "refused"]
  BY DEF Count
<1>2. DOMAIN attempt = Attempt /\ DOMAIN attempt[p] = DOMAIN Fresh
  BY DEF ThrottleTypes
<1>3. attempt'[p] = [attempt[p] EXCEPT !.pc = IF ok THEN "admitted" ELSE "refused"]
  BY <1>1, <1>2
<1>4. /\ DOMAIN attempt'[p] = DOMAIN Fresh
      /\ attempt'[p].key = attempt[p].key /\ attempt'[p].t = attempt[p].t
      /\ attempt'[p].pc = IF ok THEN "admitted" ELSE "refused"
  BY <1>2, <1>3 DEF Fresh
<1>5. DOMAIN attempt' = Attempt /\ \A q \in Attempt \ {p} : attempt'[q] = attempt[q]
  BY <1>1, <1>2
<1> QED
  BY <1>1, <1>4, <1>5 DEF Count
\* Every step keeps clock readings and windows in the past, and Tick waits
\* for the handlers that wait for the mutex.
LEMMA TypesStep ==
    ASSUME ThrottleTypes, [ThrottleNext]_throttleVars
    PROVE  ThrottleTypes'
<1>0. MaxLag \in Nat /\ WindowLen \in Nat /\ PerMin \in Nat
  BY KnockThrottleAssumption, RateLimiterAssumption
<1>1. CASE UNCHANGED throttleVars
  BY <1>1 DEF ThrottleTypes, throttleVars
<1>2. ASSUME NEW p \in Attempt, ReadClock(p) PROVE ThrottleTypes'
  <2>1. PICK key \in Bucket :
           attempt' = [attempt EXCEPT ![p] = [pc |-> "count", key |-> key, t |-> now]]
    BY <1>2 DEF ReadClock
  <2>2. /\ DOMAIN attempt' = Attempt
        /\ \A q \in Attempt \ {p} : attempt'[q] = attempt[q]
        /\ attempt'[p] = [pc |-> "count", key |-> key, t |-> now]
    BY <2>1 DEF ThrottleTypes
  <2>3. /\ DOMAIN attempt'[p] = DOMAIN Fresh /\ attempt'[p].t = now
        /\ now - now <= MaxLag /\ now \in 0..now
    BY <1>0, <2>2 DEF Fresh, ThrottleTypes
  <2> QED
    BY <1>2, <2>2, <2>3 DEF ReadClock, ThrottleTypes
<1>3. ASSUME NEW p \in Attempt, Count(p) PROVE ThrottleTypes'
  <2>1. PICK ok \in BOOLEAN :
           /\ Allow(attempt[p].key, PerMin, attempt[p].t, ok)
           /\ attempt'[p].pc = IF ok THEN "admitted" ELSE "refused"
    BY <1>3, CountEffect
  <2>2. /\ attempt[p].t \in Nat /\ attempt[p].t \in 0..now
        /\ attempt[p].key \in DOMAIN window =>
             window[attempt[p].key].start \in 0..now /\ window[attempt[p].key].n \in Nat
    BY DEF ThrottleTypes
  <2>3. \A k \in DOMAIN window' :
           /\ DOMAIN window'[k] = {"start", "n"}
           /\ window'[k].start \in 0..now /\ window'[k].n \in Nat
    <3> SUFFICES ASSUME NEW k \in DOMAIN window'
                 PROVE  /\ DOMAIN window'[k] = {"start", "n"}
                        /\ window'[k].start \in 0..now /\ window'[k].n \in Nat
      OBVIOUS
    <3>1. CASE k # attempt[p].key
      <4>1. k \in DOMAIN window /\ window'[k] = window[k]
        BY <2>1, <2>2, <3>1, AllowOutcome DEF Thins
      <4> QED
        BY <4>1 DEF ThrottleTypes
    <3>2. CASE k = attempt[p].key
      <4>1. \/ /\ window'[k] = [start |-> window[k].start, n |-> window[k].n + 1]
               /\ k \in DOMAIN window
            \/ window'[k] = [start |-> attempt[p].t, n |-> 1]
            \/ window'[k] = window[k] /\ k \in DOMAIN window
        BY <2>1, <2>2, <3>2, AllowOutcome DEF Counting
      <4> QED
        BY <2>2, <3>2, <4>1 DEF ThrottleTypes
    <3> QED
      BY <3>1, <3>2
  <2> QED
    BY <1>3, <2>1, <2>2, <2>3, CountEffect DEF ThrottleTypes
<1>4. CASE SweepRead
  BY <1>4 DEF SweepRead, ThrottleTypes
<1>5. CASE SweepRun
  <2>1. \A k \in DOMAIN window' : k \in DOMAIN window /\ window'[k] = window[k]
    BY <1>5 DEF SweepRun, Sweep, Swept, Restrict
  <2> QED
    BY <1>5, <2>1 DEF SweepRun, ThrottleTypes
<1>6. CASE Tick
  <2>1. /\ now' = now + 1 /\ UNCHANGED <<window, attempt, sweepTime>>
        /\ \A p \in Attempt : attempt[p].pc = "count" => now + 1 - attempt[p].t <= MaxLag
    BY <1>6 DEF Tick
  <2>2. now \in Nat /\ \A x \in 0..now : x \in 0..now'
    BY <2>1 DEF ThrottleTypes
  <2> QED
    BY <2>1, <2>2 DEF ThrottleTypes
<1> QED
  BY <1>1, <1>2, <1>3, <1>4, <1>5, <1>6 DEF ThrottleNext

\* A step that lets nobody through keeps the account: windows only count up,
\* and go when they are over.
LEMMA KeptAccount ==
    ASSUME ThrottleTypes, ThrottleTypes', NEW w, Accounted(w),
           now' >= now,
           \A p \in Attempt :
             /\ attempt'[p].pc = "admitted" <=> attempt[p].pc = "admitted"
             /\ attempt[p].pc = "admitted" => attempt'[p] = attempt[p],
           \A k \in DOMAIN window' :
             /\ k \in DOMAIN window /\ window'[k].start = window[k].start
             /\ window'[k].n >= window[k].n,
           \A k \in DOMAIN window \ DOMAIN window' : now' >= window[k].start + WindowLen
    PROVE  Accounted(w)'
<1>0. MaxLag \in Nat /\ WindowLen \in Nat /\ now \in Nat /\ now' \in Nat
  BY KnockThrottleAssumption, RateLimiterAssumption DEF ThrottleTypes
<1>1. ASSUME NEW p \in Attempt, attempt'[p].pc = "admitted" PROVE Placed(w, p)'
  <2>1. Placed(w, p) /\ attempt'[p] = attempt[p]
    BY <1>1 DEF Accounted
  <2> QED
    BY <1>0, <2>1 DEF Placed
<1>2. ASSUME NEW p \in Attempt, NEW q \in Attempt,
             attempt'[p].pc = "admitted", attempt'[q].pc = "admitted"
      PROVE  Apart(w, p, q)'
  <2>1. Apart(w, p, q) /\ attempt'[p] = attempt[p] /\ attempt'[q] = attempt[q]
    BY <1>2 DEF Accounted
  <2> QED
    BY <2>1 DEF Apart
<1>3. ASSUME NEW key, NEW s \in Nat PROVE Full(w, key, s)'
  <2>1. Full(w, key, s)
    BY DEF Accounted
  <2>2. Passed(w, key, s)' = Passed(w, key, s)
    BY DEF Passed
  <2>3. \A p \in Passed(w, key, s) : attempt'[p].t = attempt[p].t
    BY DEF Passed
  <2>4. Cardinality(Passed(w, key, s)) \in Nat
    BY <2>1, FS_CardinalityType DEF Full
  <2>5. key \in DOMAIN window' => /\ key \in DOMAIN window
                                  /\ window'[key].start = window[key].start
                                  /\ window'[key].n >= window[key].n
                                  /\ window[key].n \in Nat /\ window'[key].n \in Nat
    BY DEF ThrottleTypes
  <2> HIDE DEF Passed
  <2> QED
    BY <2>1, <2>2, <2>3, <2>4, <2>5 DEF Full
<1> QED
  BY <1>1, <1>2, <1>3 DEF Accounted
\* w, with attempt p in the window begun at s.
Assigned(w, p, s) == [ q \in Attempt |-> IF q = p THEN s ELSE w[q] ]

\* An attempt let through is counted in the window there is or in one of its
\* own, and the account goes on: the earlier windows of its key are over, and
\* a handler that waits for the mutex is behind the clock by MaxLag at most.
LEMMA AddedAccount ==
    ASSUME ThrottleTypes, ThrottleTypes', NEW w, Accounted(w),
           NEW p \in Attempt, NEW s \in Nat, UNCHANGED now,
           attempt[p].pc = "count", attempt'[p].pc = "admitted",
           attempt'[p].key = attempt[p].key, attempt'[p].t = attempt[p].t,
           \A q \in Attempt \ {p} : attempt'[q] = attempt[q],
           Thins(attempt[p].key, attempt[p].t),
           attempt[p].key \in DOMAIN window', window'[attempt[p].key].start = s,
           \/ /\ Counting(attempt[p].key, attempt[p].t)
              /\ window[attempt[p].key].start = s
              /\ window'[attempt[p].key].n = window[attempt[p].key].n + 1
              /\ window[attempt[p].key].n + 1 <= PerMin
           \/ /\ ~Counting(attempt[p].key, attempt[p].t)
              /\ s = attempt[p].t /\ window'[attempt[p].key].n = 1
    PROVE  Accounted(Assigned(w, p, s))'
<1> DEFINE k == attempt[p].key
           t == attempt[p].t
           v == Assigned(w, p, s)
           Old(q) == q # p /\ attempt[q].pc = "admitted"
<1>0. /\ MaxLag \in {0, 1} /\ WindowLen \in Nat /\ MaxLag < WindowLen
      /\ PerMin \in Nat \ {0} /\ now \in Nat
      /\ t \in 0..now /\ now - t <= MaxLag /\ s \in 0..now
  BY KnockThrottleAssumption, RateLimiterAssumption DEF ThrottleTypes
<1>1. v[p] = s /\ \A q \in Attempt \ {p} : v[q] = w[q]
  BY DEF Assigned
<1>2. ASSUME NEW q \in Attempt
      PROVE  attempt'[q].pc = "admitted" <=> q = p \/ Old(q)
  OBVIOUS
<1>3. ASSUME NEW q \in Attempt, Old(q)
      PROVE  /\ Placed(w, q) /\ attempt'[q] = attempt[q] /\ w[q] \in Nat
             /\ attempt[q].t \in Nat
  BY <1>3 DEF Accounted, Placed, ThrottleTypes
\* The reach of the window.
<1>4. t \in (s - MaxLag) .. (s + WindowLen - 1)
  <2>1. CASE Counting(k, t)
    BY <1>0, <2>1 DEF Counting
  <2>2. CASE ~Counting(k, t)
    BY <1>0, <2>2
  <2> QED
    BY <2>1, <2>2
\* The earlier windows of the key.
<1>5. ASSUME NEW q \in Attempt, Old(q), attempt[q].key = k
      PROVE  /\ w[q] <= s
             /\ w[q] = s => Counting(k, t)
             /\ w[q] # s => /\ now >= w[q] + WindowLen
                            /\ t >= w[q] + WindowLen - MaxLag
                            /\ s >= w[q] + WindowLen - MaxLag
  <2>1. Placed(w, q) /\ w[q] \in Nat
    BY <1>3, <1>5
  <2>2. CASE Counting(k, t)
    <3>1. k \in DOMAIN window /\ window[k].start = s /\ w[q] <= s
      BY <1>5, <2>1, <2>2 DEF Counting, Placed
    <3>2. w[q] # s => now >= w[q] + WindowLen
      BY <1>5, <2>1, <3>1 DEF Placed
    <3>3. w[q] # s => s >= w[q] + WindowLen - MaxLag
      <4>1. Full(w, k, s)
        BY DEF Accounted
      <4>2. PICK o \in Passed(w, k, s) : attempt[o].t = s
        BY <3>1, <4>1 DEF Full
      <4>3. o \in Attempt /\ attempt[o].pc = "admitted" /\ attempt[o].key = k /\ w[o] = s
        BY <4>2 DEF Passed
      <4>4. Apart(w, q, o)
        BY <1>5, <4>3 DEF Accounted
      <4> QED
        BY <1>5, <2>1, <3>1, <4>3, <4>4 DEF Apart
    <3> QED
      BY <1>0, <2>1, <2>2, <3>1, <3>2, <3>3
  <2>3. CASE ~Counting(k, t)
    <3>1. CASE k \notin DOMAIN window
      BY <1>0, <1>5, <2>1, <2>3, <3>1 DEF Placed
    <3>2. CASE k \in DOMAIN window
      <4>1. window[k].start \in Nat /\ w[q] <= window[k].start
        BY <1>5, <2>1, <3>2 DEF Placed, ThrottleTypes
      <4>2. t - window[k].start >= WindowLen
        BY <1>0, <2>3, <3>2, <4>1 DEF Counting
      <4> QED
        BY <1>0, <2>1, <2>3, <4>1, <4>2
    <3> QED
      BY <3>1, <3>2
  <2> QED
    BY <2>2, <2>3
\* Any other key keeps its window or loses one that is over.
<1>6. ASSUME NEW q \in Attempt, Old(q) PROVE Placed(v, q)'
  <2>1. Placed(w, q) /\ attempt'[q] = attempt[q] /\ w[q] \in Nat /\ v[q] = w[q]
    BY <1>1, <1>3, <1>6
  <2>2. CASE attempt[q].key = k
    BY <1>0, <1>5, <1>6, <2>1, <2>2 DEF Placed
  <2>3. CASE attempt[q].key # k
    <3> DEFINE l == attempt[q].key
    <3>1. l \in DOMAIN window' => l \in DOMAIN window /\ window'[l] = window[l]
      BY <2>3 DEF Thins
    <3>2. l \in DOMAIN window \ DOMAIN window' =>
             window[l].start \in Nat /\ now >= window[l].start + WindowLen
      BY <1>0 DEF Thins, ThrottleTypes
    <3> QED
      BY <2>1, <3>1, <3>2 DEF Placed
  <2> QED
    BY <2>2, <2>3
<1>7. Placed(v, p)'
  BY <1>0, <1>1, <1>4 DEF Placed
<1>8. ASSUME NEW q \in Attempt, NEW r \in Attempt,
             attempt'[q].pc = "admitted", attempt'[r].pc = "admitted"
      PROVE  Apart(v, q, r)'
  <2>1. CASE Old(q) /\ Old(r)
    <3>1. Apart(w, q, r)
      BY <2>1 DEF Accounted
    <3> QED
      BY <1>1, <1>3, <2>1, <3>1 DEF Apart
  <2>2. CASE Old(q) /\ r = p
    BY <1>1, <1>3, <1>5, <2>2 DEF Apart
  <2>3. CASE q = p /\ Old(r)
    <3>1. w[r] <= s \/ attempt[r].key # k
      BY <1>5, <2>3
    <3>2. v[q] = s /\ v[r] = w[r] /\ w[r] \in Nat /\ attempt'[r] = attempt[r]
      BY <1>1, <1>3, <2>3
    <3> QED
      BY <2>3, <3>1, <3>2 DEF Apart
  <2>4. CASE q = p /\ r = p
    BY <1>1, <2>4 DEF Apart
  <2> QED
    BY <1>2, <1>8, <2>1, <2>2, <2>3, <2>4
<1>9. ASSUME NEW key, NEW u \in Nat PROVE Full(v, key, u)'
  <2>0. Full(w, key, u)
    BY DEF Accounted
  <2>1. /\ IsFiniteSet(Passed(w, key, u)) /\ Cardinality(Passed(w, key, u)) \in Nat
        /\ p \notin Passed(w, key, u)
    BY <2>0, FS_CardinalityType DEF Full, Passed
  <2>2. \A q \in Passed(w, key, u) : attempt'[q].t = attempt[q].t
    BY DEF Passed
  <2>3. CASE key = k /\ u = s
    <3>1. Passed(v, key, u)' = Passed(w, key, u) \cup {p}
      BY <1>1, <1>2, <2>3 DEF Passed
    <3>2. /\ IsFiniteSet(Passed(v, key, u)')
          /\ Cardinality(Passed(v, key, u)') = Cardinality(Passed(w, key, u)) + 1
      BY <2>1, <3>1, FS_AddElement
    <3>3. CASE Counting(k, t)
      <4>1. /\ k \in DOMAIN window /\ window[k].start = s /\ window[k].n \in Nat
            /\ window'[k].n = window[k].n + 1 /\ window[k].n + 1 <= PerMin
        BY <3>3 DEF Counting, ThrottleTypes
      <4>2. /\ \E o \in Passed(w, key, u) : attempt[o].t = u
            /\ Cardinality(Passed(w, key, u)) <= window[k].n
        BY <2>0, <2>3, <4>1 DEF Full
      <4>3. \E o \in Passed(v, key, u)' : attempt'[o].t = u
        BY <2>2, <3>1, <4>2
      <4> HIDE DEF Passed
      <4> QED
        BY <1>0, <2>1, <2>3, <3>1, <3>2, <4>1, <4>2, <4>3 DEF Full
    <3>4. CASE ~Counting(k, t)
      <4>1. Passed(w, key, u) = {}
        BY <1>5, <2>3, <3>4 DEF Passed
      <4>2. Cardinality(Passed(v, key, u)') = 1
        BY <3>2, <4>1, FS_EmptySet
      <4>3. \E o \in Passed(v, key, u)' : attempt'[o].t = u
        BY <2>3, <3>1, <3>4
      <4> QED
        BY <1>0, <2>3, <3>1, <3>2, <3>4, <4>2, <4>3 DEF Full
    <3> QED
      BY <3>3, <3>4
  <2>4. CASE ~(key = k /\ u = s)
    <3>1. Passed(v, key, u)' = Passed(w, key, u)
      BY <1>1, <1>2, <2>4 DEF Passed
    <3>2. key \in DOMAIN window' /\ window'[key].start = u =>
             key \in DOMAIN window /\ window'[key] = window[key]
      BY <2>4 DEF Thins
    <3> HIDE DEF Passed
    <3> QED
      BY <2>0, <2>2, <3>1, <3>2 DEF Full
  <2> QED
    BY <2>3, <2>4
<1> QED
  <2> HIDE DEF v
  <2>1. \A q \in Attempt : attempt'[q].pc = "admitted" => Placed(v, q)'
    BY <1>2, <1>6, <1>7
  <2>2. \A q, r \in Attempt :
           attempt'[q].pc = "admitted" /\ attempt'[r].pc = "admitted" => Apart(v, q, r)'
    BY <1>8
  <2>3. \A key : \A u \in Nat : Full(v, key, u)'
    BY <1>9
  <2>4. Accounted(v)'
    BY <2>1, <2>2, <2>3 DEF Accounted
  <2> QED
    BY <2>4 DEF v
\* Every step keeps the account.
LEMMA QuotaStep ==
    ASSUME QuotaInv, [ThrottleNext]_throttleVars
    PROVE  QuotaInv'
<1>1. ThrottleTypes /\ ThrottleTypes'
  BY TypesStep DEF QuotaInv
<1>2. PICK w : Accounted(w)
  BY DEF QuotaInv
<1>3. WindowLen \in Nat /\ now \in Nat /\ now' \in Nat
      /\ \A k \in DOMAIN window : window[k].start \in Nat /\ window[k].n \in Nat
  BY <1>1, RateLimiterAssumption DEF ThrottleTypes
<1>4. CASE UNCHANGED throttleVars
  BY <1>1, <1>2, <1>3, <1>4, KeptAccount DEF throttleVars, QuotaInv
<1>5. ASSUME NEW p \in Attempt, ReadClock(p) PROVE QuotaInv'
  <2>1. PICK key \in Bucket :
           attempt' = [attempt EXCEPT ![p] = [pc |-> "count", key |-> key, t |-> now]]
    BY <1>5 DEF ReadClock
  <2>2. /\ \A q \in Attempt \ {p} : attempt'[q] = attempt[q]
        /\ attempt'[p].pc = "count" /\ attempt[p].pc = "idle"
    BY <1>1, <1>5, <2>1 DEF ThrottleTypes, ReadClock
  <2>3. UNCHANGED <<window, now>>
    BY <1>5 DEF ReadClock
  <2> QED
    BY <1>1, <1>2, <1>3, <2>2, <2>3, KeptAccount DEF QuotaInv
<1>6. ASSUME NEW p \in Attempt, Count(p) PROVE QuotaInv'
  <2> DEFINE k == attempt[p].key
             t == attempt[p].t
  <2>1. PICK ok \in BOOLEAN :
           /\ Allow(k, PerMin, t, ok)
           /\ attempt'[p].pc = IF ok THEN "admitted" ELSE "refused"
    BY <1>1, <1>6, CountEffect
  <2>2. t \in Nat /\ t <= now
    BY <1>1 DEF ThrottleTypes
  <2>3. /\ attempt[p].pc = "count" /\ UNCHANGED now
        /\ \A q \in Attempt \ {p} : attempt'[q] = attempt[q]
        /\ attempt'[p].key = k /\ attempt'[p].t = t
    BY <1>1, <1>6, CountEffect
  <2>4. Thins(k, t)
    BY <1>1, <2>1, <2>2, AllowOutcome
  <2>5. \/ /\ Counting(k, t) /\ DOMAIN window' = DOMAIN window
           /\ window'[k] = [start |-> window[k].start, n |-> window[k].n + 1]
           /\ ok <=> window[k].n + 1 <= PerMin
        \/ /\ ~Counting(k, t) /\ ok
           /\ k \in DOMAIN window' /\ window'[k] = [start |-> t, n |-> 1]
        \/ ~ok /\ (k \in DOMAIN window' => k \in DOMAIN window /\ window'[k] = window[k])
    BY <1>1, <2>1, <2>2, AllowOutcome
  <2>6. Counting(k, t) => k \in DOMAIN window
    BY DEF Counting
  <2>7. \A x \in DOMAIN window \ DOMAIN window' : now' >= window[x].start + WindowLen
    BY <1>3, <2>2, <2>3, <2>4 DEF Thins
  <2>8. CASE ok
    <3>1. /\ k \in DOMAIN window'
          /\ \/ /\ Counting(k, t)
                /\ window'[k].start = window[k].start
                /\ window'[k].n = window[k].n + 1
                /\ window[k].n + 1 <= PerMin
             \/ /\ ~Counting(k, t)
                /\ window'[k].start = t /\ window'[k].n = 1
      BY <2>8, <2>5, <2>6
    <3>2. window'[k].start \in Nat
      BY <1>1, <3>1 DEF ThrottleTypes
    <3>3. PICK s \in Nat : s = window'[k].start
      BY <3>2
    <3>4. Accounted(Assigned(w, p, s))'
      BY <1>1, <1>2, <2>1, <2>3, <2>4, <2>8, <3>1, <3>3, AddedAccount
    <3> QED
      BY <1>1, <3>4 DEF QuotaInv
  <2>9. CASE ~ok
    <3>1. \A x \in DOMAIN window' : /\ x \in DOMAIN window
                                    /\ window'[x].start = window[x].start
                                    /\ window'[x].n >= window[x].n
      <4> SUFFICES ASSUME NEW x \in DOMAIN window'
                   PROVE  /\ x \in DOMAIN window /\ window'[x].start = window[x].start
                          /\ window'[x].n >= window[x].n
        OBVIOUS
      <4>1. CASE x # k
        BY <1>3, <2>4, <4>1 DEF Thins
      <4>2. CASE x = k
        BY <1>3, <2>9, <2>5, <2>6, <4>2
      <4> QED
        BY <4>1, <4>2
    <3>2. Accounted(w)'
      BY <1>1, <1>2, <1>3, <2>1, <2>3, <2>7, <2>9, <3>1, KeptAccount
    <3> QED
      BY <1>1, <3>2 DEF QuotaInv
  <2> QED
    BY <2>8, <2>9
<1>7. CASE SweepRead
  BY <1>1, <1>2, <1>3, <1>7, KeptAccount DEF SweepRead, QuotaInv
<1>8. CASE SweepRun
  <2>1. sweepTime \in Nat /\ sweepTime <= now
    BY <1>1, <1>8 DEF SweepRun, ThrottleTypes
  <2>2. window' = Swept(sweepTime) /\ UNCHANGED <<now, attempt>>
    BY <1>8 DEF SweepRun, Sweep
  <2>3. /\ \A k \in DOMAIN window' : k \in DOMAIN window /\ window'[k] = window[k]
        /\ \A k \in DOMAIN window \ DOMAIN window' : ~(sweepTime - window[k].start < WindowLen)
    BY <2>2 DEF Swept, Restrict
  <2>4. \A k \in DOMAIN window \ DOMAIN window' : now' >= window[k].start + WindowLen
    BY <1>3, <2>1, <2>2, <2>3
  <2>5. Accounted(w)'
    BY <1>1, <1>2, <1>3, <2>2, <2>3, <2>4, KeptAccount
  <2> QED
    BY <1>1, <2>5 DEF QuotaInv
<1>9. CASE Tick
  <2>1. now' >= now /\ UNCHANGED <<window, attempt>>
    BY <1>3, <1>9 DEF Tick
  <2> QED
    BY <1>1, <1>2, <1>3, <2>1, KeptAccount DEF QuotaInv
<1> QED
  BY <1>4, <1>5, <1>6, <1>7, <1>8, <1>9 DEF ThrottleNext

\* What is let through in a stretch of WindowLen seconds was counted in three
\* windows at most: one begun before the stretch, one in it, and one of which
\* the stretch holds the first second at most.  The first let through at
\* least one attempt outside the stretch, the one that opened it.
LEMMA QuotaHolds == QuotaInv => QuotaBounded
<1> SUFFICES ASSUME QuotaInv, NEW key \in Bucket, NEW from \in 0..MaxTime
             PROVE  Cardinality(Admitted(key, from)) < 3 * PerMin
  BY DEF QuotaBounded
<1>0. /\ MaxLag \in {0, 1} /\ WindowLen \in Nat /\ MaxLag < WindowLen
      /\ PerMin \in Nat \ {0} /\ from \in Nat
  BY KnockThrottleAssumption, RateLimiterAssumption
<1>1. PICK w : Accounted(w)
  BY DEF QuotaInv
<1> DEFINE A == Admitted(key, from)
           A1 == { p \in A : w[p] < from }
           A2 == { p \in A : from <= w[p] /\ w[p] < from + WindowLen - 1 }
           A3 == { p \in A : from + WindowLen - 1 <= w[p] }
<1>2. ASSUME NEW p \in A
      PROVE  /\ p \in Attempt /\ attempt[p].pc = "admitted" /\ attempt[p].key = key
             /\ w[p] \in Nat /\ attempt[p].t \in Nat
             /\ from <= attempt[p].t /\ attempt[p].t <= from + WindowLen - 1
             /\ attempt[p].t <= w[p] + WindowLen - 1
             /\ p \in Passed(w, key, w[p])
  <2>1. /\ p \in Attempt /\ attempt[p].pc = "admitted" /\ attempt[p].key = key
        /\ attempt[p].t \in from .. (from + WindowLen - 1)
    BY DEF Admitted
  <2>2. w[p] \in Nat /\ attempt[p].t \in (w[p] - MaxLag) .. (w[p] + WindowLen - 1)
    BY <1>1, <2>1 DEF Accounted, Placed
  <2> QED
    BY <1>0, <2>1, <2>2 DEF Passed
<1>3. ASSUME NEW p \in A, NEW q \in A, w[p] < w[q]
      PROVE  /\ w[q] >= w[p] + WindowLen - MaxLag
             /\ attempt[q].t >= w[p] + WindowLen - MaxLag
  <2>1. Apart(w, p, q)
    BY <1>1, <1>2 DEF Accounted
  <2> QED
    BY <1>2, <1>3, <2>1 DEF Apart
<1> HIDE DEF A
<1>4. ASSUME NEW p \in A, NEW q \in A,
             \/ p \in A1 /\ q \in A1
             \/ p \in A2 /\ q \in A2
             \/ p \in A3 /\ q \in A3
      PROVE  ~(w[p] < w[q])
  <2> SUFFICES ASSUME w[p] < w[q] PROVE FALSE
    OBVIOUS
  <2>1. /\ w[p] \in Nat /\ w[q] \in Nat /\ attempt[q].t \in Nat /\ attempt[p].t \in Nat
        /\ w[q] >= w[p] + WindowLen - MaxLag
        /\ attempt[q].t >= w[p] + WindowLen - MaxLag
        /\ attempt[q].t <= from + WindowLen - 1
        /\ from <= attempt[p].t /\ attempt[p].t <= w[p] + WindowLen - 1
    BY <1>2, <1>3
  <2> QED
    BY <1>0, <1>4, <2>1
<1>5. ASSUME NEW B, B \in {A1, A2, A3}
      PROVE  /\ IsFiniteSet(B) /\ Cardinality(B) \in Nat /\ Cardinality(B) <= PerMin
             /\ B = A1 => Cardinality(B) < PerMin
  <2>1. CASE B = {}
    BY <1>0, <2>1, FS_EmptySet
  <2>2. CASE B # {}
    <3>1. PICK p \in B : TRUE
      BY <2>2
    <3>2. p \in A /\ \A q \in B : q \in A /\ w[q] = w[p]
      <4>1. \A q \in B : q \in A
        BY <1>5
      <4>2. \A q \in B : ~(w[p] < w[q]) /\ ~(w[q] < w[p])
        BY <1>4, <1>5, <3>1, <4>1
      <4>3. \A q \in B : w[q] \in Nat
        BY <1>2, <4>1
      <4> QED
        BY <3>1, <4>1, <4>2, <4>3
    <3> DEFINE P == Passed(w, key, w[p])
    <3>3. B \subseteq P
      BY <1>2, <3>2
    <3>4. Full(w, key, w[p])
      BY <1>1, <1>2, <3>2 DEF Accounted
    <3>5. IsFiniteSet(P) /\ Cardinality(P) <= PerMin /\ Cardinality(P) \in Nat
      BY <3>4, FS_CardinalityType DEF Full
    <3>6. IsFiniteSet(B) /\ Cardinality(B) \in Nat /\ Cardinality(B) <= Cardinality(P)
      BY <3>3, <3>5, FS_Subset, FS_CardinalityType
    <3>7. B = A1 => Cardinality(B) < Cardinality(P)
      <4> SUFFICES ASSUME B = A1 PROVE Cardinality(B) < Cardinality(P)
        OBVIOUS
      <4>1. PICK o \in P : attempt[o].t = w[p]
        BY <3>1, <3>3, <3>4 DEF Full
      <4>2. o \notin A
        BY <1>0, <1>2, <3>1, <3>2, <4>1
      <4>3. B # P
        BY <3>2, <4>1, <4>2
      <4>4. Cardinality(P) = Cardinality(B) => P = B
        BY <3>3, <3>5, FS_Subset
      <4> QED
        BY <3>5, <3>6, <4>3, <4>4
    <3> QED
      BY <1>0, <3>5, <3>6, <3>7
  <2> QED
    BY <2>1, <2>2
<1>6. A = (A1 \cup A2) \cup A3
  BY <1>0, <1>2
<1>7. /\ IsFiniteSet(A1) /\ Cardinality(A1) \in Nat /\ Cardinality(A1) < PerMin
      /\ IsFiniteSet(A2) /\ Cardinality(A2) \in Nat /\ Cardinality(A2) <= PerMin
      /\ IsFiniteSet(A3) /\ Cardinality(A3) \in Nat /\ Cardinality(A3) <= PerMin
  BY <1>5
<1> HIDE DEF A1, A2, A3
<1>8. /\ IsFiniteSet(A1 \cup A2) /\ Cardinality(A1 \cup A2) \in Nat
      /\ Cardinality(A1 \cup A2) <= Cardinality(A1) + Cardinality(A2)
  <2>1. IsFiniteSet(A1 \cap A2) /\ Cardinality(A1 \cap A2) \in Nat
    BY <1>7, FS_Subset, FS_CardinalityType
  <2>2. /\ IsFiniteSet(A1 \cup A2)
        /\ Cardinality(A1 \cup A2)
             = Cardinality(A1) + Cardinality(A2) - Cardinality(A1 \cap A2)
    BY <1>7, FS_Union
  <2>3. Cardinality(A1 \cup A2) \in Nat
    BY <2>2, FS_CardinalityType
  <2> QED
    BY <1>7, <2>1, <2>2, <2>3
<1>9. /\ Cardinality((A1 \cup A2) \cup A3) \in Nat
      /\ Cardinality((A1 \cup A2) \cup A3) <= Cardinality(A1 \cup A2) + Cardinality(A3)
  <2>1. IsFiniteSet((A1 \cup A2) \cap A3) /\ Cardinality((A1 \cup A2) \cap A3) \in Nat
    BY <1>7, FS_Subset, FS_CardinalityType
  <2>2. /\ IsFiniteSet((A1 \cup A2) \cup A3)
        /\ Cardinality((A1 \cup A2) \cup A3)
             = Cardinality(A1 \cup A2) + Cardinality(A3) - Cardinality((A1 \cup A2) \cap A3)
    BY <1>7, <1>8, FS_Union
  <2>3. Cardinality((A1 \cup A2) \cup A3) \in Nat
    BY <2>2, FS_CardinalityType
  <2> QED
    BY <1>7, <1>8, <2>1, <2>2, <2>3
<1> QED
  BY <1>0, <1>6, <1>7, <1>8, <1>9 DEF A

\* Fewer than three quotas pass in any stretch of WindowLen seconds, for any
\* limit, table, number of sources and requests, wherever the sweeper and the
\* requests that need room drop windows.
THEOREM QuotaAlwaysBounded == ThrottleSpec => []QuotaBounded
<1>1. ThrottleInit => QuotaInv
  <2> SUFFICES ASSUME ThrottleInit PROVE QuotaInv
    OBVIOUS
  <2>1. /\ now = 0 /\ sweepTime = NoSweep /\ DOMAIN window = {}
        /\ DOMAIN attempt = Attempt /\ \A p \in Attempt : attempt[p] = Fresh
    BY DEF ThrottleInit, RateLimiterInit
  <2>2. Fresh.pc = "idle" /\ Fresh.t = 0
    BY DEF Fresh
  <2>3. ThrottleTypes
    BY <2>1, <2>2 DEF ThrottleTypes
  <2>4. \A w, key, s : Passed(w, key, s) = {}
    BY <2>1, <2>2 DEF Passed
  <2>5. \A w : \A key : \A s \in Nat : Full(w, key, s)
    BY <2>1, <2>4, FS_EmptySet, KnockThrottleAssumption DEF Full
  <2>6. \A w : Accounted(w)
    BY <2>1, <2>2, <2>5 DEF Accounted
  <2> QED
    BY <2>3, <2>6 DEF QuotaInv
<1>2. QuotaInv /\ [ThrottleNext]_throttleVars => QuotaInv'
  BY QuotaStep
<1> QED
  BY <1>1, <1>2, QuotaHolds, PTL DEF ThrottleSpec
=============================================================================
