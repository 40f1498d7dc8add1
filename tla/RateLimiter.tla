----------------------------- MODULE RateLimiter -----------------------------
(***************************************************************************)
(* The gateway's prompt rate limiter: token buckets, one per user, created *)
(* full on the first request, refilled lazily, and dropped by an occasional*)
(* sweep when idle for three refill periods.                               *)
(*                                                                         *)
(* Tokens are measured in the milliseconds they take to refill, hence a    *)
(* bucket holds at most Period (refillPeriodMs) and one token is Cost.     *)
(* Date.now is assumed not to step back.  A request without a user id is   *)
(* refused before any of this.                                             *)
(***************************************************************************)
EXTENDS Integers

CONSTANTS
    Users,
    Period,     \* refillPeriodMs
    Cost,       \* 1000 / refillPerSecond
    MaxClock,   \* bound on the clock, of the model only
    NoBucket,
    NoAnswer

ASSUME RateLimiterAssumption ==
    /\ {Period, Cost, MaxClock} \subseteq Nat
    /\ Period > 0
    /\ NoBucket \notin [tokens : 0 .. Period, lastRefill : Nat]
    /\ NoAnswer \notin Users \X BOOLEAN

VARIABLES
    clock,
    buckets,
    lastSweep,
    answer,     \* the last request's user, and whether it was admitted
    since,      \* when an observer started to watch
    spent       \* the cost of what was admitted since then

vars == <<clock, buckets, lastSweep, answer, since, spent>>

Bucket == [tokens : 0 .. Period, lastRefill : Nat]

TypeOK ==
    /\ clock     \in Nat
    /\ buckets   \in [Users -> Bucket \cup {NoBucket}]
    /\ lastSweep \in 0 .. clock
    /\ answer    \in (Users \X BOOLEAN) \cup {NoAnswer}
    /\ since     \in 0 .. clock
    /\ spent     \in [Users -> Nat]

Init ==
    /\ clock     = 0
    /\ buckets   = [u \in Users |-> NoBucket]
    /\ lastSweep = 0
    /\ answer    = NoAnswer
    /\ since     = 0
    /\ spent     = [u \in Users |-> 0]

-----------------------------------------------------------------------------
Due        == clock - lastSweep >= Period
EvictUsed  == 0                                              \* mutant: whatever is left
IdleEvict  == 3 * Period                                     \* idleEvictMs
Idle(u)    == buckets[u] # NoBucket /\ clock - buckets[u].lastRefill > IdleEvict

\* sweep: at most once per refill period, every idle bucket goes.
SweptOne(u, v) == Due /\ v = u /\ Idle(v)                    \* mutant: the caller's only
Swept(u, v)    == Due /\ Idle(v)

Uncapped(n, m) == n                                          \* mutant: no cap
AtMost(n, m)   == IF n <= m THEN n ELSE m

\* The caller's bucket when the request is decided: new and full, or refilled.
Refilled(u) ==
    IF buckets[u] = NoBucket \/ Swept(u, u)
    THEN [tokens |-> Period, lastRefill |-> clock]
    ELSE [tokens     |-> AtMost(buckets[u].tokens + (clock - buckets[u].lastRefill), Period),
          lastRefill |-> clock]

\* consume.  A refused request keeps the refilled bucket all the same.
Consume(u) ==
    LET b  == Refilled(u)
        ok == b.tokens >= Cost IN
    /\ buckets' = [v \in Users |->
                     IF v = u THEN [b EXCEPT !.tokens = IF ok THEN @ - Cost ELSE @]
                     ELSE IF Swept(u, v) THEN NoBucket
                     ELSE buckets[v]]
    /\ lastSweep' = IF Due THEN clock ELSE lastSweep
    /\ spent'     = IF ok THEN [spent EXCEPT ![u] = @ + Cost] ELSE spent
    /\ answer'    = <<u, ok>>
    /\ UNCHANGED <<clock, since>>

Tick ==
    /\ clock < MaxClock
    /\ clock'  = clock + 1
    /\ answer' = NoAnswer
    /\ UNCHANGED <<buckets, lastSweep, since, spent>>

\* An observer, not the code: a window of observation starts at any time.
Watch ==
    /\ since' = clock
    /\ spent' = [u \in Users |-> 0]
    /\ UNCHANGED <<clock, buckets, lastSweep, answer>>

Next == Tick \/ Watch \/ \E u \in Users : Consume(u)

Spec == Init /\ [][Next]_vars

-----------------------------------------------------------------------------
(* Properties *)

\* What a user has used up, whether or not there is a bucket for it.
Used(b) == Period - b.tokens - (clock - b.lastRefill)
Debt(u) ==
    IF buckets[u] = NoBucket \/ Used(buckets[u]) < 0 THEN 0 ELSE Used(buckets[u])

\* Lazy refill and eviction cannot be told from a bucket that drains all the
\* time: no request is admitted too early or refused that would have fitted,
\* and no user's requests change another's limit.
\* ("semantically identical", rate-limit.ts:37; refill and sweep)
Contract == INSTANCE LeakyBucket WITH debt <- [u \in Users |-> Debt(u)]
ImplementsContract == Contract!Spec

\* In any window of w milliseconds a user is admitted at most a full bucket
\* plus what w refills.  (rateLimitPerMin: a minute may admit twice the rate)
WindowBound == \A u \in Users : spent[u] <= Period + (clock - since)

\* The map holds only users of the last four periods after each request, so
\* that ids nobody uses again do not accumulate.  (sweep)
OnlyRecentBuckets ==
    [][\A u \in Users : Consume(u) =>
          \A v \in Users : buckets'[v] # NoBucket =>
                           clock - buckets'[v].lastRefill < 4 * Period]_vars
=============================================================================
