-------------------------- MODULE RateLimiterProofs --------------------------
(***************************************************************************)
(* Proofs about RateLimiter, for any users, period, cost and clock.        *)
(*                                                                         *)
(* The one invariant behind them all: a bucket is at most full, it was     *)
(* refilled in the past and not longer than an eviction's age before the   *)
(* last sweep, and what an observer saw admitted is covered by what the    *)
(* bucket lacks and by the time that passed.                               *)
(***************************************************************************)
EXTENDS RateLimiter, TLAPS

\* No bucket was refilled in the future.
RefilledInPast ==
    \A u \in Users : buckets[u] # NoBucket => buckets[u].lastRefill <= clock

\* The last sweep left no bucket that was idle for three periods then.
SweptBefore ==
    \A u \in Users : buckets[u] # NoBucket =>
        buckets[u].lastRefill + 3 * Period >= lastSweep

\* What was admitted in the window is still owed, or was drained in it.
SpentIsOwed == \A u \in Users : spent[u] <= Debt(u) + (clock - since)

IInv == TypeOK /\ RefilledInPast /\ SweptBefore /\ SpentIsOwed

-----------------------------------------------------------------------------
USE RateLimiterAssumption

LEMMA PeriodIsNat == Period \in Nat \ {0} /\ Cost \in Nat /\ MaxClock \in Nat
BY DEF RateLimiterAssumption

LEMMA BucketFields ==
    ASSUME NEW b \in Bucket
    PROVE  b # NoBucket /\ b.tokens \in 0 .. Period /\ b.lastRefill \in Nat
BY DEF Bucket, RateLimiterAssumption

LEMMA InitHolds == Init => IInv
<1> SUFFICES ASSUME Init PROVE IInv
  OBVIOUS
<1>1. TypeOK
  BY PeriodIsNat DEF Init, TypeOK
<1> QED BY <1>1, PeriodIsNat
  DEF Init, IInv, RefilledInPast, SweptBefore, SpentIsOwed, Debt

\* A debt is never negative and never more than a full bucket.
LEMMA DebtBounds ==
    ASSUME TypeOK, RefilledInPast, NEW u \in Users
    PROVE  Debt(u) \in 0 .. Period
<1>1. CASE buckets[u] = NoBucket
  BY <1>1, PeriodIsNat DEF Debt
<1>2. CASE buckets[u] # NoBucket
  <2>1. buckets[u] \in Bucket
    BY <1>2 DEF TypeOK
  <2> QED BY <1>2, <2>1, BucketFields, PeriodIsNat DEF Debt, Used, TypeOK, RefilledInPast
<1> QED BY <1>1, <1>2

-----------------------------------------------------------------------------
(* Tick and Watch *)

LEMMA TickDrains ==
    ASSUME IInv, Tick, NEW u \in Users
    PROVE  Debt(u)' = IF Debt(u) = 0 THEN 0 ELSE Debt(u) - 1
<1>1. CASE buckets[u] = NoBucket
  BY <1>1 DEF Tick, Debt
<1>2. CASE buckets[u] # NoBucket
  <2>1. buckets[u] \in Bucket
    BY <1>2 DEF IInv, TypeOK
  <2>2. buckets[u].tokens \in 0 .. Period /\ buckets[u].lastRefill \in Nat /\ clock \in Nat
    BY <2>1, BucketFields DEF IInv, TypeOK
  <2>3. buckets' = buckets /\ clock' = clock + 1
    BY DEF Tick
  <2>4. Used(buckets[u]) = Period - buckets[u].tokens - (clock - buckets[u].lastRefill)
    BY DEF Used
  <2>5. Used(buckets[u])' = Used(buckets[u]) - 1 /\ Used(buckets[u]) \in Int
    BY <2>2, <2>3, PeriodIsNat DEF Used
  <2> HIDE DEF Used
  <2> QED BY <1>2, <2>3, <2>5 DEF Debt
<1> QED BY <1>1, <1>2

LEMMA TickKeeps == IInv /\ Tick => IInv'
<1> SUFFICES ASSUME IInv, Tick PROVE IInv'
  OBVIOUS
<1>1. TypeOK'
  BY DEF IInv, TypeOK, Tick, Bucket
<1>2. RefilledInPast' /\ SweptBefore'
  <2> SUFFICES ASSUME NEW u \in Users, buckets[u] # NoBucket
               PROVE  /\ buckets[u].lastRefill <= clock'
                      /\ buckets[u].lastRefill + 3 * Period >= lastSweep
    BY DEF RefilledInPast, SweptBefore, Tick
  <2>1. buckets[u].lastRefill \in Nat
    BY BucketFields DEF IInv, TypeOK
  <2> QED BY <2>1 DEF IInv, TypeOK, RefilledInPast, SweptBefore, Tick
<1>3. SpentIsOwed'
  <2> SUFFICES ASSUME NEW u \in Users PROVE spent[u] <= Debt(u)' + (clock' - since)
    BY DEF SpentIsOwed, Tick
  <2>1. Debt(u) \in 0 .. Period
    BY DebtBounds DEF IInv
  <2>2. spent[u] \in Nat /\ clock \in Nat /\ since \in Nat /\ clock' = clock + 1
    BY DEF IInv, TypeOK, Tick
  <2>3. spent[u] <= Debt(u) + (clock - since)
    BY DEF IInv, SpentIsOwed
  <2> QED BY <2>1, <2>2, <2>3, TickDrains, PeriodIsNat
<1> QED BY <1>1, <1>2, <1>3 DEF IInv

LEMMA WatchKeeps == IInv /\ Watch => IInv' /\ \A u \in Users : Debt(u)' = Debt(u)
<1> SUFFICES ASSUME IInv, Watch PROVE IInv' /\ \A u \in Users : Debt(u)' = Debt(u)
  OBVIOUS
<1>1. \A u \in Users : Debt(u)' = Debt(u)
  BY DEF Watch, Debt, Used
<1>2. TypeOK' /\ RefilledInPast' /\ SweptBefore'
  BY DEF IInv, TypeOK, RefilledInPast, SweptBefore, Watch
<1>3. SpentIsOwed'
  <2> SUFFICES ASSUME NEW u \in Users PROVE spent'[u] <= Debt(u)' + (clock' - since')
    BY DEF SpentIsOwed
  <2>1. Debt(u) \in 0 .. Period
    BY DebtBounds DEF IInv
  <2> QED BY <1>1, <2>1, PeriodIsNat DEF IInv, TypeOK, Watch
<1> QED BY <1>1, <1>2, <1>3 DEF IInv

-----------------------------------------------------------------------------
(* Consume *)

\* The bucket a request is decided on shows the debt of its user as it is:
\* an evicted or missing bucket is recreated full, and nothing was owed.
LEMMA RefilledShowsDebt ==
    ASSUME IInv, NEW u \in Users
    PROVE  /\ Refilled(u) \in Bucket
           /\ Refilled(u).lastRefill = clock
           /\ Refilled(u).tokens = Period - Debt(u)
<1>1. clock \in Nat
  BY PeriodIsNat DEF IInv, TypeOK
<1>2. CASE buckets[u] = NoBucket
  BY <1>1, <1>2, PeriodIsNat DEF Refilled, Debt, Bucket
<1>3. CASE buckets[u] # NoBucket
  <2>1. /\ buckets[u].tokens \in 0 .. Period
        /\ buckets[u].lastRefill \in Nat
        /\ buckets[u].lastRefill <= clock
    BY <1>3, BucketFields DEF IInv, TypeOK, RefilledInPast
  <2>2. CASE Swept(u, u)
    BY <1>1, <1>3, <2>1, <2>2, PeriodIsNat
       DEF Refilled, Debt, Used, Bucket, Swept, Idle, IdleEvict
  <2>3. CASE ~Swept(u, u)
    BY <1>1, <1>3, <2>1, <2>3, PeriodIsNat DEF Refilled, Debt, Used, Bucket, AtMost
  <2> QED BY <2>2, <2>3
<1> QED BY <1>2, <1>3

\* A request is admitted exactly when it still fits, and adds its cost.
LEMMA CallersDebt ==
    ASSUME IInv, NEW u \in Users, Consume(u)
    PROVE  /\ buckets'[u] \in Bucket
           /\ buckets'[u].lastRefill = clock
           /\ answer' = <<u, Debt(u) + Cost <= Period>>
           /\ Debt(u)' = IF Debt(u) + Cost <= Period THEN Debt(u) + Cost ELSE Debt(u)
<1> DEFINE b == Refilled(u)
<1>1. b \in Bucket /\ b.lastRefill = clock /\ b.tokens = Period - Debt(u)
  BY RefilledShowsDebt
<1>2. Debt(u) \in 0 .. Period
  BY DebtBounds DEF IInv
<1>3. b.tokens >= Cost <=> Debt(u) + Cost <= Period
  BY <1>1, <1>2, PeriodIsNat
<1>4. buckets'[u] = [b EXCEPT !.tokens = IF b.tokens >= Cost THEN @ - Cost ELSE @]
  BY DEF Consume
<1>5. /\ buckets'[u].tokens = IF Debt(u) + Cost <= Period THEN Period - Debt(u) - Cost
                                                         ELSE Period - Debt(u)
      /\ buckets'[u].lastRefill = clock
      /\ buckets'[u] \in Bucket
  <2> HIDE DEF b
  <2>1. b = [tokens |-> b.tokens, lastRefill |-> b.lastRefill]
    BY <1>1 DEF Bucket
  <2>2. b.tokens \in 0 .. Period /\ clock \in Nat
    BY <1>1, BucketFields DEF IInv, TypeOK
  <2> QED BY <1>1, <1>2, <1>3, <1>4, <2>1, <2>2, PeriodIsNat DEF Bucket
<1>6. buckets'[u] # NoBucket /\ clock' = clock /\ clock \in Nat
  BY <1>5, BucketFields DEF Consume, IInv, TypeOK
<1>7. Debt(u)' = IF Debt(u) + Cost <= Period THEN Debt(u) + Cost ELSE Debt(u)
  <2>1. Debt(u)' = IF Used(buckets[u])' < 0 THEN 0 ELSE Used(buckets[u])'
    BY <1>6 DEF Debt
  <2>2. Used(buckets[u])' = Period - buckets'[u].tokens - (clock - clock)
    BY <1>5, <1>6 DEF Used
  <2> QED BY <1>2, <1>5, <1>6, <2>1, <2>2, PeriodIsNat
<1>8. answer' = <<u, Debt(u) + Cost <= Period>>
  BY <1>3 DEF Consume
<1> QED BY <1>5, <1>7, <1>8

\* Eviction of another user's bucket forgives nothing.
LEMMA OthersDebts ==
    ASSUME IInv, NEW u \in Users, Consume(u), NEW v \in Users, v # u
    PROVE  /\ Debt(v)' = Debt(v)
           /\ buckets'[v] = IF Swept(u, v) THEN NoBucket ELSE buckets[v]
<1>1. buckets'[v] = (IF Swept(u, v) THEN NoBucket ELSE buckets[v]) /\ clock' = clock
  BY DEF Consume
<1>2. CASE Swept(u, v)
  <2>1. /\ buckets[v] # NoBucket
        /\ buckets[v].tokens \in 0 .. Period
        /\ buckets[v].lastRefill \in Nat
    BY <1>2, BucketFields DEF Swept, Idle, IInv, TypeOK
  <2>2. Debt(v) = 0
    BY <1>2, <2>1, PeriodIsNat DEF Swept, Idle, IdleEvict, Debt, Used, IInv, TypeOK
  <2> QED BY <1>1, <1>2, <2>2 DEF Debt
<1>3. CASE ~Swept(u, v)
  BY <1>1, <1>3 DEF Debt, Used
<1> QED BY <1>1, <1>2, <1>3

LEMMA ConsumeKeeps ==
    ASSUME IInv, NEW u \in Users, Consume(u)
    PROVE  IInv'
<1>1. clock' = clock /\ since' = since /\ clock \in Nat
  BY DEF Consume, IInv, TypeOK
<1>2. \A v \in Users : \/ v = u /\ buckets'[v] \in Bucket /\ buckets'[v].lastRefill = clock
                       \/ v # u /\ buckets'[v] = NoBucket
                       \/ v # u /\ buckets'[v] = buckets[v] /\ ~Swept(u, v)
  BY CallersDebt, OthersDebts
<1>3. lastSweep' = (IF Due THEN clock ELSE lastSweep) /\ lastSweep' \in 0 .. clock'
  BY <1>1 DEF Consume, IInv, TypeOK
<1>4. spent' \in [Users -> Nat]
  BY PeriodIsNat DEF Consume, IInv, TypeOK
<1>5. TypeOK'
  <2>1. buckets' \in [Users -> Bucket \cup {NoBucket}]
    <3>1. buckets' = [v \in Users |-> buckets'[v]]
      BY DEF Consume
    <3>2. \A v \in Users : buckets'[v] \in Bucket \cup {NoBucket}
      BY <1>2 DEF IInv, TypeOK
    <3> QED BY <3>1, <3>2
  <2>2. answer' \in Users \X BOOLEAN
    <3>1. (Debt(u) + Cost <= Period) \in BOOLEAN
      OBVIOUS
    <3>2. answer' = <<u, Debt(u) + Cost <= Period>>
      BY CallersDebt
    <3> QED BY <3>1, <3>2, Zenon
  <2> QED BY <1>1, <1>3, <1>4, <2>1, <2>2 DEF IInv, TypeOK
<1>6. RefilledInPast'
  BY <1>1, <1>2 DEF IInv, RefilledInPast
<1>7. SweptBefore'
  <2> SUFFICES ASSUME NEW v \in Users, buckets'[v] # NoBucket
               PROVE  buckets'[v].lastRefill + 3 * Period >= lastSweep'
    BY DEF SweptBefore
  <2>1. CASE v = u
    BY <1>1, <1>2, <1>3, <2>1, PeriodIsNat
  <2>2. CASE v # u
    <3>1. /\ buckets'[v] = buckets[v]
          /\ ~Swept(u, v)
          /\ buckets[v].lastRefill \in Nat
          /\ buckets[v].lastRefill + 3 * Period >= lastSweep
      BY <1>2, <2>2, BucketFields DEF IInv, TypeOK, SweptBefore
    <3>2. CASE Due
      BY <1>1, <1>3, <3>1, <3>2, PeriodIsNat DEF Swept, Idle, IdleEvict
    <3>3. CASE ~Due
      BY <1>3, <3>1, <3>3
    <3> QED BY <3>2, <3>3
  <2> QED BY <2>1, <2>2
<1>8. SpentIsOwed'
  <2> SUFFICES ASSUME NEW v \in Users PROVE spent'[v] <= Debt(v)' + (clock' - since')
    BY DEF SpentIsOwed
  <2>1. /\ Debt(v) \in 0 .. Period
        /\ spent[v] \in Nat
        /\ since \in Nat
        /\ spent[v] <= Debt(v) + (clock - since)
    BY DebtBounds DEF IInv, TypeOK, SpentIsOwed
  <2>2. CASE v = u
    <3>1. spent'[u] = IF Debt(u) + Cost <= Period THEN spent[u] + Cost ELSE spent[u]
      <4>1. Refilled(u).tokens >= Cost <=> Debt(u) + Cost <= Period
        BY <2>1, <2>2, RefilledShowsDebt, PeriodIsNat
      <4> QED BY <4>1 DEF Consume, IInv, TypeOK
    <3> QED BY <1>1, <2>1, <2>2, <3>1, CallersDebt, PeriodIsNat
  <2>3. CASE v # u
    <3>1. spent'[v] = spent[v]
      BY <2>3 DEF Consume, IInv, TypeOK
    <3> QED BY <1>1, <2>1, <2>3, <3>1, OthersDebts
  <2> QED BY <2>2, <2>3
<1> QED BY <1>5, <1>6, <1>7, <1>8 DEF IInv

-----------------------------------------------------------------------------
(* Theorems *)

LEMMA StepKeeps == IInv /\ [Next]_vars => IInv'
<1> SUFFICES ASSUME IInv, [Next]_vars PROVE IInv'
  OBVIOUS
<1>1. CASE Tick
  BY <1>1, TickKeeps
<1>2. CASE Watch
  BY <1>2, WatchKeeps
<1>3. ASSUME NEW u \in Users, Consume(u) PROVE IInv'
  BY <1>3, ConsumeKeeps
<1>4. CASE UNCHANGED vars
  BY <1>4 DEF vars, IInv, TypeOK, RefilledInPast, SweptBefore, SpentIsOwed, Debt, Used
<1> QED BY <1>1, <1>2, <1>3, <1>4 DEF Next

LEMMA Invariance == Spec => []IInv
BY InitHolds, StepKeeps, PTL DEF Spec

\* Amounts stay within a bucket, times within the past.
THEOREM TypeCorrect == Spec => []TypeOK
BY Invariance, PTL DEF IInv

\* A window of w milliseconds admits at most a full bucket and w's refill.
THEOREM WindowBounded == Spec => []WindowBound
<1>1. IInv => WindowBound
  <2> SUFFICES ASSUME IInv, NEW u \in Users PROVE spent[u] <= Period + (clock - since)
    BY DEF WindowBound
  <2> QED BY DebtBounds, PeriodIsNat DEF IInv, TypeOK, SpentIsOwed
<1> QED BY <1>1, Invariance, PTL

LEMMA AgeBound ==
    ASSUME NEW r \in Nat, NEW s \in Nat, NEW c \in Nat, NEW p \in Nat,
           r + 3 * p >= s, c - s < p
    PROVE  c - r < 4 * p
OBVIOUS

\* After a request the map holds only users of the last four periods.
THEOREM MapStaysRecent == Spec => OnlyRecentBuckets
<1> DEFINE Recent == \A u \in Users : Consume(u) =>
                        \A v \in Users : buckets'[v] # NoBucket =>
                                         clock - buckets'[v].lastRefill < 4 * Period
<1>1. IInv /\ [Next]_vars => [Recent]_vars
  <2> SUFFICES ASSUME IInv, NEW u \in Users, Consume(u),
                      NEW v \in Users, buckets'[v] # NoBucket
               PROVE  clock - buckets'[v].lastRefill < 4 * Period
    OBVIOUS
  <2>1. IInv' /\ clock' = clock
    BY ConsumeKeeps DEF Consume
  <2>2. /\ buckets'[v].lastRefill \in Nat
        /\ buckets'[v].lastRefill + 3 * Period >= lastSweep'
    BY <2>1, BucketFields DEF IInv, TypeOK, SweptBefore
  <2>3. clock - lastSweep' < Period /\ lastSweep' \in Nat /\ clock \in Nat
    BY <2>1, PeriodIsNat DEF Consume, Due, IInv, TypeOK
  <2> QED BY <2>2, <2>3, AgeBound, PeriodIsNat
<1> QED BY <1>1, Invariance, PTL DEF Spec, OnlyRecentBuckets

\* Lazy refill with eviction implements the bucket that drains all the time.
THEOREM LimiterRefines == Spec => ImplementsContract
<1> DEFINE D == [u \in Users |-> Debt(u)]
<1>1. Init => Contract!Init
  BY DEF Init, Contract!Init, Debt
<1>2. IInv /\ [Next]_vars => [Contract!Next]_(Contract!vars)
  <2> SUFFICES ASSUME IInv, [Next]_vars PROVE [Contract!Next]_(Contract!vars)
    OBVIOUS
  <2>1. CASE Tick
    <3>1. D' = [u \in Users |-> IF D[u] = 0 THEN 0 ELSE D[u] - 1]
      BY <2>1, TickDrains
    <3> QED BY <2>1, <3>1 DEF Tick, Contract!Next, Contract!Tick
  <2>2. CASE Watch
    <3>1. D' = D
      BY <2>2, WatchKeeps
    <3> QED BY <2>2, <3>1 DEF Watch, Contract!Next, Contract!Watch
  <2>3. ASSUME NEW u \in Users, Consume(u)
        PROVE  Contract!Admit(u) \/ Contract!Refuse(u)
    <3>1. \A v \in Users \ {u} : Debt(v)' = Debt(v)
      BY <2>3, OthersDebts
    <3>2. /\ Debt(u)' = IF Debt(u) + Cost <= Period THEN Debt(u) + Cost ELSE Debt(u)
          /\ answer' = <<u, Debt(u) + Cost <= Period>>
      BY <2>3, CallersDebt
    <3>3. /\ clock' = clock /\ since' = since
          /\ spent' = IF Refilled(u).tokens >= Cost THEN [spent EXCEPT ![u] = @ + Cost]
                                                   ELSE spent
      BY <2>3 DEF Consume
    <3>4. Refilled(u).tokens >= Cost <=> Debt(u) + Cost <= Period
      <4>1. Debt(u) \in 0 .. Period
        BY DebtBounds DEF IInv
      <4> QED BY <4>1, RefilledShowsDebt, PeriodIsNat
    <3>5. CASE Debt(u) + Cost <= Period
      <4>1. D' = [D EXCEPT ![u] = @ + Cost]
        BY <3>1, <3>2, <3>5
      <4> QED BY <3>2, <3>3, <3>4, <3>5, <4>1 DEF Contract!Admit
    <3>6. CASE ~(Debt(u) + Cost <= Period)
      <4>1. D' = D
        BY <3>1, <3>2, <3>6
      <4>2. Debt(u) + Cost > Period
        <5>1. Debt(u) \in 0 .. Period
          BY DebtBounds DEF IInv
        <5> QED BY <3>6, <5>1, PeriodIsNat
      <4>3. spent' = spent
        BY <3>3, <3>4, <3>6
      <4>4. answer' = <<u, FALSE>>
        <5>1. (Debt(u) + Cost <= Period) = FALSE
          BY <3>6
        <5> QED BY <3>2, <5>1, Zenon
      <4> QED BY <3>3, <4>1, <4>2, <4>3, <4>4 DEF Contract!Refuse
    <3> QED BY <3>5, <3>6
  <2>4. CASE UNCHANGED vars
    BY <2>4 DEF vars, Contract!vars, Debt, Used
  <2> QED BY <2>1, <2>2, <2>3, <2>4 DEF Next, Contract!Next
<1> QED BY <1>1, <1>2, Invariance, PTL DEF Spec, ImplementsContract, Contract!Spec
=============================================================================
