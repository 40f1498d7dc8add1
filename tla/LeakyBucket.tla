----------------------------- MODULE LeakyBucket -----------------------------
(***************************************************************************)
(* What a rate limit promises each user: a bucket that requests fill and   *)
(* time drains.  A request is admitted exactly when it still fits.         *)
(*                                                                         *)
(* Amounts are measured in the time they take to drain, so that a request  *)
(* costs Cost and the bucket holds Period, the time it drains in.          *)
(***************************************************************************)
EXTENDS Integers

CONSTANTS
    Users,
    Period,     \* capacity of a bucket
    Cost,       \* of one request
    MaxClock,   \* bound on the clock, of the model only
    NoAnswer

VARIABLES
    clock,
    debt,       \* what each bucket holds
    answer,     \* the last request's user, and whether it was admitted
    since,      \* when an observer started to watch
    spent       \* the cost of what was admitted since then

vars == <<clock, debt, answer, since, spent>>

Init ==
    /\ clock  = 0
    /\ debt   = [u \in Users |-> 0]
    /\ answer = NoAnswer
    /\ since  = 0
    /\ spent  = [u \in Users |-> 0]

Tick ==
    /\ clock < MaxClock
    /\ clock'  = clock + 1
    /\ debt'   = [u \in Users |-> IF debt[u] = 0 THEN 0 ELSE debt[u] - 1]
    /\ answer' = NoAnswer
    /\ UNCHANGED <<since, spent>>

Admit(u) ==
    /\ debt[u] + Cost <= Period
    /\ debt'   = [debt EXCEPT ![u] = @ + Cost]
    /\ spent'  = [spent EXCEPT ![u] = @ + Cost]
    /\ answer' = <<u, TRUE>>
    /\ UNCHANGED <<clock, since>>

Refuse(u) ==
    /\ debt[u] + Cost > Period
    /\ answer' = <<u, FALSE>>
    /\ UNCHANGED <<clock, debt, since, spent>>

\* A window of observation starts at any time.
Watch ==
    /\ since' = clock
    /\ spent' = [u \in Users |-> 0]
    /\ UNCHANGED <<clock, debt, answer>>

Next == Tick \/ Watch \/ \E u \in Users : Admit(u) \/ Refuse(u)

Spec == Init /\ [][Next]_vars
=============================================================================
