------------------------------- MODULE EventLog ------------------------------
(***************************************************************************)
(* What a thread's event stream promises each reader: the log from where   *)
(* the reader stands, in order, each event once, and nothing left out but  *)
(* what retention deleted or what never was a valid envelope.              *)
(***************************************************************************)
EXTENDS Integers

CONSTANTS
    Clients,
    Malformed    \* sequence numbers of stored rows that are not valid envelopes

VARIABLES
    first,       \* lowest sequence number retention has kept
    next,        \* sequence number of the next event
    cursor       \* last sequence number each client has applied

vars == <<first, next, cursor>>

Init ==
    /\ first = 0
    /\ next \in Nat
    /\ cursor = [c \in Clients |-> -1]

Publish ==
    /\ next' = next + 1
    /\ first' \in first..next
    /\ UNCHANGED cursor

\* The next event of client c: all between it and the cursor is gone or no event.
Deliver(c) ==
    \E n \in cursor[c] + 1..next - 1 :
        /\ n \notin Malformed
        /\ \A m \in cursor[c] + 1..n - 1 : m < first \/ m \in Malformed
        /\ cursor' = [cursor EXCEPT ![c] = n]
        /\ UNCHANGED <<first, next>>

\* The page is loaded again: the thread is rebuilt from the start of the log.
Reload(c) ==
    /\ cursor' = [cursor EXCEPT ![c] = -1]
    /\ UNCHANGED <<first, next>>

Next == Publish \/ \E c \in Clients : Deliver(c) \/ Reload(c)

Spec == Init /\ [][Next]_vars
=============================================================================
