------------------------- MODULE MCThreadLifecycle --------------------------
(***************************************************************************)
(* TLC instances of ThreadLifecycle.                                       *)
(***************************************************************************)
EXTENDS ThreadLifecycle, TLC

\* Threads, hosts and calls are interchangeable (safety runs only).
Symmetry == Permutations(Threads) \cup Permutations(Hosts) \cup Permutations(Calls)
=============================================================================
