--------------------------- MODULE MCSessionHosts ---------------------------
(* SessionHosts on small instances. *)
EXTENDS SessionHosts, TLC

\* Sound for the safety runs only: no property of theirs names an element.
Symmetry == Permutations(Threads) \cup Permutations(Hosts) \cup Permutations(Calls)
=============================================================================
