---------------------------- MODULE MCSelfUpdate -----------------------------
(***************************************************************************)
(* TLC instances of SelfUpdate.                                            *)
(***************************************************************************)
EXTENDS SelfUpdate, TLC

CONSTANTS Working1, Working2   \* two versions of a service that come up

\* Nothing tells the services, the working versions or the lock files apart.
Symmetry ==
    Permutations(Services) \cup Permutations({Working1, Working2}) \cup Permutations(Lockfiles)
=============================================================================
