----------------------------- MODULE MCAgentTurn -----------------------------
(***************************************************************************)
(* TLC instances of AgentTurn.                                             *)
(***************************************************************************)
EXTENDS AgentTurn, TLC

\* The classes of gated actions are interchangeable.
Symmetry == Permutations(Reasons)
=============================================================================
