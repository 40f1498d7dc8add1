---------------------------- MODULE MCPromptQueue ----------------------------
(***************************************************************************)
(* TLC instances of PromptQueue: one user with two threads, one with one.  *)
(***************************************************************************)
EXTENDS PromptQueue, TLC

CONSTANTS busy, guest, b1, b2, g1

Owner == (b1 :> busy) @@ (b2 :> busy) @@ (g1 :> guest)
=============================================================================
