----------------------------- MODULE MCPruning -----------------------------
(***************************************************************************)
(* TLC instances of Pruning.  Handlers are interchangeable.                *)
(***************************************************************************)
EXTENDS Pruning, TLC

HandlerSymmetry == Permutations(Handlers)
=============================================================================
