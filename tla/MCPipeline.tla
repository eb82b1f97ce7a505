----------------------------- MODULE MCPipeline -----------------------------
(* Pipeline on small instances for TLC. *)
EXTENDS Pipeline, TLC

CONSTANTS c1, c2

MCConns == {c1, c2}
Symmetry == Permutations(MCConns)
=============================================================================
