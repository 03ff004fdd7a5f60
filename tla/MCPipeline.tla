----------------------------- MODULE MCPipeline -----------------------------
(* Pipeline for TLC.  Nothing distinguishes one instance from another, or,   *)
(* with no earlier imports, one transfer from another, so there safety is    *)
(* checked up to their permutations.                                         *)
EXTENDS Pipeline, TLC

Symmetry == Permutations(Instances) \cup Permutations(Transfers)
=============================================================================
