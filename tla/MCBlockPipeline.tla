-------------------------- MODULE MCBlockPipeline --------------------------
(* BlockPipeline with the sets of its model checking runs. *)
EXTENDS BlockPipeline, TLC

Lanes == Permutations(Processors) \cup Permutations(Writers)
=============================================================================
