---------------------------- MODULE MCBlockStore ----------------------------
(* BlockStore with the chains of its model checking runs. *)
EXTENDS BlockStore, SampleChains
=============================================================================
