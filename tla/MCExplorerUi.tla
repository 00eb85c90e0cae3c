---------------------------- MODULE MCExplorerUi ----------------------------
(* ExplorerUi with the blocks of its model checking runs. *)
EXTENDS ExplorerUi

(* A block without transactions, then two of three each. *)
Counts == [n \in 0..(MaxHeight - 1) |-> IF n = 0 THEN 0 ELSE 3]

(* The genesis block configures the channel, the next one a namespace. *)
PolicyBlocks == [ns \in Namespaces |-> IF ns = DefaultNamespace THEN 0 ELSE 1]
=============================================================================
