---------------------------- MODULE IngestLedger ----------------------------
(***************************************************************************)
(* What block ingestion promises to everything that reads the database:    *)
(* the committer's chain grows one block at a time, the table blocks holds *)
(* a set of blocks of that chain, never below the configured start block,  *)
(* and the set only ever grows, one whole block at a time.  Nothing is     *)
(* promised about the order in which blocks appear.                        *)
(***************************************************************************)
EXTENDS Integers

CONSTANTS
    StartBlk,    (* sidecar.start_block                                     *)
    MaxHeight    (* bound on the length of the chain                        *)

VARIABLES
    height,      (* the committer has produced blocks 0 .. height - 1       *)
    stored       (* the block numbers in table blocks                       *)

ledgerVars == <<height, stored>>

(* The blocks an explorer started at StartBlk owes its readers. *)
Owed == {n \in 0..(MaxHeight - 1) : StartBlk <= n /\ n < height}

(* A chain may have blocks before the explorer first starts. *)
Init ==
    /\ height \in 0..MaxHeight
    /\ stored = {}

Produce ==
    /\ height < MaxHeight
    /\ height' = height + 1
    /\ UNCHANGED stored

Store(n) ==
    /\ n \in Owed \ stored
    /\ stored' = stored \cup {n}
    /\ UNCHANGED height

Next ==
    \/ Produce
    \/ \E n \in 0..(MaxHeight - 1) : Store(n)

Spec == Init /\ [][Next]_ledgerVars

FairSpec ==
    /\ Spec
    /\ \A n \in 0..(MaxHeight - 1) : WF_ledgerVars(Store(n))
=============================================================================
