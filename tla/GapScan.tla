------------------------------ MODULE GapScan ------------------------------
(***************************************************************************)
(* The query with which a starting explorer decides at which block to      *)
(* resume (pkg/api/service.go, resumeBlockNum), as operators over the set  *)
(* S of block numbers that have a row in table blocks.  "from" is the      *)
(* configured sidecar.start_block, the $1 of the query.                    *)
(***************************************************************************)
EXTENDS Integers

(* MIN(..) of a non-empty set of block numbers. *)
Least(T) == CHOOSE m \in T : \A x \in T : m <= x

(* FROM blocks WHERE block_num >= $1 *)
Window(S, from) == {b \in S : b >= from}

Later(W, b) == {x \in W : x > b}

(***************************************************************************)
(* LEAD(block_num) OVER (ORDER BY block_num) of row b of the window is     *)
(* Least(Later(W, b)), NULL when b is the last row.  The outer WHERE keeps *)
(* b when nxt IS NULL OR nxt > block_num + 1.                              *)
(***************************************************************************)
IsGapEnd(W, b) == Later(W, b) = {} \/ Least(Later(W, b)) > b + 1

(* The two branches of the UNION ALL. *)
Candidates(S, from) ==
    {c \in {from} : c \notin S}
    \cup {b + 1 : b \in {x \in Window(S, from) : IsGapEnd(Window(S, from), x)}}

(* A resume that trusts the highest stored block and overlooks gaps. *)
ResumeAfterMax(S, from) ==
    IF Window(S, from) = {}
    THEN from
    ELSE (CHOOSE b \in Window(S, from) : Later(Window(S, from), b) = {}) + 1

(* A gap scan that only looks between rows and forgets the first block. *)
ResumeInnerGaps(S, from) ==
    LET C == {b + 1 : b \in {x \in Window(S, from) : IsGapEnd(Window(S, from), x)}}
    IN  IF C = {} THEN from ELSE Least(C)

(* SELECT COALESCE(MIN(candidate), $1) *)
ResumeBlockNum(S, from) ==
    IF Candidates(S, from) = {} THEN from ELSE Least(Candidates(S, from))

(***************************************************************************)
(* The number resumeBlockNum is documented to return: the first block      *)
(* number from "from" on that is absent from S.  S must be bounded.        *)
(***************************************************************************)
IsFirstAbsent(S, from, r) ==
    /\ r >= from
    /\ r \notin S
    /\ \A n \in from..(r - 1) : n \in S
=============================================================================
