----------------------------- MODULE BlockStore -----------------------------
(***************************************************************************)
(* How parsed blocks reach the tables: pkg/db/db_writer.go and the queries *)
(* under pkg/db/queries, statement by statement, by concurrent writers on  *)
(* database sessions that outlive the process that opened them.            *)
(*                                                                         *)
(* A row is <<key, value>>; its key starts with the name of its table.     *)
(* Transactions run at PostgreSQL's default READ COMMITTED level: what a   *)
(* transaction wrote is in "puts" until it commits, and a statement on a   *)
(* key another open transaction wrote waits for that transaction.          *)
(***************************************************************************)
EXTENDS BlockParser, GapScan, FiniteSets, SequencesExt

CONSTANTS
    Chain,       (* the blocks of the committer, a function on 0 .. n - 1   *)
    Sessions,    (* sessions of the database server                         *)
    MaxFaults    (* bound on the number of faults in a behaviour            *)

BlockNums == DOMAIN Chain

ASSUME ChainAssumption ==
    /\ IsFiniteSet(BlockNums) /\ BlockNums = 0..(Cardinality(BlockNums) - 1)
    /\ Chain \in [BlockNums -> Blocks]
ASSUME SessionsAssumption == IsFiniteSet(Sessions)
ASSUME FaultsAssumption == MaxFaults \in Nat

VARIABLES
    table,    (* the committed rows                                         *)
    phase,    (* the process: "down", "running" or "stopping"               *)
    todo,     (* blocks this process will still be given by the sidecar     *)
    txn,      (* for each session, the transaction it runs                  *)
    faults

vars == <<table, phase, todo, txn, faults>>

-----------------------------------------------------------------------------
(* Rows *)

Key(row) == row[1]
Keys(rows) == {Key(row) : row \in rows}
TableOf(row) == Key(row)[1]

(* buildBatchParams: the parameters of a block's statements, in the order   *)
(* in which InsertBlock and flush execute them.                            *)
TxRowByNumber(b, t) == << <<"transactions", t.txNum>>, <<t.txId, t.code>> >>

TxRow(b, t) ==
    << <<"transactions", b, t.txNum>>, <<t.txId, t.code, t.chaincodeName, t.createdAt>> >>

NamespaceRow(b, rec) == << <<"tx_namespaces", b, rec.txNum, rec.ns.nsId>>, "" >>

(* A row for every item of a list; seq_num is the index in the list of the  *)
(* namespace record.                                                       *)
ListRows(name, b, rec, items) ==
    [i \in DOMAIN items |-> << <<name, b, rec.txNum, rec.ns.nsId, i>>, items[i] >>]

ReadOnlyRows(b, rec)    == ListRows("tx_reads_only", b, rec, rec.ns.readsOnly)
ReadWriteRows(b, rec)   == ListRows("tx_read_writes", b, rec, rec.ns.readWrites)
BlindWriteRows(b, rec)  == ListRows("tx_blind_writes", b, rec, rec.ns.blindWrites)
EndorsementRows(b, rec) == ListRows("tx_endorsements", b, rec, rec.ns.endorsements)

PolicyRow(pol) == << <<"namespace_policies", pol.namespace, pol.version>>, pol.policy >>

ErrorRow(b, ee) == << <<"block_envelope_errors", b, ee.txNum>>, <<ee.txId, ee.code>> >>

(* The namespace records of a block, each with the position of its          *)
(* transaction.                                                            *)
BlockNamespaces(txs) ==
    FlattenSeq([i \in DOMAIN txs |->
        [j \in DOMAIN txs[i].namespaces |->
            [txNum |-> txs[i].txNum, ns |-> txs[i].namespaces[j]]]])

BlockRow(b, parsed) ==
    << <<"blocks", b>>, <<Len(parsed.transactions), parsed.createdAt>> >>

BatchParams(b, parsed) ==
    LET txs  == parsed.transactions
        recs == BlockNamespaces(txs)
    IN  << BlockRow(b, parsed) >>
        \o [i \in DOMAIN txs |-> TxRow(b, txs[i])]
        \o [i \in DOMAIN recs |-> NamespaceRow(b, recs[i])]
        \o FlattenSeq([i \in DOMAIN recs |-> ReadOnlyRows(b, recs[i])])
        \o FlattenSeq([i \in DOMAIN recs |-> ReadWriteRows(b, recs[i])])
        \o FlattenSeq([i \in DOMAIN recs |-> BlindWriteRows(b, recs[i])])
        \o FlattenSeq([i \in DOMAIN recs |-> EndorsementRows(b, recs[i])])
        \o [i \in DOMAIN parsed.policies |-> PolicyRow(parsed.policies[i])]
        \o [i \in DOMAIN parsed.envelopeErrors |-> ErrorRow(b, parsed.envelopeErrors[i])]

(* The statements of every block. *)
Statements == [b \in BlockNums |-> BatchParams(b, Parse(Chain[b]))]

-----------------------------------------------------------------------------
(* What a statement does to the rows its transaction sees. *)

Replace(rows, row) == {r \in rows : Key(r) # Key(row)} \cup {row}

(* ON CONFLICT DO UPDATE, for policies; ON CONFLICT DO NOTHING elsewhere. *)
Put(puts, row) ==
    IF TableOf(row) = "namespace_policies" THEN Replace(puts, row)
    ELSE IF Key(row) \in Keys(table \cup puts) THEN puts
    ELSE puts \cup {row}

(* The committed rows once a transaction with these puts commits. *)
Applied(puts) == {r \in table : Key(r) \notin Keys(puts)} \cup puts

-----------------------------------------------------------------------------
(* Sessions *)

Idle == [state |-> "idle", blk |-> 0, pos |-> 1, puts |-> {}]

Open(s) == txn[s].state = "open"
Lost(s) == txn[s].state = "lost"

AllDone(s)   == txn[s].pos > Len(Statements[txn[s].blk])
Statement(s) == Statements[txn[s].blk][txn[s].pos]

(* s waits for t: t wrote the key of the next statement of s. *)
WaitsFor(s, t) ==
    /\ s # t
    /\ Open(s) /\ ~AllDone(s)
    /\ Key(Statement(s)) \in Keys(txn[t].puts)

(* s is on a cycle of transactions that wait for each other. *)
Deadlocked(s) ==
    \E cycle \in SUBSET Sessions :
        /\ s \in cycle
        /\ \A x \in cycle : \E y, z \in cycle : WaitsFor(x, y) /\ WaitsFor(z, x)

Visible == {b \in BlockNums : <<"blocks", b>> \in Keys(table)}

Fault ==
    /\ faults < MaxFaults
    /\ faults' = faults + 1

Init ==
    /\ table = {}
    /\ phase = "down"
    /\ todo = {}
    /\ txn = [s \in Sessions |-> Idle]
    /\ faults = 0

-----------------------------------------------------------------------------
(* The process *)

(* A start that trusts the highest block it finds. *)
StartAfterMax ==
    /\ phase = "down"
    /\ phase' = "running"
    /\ todo' = {b \in BlockNums : b >= ResumeAfterMax(Visible, 0)}
    /\ UNCHANGED <<table, txn, faults>>

(* A start: every block from the first gap on is delivered once. *)
Start ==
    /\ phase = "down"
    /\ phase' = "running"
    /\ todo' = {b \in BlockNums : b >= ResumeBlockNum(Visible, 0)}
    /\ UNCHANGED <<table, txn, faults>>

(* The scan for the first gap fails: every block from the start block on,   *)
(* here 0, is delivered once more, those that are stored with the others.   *)
ScanFails ==
    /\ phase = "down"
    /\ Fault
    /\ phase' = "running"
    /\ todo' = BlockNums
    /\ UNCHANGED <<table, txn>>

(* The process is killed.  Its transactions are left to the server. *)
Crash ==
    /\ phase # "down"
    /\ Fault
    /\ phase' = "down"
    /\ todo' = {}
    /\ txn' = [s \in Sessions |-> IF Open(s) THEN [txn[s] EXCEPT !.state = "lost"] ELSE txn[s]]
    /\ UNCHANGED table

(* The last writer of a process that is stopping has returned. *)
Stopped ==
    /\ phase = "stopping"
    /\ \A s \in Sessions : ~Open(s)
    /\ phase' = "down"
    /\ todo' = {}
    /\ UNCHANGED <<table, txn, faults>>

-----------------------------------------------------------------------------
(* WriteProcessedBlock on session s *)

(* Processors hand blocks to writers in any order. *)
Begin(s) ==
    /\ phase = "running"
    /\ txn[s] = Idle
    /\ \E b \in todo :
          /\ todo' = todo \ {b}
          /\ txn' = [txn EXCEPT ![s] = [Idle EXCEPT !.state = "open", !.blk = b]]
    /\ UNCHANGED <<table, phase, faults>>

(* Statements that run outside the block's transaction. *)
ExecuteAutocommitted(s) ==
    /\ Open(s) /\ ~AllDone(s)
    /\ \A t \in Sessions : ~WaitsFor(s, t)
    /\ table' = Applied(Put({}, Statement(s)))
    /\ txn' = [txn EXCEPT ![s].pos = @ + 1]
    /\ UNCHANGED <<phase, todo, faults>>

Execute(s) ==
    /\ Open(s) /\ ~AllDone(s)
    /\ \A t \in Sessions : ~WaitsFor(s, t)
    /\ txn' = [txn EXCEPT ![s].puts = Put(@, Statement(s)), ![s].pos = @ + 1]
    /\ UNCHANGED <<table, phase, todo, faults>>

(* A COMMIT after which the session keeps its transaction. *)
CommitKeepsTransaction(s) ==
    /\ Open(s) /\ AllDone(s)
    /\ table' = Applied(txn[s].puts)
    /\ txn' = [txn EXCEPT ![s].state = "idle"]
    /\ UNCHANGED <<phase, todo, faults>>

(* A COMMIT on a connection that writers share. *)
CommitShared(s) ==
    /\ Open(s) /\ AllDone(s)
    /\ table' = Applied(UNION {txn[t].puts : t \in Sessions})
    /\ txn' = [txn EXCEPT ![s] = Idle]
    /\ UNCHANGED <<phase, todo, faults>>

(* COMMIT, and its answer reaches the writer. *)
Commit(s) ==
    /\ Open(s) /\ AllDone(s)
    /\ table' = Applied(txn[s].puts)
    /\ txn' = [txn EXCEPT ![s] = Idle]
    /\ UNCHANGED <<phase, todo, faults>>

(* A writer that returns the error without a rollback. *)
RollBackForgotten(s) ==
    /\ phase' = "stopping"
    /\ UNCHANGED <<table, todo, txn>>

(* The writer returns the error: rollback, and the pipeline is cancelled. *)
RollBack(s) ==
    /\ txn' = [txn EXCEPT ![s] = Idle]
    /\ phase' = "stopping"
    /\ UNCHANGED <<table, todo>>

StatementFails(s) ==
    /\ Open(s)
    /\ Fault
    /\ RollBack(s)

(* The connection breaks: the writer returns the error, and does not know  *)
(* whether a COMMIT it had sent was executed.                              *)
ConnectionBreaks(s) ==
    /\ Open(s)
    /\ Fault
    /\ txn' = [txn EXCEPT ![s].state = "lost"]
    /\ phase' = "stopping"
    /\ UNCHANGED <<table, todo>>

(* The server ends one transaction of a deadlock with an error. *)
DeadlockDetected(s) ==
    /\ Deadlocked(s)
    /\ RollBack(s)
    /\ UNCHANGED faults

(* The context of the pipeline is done: pgx closes the connection of a     *)
(* statement or COMMIT that has not been answered.                         *)
Interrupted(s) ==
    /\ phase = "stopping"
    /\ Open(s)
    /\ txn' = [txn EXCEPT ![s].state = "lost"]
    /\ UNCHANGED <<table, phase, todo, faults>>

-----------------------------------------------------------------------------
(* The server ends a transaction whose client is gone. *)

LostAborts(s) ==
    /\ Lost(s)
    /\ txn' = [txn EXCEPT ![s] = Idle]
    /\ UNCHANGED <<table, phase, todo, faults>>

LostCommits(s) ==
    /\ Lost(s) /\ AllDone(s)
    /\ table' = Applied(txn[s].puts)
    /\ txn' = [txn EXCEPT ![s] = Idle]
    /\ UNCHANGED <<phase, todo, faults>>

Process == Start \/ ScanFails \/ Crash \/ Stopped

Session(s) ==
    \/ Begin(s) \/ Execute(s) \/ Commit(s)
    \/ StatementFails(s) \/ ConnectionBreaks(s) \/ DeadlockDetected(s)
    \/ Interrupted(s) \/ LostAborts(s) \/ LostCommits(s)

Next == Process \/ \E s \in Sessions : Session(s)

Spec == Init /\ [][Next]_vars

(* A process that ended is restarted, a writer with a block proceeds, and  *)
(* the server ends every transaction.  Faults are never owed.              *)
Fairness ==
    /\ WF_vars(Start) /\ WF_vars(Stopped)
    /\ \A s \in Sessions :
          /\ WF_vars(Begin(s))
          /\ WF_vars(Execute(s) \/ Commit(s) \/ DeadlockDetected(s))
          /\ WF_vars(LostAborts(s) \/ LostCommits(s))

FairSpec == Spec /\ Fairness

-----------------------------------------------------------------------------
(* The rows any block can write.                                           *)
AllRows == UNION {Range(Statements[b]) : b \in BlockNums}

(* The types of the variables: rows come from the blocks, and a session     *)
(* between two transactions holds nothing of the first.                    *)
TypeOK ==
    /\ table \subseteq AllRows
    /\ phase \in {"down", "running", "stopping"}
    /\ todo \subseteq BlockNums
    /\ txn \in [Sessions -> [state : {"idle", "open", "lost"}, blk : BlockNums \cup {0},
                             pos : Nat \ {0}, puts : SUBSET AllRows]]
    /\ \A s \in Sessions : txn[s].state = "idle" => txn[s] = Idle
    /\ faults \in 0..MaxFaults

(* The rows of block b other than policies; of two with one key the first. *)
OwnRows(b) ==
    LET rows == Statements[b]
    IN  {rows[i] : i \in {k \in DOMAIN rows :
            /\ TableOf(rows[k]) # "namespace_policies"
            /\ \A j \in 1..(k - 1) : Key(rows[j]) # Key(rows[k])}}

PolicyKeys(b) ==
    {Key(row) : row \in {r \in Range(Statements[b]) : TableOf(r) = "namespace_policies"}}

(***************************************************************************)
(* db_writer.go:52: a block is stored whole or not at all, in every        *)
(* committed state, however many sessions wrote it at once and whichever   *)
(* of them failed.                                                         *)
(***************************************************************************)
WholeBlocks ==
    /\ \A b \in Visible :
          OwnRows(b) \subseteq table /\ PolicyKeys(b) \subseteq Keys(table)
    /\ \A row \in table : \E b \in Visible : row \in Range(Statements[b])
    /\ \A r1, r2 \in table : Key(r1) = Key(r2) => r1 = r2

IsCommittedConfig(b, n) ==
    LET env == Chain[b].data[n + 1]
    IN  env.readable /\ env.type \in ConfigTypes /\ Chain[b].filter[n + 1] = "COMMITTED"
        /\ (env.asPolicies.ok \/ env.asConfig.ok)

StoredIn(name, b) == {n \in Positions(Chain[b]) : <<name, b, n>> \in Keys(table)}

(***************************************************************************)
(* 001_initial_schema.sql:123: every position of a stored block that the   *)
(* committer gave a status and that is not a committed config envelope has *)
(* a row, in exactly one of the two tables.  Positions beyond the filter   *)
(* of a block have none, which the comment of the schema does not say.     *)
(***************************************************************************)
EveryPositionHasARow ==
    \A b \in Visible :
        LET stored == StoredIn("transactions", b)
            failed == StoredIn("block_envelope_errors", b)
        IN  /\ stored \cap failed = {}
            /\ \A n \in Positions(Chain[b]) :
                  HasStatus(Chain[b], n) /\ ~IsCommittedConfig(b, n) => n \in stored \cup failed

(***************************************************************************)
(* What a reader adds up from several tables agrees: tx_count counts the   *)
(* rows in transactions, a block has the time of its first stored          *)
(* transaction (parser.go:96), and a transaction that is named after a     *)
(* namespace has a row for it.                                             *)
(***************************************************************************)
TablesAgree ==
    \A b \in Visible :
        LET txs    == {row \in table : TableOf(row) = "transactions" /\ Key(row)[2] = b}
            First  == CHOOSE row \in txs : \A other \in txs : Key(row)[3] <= Key(other)[3]
            time   == IF txs = {} THEN NoTime ELSE First[2][4]
        IN  /\ << <<"blocks", b>>, <<Cardinality(txs), time>> >> \in table
            /\ \A row \in txs :
                  row[2][3] # NoName =>
                      <<"tx_namespaces", b, Key(row)[3], row[2][3]>> \in Keys(table)

(***************************************************************************)
(* db_writer.go:52: writers of different blocks get in each other's way    *)
(* over policies only, and two writers of one block at their first         *)
(* statement only, before either could be waited for by the other.  So a   *)
(* deadlock is always one over policies.                                   *)
(***************************************************************************)
OnlyPoliciesContend ==
    \A s, t \in Sessions :
        WaitsFor(s, t) =>
            \/ TableOf(Statement(s)) = "namespace_policies"
            \/ txn[s].blk = txn[t].blk /\ txn[s].pos = 1

(***************************************************************************)
(* What a reader of the table blocks sees of the writers is what           *)
(* IngestLedger promises: one more block at a time, and none ever lost.    *)
(***************************************************************************)
Ledger == INSTANCE IngestLedger WITH
              StartBlk  <- 0,
              MaxHeight <- Cardinality(BlockNums),
              height    <- Cardinality(BlockNums),
              stored    <- Visible

ImplementsLedger == Ledger!Spec

(* A writer that has begun a transaction is never left waiting: not by     *)
(* another writer, nor by a transaction of a process that is gone.  (That   *)
(* it ends whenever it was open, Open(s) ~> ~Open(s), is the same.)        *)
EveryWriteEnds == \A s \in Sessions : []<>~Open(s)

(* Whatever was written first, and whoever failed, in the end every block   *)
(* is stored, unless each new process meets a deadlock again.              *)
EveryBlockStored ==
    <>[](\A s \in Sessions : ~Deadlocked(s)) => <>[](Visible = BlockNums)

(* service.go:131: "All INSERT queries use ON CONFLICT DO NOTHING, so      *)
(* re-processing already-stored blocks after a gap-heal restart is a safe  *)
(* no-op."                                                                 *)
ReprocessingIsNoOp ==
    [][ \A s \in Sessions :
            Open(s) /\ AllDone(s) /\ txn[s].blk \in Visible /\ txn'[s] = Idle
                => table' = table ]_vars
=============================================================================
