----------------------------- MODULE Migrations -----------------------------
(***************************************************************************)
(* pkg/db/schema.go: ApplyMigrations, run by every process that starts on  *)
(* the same database.  The embedded files are the migrations 1 .. Last, in *)
(* the order of their names.                                               *)
(*                                                                         *)
(* A migration runs in one transaction with the record of its version.     *)
(* Its DDL waits for another open transaction that runs the same           *)
(* migration, as creating the same table does in PostgreSQL.               *)
(***************************************************************************)
EXTENDS Integers, Sequences, FiniteSets

CONSTANTS
    Last,         (* number of migration files                              *)
    Procs,        (* processes that start on the database                   *)
    MaxFaults     (* bound on the number of faults in a behaviour           *)

ASSUME MigrationsAssumption == Last \in Nat /\ MaxFaults \in Nat

VARIABLES
    schema,       (* the migrations whose effects are committed, in order   *)
    recorded,     (* versions in table schema_migrations                    *)
    pc,           (* for each process, its next step                        *)
    applied,      (* the versions each process has loaded                   *)
    at,           (* the migration each process has come to                 *)
    faults

vars == <<schema, recorded, pc, applied, at, faults>>

Names == 1..Last

(* Steps at which a process has a transaction open; "lost" is one whose     *)
(* client is gone, "sent" one whose COMMIT had been sent before that.       *)
Ran(p)  == pc[p] \in {"record", "commit", "lost", "sent"}

GoTo(p, step) == pc' = [pc EXCEPT ![p] = step]

Init ==
    /\ schema = <<>>
    /\ recorded = {}
    /\ pc = [p \in Procs |-> "off"]
    /\ applied = [p \in Procs |-> {}]
    /\ at = [p \in Procs |-> 1]
    /\ faults = 0

-----------------------------------------------------------------------------

(* CREATE TABLE IF NOT EXISTS schema_migrations *)
CreateTable(p) ==
    /\ pc[p] = "off"
    /\ GoTo(p, "load")
    /\ UNCHANGED <<schema, recorded, applied, at, faults>>

(* A start that applies every file again. *)
LoadNothing(p) ==
    /\ pc[p] = "load"
    /\ applied' = [applied EXCEPT ![p] = {}]
    /\ at' = [at EXCEPT ![p] = 1]
    /\ GoTo(p, "loop")
    /\ UNCHANGED <<schema, recorded, faults>>

LoadAppliedVersions(p) ==
    /\ pc[p] = "load"
    /\ applied' = [applied EXCEPT ![p] = recorded]
    /\ at' = [at EXCEPT ![p] = 1]
    /\ GoTo(p, "loop")
    /\ UNCHANGED <<schema, recorded, faults>>

(* A loop that jumps over the file after an applied one. *)
SkipTwo(p) ==
    /\ pc[p] = "loop" /\ at[p] \in Names \cap applied[p]
    /\ at' = [at EXCEPT ![p] = @ + 2]
    /\ UNCHANGED <<schema, recorded, pc, applied, faults>>

Skip(p) ==
    /\ pc[p] = "loop" /\ at[p] \in Names \cap applied[p]
    /\ at' = [at EXCEPT ![p] = @ + 1]
    /\ UNCHANGED <<schema, recorded, pc, applied, faults>>

(* BEGIN and the SQL of the file, which succeeds when it can be run twice   *)
(* or has not been run.                                                    *)
RunSql(p) ==
    /\ pc[p] = "loop" /\ at[p] \in Names \ applied[p]
    /\ \A q \in Procs \ {p} : ~(Ran(q) /\ at[q] = at[p])
    /\ GoTo(p, "record")
    /\ UNCHANGED <<schema, recorded, applied, at, faults>>

(* The SQL finds what another process has created. *)
SqlConflicts(p) ==
    /\ pc[p] = "loop" /\ at[p] \in recorded \ applied[p]
    /\ GoTo(p, "off")
    /\ UNCHANGED <<schema, recorded, applied, at, faults>>

(* An INSERT that does nothing when the version is there. *)
RecordIfAbsent(p) ==
    /\ pc[p] = "record"
    /\ GoTo(p, "commit")
    /\ UNCHANGED <<schema, recorded, applied, at, faults>>

Record(p) ==
    /\ pc[p] = "record" /\ at[p] \notin recorded
    /\ GoTo(p, "commit")
    /\ UNCHANGED <<schema, recorded, applied, at, faults>>

(* An error of the record that ends the loop without being returned. *)
RecordConflictIgnored(p) ==
    /\ pc[p] = "record" /\ at[p] \in recorded
    /\ at' = [at EXCEPT ![p] = Last + 1]
    /\ GoTo(p, "loop")
    /\ UNCHANGED <<schema, recorded, applied, faults>>

(* The primary key: rollback, and the process ends with the error. *)
RecordConflicts(p) ==
    /\ pc[p] = "record" /\ at[p] \in recorded
    /\ GoTo(p, "off")
    /\ UNCHANGED <<schema, recorded, applied, at, faults>>

(* What a COMMIT makes of the transaction of p. *)
Committed(p) ==
    /\ schema' = Append(schema, at[p])
    /\ recorded' = recorded \cup {at[p]}

Commit(p) ==
    /\ pc[p] = "commit"
    /\ Committed(p)
    /\ at' = [at EXCEPT ![p] = @ + 1]
    /\ GoTo(p, "loop")
    /\ UNCHANGED <<applied, faults>>

Finish(p) ==
    /\ pc[p] = "loop" /\ at[p] = Last + 1
    /\ GoTo(p, "ready")
    /\ UNCHANGED <<schema, recorded, applied, at, faults>>

-----------------------------------------------------------------------------
(* Faults *)

Fault == faults < MaxFaults /\ faults' = faults + 1

(* A statement fails and the migration with it: rollback, error, exit. *)
StatementFails(p) ==
    /\ pc[p] \in {"off", "load", "loop", "record", "commit"}
    /\ Fault
    /\ GoTo(p, "off")
    /\ UNCHANGED <<schema, recorded, applied, at>>

(* The process, or its connection, is gone at any point. *)
Crash(p) ==
    /\ pc[p] \notin {"off", "lost", "sent"}
    /\ Fault
    /\ GoTo(p, CASE pc[p] = "record" -> "lost"
                 [] pc[p] = "commit" -> "sent"
                 [] OTHER            -> "off")
    /\ UNCHANGED <<schema, recorded, applied, at>>

LostAborts(p) ==
    /\ pc[p] \in {"lost", "sent"}
    /\ GoTo(p, "off")
    /\ UNCHANGED <<schema, recorded, applied, at, faults>>

LostCommits(p) ==
    /\ pc[p] = "sent"
    /\ Committed(p)
    /\ GoTo(p, "off")
    /\ UNCHANGED <<applied, at, faults>>

-----------------------------------------------------------------------------

Step(p) ==
    \/ CreateTable(p) \/ LoadAppliedVersions(p) \/ Skip(p)
    \/ RunSql(p) \/ SqlConflicts(p) \/ Record(p) \/ RecordConflicts(p)
    \/ Commit(p) \/ Finish(p)

ServerEnds(p) == LostAborts(p) \/ LostCommits(p)

Next == \E p \in Procs : Step(p) \/ ServerEnds(p) \/ StatementFails(p) \/ Crash(p)

Spec == Init /\ [][Next]_vars

(* A process that ended is started again, and goes on; the server ends      *)
(* every transaction.                                                      *)
FairSpec == Spec /\ \A p \in Procs : WF_vars(Step(p)) /\ WF_vars(ServerEnds(p))

-----------------------------------------------------------------------------
(* The types of the variables. *)
TypeOK ==
    /\ schema \in Seq(Names)
    /\ recorded \subseteq Names
    /\ pc \in [Procs -> {"off", "load", "loop", "record", "commit", "ready", "lost", "sent"}]
    /\ applied \in [Procs -> SUBSET Names]
    /\ at \in [Procs -> 1..(Last + 1)]
    /\ faults \in 0..MaxFaults

(***************************************************************************)
(* schema.go:29-32: the migrations take effect in the order of their names *)
(* and each of them once, and schema_migrations records exactly those that *)
(* did, whichever processes started together and wherever one died.        *)
(***************************************************************************)
MigratedOnceInOrder ==
    /\ schema = [i \in 1..Len(schema) |-> i]
    /\ recorded = 1..Len(schema)

(* service.go:66: a process that goes on to ingest finds every migration.   *)
ReadyMeansMigrated == \A p \in Procs : pc[p] = "ready" => recorded = Names

(* A process that lost the race to another one is ready after a restart.    *)
EveryProcessReady == \A p \in Procs : <>[](pc[p] = "ready")
=============================================================================
