-------------------------- MODULE MigrationsProofs --------------------------
(***************************************************************************)
(* Theorems about Migrations for every number of migration files and       *)
(* processes and any number of faults.                                     *)
(***************************************************************************)
EXTENDS Migrations, TLAPS

(* No process has come further than the first migration that is not         *)
(* committed, and what it loaded is committed.                             *)
NotAhead ==
    \A p \in Procs :
        /\ applied[p] \subseteq recorded
        /\ pc[p] \in {"loop", "record", "commit", "lost", "sent"} => at[p] <= Len(schema) + 1
        /\ Ran(p) => at[p] \in Names
        /\ pc[p] \in {"commit", "sent"} => at[p] \notin recorded

(* No two open transactions run the same migration. *)
OneRunner == \A p, q \in Procs : p # q /\ Ran(p) /\ Ran(q) => at[p] # at[q]

IInv ==
    /\ TypeOK
    /\ MigratedOnceInOrder
    /\ NotAhead
    /\ OneRunner
    /\ ReadyMeansMigrated

LEMMA InitHolds == Init => IInv
BY MigrationsAssumption
   DEF Init, IInv, TypeOK, MigratedOnceInOrder, NotAhead, OneRunner, ReadyMeansMigrated, Ran, Names

(* One more migration, the first that is not committed. *)
LEMMA CommitsNext ==
    ASSUME IInv, NEW p \in Procs, pc[p] \in {"commit", "sent"}, Committed(p)
    PROVE  /\ at[p] = Len(schema) + 1
           /\ schema' \in Seq(Names) /\ Len(schema') = Len(schema) + 1
           /\ MigratedOnceInOrder'
           /\ recorded \subseteq recorded' /\ recorded' \subseteq Names
<1>1. at[p] \in Names /\ at[p] <= Len(schema) + 1 /\ at[p] \notin 1..Len(schema)
  BY DEF IInv, NotAhead, Ran, MigratedOnceInOrder
<1>2. Len(schema) \in Nat /\ schema \in Seq(Names)
  BY DEF IInv, TypeOK
<1>3. at[p] = Len(schema) + 1
  BY <1>1, <1>2, MigrationsAssumption DEF Names
<1>4. schema' \in Seq(Names) /\ Len(schema') = Len(schema) + 1
  BY <1>1, <1>2 DEF Committed
<1>5. schema' = [i \in 1..Len(schema') |-> i]
  <2>1. \A i \in 1..Len(schema) : schema'[i] = i
    <3>1. \A i \in 1..Len(schema) : schema[i] = i
      BY DEF IInv, MigratedOnceInOrder
    <3>2. \A i \in 1..Len(schema) : schema'[i] = schema[i]
      BY <1>1, <1>2 DEF Committed
    <3> QED BY <3>1, <3>2
  <2>2. schema'[Len(schema) + 1] = Len(schema) + 1
    BY <1>1, <1>2, <1>3 DEF Committed
  <2>3. \A i \in 1..Len(schema') : i \in 1..Len(schema) \/ i = Len(schema) + 1
    BY <1>2, <1>4
  <2>4. schema' = [i \in 1..Len(schema') |-> schema'[i]]
    BY <1>4
  <2> QED BY <2>1, <2>2, <2>3, <2>4
<1>6. recorded' = 1..Len(schema')
  BY <1>2, <1>3, <1>4 DEF Committed, IInv, MigratedOnceInOrder
<1>7. recorded \subseteq recorded' /\ recorded' \subseteq Names
  BY <1>1 DEF Committed, IInv, TypeOK
<1> QED BY <1>3, <1>4, <1>5, <1>6, <1>7 DEF MigratedOnceInOrder

(* Nothing is committed, and p alone moves. *)
QuietStep(p, step, n) ==
    /\ UNCHANGED <<schema, recorded>>
    /\ pc' = [pc EXCEPT ![p] = step]
    /\ at' = [at EXCEPT ![p] = n]

(* What a quiet step must establish of the process that takes it.           *)
LEMMA QuietStepKeeps ==
    ASSUME IInv, NEW p \in Procs, NEW step, NEW n \in 1..(Last + 1),
           QuietStep(p, step, n),
           step \in {"off", "load", "loop", "record", "commit", "ready", "lost", "sent"},
           faults' \in 0..MaxFaults,
           applied' \in [Procs -> SUBSET Names],
           \A q \in Procs : applied'[q] \subseteq recorded,
           step \in {"loop", "record", "commit", "lost", "sent"} => n <= Len(schema) + 1,
           step \in {"record", "commit", "lost", "sent"} =>
               n \in Names /\ \A q \in Procs \ {p} : ~(Ran(q) /\ at[q] = n),
           step \in {"commit", "sent"} => n \notin recorded,
           step = "ready" => recorded = Names
    PROVE  IInv'
<1>1. TypeOK'
  BY DEF QuietStep, IInv, TypeOK
<1>2. MigratedOnceInOrder'
  BY DEF QuietStep, IInv, MigratedOnceInOrder
<1>3. pc'[p] = step /\ at'[p] = n
  BY DEF QuietStep, IInv, TypeOK
<1>4. \A q \in Procs \ {p} : pc'[q] = pc[q] /\ at'[q] = at[q]
  BY DEF QuietStep, IInv, TypeOK
<1>5. schema' = schema /\ recorded' = recorded
  BY DEF QuietStep
<1>6. NotAhead'
  BY <1>3, <1>4, <1>5 DEF IInv, NotAhead, Ran
<1>7. OneRunner'
  BY <1>3, <1>4 DEF IInv, OneRunner, Ran
<1>8. ReadyMeansMigrated'
  BY <1>3, <1>4, <1>5 DEF IInv, ReadyMeansMigrated
<1> QED BY <1>1, <1>2, <1>6, <1>7, <1>8 DEF IInv

(* A step that commits the transaction of p. *)
LEMMA CommittingStepKeeps ==
    ASSUME IInv, NEW p \in Procs, Commit(p) \/ LostCommits(p)
    PROVE  IInv'
<1>1. pc[p] \in {"commit", "sent"} /\ Committed(p)
  BY DEF Commit, LostCommits
<1>2. /\ at[p] = Len(schema) + 1
      /\ schema' \in Seq(Names) /\ Len(schema') = Len(schema) + 1
      /\ MigratedOnceInOrder'
      /\ recorded \subseteq recorded' /\ recorded' \subseteq Names
  BY <1>1, CommitsNext
<1>3. Len(schema) \in Nat /\ at[p] \in Names
  BY <1>1 DEF IInv, TypeOK, NotAhead, Ran
<1>4. /\ pc'[p] \in {"loop", "off"}
      /\ at'[p] \in {at[p], at[p] + 1}
      /\ at' \in [Procs -> 1..(Last + 1)]
  <2>1. at[p] \in 1..(Last + 1) /\ (at[p] + 1) \in 1..(Last + 1)
    BY <1>3, MigrationsAssumption DEF Names
  <2>2. pc \in [Procs -> {"off", "load", "loop", "record", "commit", "ready", "lost", "sent"}]
        /\ at \in [Procs -> 1..(Last + 1)]
    BY DEF IInv, TypeOK
  <2>3. CASE Commit(p)
    BY <2>1, <2>2, <2>3 DEF Commit, GoTo
  <2>4. CASE LostCommits(p)
    BY <2>1, <2>2, <2>4 DEF LostCommits, GoTo
  <2> QED BY <2>3, <2>4
<1>5. \A q \in Procs \ {p} : pc'[q] = pc[q] /\ at'[q] = at[q]
  BY DEF Commit, LostCommits, GoTo, IInv, TypeOK
<1>6. applied' = applied /\ faults' = faults
  BY DEF Commit, LostCommits
<1>7. TypeOK'
  BY <1>2, <1>4, <1>6 DEF Commit, LostCommits, GoTo, IInv, TypeOK
<1>8. NotAhead'
  <2>1. SUFFICES ASSUME NEW q \in Procs
                 PROVE  /\ applied'[q] \subseteq recorded'
                        /\ pc'[q] \in {"loop", "record", "commit", "lost", "sent"} =>
                               at'[q] <= Len(schema') + 1
                        /\ Ran(q)' => at'[q] \in Names
                        /\ pc'[q] \in {"commit", "sent"} => at'[q] \notin recorded'
    BY DEF NotAhead, Names
  <2>2. applied'[q] \subseteq recorded'
    BY <1>2, <1>6 DEF IInv, NotAhead
  <2>3. CASE q = p
    BY <1>2, <1>3, <1>4, <2>2, <2>3 DEF Ran
  <2>4. CASE q # p
    <3>1. pc'[q] \in {"loop", "record", "commit", "lost", "sent"} => at'[q] <= Len(schema') + 1
      <4>1. at[q] \in Int
        BY MigrationsAssumption DEF IInv, TypeOK
      <4> QED BY <1>2, <1>3, <1>5, <2>4, <4>1 DEF IInv, NotAhead
    <3>2. Ran(q)' => at'[q] \in Names
      BY <1>5, <2>4 DEF IInv, NotAhead, Ran
    <3>3. pc[q] \in {"commit", "sent"} => at[q] # at[p] /\ at[q] \notin recorded
      BY <1>1, <2>4 DEF IInv, NotAhead, OneRunner, Ran
    <3>4. pc'[q] \in {"commit", "sent"} => at'[q] \notin recorded'
      BY <1>1, <1>5, <2>4, <3>3 DEF Committed
    <3> QED BY <2>2, <3>1, <3>2, <3>4
  <2> QED BY <2>3, <2>4
<1>9. OneRunner'
  BY <1>4, <1>5 DEF IInv, OneRunner, Ran
<1>10. ReadyMeansMigrated'
  BY <1>2, <1>4, <1>5 DEF IInv, ReadyMeansMigrated
<1> QED BY <1>2, <1>7, <1>8, <1>9, <1>10 DEF IInv

LEMMA StepKeeps == IInv /\ [Next]_vars => IInv'
<1> SUFFICES ASSUME IInv, [Next]_vars PROVE IInv'
  OBVIOUS
<1>1. CASE UNCHANGED vars
  BY <1>1 DEF vars, IInv, TypeOK, MigratedOnceInOrder, NotAhead, OneRunner, ReadyMeansMigrated, Ran
<1>2. ASSUME NEW p \in Procs,
             Step(p) \/ ServerEnds(p) \/ StatementFails(p) \/ Crash(p)
      PROVE  IInv'
  <2>1. /\ at[p] \in 1..(Last + 1) /\ Len(schema) \in Nat /\ schema \in Seq(Names)
        /\ recorded = 1..Len(schema) /\ recorded \subseteq Names
        /\ pc[p] \in {"off", "load", "loop", "record", "commit", "ready", "lost", "sent"}
        /\ faults \in 0..MaxFaults /\ applied \in [Procs -> SUBSET Names]
        /\ at = [at EXCEPT ![p] = at[p]] /\ pc = [pc EXCEPT ![p] = pc[p]]
    BY <1>2 DEF IInv, TypeOK, MigratedOnceInOrder
  <2>2. \A q \in Procs : applied[q] \subseteq recorded
    BY DEF IInv, NotAhead
  <2>3. CASE CreateTable(p) \/ SqlConflicts(p) \/ RecordConflicts(p) \/ LostAborts(p)
    <3>1. QuietStep(p, pc'[p], at[p]) /\ pc'[p] \in {"off", "load"}
      BY <2>1, <2>3 DEF CreateTable, SqlConflicts, RecordConflicts, LostAborts, GoTo, QuietStep,
                        IInv, TypeOK
    <3>2. applied' = applied /\ faults' = faults
      BY <2>3 DEF CreateTable, SqlConflicts, RecordConflicts, LostAborts
    <3> QED BY <2>1, <2>2, <3>1, <3>2, QuietStepKeeps
  <2>4. CASE LoadAppliedVersions(p)
    <3>1. QuietStep(p, "loop", 1) /\ 1 \in 1..(Last + 1)
      BY <2>4, MigrationsAssumption DEF LoadAppliedVersions, GoTo, QuietStep
    <3>2. faults' = faults /\ applied' \in [Procs -> SUBSET Names]
      BY <2>1, <2>4 DEF LoadAppliedVersions
    <3>3. \A q \in Procs : applied'[q] \subseteq recorded
      BY <2>1, <2>2, <2>4 DEF LoadAppliedVersions
    <3> QED BY <2>1, <3>1, <3>2, <3>3, QuietStepKeeps
  <2>5. CASE Skip(p)
    <3>1. at[p] \in 1..Len(schema) /\ at[p] \in Names
      BY <2>1, <2>2, <2>5 DEF Skip
    <3>2. QuietStep(p, "loop", at[p] + 1)
      BY <2>1, <2>5 DEF Skip, QuietStep
    <3>3. applied' = applied /\ faults' = faults
      BY <2>5 DEF Skip
    <3>4. (at[p] + 1) \in 1..(Last + 1) /\ at[p] + 1 <= Len(schema) + 1
      BY <2>1, <3>1, MigrationsAssumption DEF Names
    <3> QED BY <2>1, <2>2, <3>2, <3>3, <3>4, QuietStepKeeps
  <2>6. CASE RunSql(p)
    <3>1. QuietStep(p, "record", at[p]) /\ applied' = applied /\ faults' = faults
      BY <2>1, <2>6 DEF RunSql, GoTo, QuietStep
    <3>2. at[p] \in Names /\ at[p] <= Len(schema) + 1
      BY <2>6 DEF RunSql, IInv, NotAhead
    <3>3. \A q \in Procs \ {p} : ~(Ran(q) /\ at[q] = at[p])
      BY <2>6 DEF RunSql
    <3> QED BY <2>1, <2>2, <3>1, <3>2, <3>3, QuietStepKeeps
  <2>7. CASE Record(p)
    <3>1. QuietStep(p, "commit", at[p]) /\ applied' = applied /\ faults' = faults
      BY <2>1, <2>7 DEF Record, GoTo, QuietStep
    <3>2. at[p] \in Names /\ at[p] <= Len(schema) + 1 /\ at[p] \notin recorded
      BY <2>7 DEF Record, IInv, NotAhead, Ran
    <3>3. \A q \in Procs \ {p} : ~(Ran(q) /\ at[q] = at[p])
      BY <2>7 DEF Record, IInv, OneRunner, Ran
    <3> QED BY <2>1, <2>2, <3>1, <3>2, <3>3, QuietStepKeeps
  <2>8. CASE Finish(p)
    <3>1. QuietStep(p, "ready", at[p]) /\ applied' = applied /\ faults' = faults
      BY <2>1, <2>8 DEF Finish, GoTo, QuietStep
    <3>2. at[p] = Last + 1 /\ at[p] <= Len(schema) + 1
      BY <2>8 DEF Finish, IInv, NotAhead
    <3>3. recorded = Names
      <4>1. Last <= Len(schema)
        BY <2>1, <3>2, MigrationsAssumption
      <4>2. \A i \in 1..Last : i \in 1..Len(schema)
        BY <2>1, <4>1, MigrationsAssumption
      <4> QED BY <2>1, <4>2 DEF Names
    <3> QED BY <2>1, <2>2, <3>1, <3>3, QuietStepKeeps
  <2>9. CASE Commit(p) \/ LostCommits(p)
    BY <2>9, CommittingStepKeeps
  <2>10. CASE StatementFails(p)
    <3>1. QuietStep(p, "off", at[p]) /\ applied' = applied
      BY <2>1, <2>10 DEF StatementFails, GoTo, QuietStep
    <3>2. faults' \in 0..MaxFaults
      BY <2>1, <2>10, MigrationsAssumption DEF StatementFails, Fault
    <3> QED BY <2>1, <2>2, <3>1, <3>2, QuietStepKeeps
  <2>11. CASE Crash(p)
    <3> DEFINE step == CASE pc[p] = "record" -> "lost"
                         [] pc[p] = "commit" -> "sent"
                         [] OTHER            -> "off"
    <3>1. QuietStep(p, step, at[p]) /\ applied' = applied
      BY <2>1, <2>11 DEF Crash, GoTo, QuietStep
    <3>2. faults' \in 0..MaxFaults
      BY <2>1, <2>11, MigrationsAssumption DEF Crash, Fault
    <3>3. /\ step \in {"off", "lost", "sent"}
          /\ step = "lost" => pc[p] = "record"
          /\ step = "sent" => pc[p] = "commit"
      OBVIOUS
    <3> HIDE DEF step
    <3>4. step \in {"lost", "sent"} =>
              /\ at[p] \in Names /\ at[p] <= Len(schema) + 1
              /\ \A q \in Procs \ {p} : ~(Ran(q) /\ at[q] = at[p])
      BY <3>3 DEF IInv, NotAhead, OneRunner, Ran
    <3>5. step = "sent" => at[p] \notin recorded
      BY <3>3 DEF IInv, NotAhead
    <3> QED BY <2>1, <2>2, <3>1, <3>2, <3>3, <3>4, <3>5, QuietStepKeeps
  <2> QED BY <1>2, <2>3, <2>4, <2>5, <2>6, <2>7, <2>8, <2>9, <2>10, <2>11 DEF Step, ServerEnds
<1> QED BY <1>1, <1>2 DEF Next

(* Migrations take effect once and in order, and are recorded exactly when  *)
(* they did, for every number of files, processes and faults.              *)
THEOREM MigrationsOnceInOrder == Spec => []MigratedOnceInOrder
<1>1. IInv => MigratedOnceInOrder
  BY DEF IInv
<1> QED BY <1>1, InitHolds, StepKeeps, PTL DEF Spec

(* A process that goes on to ingest blocks finds the whole schema. *)
THEOREM ReadyProcessesAreMigrated == Spec => []ReadyMeansMigrated
<1>1. IInv => ReadyMeansMigrated
  BY DEF IInv
<1> QED BY <1>1, InitHolds, StepKeeps, PTL DEF Spec

(* The variables keep their types; in particular no process loads, runs or  *)
(* records a version that no file has.                                     *)
THEOREM TypeCorrect == Spec => []TypeOK
<1>1. IInv => TypeOK
  BY DEF IInv
<1> QED BY <1>1, InitHolds, StepKeeps, PTL DEF Spec

-----------------------------------------------------------------------------
(* Why every process is ready in the end. *)

(* The guards of the steps of a process, and of the server for it. *)
MayProceed(p) ==
    \/ pc[p] \in {"off", "load", "record", "commit", "lost", "sent"}
    \/ pc[p] = "loop" /\ at[p] \in applied[p] \cup {Last + 1}
    \/ pc[p] = "loop" /\ \A q \in Procs \ {p} : ~(Ran(q) /\ at[q] = at[p])

(* Only the SQL of a file waits, and for one that does not wait itself. *)
OneWaitsForAnother ==
    \A p \in Procs :
        \/ pc[p] = "ready" \/ MayProceed(p)
        \/ pc[p] = "loop" /\ \E q \in Procs \ {p} :
                /\ Ran(q) /\ at[q] = at[p] /\ MayProceed(q)
                /\ \A r \in Procs : Ran(r) /\ at[r] = at[p] => r = q

(* However many processes migrate at once, each that is not ready can go    *)
(* on or waits for the one transaction that runs its file, whose process   *)
(* can go on or is gone and leaves it to the server: they cannot all wait. *)
THEOREM MigrationsProceed == Spec => []OneWaitsForAnother
<1>1. IInv => OneWaitsForAnother
  BY DEF IInv, TypeOK, OneRunner, OneWaitsForAnother, MayProceed, Ran
<1> QED BY <1>1, InitHolds, StepKeeps, PTL DEF Spec

(* A process runs only files that it did not find applied. *)
RunsNewFiles == \A p \in Procs : pc[p] \in {"record", "commit"} => at[p] \notin applied[p]

LEMMA RunsNewFilesStep == IInv /\ RunsNewFiles /\ [Next]_vars => RunsNewFiles'
<1> SUFFICES ASSUME IInv, RunsNewFiles, [Next]_vars PROVE RunsNewFiles'
  OBVIOUS
<1> USE DEF RunsNewFiles, GoTo
<1>1. pc \in [Procs -> {"off", "load", "loop", "record", "commit", "ready", "lost", "sent"}]
      /\ applied \in [Procs -> SUBSET Names] /\ at \in [Procs -> 1..(Last + 1)]
  BY DEF IInv, TypeOK
<1>2. CASE UNCHANGED vars
  BY <1>2 DEF vars
<1>3. ASSUME NEW p \in Procs, Step(p) PROVE RunsNewFiles'
  <2>1. CASE CreateTable(p) \/ LoadAppliedVersions(p) \/ Skip(p)
    BY <1>1, <2>1 DEF CreateTable, LoadAppliedVersions, Skip
  <2>2. CASE RunSql(p) \/ SqlConflicts(p)
    BY <1>1, <2>2 DEF RunSql, SqlConflicts
  <2>3. CASE Record(p) \/ RecordConflicts(p)
    BY <1>1, <2>3 DEF Record, RecordConflicts
  <2>4. CASE Commit(p) \/ Finish(p)
    BY <1>1, <2>4 DEF Commit, Finish
  <2> QED BY <1>3, <2>1, <2>2, <2>3, <2>4 DEF Step
<1>4. ASSUME NEW p \in Procs, ServerEnds(p) \/ StatementFails(p) \/ Crash(p) PROVE RunsNewFiles'
  BY <1>1, <1>4 DEF ServerEnds, LostAborts, LostCommits, StatementFails, Crash
<1> QED BY <1>2, <1>3, <1>4 DEF Next

(* A live process that ends without a fault, before it is ready. *)
Loses(p) ==
    /\ pc[p] \in {"load", "loop", "record", "commit"}
    /\ pc'[p] = "off" /\ faults' = faults

(* It has lost to a migration that was recorded after it began. *)
LosersLearn ==
    \A p \in Procs : Loses(p) => \E n \in recorded : n \notin applied[p] /\ n = at[p]

(* schema.go:118: a start that fails because another process was faster     *)
(* leaves more migrations recorded than it had found, so the next finds    *)
(* more: without faults a process starts no more often than there are      *)
(* files, and once more.                                                   *)
THEOREM StartsGain == Spec => [][LosersLearn]_vars
<1>1. Init => RunsNewFiles
  BY DEF Init, RunsNewFiles
<1>2. IInv /\ RunsNewFiles /\ [Next]_vars => [LosersLearn]_vars
  <2> SUFFICES ASSUME IInv, RunsNewFiles, Next, NEW p \in Procs, Loses(p)
               PROVE  \E n \in recorded : n \notin applied[p] /\ n = at[p]
    BY DEF LosersLearn
  <2>1. /\ pc \in [Procs -> {"off", "load", "loop", "record", "commit", "ready", "lost", "sent"}]
        /\ faults \in Nat
    BY MigrationsAssumption DEF IInv, TypeOK
  <2>2. ASSUME NEW q \in Procs, Step(q)
        PROVE  at[p] \in recorded /\ at[p] \notin applied[p]
    <3>1. CASE CreateTable(q) \/ LoadAppliedVersions(q) \/ Skip(q) \/ RunSql(q)
      BY <2>1, <3>1 DEF CreateTable, LoadAppliedVersions, Skip, RunSql, GoTo, Loses
    <3>2. CASE Record(q) \/ Commit(q) \/ Finish(q)
      BY <2>1, <3>2 DEF Record, Commit, Finish, GoTo, Loses
    <3>3. CASE SqlConflicts(q)
      BY <2>1, <3>3 DEF SqlConflicts, GoTo, Loses
    <3>4. CASE RecordConflicts(q)
      BY <2>1, <3>4 DEF RecordConflicts, GoTo, Loses, RunsNewFiles
    <3> QED BY <2>2, <3>1, <3>2, <3>3, <3>4 DEF Step
  <2>3. ASSUME NEW q \in Procs, ServerEnds(q) \/ StatementFails(q) \/ Crash(q) PROVE FALSE
    BY <2>1, <2>3 DEF ServerEnds, LostAborts, LostCommits, StatementFails, Crash, Fault, GoTo, Loses
  <2> QED BY <2>2, <2>3 DEF Next
<1> QED BY <1>1, <1>2, InitHolds, StepKeeps, RunsNewFilesStep, PTL DEF Spec
=============================================================================
