--------------------------- MODULE BlockPipeline ---------------------------
(***************************************************************************)
(* The ingestion side of the explorer as one process runs it, and as a     *)
(* supervisor starts it again after it stopped:                            *)
(*                                                                         *)
(*   sidecar -> ToQueue -> deliverBlockCh -> bridge -> inputBlockCh        *)
(*           -> processors -> processedBlockCh -> writers -> table blocks  *)
(*                                                                         *)
(* Every goroutine of pkg/blockpipeline and pkg/sidecarstream is a process *)
(* here; a block is its number.  The goroutines of the pipeline share one  *)
(* errgroup context (pool.go, gCtx): "cancelled" says that it is done.     *)
(* Nothing closes the channels, so a channel operation gives up only when  *)
(* its context is done, and with both possible the select may pick either. *)
(***************************************************************************)
EXTENDS Integers, Sequences, FiniteSets, Functions, GapScan

CONSTANTS
    StartBlk,      (* sidecar.start_block                                   *)
    MaxHeight,     (* bound on the length of the chain                      *)
    Processors,    (* the block processors, workers.processor_count of them *)
    Writers,       (* the block writers, workers.writer_count of them       *)
    RawCap,        (* buffer.raw_channel_size                               *)
    ProcCap,       (* buffer.processed_channel_size                         *)
    Unparsable,    (* blocks that parser.Parse rejects                      *)
    Unwritable,    (* parsed blocks that buildBatchParams rejects           *)
    FaultKinds,    (* the faults of the environment a behaviour may show    *)
    MaxFaults      (* bound on the number of faults in a behaviour          *)

AllFaults == {"crash", "db", "stream", "rest", "scan"}

ASSUME StartBlkAssumption  == StartBlk \in Nat
ASSUME MaxHeightAssumption == MaxHeight \in Nat
ASSUME WorkersAssumption   == Processors # {} /\ Writers # {}
ASSUME BufferAssumption    == RawCap \in Nat \ {0} /\ ProcCap \in Nat \ {0}
ASSUME FaultsAssumption    == FaultKinds \subseteq AllFaults /\ MaxFaults \in Nat

Blocks == 0..(MaxHeight - 1)

(* The value of a variable that holds no block. *)
NoBlock == -1

(* make(chan *common.Block, 1) *)
DeliverCap == 1

VARIABLES
    height,            (* the committer has produced blocks 0 .. height - 1 *)
    stored,            (* block numbers in table blocks, i.e. committed     *)
    orphans,           (* blocks whose COMMIT was sent and never answered:  *)
                       (* the server may still commit them, or not          *)
    faults,            (* faults so far                                     *)
    phase,             (* the process: "down", "scanned" once it knows where *)
                       (* to resume, "running" once it launched the pipeline *)
    cancelled,         (* gCtx of Service.Start is done                     *)
    toQueue,           (* ToQueue: "streaming", "failed" or "done"          *)
    next,              (* the block ToQueue asks the sidecar for next       *)
    deliverBlockCh,
    bridgePc, bridgeBlk,
    inputBlockCh,
    procPc, procBlk,
    processedBlockCh,
    writerPc, writerBlk

dbVars      == <<stored, orphans>>
sessionVars == <<phase, cancelled>>
streamVars  == <<toQueue, next, deliverBlockCh>>
bridgeVars  == <<bridgePc, bridgeBlk>>
procVars    == <<procPc, procBlk>>
writerVars  == <<writerPc, writerBlk>>
vars == <<height, dbVars, faults, sessionVars, streamVars, bridgeVars,
          inputBlockCh, procVars, processedBlockCh, writerVars>>

-----------------------------------------------------------------------------
(* Where blocks are between the sidecar and the database. *)

Held(pc, blk, At) == {blk[x] : x \in {y \in DOMAIN pc : pc[y] \in At}}

InBridge  == {b \in {bridgeBlk} : bridgePc = "write"}
InProcs   == Held(procPc, procBlk, {"parse", "write"})
InWriters == Held(writerPc, writerBlk, {"build", "tx"})

InFlight ==
    Range(deliverBlockCh) \cup InBridge \cup Range(inputBlockCh)
    \cup InProcs \cup Range(processedBlockCh) \cup InWriters

(* errgroup.Wait of Service.Start: every goroutine it launched returned.   *)
(* The receiver returns with Deliver, i.e. with ToQueue and the bridge.    *)
DeliverReturned  == toQueue # "streaming" /\ bridgePc = "done"
PipelineReturned ==
    /\ DeliverReturned
    /\ \A p \in Processors : procPc[p] = "done"
    /\ \A w \in Writers : writerPc[w] = "done"

Fault(kind) ==
    /\ kind \in FaultKinds
    /\ faults < MaxFaults
    /\ faults' = faults + 1

(* The process and everything it keeps in memory is gone. *)
StopProcess ==
    /\ phase' = "down"
    /\ cancelled' = TRUE
    /\ toQueue' = "done"
    /\ next' = StartBlk
    /\ deliverBlockCh' = <<>>
    /\ bridgePc' = "done"
    /\ bridgeBlk' = NoBlock
    /\ inputBlockCh' = <<>>
    /\ procPc' = [p \in Processors |-> "done"]
    /\ procBlk' = [p \in Processors |-> NoBlock]
    /\ processedBlockCh' = <<>>
    /\ writerPc' = [w \in Writers |-> "done"]
    /\ writerBlk' = [w \in Writers |-> NoBlock]

Init ==
    /\ height = 0
    /\ stored = {}
    /\ orphans = {}
    /\ faults = 0
    /\ phase = "down"
    /\ cancelled = TRUE
    /\ toQueue = "done"
    /\ next = StartBlk
    /\ deliverBlockCh = <<>>
    /\ bridgePc = "done"
    /\ bridgeBlk = NoBlock
    /\ inputBlockCh = <<>>
    /\ procPc = [p \in Processors |-> "done"]
    /\ procBlk = [p \in Processors |-> NoBlock]
    /\ processedBlockCh = <<>>
    /\ writerPc = [w \in Writers |-> "done"]
    /\ writerBlk = [w \in Writers |-> NoBlock]

-----------------------------------------------------------------------------
(* The committer's chain. *)

Produce ==
    /\ height < MaxHeight
    /\ height' = height + 1
    /\ UNCHANGED <<dbVars, faults, sessionVars, streamVars, bridgeVars,
                   inputBlockCh, procVars, processedBlockCh, writerVars>>

-----------------------------------------------------------------------------
(* Start and end of a process. *)

(* A failed gap scan that starts over from block 0. *)
ResumeFromZero(from) == from - from

(* resumeBlockNum when its query fails: the fallback. *)
ResumeOnError(from) == from

(* Service.Run decides where to resume, then goes on to open its port. *)
ResumeAt(resume) ==
    /\ phase = "down"
    /\ phase' = "scanned"
    /\ cancelled' = FALSE
    /\ next' = resume
    /\ UNCHANGED <<height, dbVars, toQueue, deliverBlockCh, bridgeVars,
                   inputBlockCh, procVars, processedBlockCh, writerVars>>

Scan ==
    /\ ResumeAt(ResumeBlockNum(stored, StartBlk))
    /\ UNCHANGED faults

ScanFails ==
    /\ Fault("scan")
    /\ ResumeAt(ResumeOnError(StartBlk))

(* net.Listen fails: Service.Run returns before it launched anything. *)
ListenFails ==
    /\ phase = "scanned"
    /\ Fault("rest")
    /\ StopProcess
    /\ UNCHANGED <<height, dbVars>>

(* The goroutines of the pipeline, with the resume point found earlier. *)
Launch ==
    /\ phase = "scanned"
    /\ phase' = "running"
    /\ toQueue' = "streaming"
    /\ bridgePc' = "read"
    /\ procPc' = [p \in Processors |-> "read"]
    /\ writerPc' = [w \in Writers |-> "acquire"]
    /\ UNCHANGED <<height, dbVars, faults, cancelled, next, deliverBlockCh,
                   bridgeBlk, inputBlockCh, procBlk, processedBlockCh, writerBlk>>

(* Service.Run returns once every goroutine of the pipeline did. *)
Exit ==
    /\ phase = "running"
    /\ PipelineReturned
    /\ StopProcess
    /\ UNCHANGED <<height, dbVars, faults>>

(***************************************************************************)
(* The process is killed: no signal is handled, a SIGTERM is a crash.  A   *)
(* transaction that was being committed may be decided later.              *)
(***************************************************************************)
Crash ==
    /\ phase # "down"
    /\ Fault("crash")
    /\ StopProcess
    /\ \E lost \in SUBSET Held(writerPc, writerBlk, {"tx"}) :
          orphans' = orphans \cup lost
    /\ UNCHANGED <<height, stored>>

(* The REST server failed: its errgroup cancels the pipeline's context. *)
RestFails ==
    /\ phase = "running" /\ ~cancelled
    /\ Fault("rest")
    /\ cancelled' = TRUE
    /\ UNCHANGED <<height, dbVars, phase, streamVars, bridgeVars, inputBlockCh,
                   procVars, processedBlockCh, writerVars>>

(* The server decides a transaction whose client is gone. *)
OrphanCommits(n) ==
    /\ n \in orphans
    /\ orphans' = orphans \ {n}
    /\ stored' = stored \cup {n}
    /\ UNCHANGED <<height, faults, sessionVars, streamVars, bridgeVars,
                   inputBlockCh, procVars, processedBlockCh, writerVars>>

OrphanAborts(n) ==
    /\ n \in orphans
    /\ orphans' = orphans \ {n}
    /\ UNCHANGED <<height, stored, faults, sessionVars, streamVars, bridgeVars,
                   inputBlockCh, procVars, processedBlockCh, writerVars>>

-----------------------------------------------------------------------------
(* Streamer.Deliver: ToQueue, and the bridge to the pipeline's channel. *)

(* ToQueue reconnects by itself and hands over the blocks in their order. *)
ToQueueDelivers ==
    /\ toQueue = "streaming"
    /\ next < height
    /\ Len(deliverBlockCh) < DeliverCap
    /\ deliverBlockCh' = Append(deliverBlockCh, next)
    /\ next' = next + 1
    /\ UNCHANGED <<height, dbVars, faults, sessionVars, toQueue, bridgeVars,
                   inputBlockCh, procVars, processedBlockCh, writerVars>>

(* ToQueue returns a permanent error: Deliver's inner context is cancelled, *)
(* which is not the context the bridge reads with.                          *)
ToQueueFails ==
    /\ toQueue = "streaming"
    /\ Fault("stream")
    /\ toQueue' = "failed"
    /\ UNCHANGED <<height, dbVars, sessionVars, next, deliverBlockCh, bridgeVars,
                   inputBlockCh, procVars, processedBlockCh, writerVars>>

ToQueueStops ==
    /\ toQueue = "streaming"
    /\ cancelled
    /\ toQueue' = "done"
    /\ UNCHANGED <<height, dbVars, faults, sessionVars, next, deliverBlockCh,
                   bridgeVars, inputBlockCh, procVars, processedBlockCh, writerVars>>

BridgeReads ==
    /\ bridgePc = "read"
    /\ deliverBlockCh # <<>>
    /\ bridgeBlk' = Head(deliverBlockCh)
    /\ bridgePc' = "write"
    /\ deliverBlockCh' = Tail(deliverBlockCh)
    /\ UNCHANGED <<height, dbVars, faults, sessionVars, toQueue, next,
                   inputBlockCh, procVars, processedBlockCh, writerVars>>

(* A channel that does not bound what it holds. *)
BridgeWritesUnbounded ==
    /\ bridgePc = "write"
    /\ inputBlockCh' = Append(inputBlockCh, bridgeBlk)
    /\ bridgePc' = "read"
    /\ bridgeBlk' = NoBlock
    /\ UNCHANGED <<height, dbVars, faults, sessionVars, streamVars,
                   procVars, processedBlockCh, writerVars>>

BridgeWrites ==
    /\ bridgePc = "write"
    /\ Len(inputBlockCh) < RawCap
    /\ inputBlockCh' = Append(inputBlockCh, bridgeBlk)
    /\ bridgePc' = "read"
    /\ bridgeBlk' = NoBlock
    /\ UNCHANGED <<height, dbVars, faults, sessionVars, streamVars,
                   procVars, processedBlockCh, writerVars>>

(* A send that does not wait for room in the channel. *)
BridgeDropsWhenFull ==
    /\ bridgePc = "write"
    /\ cancelled \/ Len(inputBlockCh) = RawCap
    /\ bridgePc' = "read"
    /\ bridgeBlk' = NoBlock
    /\ UNCHANGED <<height, dbVars, faults, sessionVars, streamVars,
                   inputBlockCh, procVars, processedBlockCh, writerVars>>

(* out.Write gives up when the context is done; its result is not looked at. *)
BridgeDrops ==
    /\ bridgePc = "write"
    /\ cancelled
    /\ bridgePc' = "read"
    /\ bridgeBlk' = NoBlock
    /\ UNCHANGED <<height, dbVars, faults, sessionVars, streamVars,
                   inputBlockCh, procVars, processedBlockCh, writerVars>>

BridgeStops ==
    /\ bridgePc = "read"
    /\ cancelled
    /\ bridgePc' = "done"
    /\ UNCHANGED <<height, dbVars, faults, sessionVars, streamVars, bridgeBlk,
                   inputBlockCh, procVars, processedBlockCh, writerVars>>

-----------------------------------------------------------------------------
(* The head of the loops "for ctx.Err() == nil" of processors and writers. *)
LoopHead == IF cancelled THEN "done" ELSE "read"

(* blockProcessor *)

ProcReads(p) ==
    /\ procPc[p] = "read"
    /\ inputBlockCh # <<>>
    /\ procBlk' = [procBlk EXCEPT ![p] = Head(inputBlockCh)]
    /\ procPc' = [procPc EXCEPT ![p] = "parse"]
    /\ inputBlockCh' = Tail(inputBlockCh)
    /\ UNCHANGED <<height, dbVars, faults, sessionVars, streamVars, bridgeVars,
                   processedBlockCh, writerVars>>

ProcParses(p) ==
    /\ procPc[p] = "parse"
    /\ procBlk[p] \notin Unparsable
    /\ procPc' = [procPc EXCEPT ![p] = "write"]
    /\ UNCHANGED <<height, dbVars, faults, sessionVars, streamVars, bridgeVars,
                   inputBlockCh, procBlk, processedBlockCh, writerVars>>

(* An error of parser.Parse ends the processor and cancels the group. *)
ProcFails(p) ==
    /\ procPc[p] = "parse"
    /\ procBlk[p] \in Unparsable
    /\ procPc' = [procPc EXCEPT ![p] = "done"]
    /\ procBlk' = [procBlk EXCEPT ![p] = NoBlock]
    /\ cancelled' = TRUE
    /\ UNCHANGED <<height, dbVars, faults, phase, streamVars, bridgeVars,
                   inputBlockCh, processedBlockCh, writerVars>>

ProcWrites(p) ==
    /\ procPc[p] = "write"
    /\ Len(processedBlockCh) < ProcCap
    /\ processedBlockCh' = Append(processedBlockCh, procBlk[p])
    /\ procPc' = [procPc EXCEPT ![p] = LoopHead]
    /\ procBlk' = [procBlk EXCEPT ![p] = NoBlock]
    /\ UNCHANGED <<height, dbVars, faults, sessionVars, streamVars, bridgeVars,
                   inputBlockCh, writerVars>>

(* A send on the bare channel, which does not watch the context. *)
ProcNeverDrops(p) == FALSE

ProcDrops(p) ==
    /\ procPc[p] = "write"
    /\ cancelled
    /\ procPc' = [procPc EXCEPT ![p] = LoopHead]
    /\ procBlk' = [procBlk EXCEPT ![p] = NoBlock]
    /\ UNCHANGED <<height, dbVars, faults, sessionVars, streamVars, bridgeVars,
                   inputBlockCh, processedBlockCh, writerVars>>

ProcStops(p) ==
    /\ procPc[p] = "read"
    /\ cancelled
    /\ procPc' = [procPc EXCEPT ![p] = "done"]
    /\ UNCHANGED <<height, dbVars, faults, sessionVars, streamVars, bridgeVars,
                   inputBlockCh, procBlk, processedBlockCh, writerVars>>

-----------------------------------------------------------------------------
(* runBlockWriter and blockWriter *)

(* The connection a writer keeps for its whole life. *)
WriterAcquires(w) ==
    /\ writerPc[w] = "acquire"
    /\ writerPc' = [writerPc EXCEPT ![w] = "read"]
    /\ UNCHANGED <<height, dbVars, faults, sessionVars, streamVars, bridgeVars,
                   inputBlockCh, procVars, processedBlockCh, writerBlk>>

WriterReads(w) ==
    /\ writerPc[w] = "read"
    /\ processedBlockCh # <<>>
    /\ writerBlk' = [writerBlk EXCEPT ![w] = Head(processedBlockCh)]
    /\ writerPc' = [writerPc EXCEPT ![w] = "build"]
    /\ processedBlockCh' = Tail(processedBlockCh)
    /\ UNCHANGED <<height, dbVars, faults, sessionVars, streamVars, bridgeVars,
                   inputBlockCh, procVars>>

(* buildBatchParams, before the transaction is opened. *)
WriterBuilds(w) ==
    /\ writerPc[w] = "build"
    /\ writerBlk[w] \notin Unwritable
    /\ writerPc' = [writerPc EXCEPT ![w] = "tx"]
    /\ UNCHANGED <<height, dbVars, faults, sessionVars, streamVars, bridgeVars,
                   inputBlockCh, procVars, processedBlockCh, writerBlk>>

(* The error of writer w ends it and cancels the group: its block is lost *)
(* to this process.                                                       *)
WriterReturnsError(w) ==
    /\ writerPc' = [writerPc EXCEPT ![w] = "done"]
    /\ writerBlk' = [writerBlk EXCEPT ![w] = NoBlock]
    /\ cancelled' = TRUE
    /\ UNCHANGED <<height, stored, phase, streamVars, bridgeVars, inputBlockCh,
                   procVars, processedBlockCh>>

WriterRejects(w) ==
    /\ writerPc[w] = "build"
    /\ writerBlk[w] \in Unwritable
    /\ WriterReturnsError(w)
    /\ UNCHANGED <<orphans, faults>>

(* The block and all its rows become visible at once. *)
WriterCommits(w) ==
    /\ writerPc[w] = "tx"
    /\ stored' = stored \cup {writerBlk[w]}
    /\ writerPc' = [writerPc EXCEPT ![w] = LoopHead]
    /\ writerBlk' = [writerBlk EXCEPT ![w] = NoBlock]
    /\ UNCHANGED <<height, orphans, faults, sessionVars, streamVars, bridgeVars,
                   inputBlockCh, procVars, processedBlockCh>>

(* An error that is logged and skipped. *)
WriterSkipsBlock(w) ==
    /\ writerPc[w] \in {"acquire", "tx"}
    /\ Fault("db")
    /\ writerPc' = [writerPc EXCEPT ![w] = "read"]
    /\ writerBlk' = [writerBlk EXCEPT ![w] = NoBlock]
    /\ UNCHANGED <<height, dbVars, sessionVars, streamVars, bridgeVars,
                   inputBlockCh, procVars, processedBlockCh>>

(***************************************************************************)
(* A database call of writer w fails: Acquire, or a statement or the       *)
(* COMMIT of its transaction.  The deferred rollback undoes the            *)
(* transaction, unless the COMMIT was already with the server.             *)
(***************************************************************************)
WriterFails(w) ==
    /\ writerPc[w] \in {"acquire", "tx"}
    /\ Fault("db")
    /\ WriterReturnsError(w)
    /\ orphans' \in {orphans, orphans \cup {n \in {writerBlk[w]} : writerPc[w] = "tx"}}

(* The same, because the group's context is done: no fault of the database. *)
WriterInterrupted(w) ==
    /\ writerPc[w] \in {"acquire", "tx"}
    /\ cancelled
    /\ WriterReturnsError(w)
    /\ orphans' \in {orphans, orphans \cup {n \in {writerBlk[w]} : writerPc[w] = "tx"}}
    /\ UNCHANGED faults

WriterStops(w) ==
    /\ writerPc[w] = "read"
    /\ cancelled
    /\ writerPc' = [writerPc EXCEPT ![w] = "done"]
    /\ UNCHANGED <<height, dbVars, faults, sessionVars, streamVars, bridgeVars,
                   inputBlockCh, procVars, processedBlockCh, writerBlk>>

-----------------------------------------------------------------------------
Stream == ToQueueDelivers \/ ToQueueFails \/ ToQueueStops

Bridge == BridgeReads \/ BridgeWrites \/ BridgeDrops \/ BridgeStops

Processor(p) ==
    ProcReads(p) \/ ProcParses(p) \/ ProcFails(p) \/ ProcWrites(p)
    \/ ProcDrops(p) \/ ProcStops(p)

Writer(w) ==
    WriterAcquires(w) \/ WriterReads(w) \/ WriterBuilds(w) \/ WriterRejects(w)
    \/ WriterCommits(w) \/ WriterFails(w) \/ WriterInterrupted(w) \/ WriterStops(w)

Process == Scan \/ ScanFails \/ ListenFails \/ Launch \/ Exit \/ Crash \/ RestFails

Orphan(n) == OrphanCommits(n) \/ OrphanAborts(n)

Next ==
    \/ Produce
    \/ Process
    \/ Stream
    \/ Bridge
    \/ \E p \in Processors : Processor(p)
    \/ \E w \in Writers : Writer(w)
    \/ \E n \in Blocks : Orphan(n)

Spec == Init /\ [][Next]_vars

(***************************************************************************)
(* Runnable goroutines run, the supervisor restarts a process that ended,  *)
(* and the server decides every transaction.  Faults are never owed.       *)
(***************************************************************************)
Fairness ==
    /\ WF_vars(Scan) /\ WF_vars(Launch) /\ WF_vars(Exit)
    /\ WF_vars(ToQueueDelivers) /\ WF_vars(ToQueueStops)
    /\ WF_vars(Bridge)
    /\ \A p \in Processors : WF_vars(Processor(p))
    /\ \A w \in Writers :
          WF_vars(WriterAcquires(w) \/ WriterReads(w) \/ WriterBuilds(w) \/ WriterRejects(w)
                  \/ WriterCommits(w) \/ WriterInterrupted(w) \/ WriterStops(w))
    /\ \A n \in Blocks : WF_vars(Orphan(n))

FairSpec == Spec /\ Fairness

-----------------------------------------------------------------------------
(* The types of the variables, and what a process that is down looks like. *)
TypeOK ==
    /\ height \in 0..MaxHeight
    /\ stored \subseteq Blocks
    /\ orphans \subseteq Blocks
    /\ faults \in 0..MaxFaults
    /\ phase \in {"down", "scanned", "running"}
    /\ cancelled \in BOOLEAN
    /\ toQueue \in {"streaming", "failed", "done"}
    /\ next \in Nat
    /\ deliverBlockCh \in Seq(Blocks) /\ Len(deliverBlockCh) <= DeliverCap
    /\ bridgePc \in {"read", "write", "done"}
    /\ bridgeBlk \in Blocks \cup {NoBlock}
    /\ inputBlockCh \in Seq(Blocks) /\ Len(inputBlockCh) <= RawCap
    /\ procPc \in [Processors -> {"read", "parse", "write", "done"}]
    /\ procBlk \in [Processors -> Blocks \cup {NoBlock}]
    /\ processedBlockCh \in Seq(Blocks) /\ Len(processedBlockCh) <= ProcCap
    /\ writerPc \in [Writers -> {"acquire", "read", "build", "tx", "done"}]
    /\ writerBlk \in [Writers -> Blocks \cup {NoBlock}]

(* A channel, goroutine or pending COMMIT only holds blocks the committer   *)
(* has produced, from the start block on.                                  *)
Due == {n \in Blocks : StartBlk <= n /\ n < height}
OnlyDueBlocks ==
    /\ stored \cup orphans \cup InFlight \subseteq Due
    /\ next >= StartBlk

(* A goroutine that is about to use its block has one. *)
HoldersHold ==
    /\ bridgePc = "write" => bridgeBlk \in Blocks
    /\ \A p \in Processors : procPc[p] \in {"parse", "write"} => procBlk[p] \in Blocks
    /\ \A w \in Writers : writerPc[w] \in {"build", "tx"} => writerBlk[w] \in Blocks

(* A process that has not launched its pipeline holds and runs nothing. *)
DownIsEmpty ==
    /\ phase = "down" => cancelled
    /\ phase # "running" =>
          /\ toQueue = "done" /\ bridgePc = "done"
          /\ \A p \in Processors : procPc[p] = "done"
          /\ \A w \in Writers : writerPc[w] = "done"
          /\ deliverBlockCh = <<>> /\ inputBlockCh = <<>> /\ processedBlockCh = <<>>

(***************************************************************************)
(* While the pipeline's context is live, no block below the stream's       *)
(* position is lost: it is in the database or some goroutine or channel    *)
(* still holds it.  This is what lets every write result be ignored        *)
(* (streamer.go out.Write, processor.go out.Write): a dropped block        *)
(* implies a cancelled context, hence a restart and a gap scan.            *)
(***************************************************************************)
NoBlockSkipped ==
    ~cancelled =>
        \A n \in StartBlk..(next - 1) : n \in stored \cup InFlight

(* The inductive invariant: each conjunct leans on the others. *)
IInv == TypeOK /\ HoldersHold /\ DownIsEmpty /\ OnlyDueBlocks /\ NoBlockSkipped

(* What a scan may decide. *)
AScanSkipsNothing ==
    (phase = "down" /\ phase' = "scanned") =>
        /\ \A n \in StartBlk..(next' - 1) : n \in stored
        /\ next' \in stored => faults' > faults

(***************************************************************************)
(* A start never resumes above a block that is missing                     *)
(* (service.go resumeBlockNum: "no block is ever skipped after a restart"),*)
(* and only a failed scan makes it fetch again a block it already had.     *)
(***************************************************************************)
ResumesAtFirstGap == [][AScanSkipsNothing]_vars

(* The database as its readers see it: a set of blocks that only grows, by *)
(* one whole block of the chain at a time (db_writer.go: one transaction   *)
(* per block), across every crash, restart and failed commit.              *)
Ledger == INSTANCE IngestLedger
LedgerSafety == Ledger!Spec

(* With finitely many faults, none of them a permanent stream error, every *)
(* block of the chain from the start block on is eventually stored, gaps   *)
(* that a failure left between stored blocks included.                     *)
LedgerLiveness == Ledger!FairSpec

(* Once the pipeline's context is done every goroutine returns, whatever it *)
(* was blocked on, and the process exits (pool.go Start, service.go Run).   *)
CancelLeadsToExit == (phase = "running" /\ cancelled) ~> (phase = "down")

(* streamer.go:43 and pool.go:92: the receiver returns when a permanent    *)
(* error occurs.                                                           *)
DeliverReturnsOnPermanentError == (toQueue = "failed") ~> DeliverReturned
=============================================================================
