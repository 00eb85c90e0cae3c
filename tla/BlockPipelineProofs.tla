------------------------ MODULE BlockPipelineProofs ------------------------
(***************************************************************************)
(* Theorems about BlockPipeline for every chain length, every number of    *)
(* processors and writers, every channel capacity and any finite number of *)
(* faults of every kind.                                                   *)
(***************************************************************************)
EXTENDS BlockPipeline, GapScanProofs

-----------------------------------------------------------------------------
(* The channels and the goroutines as containers of blocks. *)

(* A send adds its block to what the channel holds. *)
LEMMA RangeOfSend ==
    ASSUME NEW S, NEW s \in Seq(S), NEW e \in S
    PROVE  /\ Append(s, e) \in Seq(S)
           /\ Len(Append(s, e)) = Len(s) + 1
           /\ Range(Append(s, e)) = Range(s) \cup {e}
<1> DEFINE t == Append(s, e)
<1>1. t \in Seq(S) /\ Len(t) = Len(s) + 1
  OBVIOUS
<1>2. \A i \in 1..Len(s) : i \in 1..Len(t) /\ t[i] = s[i]
  OBVIOUS
<1>3. (Len(s) + 1) \in 1..Len(t) /\ t[Len(s) + 1] = e
  OBVIOUS
<1>4. \A i \in 1..Len(t) : i \in 1..Len(s) \/ i = Len(s) + 1
  BY <1>1
<1>5. DOMAIN s = 1..Len(s) /\ DOMAIN t = 1..Len(t)
  BY <1>1
<1> HIDE DEF t
<1>6. Range(t) \subseteq Range(s) \cup {e}
  BY <1>2, <1>3, <1>4, <1>5 DEF Range
<1>7. Range(s) \cup {e} \subseteq Range(t)
  BY <1>2, <1>3, <1>5 DEF Range
<1> QED BY <1>1, <1>6, <1>7 DEF t

(* A receive takes one block out of the channel. *)
LEMMA RangeOfReceive ==
    ASSUME NEW S, NEW s \in Seq(S), s # <<>>
    PROVE  /\ Head(s) \in S
           /\ Tail(s) \in Seq(S)
           /\ Len(Tail(s)) = Len(s) - 1
           /\ Range(s) = {Head(s)} \cup Range(Tail(s))
<1>1. Head(s) \in S /\ Tail(s) \in Seq(S) /\ Len(Tail(s)) = Len(s) - 1
  OBVIOUS
<1>2. \A i \in 1..Len(s) : i = 1 \/ (i - 1 \in 1..Len(Tail(s)) /\ Tail(s)[i - 1] = s[i])
  OBVIOUS
<1>3. \A i \in 1..Len(Tail(s)) : i + 1 \in 1..Len(s) /\ Tail(s)[i] = s[i + 1]
  OBVIOUS
<1>4. 1 \in 1..Len(s) /\ Head(s) = s[1]
  OBVIOUS
<1>5. DOMAIN s = 1..Len(s) /\ DOMAIN Tail(s) = 1..Len(Tail(s))
  BY <1>1
<1>6. ASSUME NEW x \in Range(s) PROVE x \in {Head(s)} \cup Range(Tail(s))
  BY <1>2, <1>4, <1>5, ZenonT(60) DEF Range
<1>7. ASSUME NEW x \in {Head(s)} \cup Range(Tail(s)) PROVE x \in Range(s)
  BY <1>3, <1>4, <1>5 DEF Range
<1> QED BY <1>1, <1>6, <1>7

LEMMA RangeOfEmpty == Range(<<>>) = {}
BY DEF Range

-----------------------------------------------------------------------------
(* The lifecycle of a session *)

USE StartBlkAssumption, MaxHeightAssumption, BufferAssumption, FaultsAssumption

(* Nothing is in flight in a process that has not launched its pipeline. *)
LEMMA DownHoldsNothing ==
    ASSUME TypeOK, DownIsEmpty, phase # "running"
    PROVE  InFlight = {}
<1>1. InBridge = {} /\ InProcs = {} /\ InWriters = {}
  BY DEF DownIsEmpty, TypeOK, InBridge, InProcs, InWriters, Held
<1> QED BY <1>1, RangeOfEmpty DEF DownIsEmpty, InFlight

LEMMA EmptyChannel ==
    ASSUME NEW c, c = <<>>
    PROVE  c \in Seq(Blocks) /\ Len(c) = 0
OBVIOUS

LEMMA InitIInv == Init => IInv
<1> SUFFICES ASSUME Init PROVE IInv
  OBVIOUS
<1>1. TypeOK
  <2>1. /\ deliverBlockCh \in Seq(Blocks) /\ Len(deliverBlockCh) <= DeliverCap
        /\ inputBlockCh \in Seq(Blocks) /\ Len(inputBlockCh) <= RawCap
        /\ processedBlockCh \in Seq(Blocks) /\ Len(processedBlockCh) <= ProcCap
    <3>1. deliverBlockCh = <<>> /\ inputBlockCh = <<>> /\ processedBlockCh = <<>>
      BY DEF Init
    <3> QED BY <3>1, EmptyChannel DEF DeliverCap
  <2>2. /\ procPc \in [Processors -> {"read", "parse", "write", "done"}]
        /\ procBlk \in [Processors -> Blocks \cup {NoBlock}]
        /\ writerPc \in [Writers -> {"acquire", "read", "build", "tx", "done"}]
        /\ writerBlk \in [Writers -> Blocks \cup {NoBlock}]
    BY DEF Init
  <2>3. height \in 0..MaxHeight /\ faults \in 0..MaxFaults /\ next \in Nat
    BY DEF Init
  <2>4. /\ stored \subseteq Blocks /\ orphans \subseteq Blocks
        /\ phase \in {"down", "scanned", "running"} /\ cancelled \in BOOLEAN
        /\ toQueue \in {"streaming", "failed", "done"}
        /\ bridgePc \in {"read", "write", "done"}
        /\ bridgeBlk \in Blocks \cup {NoBlock}
    BY Zenon DEF Init
  <2> QED BY <2>1, <2>2, <2>3, <2>4, Zenon DEF TypeOK
<1>2. HoldersHold /\ DownIsEmpty /\ NoBlockSkipped
  BY DEF Init, HoldersHold, DownIsEmpty, NoBlockSkipped
<1>3. OnlyDueBlocks
  BY <1>1, <1>2, DownHoldsNothing DEF Init, OnlyDueBlocks
<1> QED BY <1>1, <1>2, <1>3 DEF IInv

LEMMA FaultCounts ==
    ASSUME TypeOK, NEW kind, Fault(kind)
    PROVE  faults' \in 0..MaxFaults
BY DEF TypeOK, Fault

(* A process that stops leaves well-typed, empty state. *)
LEMMA StopTypes ==
    ASSUME TypeOK, StopProcess, height' = height,
           stored' \subseteq Blocks, orphans' \subseteq Blocks, faults' \in 0..MaxFaults
    PROVE  TypeOK'
<1>1. /\ (deliverBlockCh \in Seq(Blocks))' /\ (Len(deliverBlockCh) <= DeliverCap)'
      /\ (inputBlockCh \in Seq(Blocks))' /\ (Len(inputBlockCh) <= RawCap)'
      /\ (processedBlockCh \in Seq(Blocks))' /\ (Len(processedBlockCh) <= ProcCap)'
  <2>1. deliverBlockCh' = <<>> /\ inputBlockCh' = <<>> /\ processedBlockCh' = <<>>
    BY DEF StopProcess
  <2> QED BY <2>1, EmptyChannel DEF DeliverCap
<1>2. /\ (procPc \in [Processors -> {"read", "parse", "write", "done"}])'
      /\ (procBlk \in [Processors -> Blocks \cup {NoBlock}])'
      /\ (writerPc \in [Writers -> {"acquire", "read", "build", "tx", "done"}])'
      /\ (writerBlk \in [Writers -> Blocks \cup {NoBlock}])'
  BY DEF StopProcess
<1>3. /\ height' \in 0..MaxHeight /\ stored' \subseteq Blocks /\ orphans' \subseteq Blocks
      /\ faults' \in 0..MaxFaults /\ phase' \in {"down", "scanned", "running"} /\ cancelled' \in BOOLEAN
      /\ toQueue' \in {"streaming", "failed", "done"} /\ next' \in Nat
      /\ bridgePc' \in {"read", "write", "done"}
      /\ bridgeBlk' \in Blocks \cup {NoBlock}
  BY DEF StopProcess, TypeOK
<1> QED BY <1>1, <1>2, <1>3 DEF TypeOK

-----------------------------------------------------------------------------
(* Every action keeps the types and the shape of the goroutines. *)

LEMMA TypeStep ==
    ASSUME IInv, [Next]_vars
    PROVE  TypeOK'
<1> USE DEF TypeOK, dbVars, sessionVars, streamVars, bridgeVars, procVars, writerVars
<1> TypeOK /\ HoldersHold
  BY DEF IInv
<1>0. Blocks \subseteq Nat
  BY DEF Blocks
<1>1. CASE UNCHANGED vars
  BY <1>1 DEF vars
<1>2. CASE Produce
  BY <1>2 DEF Produce
<1>3. CASE Process
  <2> USE DEF Fault
  <2>2. CASE Scan
    <3>1. ResumeBlockNum(stored, StartBlk) \in Nat
      BY <1>0, ResumeSkipsNothing
    <3> QED BY <2>2, <3>1 DEF Scan, ResumeAt
  <2>3. CASE ScanFails
    <3>1. faults' \in 0..MaxFaults
      BY <2>3, FaultCounts DEF ScanFails
    <3>2. next' \in Nat
      BY <2>3 DEF ScanFails, ResumeAt, ResumeOnError
    <3> HIDE DEF Fault
    <3> QED BY <2>3, <3>1, <3>2 DEF ScanFails, ResumeAt
  <2>7. CASE ListenFails
    <3>1. faults' \in 0..MaxFaults
      BY <2>7, FaultCounts DEF ListenFails
    <3> QED BY <2>7, <3>1, StopTypes DEF ListenFails
  <2>8. CASE Launch
    BY <2>8 DEF Launch
  <2>4. CASE Exit
    BY <2>4, StopTypes DEF Exit
  <2>5. CASE Crash
    <3>1. Held(writerPc, writerBlk, {"tx"}) \subseteq Blocks
      BY DEF Held, HoldersHold
    <3>2. orphans' \subseteq Blocks
      BY <2>5, <3>1 DEF Crash
    <3>3. faults' \in 0..MaxFaults /\ height' = height /\ stored' = stored /\ StopProcess
      BY <2>5 DEF Crash
    <3> QED BY <3>2, <3>3, StopTypes
  <2>6. CASE RestFails
    BY <2>6 DEF RestFails
  <2> QED BY <1>3, <2>2, <2>3, <2>4, <2>5, <2>6, <2>7, <2>8 DEF Process
<1>4. CASE Stream
  <2>1. CASE ToQueueDelivers
    <3>1. next \in Blocks
      BY <2>1 DEF ToQueueDelivers, Blocks
    <3>2. deliverBlockCh' \in Seq(Blocks) /\ Len(deliverBlockCh') = Len(deliverBlockCh) + 1
      BY <2>1, <3>1, RangeOfSend DEF ToQueueDelivers
    <3>3. Len(deliverBlockCh') <= DeliverCap /\ next' \in Nat
      BY <2>1, <3>2 DEF ToQueueDelivers, DeliverCap
    <3> QED BY <2>1, <3>2, <3>3 DEF ToQueueDelivers
  <2>2. CASE ToQueueFails
    BY <2>2 DEF ToQueueFails, Fault
  <2>3. CASE ToQueueStops
    BY <2>3 DEF ToQueueStops
  <2> QED BY <1>4, <2>1, <2>2, <2>3 DEF Stream
<1>5. CASE Bridge
  <2>1. CASE BridgeReads
    BY <2>1, RangeOfReceive DEF BridgeReads, DeliverCap
  <2>2. CASE BridgeWrites
    <3>1. inputBlockCh' \in Seq(Blocks) /\ Len(inputBlockCh') = Len(inputBlockCh) + 1
      BY <2>2, RangeOfSend DEF BridgeWrites, HoldersHold
    <3> QED BY <2>2, <3>1 DEF BridgeWrites
  <2>3. CASE BridgeDrops \/ BridgeStops
    BY <2>3 DEF BridgeDrops, BridgeStops
  <2> QED BY <1>5, <2>1, <2>2, <2>3 DEF Bridge
<1>6. ASSUME NEW p \in Processors, Processor(p) PROVE TypeOK'
  <2> USE DEF LoopHead
  <2>1. CASE ProcReads(p)
    <3>1. /\ Head(inputBlockCh) \in Blocks
          /\ Tail(inputBlockCh) \in Seq(Blocks)
          /\ Len(Tail(inputBlockCh)) = Len(inputBlockCh) - 1
      BY <2>1, RangeOfReceive DEF ProcReads
    <3> QED BY <2>1, <3>1 DEF ProcReads
  <2>2. CASE ProcWrites(p)
    <3>1. procBlk[p] \in Blocks
      BY <2>2 DEF ProcWrites, HoldersHold
    <3>2. /\ processedBlockCh' \in Seq(Blocks)
          /\ Len(processedBlockCh') = Len(processedBlockCh) + 1
      BY <2>2, <3>1, RangeOfSend DEF ProcWrites
    <3> QED BY <2>2, <3>2 DEF ProcWrites
  <2>3. CASE ProcParses(p) \/ ProcFails(p) \/ ProcDrops(p) \/ ProcStops(p)
    BY <2>3 DEF ProcParses, ProcFails, ProcDrops, ProcStops
  <2> QED BY <1>6, <2>1, <2>2, <2>3 DEF Processor
<1>7. ASSUME NEW w \in Writers, Writer(w) PROVE TypeOK'
  <2> USE DEF LoopHead, WriterReturnsError, Fault
  <2>1. CASE WriterReads(w)
    <3>1. /\ Head(processedBlockCh) \in Blocks
          /\ Tail(processedBlockCh) \in Seq(Blocks)
          /\ Len(Tail(processedBlockCh)) = Len(processedBlockCh) - 1
      BY <2>1, RangeOfReceive DEF WriterReads
    <3> QED BY <2>1, <3>1 DEF WriterReads
  <2>2. CASE WriterCommits(w)
    <3>1. writerBlk[w] \in Blocks
      BY <2>2 DEF WriterCommits, HoldersHold
    <3> QED BY <2>2, <3>1 DEF WriterCommits
  <2>3. CASE WriterFails(w) \/ WriterInterrupted(w)
    <3>1. orphans' \subseteq Blocks
      BY <2>3 DEF WriterFails, WriterInterrupted, HoldersHold
    <3>2. faults' \in 0..MaxFaults
      BY <2>3, FaultCounts DEF WriterFails, WriterInterrupted
    <3>3. WriterReturnsError(w)
      BY <2>3 DEF WriterFails, WriterInterrupted
    <3> HIDE DEF Fault
    <3> QED BY <3>1, <3>2, <3>3
  <2>4. CASE WriterAcquires(w) \/ WriterBuilds(w) \/ WriterRejects(w) \/ WriterStops(w)
    BY <2>4 DEF WriterAcquires, WriterBuilds, WriterRejects, WriterStops
  <2> QED BY <1>7, <2>1, <2>2, <2>3, <2>4 DEF Writer
<1>8. ASSUME NEW n \in Blocks, Orphan(n) PROVE TypeOK'
  <2>1. CASE OrphanCommits(n)
    <3>1. stored' \subseteq Blocks /\ orphans' \subseteq Blocks
      BY <2>1 DEF OrphanCommits
    <3> QED BY <2>1, <3>1 DEF OrphanCommits
  <2>2. CASE OrphanAborts(n)
    <3>1. stored' \subseteq Blocks /\ orphans' \subseteq Blocks
      BY <2>2 DEF OrphanAborts
    <3> QED BY <2>2, <3>1 DEF OrphanAborts
  <2> QED BY <1>8, <2>1, <2>2 DEF Orphan
<1> QED BY <1>1, <1>2, <1>3, <1>4, <1>5, <1>6, <1>7, <1>8 DEF Next

(* A goroutine that is about to use its block has one, after every action. *)
LEMMA HoldersStep ==
    ASSUME IInv, [Next]_vars
    PROVE  HoldersHold'
<1> USE DEF HoldersHold, dbVars, sessionVars, streamVars, bridgeVars, procVars, writerVars
<1> TypeOK /\ HoldersHold
  BY DEF IInv
<1>1. CASE UNCHANGED vars
  BY <1>1 DEF vars
<1>2. CASE Produce
  BY <1>2 DEF Produce
<1>3. CASE Process
  BY <1>3 DEF Process, Scan, ScanFails, ResumeAt, ListenFails, Launch,
             Exit, Crash, StopProcess, RestFails
<1>4. CASE Stream
  BY <1>4 DEF Stream, ToQueueDelivers, ToQueueFails, ToQueueStops
<1>5. CASE Bridge
  <2>1. CASE BridgeReads
    <3>1. Head(deliverBlockCh) \in Blocks
      BY <2>1, RangeOfReceive DEF BridgeReads, TypeOK
    <3> QED BY <2>1, <3>1 DEF BridgeReads
  <2>2. CASE BridgeWrites \/ BridgeDrops \/ BridgeStops
    BY <2>2 DEF BridgeWrites, BridgeDrops, BridgeStops
  <2> QED BY <1>5, <2>1, <2>2 DEF Bridge
<1>6. ASSUME NEW p \in Processors, Processor(p) PROVE HoldersHold'
  <2> USE DEF TypeOK, LoopHead
  <2>1. CASE ProcReads(p)
    <3>1. Head(inputBlockCh) \in Blocks
      BY <2>1, RangeOfReceive DEF ProcReads
    <3> QED BY <2>1, <3>1 DEF ProcReads
  <2>2. CASE ProcParses(p) \/ ProcFails(p) \/ ProcWrites(p) \/ ProcDrops(p) \/ ProcStops(p)
    BY <2>2 DEF ProcParses, ProcFails, ProcWrites, ProcDrops, ProcStops
  <2> QED BY <1>6, <2>1, <2>2 DEF Processor
<1>7. ASSUME NEW w \in Writers, Writer(w) PROVE HoldersHold'
  <2> USE DEF TypeOK, LoopHead, WriterReturnsError
  <2>1. CASE WriterReads(w)
    <3>1. Head(processedBlockCh) \in Blocks
      BY <2>1, RangeOfReceive DEF WriterReads
    <3> QED BY <2>1, <3>1 DEF WriterReads
  <2>2. CASE WriterAcquires(w) \/ WriterBuilds(w) \/ WriterCommits(w) \/ WriterStops(w)
    BY <2>2 DEF WriterAcquires, WriterBuilds, WriterCommits, WriterStops
  <2>3. CASE WriterRejects(w) \/ WriterFails(w) \/ WriterInterrupted(w)
    <3>1. WriterReturnsError(w)
      BY <2>3 DEF WriterRejects, WriterFails, WriterInterrupted
    <3> QED BY <3>1
  <2> QED BY <1>7, <2>1, <2>2, <2>3 DEF Writer
<1>8. ASSUME NEW n \in Blocks, Orphan(n) PROVE HoldersHold'
  BY <1>8 DEF Orphan, OrphanCommits, OrphanAborts
<1> QED BY <1>1, <1>2, <1>3, <1>4, <1>5, <1>6, <1>7, <1>8 DEF Next

(* A process stays empty until it launches its pipeline. *)
LEMMA DownStep ==
    ASSUME IInv, [Next]_vars
    PROVE  DownIsEmpty'
<1> USE DEF DownIsEmpty, dbVars, sessionVars, streamVars, bridgeVars, procVars, writerVars
<1> TypeOK /\ HoldersHold /\ DownIsEmpty
  BY DEF IInv
<1>1. CASE UNCHANGED vars
  BY <1>1 DEF vars
<1>2. CASE Produce
  BY <1>2 DEF Produce
<1>3. CASE Process
  BY <1>3 DEF Process, Scan, ScanFails, ResumeAt, ListenFails, Launch,
             Exit, Crash, StopProcess, RestFails
<1>4. CASE Stream
  BY <1>4 DEF Stream, ToQueueDelivers, ToQueueFails, ToQueueStops
<1>5. CASE Bridge
  BY <1>5 DEF Bridge, BridgeReads, BridgeWrites, BridgeDrops, BridgeStops
<1>6. ASSUME NEW p \in Processors, Processor(p) PROVE DownIsEmpty'
  <2>1. phase = "running" /\ phase' = phase
    BY <1>6 DEF Processor, ProcReads, ProcParses, ProcFails, ProcWrites, ProcDrops, ProcStops
  <2> QED BY <2>1
<1>7. ASSUME NEW w \in Writers, Writer(w) PROVE DownIsEmpty'
  <2>1. phase = "running" /\ phase' = phase
    BY <1>7 DEF Writer, WriterAcquires, WriterReads, WriterBuilds, WriterRejects,
                WriterCommits, WriterFails, WriterInterrupted, WriterStops, WriterReturnsError
  <2> QED BY <2>1
<1>8. ASSUME NEW n \in Blocks, Orphan(n) PROVE DownIsEmpty'
  BY <1>8 DEF Orphan, OrphanCommits, OrphanAborts
<1> QED BY <1>1, <1>2, <1>3, <1>4, <1>5, <1>6, <1>7, <1>8 DEF Next

-----------------------------------------------------------------------------
(* The flow of blocks.  No action but a scan and ToQueueDelivers moves the *)
(* position of the stream or brings a block into the process, and one that *)
(* loses a block leaves the context cancelled.                             *)

Known == stored \cup orphans \cup InFlight

Conserves ==
    /\ height' >= height
    /\ next' >= StartBlk
    /\ stored' \cup orphans' \cup InFlight' \subseteq Known
    /\ ~cancelled' =>
          /\ ~cancelled
          /\ next' = next
          /\ stored \cup InFlight \subseteq stored' \cup InFlight'

LEMMA ConservingStep ==
    ASSUME IInv, TypeOK', Conserves
    PROVE  OnlyDueBlocks' /\ NoBlockSkipped'
<1>1. Known \subseteq Due
  BY DEF IInv, OnlyDueBlocks, Known
<1>2. Due \subseteq Due'
  BY SMTT(30) DEF IInv, TypeOK, Due, Conserves, Blocks
<1>3. OnlyDueBlocks'
  BY <1>1, <1>2 DEF Conserves, OnlyDueBlocks
<1>4. NoBlockSkipped'
  BY DEF IInv, NoBlockSkipped, Conserves
<1> QED BY <1>3, <1>4

(* The bridge moves blocks from deliverBlockCh to inputBlockCh. *)
LEMMA BridgeConserves ==
    ASSUME IInv, Bridge
    PROVE  Conserves
<1> USE DEF dbVars, sessionVars, streamVars, bridgeVars, procVars, writerVars
<1>0. TypeOK /\ HoldersHold /\ DownIsEmpty /\ OnlyDueBlocks
  BY DEF IInv
<1>1. /\ height' = height /\ stored' = stored /\ orphans' = orphans /\ phase' = phase
      /\ cancelled' = cancelled /\ next' = next
      /\ Range(processedBlockCh)' = Range(processedBlockCh)
      /\ InProcs' = InProcs /\ InWriters' = InWriters
  BY DEF Bridge, BridgeReads, BridgeWrites, BridgeDrops, BridgeStops, InProcs, InWriters
<1>2. height' >= height /\ next' >= StartBlk
  BY <1>0, <1>1 DEF TypeOK, OnlyDueBlocks, DownIsEmpty, Bridge, BridgeReads, BridgeWrites,
                    BridgeDrops, BridgeStops
<1> DEFINE F == Range(deliverBlockCh) \cup InBridge \cup Range(inputBlockCh)
<1>3. CASE BridgeReads
  <2>1. Range(deliverBlockCh) = {bridgeBlk'} \cup Range(deliverBlockCh')
    BY <1>0, <1>3, RangeOfReceive DEF BridgeReads, TypeOK
  <2>2. InBridge = {} /\ InBridge' = {bridgeBlk'} /\ inputBlockCh' = inputBlockCh
    BY <1>3 DEF BridgeReads, InBridge
  <2>3. F' = F
    BY <2>1, <2>2
  <2> QED BY <1>1, <1>2, <2>3 DEF Conserves, Known, InFlight
<1>4. CASE BridgeWrites
  <2>1. Range(inputBlockCh') = Range(inputBlockCh) \cup {bridgeBlk}
    BY <1>0, <1>4, RangeOfSend DEF BridgeWrites, TypeOK, HoldersHold
  <2>2. InBridge' = {} /\ InBridge = {bridgeBlk} /\ deliverBlockCh' = deliverBlockCh
    BY <1>4 DEF BridgeWrites, InBridge
  <2>3. F' = F
    BY <2>1, <2>2
  <2> QED BY <1>1, <1>2, <2>3 DEF Conserves, Known, InFlight
<1>5. CASE BridgeDrops \/ BridgeStops
  <2>1. InBridge' = {} /\ deliverBlockCh' = deliverBlockCh /\ inputBlockCh' = inputBlockCh
    BY <1>5 DEF BridgeDrops, BridgeStops, InBridge
  <2>2. F' \subseteq F /\ cancelled'
    BY <1>5, <2>1 DEF BridgeDrops, BridgeStops
  <2> QED BY <1>1, <1>2, <2>2 DEF Conserves, Known, InFlight
<1> QED BY <1>3, <1>4, <1>5 DEF Bridge

(* A processor moves blocks from inputBlockCh to processedBlockCh. *)
LEMMA ProcessorConserves ==
    ASSUME IInv, NEW p \in Processors, Processor(p)
    PROVE  Conserves
<1> USE DEF dbVars, sessionVars, streamVars, bridgeVars, procVars, writerVars
<1>0. TypeOK /\ HoldersHold /\ DownIsEmpty /\ OnlyDueBlocks
  BY DEF IInv
<1>d. DOMAIN procPc = Processors /\ DOMAIN procBlk = Processors
  BY <1>0 DEF TypeOK
<1> USE DEF Processor, ProcReads, ProcParses, ProcFails, ProcWrites, ProcDrops, ProcStops
<1>1. /\ height' = height /\ stored' = stored /\ orphans' = orphans /\ phase' = phase
      /\ next' = next /\ Range(deliverBlockCh)' = Range(deliverBlockCh)
      /\ InBridge' = InBridge /\ InWriters' = InWriters
      /\ ~cancelled' => ~cancelled
  BY DEF InBridge, InWriters
<1>2. height' >= height /\ next' >= StartBlk
  BY <1>0, <1>1 DEF TypeOK, OnlyDueBlocks, DownIsEmpty
<1> DEFINE F == Range(inputBlockCh) \cup InProcs \cup Range(processedBlockCh)
<1>7. /\ DOMAIN procPc' = Processors
      /\ \A q \in Processors : q # p => procPc'[q] = procPc[q] /\ procBlk'[q] = procBlk[q]
  BY <1>0 DEF TypeOK
<1> DEFINE H == {"parse", "write"}
<1>8. /\ InProcs' \subseteq InProcs \cup {procBlk'[p]}
      /\ InProcs \subseteq InProcs' \cup {procBlk[p]}
      /\ procPc'[p] \in H => procBlk'[p] \in InProcs'
      /\ procPc'[p] \notin H => InProcs' \subseteq InProcs
      /\ procPc[p] \notin H => InProcs \subseteq InProcs'
      /\ procPc[p] \in H => procBlk[p] \in InProcs
      /\ (procBlk'[p] = procBlk[p] /\ (procPc'[p] \in H <=> procPc[p] \in H))
            => InProcs' = InProcs
  <2> HIDE DEF Processor
  <2> QED BY <1>d, <1>7 DEF InProcs, Held
<1>3. CASE ProcReads(p)
  <2>1. Range(inputBlockCh) = {procBlk'[p]} \cup Range(inputBlockCh')
    BY <1>0, <1>3, RangeOfReceive DEF TypeOK
  <2>2. InProcs' = InProcs \cup {procBlk'[p]}
    <3>1. procPc[p] \notin H /\ procPc'[p] \in H
      BY <1>0, <1>3 DEF TypeOK
    <3> QED BY <3>1, <1>8
  <2>3. F' = F
    BY <1>3, <2>1, <2>2
  <2> QED BY <1>1, <1>2, <2>3 DEF Conserves, Known, InFlight
<1>4. CASE ProcParses(p)
  <2>1. InProcs' = InProcs
    <3>1. procPc[p] \in H /\ procPc'[p] \in H /\ procBlk' = procBlk
      BY <1>0, <1>4 DEF TypeOK
    <3> QED BY <3>1, <1>8
  <2> QED BY <1>1, <1>2, <1>4, <2>1 DEF Conserves, Known, InFlight
<1>5. CASE ProcFails(p) \/ ProcDrops(p) \/ ProcStops(p)
  <2>1. procPc'[p] \notin H
    BY <1>0, <1>5 DEF TypeOK, LoopHead
  <2>2. F' \subseteq F /\ cancelled'
    BY <1>5, <2>1, <1>8
  <2> QED BY <1>1, <1>2, <2>2 DEF Conserves, Known, InFlight
<1>6. CASE ProcWrites(p)
  <2>1. Range(processedBlockCh') = Range(processedBlockCh) \cup {procBlk[p]}
    BY <1>0, <1>6, RangeOfSend DEF TypeOK, HoldersHold
  <2>2. procPc[p] \in H /\ procPc'[p] \notin H
    BY <1>0, <1>6 DEF TypeOK, LoopHead
  <2>3. InProcs = InProcs' \cup {procBlk[p]}
    BY <2>2, <1>8
  <2>4. F' = F
    BY <1>6, <2>1, <2>3
  <2> QED BY <1>1, <1>2, <2>4 DEF Conserves, Known, InFlight
<1> QED BY <1>3, <1>4, <1>5, <1>6

(* A writer moves blocks from processedBlockCh to the table, or to the     *)
(* transactions the server still has to decide.                            *)
LEMMA WriterConserves ==
    ASSUME IInv, NEW w \in Writers, Writer(w)
    PROVE  Conserves
<1> USE DEF dbVars, sessionVars, streamVars, bridgeVars, procVars, writerVars
<1>0. TypeOK /\ HoldersHold /\ DownIsEmpty /\ OnlyDueBlocks
  BY DEF IInv
<1>d. DOMAIN writerPc = Writers /\ DOMAIN writerBlk = Writers
  BY <1>0 DEF TypeOK
<1> USE DEF Writer, WriterAcquires, WriterReads, WriterBuilds, WriterRejects, WriterCommits,
            WriterFails, WriterInterrupted, WriterStops, WriterReturnsError
<1>1. /\ height' = height /\ phase' = phase /\ next' = next
      /\ Range(deliverBlockCh)' = Range(deliverBlockCh)
      /\ Range(inputBlockCh)' = Range(inputBlockCh)
      /\ InBridge' = InBridge /\ InProcs' = InProcs
      /\ ~cancelled' => ~cancelled
  BY DEF InBridge, InProcs
<1>2. height' >= height /\ next' >= StartBlk
  BY <1>0, <1>1 DEF TypeOK, OnlyDueBlocks, DownIsEmpty
<1>7. /\ DOMAIN writerPc' = Writers
      /\ \A v \in Writers : v # w => writerPc'[v] = writerPc[v] /\ writerBlk'[v] = writerBlk[v]
  BY <1>0 DEF TypeOK
<1> DEFINE H == {"build", "tx"}
<1>8. /\ InWriters' \subseteq InWriters \cup {writerBlk'[w]}
      /\ InWriters \subseteq InWriters' \cup {writerBlk[w]}
      /\ writerPc'[w] \in H => writerBlk'[w] \in InWriters'
      /\ writerPc'[w] \notin H => InWriters' \subseteq InWriters
      /\ writerPc[w] \notin H => InWriters \subseteq InWriters'
      /\ writerPc[w] \in H => writerBlk[w] \in InWriters
      /\ (writerBlk'[w] = writerBlk[w] /\ (writerPc'[w] \in H <=> writerPc[w] \in H))
            => InWriters' = InWriters
  <2> HIDE DEF Writer
  <2> QED BY <1>d, <1>7 DEF InWriters, Held
<1>3. CASE WriterReads(w)
  <2>1. Range(processedBlockCh) = {writerBlk'[w]} \cup Range(processedBlockCh')
    BY <1>0, <1>3, RangeOfReceive DEF TypeOK
  <2>2. InWriters' = InWriters \cup {writerBlk'[w]}
    <3>1. writerPc[w] \notin H /\ writerPc'[w] \in H
      BY <1>0, <1>3 DEF TypeOK
    <3> QED BY <3>1, <1>8
  <2>3. InWriters' \cup Range(processedBlockCh') = InWriters \cup Range(processedBlockCh)
    BY <2>1, <2>2
  <2> QED BY <1>1, <1>2, <1>3, <2>3 DEF Conserves, Known, InFlight
<1>4. CASE WriterAcquires(w) \/ WriterBuilds(w) \/ WriterStops(w)
  <2>1. InWriters' = InWriters
    <3>1. writerPc'[w] \in H <=> writerPc[w] \in H
      BY <1>0, <1>4 DEF TypeOK
    <3>2. writerBlk' = writerBlk
      BY <1>4
    <3> QED BY <3>1, <3>2, <1>8
  <2> QED BY <1>1, <1>2, <1>4, <2>1 DEF Conserves, Known, InFlight
<1>5. CASE WriterRejects(w) \/ WriterFails(w) \/ WriterInterrupted(w)
  <2>1. InWriters' \subseteq InWriters
    <3>1. writerPc'[w] \notin H
      BY <1>0, <1>5 DEF TypeOK
    <3> QED BY <3>1, <1>8
  <2>2. orphans' \subseteq orphans \cup InWriters
    <3>1. writerPc[w] = "tx" => writerBlk[w] \in InWriters
      BY <1>8
    <3> QED BY <3>1, <1>5
  <2>3. cancelled' /\ stored' = stored /\ processedBlockCh' = processedBlockCh
    BY <1>5
  <2> QED BY <1>1, <1>2, <2>1, <2>2, <2>3 DEF Conserves, Known, InFlight
<1>6. CASE WriterCommits(w)
  <2>1. writerPc[w] \in H /\ writerPc'[w] \notin H
    BY <1>0, <1>6 DEF TypeOK, LoopHead
  <2>2. InWriters = InWriters' \cup {writerBlk[w]}
    BY <2>1, <1>8
  <2>3. stored' \cup InWriters' = stored \cup InWriters
    BY <1>6, <2>2
  <2> QED BY <1>1, <1>2, <1>6, <2>3 DEF Conserves, Known, InFlight
<1> QED BY <1>3, <1>4, <1>5, <1>6

(* What the server decides about an orphaned transaction. *)
LEMMA OrphanConserves ==
    ASSUME IInv, NEW n \in Blocks, Orphan(n)
    PROVE  Conserves
<1> USE DEF dbVars, sessionVars, streamVars, bridgeVars, procVars, writerVars
<1>1. /\ UNCHANGED <<height, next, cancelled>>
      /\ InFlight' = InFlight
      /\ stored \subseteq stored'
      /\ stored' \cup orphans' \subseteq stored \cup orphans
  BY DEF Orphan, OrphanCommits, OrphanAborts, InFlight, InBridge, InProcs, InWriters
<1>2. height' >= height /\ next' >= StartBlk
  BY <1>1 DEF IInv, TypeOK, OnlyDueBlocks
<1> QED BY <1>1, <1>2 DEF Conserves, Known

(* Launch, and the actions of the stream that do not deliver. *)
LEMMA StreamConserves ==
    ASSUME IInv, ToQueueFails \/ ToQueueStops \/ Produce \/ Launch \/ UNCHANGED vars
    PROVE  Conserves
<1> USE DEF dbVars, sessionVars, streamVars, bridgeVars, procVars, writerVars
<1>1. /\ UNCHANGED <<stored, orphans, next, cancelled>>
      /\ height' = height \/ height' = height + 1
  BY DEF ToQueueFails, ToQueueStops, Produce, Launch, vars
<1>2. InFlight' = InFlight
  <2>1. CASE Launch
    <3>1. InFlight = {}
      BY <2>1, DownHoldsNothing DEF IInv, Launch
    <3>2. (InBridge = {} /\ InProcs = {} /\ InWriters = {})'
      BY <2>1 DEF Launch, InBridge, InProcs, InWriters, Held
    <3>3. (deliverBlockCh = <<>> /\ inputBlockCh = <<>> /\ processedBlockCh = <<>>)'
      BY <2>1 DEF Launch, IInv, DownIsEmpty
    <3> QED BY <3>1, <3>2, <3>3, RangeOfEmpty DEF InFlight
  <2>2. CASE ToQueueFails \/ ToQueueStops \/ Produce \/ UNCHANGED vars
    <3>1. UNCHANGED <<deliverBlockCh, bridgeVars, inputBlockCh, procVars,
                      processedBlockCh, writerVars>>
      BY <2>2 DEF ToQueueFails, ToQueueStops, Produce, vars
    <3> QED BY <3>1 DEF InFlight, InBridge, InProcs, InWriters
  <2> QED BY <2>1, <2>2
<1>3. height' >= height /\ next' >= StartBlk
  BY <1>1 DEF IInv, TypeOK, OnlyDueBlocks
<1> QED BY <1>1, <1>2, <1>3 DEF Conserves, Known

(* The end of a process, and the cancellation of its context. *)
LEMMA StopConserves ==
    ASSUME IInv, Exit \/ Crash \/ ListenFails \/ RestFails
    PROVE  Conserves
<1> USE DEF dbVars, sessionVars, streamVars, bridgeVars, procVars, writerVars
<1>0. TypeOK /\ OnlyDueBlocks
  BY DEF IInv
<1>1. CASE Exit \/ Crash \/ ListenFails
  <2>1. height' = height /\ stored' = stored /\ cancelled' /\ next' = StartBlk
    BY <1>1 DEF Exit, Crash, ListenFails, StopProcess
  <2>2. InFlight' = {}
    <3>1. (InBridge = {} /\ InProcs = {} /\ InWriters = {})'
      BY <1>1 DEF Exit, Crash, ListenFails, StopProcess, InBridge, InProcs, InWriters, Held
    <3>2. (deliverBlockCh = <<>> /\ inputBlockCh = <<>> /\ processedBlockCh = <<>>)'
      BY <1>1 DEF Exit, Crash, ListenFails, StopProcess
    <3> QED BY <3>1, <3>2, RangeOfEmpty DEF InFlight
  <2>3. orphans' \subseteq orphans \cup InWriters
    <3>1. Held(writerPc, writerBlk, {"tx"}) \subseteq InWriters
      BY DEF Held, InWriters
    <3> QED BY <3>1, <1>1 DEF Exit, Crash, ListenFails
  <2>4. height' >= height /\ next' >= StartBlk
    BY <2>1, <1>0 DEF TypeOK
  <2> QED BY <2>1, <2>2, <2>3, <2>4 DEF Conserves, Known, InFlight
<1>2. CASE RestFails
  <2>1. InFlight' = InFlight
    BY <1>2 DEF RestFails, InFlight, InBridge, InProcs, InWriters
  <2>2. height' >= height /\ next' >= StartBlk
    BY <1>0, <1>2 DEF RestFails, TypeOK, OnlyDueBlocks
  <2> QED BY <1>2, <2>1, <2>2 DEF RestFails, Conserves, Known
<1> QED BY <1>1, <1>2

-----------------------------------------------------------------------------
(* The two actions that set the position of the stream. *)

(* A start resumes where nothing below is missing. *)
LEMMA ScanStep ==
    ASSUME IInv, Scan \/ ScanFails
    PROVE  /\ OnlyDueBlocks' /\ NoBlockSkipped'
           /\ \A n \in StartBlk..(next' - 1) : n \in stored
<1> USE DEF dbVars, sessionVars, streamVars, bridgeVars, procVars, writerVars
<1>0. TypeOK /\ DownIsEmpty /\ OnlyDueBlocks /\ phase = "down"
  BY DEF IInv, Scan, ScanFails, ResumeAt
<1>1. UNCHANGED <<height, stored, orphans, deliverBlockCh, bridgeVars, inputBlockCh,
                  procVars, processedBlockCh, writerVars>>
  BY DEF Scan, ScanFails, ResumeAt
<1>2. InFlight' = {}
  <2>1. InFlight = {}
    BY <1>0, DownHoldsNothing
  <2> QED BY <2>1, <1>1 DEF InFlight, InBridge, InProcs, InWriters
<1>3. next' >= StartBlk /\ \A n \in StartBlk..(next' - 1) : n \in stored
  <2>1. stored \subseteq Nat
    BY <1>0 DEF TypeOK, Blocks
  <2>2. CASE Scan
    BY <2>1, <2>2, ResumeSkipsNothing DEF Scan, ResumeAt
  <2>3. CASE ScanFails
    BY <2>3 DEF ScanFails, ResumeAt, ResumeOnError
  <2> QED BY <2>2, <2>3
<1>4. OnlyDueBlocks'
  BY <1>0, <1>1, <1>2, <1>3 DEF OnlyDueBlocks, Due
<1>5. NoBlockSkipped'
  BY <1>1, <1>3 DEF NoBlockSkipped
<1> QED BY <1>3, <1>4, <1>5

(* ToQueue takes the next block of the chain into the process. *)
LEMMA DeliverStep ==
    ASSUME IInv, ToQueueDelivers
    PROVE  OnlyDueBlocks' /\ NoBlockSkipped'
<1> USE DEF dbVars, sessionVars, streamVars, bridgeVars, procVars, writerVars
<1>0. TypeOK /\ OnlyDueBlocks /\ NoBlockSkipped
  BY DEF IInv
<1>1. next \in Due /\ next \in Blocks /\ next \in Nat
  BY <1>0 DEF ToQueueDelivers, TypeOK, OnlyDueBlocks, Due, Blocks
<1>2. Range(deliverBlockCh') = Range(deliverBlockCh) \cup {next}
  BY <1>0, <1>1, RangeOfSend DEF ToQueueDelivers, TypeOK
<1>3. InFlight' = InFlight \cup {next}
  BY <1>2 DEF ToQueueDelivers, InFlight, InBridge, InProcs, InWriters
<1>4. UNCHANGED <<height, stored, orphans, cancelled>> /\ next' = next + 1
  BY DEF ToQueueDelivers
<1>5. OnlyDueBlocks'
  BY <1>0, <1>1, <1>3, <1>4 DEF OnlyDueBlocks, Due
<1>6. NoBlockSkipped'
  <2>1. \A n \in StartBlk..(next' - 1) : n \in StartBlk..(next - 1) \/ n = next
    BY <1>1, <1>4
  <2> QED BY <2>1, <1>0, <1>3, <1>4 DEF NoBlockSkipped
<1> QED BY <1>5, <1>6

-----------------------------------------------------------------------------
(* IInv is inductive. *)
LEMMA NextIInv == IInv /\ [Next]_vars => IInv'
<1> SUFFICES ASSUME IInv, [Next]_vars PROVE IInv'
  OBVIOUS
<1>1. TypeOK' /\ HoldersHold' /\ DownIsEmpty'
  BY TypeStep, HoldersStep, DownStep
<1>2. OnlyDueBlocks' /\ NoBlockSkipped'
  <2>1. CASE Scan \/ ScanFails
    BY <2>1, ScanStep
  <2>2. CASE ToQueueDelivers
    BY <2>2, DeliverStep
  <2>3. CASE ToQueueFails \/ ToQueueStops \/ Produce \/ Launch \/ UNCHANGED vars
    BY <2>3, <1>1, StreamConserves, ConservingStep
  <2>4. CASE Exit \/ Crash \/ ListenFails \/ RestFails
    BY <2>4, <1>1, StopConserves, ConservingStep
  <2>5. CASE Bridge
    BY <2>5, <1>1, BridgeConserves, ConservingStep
  <2>6. ASSUME NEW p \in Processors, Processor(p)
        PROVE  OnlyDueBlocks' /\ NoBlockSkipped'
    BY <2>6, <1>1, ProcessorConserves, ConservingStep
  <2>7. ASSUME NEW w \in Writers, Writer(w)
        PROVE  OnlyDueBlocks' /\ NoBlockSkipped'
    BY <2>7, <1>1, WriterConserves, ConservingStep
  <2>8. ASSUME NEW n \in Blocks, Orphan(n)
        PROVE  OnlyDueBlocks' /\ NoBlockSkipped'
    BY <2>8, <1>1, OrphanConserves, ConservingStep
  <2> QED
    BY <2>1, <2>2, <2>3, <2>4, <2>5, <2>6, <2>7, <2>8 DEF Next, Process, Stream
<1> QED BY <1>1, <1>2 DEF IInv

(* The inductive invariant holds in every reachable state. *)
THEOREM Invariance == Spec => []IInv
BY InitIInv, NextIInv, PTL DEF Spec

(* Types, and channels that never hold more than their capacity. *)
THEOREM TypeCorrect == Spec => []TypeOK
<1>1. IInv => TypeOK
  BY DEF IInv
<1> QED BY <1>1, Invariance, PTL

(* While the context is live no block of the stream is lost, whatever the  *)
(* number of processors and writers and the sizes of the channels.         *)
THEOREM PipelineLosesNothing == Spec => []NoBlockSkipped
<1>1. IInv => NoBlockSkipped
  BY DEF IInv
<1> QED BY <1>1, Invariance, PTL

-----------------------------------------------------------------------------
(* A start resumes at the first gap. *)
LEMMA ResumeStep ==
    ASSUME IInv, [Next]_vars, phase = "down", phase' = "scanned"
    PROVE  /\ \A n \in StartBlk..(next' - 1) : n \in stored
           /\ next' \in stored => faults' > faults
<1>1. TypeOK /\ DownIsEmpty
  BY DEF IInv
<1>2. Scan \/ ScanFails
  <2>1. CASE Process
    BY <2>1 DEF Process, ListenFails, Launch, Exit, Crash, StopProcess, RestFails, sessionVars
  <2>2. phase' = phase \/ Process
    BY DEF Next, Produce, Stream, ToQueueDelivers, ToQueueFails, ToQueueStops,
           Bridge, BridgeReads, BridgeWrites, BridgeDrops, BridgeStops,
           Processor, ProcReads, ProcParses, ProcFails, ProcWrites, ProcDrops, ProcStops,
           Writer, WriterAcquires, WriterReads, WriterBuilds, WriterRejects, WriterCommits,
           WriterFails, WriterInterrupted, WriterStops, WriterReturnsError,
           Orphan, OrphanCommits, OrphanAborts, vars, sessionVars
  <2> QED BY <2>1, <2>2
<1>3. \A n \in StartBlk..(next' - 1) : n \in stored
  BY <1>2, ScanStep
<1>4. next' \in stored => faults' > faults
  <2>1. CASE Scan
    <3>1. stored \subseteq Nat /\ MaxHeight \in Nat /\ \A x \in stored : x <= MaxHeight
      BY <1>1 DEF TypeOK, Blocks
    <3>2. ResumeBlockNum(stored, StartBlk) \notin stored
      BY <3>1, ResumeIsFirstAbsent DEF IsFirstAbsent
    <3> QED BY <2>1, <3>2 DEF Scan, ResumeAt
  <2>2. CASE ScanFails
    BY <2>2, <1>1 DEF ScanFails, Fault, TypeOK
  <2> QED BY <1>2, <2>1, <2>2
<1> QED BY <1>3, <1>4

(* After any history of failures, a restart skips no missing block, and it *)
(* fetches a block again only when its gap scan failed.                    *)
THEOREM RestartHealsGaps == Spec => ResumesAtFirstGap
<1>1. IInv /\ [Next]_vars => [AScanSkipsNothing]_vars
  BY ResumeStep DEF AScanSkipsNothing
<1> QED BY <1>1, Invariance, PTL DEF Spec, ResumesAtFirstGap

-----------------------------------------------------------------------------
(* Every step is a step of the ledger or leaves it alone. *)
LEMMA LedgerStep ==
    ASSUME IInv, [Next]_vars
    PROVE  [Ledger!Next]_<<height, stored>>
<1> USE DEF dbVars, sessionVars, streamVars, bridgeVars, procVars, writerVars
<1>1. TypeOK /\ HoldersHold /\ OnlyDueBlocks
  BY DEF IInv
<1>2. ASSUME NEW b \in Due, stored' = stored \cup {b}, height' = height
      PROVE  [Ledger!Next]_<<height, stored>>
  <2>1. CASE b \in stored
    BY <1>2, <2>1
  <2>2. CASE b \notin stored
    <3>1. Ledger!Store(b) /\ b \in 0..(MaxHeight - 1)
      BY <1>2, <2>2 DEF Ledger!Store, Ledger!Owed, Due, Blocks
    <3> QED BY <3>1 DEF Ledger!Next
  <2> QED BY <2>1, <2>2
<1>3. CASE Produce
  BY <1>3 DEF Produce, Ledger!Next, Ledger!Produce
<1>4. CASE Process \/ Stream \/ Bridge \/ UNCHANGED vars
  <2>1. height' = height /\ stored' = stored
    BY <1>4 DEF Process, Scan, ScanFails, ResumeAt, ListenFails, Launch, Exit, Crash, RestFails,
                Stream, ToQueueDelivers, ToQueueFails, ToQueueStops,
                Bridge, BridgeReads, BridgeWrites, BridgeDrops, BridgeStops, vars
  <2> QED BY <2>1
<1>5. ASSUME NEW p \in Processors, Processor(p) PROVE [Ledger!Next]_<<height, stored>>
  <2>1. height' = height /\ stored' = stored
    BY <1>5 DEF Processor, ProcReads, ProcParses, ProcFails, ProcWrites, ProcDrops, ProcStops
  <2> QED BY <2>1
<1>6. ASSUME NEW w \in Writers, Writer(w) PROVE [Ledger!Next]_<<height, stored>>
  <2>1. CASE WriterCommits(w)
    <3>1. writerBlk[w] \in InWriters
      BY <1>1, <2>1 DEF WriterCommits, InWriters, Held, TypeOK
    <3>2. writerBlk[w] \in Due
      BY <3>1, <1>1 DEF OnlyDueBlocks, InFlight
    <3> QED BY <2>1, <3>2, <1>2 DEF WriterCommits
  <2>2. CASE ~WriterCommits(w)
    <3>1. height' = height /\ stored' = stored
      BY <1>6, <2>2 DEF Writer, WriterAcquires, WriterReads, WriterBuilds, WriterRejects,
                       WriterFails, WriterInterrupted, WriterStops, WriterReturnsError
    <3> QED BY <3>1
  <2> QED BY <2>1, <2>2
<1>7. ASSUME NEW n \in Blocks, Orphan(n) PROVE [Ledger!Next]_<<height, stored>>
  <2>1. CASE OrphanCommits(n)
    <3>1. n \in Due
      BY <1>1, <2>1 DEF OrphanCommits, OnlyDueBlocks
    <3> QED BY <2>1, <3>1, <1>2 DEF OrphanCommits
  <2>2. CASE OrphanAborts(n)
    BY <2>2 DEF OrphanAborts
  <2> QED BY <1>7, <2>1, <2>2 DEF Orphan
<1> QED BY <1>3, <1>4, <1>5, <1>6, <1>7 DEF Next

(* The pipeline implements the ledger: whatever fails and however often    *)
(* the process is restarted, readers see a set of blocks of the chain that *)
(* only grows, one whole block at a time.                                  *)
THEOREM PipelineImplementsLedger == Spec => LedgerSafety
<1>1. Init => Ledger!Init
  BY DEF Init, Ledger!Init
<1>2. IInv /\ [Next]_vars => [Ledger!Next]_<<height, stored>>
  BY LedgerStep
<1> QED BY <1>1, <1>2, Invariance, PTL DEF Spec, LedgerSafety, Ledger!Spec, Ledger!ledgerVars

-----------------------------------------------------------------------------
(* Full channels never bring a live pipeline to a stop. *)

(* A goroutine returns only once the context is done. *)
AllAtWork ==
    phase = "running" /\ ~cancelled =>
        /\ bridgePc # "done"
        /\ \A p \in Processors : procPc[p] # "done"
        /\ \A w \in Writers : writerPc[w] # "done"

LEMMA AtWorkStep == IInv /\ AllAtWork /\ [Next]_vars => AllAtWork'
<1> SUFFICES ASSUME IInv, AllAtWork, [Next]_vars PROVE AllAtWork'
  OBVIOUS
<1> USE DEF AllAtWork, dbVars, sessionVars, streamVars, bridgeVars, procVars, writerVars
<1> TypeOK
  BY DEF IInv
<1>1. CASE UNCHANGED vars \/ Produce \/ Stream
  BY <1>1 DEF vars, Produce, Stream, ToQueueDelivers, ToQueueFails, ToQueueStops
<1>2. CASE Process
  BY <1>2 DEF Process, Scan, ScanFails, ResumeAt, ListenFails, Launch,
             Exit, Crash, StopProcess, RestFails
<1>3. CASE Bridge
  BY <1>3 DEF Bridge, BridgeReads, BridgeWrites, BridgeDrops, BridgeStops
<1>4. ASSUME NEW p \in Processors, Processor(p) PROVE AllAtWork'
  BY <1>4 DEF Processor, ProcReads, ProcParses, ProcFails, ProcWrites, ProcDrops, ProcStops,
             LoopHead, TypeOK
<1>5. ASSUME NEW w \in Writers, Writer(w) PROVE AllAtWork'
  BY <1>5 DEF Writer, WriterAcquires, WriterReads, WriterBuilds, WriterRejects, WriterCommits,
             WriterFails, WriterInterrupted, WriterStops, WriterReturnsError, LoopHead, TypeOK
<1>6. ASSUME NEW n \in Blocks, Orphan(n) PROVE AllAtWork'
  BY <1>6 DEF Orphan, OrphanCommits, OrphanAborts
<1> QED BY <1>1, <1>2, <1>3, <1>4, <1>5, <1>6 DEF Next

(* A goroutine that can go on with a block: it has one and waits for no     *)
(* room, or it can take one.                                               *)
BridgeMoves ==
    \/ bridgePc = "read" /\ deliverBlockCh # <<>>
    \/ bridgePc = "write" /\ Len(inputBlockCh) < RawCap
ProcMoves(p) ==
    \/ procPc[p] = "read" /\ inputBlockCh # <<>>
    \/ procPc[p] = "parse"
    \/ procPc[p] = "write" /\ Len(processedBlockCh) < ProcCap
WriterMoves(w) ==
    \/ writerPc[w] = "read" /\ processedBlockCh # <<>>
    \/ writerPc[w] \in {"acquire", "build", "tx"}

SomeBlockMoves ==
    BridgeMoves \/ (\E p \in Processors : ProcMoves(p)) \/ \E w \in Writers : WriterMoves(w)

(* No missing block of the stream waits for ever in a pipeline that runs.   *)
MissingBlocksMove ==
    phase = "running" /\ ~cancelled /\ (\E n \in StartBlk..(next - 1) : n \notin stored)
        => SomeBlockMoves

(* From the end of the pipeline to its beginning: where nothing moves, no   *)
(* writer has a block, so there is room for the processors, so none of     *)
(* them has one, so there is room for the bridge.                          *)
LEMMA NothingMovesNothingHeld ==
    ASSUME IInv, AllAtWork, phase = "running", ~cancelled, ~SomeBlockMoves
    PROVE  InFlight = {}
<1>1. TypeOK
  BY DEF IInv
<1>2. /\ ~BridgeMoves /\ bridgePc # "done"
      /\ \A p \in Processors : ~ProcMoves(p) /\ procPc[p] # "done"
      /\ \A w \in Writers : ~WriterMoves(w) /\ writerPc[w] # "done"
  BY DEF SomeBlockMoves, AllAtWork
<1>3. /\ \A w \in Writers : writerPc[w] = "read"
      /\ processedBlockCh = <<>>
  BY <1>1, <1>2, WorkersAssumption DEF WriterMoves, TypeOK
<1>4. Len(processedBlockCh) < ProcCap
  BY <1>3, EmptyChannel
<1>5. /\ \A p \in Processors : procPc[p] = "read"
      /\ inputBlockCh = <<>>
  BY <1>1, <1>2, <1>4, WorkersAssumption DEF ProcMoves, TypeOK
<1>6. Len(inputBlockCh) < RawCap
  BY <1>5, EmptyChannel
<1>7. bridgePc = "read" /\ deliverBlockCh = <<>>
  BY <1>1, <1>2, <1>6 DEF BridgeMoves, TypeOK
<1>8. InBridge = {} /\ InProcs = {} /\ InWriters = {}
  BY <1>1, <1>3, <1>5, <1>7 DEF InBridge, InProcs, InWriters, Held, TypeOK
<1> QED BY <1>3, <1>5, <1>7, <1>8, RangeOfEmpty DEF InFlight

(* Back-pressure cannot bring ingestion to a stop: for every number of      *)
(* goroutines and every capacity of the channels, as long as a block that  *)
(* was delivered is missing some goroutine can go on, or the context is    *)
(* done.                                                                   *)
THEOREM PipelineKeepsMoving == Spec => []MissingBlocksMove
<1>1. Init => AllAtWork
  BY DEF Init, AllAtWork
<1>2. IInv /\ AllAtWork => MissingBlocksMove
  <2> SUFFICES ASSUME IInv, AllAtWork, phase = "running", ~cancelled, ~SomeBlockMoves,
                      NEW n \in StartBlk..(next - 1), n \notin stored
               PROVE  FALSE
    BY DEF MissingBlocksMove
  <2>1. n \in InFlight
    BY DEF IInv, NoBlockSkipped
  <2> QED BY <2>1, NothingMovesNothingHeld
<1> QED BY <1>1, <1>2, AtWorkStep, Invariance, PTL DEF Spec
=============================================================================
