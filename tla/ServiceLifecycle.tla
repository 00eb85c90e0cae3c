-------------------------- MODULE ServiceLifecycle --------------------------
(***************************************************************************)
(* One life of the explorer process, Service.Run of pkg/api/service.go:    *)
(* it connects, migrates, launches the pipeline and the REST server, and   *)
(* shuts both down when one of them fails.  Writers and requests share one *)
(* pool of database connections; a writer keeps its connection, a request  *)
(* takes one for each of its statements.                                   *)
(*                                                                         *)
(* The other goroutines of the pipeline hold no connection: BlockPipeline  *)
(* models them, and that they return once the context is done.             *)
(***************************************************************************)
EXTENDS Integers, Sequences, FiniteSets, SequencesExt

CONSTANTS
    Writers,       (* the block writers, workers.writer_count of them       *)
    Requests,      (* requests the REST server handles at a time            *)
    MaxConns,      (* database.max_conns                                    *)
    Statements,    (* the most statements a handler executes                *)
    MaxFaults      (* bound on the number of faults in a behaviour          *)

(* Config.Validate *)
Valid == Writers # {} /\ Cardinality(Writers) <= MaxConns

ASSUME ServiceAssumption ==
    /\ Valid
    /\ IsFiniteSet(Writers) /\ Writers \cap Requests = {}
    /\ MaxConns \in Nat /\ Statements \in Nat \ {0} /\ MaxFaults \in Nat

VARIABLES
    phase,        (* where Service.Run is                                   *)
    cancelled,    (* gCtx of Service.Run, and with it the pipeline's        *)
    listening,    (* the REST server accepts requests                       *)
    timedOut,     (* the time for the requests to drain is over             *)
    writer,       (* for each writer, its state                             *)
    request,      (* for each request, its state                            *)
    left,         (* for each request, the statements it still executes     *)
    conns,        (* writers and requests that hold a connection            *)
    queue,        (* those that wait for one, in their order                *)
    closed,       (* the pool is closed                                     *)
    faults

runVars  == <<phase, listening, timedOut>>
poolVars == <<conns, queue>>
reqVars  == <<request, left>>
vars == <<runVars, cancelled, writer, reqVars, poolVars, closed, faults>>

Fault == faults < MaxFaults /\ faults' = faults + 1

Init ==
    /\ phase = "connect"
    /\ cancelled = FALSE /\ listening = FALSE /\ timedOut = FALSE
    /\ writer = [w \in Writers |-> "off"]
    /\ request = [r \in Requests |-> "idle"]
    /\ left = [r \in Requests |-> 0]
    /\ conns = {} /\ queue = <<>> /\ closed = FALSE
    /\ faults = 0

-----------------------------------------------------------------------------
(* The pool *)

Free == Cardinality(conns) < MaxConns

Wait(x)    == queue' = Append(queue, x) /\ UNCHANGED conns
Release(x) == conns' = conns \ {x}
Leave(x)   == IF x \in Range(queue)
              THEN \E i \in DOMAIN queue : queue[i] = x /\ queue' = RemoveAt(queue, i)
              ELSE UNCHANGED queue

(* A pool without a maximum. *)
GrantUnbounded ==
    /\ queue # <<>> /\ ~closed
    /\ conns' = conns \cup {Head(queue)}
    /\ queue' = Tail(queue)
    /\ writer' = [w \in Writers |-> IF w = Head(queue) THEN "pinned" ELSE writer[w]]
    /\ request' = [r \in Requests |-> IF r = Head(queue) THEN "query" ELSE request[r]]
    /\ UNCHANGED <<runVars, cancelled, left, closed, faults>>

(* Acquire returns, first come first served. *)
Grant ==
    /\ queue # <<>> /\ Free /\ ~closed
    /\ conns' = conns \cup {Head(queue)}
    /\ queue' = Tail(queue)
    /\ writer' = [w \in Writers |-> IF w = Head(queue) THEN "pinned" ELSE writer[w]]
    /\ request' = [r \in Requests |-> IF r = Head(queue) THEN "query" ELSE request[r]]
    /\ UNCHANGED <<runVars, cancelled, left, closed, faults>>

-----------------------------------------------------------------------------
(* Service.Run *)

(* The deferred pool.Close, after whatever made Run return. *)
Return ==
    /\ phase' = "closing"
    /\ closed' = TRUE

Connect ==
    /\ phase = "connect"
    /\ phase' = "migrate"
    /\ UNCHANGED <<cancelled, listening, timedOut, writer, reqVars, poolVars, closed, faults>>

(* An attempt fails: there is another one, until the time is over. *)
ConnectFails ==
    /\ phase = "connect"
    /\ Fault
    /\ phase' \in {"connect", "exited"}
    /\ UNCHANGED <<cancelled, listening, timedOut, writer, reqVars, poolVars, closed>>

(* The migrations, and the gap scan, whose failure is only logged. *)
Migrate ==
    /\ phase = "migrate"
    /\ phase' = "listen"
    /\ UNCHANGED <<cancelled, listening, timedOut, writer, reqVars, poolVars, closed, faults>>

(* A migration, or net.Listen, fails. *)
StartFails ==
    /\ phase \in {"migrate", "listen"}
    /\ Fault
    /\ Return
    /\ UNCHANGED <<cancelled, listening, timedOut, writer, reqVars, poolVars>>

(* The two goroutines of Run start. *)
Launch ==
    /\ phase = "listen"
    /\ phase' = "serving"
    /\ listening' = TRUE
    /\ UNCHANGED <<cancelled, timedOut, writer, reqVars, poolVars, closed, faults>>

(* The REST server ends with an error, or a goroutine of the pipeline that *)
(* holds no connection does.                                               *)
ServerFails ==
    /\ phase = "serving"
    /\ Fault
    /\ cancelled' = TRUE
    /\ listening' \in {listening, FALSE}
    /\ UNCHANGED <<phase, timedOut, writer, reqVars, poolVars, closed>>

(* <-gCtx.Done(), then restSrv.Shutdown *)
Shutdown ==
    /\ phase = "serving" /\ cancelled
    /\ phase' = "draining"
    /\ listening' = FALSE
    /\ UNCHANGED <<cancelled, timedOut, writer, reqVars, poolVars, closed, faults>>

(* A server that is closed without waiting for its requests. *)
DrainedAtOnce ==
    /\ phase = "draining"
    /\ phase' = "waiting"
    /\ UNCHANGED <<cancelled, listening, timedOut, writer, reqVars, poolVars, closed, faults>>

Drained ==
    /\ phase = "draining"
    /\ \A r \in Requests : request[r] = "idle"
    /\ phase' = "waiting"
    /\ UNCHANGED <<cancelled, listening, timedOut, writer, reqVars, poolVars, closed, faults>>

DrainTimesOut ==
    /\ phase = "draining"
    /\ timedOut' = TRUE
    /\ phase' = "waiting"
    /\ UNCHANGED <<cancelled, listening, writer, reqVars, poolVars, closed, faults>>

(* g.Wait *)
PipelineEnded ==
    /\ phase = "waiting"
    /\ \A w \in Writers : writer[w] = "done"
    /\ Return
    /\ UNCHANGED <<cancelled, listening, timedOut, writer, reqVars, poolVars, faults>>

(* pool.Close waits until every connection is returned.  What still runs    *)
(* then ends with the process.                                             *)
Exit ==
    /\ phase = "closing"
    /\ conns = {}
    /\ phase' = "exited"
    /\ request' = [r \in Requests |-> IF request[r] = "idle" THEN "idle" ELSE "gone"]
    /\ queue' = <<>>
    /\ UNCHANGED <<cancelled, listening, timedOut, writer, left, conns, closed, faults>>

-----------------------------------------------------------------------------
(* runBlockWriter *)

WriterAcquires(w) ==
    /\ phase \in {"serving", "draining", "waiting"}
    /\ writer[w] = "off"
    /\ writer' = [writer EXCEPT ![w] = "wait"]
    /\ Wait(w)
    /\ UNCHANGED <<runVars, cancelled, reqVars, closed, faults>>

(* Acquire returns the error of the context. *)
WriterGivesUp(w) ==
    /\ writer[w] = "wait" /\ cancelled
    /\ writer' = [writer EXCEPT ![w] = "done"]
    /\ Leave(w)
    /\ UNCHANGED <<runVars, cancelled, reqVars, conns, closed, faults>>

(* A writer that returns without giving its connection back. *)
WriterReturnsPinned(w) ==
    /\ writer[w] = "pinned"
    /\ IF cancelled THEN UNCHANGED faults ELSE Fault
    /\ cancelled' = TRUE
    /\ writer' = [writer EXCEPT ![w] = "done"]
    /\ UNCHANGED <<runVars, reqVars, poolVars, closed>>

(* The writer returns: it failed, or the context is done.  Its error ends   *)
(* the pipeline; the deferred Close returns the connection.                *)
WriterReturns(w) ==
    /\ writer[w] = "pinned"
    /\ IF cancelled THEN UNCHANGED faults ELSE Fault
    /\ cancelled' = TRUE
    /\ writer' = [writer EXCEPT ![w] = "done"]
    /\ Release(w)
    /\ UNCHANGED <<runVars, reqVars, queue, closed>>

-----------------------------------------------------------------------------
(* Requests *)

Accept(r) ==
    /\ listening /\ request[r] = "idle"
    /\ \E n \in 1..Statements : left' = [left EXCEPT ![r] = n]
    /\ request' = [request EXCEPT ![r] = "wait"]
    /\ Wait(r)
    /\ UNCHANGED <<runVars, cancelled, writer, closed, faults>>

(* The statement is answered and its connection returned; after the last    *)
(* one the handler responds.                                               *)
StatementEnds(r) ==
    /\ request[r] = "query"
    /\ Release(r)
    /\ left' = [left EXCEPT ![r] = @ - 1]
    /\ IF left[r] > 1
       THEN /\ request' = [request EXCEPT ![r] = "wait"]
            /\ queue' = Append(queue, r)
       ELSE /\ request' = [request EXCEPT ![r] = "idle"]
            /\ UNCHANGED queue
    /\ UNCHANGED <<runVars, cancelled, writer, closed, faults>>

(* A handler that keeps the connection of a statement that failed. *)
StatementFailsUnreleased(r) ==
    /\ request[r] = "query"
    /\ Fault
    /\ request' = [request EXCEPT ![r] = "idle"]
    /\ left' = [left EXCEPT ![r] = 0]
    /\ UNCHANGED <<runVars, cancelled, writer, poolVars, closed>>

(* respondError *)
StatementFails(r) ==
    /\ request[r] = "query"
    /\ Fault
    /\ Release(r)
    /\ request' = [request EXCEPT ![r] = "idle"]
    /\ left' = [left EXCEPT ![r] = 0]
    /\ UNCHANGED <<runVars, cancelled, writer, queue, closed>>

(* The client is gone, and with it the context of the request. *)
ClientLeaves(r) ==
    /\ request[r] \in {"wait", "query"}
    /\ Release(r) /\ Leave(r)
    /\ request' = [request EXCEPT ![r] = "idle"]
    /\ left' = [left EXCEPT ![r] = 0]
    /\ UNCHANGED <<runVars, cancelled, writer, closed, faults>>

(* Acquire of a pool that is closed: an error answer. *)
Refuse(r) ==
    /\ request[r] = "wait" /\ closed /\ Free /\ Head(queue) = r
    /\ request' = [request EXCEPT ![r] = "refused"]
    /\ left' = [left EXCEPT ![r] = 0]
    /\ Leave(r)
    /\ UNCHANGED <<runVars, cancelled, writer, conns, closed, faults>>

-----------------------------------------------------------------------------
Run == Connect \/ ConnectFails \/ Migrate \/ StartFails \/ Launch \/ ServerFails
       \/ Shutdown \/ Drained \/ DrainTimesOut \/ PipelineEnded \/ Exit

Writer(w) == WriterAcquires(w) \/ WriterGivesUp(w) \/ WriterReturns(w)

Request(r) ==
    Accept(r) \/ StatementEnds(r) \/ StatementFails(r) \/ ClientLeaves(r) \/ Refuse(r)

Next ==
    \/ phase # "exited" /\ (Run \/ Grant)
    \/ phase # "exited" /\ \E w \in Writers : Writer(w)
    \/ phase # "exited" /\ \E r \in Requests : Request(r)

Spec == Init /\ [][Next]_vars

(* Service.Run proceeds, the drain timer fires, the database answers, and   *)
(* a goroutine that can return does.  Requests and faults are never owed.  *)
Fairness ==
    /\ WF_vars(Connect) /\ WF_vars(Migrate) /\ WF_vars(Launch) /\ WF_vars(Shutdown)
    /\ WF_vars(Drained \/ DrainTimesOut) /\ WF_vars(PipelineEnded) /\ WF_vars(Exit)
    /\ WF_vars(Grant)
    /\ \A w \in Writers : WF_vars(WriterAcquires(w)) /\ WF_vars(cancelled /\ Writer(w))
    /\ \A r \in Requests : WF_vars(StatementEnds(r)) /\ WF_vars(Refuse(r))

FairSpec == Spec /\ Fairness

-----------------------------------------------------------------------------
(* The types of the variables; the pool never exceeds its maximum.         *)
TypeOK ==
    /\ phase \in {"connect", "migrate", "listen", "serving", "draining", "waiting",
                  "closing", "exited"}
    /\ {cancelled, listening, timedOut, closed} \subseteq BOOLEAN
    /\ writer \in [Writers -> {"off", "wait", "pinned", "done"}]
    /\ request \in [Requests -> {"idle", "wait", "query", "refused", "gone"}]
    /\ left \in [Requests -> 0..Statements]
    /\ conns \subseteq Writers \cup Requests /\ Cardinality(conns) <= MaxConns
    /\ queue \in Seq(Writers \cup Requests)
    /\ faults \in 0..MaxFaults

(***************************************************************************)
(* A connection is held by exactly the writers and handlers that use one,  *)
(* and waited for, once each, by exactly those that wait, until the        *)
(* process is gone: none leaks, however they end.                          *)
(***************************************************************************)
NoConnectionLeaks ==
    /\ conns = {w \in Writers : writer[w] = "pinned"} \cup {r \in Requests : request[r] = "query"}
    /\ phase # "exited" =>
          /\ Range(queue) = {w \in Writers : writer[w] = "wait"}
                            \cup {r \in Requests : request[r] = "wait"}
          /\ Cardinality(Range(queue)) = Len(queue)

(***************************************************************************)
(* service.go:110-118 and the order of its defers: a request that was       *)
(* accepted keeps its database until it is answered, unless the time to    *)
(* drain is over.                                                          *)
(***************************************************************************)
NoRequestCutOff ==
    \A r \in Requests : request[r] \in {"refused", "gone"} \/ (closed /\ request[r] # "idle")
        => timedOut

(***************************************************************************)
(* A request that waits for a connection gets its answer: the writers      *)
(* never keep the whole pool.  This needs one connection more than         *)
(* Validate (config.go:141) asks for.                                      *)
(***************************************************************************)
RequestsAreAnswered ==
    \A r \in Requests :
        request[r] \in {"wait", "query"} ~> request[r] \notin {"wait", "query"}

(* service.go:113: "so shutdown completes": once one side has failed, the   *)
(* process ends, whatever its writers and requests were waiting for.       *)
ShutdownCompletes == cancelled ~> phase = "exited"
=============================================================================
