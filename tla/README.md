# TLA+ models of the Fabric-X block explorer

The explorer (`src/`) follows a Fabric-X committer: it streams blocks from the
committer's sidecar, parses them, stores them in PostgreSQL and serves them over
REST to a web UI.  These modules model the parts whose correctness depends on
interleavings, failures and restarts; TLC checks them on small instances and
TLAPS proves their safety properties for every instance.

Paths below are relative to `src/` for code and to this directory for modules.

## Contents

1. The system
2. Modules and the code they model
3. Model checking runs, bounds and fairness
4. Proofs
5. What the checks found
6. What is not modelled
7. Plan

## 1. The system

```
 committer sidecar                                             browser (ui/)
       | ToQueue (external client, in order, reconnects)           | /api proxy
       v                                                           v
 sidecarstream.Deliver -> inputBlockCh -> N processors        REST handlers
   bridge goroutine          (channel)       parser.Parse      pkg/api/rest.go
                                                  |                |
                                             processedBlockCh      |
                                               (channel)           |
                                                  v                v
                                              M writers  ---> PostgreSQL
                                        pkg/db/db_writer.go   (one pgx pool)
```

`Service.Run` (`pkg/api/service.go`) opens the pool, migrates the schema, looks
for the first missing block (`resumeBlockNum`), starts the pipeline and the REST
server, and ends both when one fails.  A supervisor starts the process again.

| component | code | state | operations | what is hard |
|---|---|---|---|---|
| sidecar stream | `pkg/sidecarstream` | position of the session, a channel of capacity 1 | `Deliver` with its bridge goroutine | an error of the stream, the end of a context, which context is watched |
| block pipeline | `pkg/blockpipeline` | two bounded channels, one receiver, N processors, M writers, an errgroup | read, parse, write, drop, stop | concurrency, back-pressure, cancellation with full channels, ignored results of writes |
| resume, gap healing | `pkg/api/service.go` | none of its own | `resumeBlockNum` | gaps that concurrent writers leave, a failed query, commits that are decided later |
| service lifecycle | `pkg/api/service.go`, `pkg/cli` | phase of `Run`, errgroup, REST server | start, serve, drain, close | order of shutdown, requests in flight, the pool closed under them |
| connection pool | `pkg/db/postgres.go` | connections, waiting callers | connect with retry, acquire, release, close | writers keep a connection for life, requests share the rest |
| block parser | `pkg/parser` | none | classify envelopes, extract policies, namespaces, endorsements | early returns in `handleTx`, positions that get no row |
| database writer | `pkg/db/db_writer.go`, `pkg/db/queries` | one transaction per block | begin, statements in order, commit, rollback | failures at every statement, lost COMMIT answers, row locks, deadlocks, re-processing |
| schema migrations | `pkg/db/schema.go` | `schema_migrations` | `ApplyMigrations` | two processes at once, a crash around COMMIT |
| REST server | `pkg/api/rest.go` | none between requests | height, list, block, transaction, policies | several statements without a snapshot, offsets over a set that changes |
| policy decoder and renderer | `pkg/api/policy_*.go` | none | decode, render | bytes that parse as several messages, depth limit |
| web UI | `ui/` | per page: data, page number, error, timers | fetch, page, poll, search | a height read earlier used as an offset, polls that overtake each other, searches that an effect repeats, partial failures |
| configuration, CLI, helpers | `pkg/config`, `pkg/cli`, `cmd`, `pkg/util` | none | load, validate | the relation of `writer_count` and `max_conns` |

What makes each correct:

- *stream and pipeline*: while the context is live no block is lost between the
  sidecar and the database; once it is done everything stops; channels stay
  within their capacity.
- *resume*: a start never begins above a missing block, whatever failed before.
- *lifecycle and pool*: connections never leak, requests get one, a failure of
  one side ends the process, and only the drain timeout cuts off a request.
- *parser and writer*: a block is stored whole or not at all; every position with
  a status that is no committed configuration has exactly one row; the counts, times and names a reader adds up from
  several tables agree; every write ends; in the end every block is stored.
- *migrations*: each takes effect once, in order, and no process goes on before.
- *REST*: an answer put together from several statements is what was stored; what
  a client was told of stays there and never becomes older; paging misses nothing.
- *policies*: the configuration of a channel is shown as its tree, whatever else
  its bytes also parse as.
- *UI*: lists hold the window they name, older pages continue where the last
  ended, an open dashboard catches up, a search leaves rows or a reason.

## 2. Modules and the code they model

| module | models | extends or composes |
|---|---|---|
| `GapScan` | the query of `resumeBlockNum` as operators over a set of block numbers | |
| `IngestLedger` | abstract: the chain grows, the set of stored blocks grows one whole block at a time | |
| `BlockPipeline` | receiver, bridge, processors, writers, channels, cancellation, restarts | uses `GapScan`, implements `IngestLedger` |
| `BlockParser` | `parser.Parse` after unmarshalling, as operators on one block | |
| `BlockStore` | `WriteProcessedBlock`, statement by statement, on concurrent sessions | uses `BlockParser`, `GapScan`, implements `IngestLedger` |
| `PolicyRender` | the policy decoder and renderer, as operators on what the bytes of a policy read as | |
| `RestReads` | the handlers of `rest.go` against those writers, and what their answers show | extends `BlockStore`, `PolicyRender` |
| `Migrations` | `ApplyMigrations` of several processes | |
| `ServiceLifecycle` | `Service.Run` and the connection pool its two sides share | |
| `ExplorerUi` | one browser tab over the stored blocks | extends `IngestLedger` |
| `GapScanProofs`, `BlockPipelineProofs`, `BlockParserProofs`, `BlockStoreProofs`, `RestReadsProofs`, `MigrationsProofs`, `ServiceLifecycleProofs`, `ExplorerUiProofs` | theorems | each extends the module it is about; `BlockParserProofs`, `BlockStoreProofs` and `RestReadsProofs` build on each other |
| `MC*`, `SampleChains` | constants of the runs | |

The modules share an order of abstraction.  `IngestLedger` is what ingestion
promises; it is implemented twice, by `BlockPipeline`, whose transaction is one
step that takes effect at COMMIT, and by `BlockStore`, which takes that step apart
into statements on sessions.  `ServiceLifecycle` takes from `BlockPipeline` that
the pipeline ends once its context is done (`CancelLeadsToExit`).  `RestReads`
reads the tables `BlockStore` writes, `ExplorerUi` reads the ledger.

**BlockPipeline.**  A block is its number.  Each goroutine is a program counter
and the block it holds: the bridge (`bridgePc`), processors (`procPc`), writers
(`writerPc`); `deliverBlockCh`, `inputBlockCh`, `processedBlockCh` are the three
channels.  `cancelled` is the errgroup's context.  A Go `select` with a ready
channel and a done context may take either, so `BridgeDrops`, `ProcDrops` and
`*Stops` are enabled next to their counterparts.  `ToQueue` is external: in
order, each block once per session, reconnecting by itself; a permanent error is
`ToQueueFails`.  `Unparsable` and `Unwritable` name blocks `parser.Parse` and
`buildBatchParams` reject (for example a `tx_id` that is not hexadecimal).
`orphans` are commits that were sent and not answered: the server may decide
them later, even under a process that has scanned before.  `Scan` and `Launch`
are two steps for that reason; a block that is committed between them is fetched
again, which is harmless.  The process handles no signal (`cmd/explorer/main.go`
passes no cancellable context), so SIGTERM is a `Crash`.  The `continue` on a nil
block from a closed channel is not modelled: nothing closes the channels.

**BlockParser and BlockStore.**  An envelope is what can be read out of its bytes
(see the module), and the sets `Envelopes` and `Blocks` are the messages a
committer can send; `ChainAssumption` asks no more of a chain.  A row is a key and a value, its key starts with the name of its
table.  `BatchParams` builds a block's statements in the order of `InsertBlock` and
`flush`: the block with its count of transactions and its time, transactions with
their code, name and time, namespaces, the three tables of reads and writes,
endorsements, policies, errors; foreign keys hold by that order.  Columns that are
copied and shown (creator, nonce, hashes, signatures, sizes) are left out.
Transactions run at READ COMMITTED, PostgreSQL's default: rows a transaction wrote
stay in `puts` until COMMIT, and a statement on a key another open transaction wrote
waits.  A session outlives the process that opened it (`lost`): the server decides
its transaction later, possibly while the next process writes the same block.
After a failed gap scan (`ScanFails`) every block is written once more, stored or
not.  Two
rows with one key inside one block (a transaction that names a namespace twice)
keep the first: the code's ON CONFLICT DO NOTHING drops the second, and `OwnRows`
says so.

**PolicyRender.**  Protobuf reads almost any bytes as almost any message, so the
bytes of a policy are an opaque name and `Readings` says what each message and
each pattern the code tries finds in them.  `DecodePolicy` and the functions below
it keep the order of the attempts, what makes one of them count, the fallbacks and
the depth limit; a text is a sequence that says what it is.  A rule is a tree of any
depth, so `RuleText` is a recursive function over `Parts`, the rules that occur; a
tree of groups is cut at `maxTreeDepth` 3, so its levels are one operator each
(`TreeAtDepth3`, `TreeAtDepth2`, `TreeAtDepth1`).  `ReadingsAssumption` asks of
the readings what the encoding gives: nothing is read from bytes that are not
wrapped as the code expects, names have an order without repetitions, and at most
one of the four messages finds policies of a channel in the same bytes.  (Each
wraps the other in one more field, so bytes of one that are read as another show
its groups where map entries are expected and no field of policies.)

**RestReads.**  A request is its next statement (`pc`) and the rows read so far;
writers step between any two.  The eight statements that make a block's answer are
separate steps, and so are those of a transaction, the pages of a client that walks
the list of blocks, and both policy handlers.  One request is handled at a time,
because handlers only read and share nothing; and one session writes, because what
an open transaction did is invisible and commits are atomic: a second session only
changes which commit comes next, and a restart changes that too.  Only that run has
these bounds; the theorems hold for every number of sessions.
Policies are decoded by `PolicyRender`'s `DecodePolicy`; `ChannelPoliciesAreShown`
states what an answer then shows of a channel, as a list of lines that does not
mention how the tree is walked (`ChannelLines`).  `IdsAssumption` is the
committer's promise that it keeps one transaction under an id; a second one has the
status `REJECTED_DUPLICATE_TX_ID` (`parser.go:199`), which is not stored.

**Migrations.**  A migration's DDL is a number; it waits for another open
transaction that runs the same one.  A file that another process has just applied
may succeed again or conflict (both are allowed), the INSERT of its version
conflicts.

**ServiceLifecycle.**  A writer's connection is kept from `Grant` to
`WriterReturns`; a request takes one per statement.  `queue` is pgxpool's FIFO
queue.  `closed` is the deferred `pool.Close`, which refuses new acquisitions and
waits for connections in use.

**ExplorerUi.**  Every request of `lib/api.ts` is a step, so blocks are stored
between the height a page reads and the list it asks for.  The dashboard starts a
fetch every 15 s whether or not the last has ended (`polls`); the page of policies
has any number of searches open at once, and its effect starts further ones
(`search`).  State that may be null is a sequence of at most one element.

## 3. Model checking runs, bounds and fairness

| run | module | states | shows |
|---|---|---|---|
| `pipeline_safety` | `MCBlockPipeline` | 748,562 | `NoBlockSkipped`, `ResumesAtFirstGap`, `LedgerSafety` with two faults and two poison blocks |
| `pipeline_liveness` | `MCBlockPipeline` | 115,938 | `LedgerLiveness`, `CancelLeadsToExit` after a fault |
| `deliver_hang` | `MCBlockPipeline` | violation | `DeliverReturnsOnPermanentError` |
| `store` | `MCBlockStore` | 142,345 | `WholeBlocks`, `EveryPositionHasARow`, `TablesAgree`, `OnlyPoliciesContend`, `EveryWriteEnds`, `EveryBlockStored`, `ImplementsLedger` |
| `reprocess_noop` | `MCBlockStore` | violation | `ReprocessingIsNoOp` |
| `rest` | `MCRestReads` | 731,506 | `ResponsesAreWhole`, `OneTransactionPerId`, `PagingMissesNothing`, `ChannelPoliciesAreShown`, `ToldBlocksAreFound`, `LatestPolicyIsLatest` |
| `migrations` | `Migrations` | 6,171 | `MigratedOnceInOrder`, `ReadyMeansMigrated`, `EveryProcessReady` |
| `lifecycle` | `ServiceLifecycle` | 8,023 | `NoConnectionLeaks`, `NoRequestCutOff`, `RequestsAreAnswered`, `ShutdownCompletes` |
| `ui` | `MCExplorerUi` | 32,338 | `ListsAreTheirWindow`, `NextPageMissesNothing`, `PoliciesAreAnswered` |
| `ui_polls` | `MCExplorerUi` | 407,597 | `DashboardCatchesUp` with fetches that overlap |
| `tx_pages` | `MCExplorerUi` | violation | `TxWindowIsShown` |
| `policy_search` | `MCExplorerUi` | violation | `SelectedPoliciesAreShown` |

Deadlock is not checked: every system here may stop (a chain that is stored, a
process that has exited, a reader that is done), and the liveness properties say
what must have happened by then.

**Bounds.**

- *Pipeline*: four blocks from start block 1 (three for liveness), two processors,
  two writers, channels of capacity 1, two faults (one for liveness).  Two writers
  are enough for a gap (a later block commits before an earlier one), two faults
  for a fault during the recovery from one, and capacity 1 makes every channel
  full.  Blocks 3 and 4 are poison in the safety run, one for the parser and one
  for the database.  A REST server that fails only cancels the context, as other
  faults do; it is left to the liveness run.  Processors and writers are symmetric there; the liveness run
  uses no symmetry.  Safety of larger instances is what section 4 proves.
- *Store*: three blocks with every kind of envelope `handleTx` distinguishes
  (`SampleChains`), two sessions, two faults.  Blocks 1 and 2 lock two policy
  rows in opposite order, so deadlocks occur.
- *REST*: three blocks (a configuration with transactions, a block that brings a
  newer version of its policy, an empty block), one session, one fault, limits, offsets and bounds absent or 1, the bytes of each policy readable as
  several messages.
- *Migrations*: three files, two processes, two faults.
- *Lifecycle*: two writers, two requests of up to two statements, three
  connections, two faults.
- *UI*: three blocks, pages of one block and of one transaction, a default
  transaction limit of 2 below the three transactions of a block, two namespaces,
  two searches, one failed request; in `ui_polls` two blocks and two fetches of
  the dashboard that may overlap and overtake each other.

**Fairness.**

- Go runs runnable goroutines: weak fairness for each goroutine's steps.
- A process that ended is restarted (`Scan`, `Start`, `CreateTable`): the
  supervisor (`docker-compose.yaml`) is assumed; the code has no restart loop.
- The database answers statements, decides transactions whose client is gone and
  detects deadlocks.  The pool serves its queue first come, first served.
- The drain timer of `Shutdown`, the 15 s timer and the 10 s request timeout of
  the UI fire.
- Faults, requests, clients leaving and navigation are never owed, and faults
  are finitely many.
- `pipeline_liveness` excludes permanent errors of the stream, after which
  nothing more is delivered (section 5).

`EveryBlockStored` says that every block is stored if deadlocks end some time.
The victim of a deadlock ends the whole process; the restarted one gives the same
two blocks to two writers again, and nothing in the code prevents a schedule in
which they collide each time.

`RequestsAreAnswered` needs one connection more than writers.  `Config.Validate`
accepts `writer_count = max_conns`, and with equal numbers TLC finds that no
request ever gets a connection; the defaults are 4 and 20.

A poison block (`pipeline_safety`) is retried for ever: the resume point never
passes it, by design of the gap scan; blocks after it may be stored.

Each property has a mutant of a mapped definition (`PROJECT.json`), a plausible
bug under which its run fails; the mutated forms stand before the originals.

## 4. Proofs

`tlapm` checks 8,318 obligations in eight modules.  Nothing is assumed beyond
the named ASSUMEs on the constants, which TLC evaluates in the runs.

**GapScanProofs** (for every set of stored blocks and every start block):
`ResumeSkipsNothing` and `ResumeIsFirstAbsent`.  The argument: the successor of a
row is absent exactly when the row is a gap end (`GapEndIffSuccessorAbsent`), so
every candidate of the query is absent, and the least absent number is a candidate
because its predecessor is a gap end or the start block itself.

**BlockPipelineProofs** (for any number of processors and writers, any channel
capacity, any set of poison blocks, any faults):
`TypeCorrect`, `PipelineLosesNothing`, `RestartHealsGaps`,
`PipelineImplementsLedger`, from the inductive invariant

    IInv == TypeOK /\ HoldersHold /\ DownIsEmpty /\ OnlyDueBlocks /\ NoBlockSkipped

`NoBlockSkipped` alone is not inductive: a goroutine might hold `NoBlock` when it
writes (`HoldersHold`), a new process might start with blocks in a channel
(`DownIsEmpty`), and the refinement needs that only blocks of the chain are stored
(`OnlyDueBlocks`).  The central lemma, `ConservingStep`, says that a step keeps
`NoBlockSkipped` when it keeps the set of blocks that are stored or held, or
cancels the context; each action is then a lemma on where its one block moves.
Every step maps to `Produce`, `Store(n)` or a stutter of `IngestLedger`.
`PipelineKeepsMoving` is what `LedgerLiveness` needs of back-pressure: while a block
the stream has delivered is missing, some goroutine can take a step that moves a
block on.  No goroutine ends before the context does (`AllAtWork`); if none could
move a block, then no writer holds one, hence the processors have room and hold
none, hence the bridge has room and holds none (`NothingMovesNothingHeld`), and
`NoBlockSkipped` says that nothing is missing.

**BlockParserProofs** (for every block): what `Parse` makes of a block, although
it appends a varying number of results for each position.  The library's induction
theorems cannot be used (they take an operator), so the lemma on `FlattenSeq`, that
the flattened list holds exactly the elements of its lists and in their order, looks
at the least prefix it fails for, which `NatHasLeast` of `GapScanProofs` provides.
`HandledFacts` says what each early return of `handleTx` leaves, `ParseFacts` where
each position of a block is found in the result.

**BlockStoreProofs** (for any number of sessions, any number of faults and every
chain of blocks): `TypeCorrect`, `BlocksAreWhole`, `PositionsStored`,
`TablesAlwaysAgree`, `StoreImplementsLedger`, `ContentionIsOverPolicies`,
`NoOtherDeadlocks`, `WritesProceed` and `ReprocessingKeepsRows`, from

    IInv == TypeOK /\ BusyWithABlock /\ PutsWereExecuted /\ ExecutedIsThere
            /\ OwnPutsAreNew /\ KeysAreLocked /\ WholeBlocks

`WholeBlocks` speaks of committed rows only; why a commit keeps it depends on what
the transaction did before.  All it holds comes from statements it executed
(`PutsWereExecuted`), and the key of each of those is in its rows or committed
(`ExecutedIsThere`), so at COMMIT no key of the block is missing.  A row of the
block may be *skipped* by ON CONFLICT DO NOTHING only because the row with its key
is there already, and that row is the block's own: either the whole block is stored
or nothing of it is (`OwnPutsAreNew`).  Two sessions that write the same block, as
after a restart with a transaction of the dead process still open, are kept apart
by the first statement of both, the row of `blocks` (`KeysAreLocked`).  The proof
sorts steps into three shapes (`StepShape`: quiet, one statement, one commit), so
the argument is made three times and not for each of the actions.
That a block's statements begin with the row of `blocks`, and that all but policies
carry the block's number in their key (`StatementRows`), is proved from the parser
for every block.  `PositionsStored` and `TablesAlwaysAgree` follow from `WholeBlocks`
and from where `Parse` puts each position: a stored block has all rows of its
statements and no others, so what readers add up is what the parser counted.
`ContentionIsOverPolicies` says who waits for whom.  Keys other than a policy's start
with the number of the block, and a transaction that has written anything has
written the row of its block (`HoldsItsBlock`); so two transactions contend for
another key only if they write the same block, and then the later one waits at its
first statement, with nothing written that others could wait for.  A cycle thus
consists of transactions that write policies (`NoOtherDeadlocks`).  `WritesProceed` is
what `EveryWriteEnds` needs of locks, and needs that the connections are finitely
many (`SessionsAssumption`): if none of a set closed under waiting could proceed,
each would wait for another of it; in a least such set each is also waited for,
or it could be left out, so its members are `Deadlocked`, and of those the server
rolls one back (`WaitingInCircles`).  `ReprocessingKeepsRows` is what is true of the
no-op that the run `reprocess_noop` refutes: all rows of a stored block but its
policies stay as they are.

**RestReadsProofs** (for every chain, any number of sessions and faults, every
limit, offset and bound of a request, and all readings of the bytes of policies):
`ReadsTypeCorrect`, `AnswersAreWhole`, `PagingSeesAll`, `ToldBlocksStay`,
`IdsAreUnique`, `NewestStaysNewest`, `ReadersSeeTheLedger` and `ChannelsAreShown`,
from

    ReadsIInv == IInv /\ Fields /\ RequestOK /\ ToldOK /\ PagerOK

`ReadersLeaveTheStore` comes first: a step of a handler leaves the store as it is, so
`IInv` of the store carries over.  `RequestOK` says of every program counter what the
statements before it have read: not some rows, but all that the block will ever have
in those tables (`BlockFound`), since a block that is seen was committed whole and
nothing is taken away.  That is why statements without a common snapshot give one
answer.  `PagingMissesNothing` is not inductive at all: pages shift under a client
when an older block fills a gap.  `PagerOK` adds that each block of the beginning
that has not been seen yet has at least `off` blocks of the range before it; a new
block can only push it further back (`RankGrows`), and a page takes away the next
`lim` of them (`PageFacts`), so a page that is not full leaves none.  `ToldOK` keeps
that the blocks and the keys of policies a client was told of are still stored, from
which the two promises over time follow (`StoreGrows`).
`ChannelsAreShown` adds that a policy in an answer is a stored row, decoded
(`PoliciesDecoded`), and is otherwise about the renderer: the list of lines that a
walk of a tree of groups makes holds each line of its four levels once
(`GroupLinesFacts` for one level, then `AtDepth3` up to `AtDepth0`, and `LinesOfPlaces`
from the lists to the set of places the property names), paths below different names
are different (`UnderFacts`), so no two groups make the same line.  Then no attempt
the decoder makes before the tree has a text (`NoSignatureText`, `EmptyGroupLines`).

**ExplorerUiProofs** (for every chain that grows in any order, every size of a page,
any number of fetches, searches and failures): `TabLeavesTheLedger`, `UiTypeCorrect`,
`SearchesAreAnswered`, `ListsShowTheirWindow` and `PagesContinue`, from

    UiIInv == Ledger /\ UiFields /\ TabOK /\ ListOK /\ FetchOK /\ PollsOK /\ SearchOK

`NextPageMissesNothing` compares two pages whose heights were read at different
times.  `ListOK` remembers of the page that is shown the height it was counted down
from and that the page asked for is at most the next one; `FetchOK` that the height
of the fetch under way is no lower; with both the distance between two pages is at
most one page.  They also show that the branch of `getBlockPage` for a page that is
out of range is never taken (`PageHeightStep`), although the button's condition uses
an older height.  Where no block is missing an offset is a block number
(`OffsetIsNumber`), which `ListsShowTheirWindow` needs.  `SearchOK` says that a page
without a search under way is settled, and that other pages have none.

**MigrationsProofs** (any number of files and processes): `TypeCorrect`,
`MigrationsOnceInOrder`, `ReadyProcessesAreMigrated`, `MigrationsProceed` and
`StartsGain`, from an invariant that adds what each process may know (`NotAhead`) and
that no two open transactions run the same migration (`OneRunner`).  By `OneRunner` a
process waits for one transaction at most, and that one waits for nothing
(`MigrationsProceed`).  A process runs only files it did not find applied
(`RunsNewFiles`), so one that ends with a conflict has lost to a migration recorded
since it looked, and its next start finds more of them (`StartsGain`): it starts at
most once more than there are files, but for faults.

**ServiceLifecycleProofs** (any number of writers, requests, statements and
connections that `Validate` accepts): `TypeCorrect` with the bound of the pool,
`ConnectionsDoNotLeak`, `RequestsAreNotCutOff`, `FirstComeFirstServed`,
`WritersLeaveOne` and `CloseWaitsForNoWriter`, from

    IInv == TypeOK /\ PoolInv /\ RunInv

`PoolInv` equates the connections in use and the queue with the states of their
users, as the property does, but says that the queue is injective instead of
counting it; lemmas on `Append`, `Tail` and `RemoveAt` of injective sequences carry
it over each step.  `RunInv` adds to `NoRequestCutOff` what makes it inductive:
the server listens only while Run serves, the pool is closed only after that, and
a request is in progress at another time only if the drain timed out.

The same lemmas say that the queue keeps its order (`FirstComeFirstServed`), whoever
leaves it.  `WritersLeaveOne` compares the pool with its users: a full pool has
`MaxConns` connections in use, more than there are writers, so a request has one of
them and will give it back.  `CloseWaitsForNoWriter` needs to know that writers
return theirs before the process closes the pool (`WritersInTime`), and that requests
still in progress then were given the time to drain.

Only model-checked: liveness, since fairness and ENABLED are beyond the installed
provers.  What each liveness property needs of the states a system can be in, that
somebody can go on and nobody is passed over, is proved where it says most:

| liveness property | safety core, proved |
|---|---|
| `LedgerLiveness` | `PipelineKeepsMoving`, `RestartHealsGaps` |
| `EveryWriteEnds`, `EveryBlockStored` | `WritesProceed`, `NoOtherDeadlocks` |
| `RequestsAreAnswered` | `FirstComeFirstServed`, `WritersLeaveOne` |
| `ShutdownCompletes` | `CloseWaitsForNoWriter`, `ConnectionsDoNotLeak` |
| `EveryProcessReady` | `MigrationsProceed`, `StartsGain` |
| `CancelLeadsToExit`, `DashboardCatchesUp` | none |

Every invariant and action property of a passing run is a theorem.

## 5. What the checks found

- `deliver_hang`: `Deliver`'s bridge reads with the caller's context, not with the
  one a permanent stream error cancels; `Deliver` never returns, ingestion stops
  and the process stays up (`pkg/sidecarstream/streamer.go:58`).
- `reprocess_noop`: re-processing a stored block is no no-op for policies, whose
  upsert overwrites; an older policy may replace a newer one of the same version
  (`pkg/db/queries/namespace_policies.sql:4`).  All its other rows do stay
  (`ReprocessingKeepsRows`).
- `tx_pages`: the transaction pages of a block show no transaction beyond the
  default limit (`ui/app/blocks/[id]/page.tsx:43`).
- `policy_search`: on the page of policies a click on the button of another
  namespace does not show its policies for long: the effect that reads the address
  runs again and searches for the namespace of the address
  (`ui/app/policies/page.tsx:47`).

Smaller divergences met while modelling, without a run: the comment at
`pkg/parser/parser.go:294` says that a committed transaction with an unparseable
rwset is not stored, where the code stores a minimal record, as
`parser_test.go:395` expects; the comment at `pkg/api/service.go:71` says MAX+1
where the code resumes at the first gap; `pkg/types/types.go:48` calls a height
what is a count; `to=0` of `GET /blocks` means unbounded (`rest.go:188`), so a list
cannot end at block 0; a committed config envelope has neither a transaction nor an
error row, as `parser.go:187` intends and `types.go:100` does not say; and a position
beyond the end of a block's filter has no row (`parser.go:142`), where the schema's
comment (`001_initial_schema.sql:123`) promises one, so `EveryPositionHasARow` is about
positions that have a status.

Over a gap, or with `start_block` above 0, the UI's lists are not the window they
name (an offset is not a block number), and the dashboard's recent transactions
fail on a missing block; the properties of `ui` are stated where no block is
missing, which `NoGap` names.  `ChannelPoliciesAreShown` excludes bytes that also
read as a signature policy that asks for someone: the decoder takes those first.

## 6. What is not modelled

- the transaction pages of the UI (one fetch each, no polling), its `/api` proxy,
  routing and rendering;
- columns that are copied from the envelope and shown: creator, nonce, signatures,
  hashes, sizes;
- file and environment reading of the configuration, flags, logging, HTTP routing
  and encoding, CORS, the health check, the OpenAPI document, images and scripts:
  no state;
- integer width: block numbers are natural numbers; the casts between `int64` and
  `uint64` matter only near 2^63.  Negative identity indexes of a policy rule
  (`policy_render.go:103`) do not occur in policies a committer accepted;
- idle and lifetime limits of pool connections; connections created lazily that
  fail to open are failures of the statement that asked for them;
- `postgres.go:100`, where Go leaves the order of evaluation of two operands open:
  the compiler's choice is fixed and is the intended one;
- overlapping requests of one client to the REST server: handlers share nothing.

## 7. Plan

1. *Proofs*: every invariant and action property is proved.  What is left are the
   steps from the safety cores of section 4 to the liveness properties, as measures
   that every step lowers: blocks not yet stored, statements left of a write, users
   before one in the queue of the pool.  The measures can be stated and proved as
   action properties; the conclusion needs a prover for fairness.
2. *Model*: the transaction pages of the UI; lifetime limits of connections, if the
   configuration comes to expose them.
