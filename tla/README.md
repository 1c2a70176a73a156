# A specification of migration-verifier

migration-verifier compares the documents of a source and of a destination
cluster while a replicator copies the one to the other and applications go on
writing. This directory models the logic that makes its verdict right and checks
it with TLC; what matters most is proved with TLAPS.

## 1. The system

| Component | Source (`src/internal/verifier/` unless said) | State | Operations |
|---|---|---|---|
| Driver | `check.go`, `generation.go` | `generation`, `lastGeneration`, `running`, `mux`; the persisted generation | `CheckDriver`, `CheckWorker`, `persistGenerationWhileLocked`, `readGeneration` |
| Workers and tasks | `check.go`, `verification_task.go`, `tasks/` | the tasks collection | `work`, `FindNextVerifyTaskAndUpdate`, `UpdateVerificationTask`, inserting tasks |
| Initial tasks and reset | `check.go`, `verification_task.go`, `reset.go` | the primary task, collection tasks | `CreateInitialTasksIfNeeded`, `ResetInProgressTasks` |
| Recheck queue | `recheck.go`, `recheck/` | one collection per generation | `insertRecheckDocs`, `GenerateRecheckTasks`, `DropCurrentGenRecheckQueue` |
| Change readers | `change_reader.go`, `change_stream.go`, `oplog_reader.go` | cursor, resume token, writes-off timestamp, batch channel | `start`, `iterateChangeStream`, `readAndHandleOneBatch`, `drainDocumentDBUntilQuiesced` |
| Change persistor | `recheck_persist.go` | last persisted time | `RunChangeEventPersistor`, `PersistChangeEvents` |
| Writes-off | `migration_verifier.go`, `webserver.go` | `writesOff` | `WritesOff` |
| Document comparison | `compare.go`, `comparator.go`, `bson_compare.go` | caches of unmatched documents | `FetchAndCompareDocuments`, `comparator.run`, `compareOneDocument` |
| Mismatch records | `mismatches.go`, `compare/` | the mismatches collection | `recordMismatches`, `SendDocumentMismatches`, `clearMismatchesForTask` |
| Partitioning | `partition.go`, `partition_walk.go`, `documentdb_id_range.go`, `internal/partitions/` | the partitioner's bound and cursor, partition tasks | `partitionCollection`, sampling, index walk, natural order; filters and resume tokens of the reads |
| Retry | `internal/retry/` | attempt counter, activity time | `Run` |
| Progress, statistics, logs | `progress.go`, `statistics.go`, `summary*.go` | event counts, last-rechecked times | reports |

How they interact. `Check` starts one goroutine for `CheckDriver`. It starts a
reader and a persistor goroutine per cluster, joined by a bounded channel; the
persistor turns a batch of change events into rechecks for the *next* generation.
Per generation `CheckWorker` runs a fixed number of workers that claim tasks from
the metadata database, and a poller that closes `generationDone`. A worker that
finds mismatches also enqueues rechecks for the next generation. The web server
calls `WritesOff`. `verifier.mux` orders all of them: whoever inserts rechecks
holds it for reading from choosing the queue to the last insert, the driver holds
it for writing while it increments the generation. Everything else goes through
the metadata database.

What is hard. The order of steps of driver, workers, readers and persistors;
crashes between any two writes to the metadata, which are never in a transaction;
the end of the verification, where writes-off, the last change events and the last
generation race; stale reads from secondaries; the age of a
mismatch, which travels from queue to task to record and back to the queue, with
retries at each hop. PROJECT.json lists each hazard at
its line.

## 2. Modules

### Generations.tla

The core: driver, workers, tasks, recheck queues, readers, persistors, writes-off
and crashes, for one collection.

* A cluster is the sequence `log` of the writes it has applied; a timestamp is a
  position in it, and the content of a document at a timestamp is that of its last
  write up to there. A resume token, a cluster time, and the timestamp after which
  a read must be are all positions.
* One task stands for one document (the code puts several in one task; they are
  claimed, compared and recorded as a whole). Generation 0's creator task is the
  VerifyCollection task, which partitions the collection; any later one's is the
  ProcessRecheckQueue task.
* A change event is compared with the generation it arrives in only through
  `RecheckGeneration`, as in the code. The read lock of `insertRecheckDocs` is
  the span from `BeginBatch` (or `BeginMismatchRecheck`) to the last insert;
  every action that needs the lock for writing has `NoReadLock` as a guard.
* `Crash` forgets all memory and keeps the metadata; `Start` is `CheckDriver` up to
  its loop, which holds the lock throughout and is idempotent, as one action.
  Its single steps are the subject of `InitialTasks`.
* Applications and the replicator are `Write`: they may do anything until
  writes-off. Nothing is said about the destination catching up; that is what
  the verifier is there to find out.

Left out here: retries of a task, a reader that reconnects (ChangeReader), what
goes on within one comparison (Comparator), the grouping of rechecks into tasks
(Rechecks), partitions (Partitions), collection metadata and index
comparison (InitialTasks), DDL events, namespace maps and filters.

| Property | Says |
|---|---|
| `TypeOK` | every variable keeps its type |
| `TokenCovered` | every change up to a persisted resume token is compared, or the metadata owes its comparison: a crash loses nothing |
| `FailureOwed` | outside the final generation, a failed task's document is in the next queue |
| `CreatorIsCurrent` | an unfinished creator task belongs to the generation that a restart resumes |
| `QueueClosed` | nothing is added to the queue of a generation that has begun |
| `VerdictSound` | ended with no failed task: the clusters agree |
| `VerdictExact` | a task failed in the final generation: the clusters differ in it |
| `LedgerKept` | the metadata implements `RecheckLedger` |
| `WritesOffFinishes` | once both readers know when writes ended, the verification ends |
| `RestartVerdictSound` | `VerdictSound` also when the final generation was interrupted: violated |

### ChangeReader.tla

One cluster's change reader and persistor, which `Generations` takes to read and
store one batch after the other. `kind`, chosen in Init among `Kinds`, is `changeStream`,
`oplog` or `documentDB`; all three share `change_reader.go` and the persistor and differ in
when a drain is over (`DrainOver`), in what a resume token says of time, and in what
happens when the history after the token is gone.

* `stream` is the cluster's sequence of change events, each with its
  `clusterTime`; a resume token is a position in it, the time that the token
  encodes, and the event counts persisted with it.
* `ReadSome` and `ReadAll` are one poll (`readAndHandleOneChangeEventBatch` and its
  oplog counterpart) together with the send into the bounded channel: nobody else
  touches what lies between. `Disconnect`, `LoadToken` and `Open` are the retryer's
  next attempt, which starts from the *persisted* token while old batches
  are still in the channel. A change stream whose history is gone fails for good
  (`OpenFails`). The oplog reader has no such check: `Open` goes on at the oldest entry that
  is left, and `skipped` (history) keeps the events it has passed over.
* `Insert` stores one event's recheck; the bulk inserts of a batch run side by side,
  so events are inserted in any order. `TakeCounts` and `ReplaceToken` are the two
  halves of persisting a token.
* External, and assumed: the server delivers events in order; a MongoDB
  post-batch token or no-op entry covers every event up to its time; `Trim`
  removes history at any time; events may share a time, except oplog entries
  (`SharedTimes`). A DocumentDB server may answer with nothing at most `MaxLull` times in a
  row while it has something to deliver: the drain waits for `docDBDrainIdlePolls` idle polls, and
  must expect the server to be silent for fewer (`LullAssumption`).
* `Crash` stands also for an error that is not transient. The final timestamp that
  `WritesOff` fetched is memory and is lost.

| Property | Says |
|---|---|
| `TokenDelivered` | every event up to the persisted token is `Delivered`, after any reconnects |
| `FenceDelivered` | when change handling ends, every event that is `Due` is `Delivered` |
| `DrainEnds` | a reader that knows the writes-off timestamp comes to its end, even when someone goes on writing |

An event is `Delivered` when its recheck is stored, or when an oplog reader has passed over it because
it was gone; no other reader may pass over anything. It is `Due` when it is not after the writes-off
timestamp; of several that have this very timestamp, DocumentDB owes only the first.
Section 5 says what these two exceptions mean for the verdict.

### InitialTasks.tla

How generation 0 gets its tasks. `Generations` has start-up as one step; here are the
writes it consists of. `FindPrimary`, `DeleteOneTask`, `FindCollections`,
`ResetCollection`, `ResetDocTask` are `ResetInProgressTasks` (`reset.go`);
`CreatePrimary`, `InsertCollectionTask`, `CompletePrimary` are
`CreateInitialTasksIfNeeded`. A `DeleteMany` or `UpdateMany` touches one document at a
time and may stop half-way. A worker claims a task (`ClaimCollection`,
`ClaimDocTask`), compares a collection's specification and indexes, inserts its
partitions one by one, and finishes it; a transient error makes it start the
collection over (`RetryCollection`), on top of the partitions it inserted before.

* Whether a namespace's documents can be compared at all (`comparable`) is fixed in
  Init; whether its metadata differs is chosen at each step. A collection on one
  side only ends the program: `Crash`.
* `redone` is history: the namespaces retried since their last reset, where two
  tasks for one partition are what the code leaves (and compares twice).
* `SetupInterrupted` and `ClaimErrors` let the set-up be interrupted and claims
  fail. The first leads to a finding, the second to a process that ends or a task that
  stays in progress (section 5); the properties they break are checked
  without them, and the others with them.

| Property | Says |
|---|---|
| `AllCompared` | when generation 0 is over every namespace has been compared; violated if the set-up is interrupted |
| `SetupAllOrNothing` | the workers see the tasks of all namespaces or of none |
| `AllPartitionsCompared` | a collection that has a task has every partition compared |
| `PartitionedOnce` | a restart never leaves two tasks for a partition |
| `ResultsKept` | what was compared in a fully partitioned collection is not compared again |
| `MetadataRecheckOwed` | a metadata mismatch is recorded only when its recheck exists |
| `GenerationEnds` | generation 0 ends |

### Comparator.tla

One document task from its worker's point of view down to the two cursors: the
readers, the comparator, the group and retryer that run them, and the worker that
takes the reports. Chosen in Init: what is wrong with each document, and whether
the partition is natural.

* A message is the set of its documents. Documents are numbered in reading
  order, so that a reader sends prefixes of what is left.
* `got` and `batch` are the two goroutines of `readBatches`: a round is over
  when both sides have answered, with documents, with padding, or with a closed channel. A
  cursor-done message does not end a side's turn, as in the code.
* The channels to the comparator have no buffer: a send and its receipt are
  one step (`Receive`). `ids` is the buffered channel of ids and `ingest` the report
  that `StartIngestMap`'s goroutine holds.
* The byte limit cuts messages short on `_id` readers only. A natural reply holds
  at most 16 MiB and the limit is 32 MiB.
* `CursorFails` closes the channel and `Fails` returns the error, in the order of
  the code. A reader may fail at any step, and the comparator cannot tell a channel
  that was closed by a failing reader from one that has delivered everything. `misled` (history) becomes
  TRUE in `SeeClosed` when it takes the one for the other: on `_id` readers when both
  ends are seen, since nothing is reported before; on natural ones at once. See section 5.
* Documents do not change during the task; that reads are recent enough is
  `Generations`' matter. Two reports of the same problem are one: the duplicates
  that the code's warning in `clearMismatchesIfRetryingTask` announces are
  not distinguished. The missing recheck of the final generation is in
  `Generations` too. The opening of a client before each attempt cannot fail.

| Property | Says |
|---|---|
| `RecordedExact` | a task that is over has recorded exactly what differs, and its rechecks are enqueued, unless `misled` |
| `ClosedWithProblems` | the assertion in `ProcessVerifyTask`: the results end without an empty report only if there were problems |
| `MemoryBounded` | under natural partitioning the caches exceed the limit by one reply at most, unless `misled` |
| `TaskEnds` | the task ends: no goroutine waits for another for ever, whichever documents are missing |

### Rechecks.tla

The recheck queue and the mismatch records over several generations: what
`Generations` takes for one task per document.

* `Change` is `insertRecheckDocs` for a change event, `Enqueued` for a mismatch. A row is a
  record of document, origin and time; rows that only their random field tells
  apart are one, since reading the same again changes nothing. Documents are numbered in
  the order of the queue's `_id`; the rows of one document come in any order,
  in another one at each attempt, which is what the random field makes of them.
* `ReadSameDoc`, `ReadNextDoc`, `ReadForNextTask` and `EndRows` are the loop of
  `GenerateRecheckTasks` with its accumulators `ids`, `first` and `latest`. A task ends
  before a document of another collection and at `maxRecheckIDs`; the limits on
  bytes are a choice, so that it may end, or an insertion may be sent, after any
  document. `SameDoc` comes first, as in the code: a full task still takes the rows of
  its last document.
* An insertion (`requests`) is a goroutine of the error group. It stores the first `k`
  tasks and fails, or is cut short when the group fails. `CursorFails` leaves the loop
  without waiting for the group: insertions of an earlier attempt may still take effect.
  `Redo` and `CursorFails` begin again without deleting earlier tasks, as the code does.
* `ProcessVerifyTask` is one step: a worker has its task to itself, and what it writes
  is read by others only in the next generation. `TaskFails` is the step that fails
  after any part of the records and rechecks are written; clearing the records may
  fail too (`unclear`).
* The clock of the mismatches ticks once per generation. `seen` and `changed` are
  history. Dropping the queue has no effect here, for nobody reads it again;
  the final generation enqueues nothing.

Excluded: `_id`s of different numeric types that compare equal. Their rows interleave in the
queue (section 5).

| Property | Says |
|---|---|
| `QueueCovered` | when the queue's task is completed, every row has a document task that waits for the row's change |
| `Unsplit` | one attempt puts a document into one task, once |
| `TasksUniform` | a task has documents of one collection, and at most `maxRecheckIDs` |
| `AgeSound` | a recorded first time is one since which the document was mismatched in every generation and did not change |
| `AgeKept` | a mismatch of an unchanged document keeps its age |
| `CountedOnce` | a retried task's mismatches are counted once, unless clearing them failed |
| `LedgerKept` | queue, tasks and workers implement `RecheckLedger` |

### RecheckLedger.tla

What the generation loop promises, in three actions: rechecks are owed during a generation
(`Owe`), are due in the next, where they are compared (`Compare`), and no generation begins
while something is due (`Turn`). Two modules implement it, each in its own terms:

* `Generations`, for documents. Generation, queue and tasks are those of the metadata database, so
  that a crash and a restart are steps within a generation. `Due` is the documents whose task is
  not over, and all of the generation's while its creator task is unfinished, for an interrupted
  one starts from scratch.
* `Rechecks`, for the rows of a queue. `Due` is the rows that no finished task covers.

### ChangeLedger.tla

What change handling promises of one cluster's changes, from the stream to the queue: a token
covers only what is stored (`Open`, `Persist`), though it may cover less than the one before; a crash
forgets at most what no token covers (`Crash`); and the handling ends when all up to the
writes-off timestamp is stored, after which nothing more is (`Finish`). Two modules implement it:

* `ChangeReader`, with `stored` the rechecks that `Insert` has stored and a token that goes back
  when a batch of an older stream comes after one of a newer. `over` is `HandlingDone`, so
  that the persistor's last `SkipToken` or `ReplaceToken` may be the step that ends it, as well as
  the reader's `Close`.
* `Generations`, for each of its clusters (`Changes` in `VerdictProofs`). There `stored` asks for more: a
  recheck was stored and the change is still compared or owed a comparison by the metadata (`Kept`).

So the readers that `Generations` has in a few actions promise what `ChangeReader` delivers.

### Partitions.tla

One collection in generation 0, from its size to the last read of its partitions, while
documents come and go.

* A document's position is its place in BSON order or, in natural order, its record
  ID. `Breaks` are the places where `_id`s of other types begin: a plain comparison
  matches only within the bracket of its operand. `version` stands for what a server
  can do (`$sampleRate`, `$_resumeAfter`, `$_startAt`, `$expr` filters).
* `BeginSampling`, `SampleNext`, `SampleEnd` are `createPartitionTasksWithSampleRateRetryable`;
  `BeginWalk`, `WalkNext`, `WalkEnd` the walk along a DocumentDB index, whose stride may be
  any number; `ListBounds`, `AddListed` the legacy partitioner; `WholeNatural`,
  `ReadTopRecordID`, `SampledReply`, `NaturalPartition`, `LastReply` natural order. Sampling and walk
  resume at the greatest upper bound stored (`LatestUpper`).
* `SampleFails` is a sampling cursor that fails once it is open. The code returns no error
  then (section 5): the partitioner is taken to be done, and `cut` remembers it.
* `RetryPartitioner` is the retryer inside a partitioner, for all other failures, `RetryCollection` that of the
  worker, which partitions again on top of the tasks there are; `Crash` is a restart,
  whose reset deletes the partitions of a collection in progress.
* `ReadById` uses the filter that `getQueryParameters` chooses: none for a capped
  collection, a plain range on DocumentDB if `idRangeFilterIsExact` (decided by
  `ReadExtremes` in an earlier step), expressions, or explicit types. `ReadNaturally` starts
  at its own resume token, at a prior one or at the beginning, and skips up to its
  partition.
* Only documents that nobody touches must be read; the others are
  rechecked in generation 1. A read is one step.

Left out: the global filter and the time-outs of counting with it, time-series buckets,
shard keys, the direct connection that a resume token asks for. Statistics may be
wrong: any collection may be taken for small or large.

| Property | Says |
|---|---|
| `ReadExact` | reading a partition finds every untouched document between its bounds, and none beyond |
| `FiltersAgree` | the filter with explicit types selects what the filter with expressions does |
| `Covered` | when all is read, every untouched document was; in natural order, and after a `cut`, up to the last upper bound |
| `Disjoint` | partitions share only their bounds, unless the whole task was retried |
| `TailCovered` | in natural order no document is beyond the last partition: violated |

### Proof modules

`GenerationsProofs`, `ChangeReaderProofs`, `InitialTasksProofs`, `ComparatorProofs`,
`RechecksProofs` and `PartitionsProofs` hold the theorems of section 4, and `VerdictProofs`,
which extends `GenerationsProofs`, those about the verdict. `NaturalProofs`, which extends
`ComparatorProofs`, has those about natural partitioning. `MCGenerations` adds the symmetry of
documents, `MCComparator` the choice of conditions under natural partitioning, `MCChangeReader` a bound on
DocumentDB's clock; none changes a definition.

## 3. Runs

| Run | Instance | Shows |
|---|---|---|
| `gen_crash` | 1 document, 2 workers, 1 write, 1 crash, up to 4 generations, fair | types, creator tasks, owed failures, closed queues; the verification ends after writes-off |
| `gen_docs` | 2 documents, 1 worker, 2 writes, 1 crash | no change is lost, the verdict is right in both directions, and the ledger is kept |
| `gen_restart` | 1 document, 2 writes, 1 crash | finding 1 |
| `readers` | 3 kinds, 2 events, 1 reconnect, 1 crash, channel of 1, history trimmed at any time | nothing up to the token or the fence is passed over, but for the two exceptions |
| `reader_late` | DocumentDB, a late writer, 1 event before it, fair | the drain ends |
| `tasks_crash` | 2 namespaces of 2 partitions, 2 workers, 1 crash, 1 transient error | every partition is compared, once, and keeps its result |
| `tasks_end` | 2 namespaces of 1 partition, 2 workers, 2 crashes also within the set-up, fair | all tasks or none; generation 0 ends |
| `tasks_setup` | as above, 1 worker, 1 crash in the set-up | finding 2 |
| `compare` | 3 documents, both partitionings, messages of 1, replies of up to 2, limit 1, 1 failure of any read or write, fair | exact records, bounded memory, no deadlock |
| `rechecks` | 3 documents in 2 collections, tasks of 2, insertions of 2, generations 0 to 2, 1 change of one document on each cluster, or one of them and an error in generation 1 | no recheck is lost or split; ages are right; counts are exact; the ledger is kept |
| `partitions` | 3 positions in 2 brackets of types, every kind of source, 2 insertions or deletions, or 1 and an error or crash | no gap, no overlap, exact reads |
| `partitions_tail` | as above, nothing changes or fails | finding 3 |

The bounds. A crash between any two writes is what the crash properties are
about, and one crash finds each such gap; a second matters where the recovery
itself may be interrupted, which is why `tasks_end` has two. Two workers are enough
for one to work while another claims, finishes or waits. Two documents are needed
for a batch, a queue or a task list that is cut in the middle. Two events with a
channel of one batch fill the channel and leave a stale batch for a
reconnect. In `compare` three documents with messages of one make replies of two
and one, so that the source runs ahead of the destination's cursor and a
message comes together with the cursor-done before it; a limit of one makes every
cursor flush. Under `_id` partitioning the documents are in every combination of conditions. Under
natural partitioning, which has several times the states, they are in the six of
`MCComparator`, which differ in what the rounds do: all pairs, none (a comparator that fills), a missing
document before and after found ones, in one reply and across two, and one on the destination
alone. In `rechecks` three documents and a limit of two fill a task and start the
next, within a collection and at its edge; the document that changes has up to three
rows, from both clusters and from a mismatch, in any order; three generations are what it
takes for an age to go from a record to the queue to a task to a record. In `partitions` a break
between two of three positions makes partitions whose bounds are of one type, of two, and
open; two changes make a boundary or the record of a token disappear and a document of
another type appear; one failure is enough to resume or start over at any point; both
together, which `MaxBoth` bounds, a partitioner that resumes where the collection has changed. Clocks go
one step beyond the last event, except DocumentDB's, which writes-off does not advance (`ClockBound`):
there they do so when there is one event, or two of one time. What the bounds cut off
are guards on history counters (`MaxWrites`, `MaxCrashes`, `MaxFailures`,
`MaxRetries`, `MaxChanges`, `MaxBoth`), except `MaxGen` and `SpinGen`, which end the loop of idle
generations, and `MaxCopies`, which limits the tasks that retries pile up.

Deadlock is not checked where the program ends; `WritesOffFinishes`, `DrainEnds`,
`GenerationEnds` and `TaskEnds` say that it ends where it should.

Fairness is that of goroutines: a step of a goroutine that stays possible is taken.
In `Generations` the driver, workers, readers, persistors and the loop that tells
the readers are weakly fair; writes, writes-off, the persistence of a token (which
the code skips within its interval), crashes and starts are not. In `ChangeReader` the
reader and the persistor are weakly fair, and a server that is polled over and over
sometimes delivers all it has (strong fairness of `ReadAll`, which a lull disables).
In `InitialTasks` the driver and the workers are; crashes and errors are not
and restarts are, since somebody has to start the verifier again. In `Comparator`
each goroutine of the group, the retryer, the ingest goroutine and the worker
are; no failure or stall is forced, and a reader whose context is cancelled sees it.

## 4. Proofs

All theorems are about arbitrary constants that satisfy the modules' assumptions.

| Theorem | Module | Says |
|---|---|---|
| `TypeCorrect` | all six | `TypeOK` |
| `CreatorsAreCurrent` | GenerationsProofs | `CreatorIsCurrent` |
| `FailuresAreOwed` | GenerationsProofs | `FailureOwed` |
| `QueuesStayClosed` | GenerationsProofs | `QueueClosed` |
| `LedgerImplemented` | GenerationsProofs, RechecksProofs | `LedgerKept` |
| `NoChangeLost` | VerdictProofs | `TokenCovered` |
| `VerdictIsSound`, `VerdictIsExact` | VerdictProofs | `VerdictSound`, `VerdictExact` |
| `ResumeSafe` | ChangeReaderProofs | `TokenDelivered` |
| `NothingLeft` | ChangeReaderProofs | `FenceDelivered` |
| `StreamLedgerKept` | ChangeReaderProofs | `ChangeReader` implements `ChangeLedger` |
| `ChangeLedgersKept` | VerdictProofs | the change handling of each cluster in `Generations` implements `ChangeLedger` |
| `NoPartitionLost`, `NoMismatchLost`, `SetupIsAtomic` | InitialTasksProofs | `AllPartitionsCompared`, `MetadataRecheckOwed`, `SetupAllOrNothing` |
| `EveryNamespaceCompared` | InitialTasksProofs | `AllCompared`, if `~SetupInterrupted` |
| `PartitionsOnce`, `ResultsStay` | InitialTasksProofs | `PartitionedOnce`, `ResultsKept` |
| `ClosedSound` | ComparatorProofs | `ClosedWithProblems` |
| `IdRecordedExact` | ComparatorProofs | `RecordedExact` under `_id` partitioning |
| `NaturalRecordedExact`, `AllRecordedExact` | NaturalProofs | `RecordedExact` under natural partitioning, and altogether |
| `MemoryIsBounded` | NaturalProofs | `MemoryBounded` |
| `QueueAllCovered`, `NeverSplit`, `TasksAreUniform` | RechecksProofs | `QueueCovered`, `Unsplit`, `TasksUniform` |
| `AgesSound`, `AgesKept` | RechecksProofs | `AgeSound`, `AgeKept` |
| `CountsExact` | RechecksProofs | `CountedOnce` |
| `ReadsExact`, `FiltersAlwaysAgree` | PartitionsProofs | `ReadExact`, `FiltersAgree` |
| `AllCovered`, `NoOverlap` | PartitionsProofs | `Covered`, `Disjoint` |

The arguments.

* Generations. `LockInv` says who holds `verifier.mux` and that a holder's
  target queue is that of the generation after the current one: so a queue
  that was turned into tasks gets nothing more. `CreatorInv` ties a creator
  task in progress to the one worker that has it. `FailureInv` says that a worker about to
  mark a task failed has already enqueued its document, and that no task exists
  beyond the generation a restart resumes. `QueueClosed` is an action property
  and follows from `LockInv` in one step. For the refinement, `LedgerInv` adds that the driver
  persists a generation only when the tasks of the one before are over, and that the
  queue after it is empty; every other step leaves `Due` as it is or shrinks it.
* Verdict. `CoverInv` follows every change whose recheck was `Stored` once: its document is
  `Waiting` in the metadata, or `Settled`, that is, compared at a time not before the change, and then the
  clusters `Agreed` on it at such times, or it is `Condemned`, failed in the final
  generation. That survives because a worker reads at or after what its cluster's reader has
  seen (`ReadsInv`): whatever is stored by then it has in its view, and whatever is stored
  later is in the next queue before it counts as stored. `TokenCovered` follows, for a token never passes
  what is stored (`PositionInv`). `FinalInv` says that the final generation begins when the
  logs are closed, read and stored to their ends and that nothing waits beyond it, so
  that there "not before every stored change" means the end of the log (`ContentNow`).
  `TasksInv` says that tasks exist for documents that have to be compared only.
  For `ChangeLedger`, what was once `Stored` is still `Kept` by `CoverInv`, so that the steps of
  tasks and workers, which touch neither tokens nor readers, leave the ledger alone.
* ChangeReader. `TokenDelivered` is not inductive, for the token comes from a batch and
  a batch from the stream. `DeliveryInv` says of every place a position can be in
  (the stream, each batch in the channel, the batch at hand, the loaded token)
  that all events up to it are `Delivered` or are in an earlier batch.
  `FenceDelivered` needs the times too: what a token's time promises of
  the events after it (`TokenTimeInv`), that the writes-off timestamp is not before any
  event (`FenceInv`), that `lastChangeEventTime`, which outlives the streams it was read from, is not
  past any event that was not sent (`LastInv`), and for DocumentDB that no more polls were
  idle than the server was silent for (`IdleInv`). That its lulls are shorter than the drain's
  patience is `LullAssumption`: without it nothing the code does could tell a lull from
  the end. The refinement adds that no position is ahead of the stream (`WithinInv`). An event that
  an oplog reader passes over is accounted for by its `Open`, and `FenceDelivered` after a step is
  what makes it a `Finish`.
* InitialTasks. `AllPartitionsCompared` speaks of the end only. The worker that
  partitions a collection alone has its task, the task is in progress until
  it is finished, and each partition it no longer has to insert has a task
  (`JobOK`, `OneWorkerInv`); only the reset of a task in progress deletes document
  tasks, and no worker runs then (`MemoryInv`). `ResultsKept` follows from the
  same invariant in one step. `PartitionedOnce` needs a second (`OnceInv`): a
  collection that waits for a worker has no document tasks, its worker has inserted none
  of those it still has to insert, and a task that is compared is in the metadata
  and has one worker. A retry within one run is all that breaks it.
* Comparator. `ClosedWithProblems` needs to know where the last report is while nobody
  has seen it (`Reporting`), and that only a cancelled group has a comparator that fails
  or a report that is dropped (`Cancelling`). For `RecordedExact`, `EndsInv` says that
  under `_id` partitioning a comparator that has seen both ends, and was not misled, has seen
  those of readers that delivered everything. `PairingInv` gives the comparator's caches as a function of what
  each side has delivered, so the one report is `Defects` (`LastReportWhole`), and
  `ReportsInv` and `SavesInv` follow it to the worker and to the metadata. No failure is
  assumed away: a reader fails at any step, and what an attempt that was not misled has reported
  before it is true, so the next attempt may repeat it.
* Natural partitioning. What is in the caches when the destination's cursor is done is reported
  as missing at once, so all rests on nothing of a later reply being there. `StepInv` counts:
  the messages the source has sent for the replies on their way are those that the destination
  has sent or has still to send for them, padding included, but for the one that the comparator
  has in hand. So when the destination reader has nothing more to send, what the source has sent of
  later replies has not been compared yet, at most two replies wait in `ids`, and nothing in
  the caches has a peer to come (`FlushInv`, from `PlaceInv`, which says where each document
  is on either side). `MemInv` counts what the caches hold together with what remains of the reply
  at hand, since the comparator looks at its limit only between replies. `WholeInv` follows every
  document of the source to the caches and every problem through `ingest` and `resultsChan`
  to the mismatches; `SoundInv` is the converse; `LastInv` says that an empty report is the
  last one, after which nothing is on its way. `CalmInv` ties these to a comparator that has not
  failed: the ends it has seen are then those of readers that are done, and a group is cancelled by
  a comparator or a reader that has failed, whose caches are thrown away.
* Rechecks. `QueueCovered` speaks of the tasks collection, but a task is first made of
  accumulators, then waits in the buffer, then in an insertion that may fail. What
  never changes of it, its `Entry`, is followed through these places: the entries of the
  current attempt, with the accumulators, cover the rows read so far unless an
  insertion has failed (`PlacedInv`), which `CompleteCreator` excludes. `NumbersInv`
  says that a number names one entry, wherever it is. The documents of one attempt come in
  the cursor's order (`AccumulatorsInv`), from which `EntriesInv` has `Unsplit`. For the
  ages, `HistoryInv` ties the rows of both queues to what was seen and changed in the
  generation before, and `EntryAges` and `AccumulatorAges` carry that to the tasks: a document with
  a change among its rows has no age, whichever row came first. `CountedOnce` needs that a
  task has records only once it is over (`RecordsInv`). The refinement rests on `QueueCovered`:
  when the workers find no task any more, every row is in one that is over.
* Partitions. `Covered` speaks of the end; `CoverInv` of every moment: the partitions
  stored reach without a gap from MinKey to the upper bound of each of them and to the
  partitioner's own bound, in whatever order and however often they were stored, so an
  attempt may resume at any such bound, and that one of them is MaxKey when partitioning has
  ended, unless it was `cut`. `OrderInv` says that no stored partition is beyond the
  cursor, from which `Disjoint` follows; a retry of the whole task loses that. `TaskOk`
  says what the extremes and the documents read are worth for those that nobody
  touched. `FiltersAgree` is a lemma about filters (`SameSortBracket` is an
  equivalence whose classes are intervals). Least and greatest elements of finite sets
  come from the well-foundedness of the order of the naturals.

Every invariant and action property of the passing runs has a theorem. Only model-checked is liveness
(`WritesOffFinishes`, `DrainEnds`, `GenerationEnds`, `TaskEnds`), which is
beyond the prover, like ENABLED, induction over data and RECURSIVE operators. No
module uses the latter. Conversely, the two refinements of `ChangeLedger` are proved, not run; the
invariants they rest on are those of the runs.

## 5. Findings

1. `RestartVerdictSound` (`gen_restart`, `migration_verifier.go:883`). The final
   generation enqueues no rechecks, and that it is the final one is not
   persisted. If the process dies in it after a document has failed, the resumed
   verification compares that document no more and may end with no failed task.
2. `AllCompared` (`tasks_setup`, `check.go:530`). After a crash between creating
   and completing the primary task no restart sets up the collection tasks, and
   generation 0 ends with nothing compared.
3. `TailCovered` (`partitions_tail`, `partitions/natural.go:229`). The loop over the
   replies of the natural scan ends at `!c.IsFinished()`, that is, before the reply
   that closes the cursor is looked at. The last partition, up to the top
   record ID, is never made: the records after the last sampled one are in no task.

Seen while reading. The first six are within the models and their runs. The first four are stated in the
properties as what they do not promise, and TLC finds the property violated as soon as the
condition is dropped.

* An oplog reader that opens its cursor again does not look whether the oplog still has what
  follows its token (`oplog_reader.go:201-243`; a change stream does, `change_stream.go:586`). It
  goes on at the oldest entry left, and the changes before are never rechecked. Nor
  does it take a restart: a cursor that falls behind the capped collection fails with
  `CappedPositionLost`, which counts as transient (`internal/util/error.go:248`), so that the retryer
  opens it again (`skipped` in `Delivered`).
* DocumentDB's drain stops at the first event that has the writes-off timestamp
  (`change_stream.go:476`; the comment at line 427 says that all of them are read); others of the
  same time may be still to come, and are never rechecked (`Due`).
* A sampling cursor that fails once it is open ends partitioning as a success
  (`partition.go:238`): what is wrapped is the error of the last insertion, which is nil, so
  that neither a retry nor the partition up to MaxKey follows, and the collection task is completed.
  The documents after the last bound, all of them if it failed before the first, are in no task
  (`cut` in `Covered`).
* A reader that fails closes its channel before it returns the error (`compare.go:575`; natural
  readers by a defer). The comparator takes what it has for everything. It may report
  documents as missing that were not read, and the worker records them before the retry; or, when
  nothing was left over on either side, it sends the empty report on which the worker completes the
  task, though documents are missing (`misled` in `RecordedExact` and `MemoryBounded`).
* A transient error in a claim makes the retry decode into nil, which ends the process
  (`verification_task.go:272`); if the answer to a claim gets lost, the task stays in progress with no
  worker and the generation never ends (`verification_task.go:252`) (`GenerationEnds`, whose run therefore has
  `ClaimErrors` FALSE).
* For an empty collection, natural order's partitioner returns no channel
  (`partitions/natural.go:146`), and `partitionCollection` reads from it for ever
  (`migration_verifier.go:1846`): `step` is "waiting" in `Partitions`.

The rest is in no model.

* `_id`s of different numeric types that are equal, such as 1 and 1.0, have rows
  that interleave, so that a document may be in two tasks and a change on one need not reset the age on
  the other (`recheck.go:520`; `compare_lookup.go:16` says that they are one document).
* A capped DocumentDB collection that is small is read in natural order all the same, and
  a capped collection larger than a partition is compared once per partition when
  it is sampled (`partitions/partition.go:60`).
* A document whose `_id` is MinKey is matched by no explicit-type filter, which "should
  yield the same result" as the one by expressions (`partitions/partition.go:256`).
* `CheckDriver` returns with the mutex held when the generation cannot be persisted, and
  its deferred function locks it again (`check.go:369`).
* `WritesOff` that fails half-way cannot be called again (`migration_verifier.go:362`).
* An insertion of recheck tasks that is repeated after its answer was lost fails with a duplicate
  key, which is not transient and ends the process; a restart makes up for it.
* `curTasksBytes` is never reset (`recheck.go:484`), so that after one full request each
  recheck task is inserted by itself.
* After the last generation `/docMismatches` reports the one before (`mismatches.go:533`).
* A sharded destination may hold two documents of one `_id`, and then the natural
  comparison's assertion ends the process (`compare.go:457`).
* A reconnect overwrites the persistor's event counts (`change_reader.go:537`), which only
  the progress report uses.

## 6. Plan

In this order:

1. `WritesOff` and the locks: its two phases with failures, a second call, `/check` not
   yet called; `changeHandlingErr` and the contexts that end the workers.
2. DDL events, and the namespaces they concern.

The generations of `Rechecks` and those of `Generations` are kept apart: each alone has millions of
states, and what the one needs of the other is small. `Rechecks` takes the
queue to be closed when its generation begins, which is `QueueClosed`; `Generations` takes every
row of the queue to get a task, which is `QueueCovered`. Both implement `RecheckLedger`.

Not modelled, and not planned: reading shard keys and comparing index specifications field by
field (`sharding.go`, `internal/collspec`), BSON and key-string conversions, progress reports, logs and
statistics, the web server's routing, start-up checks of server versions and
options: pure functions or output without influence on what is compared.
