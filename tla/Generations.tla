----------------------------- MODULE Generations -----------------------------
(***************************************************************************)
(* The generation loop of migration-verifier: internal/verifier/check.go,  *)
(* recheck.go, recheck_persist.go, verification_task.go, reset.go,         *)
(* generation.go and the writes-off call of migration_verifier.go.         *)
(*                                                                         *)
(* One verifier process compares the documents of a source and of a        *)
(* destination cluster while both still change.  The state that survives a *)
(* crash lives in a metadata database: the persisted generation, the tasks,*)
(* one recheck queue per generation and one resume token per cluster.      *)
(* Everything else is memory and is lost.                                  *)
(*                                                                         *)
(* A cluster is its log: the sequence of document writes it has applied.   *)
(* A timestamp is a position in the log, so the content of a document at a *)
(* timestamp is the value of its last write up to that position.           *)
(***************************************************************************)
EXTENDS Integers, Sequences, FiniteSets

CONSTANTS
    Doc,          \* documents, by _id
    Val,          \* document contents
    Absent,       \* the content of a document that does not exist
    Worker,       \* the worker goroutines of CheckWorker
    None,         \* no value
    SpinGen,      \* bound: no generation after this one begins before writes-off
    MaxGen,       \* bound: the last generation number there can be
    MaxWrites,    \* bound: writes applied to the two clusters together
    MaxCrashes    \* bound: crashes of the verifier process

Cluster == {"src", "dst"}

Event == [doc : Doc, val : Val]

Gen == 0..MaxGen

\* Queue names: PersistChangeEvents and ProcessVerifyTask write ahead by one.
QueueGen == 1..(MaxGen + 1)

\* A batch of changes that a persistor is storing.
BatchState == [upTo : Nat, pending : SUBSET Doc, target : QueueGen]

TaskStatus == {"none", "added", "processing", "completed", "failed"}

ASSUME BoundsAssumption ==
    /\ SpinGen \in Nat
    /\ MaxGen \in Nat
    /\ MaxWrites \in Nat
    /\ MaxCrashes \in Nat

ASSUME ContentAssumption == /\ Absent \in Val
                            /\ None \notin Doc
                            /\ None \notin Nat

ASSUME BatchAssumption == None \notin BatchState

VARIABLES
    \* --- the clusters (external) ---
    log,            \* [Cluster -> Seq(Event)]: the writes each has applied
    frozen,         \* writes-off was requested: nobody writes any more
    \* --- the metadata database: survives a crash ---
    persistedGen,   \* the generation document, or None
    creator,        \* [Gen -> status] of the task that creates the document
                    \* tasks: VerifyCollection in generation 0, else
                    \* ProcessRecheckQueue
    docTask,        \* [Gen -> [Doc -> status]] of VerifyDocuments tasks
    queue,          \* [QueueGen -> SUBSET Doc]: recheckQueue_gen<n>
    token,          \* [Cluster -> position or None]: persisted resume tokens
    \* --- CheckDriver and its mutex: memory ---
    pc,             \* where CheckDriver is
    locked,         \* CheckDriver holds verifier.mux for writing
    generation,
    lastGeneration,
    writesOff,      \* how far WritesOff got; verifier.writesOff = (# "none")
    finalTs,        \* the cluster times WritesOff fetched
    genDone,        \* CheckWorker's generationDone channel is closed
    \* --- goroutines: memory ---
    worker,         \* [Worker -> what it does]
    pos,            \* [Cluster -> position the change reader has read up to]
    readerDone,     \* [Cluster -> BOOLEAN] the reader closed its channel
    handled,        \* [Cluster -> position RunChangeEventPersistor got to]
    batch,          \* [Cluster -> the batch the persistor is inserting, or None]
    \* --- history ---
    compared,       \* [Cluster -> [Doc -> latest timestamp a recorded
                    \* comparison read that document at]]
    cutShort,       \* a crash hit the final generation after it had failed a task
    crashes

env      == <<log, frozen>>
durable  == <<persistedGen, creator, docTask, queue, token>>
driver   == <<pc, locked, generation, lastGeneration, genDone>>
request  == <<writesOff, finalTs>>
readers  == <<pos, readerDone>>
persists == <<handled, batch>>
history  == <<compared, cutShort, crashes>>

vars == <<env, durable, driver, request, worker, readers, persists, history>>

-----------------------------------------------------------------------------
(* Documents and clusters *)

\* The content of document d on cluster c at timestamp t.
ContentAt(c, d, t) ==
    LET writes == {i \in 1..t : log[c][i].doc = d}
    IN  IF writes = {} THEN Absent
        ELSE log[c][CHOOSE i \in writes : \A j \in writes : j <= i].val

Content(c, d) == ContentAt(c, d, Len(log[c]))

\* External: an application (on the source) or the replicator (on the
\* destination) writes.  Writes-off is called once both have stopped.
Write(c, d, v) ==
    /\ ~frozen
    /\ Len(log["src"]) + Len(log["dst"]) < MaxWrites
    /\ v # Content(c, d)
    /\ log' = [log EXCEPT ![c] = Append(@, [doc |-> d, val |-> v])]
    /\ UNCHANGED <<frozen, durable, driver, request, worker, readers, persists, history>>

-----------------------------------------------------------------------------
(* Workers and tasks: helpers *)

Idle   == [pc |-> "idle",   doc |-> None, at |-> [c \in Cluster |-> None], target |-> None]
Exited == [pc |-> "exited", doc |-> None, at |-> [c \in Cluster |-> None], target |-> None]

\* The goroutines that hold verifier.mux for reading: insertRecheckDocs keeps
\* the read lock from reading the generation to the last insert.
InsertingWorkers  == {w \in Worker : worker[w].pc = "insert"}
InsertingClusters == {c \in Cluster : batch[c] # None}

\* Mutant: the persistors insert without the read lock.
NoReadLock_Unlocked == InsertingWorkers = {}

NoReadLock == InsertingWorkers = {} /\ InsertingClusters = {}

Unfinished(g) ==
    \/ creator[g] \in {"added", "processing"}
    \/ \E d \in Doc : docTask[g][d] \in {"added", "processing"}

\* insertRecheckDocs: "We enqueue for the generation after the current one."
RecheckGeneration == generation + 1

\* The documents the creator task of generation g must make tasks for.
ToCreate(g) == IF g = 0 THEN Doc ELSE queue[g]

-----------------------------------------------------------------------------
(* CheckDriver *)

\* readGeneration: the generation a restart resumes.
DurableGen == IF persistedGen = None THEN 0 ELSE persistedGen

\* Mutant: the status that comments call "pending".
ResetStatus_Pending(status) == IF status = "processing" THEN "pending" ELSE status

\* defaultTaskUpdate, of the tasks ResetInProgressTasks finds in progress.
ResetStatus(status) == IF status = "processing" THEN "added" ELSE status

ResetCreator == [g \in Gen |-> ResetStatus(creator[g])]

\* An unfinished creator task starts over: its document tasks are deleted.
ResetDocTask ==
    [g \in Gen |-> [d \in Doc |->
        IF creator[g] = "processing" THEN "none" ELSE ResetStatus(docTask[g][d])]]

\* CheckDriver up to its loop, under verifier.mux: read the generation, start
\* the change readers, reset in-progress tasks, create the initial tasks.
Start ==
    /\ pc = "down"
    /\ generation' = DurableGen
    /\ token' = [c \in Cluster |-> IF token[c] = None THEN Len(log[c]) ELSE token[c]]
    /\ pos' = token'
    /\ handled' = token'
    /\ creator' = IF creator[0] = "none" THEN [ResetCreator EXCEPT ![0] = "added"]
                                         ELSE ResetCreator
    /\ docTask' = ResetDocTask
    /\ locked' = TRUE
    /\ pc' = "persist"
    /\ UNCHANGED <<env, persistedGen, queue, lastGeneration, genDone, request,
                   worker, readerDone, batch, history>>

\* Mutant: the generation is persisted by the first generation only.
PersistGeneration_Once ==
    /\ pc = "persist"
    /\ persistedGen' = DurableGen
    /\ locked' = FALSE
    /\ genDone' = FALSE
    /\ worker' = [w \in Worker |-> Idle]
    /\ pc' = "check"
    /\ UNCHANGED <<env, creator, docTask, queue, token, generation, lastGeneration,
                   request, readers, persists, history>>

\* persistGenerationWhileLocked, Unlock, then CheckWorker starts its workers.
PersistGeneration ==
    /\ pc = "persist"
    /\ persistedGen' = generation
    /\ locked' = FALSE
    /\ genDone' = FALSE
    /\ worker' = [w \in Worker |-> Idle]
    /\ pc' = "check"
    /\ UNCHANGED <<env, creator, docTask, queue, token, generation, lastGeneration,
                   request, readers, persists, history>>

\* CheckWorker's status poller: GetVerificationStatus, then close(generationDone).
CloseGenerationDone ==
    /\ pc = "check"
    /\ ~genDone
    /\ ~Unfinished(generation)
    /\ genDone' = TRUE
    /\ UNCHANGED <<env, durable, pc, locked, generation, lastGeneration, request,
                   worker, readers, persists, history>>

CheckWorkerReturned == genDone /\ \A w \in Worker : worker[w].pc = "exited"

\* Mutants: only the source is awaited; the readers are, the persistors are not.
ChangeHandlingDone_SourceOnly ==
    readerDone["src"] /\ handled["src"] = pos["src"] /\ batch["src"] = None
ChangeHandlingDone_ReadersOnly == \A c \in Cluster : readerDone[c]

\* changeHandlingErr: both readers and both persistors have returned.
ChangeHandlingDone ==
    \A c \in Cluster : readerDone[c] /\ handled[c] = pos[c] /\ batch[c] = None

\* The final generation is over.
Finish ==
    /\ pc = "check"
    /\ CheckWorkerReturned
    /\ NoReadLock
    /\ lastGeneration
    /\ pc' = "done"
    /\ UNCHANGED <<env, durable, locked, generation, lastGeneration, genDone, request,
                   worker, readers, persists, history>>

\* Writes are off: the driver must let the change readers finish first.
AwaitChangeHandling ==
    /\ pc = "check"
    /\ CheckWorkerReturned
    /\ NoReadLock
    /\ ~lastGeneration
    /\ writesOff # "none"
    /\ pc' = "await"
    /\ UNCHANGED <<env, durable, locked, generation, lastGeneration, genDone, request,
                   worker, readers, persists, history>>

\* Take the lock, increment the generation and, in the same critical section,
\* ensureCreateRecheckTaskIfNeeded.
Advance(last) ==
    /\ NoReadLock
    /\ generation < MaxGen
    /\ locked' = TRUE
    /\ lastGeneration' = last
    /\ generation' = generation + 1
    /\ creator' = IF queue[generation + 1] = {} THEN creator
                  ELSE [creator EXCEPT ![generation + 1] =
                            IF @ \in {"none", "processing"} THEN "added" ELSE @]
    /\ pc' = "persist"
    /\ UNCHANGED <<env, persistedGen, docTask, queue, token, genDone, request, worker,
                   readers, persists, history>>

NextGeneration ==
    /\ pc = "check"
    /\ CheckWorkerReturned
    /\ ~lastGeneration
    /\ writesOff = "none"
    /\ generation < SpinGen
    /\ Advance(FALSE)

FinalGeneration ==
    /\ pc = "await"
    /\ ChangeHandlingDone
    /\ Advance(TRUE)

-----------------------------------------------------------------------------
(* Worker goroutines *)

\* FindNextVerifyTaskAndUpdate claims the task that creates document tasks.
ClaimCreator(w) ==
    /\ pc = "check"
    /\ worker[w].pc = "idle"
    /\ creator[generation] = "added"
    /\ creator' = [creator EXCEPT ![generation] = "processing"]
    /\ worker' = [worker EXCEPT ![w].pc = "create"]
    /\ UNCHANGED <<env, persistedGen, docTask, queue, token, driver, request, readers,
                   persists, history>>

\* FindNextVerifyTaskAndUpdate claims a document task.
ClaimDocTask(w, d) ==
    /\ pc = "check"
    /\ worker[w].pc = "idle"
    /\ docTask[generation][d] = "added"
    /\ docTask' = [docTask EXCEPT ![generation][d] = "processing"]
    /\ worker' = [worker EXCEPT ![w].pc = "compare", ![w].doc = d]
    /\ UNCHANGED <<env, persistedGen, creator, queue, token, driver, request, readers,
                   persists, history>>

\* No task found, and the generation is over.
ExitWorker(w) ==
    /\ worker[w].pc = "idle"
    /\ genDone
    /\ creator[generation] # "added"
    /\ \A d \in Doc : docTask[generation][d] # "added"
    /\ worker' = [worker EXCEPT ![w] = Exited]
    /\ UNCHANGED <<env, durable, driver, request, readers, persists, history>>

\* partitionCollection or GenerateRecheckTasks: one document task is inserted.
CreateDocTask(w, d) ==
    /\ worker[w].pc = "create"
    /\ d \in ToCreate(generation)
    /\ docTask[generation][d] = "none"
    /\ docTask' = [docTask EXCEPT ![generation][d] = "added"]
    /\ UNCHANGED <<env, persistedGen, creator, queue, token, driver, request, worker,
                   readers, persists, history>>

\* UpdateVerificationTask persists the creator as completed ...
CompleteCreator(w) ==
    /\ worker[w].pc = "create"
    /\ \A d \in ToCreate(generation) : docTask[generation][d] # "none"
    /\ creator' = [creator EXCEPT ![generation] = "completed"]
    /\ worker' = [worker EXCEPT ![w] =
                     IF generation = 0 THEN Idle ELSE [@ EXCEPT !.pc = "drop"]]
    /\ UNCHANGED <<env, persistedGen, docTask, queue, token, driver, request, readers,
                   persists, history>>

\* ... and only then DropCurrentGenRecheckQueue.
DropQueue(w) ==
    /\ worker[w].pc = "drop"
    /\ queue' = [queue EXCEPT ![generation] = {}]
    /\ worker' = [worker EXCEPT ![w] = Idle]
    /\ UNCHANGED <<env, persistedGen, creator, docTask, token, driver, request, readers,
                   persists, history>>

\* FetchAndCompareDocuments reads the document from one cluster.  The read
\* concern is afterClusterTime = what that cluster's change reader has seen, so
\* a secondary may answer with any content from there on.
ReadDoc(w, c, t) ==
    /\ worker[w].pc = "compare"
    /\ worker[w].at[c] = None
    /\ t \in pos[c]..Len(log[c])
    /\ worker' = [worker EXCEPT ![w].at[c] = t]
    /\ UNCHANGED <<env, durable, driver, request, readers, persists, history>>

ReadBoth(w) == \A c \in Cluster : worker[w].at[c] # None

Match(w) ==
    ContentAt("src", worker[w].doc, worker[w].at["src"])
        = ContentAt("dst", worker[w].doc, worker[w].at["dst"])

\* ProcessVerifyTask records the outcome of w's task with the given status.
Record(w, status) ==
    /\ docTask' = [docTask EXCEPT ![generation][worker[w].doc] = status]
    /\ compared' = [c \in Cluster |-> [compared[c] EXCEPT ![worker[w].doc] =
                        IF @ < worker[w].at[c] THEN worker[w].at[c] ELSE @]]
    /\ worker' = [worker EXCEPT ![w] = Idle]
    /\ UNCHANGED <<env, persistedGen, creator, queue, token, driver, request, readers,
                   persists, cutShort, crashes>>

\* No problem found: the task is Completed.
CompleteDocTask(w) ==
    /\ worker[w].pc = "compare"
    /\ ReadBoth(w)
    /\ Match(w)
    /\ Record(w, "completed")

\* A mismatch outside the final generation: InsertFailedCompareRecheckDocs
\* takes the read lock and picks the queue ...
BeginMismatchRecheck(w) ==
    /\ worker[w].pc = "compare"
    /\ ReadBoth(w)
    /\ ~Match(w)
    /\ ~lastGeneration
    /\ ~locked
    /\ worker' = [worker EXCEPT ![w].pc = "insert", ![w].target = RecheckGeneration]
    /\ UNCHANGED <<env, durable, driver, request, readers, persists, history>>

\* ... the insert is acknowledged ...
InsertMismatchRecheck(w) ==
    /\ worker[w].pc = "insert"
    /\ queue' = [queue EXCEPT ![worker[w].target] = @ \cup {worker[w].doc}]
    /\ worker' = [worker EXCEPT ![w].pc = "fail"]
    /\ UNCHANGED <<env, persistedGen, creator, docTask, token, driver, request, readers,
                   persists, history>>

\* Mutant: the task fails whether or not its recheck is enqueued.
FailDocTask_Unqueued(w) ==
    /\ \/ worker[w].pc = "fail"
       \/ worker[w].pc = "compare" /\ ReadBoth(w) /\ ~Match(w)
    /\ Record(w, "failed")

\* ... and only then the task becomes Failed.  In the final generation nothing
\* is enqueued.
FailDocTask(w) ==
    /\ \/ worker[w].pc = "fail"
       \/ worker[w].pc = "compare" /\ ReadBoth(w) /\ ~Match(w) /\ lastGeneration
    /\ Record(w, "failed")

-----------------------------------------------------------------------------
(* Change readers and persistors *)

Running == pc \in {"check", "await", "persist", "done"}

\* Mutant: the destination's reader is never told.
Told_SourceOnly(c) == writesOff = "sent" /\ c = "src"

\* WritesOff has handed the cluster's final timestamp to its reader.
Told(c) == \/ writesOff = "sent"
           \/ writesOff = "dst" /\ c = "src"

\* The reader receives a batch and sends it to the persistor's channel.
ReadBatch(c, t) ==
    /\ Running
    /\ ~readerDone[c]
    /\ t \in (pos[c] + 1)..Len(log[c])
    /\ pos' = [pos EXCEPT ![c] = t]
    /\ UNCHANGED <<env, durable, driver, request, worker, readerDone, persists, history>>

\* The reader has been told the final timestamp, has reached it, and closes.
CloseReader(c) ==
    /\ Running
    /\ ~readerDone[c]
    /\ Told(c)
    /\ pos[c] >= finalTs[c]
    /\ readerDone' = [readerDone EXCEPT ![c] = TRUE]
    /\ UNCHANGED <<env, durable, driver, request, worker, pos, persists, history>>

\* PersistChangeEvents: take a batch from the channel, then the read lock and
\* the queue to write to.
BeginBatch(c, t) ==
    /\ Running
    /\ ~locked
    /\ batch[c] = None
    /\ t \in (handled[c] + 1)..pos[c]
    /\ batch' = [batch EXCEPT ![c] =
                    [upTo    |-> t,
                     pending |-> {log[c][i].doc : i \in (handled[c] + 1)..t},
                     target  |-> RecheckGeneration]]
    /\ UNCHANGED <<env, durable, driver, request, worker, readers, handled, history>>

\* Bulk inserts run in parallel: the documents reach the queue in any order.
InsertRecheck(c, d) ==
    /\ batch[c] # None
    /\ d \in batch[c].pending
    /\ queue' = [queue EXCEPT ![batch[c].target] = @ \cup {d}]
    /\ batch' = [batch EXCEPT ![c].pending = @ \ {d}]
    /\ UNCHANGED <<env, persistedGen, creator, docTask, token, driver, request, worker,
                   readers, handled, history>>

EndBatch(c) ==
    /\ batch[c] # None
    /\ batch[c].pending = {}
    /\ handled' = [handled EXCEPT ![c] = batch[c].upTo]
    /\ batch' = [batch EXCEPT ![c] = None]
    /\ UNCHANGED <<env, durable, driver, request, worker, readers, history>>

\* Mutant: the position read instead of the position handled.
Persistable_Read(c) == pos[c]

\* The resume token of the last batch the persistor has handled.
Persistable(c) == handled[c]

\* persistResumeTokenIfNeeded: throttled, and a failure is only logged, so it
\* may or may not happen after a batch.
PersistToken(c) ==
    /\ Running
    /\ batch[c] = None
    /\ token[c] < Persistable(c)
    /\ token' = [token EXCEPT ![c] = Persistable(c)]
    /\ UNCHANGED <<env, persistedGen, creator, docTask, queue, driver, request, worker,
                   readers, persists, history>>

-----------------------------------------------------------------------------
(* WritesOff, and the end of the process *)

\* Under the lock: set the flag and fetch both cluster times.
WritesOff ==
    /\ Running
    /\ ~locked
    /\ NoReadLock
    /\ writesOff = "none"
    /\ frozen' = TRUE
    /\ writesOff' = "src"
    /\ finalTs' = [c \in Cluster |-> Len(log[c])]
    /\ UNCHANGED <<log, durable, driver, worker, readers, persists, history>>

\* Outside the lock: tell the source's reader, then the destination's.
TellReader ==
    \/ /\ writesOff = "src"
       /\ writesOff' = "dst"
       /\ UNCHANGED <<env, durable, driver, finalTs, worker, readers, persists, history>>
    \/ /\ writesOff = "dst"
       /\ writesOff' = "sent"
       /\ UNCHANGED <<env, durable, driver, finalTs, worker, readers, persists, history>>

\* The process dies: an out-of-memory kill, or the Fatal that Check logs for
\* any error CheckDriver returns.
Crash ==
    /\ pc \notin {"down", "done"}
    /\ crashes < MaxCrashes
    /\ crashes' = crashes + 1
    /\ cutShort' = \/ cutShort
                   \/ /\ lastGeneration
                      /\ \E d \in Doc : docTask[generation][d] = "failed"
    /\ pc' = "down"
    /\ locked' = FALSE
    /\ generation' = 0
    /\ lastGeneration' = FALSE
    /\ genDone' = FALSE
    /\ writesOff' = "none"
    /\ finalTs' = [c \in Cluster |-> 0]
    /\ worker' = [w \in Worker |-> Exited]
    /\ pos' = [c \in Cluster |-> 0]
    /\ readerDone' = [c \in Cluster |-> FALSE]
    /\ handled' = [c \in Cluster |-> 0]
    /\ batch' = [c \in Cluster |-> None]
    /\ UNCHANGED <<env, durable, compared>>

-----------------------------------------------------------------------------
Init ==
    /\ log = [c \in Cluster |-> <<>>]
    /\ frozen = FALSE
    /\ persistedGen = None
    /\ creator = [g \in Gen |-> "none"]
    /\ docTask = [g \in Gen |-> [d \in Doc |-> "none"]]
    /\ queue = [g \in QueueGen |-> {}]
    /\ token = [c \in Cluster |-> None]
    /\ pc = "down"
    /\ locked = FALSE
    /\ generation = 0
    /\ lastGeneration = FALSE
    /\ writesOff = "none"
    /\ finalTs = [c \in Cluster |-> 0]
    /\ genDone = FALSE
    /\ worker = [w \in Worker |-> Exited]
    /\ pos = [c \in Cluster |-> 0]
    /\ readerDone = [c \in Cluster |-> FALSE]
    /\ handled = [c \in Cluster |-> 0]
    /\ batch = [c \in Cluster |-> None]
    /\ compared = [c \in Cluster |-> [d \in Doc |-> 0]]
    /\ cutShort = FALSE
    /\ crashes = 0

DriverStep == \/ PersistGeneration
              \/ CloseGenerationDone
              \/ Finish
              \/ AwaitChangeHandling
              \/ NextGeneration
              \/ FinalGeneration

WorkerStep(w) ==
    \/ ClaimCreator(w)
    \/ ExitWorker(w)
    \/ CompleteCreator(w)
    \/ DropQueue(w)
    \/ CompleteDocTask(w)
    \/ BeginMismatchRecheck(w)
    \/ InsertMismatchRecheck(w)
    \/ FailDocTask(w)
    \/ \E d \in Doc : ClaimDocTask(w, d)
    \/ \E d \in Doc : CreateDocTask(w, d)
    \/ \E c \in Cluster : \E t \in 0..Len(log[c]) : ReadDoc(w, c, t)

ReaderStep(c) ==
    \/ \E t \in 0..Len(log[c]) : ReadBatch(c, t)
    \/ CloseReader(c)

PersistorStep(c) ==
    \/ \E t \in 0..Len(log[c]) : BeginBatch(c, t)
    \/ \E d \in Doc : InsertRecheck(c, d)
    \/ EndBatch(c)

Next ==
    \/ \E c \in Cluster, d \in Doc, v \in Val : Write(c, d, v)
    \/ Start
    \/ DriverStep
    \/ \E w \in Worker : WorkerStep(w)
    \/ \E c \in Cluster : ReaderStep(c) \/ PersistorStep(c) \/ PersistToken(c)
    \/ WritesOff
    \/ TellReader
    \/ Crash

Spec == Init /\ [][Next]_vars

\* Goroutines that are started keep running; nobody must write, call WritesOff,
\* persist a token, or restart the process.
Fairness ==
    /\ WF_vars(DriverStep)
    /\ \A w \in Worker : WF_vars(WorkerStep(w))
    /\ \A c \in Cluster : WF_vars(ReaderStep(c)) /\ WF_vars(PersistorStep(c))
    /\ WF_vars(TellReader)

FairSpec == Spec /\ Fairness

-----------------------------------------------------------------------------
(* Properties *)

\* A worker without a document task; one that compares a document, having read
\* it from neither, one or both clusters; and one that has found a mismatch.
ParkedState    == [pc : {"exited", "idle", "create", "drop"}, doc : {None},
                   at : [Cluster -> {None}], target : {None}]
ComparingState == [pc : {"compare"}, doc : Doc, at : [Cluster -> Nat \cup {None}],
                   target : {None}]
FailingState   == [pc : {"insert", "fail"}, doc : Doc, at : [Cluster -> Nat],
                   target : QueueGen]

WorkerState == ParkedState \cup ComparingState \cup FailingState

\* Every variable has the type its comment gives.
TypeOK ==
    /\ log \in [Cluster -> Seq(Event)]
    /\ frozen \in BOOLEAN
    /\ persistedGen \in Gen \cup {None}
    /\ creator \in [Gen -> TaskStatus]
    /\ docTask \in [Gen -> [Doc -> TaskStatus]]
    /\ queue \in [QueueGen -> SUBSET Doc]
    /\ token \in [Cluster -> Nat \cup {None}]
    /\ pc \in {"down", "persist", "check", "await", "done"}
    /\ locked \in BOOLEAN
    /\ generation \in Gen
    /\ lastGeneration \in BOOLEAN
    /\ writesOff \in {"none", "src", "dst", "sent"}
    /\ finalTs \in [Cluster -> Nat]
    /\ genDone \in BOOLEAN
    /\ worker \in [Worker -> WorkerState]
    /\ pos \in [Cluster -> Nat]
    /\ readerDone \in [Cluster -> BOOLEAN]
    /\ handled \in [Cluster -> Nat]
    /\ batch \in [Cluster -> BatchState \cup {None}]
    /\ compared \in [Cluster -> [Doc -> Nat]]
    /\ cutShort \in BOOLEAN
    /\ crashes \in Nat

\* The metadata alone says that document d is still to be compared: it waits in
\* the next generation's queue, or this generation has an unfinished task for
\* it, or the task that will create that task is unfinished.
Owed(d) ==
    \/ d \in queue[DurableGen + 1]
    \/ docTask[DurableGen][d] \in {"added", "processing"}
    \/ creator[DurableGen] \in {"added", "processing"} /\ d \in ToCreate(DurableGen)

\* "Resumability" of the README: a restart begins at the persisted resume token,
\* so every change up to that token must already be compared or be owed a
\* comparison by metadata that survives the crash.
TokenCovered ==
    \A c \in Cluster : token[c] # None =>
        \A i \in 1..token[c] :
            \/ compared[c][log[c][i].doc] >= i
            \/ Owed(log[c][i].doc)

\* ProcessVerifyTask enqueues before it records: a document task that has failed
\* in a generation that is not the last has its recheck in the next queue.
FailureOwed ==
    ~lastGeneration /\ ~cutShort =>
        \A d \in Doc : docTask[DurableGen][d] = "failed" => d \in queue[DurableGen + 1]

\* resetProcessRecheckQueueTasksIfNeeded calls these two "internal error": a
\* second unfinished creator task, or one of another generation.
CreatorIsCurrent ==
    \A g \in Gen : creator[g] = "processing" => g = DurableGen

FailedDocs == {d \in Doc : docTask[generation][d] = "failed"}

\* README, /progress: the verifier is idle with no failed task only if the
\* clusters agree.  (A crash that cuts the final generation short is the
\* exception that RestartVerdictSound shows.)
VerdictSound ==
    pc = "done" /\ ~cutShort /\ FailedDocs = {} =>
        \A d \in Doc : Content("src", d) = Content("dst", d)

\* ... and a task that failed in the final generation is a real difference, not
\* a stale read or a document the replicator had still to copy.
VerdictExact ==
    pc = "done" => \A d \in FailedDocs : Content("src", d) # Content("dst", d)

\* README, /progress: "If failedTasks is not 0, the verifier found an
\* inconsistency", and 0 is what a successful verification shows; here with
\* restarts at any point.
RestartVerdictSound ==
    pc = "done" /\ FailedDocs = {} =>
        \A d \in Doc : Content("src", d) = Content("dst", d)

\* The recheck queue of a generation is complete when the generation begins:
\* nothing is ever added to it afterwards, since nobody would read it.
QueueClosed ==
    [][\A g \in QueueGen :
          g <= DurableGen => queue'[g] \subseteq queue[g]]_vars

\* Once both readers know when writes ended, the verification ends.
WritesOffFinishes == (writesOff = "sent") ~> (pc \in {"done", "down"})

-----------------------------------------------------------------------------
(* The abstract specification *)

\* A document is due until its task is over, and, since a creator that is interrupted
\* starts from scratch, until all tasks of its generation are created.
Uncreated == creator[DurableGen] \in {"added", "processing"} \/ creator[0] = "none"

Due == (IF Uncreated THEN ToCreate(DurableGen) ELSE {})
       \cup {d \in Doc : docTask[DurableGen][d] \notin {"none", "completed", "failed"}}

Ledger == INSTANCE RecheckLedger WITH
              Recheck <- Doc, generation <- DurableGen, owed <- queue[DurableGen + 1], due <- Due

\* What the metadata database has to be compared is compared in its generation, also
\* across crashes: a queue and its tasks outlive them, and no generation is persisted
\* before the one before has nothing left to do.
LedgerKept == Ledger!Spec

=============================================================================
