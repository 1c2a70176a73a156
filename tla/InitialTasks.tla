---------------------------- MODULE InitialTasks ----------------------------
(***************************************************************************)
(* How generation 0 gets its tasks: CheckDriver's start-up, step by step,  *)
(* the initial tasks, their reset after a crash, and the workers that      *)
(* compare a collection's metadata and partition it.  check.go, reset.go,  *)
(* verification_task.go and migration_verifier.go of internal/verifier.    *)
(*                                                                         *)
(* Generations.tla has all of the start-up as one step and one collection  *)
(* with one creator task; here are the writes it consists of, none of them *)
(* in a transaction, and a crash between any two.  A DeleteMany deletes    *)
(* one document after the other and may stop half-way too.                 *)
(***************************************************************************)
EXTENDS Naturals, FiniteSets

CONSTANTS
    Namespaces,        \* srcNamespaces
    Part,              \* the partitions of a collection
    Worker,            \* numWorkers workers
    NoNs,              \* no namespace
    SetupInterrupted,  \* TRUE: the process may stop, and an answer be lost, before
                       \* the primary task is complete
    ClaimErrors,       \* TRUE: transient errors while a worker claims a task
    MaxAttempts,       \* processAnyTask's WithMaxAttempts
    MaxCopies,         \* bound: tasks for one partition
    MaxRetries,        \* bound: transient errors
    MaxCrashes         \* bound: crashes

ASSUME InitialTasksAssumption ==
    /\ NoNs \notin Namespaces
    /\ IsFiniteSet(Namespaces) /\ IsFiniteSet(Part) /\ IsFiniteSet(Worker)
    /\ SetupInterrupted \in BOOLEAN /\ ClaimErrors \in BOOLEAN
    /\ MaxAttempts \in Nat \ {0}
    /\ MaxCopies \in Nat \ {0}
    /\ MaxRetries \in Nat
    /\ MaxCrashes \in Nat

VARIABLES
    \* --- the metadata: survives a crash ---
    primary,    \* status of the primary task, or "none"
    collTask,   \* status of each VerifyCollection task of generation 0, or "none"
    collNext,   \* the namespaces with a VerifyCollection task in generation 1
    docTasks,   \* the VerifyDocuments tasks of generation 0
    \* --- the driver: memory ---
    pc,         \* where CheckDriver is
    toReset,    \* the collection tasks it found in progress
    resetting,  \* the one whose document tasks it deletes, or NoNs
    toInsert,   \* the namespaces that still get a collection task
    \* --- the workers: memory ---
    job,        \* what each worker does
    \* --- the collections ---
    comparable, \* the namespaces whose documents can be compared: a plain
                \* collection on both sides, capped on both or on neither
    \* --- history ---
    redone,     \* the namespaces whose task was retried since its last reset
    retries,
    crashes

metadata == <<primary, collTask, collNext, docTasks>>
driver   == <<pc, toReset, resetting, toInsert>>
history  == <<redone, retries, crashes>>
vars     == <<metadata, driver, job, comparable, history>>

TaskStatus == {"added", "processing", "completed", "failed"}
DocTask == [ns : Namespaces, part : Part, copy : 1..MaxCopies, status : TaskStatus]

Idle == [step |-> "idle"]
Reclaim == [step |-> "reclaim"]
DocJob(d) == [step |-> "compare", task |-> d]
\* status is that of the worker's copy of the task; only Finish writes it.
CollJob(ns, step, status, todo, try) ==
    [step |-> step, ns |-> ns, status |-> status, todo |-> todo, try |-> try]

CollSteps == {"spec", "indexes", "partition"}

Of(ns) == {d \in docTasks : d.ns = ns}

SetStatus(d, status) == (docTasks \ {d}) \cup {[d EXCEPT !.status = status]}

-----------------------------------------------------------------------------
(* Start-up: ResetInProgressTasks *)

\* handleIncompletePrimary: are the initial tasks incomplete?
FindPrimary ==
    /\ pc = "reset"
    /\ pc' = IF primary = "added" THEN "deleteAll" ELSE "findCollections"
    /\ UNCHANGED <<metadata, toReset, resetting, toInsert, job, comparable, history>>

\* Then DeleteMany deletes every other task.
DeleteOneTask ==
    /\ pc = "deleteAll"
    /\ \/ \E d \in docTasks :
             docTasks' = docTasks \ {d} /\ UNCHANGED <<collTask, collNext>>
       \/ \E ns \in Namespaces :
             /\ collTask[ns] # "none"
             /\ collTask' = [collTask EXCEPT ![ns] = "none"]
             /\ UNCHANGED <<docTasks, collNext>>
       \/ \E ns \in collNext :
             collNext' = collNext \ {ns} /\ UNCHANGED <<docTasks, collTask>>
    /\ UNCHANGED <<primary, driver, job, comparable, history>>

AllDeleted ==
    /\ pc = "deleteAll"
    /\ docTasks = {} /\ collNext = {} /\ \A ns \in Namespaces : collTask[ns] = "none"
    /\ pc' = "create"
    /\ UNCHANGED <<metadata, toReset, resetting, toInsert, job, comparable, history>>

\* findInProgressTasks.
FindCollections ==
    /\ pc = "findCollections"
    /\ toReset' = {ns \in Namespaces : collTask[ns] = "processing"}
    /\ pc' = "resetCollections"
    /\ UNCHANGED <<metadata, resetting, toInsert, job, comparable, history>>

NextCollection(ns) ==
    /\ pc = "resetCollections"
    /\ resetting = NoNs
    /\ ns \in toReset
    /\ resetting' = ns
    /\ toReset' = toReset \ {ns}
    /\ UNCHANGED <<metadata, pc, toInsert, job, comparable, history>>

\* Mutant: the deletion's filter does not name the namespace.
IsOf_Any(d, ns) == ns # NoNs

IsOf(d, ns) == d.ns = ns

\* DeleteMany on the namespace's document tasks ...
DeleteDocTask(d) ==
    /\ pc = "resetCollections"
    /\ IsOf(d, resetting)
    /\ docTasks' = docTasks \ {d}
    /\ UNCHANGED <<primary, collTask, collNext, driver, job, comparable, history>>

\* Mutant: the task is reset before its document tasks are deleted.
CollectionIsEmpty_NotYet == TRUE

CollectionIsEmpty == Of(resetting) = {}

\* ... and the collection task becomes available again.
ResetCollection ==
    /\ pc = "resetCollections"
    /\ resetting # NoNs
    /\ CollectionIsEmpty
    /\ collTask' = [collTask EXCEPT ![resetting] = "added"]
    /\ resetting' = NoNs
    /\ redone' = redone \ {resetting}
    /\ UNCHANGED <<primary, collNext, docTasks, pc, toReset, toInsert, job, comparable,
                   retries, crashes>>

CollectionsReset ==
    /\ pc = "resetCollections"
    /\ resetting = NoNs
    /\ toReset = {}
    /\ pc' = "resetDocuments"
    /\ UNCHANGED <<metadata, toReset, resetting, toInsert, job, comparable, history>>

\* Mutant: what a worker was comparing is not reset.
LeftInProgress_None(d) == FALSE

LeftInProgress(d) == d.status = "processing"

\* resetDocumentTasksIfNeeded: UpdateMany on what is left in progress.
ResetDocTask(d) ==
    /\ pc = "resetDocuments"
    /\ LeftInProgress(d)
    /\ docTasks' = SetStatus(d, "added")
    /\ UNCHANGED <<primary, collTask, collNext, driver, job, comparable, history>>

DocumentsReset ==
    /\ pc = "resetDocuments"
    /\ \A d \in docTasks : ~LeftInProgress(d)
    /\ pc' = "create"
    /\ UNCHANGED <<metadata, toReset, resetting, toInsert, job, comparable, history>>

\* A transient error: the retryer runs the whole reset again.
RetryReset ==
    /\ pc \in {"deleteAll", "findCollections", "resetCollections", "resetDocuments"}
    /\ retries < MaxRetries
    /\ retries' = retries + 1
    /\ pc' = "reset"
    /\ toReset' = {}
    /\ resetting' = NoNs
    /\ UNCHANGED <<metadata, toInsert, job, comparable, redone, crashes>>

-----------------------------------------------------------------------------
(* Start-up: CreateInitialTasksIfNeeded *)

\* CreatePrimaryTaskIfNeeded inserts the primary task; who inserted it sets up
\* the others.
CreatePrimary ==
    /\ pc = "create"
    /\ primary = "none"
    /\ primary' = "added"
    /\ \/ pc' = "insert"
       \* The answer is lost, and the retryer finds the task it has inserted.
       \/ SetupInterrupted /\ retries < MaxRetries /\ pc' = "create"
    /\ retries' = IF pc' = "create" THEN retries + 1 ELSE retries
    /\ toInsert' = Namespaces
    /\ UNCHANGED <<collTask, collNext, docTasks, toReset, resetting, job, comparable,
                   redone, crashes>>

\* "Primary task already existed; skipping setup"
SkipSetup ==
    /\ pc = "create"
    /\ primary # "none"
    /\ pc' = "check"
    /\ UNCHANGED <<metadata, toReset, resetting, toInsert, job, comparable, history>>

InsertCollectionTask(ns) ==
    /\ pc = "insert"
    /\ ns \in toInsert
    /\ collTask' = [collTask EXCEPT ![ns] = "added"]
    /\ toInsert' = toInsert \ {ns}
    /\ UNCHANGED <<primary, collNext, docTasks, pc, toReset, resetting, job, comparable, history>>

\* Mutant: the primary task is completed before the tasks it stands for exist.
AllInserted_First == TRUE

AllInserted == toInsert = {}

\* UpdatePrimaryTaskComplete; then CheckDriver enters its loop.
CompletePrimary ==
    /\ pc = "insert"
    /\ AllInserted
    /\ primary' = "completed"
    /\ toInsert' = {}
    /\ pc' = "check"
    /\ UNCHANGED <<collTask, collNext, docTasks, toReset, resetting, job, comparable, history>>

-----------------------------------------------------------------------------
(* The workers *)

\* FindNextVerifyTaskAndUpdate: collection tasks sort before document tasks.
TakeCollection(ns) ==
    /\ collTask[ns] = "added"
    /\ collTask' = [collTask EXCEPT ![ns] = "processing"]
    /\ UNCHANGED <<primary, collNext, docTasks>>

TakeDocTask(d) ==
    /\ \A ns \in Namespaces : collTask[ns] # "added"
    /\ d.status = "added"
    /\ docTasks' = SetStatus(d, "processing")
    /\ UNCHANGED <<primary, collTask, collNext>>

Take == (\E ns \in Namespaces : TakeCollection(ns)) \/ (\E d \in docTasks : TakeDocTask(d))

NothingToTake ==
    /\ \A ns \in Namespaces : collTask[ns] # "added"
    /\ \A d \in docTasks : d.status # "added"

ClaimCollection(w, ns) ==
    /\ pc = "check"
    /\ job[w] = Idle
    /\ TakeCollection(ns)
    /\ job' = [job EXCEPT ![w] = CollJob(ns, "spec", "processing", Part, 1)]
    /\ UNCHANGED <<driver, comparable, history>>

\* Mutant: FindOneAndUpdate returns the task as it was before.
Claimed_Before(d) == d

\* SetReturnDocument(options.After).
Claimed(d) == [d EXCEPT !.status = "processing"]

ClaimDocTask(w, d) ==
    /\ pc = "check"
    /\ job[w] = Idle
    /\ TakeDocTask(d)
    /\ job' = [job EXCEPT ![w] = DocJob(Claimed(d))]
    /\ UNCHANGED <<driver, comparable, history>>

\* A transient error: the server took the task, or did not.  The callback sets its
\* task pointer to nil and the retryer runs it again.
ClaimFails(w) ==
    /\ ClaimErrors
    /\ pc = "check"
    /\ job[w] \in {Idle, Reclaim}
    /\ retries < MaxRetries
    /\ retries' = retries + 1
    /\ job' = [job EXCEPT ![w] = Reclaim]
    /\ Take \/ UNCHANGED metadata
    /\ UNCHANGED <<driver, comparable, redone, crashes>>

\* What a stopped process forgets.
StopProcess ==
    /\ pc' = "down"
    /\ toReset' = {} /\ resetting' = NoNs /\ toInsert' = {}
    /\ job' = [w \in Worker |-> Idle]

\* The callback's second run takes a task and decodes it into the nil pointer:
\* ErrDecodeToNil, which is not transient, ends the worker and the process.
ClaimAgain(w) ==
    /\ job[w] = Reclaim
    /\ Take
    /\ StopProcess
    /\ UNCHANGED <<comparable, history>>

\* Or it finds no task, and no error.
ClaimNothing(w) ==
    /\ job[w] = Reclaim
    /\ NothingToTake
    /\ job' = [job EXCEPT ![w] = Idle]
    /\ UNCHANGED <<metadata, driver, comparable, history>>

\* ProcessVerifyTask, and UpdateVerificationTask with its outcome.
FinishDocTask(w) ==
    /\ job[w].step = "compare"
    /\ \E status \in {"completed", "failed"} :
          docTasks' = SetStatus(job[w].task, status)
    /\ job' = [job EXCEPT ![w] = Idle]
    /\ UNCHANGED <<primary, collTask, collNext, driver, comparable, history>>

\* Mutant: the mismatch is recorded only, not compared again.
Recheck_None(ns) == UNCHANGED collNext

\* InsertFailedCollectionVerificationTask.
Recheck(ns) == collNext' = collNext \cup {ns}

\* GetCollectionSpecIfExists on both sides, compareCollectionSpecifications.  A
\* collection that is on one side only ends the program: that is Crash.
CompareSpecification(w) ==
    LET j == job[w]
        Continue(status) == [job EXCEPT ![w].step = "indexes", ![w].status = status]
        Stop(status) == [job EXCEPT ![w].step = "partition", ![w].status = status, ![w].todo = {}]
    IN /\ j.step = "spec"
       /\ IF j.ns \in comparable
          THEN \/ job' = Continue("processing") /\ UNCHANGED collNext
               \/ job' = Continue("mismatch") /\ Recheck(j.ns)
          ELSE \/ job' = Stop("completed") /\ UNCHANGED collNext
               \/ job' = Stop("failed") /\ Recheck(j.ns)
       /\ UNCHANGED <<primary, collTask, docTasks, driver, comparable, history>>

\* verifyIndexes and verifyShardingIfNeeded.
CompareIndexes(w) ==
    LET j == job[w]
    IN /\ j.step = "indexes"
       /\ \/ job' = [job EXCEPT ![w].step = "partition"] /\ UNCHANGED collNext
          \/ job' = [job EXCEPT ![w].step = "partition", ![w].status = "mismatch"]
             /\ Recheck(j.ns)
       /\ UNCHANGED <<primary, collTask, docTasks, driver, comparable, history>>

\* partitionCollection: InsertPartitionVerificationTask.
InsertPartition(w, p) ==
    LET j == job[w]
        copies == {d \in Of(j.ns) : d.part = p}
    IN /\ j.step = "partition"
       /\ p \in j.todo
       /\ Cardinality(copies) < MaxCopies
       /\ docTasks' = docTasks \cup
             {[ns |-> j.ns, part |-> p, copy |-> Cardinality(copies) + 1, status |-> "added"]}
       /\ job' = [job EXCEPT ![w].todo = @ \ {p}]
       /\ UNCHANGED <<primary, collTask, collNext, driver, comparable, history>>

\* Mutant: the task is complete when its partitions have been listed.
Partitioned_Listed(j) == TRUE

Partitioned(j) == j.todo = {}

\* UpdateVerificationTask.
FinishCollection(w) ==
    LET j == job[w]
    IN /\ j.step = "partition"
       /\ Partitioned(j)
       /\ collTask' = [collTask EXCEPT ![j.ns] =
                          IF j.status = "processing" THEN "completed" ELSE j.status]
       /\ job' = [job EXCEPT ![w] = Idle]
       /\ UNCHANGED <<primary, collNext, docTasks, driver, comparable, history>>

\* WithMaxAttempts.
MayRetry(j) == j.try < MaxAttempts

\* A transient error in a collection task: all of it is done again, on top of
\* the document tasks that the last attempt inserted.
RetryCollection(w) ==
    LET j == job[w]
    IN /\ j.step \in CollSteps
       /\ retries < MaxRetries
       /\ MayRetry(j)
       /\ retries' = retries + 1
       /\ redone' = redone \cup {j.ns}
       /\ job' = [job EXCEPT ![w] = CollJob(j.ns, "spec", "processing", Part, j.try + 1)]
       /\ UNCHANGED <<metadata, driver, comparable, crashes>>

-----------------------------------------------------------------------------
(* The driver's end of the generation, and the process *)

\* CheckWorker: no task is left to do, and every worker has returned.
EndGeneration ==
    /\ pc = "check"
    /\ \A ns \in Namespaces : collTask[ns] \notin {"added", "processing"}
    /\ \A d \in docTasks : d.status \notin {"added", "processing"}
    /\ \A w \in Worker : job[w] = Idle
    /\ pc' = "over"
    /\ UNCHANGED <<metadata, toReset, resetting, toInsert, job, comparable, history>>

\* The process ends, for whatever reason: the fifth error of a task is one.
Crash ==
    /\ pc \notin {"down", "over"}
    /\ SetupInterrupted \/ primary # "added"
    /\ crashes < MaxCrashes
    /\ crashes' = crashes + 1
    /\ StopProcess
    /\ UNCHANGED <<metadata, comparable, redone, retries>>

Start ==
    /\ pc = "down"
    /\ pc' = "reset"
    /\ UNCHANGED <<metadata, toReset, resetting, toInsert, job, comparable, history>>

Init ==
    /\ primary = "none" /\ collTask = [ns \in Namespaces |-> "none"]
    /\ collNext = {} /\ docTasks = {}
    /\ pc = "down" /\ toReset = {} /\ resetting = NoNs /\ toInsert = {}
    /\ job = [w \in Worker |-> Idle]
    /\ comparable \in SUBSET Namespaces
    /\ redone = {} /\ retries = 0 /\ crashes = 0

Reset ==
    \/ FindPrimary \/ DeleteOneTask \/ AllDeleted
    \/ FindCollections \/ CollectionsReset \/ ResetCollection
    \/ \E ns \in Namespaces : NextCollection(ns)
    \/ \E d \in docTasks : DeleteDocTask(d) \/ ResetDocTask(d)
    \/ DocumentsReset

CreateInitialTasks ==
    \/ CreatePrimary \/ SkipSetup \/ CompletePrimary
    \/ \E ns \in Namespaces : InsertCollectionTask(ns)

Work(w) ==
    \/ \E ns \in Namespaces : ClaimCollection(w, ns)
    \/ \E d \in docTasks : ClaimDocTask(w, d)
    \/ ClaimAgain(w) \/ ClaimNothing(w)
    \/ FinishDocTask(w)
    \/ CompareSpecification(w) \/ CompareIndexes(w)
    \/ \E p \in Part : InsertPartition(w, p)
    \/ FinishCollection(w)

Next ==
    \/ Reset \/ RetryReset
    \/ CreateInitialTasks
    \/ \E w \in Worker : Work(w) \/ RetryCollection(w) \/ ClaimFails(w)
    \/ EndGeneration
    \/ Crash \/ Start

Spec == Init /\ [][Next]_vars

\* The driver and the workers run, and the verifier is started again.
Fairness ==
    /\ WF_vars(Reset) /\ WF_vars(CreateInitialTasks) /\ WF_vars(EndGeneration)
    /\ WF_vars(Start)
    /\ \A w \in Worker : WF_vars(Work(w))

FairSpec == Spec /\ Fairness

-----------------------------------------------------------------------------
(* Properties *)

Job == {Idle, Reclaim}
       \cup [step : {"compare"}, task : {d \in DocTask : d.status = "processing"}]
       \cup [step : CollSteps, ns : Namespaces,
             status : {"processing", "completed", "mismatch", "failed"},
             todo : SUBSET Part, try : 1..MaxAttempts]

\* Every variable has the type its comment gives.
TypeOK ==
    /\ primary \in {"none", "added", "completed"}
    /\ collTask \in [Namespaces -> TaskStatus \cup {"none", "mismatch"}]
    /\ collNext \in SUBSET Namespaces
    /\ docTasks \in SUBSET DocTask
    /\ pc \in {"down", "reset", "deleteAll", "findCollections", "resetCollections",
               "resetDocuments", "create", "insert", "check", "over"}
    /\ toReset \in SUBSET Namespaces
    /\ resetting \in Namespaces \cup {NoNs}
    /\ toInsert \in SUBSET Namespaces
    /\ job \in [Worker -> Job]
    /\ comparable \in SUBSET Namespaces
    /\ redone \in SUBSET Namespaces
    /\ retries \in 0..MaxRetries
    /\ crashes \in 0..MaxCrashes

Compared(ns, p) ==
    \E d \in docTasks : d.ns = ns /\ d.part = p /\ d.status \in {"completed", "failed"}

\* reset.go says of the reset: "The above is resumable. Thus you can safely call
\* this outside a transaction".  So when generation 0 is over, every namespace has
\* been compared, whatever crash or error came in between.
AllCompared ==
    pc = "over" =>
        \A ns \in Namespaces : collTask[ns] \in {"completed", "mismatch", "failed"}

\* The set-up is all or nothing, wherever the process stopped and whichever answer
\* was lost: the workers never see the tasks of some of the namespaces only.
SetupAllOrNothing ==
    pc \in {"check", "over"} =>
        \/ \A ns \in Namespaces : collTask[ns] # "none"
        \/ \A ns \in Namespaces : collTask[ns] = "none"

\* A collection that has a task has had every partition compared when the
\* generation is over, if its documents can be compared at all.
AllPartitionsCompared ==
    pc = "over" =>
        \A ns \in comparable :
            collTask[ns] # "none" => \A p \in Part : Compared(ns, p)

\* Metadata that differs is compared again in generation 1: the task for that is
\* there before the mismatch is recorded as the outcome.
MetadataRecheckOwed ==
    \A ns \in Namespaces : collTask[ns] \in {"mismatch", "failed"} => ns \in collNext

\* A restart partitions a collection from scratch: only a retry within one run
\* leaves two tasks for a partition.
PartitionedOnce ==
    \A d, e \in docTasks :
        d.ns = e.ns /\ d.part = e.part /\ d.ns \notin redone => d = e

\* What has been compared in a collection that is fully partitioned is never
\* thrown away or compared again.
ResultKept(d) ==
    d.status \in {"completed", "failed"} /\ collTask[d.ns] \in {"completed", "mismatch"}
        => d \in docTasks'
ResultsKept == [][\A d \in docTasks : ResultKept(d)]_vars

\* Generation 0 comes to an end: whatever crashed or was retried, no task is left in
\* progress with nobody to finish it.
GenerationEnds == <>(pc = "over")

=============================================================================
