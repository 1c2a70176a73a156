------------------------- MODULE InitialTasksProofs -------------------------
(***************************************************************************)
(* What generation 0 owes its namespaces, for any of them and any number   *)
(* of partitions, workers, errors and crashes.                             *)
(*                                                                         *)
(* AllPartitionsCompared is not inductive: it speaks of the end only.  The *)
(* argument is about the worker that partitions a collection: it alone has *)
(* the collection's task, the task is in progress until it is done, and    *)
(* the partitions it no longer has to insert have a document task.  Only   *)
(* the reset of a task in progress deletes document tasks, and no worker   *)
(* runs then.                                                              *)
(*                                                                         *)
(* OnceInv says that a partition has one task: a worker has inserted none  *)
(* of those it still has to insert, and what it compares is its own.       *)
(***************************************************************************)
EXTENDS InitialTasks, FiniteSetTheorems, TLAPS

HasTask(ns, p) == \E d \in docTasks : d.ns = ns /\ d.part = p

\* Workers run in the generation only, and what a start finds in progress stays
\* in progress until it is reset.
MemoryInv ==
    /\ pc # "check" => \A w \in Worker : job[w] = Idle
    /\ pc # "resetCollections" => toReset = {} /\ resetting = NoNs
    /\ \A ns \in toReset : collTask[ns] = "processing"
    /\ resetting # NoNs => collTask[resetting] = "processing" /\ resetting \notin toReset

\* What the primary task's status says of the collection tasks.
SetupInv ==
    /\ primary = "none" => \A ns \in Namespaces : collTask[ns] = "none"
    /\ primary = "added" => \A ns \in Namespaces : collTask[ns] \in {"none", "added"}
    /\ primary = "completed" => \A ns \in Namespaces : collTask[ns] # "none"
    /\ pc = "deleteAll" => primary = "added"
    /\ pc \in {"findCollections", "resetCollections", "resetDocuments"} => primary # "added"
    /\ pc \in {"create", "check", "over"} /\ primary = "added" =>
           \A ns \in Namespaces : collTask[ns] = "none"
    /\ pc = "insert" => primary = "added" /\ \A ns \in Namespaces \ toInsert : collTask[ns] = "added"
    /\ pc \in {"check", "over"} => primary # "none"
    /\ SetupInterrupted \/ (primary = "added" => pc = "insert")

\* What a worker knows of the collection it works on.
JobOK(j) ==
    j.step \in CollSteps =>
        /\ collTask[j.ns] = "processing"
        /\ j.step # "partition" => j.todo = Part
        /\ j.step = "indexes" => j.ns \in comparable
        /\ j.ns \in comparable => \A p \in Part \ j.todo : HasTask(j.ns, p)
        /\ j.status \in {"mismatch", "failed"} => j.ns \in collNext

JobInv == \A w \in Worker : JobOK(job[w])

\* A collection has one worker.
OneWorkerInv ==
    \A v, w \in Worker :
        v # w /\ job[v].step \in CollSteps /\ job[w].step \in CollSteps => job[v].ns # job[w].ns

SettledInv ==
    \A ns \in comparable :
        collTask[ns] \in {"completed", "mismatch", "failed"} => \A p \in Part : HasTask(ns, p)

OverInv ==
    pc = "over" =>
        /\ \A ns \in Namespaces : collTask[ns] \notin {"added", "processing"}
        /\ \A d \in docTasks : d.status \notin {"added", "processing"}

TypeInv == TypeOK /\ IsFiniteSet(docTasks)

Inv ==
    /\ TypeInv
    /\ MemoryInv /\ SetupInv
    /\ JobInv /\ OneWorkerInv /\ SettledInv /\ MetadataRecheckOwed
    /\ OverInv

-----------------------------------------------------------------------------
(* Types *)

CollJobs == [step : CollSteps, ns : Namespaces,
             status : {"processing", "completed", "mismatch", "failed"},
             todo : SUBSET Part, try : 1..MaxAttempts]

\* A job's step says what else it has.
LEMMA JobKinds ==
    ASSUME NEW j \in Job
    PROVE  /\ j.step \in CollSteps => j \in CollJobs
           /\ j.step = "compare" => j.task \in DocTask
  BY DEF Job, CollJobs, CollSteps, Idle, Reclaim

\* A new status leaves the tasks well typed.
LEMMA SetStatusType ==
    ASSUME NEW d \in DocTask, NEW st \in TaskStatus, TypeInv
    PROVE  /\ SetStatus(d, st) \in SUBSET DocTask
           /\ IsFiniteSet(SetStatus(d, st))
           /\ [d EXCEPT !.status = st] \in DocTask
  <1>1. [d EXCEPT !.status = st] \in DocTask
    BY DEF DocTask
  <1>2. SetStatus(d, st) \in SUBSET DocTask
    BY <1>1 DEF SetStatus, TypeInv, TypeOK
  <1>3. IsFiniteSet(docTasks \ {d})
    BY FS_RemoveElement DEF TypeInv
  <1>4. IsFiniteSet(SetStatus(d, st))
    BY <1>3, FS_AddElement DEF SetStatus
  <1> QED BY <1>1, <1>2, <1>4

\* What a stopped process leaves.
LEMMA StopType ==
    ASSUME StopProcess
    PROVE  /\ pc' = "down" /\ toReset' = {} /\ resetting' = NoNs /\ toInsert' = {}
           /\ job' \in [Worker -> Job]
           /\ \A w \in Worker : job'[w] = Idle
  BY DEF StopProcess, Job, Idle

TakeGoal ==
    /\ collTask' \in [Namespaces -> TaskStatus \cup {"none", "mismatch"}]
    /\ docTasks' \in SUBSET DocTask
    /\ IsFiniteSet(docTasks')
    /\ primary' = primary /\ collNext' = collNext

LEMMA TakeType ==
    ASSUME TypeInv, Take
    PROVE  TakeGoal
  <1>1. ASSUME NEW ns \in Namespaces, TakeCollection(ns) PROVE  TakeGoal
    BY <1>1 DEF TakeCollection, TypeInv, TypeOK, TaskStatus, TakeGoal
  <1>2. ASSUME NEW d \in docTasks, TakeDocTask(d) PROVE  TakeGoal
    <2>1. d \in DocTask /\ "processing" \in TaskStatus
      BY DEF TypeInv, TypeOK, TaskStatus
    <2> QED BY <1>2, <2>1, SetStatusType DEF TakeDocTask, TypeInv, TypeOK, TakeGoal
  <1> QED BY <1>1, <1>2 DEF Take

-----------------------------------------------------------------------------
(* The steps of the start-up *)

\* Idle workers owe nothing.
LEMMA IdleJobs ==
    ASSUME \A w \in Worker : job'[w] = Idle
    PROVE  JobInv' /\ OneWorkerInv'
  BY DEF JobInv, JobOK, OneWorkerInv, Idle, CollSteps

\* Steps that leave the metadata alone leave what it says alone.
LEMMA SameTasks ==
    ASSUME Inv, UNCHANGED <<primary, collTask, collNext, docTasks, comparable>>
    PROVE  SettledInv' /\ MetadataRecheckOwed'
  BY DEF Inv, SettledInv, MetadataRecheckOwed, HasTask

\* Reading the metadata, and moving on.
LEMMA ResetReads ==
    ASSUME Inv, FindPrimary \/ AllDeleted \/ FindCollections \/ CollectionsReset
                \/ DocumentsReset \/ (\E ns \in Namespaces : NextCollection(ns)) \/ RetryReset
                \/ SkipSetup \/ Start
    PROVE  Inv'
  <1> USE InitialTasksAssumption
  <1>1. /\ UNCHANGED <<metadata, job, comparable>>
        /\ pc \notin {"check", "over"} /\ (pc' = "check" => SkipSetup) /\ pc' # "over"
    BY DEF FindPrimary, AllDeleted, FindCollections, CollectionsReset, DocumentsReset,
           NextCollection, RetryReset, SkipSetup, Start, metadata, history
  <1>2. \A w \in Worker : job'[w] = Idle
    BY <1>1 DEF Inv, MemoryInv
  <1>3. JobInv' /\ OneWorkerInv'
    BY <1>2, IdleJobs
  <1>4. SettledInv' /\ MetadataRecheckOwed'
    BY <1>1, SameTasks DEF metadata
  <1>5. OverInv'
    BY <1>1 DEF OverInv
  <1>6. TypeInv'
    BY <1>1 DEF Inv, TypeInv, TypeOK, FindPrimary, AllDeleted, FindCollections,
           CollectionsReset, DocumentsReset, NextCollection, RetryReset, SkipSetup, Start,
           metadata, history
  <1>7. MemoryInv'
    BY <1>1, <1>2 DEF Inv, TypeInv, TypeOK, MemoryInv, FindPrimary, AllDeleted,
           FindCollections, CollectionsReset, DocumentsReset, NextCollection, RetryReset,
           SkipSetup, Start, metadata, history
  <1>8. SetupInv'
    BY <1>1 DEF Inv, TypeInv, TypeOK, SetupInv, FindPrimary, AllDeleted,
           FindCollections, CollectionsReset, DocumentsReset, NextCollection, RetryReset,
           SkipSetup, Start, metadata, history
  <1> QED BY <1>3, <1>4, <1>5, <1>6, <1>7, <1>8 DEF Inv

\* Deleting all tasks but the primary one: none of them has been claimed.
LEMMA ResetDeletes ==
    ASSUME Inv, DeleteOneTask
    PROVE  Inv'
  <1> USE InitialTasksAssumption DEF Inv
  <1>1. /\ pc = "deleteAll" /\ primary = "added"
        /\ UNCHANGED <<primary, driver, job, comparable, history>>
        /\ \A ns \in Namespaces : collTask[ns] \in {"none", "added"}
    BY DEF DeleteOneTask, SetupInv
  <1>2. /\ collTask' \in [Namespaces -> {"none", "added"}]
        /\ docTasks' \in SUBSET docTasks
        /\ collNext' \in SUBSET collNext
    BY <1>1 DEF DeleteOneTask, TypeInv, TypeOK
  <1>3. TypeInv'
    <2>1. IsFiniteSet(docTasks')
      BY <1>2, FS_Subset DEF TypeInv
    <2> QED BY <1>1, <1>2, <2>1 DEF TypeInv, TypeOK, driver, history, TaskStatus
  <1>4. MemoryInv' /\ OverInv'
    BY <1>1 DEF MemoryInv, OverInv, driver
  <1>5. SetupInv'
    BY <1>1, <1>2 DEF SetupInv, driver
  <1>6. JobInv' /\ OneWorkerInv'
    <2>1. \A w \in Worker : job'[w] = Idle
      BY <1>1 DEF MemoryInv
    <2> QED BY <2>1, IdleJobs
  <1>7. SettledInv' /\ MetadataRecheckOwed'
    BY <1>1, <1>2 DEF SettledInv, MetadataRecheckOwed, TypeInv, TypeOK
  <1> QED BY <1>3, <1>4, <1>5, <1>6, <1>7

\* A new status takes no task away.
LEMMA SetStatusKeeps ==
    ASSUME TypeInv, NEW d \in DocTask, NEW st \in TaskStatus, docTasks' = SetStatus(d, st),
           NEW ns, NEW p, HasTask(ns, p)
    PROVE  HasTask(ns, p)'
  <1>1. PICK e \in docTasks : e.ns = ns /\ e.part = p
    BY DEF HasTask
  <1>2. CASE e = d
    <2>1. [d EXCEPT !.status = st].ns = ns /\ [d EXCEPT !.status = st].part = p
      BY <1>1, <1>2 DEF DocTask
    <2>2. [d EXCEPT !.status = st] \in docTasks'
      BY DEF SetStatus
    <2> QED BY <2>1, <2>2 DEF HasTask
  <1>3. CASE e # d
    BY <1>1, <1>3 DEF HasTask, SetStatus
  <1> QED BY <1>2, <1>3

\* Document tasks come, or get a status: every collection keeps what it has.
LEMMA MoreTasks ==
    ASSUME Inv, UNCHANGED <<collTask, collNext, comparable>>,
           \A ns \in Namespaces, p \in Part : HasTask(ns, p) => HasTask(ns, p)'
    PROVE  /\ SettledInv' /\ MetadataRecheckOwed'
           /\ \A j \in Job : JobOK(j) => JobOK(j)'
  <1>1. SettledInv' /\ MetadataRecheckOwed'
    BY DEF Inv, SettledInv, MetadataRecheckOwed, TypeInv, TypeOK
  <1>2. ASSUME NEW j \in Job, JobOK(j), j.step \in CollSteps PROVE JobOK(j)'
    <2>1. j.ns \in Namespaces
      BY <1>2, JobKinds DEF CollJobs
    <2> QED BY <1>2, <2>1 DEF JobOK
  <1> QED BY <1>1, <1>2 DEF JobOK

\* The reset of collections and of document tasks in progress.
LEMMA ResetCollections ==
    ASSUME Inv, ResetCollection \/ (\E d \in docTasks : DeleteDocTask(d) \/ ResetDocTask(d))
    PROVE  Inv'
  <1> USE InitialTasksAssumption DEF Inv
  <1>1. /\ pc \in {"resetCollections", "resetDocuments"} /\ pc' = pc
        /\ UNCHANGED <<primary, collNext, toInsert, job, comparable>>
        /\ redone' \in SUBSET Namespaces /\ retries' = retries /\ crashes' = crashes
    BY DEF ResetCollection, DeleteDocTask, ResetDocTask, driver, history, TypeInv, TypeOK
  <1>2. JobInv' /\ OneWorkerInv'
    <2>1. \A w \in Worker : job'[w] = Idle
      BY <1>1 DEF MemoryInv
    <2> QED BY <2>1, IdleJobs
  <1>3. OverInv'
    BY <1>1 DEF OverInv
  <1>4. ASSUME ResetCollection PROVE Inv'
    <2>1. /\ resetting \in Namespaces /\ resetting \notin toReset
          /\ collTask' = [collTask EXCEPT ![resetting] = "added"]
          /\ resetting' = NoNs /\ toReset' = toReset /\ docTasks' = docTasks
          /\ pc = "resetCollections"
      BY <1>4 DEF ResetCollection, TypeInv, TypeOK, MemoryInv
    <2>2. TypeInv'
      BY <1>1, <2>1 DEF TypeInv, TypeOK, TaskStatus
    <2>3. MemoryInv'
      BY <1>1, <2>1 DEF MemoryInv, TypeInv, TypeOK
    <2>4. SetupInv'
      BY <1>1, <2>1 DEF SetupInv, MemoryInv, TypeInv, TypeOK
    <2>5. SettledInv' /\ MetadataRecheckOwed'
      BY <1>1, <2>1 DEF SettledInv, MetadataRecheckOwed, HasTask, TypeInv, TypeOK
    <2> QED BY <1>2, <1>3, <2>2, <2>3, <2>4, <2>5
  <1>5. ASSUME NEW d \in docTasks, DeleteDocTask(d) PROVE Inv'
    <2>1. /\ d.ns = resetting /\ docTasks' = docTasks \ {d}
          /\ collTask' = collTask /\ UNCHANGED driver /\ UNCHANGED history
          /\ d.ns \in Namespaces /\ resetting # NoNs
      BY <1>5 DEF DeleteDocTask, IsOf, TypeInv, TypeOK, DocTask
    <2>2. collTask[d.ns] = "processing"
      BY <2>1 DEF MemoryInv
    <2>3. TypeInv'
      <3>1. IsFiniteSet(docTasks')
        BY <2>1, FS_RemoveElement DEF TypeInv
      <3> QED BY <1>1, <2>1, <3>1 DEF TypeInv, TypeOK, driver, history
    <2>4. MemoryInv' /\ SetupInv'
      BY <1>1, <2>1 DEF MemoryInv, SetupInv, driver
    <2>5. \A ns \in Namespaces, p \in Part : ns # d.ns /\ HasTask(ns, p) => HasTask(ns, p)'
      BY <2>1 DEF HasTask
    <2>6. SettledInv' /\ MetadataRecheckOwed'
      BY <1>1, <2>1, <2>2, <2>5 DEF SettledInv, MetadataRecheckOwed, TypeInv, TypeOK
    <2> QED BY <1>2, <1>3, <2>3, <2>4, <2>6
  <1>6. ASSUME NEW d \in docTasks, ResetDocTask(d) PROVE Inv'
    <2>1. /\ docTasks' = SetStatus(d, "added") /\ d \in DocTask /\ "added" \in TaskStatus
          /\ collTask' = collTask /\ UNCHANGED driver /\ UNCHANGED history
      BY <1>6 DEF ResetDocTask, TypeInv, TypeOK, TaskStatus
    <2>2. TypeInv'
      BY <1>1, <2>1, SetStatusType DEF TypeInv, TypeOK, driver, history
    <2>3. MemoryInv' /\ SetupInv'
      BY <1>1, <2>1 DEF MemoryInv, SetupInv, driver
    <2>4. \A ns \in Namespaces, p \in Part : HasTask(ns, p) => HasTask(ns, p)'
      BY <2>1, SetStatusKeeps
    <2>5. SettledInv' /\ MetadataRecheckOwed'
      BY <1>1, <2>1, <2>4, MoreTasks
    <2> QED BY <1>2, <1>3, <2>2, <2>3, <2>5
  <1> QED BY <1>4, <1>5, <1>6

\* The writes of the set-up.
LEMMA SetupWrites ==
    ASSUME Inv, CreatePrimary \/ CompletePrimary
                \/ (\E ns \in Namespaces : InsertCollectionTask(ns))
    PROVE  Inv'
  <1> USE InitialTasksAssumption DEF Inv
  <1>1. /\ pc \in {"create", "insert"} /\ pc' \in {"create", "insert", "check"}
        /\ UNCHANGED <<collNext, docTasks, toReset, resetting, job, comparable, redone, crashes>>
        /\ retries' \in 0..MaxRetries
        /\ primary' \in {"added", "completed"} /\ toInsert' \in SUBSET Namespaces
    BY DEF CreatePrimary, CompletePrimary, InsertCollectionTask, history, TypeInv, TypeOK, SetupInv
  <1>2. /\ \A w \in Worker : job'[w] = Idle
        /\ toReset' = {} /\ resetting' = NoNs
    BY <1>1 DEF MemoryInv
  <1>3. JobInv' /\ OneWorkerInv'
    BY <1>2, IdleJobs
  <1>4. MemoryInv' /\ OverInv'
    BY <1>1, <1>2 DEF MemoryInv, OverInv
  <1>5. /\ collTask' \in [Namespaces -> {"none", "added"} \cup {collTask[ns] : ns \in Namespaces}]
        /\ collTask' \in [Namespaces -> TaskStatus \cup {"none", "mismatch"}]
    BY DEF CreatePrimary, CompletePrimary, InsertCollectionTask, TypeInv, TypeOK, TaskStatus
  <1>6. TypeInv'
    BY <1>1, <1>5 DEF TypeInv, TypeOK
  <1>7. ASSUME CreatePrimary PROVE Inv'
    <2>1. /\ primary = "none" /\ primary' = "added" /\ collTask' = collTask
          /\ pc' \in {"insert", "create"} /\ toInsert' = Namespaces
          /\ pc' = "create" => SetupInterrupted
      BY <1>7 DEF CreatePrimary
    <2>2. SetupInv'
      BY <2>1 DEF SetupInv
    <2>3. SettledInv' /\ MetadataRecheckOwed'
      BY <1>1, <2>1 DEF SettledInv, MetadataRecheckOwed, HasTask
    <2> QED BY <1>3, <1>4, <1>6, <2>2, <2>3
  <1>8. ASSUME CompletePrimary PROVE Inv'
    <2>1. /\ primary' = "completed" /\ collTask' = collTask /\ pc = "insert" /\ pc' = "check"
          /\ toInsert = {}
      BY <1>8 DEF CompletePrimary, AllInserted
    <2>2. SetupInv'
      BY <2>1 DEF SetupInv
    <2>3. SettledInv' /\ MetadataRecheckOwed'
      BY <1>1, <2>1 DEF SettledInv, MetadataRecheckOwed, HasTask
    <2> QED BY <1>3, <1>4, <1>6, <2>2, <2>3
  <1>9. ASSUME NEW ns \in Namespaces, InsertCollectionTask(ns) PROVE Inv'
    <2>1. /\ primary' = primary /\ collTask' = [collTask EXCEPT ![ns] = "added"]
          /\ pc = "insert" /\ pc' = pc /\ toInsert' = toInsert \ {ns}
      BY <1>9 DEF InsertCollectionTask
    <2>2. SetupInv'
      BY <2>1 DEF SetupInv, TypeInv, TypeOK
    <2>3. SettledInv' /\ MetadataRecheckOwed'
      BY <1>1, <2>1 DEF SettledInv, MetadataRecheckOwed, HasTask, TypeInv, TypeOK
    <2> QED BY <1>3, <1>4, <1>6, <2>2, <2>3
  <1> QED BY <1>7, <1>8, <1>9

-----------------------------------------------------------------------------
(* The steps of the workers *)

\* Taking a task disturbs nothing but the task.
LEMMA TakeKeeps ==
    ASSUME Inv, Take, comparable' = comparable
    PROVE  /\ \A ns \in Namespaces : collTask'[ns] # collTask[ns] =>
                  collTask[ns] = "added" /\ collTask'[ns] = "processing"
           /\ SettledInv' /\ MetadataRecheckOwed'
           /\ \A j \in Job : JobOK(j) => JobOK(j)'
  <1> USE DEF Inv
  <1>1. ASSUME NEW ns \in Namespaces, TakeCollection(ns)
        PROVE  /\ collTask' = [collTask EXCEPT ![ns] = "processing"]
               /\ collTask[ns] = "added" /\ UNCHANGED <<collNext, docTasks>>
    BY <1>1 DEF TakeCollection
  <1>2. ASSUME NEW ns \in Namespaces, TakeCollection(ns), NEW j \in Job, JobOK(j)
        PROVE  JobOK(j)'
    <2>1. CASE j.step \in CollSteps
      <3>1. j.ns \in Namespaces
        BY <2>1, JobKinds DEF CollJobs
      <3> QED BY <1>1, <1>2, <2>1, <3>1 DEF JobOK, HasTask, TypeInv, TypeOK
    <2>2. CASE j.step \notin CollSteps
      BY <2>2 DEF JobOK
    <2> QED BY <2>1, <2>2
  <1>3. ASSUME NEW ns \in Namespaces, TakeCollection(ns)
        PROVE  SettledInv' /\ MetadataRecheckOwed'
    BY <1>1, <1>3 DEF SettledInv, MetadataRecheckOwed, HasTask, TypeInv, TypeOK
  <1>4. ASSUME NEW d \in docTasks, TakeDocTask(d)
        PROVE  /\ UNCHANGED <<collTask, collNext>>
               /\ \A ns \in Namespaces, p \in Part : HasTask(ns, p) => HasTask(ns, p)'
    <2>1. d \in DocTask /\ "processing" \in TaskStatus /\ docTasks' = SetStatus(d, "processing")
      BY <1>4 DEF TakeDocTask, TypeInv, TypeOK, TaskStatus
    <2> QED BY <1>4, <2>1, SetStatusKeeps DEF TakeDocTask
  <1>5. CASE \E ns \in Namespaces : TakeCollection(ns)
    BY <1>1, <1>2, <1>3, <1>5 DEF TypeInv, TypeOK
  <1>6. CASE \E d \in docTasks : TakeDocTask(d)
    BY <1>4, <1>6, MoreTasks
  <1> QED BY <1>5, <1>6 DEF Take

\* What a claim, successful or not, leaves intact whatever becomes of the worker.
LEMMA ClaimKeeps ==
    ASSUME Inv, Take \/ UNCHANGED metadata, comparable' = comparable,
           pc = "check", pc' \in {"check", "down"}
    PROVE  /\ TakeGoal /\ SetupInv' /\ SettledInv' /\ MetadataRecheckOwed' /\ OverInv'
           /\ toReset = {} /\ resetting = NoNs
           /\ \A j \in Job : JobOK(j) => JobOK(j)'
  <1> USE DEF Inv
  <1>1. toReset = {} /\ resetting = NoNs /\ OverInv'
    BY DEF MemoryInv, OverInv
  <1>2. CASE UNCHANGED metadata
    <2>1. TakeGoal
      BY <1>2 DEF TakeGoal, metadata, TypeInv, TypeOK
    <2>2. SetupInv'
      BY <1>2 DEF SetupInv, metadata
    <2>3. SettledInv' /\ MetadataRecheckOwed'
      BY <1>2, SameTasks DEF metadata
    <2>4. \A j \in Job : JobOK(j) => JobOK(j)'
      BY <1>2 DEF JobOK, HasTask, metadata
    <2> QED BY <1>1, <2>1, <2>2, <2>3, <2>4
  <1>3. CASE Take
    <2>1. TakeGoal
      BY <1>3, TakeType
    <2>2. SettledInv' /\ MetadataRecheckOwed' /\ \A j \in Job : JobOK(j) => JobOK(j)'
      BY <1>3, TakeKeeps
    <2>3. \A ns \in Namespaces : collTask'[ns] # collTask[ns] =>
              collTask[ns] = "added" /\ collTask'[ns] = "processing"
      BY <1>3, TakeKeeps
    <2>4. SetupInv'
      BY <2>1, <2>3 DEF SetupInv, TakeGoal
    <2> QED BY <1>1, <2>1, <2>2, <2>4
  <1> QED BY <1>2, <1>3

\* A worker's job is replaced by one that is as good.
LEMMA NewJob ==
    ASSUME Inv, NEW w \in Worker, NEW j \in Job, job' = [job EXCEPT ![w] = j],
           \A i \in Job : JobOK(i) => JobOK(i)', JobOK(j)',
           j.step \in CollSteps =>
               \A v \in Worker \ {w} : job[v].step \in CollSteps => job[v].ns # j.ns
    PROVE  JobInv' /\ OneWorkerInv' /\ job' \in [Worker -> Job]
  <1> USE DEF Inv
  <1>1. job \in [Worker -> Job] /\ job' \in [Worker -> Job]
    BY DEF TypeInv, TypeOK
  <1>2. \A v \in Worker : \E i \in Job : i = job'[v] /\ JobOK(i)'
    BY <1>1 DEF JobInv
  <1>3. JobInv'
    BY <1>2 DEF JobInv, JobOK
  <1>4. OneWorkerInv'
    BY <1>1 DEF OneWorkerInv
  <1> QED BY <1>1, <1>3, <1>4

\* The worker that had a collection is done with it.
LEMMA DoneJob ==
    ASSUME Inv, NEW w \in Worker, NEW n \in Namespaces,
           job[w].step \in CollSteps, job[w].ns = n, job' = [job EXCEPT ![w] = Idle],
           \A i \in Job : JobOK(i) /\ (i.step \in CollSteps => i.ns # n) => JobOK(i)'
    PROVE  JobInv' /\ OneWorkerInv' /\ job' \in [Worker -> Job]
  <1> USE DEF Inv
  <1>1. job \in [Worker -> Job] /\ job' \in [Worker -> Job] /\ Idle \in Job
    BY DEF TypeInv, TypeOK, Job
  <1>2. JobOK(Idle)'
    BY DEF JobOK, Idle, CollSteps
  <1>3. \A v \in Worker : \E i \in Job : i = job'[v] /\ JobOK(i)'
    BY <1>1, <1>2 DEF JobInv, OneWorkerInv
  <1>4. JobInv'
    BY <1>3 DEF JobInv, JobOK
  <1>5. OneWorkerInv'
    BY <1>1 DEF OneWorkerInv, Idle, CollSteps
  <1> QED BY <1>1, <1>4, <1>5

JobGoal ==
    /\ JobInv' /\ OneWorkerInv' /\ job' \in [Worker -> Job]
    /\ pc' # "check" => \A w \in Worker : job'[w] = Idle

\* A worker that claims a task, or fails to.
LEMMA Claims ==
    ASSUME Inv, NEW w \in Worker,
           \/ \E ns \in Namespaces : ClaimCollection(w, ns)
           \/ \E d \in docTasks : ClaimDocTask(w, d)
           \/ ClaimFails(w) \/ ClaimAgain(w) \/ ClaimNothing(w)
    PROVE  Inv'
  <1> USE InitialTasksAssumption DEF Inv
  <1>0. job[w] = Reclaim => pc = "check"
    BY DEF MemoryInv, Idle, Reclaim
  <1>1. /\ pc = "check" /\ pc' \in {"check", "down"}
        /\ Take \/ UNCHANGED metadata
        /\ comparable' = comparable
        /\ redone' = redone /\ crashes' = crashes /\ retries' \in 0..MaxRetries
        /\ (pc' = "check" /\ UNCHANGED driver) \/ StopProcess
    <2> DEFINE G == /\ pc = "check" /\ pc' \in {"check", "down"}
                    /\ Take \/ UNCHANGED metadata
                    /\ comparable' = comparable
                    /\ redone' = redone /\ crashes' = crashes /\ retries' \in 0..MaxRetries
                    /\ (pc' = "check" /\ UNCHANGED driver) \/ StopProcess
    <2>1. ASSUME \E ns \in Namespaces : ClaimCollection(w, ns) PROVE G
      BY <2>1 DEF ClaimCollection, Take, driver, history, TypeInv, TypeOK
    <2>2. ASSUME \E d \in docTasks : ClaimDocTask(w, d) PROVE G
      BY <2>2 DEF ClaimDocTask, Take, driver, history, TypeInv, TypeOK
    <2>3. ASSUME ClaimFails(w) PROVE G
      BY <2>3 DEF ClaimFails, driver, TypeInv, TypeOK
    <2>4. ASSUME ClaimAgain(w) PROVE G
      BY <1>0, <2>4 DEF ClaimAgain, StopProcess, history, TypeInv, TypeOK
    <2>5. ASSUME ClaimNothing(w) PROVE G
      BY <1>0, <2>5 DEF ClaimNothing, driver, history, TypeInv, TypeOK
    <2> QED BY <2>1, <2>2, <2>3, <2>4, <2>5
  <1>2. /\ TakeGoal /\ SetupInv' /\ SettledInv' /\ MetadataRecheckOwed' /\ OverInv'
        /\ toReset = {} /\ resetting = NoNs
        /\ \A j \in Job : JobOK(j) => JobOK(j)'
    BY <1>1, ClaimKeeps
  <1>3. toReset' = {} /\ resetting' = NoNs /\ toInsert' \in SUBSET Namespaces
    BY <1>1, <1>2 DEF driver, StopProcess, TypeInv, TypeOK
  <1>4. SUFFICES JobGoal
    <2>1. TypeInv'
      BY <1>1, <1>2, <1>3, <1>4 DEF TypeInv, TypeOK, TakeGoal, JobGoal
    <2>2. MemoryInv'
      BY <1>3, <1>4 DEF MemoryInv, JobGoal
    <2> QED BY <1>2, <1>4, <2>1, <2>2 DEF JobGoal
  <1>5. ASSUME NEW ns \in Namespaces, ClaimCollection(w, ns) PROVE JobGoal
    <2> DEFINE j == CollJob(ns, "spec", "processing", Part, 1)
    <2>1. /\ job' = [job EXCEPT ![w] = j] /\ pc' = "check"
          /\ collTask[ns] = "added" /\ collTask'[ns] = "processing"
      BY <1>1, <1>5 DEF ClaimCollection, TakeCollection, driver, TypeInv, TypeOK
    <2>2. /\ j \in Job /\ j.step = "spec" /\ j.ns = ns /\ j.todo = Part
          /\ j.status = "processing"
      BY DEF Job, CollJob, CollSteps
    <2>3. JobOK(j)'
      BY <2>1, <2>2 DEF JobOK
    <2>4. \A v \in Worker \ {w} : job[v].step \in CollSteps => job[v].ns # j.ns
      BY <2>1, <2>2 DEF JobInv, JobOK
    <2> HIDE DEF j
    <2> QED BY <1>2, <2>1, <2>2, <2>3, <2>4, NewJob DEF JobGoal
  <1>6. ASSUME NEW j \in Job, job' = [job EXCEPT ![w] = j], j.step \notin CollSteps,
               pc' = "check"
        PROVE JobGoal
    <2>1. JobOK(j)'
      BY <1>6 DEF JobOK
    <2> QED BY <1>2, <1>6, <2>1, NewJob DEF JobGoal
  <1>7. ASSUME NEW d \in docTasks, ClaimDocTask(w, d) PROVE JobGoal
    <2> DEFINE j == DocJob(Claimed(d))
    <2>1. d \in DocTask /\ "processing" \in TaskStatus
      BY DEF TypeInv, TypeOK, TaskStatus
    <2>2. j \in Job /\ j.step = "compare"
      <3>1. Claimed(d) \in DocTask /\ Claimed(d).status = "processing"
        BY <2>1 DEF Claimed, DocTask
      <3> QED BY <3>1 DEF Job, DocJob
    <2>3. job' = [job EXCEPT ![w] = j] /\ pc' = "check" /\ j.step \notin CollSteps
      BY <1>1, <1>7, <2>2 DEF ClaimDocTask, driver, CollSteps
    <2> HIDE DEF j
    <2> QED BY <1>6, <2>2, <2>3
  <1>8. ASSUME ClaimFails(w) \/ ClaimNothing(w) PROVE JobGoal
    <2>1. /\ job' = [job EXCEPT ![w] = Reclaim] \/ job' = [job EXCEPT ![w] = Idle]
          /\ pc' = "check"
      BY <1>1, <1>8 DEF ClaimFails, ClaimNothing, driver
    <2>2. /\ Reclaim \in Job /\ Reclaim.step \notin CollSteps
          /\ Idle \in Job /\ Idle.step \notin CollSteps
      BY DEF Job, Reclaim, Idle, CollSteps
    <2> QED BY <1>6, <2>1, <2>2
  <1>9. ASSUME ClaimAgain(w) PROVE JobGoal
    <2>1. \A v \in Worker : job'[v] = Idle
      BY <1>9, StopType DEF ClaimAgain
    <2>2. job' \in [Worker -> Job]
      BY <1>9, StopType DEF ClaimAgain
    <2> QED BY <2>1, <2>2, IdleJobs DEF JobGoal
  <1> QED BY <1>5, <1>7, <1>8, <1>9

\* A worker that has a task is in the generation.
LEMMA Working ==
    ASSUME Inv, NEW w \in Worker, job[w].step \in CollSteps \cup {"compare"}
    PROVE  /\ pc = "check" /\ toReset = {} /\ resetting = NoNs /\ job[w] \in Job
           /\ job[w].step \in CollSteps =>
                  /\ job[w] \in CollJobs
                  /\ collTask[job[w].ns] = "processing"
                  /\ primary = "completed"
  <1> USE DEF Inv
  <1>1. job[w].step # Idle.step
    BY DEF CollSteps, Idle
  <1>2. pc = "check" /\ job[w] \in Job
    BY <1>1 DEF MemoryInv, TypeInv, TypeOK
  <1>3. toReset = {} /\ resetting = NoNs
    BY <1>2 DEF MemoryInv
  <1>4. ASSUME job[w].step \in CollSteps
        PROVE  /\ job[w] \in CollJobs
               /\ collTask[job[w].ns] = "processing"
               /\ primary = "completed"
    <2>1. job[w] \in CollJobs
      BY <1>2, <1>4, JobKinds
    <2>2. collTask[job[w].ns] = "processing"
      BY <1>4 DEF JobInv, JobOK
    <2>3. job[w].ns \in Namespaces
      BY <2>1 DEF CollJobs
    <2>4. primary = "completed"
      BY <2>2, <2>3 DEF SetupInv, TypeInv, TypeOK
    <2> QED BY <2>1, <2>2, <2>4
  <1> QED BY <1>2, <1>3, <1>4

\* What a worker's step at least leaves alone.
WorkerStep(w) ==
    /\ pc = "check" /\ toReset = {} /\ resetting = NoNs
    /\ UNCHANGED <<driver, comparable, crashes>>
    /\ job' \in [Worker -> Job]
    /\ redone' \in SUBSET Namespaces /\ retries' \in 0..MaxRetries

\* Then the driver's invariants stay.
LEMMA WorkerMemory ==
    ASSUME Inv, NEW w \in Worker, WorkerStep(w)
    PROVE  /\ MemoryInv' /\ OverInv'
           /\ UNCHANGED <<primary, collTask>> => SetupInv'
  <1>1. MemoryInv' /\ OverInv'
    BY DEF Inv, MemoryInv, OverInv, WorkerStep, driver
  <1>2. ASSUME UNCHANGED <<primary, collTask>> PROVE SetupInv'
    BY <1>2 DEF Inv, SetupInv, WorkerStep, driver
  <1> QED BY <1>1, <1>2

\* A document task is compared.
LEMMA FinishDocs ==
    ASSUME Inv, NEW w \in Worker, FinishDocTask(w)
    PROVE  Inv'
  <1> USE InitialTasksAssumption DEF Inv
  <1> DEFINE d == job[w].task
  <1>1. pc = "check" /\ toReset = {} /\ resetting = NoNs /\ d \in DocTask
    <2>1. job[w].step = "compare"
      BY DEF FinishDocTask
    <2> QED BY <2>1, Working, JobKinds
  <1>2. PICK st \in {"completed", "failed"} : docTasks' = SetStatus(d, st)
    BY DEF FinishDocTask
  <1>3. st \in TaskStatus
    BY DEF TaskStatus
  <1> HIDE DEF d
  <1>4. /\ job' = [job EXCEPT ![w] = Idle]
        /\ UNCHANGED <<primary, collTask, collNext, driver, comparable, history>>
    BY DEF FinishDocTask
  <1>5. \A ns \in Namespaces, p \in Part : HasTask(ns, p) => HasTask(ns, p)'
    BY <1>1, <1>2, <1>3, SetStatusKeeps
  <1>6. SettledInv' /\ MetadataRecheckOwed' /\ \A j \in Job : JobOK(j) => JobOK(j)'
    BY <1>4, <1>5, MoreTasks
  <1>7. Idle \in Job /\ Idle.step \notin CollSteps /\ JobOK(Idle)'
    BY DEF Job, Idle, CollSteps, JobOK
  <1>8. JobInv' /\ OneWorkerInv' /\ job' \in [Worker -> Job]
    BY <1>4, <1>6, <1>7, NewJob
  <1>9. TypeInv'
    BY <1>1, <1>2, <1>3, <1>4, <1>8, SetStatusType DEF TypeInv, TypeOK, driver, history
  <1>10. WorkerStep(w)
    BY <1>1, <1>4, <1>8 DEF WorkerStep, driver, history, TypeInv, TypeOK
  <1> QED BY <1>4, <1>6, <1>8, <1>9, <1>10, WorkerMemory

\* A collection's metadata is compared, or all of its task is done again.
LEMMA Compares ==
    ASSUME Inv, NEW w \in Worker,
           CompareSpecification(w) \/ CompareIndexes(w) \/ RetryCollection(w)
    PROVE  Inv'
  <1> USE InitialTasksAssumption DEF Inv
  <1>1. job[w].step \in CollSteps
    BY DEF CompareSpecification, CompareIndexes, RetryCollection, CollSteps
  <1>2. /\ pc = "check" /\ toReset = {} /\ resetting = NoNs
        /\ job[w] \in Job /\ job[w] \in CollJobs
        /\ collTask[job[w].ns] = "processing" /\ primary = "completed"
    BY <1>1, Working
  <1>3. /\ UNCHANGED <<primary, collTask, docTasks, driver, comparable, crashes>>
        /\ collNext \subseteq collNext' /\ collNext' \in SUBSET Namespaces
        /\ redone' \in SUBSET Namespaces /\ retries' \in 0..MaxRetries
    <2>1. job[w].ns \in Namespaces
      BY <1>2 DEF CollJobs
    <2>2. CASE CompareSpecification(w)
      BY <2>1, <2>2 DEF CompareSpecification, Recheck, history, TypeInv, TypeOK
    <2>3. CASE CompareIndexes(w)
      BY <2>1, <2>3 DEF CompareIndexes, Recheck, history, TypeInv, TypeOK
    <2>4. CASE RetryCollection(w)
      BY <2>1, <2>4 DEF RetryCollection, metadata, TypeInv, TypeOK
    <2> QED BY <2>2, <2>3, <2>4
  <1>4. \E j \in CollJobs :
            /\ job' = [job EXCEPT ![w] = j] /\ j.ns = job[w].ns
            /\ j.step # "partition" => j.todo = Part
            /\ j.step = "indexes" => j.ns \in comparable
            /\ j.ns \in comparable => j.todo = Part
            /\ j.status \in {"mismatch", "failed"} => j.ns \in collNext'
    <2> DEFINE Good(j) ==
            /\ j \in CollJobs
            /\ job' = [job EXCEPT ![w] = j] /\ j.ns = job[w].ns
            /\ j.step # "partition" => j.todo = Part
            /\ j.step = "indexes" => j.ns \in comparable
            /\ j.ns \in comparable => j.todo = Part
            /\ j.status \in {"mismatch", "failed"} => j.ns \in collNext'
    <2>1. ASSUME CompareSpecification(w) PROVE \E j : Good(j)
      <3>1. job[w].todo = Part /\ job[w].step = "spec"
        BY <2>1 DEF CompareSpecification, JobInv, JobOK, CollSteps
      <3> DEFINE Continue(st) == [job[w] EXCEPT !.step = "indexes", !.status = st]
                 Stop(st) == [job[w] EXCEPT !.step = "partition", !.status = st, !.todo = {}]
      <3>2. ASSUME NEW st \in {"processing", "completed", "mismatch", "failed"}
            PROVE  /\ Continue(st) \in CollJobs /\ Stop(st) \in CollJobs
                   /\ Continue(st).ns = job[w].ns /\ Stop(st).ns = job[w].ns
                   /\ Continue(st).step = "indexes" /\ Stop(st).step = "partition"
                   /\ Continue(st).status = st /\ Stop(st).status = st
                   /\ Continue(st).todo = Part
        BY <1>2, <3>1 DEF CollJobs, CollSteps
      <3>3. \/ /\ job[w].ns \in comparable
               /\ \/ job' = [job EXCEPT ![w] = Continue("processing")]
                  \/ /\ job' = [job EXCEPT ![w] = Continue("mismatch")]
                     /\ job[w].ns \in collNext'
            \/ /\ job[w].ns \notin comparable
               /\ \/ job' = [job EXCEPT ![w] = Stop("completed")]
                  \/ /\ job' = [job EXCEPT ![w] = Stop("failed")]
                     /\ job[w].ns \in collNext'
        BY <2>1 DEF CompareSpecification, Recheck, TypeInv, TypeOK
      <3> HIDE DEF Continue, Stop
      <3>4. CASE job[w].ns \in comparable
        <4>1. Good(Continue("processing")) \/ Good(Continue("mismatch"))
          BY <3>2, <3>3, <3>4
        <4> QED BY <4>1
      <3>5. CASE job[w].ns \notin comparable
        <4>1. Good(Stop("completed")) \/ Good(Stop("failed"))
          BY <3>2, <3>3, <3>5
        <4> QED BY <4>1
      <3> QED BY <3>4, <3>5
    <2>2. ASSUME CompareIndexes(w) PROVE \E j : Good(j)
      <3>1. /\ job[w].todo = Part /\ job[w].step = "indexes" /\ job[w].ns \in comparable
            /\ job[w].status \in {"mismatch", "failed"} => job[w].ns \in collNext
        BY <2>2 DEF CompareIndexes, JobInv, JobOK, CollSteps
      <3> DEFINE Go(st) == [job[w] EXCEPT !.step = "partition", !.status = st]
      <3>2. ASSUME NEW st \in {"processing", "completed", "mismatch", "failed"}
            PROVE  /\ Go(st) \in CollJobs /\ Go(st).ns = job[w].ns
                   /\ Go(st).step = "partition" /\ Go(st).status = st /\ Go(st).todo = Part
        BY <1>2, <3>1 DEF CollJobs, CollSteps
      <3>3. job[w].status \in {"processing", "completed", "mismatch", "failed"}
        BY <1>2 DEF CollJobs
      <3>4. [job[w] EXCEPT !.step = "partition"] = Go(job[w].status)
        BY <1>2 DEF CollJobs
      <3>5. \/ job' = [job EXCEPT ![w] = Go(job[w].status)]
            \/ job' = [job EXCEPT ![w] = Go("mismatch")] /\ job[w].ns \in collNext'
        <4>1. \/ job' = [job EXCEPT ![w] = [job[w] EXCEPT !.step = "partition"]]
              \/ job' = [job EXCEPT ![w] = Go("mismatch")] /\ job[w].ns \in collNext'
          BY <2>2 DEF CompareIndexes, Recheck, TypeInv, TypeOK
        <4> QED BY <3>4, <4>1
      <3> HIDE DEF Go
      <3>6. Good(Go(job[w].status)) \/ Good(Go("mismatch"))
        BY <1>3, <3>1, <3>2, <3>3, <3>5
      <3> QED BY <3>6
    <2>3. ASSUME RetryCollection(w) PROVE \E j : Good(j)
      <3> DEFINE j == CollJob(job[w].ns, "spec", "processing", Part, job[w].try + 1)
      <3>1. j \in CollJobs
        BY <1>2, <2>3 DEF RetryCollection, MayRetry, CollJob, CollJobs, CollSteps
      <3>2. Good(j)
        BY <2>3, <3>1 DEF RetryCollection, CollJob
      <3> QED BY <3>2
    <2> QED BY <2>1, <2>2, <2>3
  <1>5. PICK j \in CollJobs :
            /\ job' = [job EXCEPT ![w] = j] /\ j.ns = job[w].ns
            /\ j.step # "partition" => j.todo = Part
            /\ j.step = "indexes" => j.ns \in comparable
            /\ j.ns \in comparable => j.todo = Part
            /\ j.status \in {"mismatch", "failed"} => j.ns \in collNext'
    BY <1>4
  <1>6. j \in Job
    BY DEF Job, CollJobs
  <1>7. JobOK(j)'
    BY <1>2, <1>3, <1>5 DEF JobOK
  <1>8. \A i \in Job : JobOK(i) => JobOK(i)'
    BY <1>3 DEF JobOK, HasTask
  <1>9. \A v \in Worker \ {w} : job[v].step \in CollSteps => job[v].ns # j.ns
    BY <1>1, <1>5 DEF OneWorkerInv
  <1>10. JobInv' /\ OneWorkerInv' /\ job' \in [Worker -> Job]
    BY <1>5, <1>6, <1>7, <1>8, <1>9, NewJob
  <1>11. TypeInv'
    BY <1>3, <1>10 DEF TypeInv, TypeOK, driver
  <1>12. SettledInv' /\ MetadataRecheckOwed'
    BY <1>3 DEF SettledInv, MetadataRecheckOwed, HasTask
  <1>13. WorkerStep(w)
    BY <1>2, <1>3, <1>10 DEF WorkerStep
  <1> QED BY <1>3, <1>10, <1>11, <1>12, <1>13, WorkerMemory

\* A partition gets its task.
LEMMA InsertsPartition ==
    ASSUME Inv, NEW w \in Worker, NEW p \in Part, InsertPartition(w, p)
    PROVE  Inv'
  <1> USE InitialTasksAssumption DEF Inv
  <1>1. job[w].step = "partition" /\ job[w].step \in CollSteps
    BY DEF InsertPartition, CollSteps
  <1>2. /\ pc = "check" /\ toReset = {} /\ resetting = NoNs
        /\ job[w] \in Job /\ job[w] \in CollJobs /\ job[w].ns \in Namespaces
        /\ collTask[job[w].ns] = "processing"
    BY <1>1, Working DEF CollJobs
  <1>3. PICK ns \in Namespaces, todo \in SUBSET Part : ns = job[w].ns /\ todo = job[w].todo
    BY <1>2 DEF CollJobs
  <1> DEFINE copies == {d \in Of(ns) : d.part = p}
             new == [ns |-> ns, part |-> p, copy |-> Cardinality(copies) + 1, status |-> "added"]
  <1>4. /\ docTasks' = docTasks \cup {new} /\ Cardinality(copies) < MaxCopies
        /\ job' = [job EXCEPT ![w] = [job[w] EXCEPT !.todo = todo \ {p}]]
        /\ UNCHANGED <<primary, collTask, collNext, driver, comparable, history>>
    BY <1>3 DEF InsertPartition, TypeInv, TypeOK
  <1>5. Cardinality(copies) \in Nat
    <2>1. copies \in SUBSET docTasks
      BY DEF Of
    <2>2. IsFiniteSet(copies)
      BY <2>1, FS_Subset DEF TypeInv
    <2> QED BY <2>2, FS_CardinalityType
  <1>6. new \in DocTask /\ new.ns = ns /\ new.part = p
    BY <1>3, <1>4, <1>5 DEF DocTask, TaskStatus
  <1> HIDE DEF new
  <1>7. IsFiniteSet(docTasks')
    BY <1>4, FS_AddElement DEF TypeInv
  <1>8. PICK j \in CollJobs :
            /\ job' = [job EXCEPT ![w] = j]
            /\ j.ns = ns /\ j.step = "partition" /\ j.todo = todo \ {p}
            /\ j.status = job[w].status
    <2> DEFINE k == [job[w] EXCEPT !.todo = todo \ {p}]
    <2>1. /\ k \in CollJobs /\ k.ns = ns /\ k.step = "partition" /\ k.todo = todo \ {p}
          /\ k.status = job[w].status
      BY <1>1, <1>2, <1>3 DEF CollJobs
    <2> QED BY <1>4, <2>1
  <1>9. j \in Job
    BY DEF Job, CollJobs
  <1>10. \A n \in Namespaces, q \in Part : HasTask(n, q) => HasTask(n, q)'
    BY <1>4 DEF HasTask
  <1>11. SettledInv' /\ MetadataRecheckOwed' /\ \A i \in Job : JobOK(i) => JobOK(i)'
    BY <1>4, <1>10, MoreTasks
  <1>12. HasTask(ns, p)'
    BY <1>4, <1>6 DEF HasTask
  <1>13. /\ ns \in comparable => \A q \in Part \ todo : HasTask(ns, q)
         /\ job[w].status \in {"mismatch", "failed"} => ns \in collNext
    BY <1>1, <1>3 DEF JobInv, JobOK
  <1>14. JobOK(j)'
    <2>1. ns \in comparable => \A q \in Part \ (todo \ {p}) : HasTask(ns, q)'
      BY <1>10, <1>12, <1>13
    <2>2. collTask'[ns] = "processing" /\ collNext' = collNext /\ comparable' = comparable
      BY <1>2, <1>3, <1>4
    <2> QED BY <1>8, <1>13, <2>1, <2>2 DEF JobOK
  <1>15. \A v \in Worker \ {w} : job[v].step \in CollSteps => job[v].ns # j.ns
    BY <1>1, <1>3, <1>8 DEF OneWorkerInv
  <1>16. JobInv' /\ OneWorkerInv' /\ job' \in [Worker -> Job]
    BY <1>8, <1>9, <1>11, <1>14, <1>15, NewJob
  <1>17. TypeInv'
    BY <1>4, <1>6, <1>7, <1>16 DEF TypeInv, TypeOK, driver, history
  <1>18. WorkerStep(w)
    BY <1>2, <1>4, <1>16 DEF WorkerStep, driver, history, TypeInv, TypeOK
  <1> QED BY <1>4, <1>11, <1>16, <1>17, <1>18, WorkerMemory

\* A collection's task is done: its partitions have tasks, its mismatch a recheck.
LEMMA FinishesCollection ==
    ASSUME Inv, NEW w \in Worker, FinishCollection(w)
    PROVE  Inv'
  <1> USE InitialTasksAssumption DEF Inv
  <1>1. /\ job[w].step = "partition" /\ job[w].step \in CollSteps /\ job[w].todo = {}
        /\ UNCHANGED <<primary, collNext, docTasks, driver, comparable, history>>
        /\ job' = [job EXCEPT ![w] = Idle]
    BY DEF FinishCollection, Partitioned, CollSteps
  <1>2. /\ pc = "check" /\ toReset = {} /\ resetting = NoNs
        /\ job[w] \in CollJobs /\ job[w].ns \in Namespaces /\ primary = "completed"
    BY <1>1, Working DEF CollJobs
  <1>3. PICK ns \in Namespaces, st \in {"completed", "mismatch", "failed"} :
            /\ ns = job[w].ns
            /\ st = IF job[w].status = "processing" THEN "completed" ELSE job[w].status
            /\ collTask' = [collTask EXCEPT ![ns] = st]
    BY <1>2 DEF FinishCollection, CollJobs
  <1>4. /\ ns \in comparable => \A p \in Part : HasTask(ns, p)
        /\ st \in {"mismatch", "failed"} => ns \in collNext
    BY <1>1, <1>3 DEF JobInv, JobOK
  <1>6. \A i \in Job : JobOK(i) /\ (i.step \in CollSteps => i.ns # ns) => JobOK(i)'
    <2> SUFFICES ASSUME NEW i \in Job, JobOK(i), i.step \in CollSteps, i.ns # ns
                 PROVE  JobOK(i)'
      BY DEF JobOK
    <2>1. i.ns \in Namespaces
      BY JobKinds DEF CollJobs
    <2>2. collTask'[i.ns] = collTask[i.ns]
      BY <1>3, <2>1 DEF TypeInv, TypeOK
    <2> QED BY <1>1, <2>2 DEF JobOK, HasTask
  <1>7. JobInv' /\ OneWorkerInv' /\ job' \in [Worker -> Job]
    BY <1>1, <1>2, <1>3, <1>6, DoneJob
  <1>8. SettledInv'
    BY <1>1, <1>3, <1>4 DEF SettledInv, HasTask, TypeInv, TypeOK
  <1>9. MetadataRecheckOwed'
    BY <1>1, <1>3, <1>4 DEF MetadataRecheckOwed, TypeInv, TypeOK
  <1>10. TypeInv'
    BY <1>1, <1>3, <1>7 DEF TypeInv, TypeOK, driver, history, TaskStatus
  <1>11. SetupInv'
    BY <1>1, <1>2, <1>3 DEF SetupInv, driver, TypeInv, TypeOK
  <1>12. WorkerStep(w)
    BY <1>1, <1>2, <1>7 DEF WorkerStep, driver, history, TypeInv, TypeOK
  <1> QED BY <1>7, <1>8, <1>9, <1>10, <1>11, <1>12, WorkerMemory

-----------------------------------------------------------------------------
(* The end of the generation, and crashes *)

LEMMA Ends ==
    ASSUME Inv, EndGeneration \/ Crash
    PROVE  Inv'
  <1> USE InitialTasksAssumption DEF Inv
  <1>1. UNCHANGED <<primary, collTask, collNext, docTasks, comparable>>
    BY DEF EndGeneration, Crash, metadata
  <1>2. SettledInv' /\ MetadataRecheckOwed'
    BY <1>1, SameTasks
  <1>3. /\ \A w \in Worker : job'[w] = Idle
        /\ job' \in [Worker -> Job]
        /\ toReset' = {} /\ resetting' = NoNs /\ toInsert' \in SUBSET Namespaces
        /\ pc' \in {"down", "over"}
    <2>1. CASE EndGeneration
      BY <2>1 DEF EndGeneration, MemoryInv, TypeInv, TypeOK
    <2>2. CASE Crash
      BY <2>2, StopType DEF Crash
    <2> QED BY <2>1, <2>2
  <1>4. JobInv' /\ OneWorkerInv'
    BY <1>3, IdleJobs
  <1>5. MemoryInv'
    BY <1>3 DEF MemoryInv
  <1>6. OverInv'
    BY <1>1 DEF EndGeneration, Crash, StopProcess, OverInv
  <1>7. SetupInv'
    BY <1>1 DEF SetupInv, EndGeneration, Crash, StopProcess
  <1>8. TypeInv'
    BY <1>1, <1>3 DEF TypeInv, TypeOK, EndGeneration, Crash, history
  <1> QED BY <1>2, <1>4, <1>5, <1>6, <1>7, <1>8

LEMMA InvInit == Init => Inv
  <1> SUFFICES ASSUME Init PROVE Inv
    OBVIOUS
  <1> USE InitialTasksAssumption DEF Init
  <1>1. \A w \in Worker : job[w] = Idle
    OBVIOUS
  <1>2. TypeInv
    BY FS_EmptySet DEF TypeInv, TypeOK, Job
  <1>3. MemoryInv /\ OverInv /\ SettledInv /\ MetadataRecheckOwed
    BY DEF MemoryInv, OverInv, SettledInv, MetadataRecheckOwed
  <1>4. SetupInv
    BY DEF SetupInv
  <1>5. JobInv /\ OneWorkerInv
    BY <1>1 DEF JobInv, JobOK, OneWorkerInv, Idle, CollSteps
  <1> QED BY <1>2, <1>3, <1>4, <1>5 DEF Inv

LEMMA InvNext == Inv /\ [Next]_vars => Inv'
  <1> SUFFICES ASSUME Inv, [Next]_vars PROVE Inv'
    OBVIOUS
  <1>1. CASE Reset \/ RetryReset
    BY <1>1, ResetReads, ResetDeletes, ResetCollections DEF Reset
  <1>2. CASE CreateInitialTasks
    BY <1>2, ResetReads, SetupWrites DEF CreateInitialTasks
  <1>3. ASSUME NEW w \in Worker, Work(w) \/ RetryCollection(w) \/ ClaimFails(w) PROVE Inv'
    <2>1. CASE \/ \E ns \in Namespaces : ClaimCollection(w, ns)
               \/ \E d \in docTasks : ClaimDocTask(w, d)
               \/ ClaimFails(w) \/ ClaimAgain(w) \/ ClaimNothing(w)
      BY <2>1, Claims
    <2>2. CASE FinishDocTask(w)
      BY <2>2, FinishDocs
    <2>3. CASE CompareSpecification(w) \/ CompareIndexes(w) \/ RetryCollection(w)
      BY <2>3, Compares
    <2>4. CASE \E p \in Part : InsertPartition(w, p)
      BY <2>4, InsertsPartition
    <2>5. CASE FinishCollection(w)
      BY <2>5, FinishesCollection
    <2> QED BY <1>3, <2>1, <2>2, <2>3, <2>4, <2>5 DEF Work
  <1>4. CASE EndGeneration \/ Crash
    BY <1>4, Ends
  <1>5. CASE Start
    BY <1>5, ResetReads
  <1>6. CASE UNCHANGED vars
    BY <1>6 DEF vars, metadata, driver, history, Inv, TypeInv, TypeOK, MemoryInv, SetupInv,
           JobInv, JobOK, OneWorkerInv, SettledInv, MetadataRecheckOwed, OverInv, HasTask
  <1> QED BY <1>1, <1>2, <1>3, <1>4, <1>5, <1>6 DEF Next

-----------------------------------------------------------------------------
(* One task for each partition, unless a worker starts a collection over.  A   *)
(* collection that waits for a worker has no document tasks, its worker        *)
(* has none for what it still has to insert, and what a worker compares        *)
(* is in the metadata and nobody else's.                                       *)

Untouched == \A ns \in Namespaces : collTask[ns] \in {"none", "added"} => Of(ns) = {}

Fresh(j) ==
    j.step \in CollSteps /\ j.ns \notin redone => \A d \in Of(j.ns) : d.part \notin j.todo

Held(j) ==
    j.step = "compare" =>
        /\ collTask[j.task.ns] \notin {"none", "added"}
        /\ j.task.ns \notin redone => j.task \in docTasks

OnceInv ==
    /\ PartitionedOnce /\ Untouched
    /\ \A w \in Worker : Fresh(job[w]) /\ Held(job[w])
    /\ \A v, w \in Worker :
          v # w /\ job[v].step = "compare" /\ job[w].step = "compare" /\ job[v].task.ns \notin redone
              => job[v].task # job[w].task

\* No worker has a task.
LEMMA IdleOnce ==
    ASSUME PartitionedOnce', Untouched', \A w \in Worker : job'[w] = Idle
    PROVE  OnceInv'
  BY DEF OnceInv, Fresh, Held, Idle, CollSteps

\* The job of one worker changes.
LEMMA JobOnce ==
    ASSUME Inv, OnceInv, PartitionedOnce', Untouched', NEW w \in Worker, NEW j,
           job' = [job EXCEPT ![w] = j], redone \subseteq redone', Fresh(j)', Held(j)',
           \A v \in Worker \ {w}, i \in Job : i = job[v] => Fresh(i)' /\ Held(i)',
           j.step = "compare" => \A v \in Worker \ {w} :
               job[v].step = "compare" /\ job[v].task.ns \notin redone => job[v].task # j.task
    PROVE  OnceInv'
  <1>1. job'[w] = j /\ \A v \in Worker \ {w} : job'[v] = job[v] /\ job[v] \in Job
    BY DEF Inv, TypeInv, TypeOK
  <1>2. \A v \in Worker : \E i : i = job'[v] /\ Fresh(i)' /\ Held(i)'
    BY <1>1
  <1>4. \A v \in Worker : Fresh(job[v])' /\ Held(job[v])'
    BY <1>2 DEF Fresh, Held
  <1>3. \A u, v \in Worker :
          u # v /\ job'[u].step = "compare" /\ job'[v].step = "compare" /\ job'[u].task.ns \notin redone'
              => job'[u].task # job'[v].task
    BY <1>1 DEF OnceInv
  <1> QED BY <1>3, <1>4 DEF OnceInv

\* A task that is compared is in progress.
LEMMA ComparedTask ==
    ASSUME NEW j \in Job, j.step = "compare"
    PROVE  j.task \in DocTask /\ j.task.status = "processing"
  BY DEF Job, CollSteps, Idle, Reclaim

\* A task gets a new status.
LEMMA StatusOnce ==
    ASSUME Inv, OnceInv, NEW d \in DocTask, NEW st \in TaskStatus, docTasks' = SetStatus(d, st),
           d.ns \notin redone => d \in docTasks, collTask[d.ns] \notin {"none", "added"},
           UNCHANGED <<collTask, redone>>
    PROVE  /\ PartitionedOnce' /\ Untouched'
           /\ \A j \in Job : Fresh(j) => Fresh(j)'
           /\ \A j \in Job : Held(j) /\ (j.step = "compare" => j.task # d) => Held(j)'
  <1>1. PICK e \in DocTask : /\ docTasks' = (docTasks \ {d}) \cup {e}
                             /\ e.ns = d.ns /\ e.part = d.part
    <2>1. [d EXCEPT !.status = st] \in DocTask
      BY DEF DocTask
    <2>2. [d EXCEPT !.status = st].ns = d.ns /\ [d EXCEPT !.status = st].part = d.part
      BY DEF DocTask
    <2> QED BY <2>1, <2>2 DEF SetStatus
  <1>2. PartitionedOnce'
    BY <1>1 DEF OnceInv, PartitionedOnce
  <1>3. Untouched'
    BY <1>1 DEF OnceInv, Untouched, Of
  <1>4. \A j \in Job : Fresh(j) => Fresh(j)'
    BY <1>1 DEF Fresh, Of
  <1>5. \A j \in Job : Held(j) /\ (j.step = "compare" => j.task # d) => Held(j)'
    BY <1>1 DEF Held
  <1> QED BY <1>2, <1>3, <1>4, <1>5

\* A task is taken.
LEMMA TakeOnce ==
    ASSUME Inv, OnceInv, Take \/ UNCHANGED metadata, redone' = redone
    PROVE  /\ PartitionedOnce' /\ Untouched'
           /\ \A j \in Job : (Fresh(j) => Fresh(j)') /\ (Held(j) => Held(j)')
  <1>1. CASE UNCHANGED metadata
    BY <1>1 DEF metadata, OnceInv, PartitionedOnce, Untouched, Fresh, Held, Of
  <1>2. ASSUME NEW ns \in Namespaces, TakeCollection(ns)
        PROVE  /\ PartitionedOnce' /\ Untouched'
               /\ \A j \in Job : (Fresh(j) => Fresh(j)') /\ (Held(j) => Held(j)')
    <2>1. collTask' = [collTask EXCEPT ![ns] = "processing"] /\ docTasks' = docTasks
      BY <1>2 DEF TakeCollection
    <2>2. PartitionedOnce' /\ Untouched' /\ \A j \in Job : Fresh(j) => Fresh(j)'
      BY <2>1 DEF OnceInv, PartitionedOnce, Untouched, Fresh, Of, Inv, TypeInv, TypeOK
    <2>3. ASSUME NEW j \in Job, Held(j) PROVE Held(j)'
      <3> SUFFICES ASSUME j.step = "compare" PROVE Held(j)'
        BY DEF Held
      <3>1. j.task.ns \in Namespaces
        BY ComparedTask DEF DocTask
      <3> QED BY <2>1, <2>3, <3>1 DEF Held, Inv, TypeInv, TypeOK
    <2> QED BY <2>2, <2>3
  <1>3. ASSUME NEW d \in docTasks, TakeDocTask(d)
        PROVE  /\ PartitionedOnce' /\ Untouched'
               /\ \A j \in Job : (Fresh(j) => Fresh(j)') /\ (Held(j) => Held(j)')
    <2>1. /\ d \in DocTask /\ d.ns \in Namespaces /\ "processing" \in TaskStatus
          /\ docTasks' = SetStatus(d, "processing") /\ d.status = "added"
          /\ UNCHANGED <<collTask, redone>>
      BY <1>3 DEF TakeDocTask, Inv, TypeInv, TypeOK, TaskStatus, DocTask
    <2>2. collTask[d.ns] \notin {"none", "added"}
      BY <2>1 DEF OnceInv, Untouched, Of
    <2>3. \A j \in Job : j.step = "compare" => j.task # d
      BY <2>1, ComparedTask
    <2> QED BY <2>1, <2>2, <2>3, StatusOnce
  <1> QED BY <1>1, <1>2, <1>3 DEF Take

\* The steps of the driver.
LEMMA DriverOnce ==
    ASSUME Inv, OnceInv,
           Reset \/ RetryReset \/ CreateInitialTasks \/ Start \/ EndGeneration \/ Crash
    PROVE  OnceInv'
  <1> USE InitialTasksAssumption
  <1>1. \A w \in Worker : job'[w] = Idle
    <2>1. CASE Crash
      BY <2>1, StopType DEF Crash
    <2>2. CASE EndGeneration
      BY <2>2 DEF EndGeneration
    <2>3. CASE Reset \/ RetryReset \/ CreateInitialTasks \/ Start
      <3>1. pc # "check" /\ job' = job
        BY <2>3 DEF Reset, FindPrimary, DeleteOneTask, AllDeleted, FindCollections,
               CollectionsReset, ResetCollection, NextCollection, DeleteDocTask, ResetDocTask,
               DocumentsReset, RetryReset, CreateInitialTasks, CreatePrimary, SkipSetup,
               CompletePrimary, InsertCollectionTask, Start
      <3> QED BY <3>1 DEF Inv, MemoryInv
    <2> QED BY <2>1, <2>2, <2>3
  <1>2. SUFFICES PartitionedOnce' /\ Untouched'
    BY <1>1, IdleOnce
  <1>3. ASSUME docTasks' \subseteq docTasks, redone' = redone, collTask' = collTask
        PROVE  PartitionedOnce' /\ Untouched'
    BY <1>3 DEF OnceInv, PartitionedOnce, Untouched, Of
  <1>4. CASE DeleteOneTask
    <2>1. /\ docTasks' \subseteq docTasks /\ redone' = redone /\ pc = "deleteAll"
      BY <1>4 DEF DeleteOneTask, history
    <2>2. \A ns \in Namespaces : collTask[ns] \in {"none", "added"}
      BY <2>1 DEF Inv, SetupInv
    <2> QED BY <2>1, <2>2 DEF OnceInv, PartitionedOnce, Untouched, Of
  <1>5. CASE ResetCollection
    <2>1. /\ docTasks' = docTasks /\ redone' = redone \ {resetting} /\ Of(resetting) = {}
          /\ collTask' = [collTask EXCEPT ![resetting] = "added"]
      BY <1>5 DEF ResetCollection, CollectionIsEmpty
    <2>2. PartitionedOnce'
      BY <2>1 DEF OnceInv, PartitionedOnce, Of
    <2>3. Untouched'
      BY <2>1 DEF OnceInv, Untouched, Of, Inv, TypeInv, TypeOK
    <2> QED BY <2>2, <2>3
  <1>6. ASSUME NEW d \in docTasks, DeleteDocTask(d) PROVE PartitionedOnce' /\ Untouched'
    BY <1>3, <1>6 DEF DeleteDocTask, history
  <1>7. ASSUME NEW d \in docTasks, ResetDocTask(d) PROVE PartitionedOnce' /\ Untouched'
    <2>1. /\ d \in DocTask /\ d.ns \in Namespaces /\ "added" \in TaskStatus
          /\ docTasks' = SetStatus(d, "added") /\ UNCHANGED <<collTask, redone>>
      BY <1>7 DEF ResetDocTask, Inv, TypeInv, TypeOK, TaskStatus, DocTask, history
    <2>2. collTask[d.ns] \notin {"none", "added"}
      BY <2>1 DEF OnceInv, Untouched, Of
    <2> QED BY <2>1, <2>2, StatusOnce
  <1>8. ASSUME NEW ns \in Namespaces, InsertCollectionTask(ns) PROVE PartitionedOnce' /\ Untouched'
    <2>1. /\ docTasks' = docTasks /\ redone' = redone /\ pc = "insert"
          /\ collTask' = [collTask EXCEPT ![ns] = "added"]
      BY <1>8 DEF InsertCollectionTask, history
    <2>2. \A n \in Namespaces : collTask[n] \in {"none", "added"}
      BY <2>1 DEF Inv, SetupInv
    <2> QED BY <2>1, <2>2 DEF OnceInv, PartitionedOnce, Untouched, Of
  <1>9. CASE \/ FindPrimary \/ AllDeleted \/ FindCollections \/ CollectionsReset \/ DocumentsReset
             \/ RetryReset \/ CreatePrimary \/ SkipSetup \/ CompletePrimary \/ Start
             \/ EndGeneration \/ Crash \/ \E ns \in Namespaces : NextCollection(ns)
    <2>1. UNCHANGED <<collTask, docTasks, redone>>
      BY <1>9 DEF FindPrimary, AllDeleted, FindCollections, CollectionsReset, DocumentsReset,
             RetryReset, CreatePrimary, SkipSetup, CompletePrimary, Start, EndGeneration, Crash,
             NextCollection, metadata, history
    <2> QED BY <1>3, <2>1
  <1> QED BY <1>4, <1>5, <1>6, <1>7, <1>8, <1>9 DEF Reset, CreateInitialTasks

\* A worker claims a task, or fails to.
LEMMA ClaimsOnce ==
    ASSUME Inv, OnceInv, NEW w \in Worker,
           \/ \E ns \in Namespaces : ClaimCollection(w, ns)
           \/ \E d \in docTasks : ClaimDocTask(w, d)
           \/ ClaimFails(w) \/ ClaimAgain(w) \/ ClaimNothing(w)
    PROVE  OnceInv'
  <1>1. (Take \/ UNCHANGED metadata) /\ redone' = redone
    BY DEF ClaimCollection, ClaimDocTask, ClaimFails, ClaimAgain, ClaimNothing, Take, history
  <1>2. /\ PartitionedOnce' /\ Untouched'
        /\ \A j \in Job : (Fresh(j) => Fresh(j)') /\ (Held(j) => Held(j)')
    BY <1>1, TakeOnce
  <1>3. \A v \in Worker, i \in Job : i = job[v] => Fresh(i)' /\ Held(i)'
    BY <1>2 DEF OnceInv
  <1>4. ASSUME NEW ns \in Namespaces, ClaimCollection(w, ns) PROVE OnceInv'
    <2> DEFINE j == CollJob(ns, "spec", "processing", Part, 1)
    <2>1. /\ job' = [job EXCEPT ![w] = j] /\ collTask[ns] = "added" /\ docTasks' = docTasks
      BY <1>4 DEF ClaimCollection, TakeCollection
    <2>2. j.step = "spec" /\ j.ns = ns
      BY DEF CollJob
    <2> HIDE DEF j
    <2>3. Of(ns)' = {}
      BY <2>1 DEF OnceInv, Untouched, Of
    <2>4. Fresh(j)' /\ Held(j)'
      BY <2>2, <2>3 DEF Fresh, Held
    <2> QED BY <1>1, <1>2, <1>3, <2>1, <2>2, <2>4, JobOnce
  <1>5. ASSUME NEW d \in docTasks, ClaimDocTask(w, d) PROVE OnceInv'
    <2>0. d \in DocTask /\ d.status = "added"
      BY <1>5 DEF ClaimDocTask, TakeDocTask, Inv, TypeInv, TypeOK
    <2>1. d.ns \in Namespaces
      BY <2>0 DEF DocTask
    <2> DEFINE e == Claimed(d)
               j == DocJob(e)
    <2>2. e.ns = d.ns /\ e.part = d.part /\ e.status = "processing"
      BY <2>0 DEF Claimed, DocTask
    <2>3. j.step = "compare" /\ j.task = e
      BY DEF DocJob
    <2>4. /\ job' = [job EXCEPT ![w] = j] /\ collTask' = collTask
          /\ docTasks' = (docTasks \ {d}) \cup {e}
      BY <1>5 DEF ClaimDocTask, TakeDocTask, SetStatus, Claimed
    <2> HIDE DEF e, j
    <2>5. collTask[d.ns] \notin {"none", "added"}
      BY <2>1 DEF OnceInv, Untouched, Of
    <2>6. Fresh(j)' /\ Held(j)'
      BY <2>2, <2>3, <2>4, <2>5 DEF Fresh, Held, CollSteps
    <2>7. \A v \in Worker \ {w} :
              job[v].step = "compare" /\ job[v].task.ns \notin redone => job[v].task # j.task
      <3> SUFFICES ASSUME NEW v \in Worker, job[v].step = "compare", job[v].task.ns \notin redone,
                          job[v].task = e
                   PROVE  FALSE
        BY <2>3
      <3>1. e \in docTasks
        BY DEF OnceInv, Held
      <3>2. e = d
        BY <2>2, <3>1 DEF OnceInv, PartitionedOnce
      <3> QED BY <2>0, <2>2, <3>2
    <2> QED BY <1>1, <1>2, <1>3, <2>4, <2>6, <2>7, JobOnce
  <1>6. ASSUME ClaimFails(w) \/ ClaimNothing(w) PROVE OnceInv'
    <2>1. PICK j \in {Idle, Reclaim} : job' = [job EXCEPT ![w] = j]
      BY <1>6 DEF ClaimFails, ClaimNothing
    <2>2. j.step \notin CollSteps /\ j.step # "compare"
      BY DEF Idle, Reclaim, CollSteps
    <2>3. Fresh(j)' /\ Held(j)'
      BY <2>2 DEF Fresh, Held
    <2> QED BY <1>1, <1>2, <1>3, <2>1, <2>2, <2>3, JobOnce
  <1>7. ASSUME ClaimAgain(w) PROVE OnceInv'
    BY <1>2, <1>7, StopType, IdleOnce DEF ClaimAgain
  <1> QED BY <1>4, <1>5, <1>6, <1>7

\* A document task gets its outcome.
LEMMA FinishOnce ==
    ASSUME Inv, OnceInv, NEW w \in Worker, FinishDocTask(w)
    PROVE  OnceInv'
  <1>1. job[w].step = "compare" /\ job[w] \in Job /\ Held(job[w])
    BY DEF FinishDocTask, OnceInv, Inv, TypeInv, TypeOK
  <1>2. PICK d \in DocTask : d = job[w].task
    BY <1>1, ComparedTask
  <1>3. PICK st \in {"completed", "failed"} : docTasks' = SetStatus(d, st)
    BY <1>2 DEF FinishDocTask
  <1>4. /\ job' = [job EXCEPT ![w] = Idle] /\ UNCHANGED <<collTask, redone>>
        /\ st \in TaskStatus
    BY DEF FinishDocTask, history, TaskStatus
  <1>5. collTask[d.ns] \notin {"none", "added"} /\ (d.ns \notin redone => d \in docTasks)
    BY <1>1, <1>2 DEF Held
  <1>6. /\ PartitionedOnce' /\ Untouched'
        /\ \A j \in Job : Fresh(j) => Fresh(j)'
        /\ \A j \in Job : Held(j) /\ (j.step = "compare" => j.task # d) => Held(j)'
    BY <1>3, <1>4, <1>5, StatusOnce
  <1>7. ASSUME NEW v \in Worker \ {w}, NEW i \in Job, i = job[v] PROVE Fresh(i)' /\ Held(i)'
    <2>1. Fresh(i) /\ Held(i)
      BY <1>7 DEF OnceInv
    <2>2. CASE i.step = "compare" /\ i.task = d
      <3>1. d.ns \in redone
        BY <1>1, <1>2, <1>7, <2>2 DEF OnceInv
      <3> QED BY <1>4, <1>5, <1>6, <2>1, <2>2, <3>1 DEF Held
    <2> QED BY <1>6, <2>1, <2>2
  <1>8. Fresh(Idle)' /\ Held(Idle)' /\ Idle.step # "compare"
    BY DEF Fresh, Held, Idle, CollSteps
  <1>9. redone \subseteq redone'
    BY <1>4
  <1> QED BY <1>4, <1>6, <1>7, <1>8, <1>9, JobOnce

\* A collection's metadata is compared: its worker has no more to insert than before.
LEMMA ComparesOnce ==
    ASSUME Inv, OnceInv, NEW w \in Worker, CompareSpecification(w) \/ CompareIndexes(w)
    PROVE  OnceInv'
  <1>1. job[w].step \in CollSteps
    BY DEF CompareSpecification, CompareIndexes, CollSteps
  <1>2. job[w] \in CollJobs
    BY <1>1, Working
  <1>3. UNCHANGED <<collTask, docTasks, redone>>
    BY DEF CompareSpecification, CompareIndexes, history
  <1> DEFINE Continue(st) == [job[w] EXCEPT !.step = "indexes", !.status = st]
             Stop(st) == [job[w] EXCEPT !.step = "partition", !.status = st, !.todo = {}]
             Go(st) == [job[w] EXCEPT !.step = "partition", !.status = st]
             Same == [job[w] EXCEPT !.step = "partition"]
  <1>4. /\ \A st : Continue(st).ns = job[w].ns /\ Continue(st).todo = job[w].todo
        /\ \A st : Continue(st).step = "indexes" /\ Stop(st).step = "partition"
        /\ \A st : Stop(st).ns = job[w].ns /\ Stop(st).todo = {}
        /\ \A st : Go(st).ns = job[w].ns /\ Go(st).todo = job[w].todo /\ Go(st).step = "partition"
        /\ Same.ns = job[w].ns /\ Same.todo = job[w].todo /\ Same.step = "partition"
    BY <1>2 DEF CollJobs
  <1>5. \/ \E st \in {"processing", "mismatch"} : job' = [job EXCEPT ![w] = Continue(st)]
        \/ \E st \in {"completed", "failed"} : job' = [job EXCEPT ![w] = Stop(st)]
        \/ job' = [job EXCEPT ![w] = Go("mismatch")]
        \/ job' = [job EXCEPT ![w] = Same]
    BY DEF CompareSpecification, CompareIndexes, Inv, TypeInv, TypeOK
  <1> HIDE DEF Continue, Stop, Go, Same
  <1>6. \E j : /\ job' = [job EXCEPT ![w] = j] /\ j.ns = job[w].ns
               /\ j.step \in {"indexes", "partition"} /\ j.todo \in {{}, job[w].todo}
    BY <1>4, <1>5
  <1>7. PICK j : /\ job' = [job EXCEPT ![w] = j] /\ j.ns = job[w].ns
                 /\ j.step \in {"indexes", "partition"} /\ j.todo \in {{}, job[w].todo}
    BY <1>6
  <1>8. Fresh(j)' /\ Held(j)' /\ j.step # "compare"
    <2>1. Fresh(job[w])
      BY DEF OnceInv
    <2> QED BY <1>1, <1>3, <1>7, <2>1 DEF Fresh, Held, Of
  <1>9. /\ PartitionedOnce' /\ Untouched' /\ redone \subseteq redone'
        /\ \A v \in Worker \ {w}, i \in Job : i = job[v] => Fresh(i)' /\ Held(i)'
    BY <1>3 DEF OnceInv, PartitionedOnce, Untouched, Fresh, Held, Of
  <1> QED BY <1>7, <1>8, <1>9, JobOnce

\* All of a collection's task is done again.
LEMMA RetryOnce ==
    ASSUME Inv, OnceInv, NEW w \in Worker, RetryCollection(w)
    PROVE  OnceInv'
  <1> DEFINE j == CollJob(job[w].ns, "spec", "processing", Part, job[w].try + 1)
  <1>1. /\ UNCHANGED <<collTask, docTasks>> /\ redone' = redone \cup {job[w].ns}
        /\ job' = [job EXCEPT ![w] = j]
    BY DEF RetryCollection, metadata
  <1>2. j.step = "spec" /\ j.ns = job[w].ns
    BY DEF CollJob
  <1>3. PICK k : k = j
    OBVIOUS
  <1> HIDE DEF j
  <1>4. Fresh(k)' /\ Held(k)' /\ k.step # "compare"
    BY <1>1, <1>2, <1>3 DEF Fresh, Held
  <1>5. /\ PartitionedOnce' /\ Untouched' /\ redone \subseteq redone'
        /\ \A v \in Worker \ {w}, i \in Job : i = job[v] => Fresh(i)' /\ Held(i)'
    BY <1>1 DEF OnceInv, PartitionedOnce, Untouched, Fresh, Held, Of
  <1> QED BY <1>1, <1>3, <1>4, <1>5, JobOnce

\* A partition that has no task gets one.
LEMMA InsertOnce ==
    ASSUME Inv, OnceInv, NEW w \in Worker, NEW p \in Part, InsertPartition(w, p)
    PROVE  OnceInv'
  <1>1. job[w].step = "partition" /\ job[w].step \in CollSteps /\ p \in job[w].todo
    BY DEF InsertPartition, CollSteps
  <1>2. job[w] \in CollJobs /\ collTask[job[w].ns] = "processing"
    BY <1>1, Working
  <1>3. PICK e : /\ docTasks' = docTasks \cup {e} /\ e.ns = job[w].ns /\ e.part = p
    <2> DEFINE new == [ns |-> job[w].ns, part |-> p,
                       copy |-> Cardinality({d \in Of(job[w].ns) : d.part = p}) + 1,
                       status |-> "added"]
    <2>1. docTasks' = docTasks \cup {new} /\ new.ns = job[w].ns /\ new.part = p
      BY DEF InsertPartition
    <2> HIDE DEF new
    <2> QED BY <2>1
  <1>4. PICK j : /\ job' = [job EXCEPT ![w] = j]
                 /\ j.ns = job[w].ns /\ j.step = "partition" /\ j.todo = job[w].todo \ {p}
    <2> DEFINE k == [job[w] EXCEPT !.todo = job[w].todo \ {p}]
    <2>1. k.ns = job[w].ns /\ k.step = "partition" /\ k.todo = job[w].todo \ {p}
      BY <1>1, <1>2 DEF CollJobs
    <2>2. job' = [job EXCEPT ![w] = k]
      BY DEF InsertPartition, Inv, TypeInv, TypeOK
    <2> HIDE DEF k
    <2> QED BY <2>1, <2>2
  <1>5. UNCHANGED <<collTask, redone>>
    BY DEF InsertPartition, history
  <1>6. job[w].ns \notin redone => \A d \in Of(job[w].ns) : d.part \notin job[w].todo
    BY <1>1 DEF OnceInv, Fresh
  <1>7. PartitionedOnce'
    BY <1>1, <1>3, <1>5, <1>6 DEF OnceInv, PartitionedOnce, Of
  <1>8. Untouched'
    BY <1>2, <1>3, <1>5 DEF OnceInv, Untouched, Of
  <1>9. Fresh(j)' /\ Held(j)' /\ j.step # "compare"
    BY <1>1, <1>3, <1>4, <1>5, <1>6 DEF Fresh, Held, Of
  <1>10. ASSUME NEW v \in Worker \ {w}, NEW i \in Job, i = job[v] PROVE Fresh(i)' /\ Held(i)'
    <2>1. Fresh(i) /\ Held(i)
      BY <1>10 DEF OnceInv
    <2>2. i.step \in CollSteps => i.ns # job[w].ns
      BY <1>1, <1>10 DEF Inv, OneWorkerInv
    <2> QED BY <1>3, <1>5, <2>1, <2>2 DEF Fresh, Held, Of
  <1> QED BY <1>4, <1>5, <1>7, <1>8, <1>9, <1>10, JobOnce

\* A collection is done.
LEMMA FinishCollectionOnce ==
    ASSUME Inv, OnceInv, NEW w \in Worker, FinishCollection(w)
    PROVE  OnceInv'
  <1>1. job[w].step \in CollSteps /\ job' = [job EXCEPT ![w] = Idle] /\ UNCHANGED <<docTasks, redone>>
    BY DEF FinishCollection, CollSteps, history
  <1>2. job[w] \in CollJobs
    BY <1>1, Working
  <1>3. PICK st \in {"completed", "mismatch", "failed"} :
            collTask' = [collTask EXCEPT ![job[w].ns] = st]
    BY <1>2 DEF FinishCollection, CollJobs
  <1>4. job[w].ns \in Namespaces
    BY <1>2 DEF CollJobs
  <1>5. PartitionedOnce' /\ Untouched' /\ redone \subseteq redone'
    BY <1>1, <1>3, <1>4 DEF OnceInv, PartitionedOnce, Untouched, Of, Inv, TypeInv, TypeOK
  <1>6. ASSUME NEW v \in Worker \ {w}, NEW i \in Job, i = job[v] PROVE Fresh(i)' /\ Held(i)'
    <2>1. Fresh(i) /\ Held(i)
      BY <1>6 DEF OnceInv
    <2>2. i.step = "compare" => i.task.ns \in Namespaces
      BY ComparedTask DEF DocTask
    <2> QED BY <1>1, <1>3, <1>4, <2>1, <2>2 DEF Fresh, Held, Of, Inv, TypeInv, TypeOK
  <1>7. Fresh(Idle)' /\ Held(Idle)' /\ Idle.step # "compare"
    BY DEF Fresh, Held, Idle, CollSteps
  <1> QED BY <1>1, <1>5, <1>6, <1>7, JobOnce

LEMMA OnceNext == Inv /\ OnceInv /\ [Next]_vars => OnceInv'
  <1> SUFFICES ASSUME Inv, OnceInv, [Next]_vars PROVE OnceInv'
    OBVIOUS
  <1>1. ASSUME NEW w \in Worker, Work(w) \/ RetryCollection(w) \/ ClaimFails(w) PROVE OnceInv'
    BY <1>1, ClaimsOnce, FinishOnce, ComparesOnce, RetryOnce, InsertOnce, FinishCollectionOnce DEF Work
  <1>2. CASE UNCHANGED vars
    BY <1>2 DEF vars, metadata, driver, history, OnceInv, PartitionedOnce, Untouched, Fresh, Held, Of
  <1> QED BY <1>1, <1>2, DriverOnce DEF Next

\* What a step takes out of the metadata is a task in progress, or a task of a
\* collection in progress.
LEMMA KeepsResults == Inv /\ [Next]_vars => \A d \in docTasks : ResultKept(d)
  <1> SUFFICES ASSUME Inv, [Next]_vars, NEW d \in docTasks, d.status \in {"completed", "failed"},
                      collTask[d.ns] \in {"completed", "mismatch"}
               PROVE  d \in docTasks'
    BY DEF ResultKept
  <1>1. d.ns \in Namespaces /\ job \in [Worker -> Job]
    BY DEF Inv, TypeInv, TypeOK, DocTask
  <1>2. CASE Take
    BY <1>2 DEF Take, TakeCollection, TakeDocTask, SetStatus
  <1>3. CASE DeleteOneTask
    <2>1. collTask[d.ns] \in {"none", "added"}
      BY <1>1, <1>3 DEF DeleteOneTask, Inv, SetupInv
    <2> QED BY <2>1
  <1>4. ASSUME NEW e \in docTasks, DeleteDocTask(e) \/ ResetDocTask(e) PROVE d \in docTasks'
    <2>1. CASE DeleteDocTask(e)
      <3>1. e.ns = resetting /\ e.ns \in Namespaces
        BY <2>1 DEF DeleteDocTask, IsOf, Inv, TypeInv, TypeOK, DocTask
      <3>2. collTask[e.ns] = "processing"
        BY <3>1, InitialTasksAssumption DEF Inv, MemoryInv
      <3> QED BY <2>1, <3>2 DEF DeleteDocTask
    <2>2. CASE ResetDocTask(e)
      BY <2>2 DEF ResetDocTask, LeftInProgress, SetStatus
    <2> QED BY <1>4, <2>1, <2>2
  <1>5. ASSUME NEW w \in Worker, FinishDocTask(w) PROVE d \in docTasks'
    <2>1. job[w].task.status = "processing"
      BY <1>1, <1>5, ComparedTask DEF FinishDocTask
    <2> QED BY <1>5, <2>1 DEF FinishDocTask, SetStatus
  <1>6. CASE Reset \/ RetryReset
    BY <1>3, <1>4, <1>6 DEF Reset, RetryReset, FindPrimary, AllDeleted, FindCollections, CollectionsReset,
           ResetCollection, NextCollection, DocumentsReset, metadata
  <1>7. CASE CreateInitialTasks \/ EndGeneration \/ Crash \/ Start \/ UNCHANGED vars
    BY <1>7 DEF CreateInitialTasks, CreatePrimary, SkipSetup, CompletePrimary, InsertCollectionTask,
           EndGeneration, Crash, Start, vars, metadata
  <1>8. ASSUME NEW w \in Worker, Work(w) \/ RetryCollection(w) \/ ClaimFails(w) PROVE d \in docTasks'
    <2>1. CASE \/ \E ns \in Namespaces : ClaimCollection(w, ns)
               \/ \E e \in docTasks : ClaimDocTask(w, e)
               \/ ClaimAgain(w) \/ ClaimNothing(w) \/ ClaimFails(w)
      BY <1>2, <2>1 DEF ClaimCollection, ClaimDocTask, ClaimAgain, ClaimNothing, ClaimFails, Take, metadata
    <2>2. CASE \/ CompareSpecification(w) \/ CompareIndexes(w) \/ FinishCollection(w)
               \/ RetryCollection(w) \/ \E p \in Part : InsertPartition(w, p)
      BY <2>2 DEF CompareSpecification, CompareIndexes, FinishCollection, RetryCollection,
             InsertPartition, metadata
    <2> QED BY <1>5, <1>8, <2>1, <2>2 DEF Work
  <1> QED BY <1>6, <1>7, <1>8 DEF Next

-----------------------------------------------------------------------------
(* Theorems *)

LEMMA Invariance == Spec => []Inv
  BY InvInit, InvNext, PTL DEF Spec

\* Every reachable state is well typed: the driver's position, the tasks and the
\* workers' jobs.
THEOREM TypeCorrect == Spec => []TypeOK
  <1>1. Inv => TypeOK
    BY DEF Inv, TypeInv
  <1> QED BY <1>1, Invariance, PTL

\* When generation 0 is over, every partition of every collection that has a task
\* and can be compared has been compared, whatever crashed or was retried:
\* resetCollectionTasksIfNeeded and partitionCollection together lose none.
THEOREM NoPartitionLost == Spec => []AllPartitionsCompared
  <1>1. Inv => AllPartitionsCompared
    <2> SUFFICES ASSUME Inv, pc = "over", NEW ns \in comparable, collTask[ns] # "none",
                        NEW p \in Part
                 PROVE  Compared(ns, p)
      BY DEF AllPartitionsCompared
    <2>1. collTask[ns] \in {"completed", "mismatch", "failed"}
      BY DEF Inv, OverInv, TypeInv, TypeOK, TaskStatus
    <2>2. PICK d \in docTasks : d.ns = ns /\ d.part = p
      BY <2>1 DEF Inv, SettledInv, HasTask
    <2>3. d.status \in {"completed", "failed"}
      BY DEF Inv, OverInv, TypeInv, TypeOK, DocTask, TaskStatus
    <2> QED BY <2>2, <2>3 DEF Compared
  <1> QED BY <1>1, Invariance, PTL

\* A collection task's mismatch is in the metadata only after the task that compares
\* it again: a crash between verifyMetadataAndPartitionCollection's writes loses none.
THEOREM NoMismatchLost == Spec => []MetadataRecheckOwed
  <1>1. Inv => MetadataRecheckOwed
    BY DEF Inv
  <1> QED BY <1>1, Invariance, PTL

\* The workers never see the collection tasks of some of the namespaces only,
\* wherever CreateInitialTasksIfNeeded stopped.
THEOREM SetupIsAtomic == Spec => []SetupAllOrNothing
  <1>1. Inv => SetupAllOrNothing
    BY DEF Inv, SetupInv, SetupAllOrNothing, TypeInv, TypeOK
  <1> QED BY <1>1, Invariance, PTL

\* If the set-up is not interrupted, generation 0 compares every namespace.
THEOREM EveryNamespaceCompared ==
    ASSUME ~SetupInterrupted
    PROVE  Spec => []AllCompared
  <1>1. ~SetupInterrupted
    OBVIOUS
  <1>2. ~SetupInterrupted /\ Inv => AllCompared
    BY DEF Inv, SetupInv, OverInv, AllCompared, TypeInv, TypeOK, TaskStatus
  <1>3. Inv => AllCompared
    BY <1>1, <1>2
  <1> QED BY <1>3, Invariance, PTL

\* A restart partitions a collection from scratch, so that only a retry within one run
\* leaves two tasks for a partition.
THEOREM PartitionsOnce == Spec => []PartitionedOnce
  <1>1. Init => OnceInv
    BY DEF Init, OnceInv, PartitionedOnce, Untouched, Of, Fresh, Held, Idle, CollSteps
  <1>2. OnceInv => PartitionedOnce
    BY DEF OnceInv
  <1> QED BY <1>1, <1>2, InvInit, InvNext, OnceNext, PTL DEF Spec

\* No step, of ResetInProgressTasks or of a worker, throws away the outcome of a document
\* task whose collection is fully partitioned.
THEOREM ResultsStay == Spec => ResultsKept
  <1>1. Inv /\ [Next]_vars => [\A d \in docTasks : ResultKept(d)]_vars
    BY KeepsResults
  <1> QED BY <1>1, Invariance, PTL DEF Spec, ResultsKept

=============================================================================
