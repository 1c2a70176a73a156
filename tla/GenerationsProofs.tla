------------------------- MODULE GenerationsProofs -------------------------
(***************************************************************************)
(* Theorems about Generations, for any documents, workers and bounds.      *)
(***************************************************************************)
EXTENDS Generations, TLAPS

(* A worker that is idle or has exited is in a state of the right type. *)
LEMMA ParkedType == Idle \in WorkerState /\ Exited \in WorkerState
BY DEF Idle, Exited, WorkerState, ParkedState

(* Where a worker is decides what else is known of it. *)
LEMMA WorkerKind ==
    ASSUME NEW s \in WorkerState
    PROVE  /\ s.pc \in {"exited", "idle", "create", "drop"} => s \in ParkedState
           /\ s.pc = "compare" => s \in ComparingState
           /\ s.pc \in {"insert", "fail"} => s \in FailingState
BY DEF WorkerState, ParkedState, ComparingState, FailingState

(* The steps of a worker, as far as its own state goes. *)
LEMMA WorkerMoves ==
    ASSUME NEW s \in WorkerState
    PROVE  /\ s.pc \in {"idle", "create"} =>
                  /\ [s EXCEPT !.pc = "create"] \in WorkerState
                  /\ [s EXCEPT !.pc = "drop"] \in WorkerState
           /\ s.pc = "idle" => \A d \in Doc :
                  [s EXCEPT !.pc = "compare", !.doc = d] \in WorkerState
           /\ s.pc = "compare" => \A c \in Cluster : \A t \in Nat :
                  [s EXCEPT !.at = [s.at EXCEPT ![c] = t]] \in WorkerState
           /\ s.pc = "compare" /\ (\A c \in Cluster : s.at[c] # None) =>
                  /\ s.doc \in Doc
                  /\ \A c \in Cluster : s.at[c] \in Nat
                  /\ \A g \in QueueGen :
                        [s EXCEPT !.pc = "insert", !.target = g] \in WorkerState
           /\ s.pc = "insert" => /\ s.doc \in Doc
                                 /\ s.target \in QueueGen
                                 /\ [s EXCEPT !.pc = "fail"] \in WorkerState
           /\ s.pc = "fail" => /\ s.doc \in Doc
                               /\ \A c \in Cluster : s.at[c] \in Nat
<1>1. ASSUME s.pc \in {"idle", "create"}
      PROVE  /\ [s EXCEPT !.pc = "create"] \in ParkedState
             /\ [s EXCEPT !.pc = "drop"] \in ParkedState
    BY <1>1, WorkerKind DEF ParkedState
<1>2. ASSUME s.pc = "idle", NEW d \in Doc
      PROVE  [s EXCEPT !.pc = "compare", !.doc = d] \in ComparingState
  <2>1. s \in ParkedState /\ s.at \in [Cluster -> {None}]
    BY <1>2, WorkerKind DEF ParkedState
  <2>2. s.at \in [Cluster -> Nat \cup {None}]
    BY <2>1
  <2> QED
    BY <1>2, <2>1, <2>2 DEF ParkedState, ComparingState
<1>3. ASSUME s.pc = "compare", NEW c \in Cluster, NEW t \in Nat
      PROVE  [s EXCEPT !.at = [s.at EXCEPT ![c] = t]] \in ComparingState
    BY <1>3, WorkerKind DEF ComparingState
<1>4. ASSUME s.pc = "compare", \A c \in Cluster : s.at[c] # None
      PROVE  /\ s.doc \in Doc
             /\ \A c \in Cluster : s.at[c] \in Nat
             /\ \A g \in QueueGen :
                   [s EXCEPT !.pc = "insert", !.target = g] \in FailingState
  <2>1. s \in ComparingState /\ s.at \in [Cluster -> Nat \cup {None}]
    BY <1>4, WorkerKind DEF ComparingState
  <2>2. s.at \in [Cluster -> Nat]
    BY <1>4, <2>1
  <2> QED
    BY <1>4, <2>1, <2>2 DEF ComparingState, FailingState
<1>5. ASSUME s.pc = "insert"
      PROVE  s.doc \in Doc /\ s.target \in QueueGen /\ [s EXCEPT !.pc = "fail"] \in FailingState
    BY <1>5, WorkerKind DEF FailingState
<1>6. ASSUME s.pc = "fail" PROVE s.doc \in Doc /\ \A c \in Cluster : s.at[c] \in Nat
    BY <1>6, WorkerKind DEF FailingState
<1> QED
    BY <1>1, <1>2, <1>3, <1>4, <1>5, <1>6 DEF WorkerState

(* Assigning a field of a worker's state leaves the others alone. *)
LEMMA WorkerFields ==
    ASSUME NEW s \in WorkerState, NEW p
    PROVE  /\ [s EXCEPT !.pc = p].pc = p
           /\ [s EXCEPT !.pc = p].doc = s.doc
           /\ [s EXCEPT !.pc = p].target = s.target
BY DEF WorkerState, ParkedState, ComparingState, FailingState

LEMMA InitType == Init => TypeOK
<1> SUFFICES ASSUME Init PROVE TypeOK
    OBVIOUS
<1>1. log \in [Cluster -> Seq(Event)]
    BY DEF Init
<1>2. worker \in [Worker -> WorkerState]
    BY ParkedType DEF Init
<1>3. generation \in Gen
    BY BoundsAssumption DEF Init, Gen
<1>4. docTask \in [Gen -> [Doc -> TaskStatus]]
    BY DEF Init, TaskStatus
<1>5. queue \in [QueueGen -> SUBSET Doc]
    BY DEF Init
<1>6. /\ token \in [Cluster -> Nat \cup {None}]
      /\ batch \in [Cluster -> BatchState \cup {None}]
    BY DEF Init
<1>7. /\ finalTs \in [Cluster -> Nat]
      /\ pos \in [Cluster -> Nat]
      /\ handled \in [Cluster -> Nat]
      /\ readerDone \in [Cluster -> BOOLEAN]
      /\ compared \in [Cluster -> [Doc -> Nat]]
    BY DEF Init
<1>8. creator \in [Gen -> TaskStatus]
    BY DEF Init, TaskStatus
<1>9. /\ frozen \in BOOLEAN
      /\ persistedGen \in Gen \cup {None}
      /\ locked \in BOOLEAN
      /\ lastGeneration \in BOOLEAN
      /\ genDone \in BOOLEAN
      /\ cutShort \in BOOLEAN
      /\ crashes \in Nat
    BY DEF Init
<1>10. pc \in {"down", "persist", "check", "await", "done"} /\ writesOff \in {"none", "src", "dst", "sent"}
    BY DEF Init
<1> QED
    BY <1>1, <1>2, <1>3, <1>4, <1>5, <1>6, <1>7, <1>8, <1>9, <1>10 DEF TypeOK

LEMMA StepType == TypeOK /\ [Next]_vars => TypeOK'
<1> USE BoundsAssumption, ContentAssumption
<1> SUFFICES ASSUME TypeOK, [Next]_vars PROVE TypeOK'
    OBVIOUS
<1> USE DEF TypeOK
<1>1. ASSUME NEW c \in Cluster, NEW d \in Doc, NEW v \in Val, Write(c, d, v) PROVE TypeOK'
  <2>1. [doc |-> d, val |-> v] \in Event
    BY DEF Event
  <2>2. Append(log[c], [doc |-> d, val |-> v]) \in Seq(Event)
    BY <2>1
  <2>3. log' \in [Cluster -> Seq(Event)]
    BY <1>1, <2>2 DEF Write
  <2> QED
    BY <1>1, <2>3 DEF Write, durable, driver, request, readers, persists, history
<1>2. CASE Start
    BY <1>2 DEF Start, env, request, history, DurableGen, ResetCreator, ResetDocTask, ResetStatus, Gen, TaskStatus
<1>3. CASE PersistGeneration
    BY <1>3, ParkedType DEF PersistGeneration, env, request, readers, persists, history
<1>4. CASE CloseGenerationDone
    BY <1>4 DEF CloseGenerationDone, env, durable, request, readers, persists, history
<1>5. CASE Finish
    BY <1>5 DEF Finish, env, durable, request, readers, persists, history
<1>6. CASE AwaitChangeHandling
    BY <1>6 DEF AwaitChangeHandling, env, durable, request, readers, persists, history
<1>7. ASSUME NEW last \in BOOLEAN, Advance(last) PROVE TypeOK'
    BY <1>7 DEF Advance, env, request, readers, persists, history, Gen, TaskStatus
<1>8. CASE NextGeneration
    BY <1>7, <1>8 DEF NextGeneration
<1>9. CASE FinalGeneration
    BY <1>7, <1>9 DEF FinalGeneration
<1>10. ASSUME NEW w \in Worker, ClaimCreator(w) PROVE TypeOK'
  <2>1. [worker[w] EXCEPT !.pc = "create"] \in WorkerState
    BY <1>10, WorkerMoves DEF ClaimCreator
  <2>2. worker' \in [Worker -> WorkerState]
    BY <1>10, <2>1 DEF ClaimCreator
  <2> QED
    BY <1>10, <2>2 DEF ClaimCreator, env, driver, request, readers, persists, history, TaskStatus
<1>11. ASSUME NEW w \in Worker, NEW d \in Doc, ClaimDocTask(w, d) PROVE TypeOK'
  <2>1. [worker[w] EXCEPT !.pc = "compare", !.doc = d] \in WorkerState
    BY <1>11, WorkerMoves DEF ClaimDocTask
  <2>2. worker' \in [Worker -> WorkerState]
    BY <1>11, <2>1 DEF ClaimDocTask
  <2> QED
    BY <1>11, <2>2 DEF ClaimDocTask, env, driver, request, readers, persists, history, TaskStatus
<1>12. ASSUME NEW w \in Worker, ExitWorker(w) PROVE TypeOK'
    BY <1>12, ParkedType DEF ExitWorker, env, durable, driver, request, readers, persists, history
<1>13. ASSUME NEW w \in Worker, NEW d \in Doc, CreateDocTask(w, d) PROVE TypeOK'
    BY <1>13 DEF CreateDocTask, env, driver, request, readers, persists, history, TaskStatus
<1>14. ASSUME NEW w \in Worker, CompleteCreator(w) PROVE TypeOK'
  <2>1. [worker[w] EXCEPT !.pc = "drop"] \in WorkerState
    BY <1>14, WorkerMoves DEF CompleteCreator
  <2>2. worker' \in [Worker -> WorkerState]
    BY <1>14, <2>1, ParkedType DEF CompleteCreator
  <2> QED
    BY <1>14, <2>2 DEF CompleteCreator, env, driver, request, readers, persists, history, TaskStatus
<1>15. ASSUME NEW w \in Worker, DropQueue(w) PROVE TypeOK'
    BY <1>15, ParkedType DEF DropQueue, env, driver, request, readers, persists, history
<1>16. ASSUME NEW w \in Worker, NEW c \in Cluster, NEW t \in 0..Len(log[c]), ReadDoc(w, c, t) PROVE TypeOK'
  <2>1. [worker[w] EXCEPT !.at = [worker[w].at EXCEPT ![c] = t]] \in WorkerState
    <3>1. log[c] \in Seq(Event) /\ worker[w] \in WorkerState
      OBVIOUS
    <3>2. t \in Nat
      BY <3>1
    <3> QED
      BY <1>16, <3>1, <3>2, WorkerMoves DEF ReadDoc
  <2>2. worker' \in [Worker -> WorkerState]
    BY <1>16, <2>1 DEF ReadDoc
  <2> QED
    BY <1>16, <2>2 DEF ReadDoc, env, durable, driver, request, readers, persists, history
<1>17. ASSUME NEW w \in Worker, NEW status \in TaskStatus,
              worker[w].doc \in Doc, \A c \in Cluster : worker[w].at[c] \in Nat,
              Record(w, status)
       PROVE TypeOK'
  <2>1. compared' \in [Cluster -> [Doc -> Nat]]
    <3> DEFINE max(c) == IF compared[c][worker[w].doc] < worker[w].at[c]
                            THEN worker[w].at[c] ELSE compared[c][worker[w].doc]
    <3>1. \A c \in Cluster : max(c) \in Nat /\ compared[c] \in [Doc -> Nat]
      BY <1>17
    <3>2. \A c \in Cluster : [compared[c] EXCEPT ![worker[w].doc] = max(c)] \in [Doc -> Nat]
      BY <3>1
    <3> QED
      BY <1>17, <3>2 DEF Record
  <2>2. docTask' \in [Gen -> [Doc -> TaskStatus]]
    BY <1>17 DEF Record
  <2>3. worker' \in [Worker -> WorkerState]
    BY <1>17, ParkedType DEF Record
  <2> QED
    BY <1>17, <2>1, <2>2, <2>3 DEF Record, env, driver, request, readers, persists
<1>18. ASSUME NEW w \in Worker, CompleteDocTask(w) PROVE TypeOK'
    BY <1>17, <1>18, WorkerMoves DEF CompleteDocTask, ReadBoth, TaskStatus
<1>19. ASSUME NEW w \in Worker, BeginMismatchRecheck(w) PROVE TypeOK'
  <2>1. RecheckGeneration \in QueueGen
    BY DEF RecheckGeneration, Gen, QueueGen
  <2>2. [worker[w] EXCEPT !.pc = "insert", !.target = RecheckGeneration] \in WorkerState
    BY <1>19, <2>1, WorkerMoves DEF BeginMismatchRecheck, ReadBoth
  <2>3. worker' \in [Worker -> WorkerState]
    BY <1>19, <2>2 DEF BeginMismatchRecheck
  <2> QED
    BY <1>19, <2>3 DEF BeginMismatchRecheck, env, durable, driver, request, readers, persists, history
<1>20. ASSUME NEW w \in Worker, InsertMismatchRecheck(w) PROVE TypeOK'
  <2>1. [worker[w] EXCEPT !.pc = "fail"] \in WorkerState
    BY <1>20, WorkerMoves DEF InsertMismatchRecheck
  <2>2. worker' \in [Worker -> WorkerState]
    BY <1>20, <2>1 DEF InsertMismatchRecheck
  <2>3. queue' \in [QueueGen -> SUBSET Doc]
    <3>1. worker[w].doc \in Doc /\ worker[w].target \in QueueGen
      BY <1>20, WorkerMoves DEF InsertMismatchRecheck
    <3> QED
      BY <1>20, <3>1 DEF InsertMismatchRecheck
  <2> QED
    BY <1>20, <2>2, <2>3 DEF InsertMismatchRecheck, env, driver, request, readers, persists, history
<1>21. ASSUME NEW w \in Worker, FailDocTask(w) PROVE TypeOK'
    BY <1>17, <1>21, WorkerMoves DEF FailDocTask, ReadBoth, TaskStatus
<1>22. ASSUME NEW c \in Cluster, NEW t \in 0..Len(log[c]), ReadBatch(c, t) PROVE TypeOK'
    BY <1>22 DEF ReadBatch, env, durable, driver, request, persists, history
<1>23. ASSUME NEW c \in Cluster, CloseReader(c) PROVE TypeOK'
    BY <1>23 DEF CloseReader, env, durable, driver, request, persists, history
<1>24. ASSUME NEW c \in Cluster, NEW t \in 0..Len(log[c]), BeginBatch(c, t) PROVE TypeOK'
  <2>1. \A i \in (handled[c] + 1)..t : log[c][i].doc \in Doc
    <3>1. log[c] \in Seq(Event) /\ handled[c] \in Nat
      OBVIOUS
    <3>2. \A i \in 1..Len(log[c]) : log[c][i] \in Event
      BY <3>1
    <3>3. Len(log[c]) \in Nat
      BY <3>1
    <3>4. \A i \in (handled[c] + 1)..t : i \in 1..Len(log[c])
      BY <3>1, <3>3
    <3> QED
      BY <3>2, <3>4 DEF Event
  <2>2. RecheckGeneration \in QueueGen
    BY DEF RecheckGeneration, Gen, QueueGen
  <2>3. [upTo    |-> t,
         pending |-> {log[c][i].doc : i \in (handled[c] + 1)..t},
         target  |-> RecheckGeneration] \in BatchState
    BY <2>1, <2>2 DEF BatchState
  <2>4. batch' \in [Cluster -> BatchState \cup {None}]
    BY <1>24, <2>3 DEF BeginBatch
  <2> QED
    BY <1>24, <2>4 DEF BeginBatch, env, durable, driver, request, readers, history
<1>25. ASSUME NEW c \in Cluster, NEW d \in Doc, InsertRecheck(c, d) PROVE TypeOK'
  <2>1. batch[c] \in BatchState
    BY <1>25 DEF InsertRecheck
  <2>2. [batch[c] EXCEPT !.pending = @ \ {d}] \in BatchState
    BY <2>1 DEF BatchState
  <2>3. batch' \in [Cluster -> BatchState \cup {None}]
    BY <1>25, <2>2 DEF InsertRecheck
  <2>4. queue' \in [QueueGen -> SUBSET Doc]
    BY <1>25, <2>1 DEF InsertRecheck, BatchState
  <2> QED
    BY <1>25, <2>3, <2>4 DEF InsertRecheck, env, driver, request, readers, history
<1>26. ASSUME NEW c \in Cluster, EndBatch(c) PROVE TypeOK'
    BY <1>26 DEF EndBatch, env, durable, driver, request, readers, history, BatchState
<1>27. ASSUME NEW c \in Cluster, PersistToken(c) PROVE TypeOK'
    BY <1>27 DEF PersistToken, Persistable, env, driver, request, readers, persists, history
<1>28. CASE WritesOff
    BY <1>28 DEF WritesOff, durable, driver, readers, persists, history
<1>29. CASE TellReader
    BY <1>29 DEF TellReader, env, durable, driver, readers, persists, history
<1>30. CASE Crash
  <2>1. cutShort' \in BOOLEAN
    BY <1>30, Zenon DEF Crash
  <2>2. worker' \in [Worker -> WorkerState]
    BY <1>30, ParkedType DEF Crash
  <2>3. /\ finalTs' \in [Cluster -> Nat]
        /\ pos' \in [Cluster -> Nat]
        /\ handled' \in [Cluster -> Nat]
    BY <1>30 DEF Crash
  <2>4. /\ readerDone' \in [Cluster -> BOOLEAN]
        /\ batch' \in [Cluster -> BatchState \cup {None}]
    BY <1>30 DEF Crash
  <2>5. generation' \in Gen /\ crashes' \in Nat
    BY <1>30 DEF Crash, Gen
  <2>6. /\ UNCHANGED <<log, frozen, persistedGen, creator, docTask, queue, token, compared>>
        /\ pc' = "down" /\ locked' = FALSE /\ lastGeneration' = FALSE
        /\ genDone' = FALSE /\ writesOff' = "none"
    BY <1>30 DEF Crash, env, durable
  <2> QED
    BY <2>1, <2>2, <2>3, <2>4, <2>5, <2>6
<1>31. CASE UNCHANGED vars
    BY <1>31 DEF vars, env, durable, driver, request, readers, persists, history
<1> QED
    BY <1>1, <1>2, <1>3, <1>4, <1>5, <1>6, <1>8, <1>9, <1>10, <1>11, <1>12, <1>13, <1>14,
       <1>15, <1>16, <1>18, <1>19, <1>20, <1>21, <1>22, <1>23, <1>24, <1>25, <1>26, <1>27,
       <1>28, <1>29, <1>30, <1>31
    DEF Next, DriverStep, WorkerStep, ReaderStep, PersistorStep

(* Every variable keeps its type: no action writes a status, a queue or a      *)
(* position that the rest of the code would not recognise.                     *)
THEOREM TypeCorrect == Spec => []TypeOK
BY InitType, StepType, PTL DEF Spec

-----------------------------------------------------------------------------
(* The mutex.  CheckDriver increments the generation while it holds the lock   *)
(* for writing; a goroutine that inserts rechecks chose its queue under the    *)
(* lock for reading and keeps it until the insert is done.  So the generation  *)
(* cannot change between the choice and the insert.                            *)

LockInv ==
    /\ locked <=> pc = "persist"
    /\ pc # "check" => \A w \in Worker : worker[w].pc = "exited"
    /\ pc \in {"down", "persist"} => \A c \in Cluster : batch[c] = None
    /\ pc # "down" => DurableGen <= generation
    /\ pc \in {"check", "await", "done"} => persistedGen = generation
    /\ \A w \in Worker : worker[w].pc = "insert" => worker[w].target = generation + 1
    /\ \A c \in Cluster : batch[c] # None => batch[c].target = generation + 1

LEMMA InitLock == Init => LockInv
BY BoundsAssumption DEF Init, LockInv, Exited

LEMMA StepLock == TypeOK /\ LockInv /\ [Next]_vars => LockInv'
<1> SUFFICES ASSUME TypeOK, LockInv, [Next]_vars PROVE LockInv'
    OBVIOUS
<1> USE BoundsAssumption DEF DurableGen
<1> USE DEF TypeOK, LockInv
<1>1. ASSUME NEW c \in Cluster, NEW d \in Doc, NEW v \in Val, Write(c, d, v) PROVE LockInv'
    BY <1>1 DEF Write, durable, driver, persists
<1>2. CASE Start
    BY <1>2 DEF Start
<1>3. CASE PersistGeneration
    BY <1>3 DEF PersistGeneration, persists, Idle, DurableGen, Gen
<1>4. CASE CloseGenerationDone
    BY <1>4 DEF CloseGenerationDone, durable, persists
<1>5. CASE Finish
    BY <1>5 DEF Finish, durable, persists, CheckWorkerReturned
<1>6. CASE AwaitChangeHandling
    BY <1>6 DEF AwaitChangeHandling, durable, persists, CheckWorkerReturned
<1>7. CASE NextGeneration
    BY <1>7 DEF NextGeneration, Advance, persists, NoReadLock, InsertingWorkers, InsertingClusters, CheckWorkerReturned, Gen
<1>8. CASE FinalGeneration
    BY <1>8 DEF FinalGeneration, Advance, persists, NoReadLock, InsertingWorkers, InsertingClusters, Gen
<1>9. ASSUME NEW w \in Worker, ClaimCreator(w) PROVE LockInv'
    BY <1>9 DEF ClaimCreator, driver, persists
<1>10. ASSUME NEW w \in Worker, NEW d \in Doc, ClaimDocTask(w, d) PROVE LockInv'
    BY <1>10 DEF ClaimDocTask, driver, persists
<1>11. ASSUME NEW w \in Worker, ExitWorker(w) PROVE LockInv'
    BY <1>11 DEF ExitWorker, durable, driver, persists, Exited
<1>12. ASSUME NEW w \in Worker, NEW d \in Doc, CreateDocTask(w, d) PROVE LockInv'
    BY <1>12 DEF CreateDocTask, driver, persists
<1>13. ASSUME NEW w \in Worker, CompleteCreator(w) PROVE LockInv'
    BY <1>13 DEF CompleteCreator, driver, persists, Idle
<1>14. ASSUME NEW w \in Worker, DropQueue(w) PROVE LockInv'
    BY <1>14 DEF DropQueue, driver, persists, Idle
<1>15. ASSUME NEW w \in Worker, NEW c \in Cluster, NEW t \in 0..Len(log[c]), ReadDoc(w, c, t) PROVE LockInv'
    BY <1>15 DEF ReadDoc, durable, driver, persists
<1>16. ASSUME NEW w \in Worker, NEW status \in TaskStatus, worker[w].pc # "exited", Record(w, status) PROVE LockInv'
    BY <1>16 DEF Record, driver, persists, Idle
<1>17. ASSUME NEW w \in Worker, CompleteDocTask(w) PROVE LockInv'
    BY <1>16, <1>17 DEF CompleteDocTask, TaskStatus
<1>18. ASSUME NEW w \in Worker, BeginMismatchRecheck(w) PROVE LockInv'
    BY <1>18 DEF BeginMismatchRecheck, durable, driver, persists, RecheckGeneration
<1>19. ASSUME NEW w \in Worker, InsertMismatchRecheck(w) PROVE LockInv'
    BY <1>19 DEF InsertMismatchRecheck, driver, persists
<1>20. ASSUME NEW w \in Worker, FailDocTask(w) PROVE LockInv'
    BY <1>16, <1>20 DEF FailDocTask, TaskStatus
<1>21. ASSUME NEW c \in Cluster, NEW t \in 0..Len(log[c]), ReadBatch(c, t) PROVE LockInv'
    BY <1>21 DEF ReadBatch, durable, driver, persists
<1>22. ASSUME NEW c \in Cluster, CloseReader(c) PROVE LockInv'
    BY <1>22 DEF CloseReader, durable, driver, persists
<1>23. ASSUME NEW c \in Cluster, NEW t \in 0..Len(log[c]), BeginBatch(c, t) PROVE LockInv'
    BY <1>23 DEF BeginBatch, durable, driver, Running, RecheckGeneration
<1>24. ASSUME NEW c \in Cluster, NEW d \in Doc, InsertRecheck(c, d) PROVE LockInv'
    BY <1>24 DEF InsertRecheck, driver
<1>25. ASSUME NEW c \in Cluster, EndBatch(c) PROVE LockInv'
    BY <1>25 DEF EndBatch, durable, driver
<1>26. ASSUME NEW c \in Cluster, PersistToken(c) PROVE LockInv'
    BY <1>26 DEF PersistToken, driver, persists
<1>27. CASE WritesOff
    BY <1>27 DEF WritesOff, durable, driver, persists
<1>28. CASE TellReader
    BY <1>28 DEF TellReader, durable, driver, persists
<1>29. CASE Crash
    BY <1>29 DEF Crash, durable, Exited
<1>30. CASE UNCHANGED vars
    BY <1>30 DEF vars, durable, driver, persists
<1> QED
    BY <1>1, <1>2, <1>3, <1>4, <1>5, <1>6, <1>7, <1>8, <1>9, <1>10, <1>11, <1>12, <1>13, <1>14, <1>15, <1>17, <1>18, <1>19, <1>20, <1>21, <1>22, <1>23, <1>24, <1>25, <1>26, <1>27, <1>28, <1>29, <1>30
    DEF Next, DriverStep, WorkerStep, ReaderStep, PersistorStep

(* resetProcessRecheckQueueTasksIfNeeded: one creator task at most is in       *)
(* progress, and a worker of the running generation is doing it.               *)
CreatorInv ==
    \A g \in Gen : creator[g] = "processing" =>
        /\ g = DurableGen
        /\ pc # "down" => pc = "check" /\ \E w \in Worker : worker[w].pc = "create"

LEMMA InitCreator == Init => CreatorInv
BY DEF Init, CreatorInv

LEMMA StepCreator == TypeOK /\ LockInv /\ CreatorInv /\ [Next]_vars => CreatorInv'
<1> SUFFICES ASSUME TypeOK, LockInv, CreatorInv, [Next]_vars PROVE CreatorInv'
    OBVIOUS
<1> USE BoundsAssumption, ContentAssumption DEF LockInv, DurableGen, Gen
<1> USE DEF TypeOK, CreatorInv
<1>1. ASSUME NEW c \in Cluster, NEW d \in Doc, NEW v \in Val, Write(c, d, v) PROVE CreatorInv'
    BY <1>1 DEF Write, durable, driver
<1>2. CASE Start
    BY <1>2 DEF Start, ResetCreator, ResetStatus, TaskStatus
<1>3. CASE PersistGeneration
    BY <1>3 DEF PersistGeneration, Gen
<1>4. CASE CloseGenerationDone
    BY <1>4 DEF CloseGenerationDone, durable
<1>5. CASE Finish
    BY <1>5 DEF Finish, durable, driver, CheckWorkerReturned
<1>6. CASE AwaitChangeHandling
    BY <1>6 DEF AwaitChangeHandling, durable, CheckWorkerReturned
<1>7. CASE NextGeneration
    BY <1>7 DEF NextGeneration, Advance, CheckWorkerReturned
<1>8. CASE FinalGeneration
    BY <1>8 DEF FinalGeneration, Advance
<1>9. ASSUME NEW w \in Worker, ClaimCreator(w) PROVE CreatorInv'
  <2>1. pc = "check" /\ generation = DurableGen
    BY <1>9 DEF ClaimCreator
  <2>2. worker'[w].pc = "create"
    BY <1>9, WorkerFields DEF ClaimCreator
  <2>3. \A g \in Gen : creator'[g] = "processing" => g = generation
    BY <1>9, <2>1 DEF ClaimCreator
  <2> QED
    BY <1>9, <2>1, <2>2, <2>3 DEF ClaimCreator, driver
<1>10. ASSUME NEW w \in Worker, NEW d \in Doc, ClaimDocTask(w, d) PROVE CreatorInv'
    BY <1>10 DEF ClaimDocTask, driver
<1>11. ASSUME NEW w \in Worker, ExitWorker(w) PROVE CreatorInv'
    BY <1>11 DEF ExitWorker, durable, driver
<1>12. ASSUME NEW w \in Worker, NEW d \in Doc, CreateDocTask(w, d) PROVE CreatorInv'
    BY <1>12 DEF CreateDocTask, driver
<1>13. ASSUME NEW w \in Worker, CompleteCreator(w) PROVE CreatorInv'
  <2>1. pc = "check" /\ generation = DurableGen
    BY <1>13 DEF CompleteCreator
  <2>2. \A g \in Gen : creator'[g] # "processing"
    BY <1>13, <2>1 DEF CompleteCreator
  <2> QED
    BY <2>2
<1>14. ASSUME NEW w \in Worker, DropQueue(w) PROVE CreatorInv'
    BY <1>14 DEF DropQueue, driver
<1>15. ASSUME NEW w \in Worker, NEW c \in Cluster, NEW t \in 0..Len(log[c]), ReadDoc(w, c, t) PROVE CreatorInv'
    BY <1>15 DEF ReadDoc, durable, driver
<1>16. ASSUME NEW w \in Worker, NEW status \in TaskStatus, worker[w].pc \in {"compare", "fail"}, Record(w, status) PROVE CreatorInv'
  <2>1. \A v \in Worker : worker[v].pc = "create" => worker'[v].pc = "create"
    BY <1>16 DEF Record
  <2> QED
    BY <1>16, <2>1 DEF Record, driver
<1>17. ASSUME NEW w \in Worker, CompleteDocTask(w) PROVE CreatorInv'
    BY <1>16, <1>17 DEF CompleteDocTask, TaskStatus
<1>18. ASSUME NEW w \in Worker, BeginMismatchRecheck(w) PROVE CreatorInv'
    BY <1>18 DEF BeginMismatchRecheck, durable, driver
<1>19. ASSUME NEW w \in Worker, InsertMismatchRecheck(w) PROVE CreatorInv'
    BY <1>19 DEF InsertMismatchRecheck, driver
<1>20. ASSUME NEW w \in Worker, FailDocTask(w) PROVE CreatorInv'
    BY <1>16, <1>20 DEF FailDocTask, TaskStatus
<1>21. ASSUME NEW c \in Cluster, NEW t \in 0..Len(log[c]), ReadBatch(c, t) PROVE CreatorInv'
    BY <1>21 DEF ReadBatch, env, durable, driver, request, readers, persists, history
<1>22. ASSUME NEW c \in Cluster, CloseReader(c) PROVE CreatorInv'
    BY <1>22 DEF CloseReader, env, durable, driver, request, readers, persists, history
<1>23. ASSUME NEW c \in Cluster, NEW t \in 0..Len(log[c]), BeginBatch(c, t) PROVE CreatorInv'
    BY <1>23 DEF BeginBatch, env, durable, driver, request, readers, persists, history
<1>24. ASSUME NEW c \in Cluster, NEW d \in Doc, InsertRecheck(c, d) PROVE CreatorInv'
    BY <1>24 DEF InsertRecheck, env, durable, driver, request, readers, persists, history
<1>25. ASSUME NEW c \in Cluster, EndBatch(c) PROVE CreatorInv'
    BY <1>25 DEF EndBatch, env, durable, driver, request, readers, persists, history
<1>26. ASSUME NEW c \in Cluster, PersistToken(c) PROVE CreatorInv'
    BY <1>26 DEF PersistToken, env, durable, driver, request, readers, persists, history
<1>27. CASE WritesOff
    BY <1>27 DEF WritesOff, env, durable, driver, request, readers, persists, history
<1>28. CASE TellReader
    BY <1>28 DEF TellReader, env, durable, driver, request, readers, persists, history
<1>29. CASE Crash
    BY <1>29 DEF Crash, durable
<1>30. CASE UNCHANGED vars
    BY <1>30 DEF vars, env, durable, driver, request, readers, persists, history
<1> QED
    BY <1>1, <1>2, <1>3, <1>4, <1>5, <1>6, <1>7, <1>8, <1>9, <1>10, <1>11, <1>12, <1>13, <1>14, <1>15, <1>17, <1>18, <1>19, <1>20, <1>21, <1>22, <1>23, <1>24, <1>25, <1>26, <1>27, <1>28, <1>29, <1>30
    DEF Next, DriverStep, WorkerStep, ReaderStep, PersistorStep

(* ProcessVerifyTask: first the recheck, then the failure.                     *)
FailureInv ==
    /\ pc \in {"down", "await"} => ~lastGeneration
    /\ \A g \in Gen : g > DurableGen => \A d \in Doc : docTask[g][d] = "none"
    /\ \A w \in Worker : worker[w].pc = "fail" => worker[w].doc \in queue[generation + 1]
    /\ ~cutShort /\ ~(lastGeneration /\ pc # "persist") =>
          \A d \in Doc : docTask[DurableGen][d] = "failed" => d \in queue[DurableGen + 1]

LEMMA InitFailure == Init => FailureInv
BY BoundsAssumption DEF Init, FailureInv, Exited, DurableGen, Gen

LEMMA StepFailure == TypeOK /\ LockInv /\ FailureInv /\ [Next]_vars => FailureInv'
<1> SUFFICES ASSUME TypeOK, LockInv, FailureInv, [Next]_vars PROVE FailureInv'
    OBVIOUS
<1> USE BoundsAssumption, ContentAssumption DEF LockInv, DurableGen, Gen
<1> USE DEF TypeOK, FailureInv
<1>1. ASSUME NEW c \in Cluster, NEW d \in Doc, NEW v \in Val, Write(c, d, v) PROVE FailureInv'
    BY <1>1 DEF Write, env, durable, driver, request, readers, persists, history
<1>2. CASE Start
    BY <1>2 DEF Start, history, ResetDocTask, ResetStatus, Gen
<1>3. CASE PersistGeneration
  <2>1. DurableGen' = generation /\ pc' = "check" /\ generation \in Gen
    BY <1>3 DEF PersistGeneration, Gen
  <2>2. \A w \in Worker : worker'[w].pc = "idle"
    BY <1>3 DEF PersistGeneration, Idle
  <2>3. generation = DurableGen \/ \A d \in Doc : docTask[generation][d] = "none"
    BY <1>3 DEF PersistGeneration, Gen
  <2> QED
    BY <1>3, <2>1, <2>2, <2>3 DEF PersistGeneration, history, Gen
<1>4. CASE CloseGenerationDone
    BY <1>4 DEF CloseGenerationDone, env, durable, driver, request, readers, persists, history
<1>5. CASE Finish
    BY <1>5 DEF Finish, env, durable, driver, request, readers, persists, history
<1>6. CASE AwaitChangeHandling
    BY <1>6 DEF AwaitChangeHandling, env, durable, driver, request, readers, persists, history
<1>7. CASE NextGeneration
    BY <1>7 DEF NextGeneration, Advance, CheckWorkerReturned, history, Gen
<1>8. CASE FinalGeneration
    BY <1>8 DEF FinalGeneration, Advance, history, Gen
<1>9. ASSUME NEW w \in Worker, ClaimCreator(w) PROVE FailureInv'
    BY <1>9 DEF ClaimCreator, env, durable, driver, request, readers, persists, history
<1>10. ASSUME NEW w \in Worker, NEW d \in Doc, ClaimDocTask(w, d) PROVE FailureInv'
    BY <1>10 DEF ClaimDocTask, env, durable, driver, request, readers, persists, history
<1>11. ASSUME NEW w \in Worker, ExitWorker(w) PROVE FailureInv'
    BY <1>11, WorkerFields DEF ExitWorker, durable, driver, history, Idle, Exited
<1>12. ASSUME NEW w \in Worker, NEW d \in Doc, CreateDocTask(w, d) PROVE FailureInv'
  <2>1. generation = DurableGen
    BY <1>12 DEF CreateDocTask
  <2> QED
    BY <1>12, <2>1 DEF CreateDocTask, driver, history
<1>13. ASSUME NEW w \in Worker, CompleteCreator(w) PROVE FailureInv'
    BY <1>13, WorkerFields DEF CompleteCreator, durable, driver, history, Idle, Exited
<1>14. ASSUME NEW w \in Worker, DropQueue(w) PROVE FailureInv'
    BY <1>14, WorkerFields DEF DropQueue, durable, driver, history, Idle, Exited
<1>15. ASSUME NEW w \in Worker, NEW c \in Cluster, NEW t \in 0..Len(log[c]), ReadDoc(w, c, t) PROVE FailureInv'
    BY <1>15 DEF ReadDoc, env, durable, driver, request, readers, persists, history
<1>16. ASSUME NEW w \in Worker, NEW status \in TaskStatus, worker[w].pc # "exited",
              status = "failed" => lastGeneration \/ worker[w].doc \in queue[generation + 1],
              Record(w, status)
       PROVE FailureInv'
  <2>1. generation = DurableGen /\ pc = "check"
    BY <1>16
  <2>2. \A v \in Worker : worker'[v].pc = "fail" => worker[v].pc = "fail" /\ worker'[v] = worker[v]
    BY <1>16 DEF Record, Idle
  <2>3. \A d \in Doc : docTask'[generation][d] = "failed" =>
            docTask[generation][d] = "failed" \/ (d = worker[w].doc /\ status = "failed")
    BY <1>16 DEF Record
  <2>4. \A g \in Gen : g # generation => docTask'[g] = docTask[g]
    BY <1>16 DEF Record
  <2> QED
    BY <1>16, <2>1, <2>2, <2>3, <2>4 DEF Record, driver
<1>17. ASSUME NEW w \in Worker, CompleteDocTask(w) PROVE FailureInv'
    BY <1>16, <1>17 DEF CompleteDocTask, TaskStatus
<1>18. ASSUME NEW w \in Worker, BeginMismatchRecheck(w) PROVE FailureInv'
    BY <1>18 DEF BeginMismatchRecheck, env, durable, driver, request, readers, persists, history
<1>19. ASSUME NEW w \in Worker, InsertMismatchRecheck(w) PROVE FailureInv'
  <2>1. worker[w].target = generation + 1 /\ worker[w].doc \in Doc
    BY <1>19, WorkerMoves DEF InsertMismatchRecheck
  <2>2. queue' = [queue EXCEPT ![generation + 1] = @ \cup {worker[w].doc}]
    BY <1>19, <2>1 DEF InsertMismatchRecheck
  <2>3. worker'[w].doc = worker[w].doc /\ worker'[w].doc \in queue'[generation + 1]
    <3>1. generation + 1 \in QueueGen
      BY DEF QueueGen
    <3> QED
      BY <1>19, <2>1, <2>2, <3>1, WorkerFields DEF InsertMismatchRecheck
  <2> QED
    BY <1>19, <2>2, <2>3 DEF InsertMismatchRecheck, driver, history
<1>20. ASSUME NEW w \in Worker, FailDocTask(w) PROVE FailureInv'
    BY <1>16, <1>20 DEF FailDocTask, TaskStatus
<1>21. ASSUME NEW c \in Cluster, NEW t \in 0..Len(log[c]), ReadBatch(c, t) PROVE FailureInv'
    BY <1>21 DEF ReadBatch, env, durable, driver, request, readers, persists, history
<1>22. ASSUME NEW c \in Cluster, CloseReader(c) PROVE FailureInv'
    BY <1>22 DEF CloseReader, env, durable, driver, request, readers, persists, history
<1>23. ASSUME NEW c \in Cluster, NEW t \in 0..Len(log[c]), BeginBatch(c, t) PROVE FailureInv'
    BY <1>23 DEF BeginBatch, env, durable, driver, request, readers, persists, history
<1>24. ASSUME NEW c \in Cluster, NEW d \in Doc, InsertRecheck(c, d) PROVE FailureInv'
    BY <1>24 DEF InsertRecheck, env, durable, driver, request, readers, persists, history
<1>25. ASSUME NEW c \in Cluster, EndBatch(c) PROVE FailureInv'
    BY <1>25 DEF EndBatch, env, durable, driver, request, readers, persists, history
<1>26. ASSUME NEW c \in Cluster, PersistToken(c) PROVE FailureInv'
    BY <1>26 DEF PersistToken, env, durable, driver, request, readers, persists, history
<1>27. CASE WritesOff
    BY <1>27 DEF WritesOff, env, durable, driver, request, readers, persists, history
<1>28. CASE TellReader
    BY <1>28 DEF TellReader, env, durable, driver, request, readers, persists, history
<1>29. CASE Crash
  <2>1. DurableGen' = DurableGen /\ UNCHANGED <<docTask, queue>> /\ lastGeneration' = FALSE
    BY <1>29 DEF Crash, durable
  <2>2. ~cutShort' => /\ ~cutShort
                      /\ lastGeneration => \A d \in Doc : docTask[generation][d] # "failed"
    BY <1>29, Zenon DEF Crash
  <2>3. lastGeneration /\ pc # "persist" => generation = DurableGen
    BY <1>29 DEF Crash
  <2>4. \A w \in Worker : worker'[w].pc = "exited"
    BY <1>29 DEF Crash, Exited
  <2>5. ASSUME ~cutShort', NEW d \in Doc, docTask'[DurableGen'][d] = "failed"
        PROVE  d \in queue'[DurableGen' + 1]
    <3>1. docTask[DurableGen][d] = "failed" /\ ~(lastGeneration /\ pc # "persist")
      BY <2>1, <2>2, <2>3, <2>5
    <3> QED
      BY <2>1, <2>2, <2>5, <3>1
  <2>6. \A g \in Gen : g > DurableGen' => \A d \in Doc : docTask'[g][d] = "none"
    BY <2>1
  <2>7. \A w \in Worker : worker'[w].pc # "fail"
    BY <2>4
  <2> HIDE DEF FailureInv
  <2> QED
    BY <2>1, <2>5, <2>6, <2>7 DEF FailureInv
<1>30. CASE UNCHANGED vars
    BY <1>30 DEF vars, env, durable, driver, request, readers, persists, history
<1> QED
    BY <1>1, <1>2, <1>3, <1>4, <1>5, <1>6, <1>7, <1>8, <1>9, <1>10, <1>11, <1>12, <1>13, <1>14, <1>15, <1>17, <1>18, <1>19, <1>20, <1>21, <1>22, <1>23, <1>24, <1>25, <1>26, <1>27, <1>28, <1>29, <1>30
    DEF Next, DriverStep, WorkerStep, ReaderStep, PersistorStep

-----------------------------------------------------------------------------
(* The four invariants together are inductive. *)
THEOREM Invariants == Spec => [](TypeOK /\ LockInv /\ CreatorInv /\ FailureInv)
<1> DEFINE Inv == TypeOK /\ LockInv /\ CreatorInv /\ FailureInv
<1>1. Init => Inv
    BY InitType, InitLock, InitCreator, InitFailure
<1>2. Inv /\ [Next]_vars => Inv'
    BY StepType, StepLock, StepCreator, StepFailure
<1> QED
    BY <1>1, <1>2, PTL DEF Spec

(* CreateProcessRecheckQueueTask, reset.go's "internal error"s: an unfinished  *)
(* creator task is always one of the generation that a restart resumes.        *)
THEOREM CreatorsAreCurrent == Spec => []CreatorIsCurrent
<1>1. CreatorInv => CreatorIsCurrent
    BY DEF CreatorInv, CreatorIsCurrent
<1> QED
    BY <1>1, Invariants, PTL

(* ProcessVerifyTask: whenever the process dies outside the final generation,  *)
(* the metadata holds the recheck of every document task it has failed.        *)
THEOREM FailuresAreOwed == Spec => []FailureOwed
<1>1. FailureInv => FailureOwed
    BY DEF FailureInv, FailureOwed
<1> QED
    BY <1>1, Invariants, PTL

(* One step adds nothing to the queue of a generation that has begun: only an  *)
(* insert adds to a queue, and the lock keeps its target ahead of generation.  *)
LEMMA StepQueue ==
    TypeOK /\ LockInv /\ [Next]_vars =>
        \A g \in QueueGen : g <= DurableGen => queue'[g] \subseteq queue[g]
<1> SUFFICES ASSUME TypeOK, LockInv, [Next]_vars,
                    NEW g \in QueueGen, g <= DurableGen
             PROVE  queue'[g] \subseteq queue[g]
    OBVIOUS
<1> USE BoundsAssumption, ContentAssumption DEF TypeOK, LockInv, DurableGen, Gen, QueueGen
<1>1. ASSUME UNCHANGED queue PROVE queue'[g] \subseteq queue[g]
    BY <1>1
<1>2. ASSUME NEW w \in Worker, DropQueue(w) PROVE queue'[g] \subseteq queue[g]
    BY <1>2 DEF DropQueue
<1>3. ASSUME NEW w \in Worker, InsertMismatchRecheck(w) PROVE queue'[g] \subseteq queue[g]
  <2>1. worker[w].target = generation + 1 /\ g # generation + 1
    BY <1>3 DEF InsertMismatchRecheck
  <2> QED
    BY <1>3, <2>1 DEF InsertMismatchRecheck
<1>4. ASSUME NEW c \in Cluster, NEW d \in Doc, InsertRecheck(c, d)
      PROVE queue'[g] \subseteq queue[g]
  <2>1. batch[c].target = generation + 1 /\ g # generation + 1
    BY <1>4 DEF InsertRecheck
  <2> QED
    BY <1>4, <2>1 DEF InsertRecheck
<1>5. ASSUME NEW w \in Worker, WorkerStep(w) PROVE queue'[g] \subseteq queue[g]
  <2>1. UNCHANGED queue \/ DropQueue(w) \/ InsertMismatchRecheck(w)
    BY <1>5 DEF WorkerStep, ClaimCreator, ExitWorker, CompleteCreator, CompleteDocTask,
                BeginMismatchRecheck, FailDocTask, Record, ClaimDocTask, CreateDocTask,
                ReadDoc, durable
  <2> QED
    BY <1>1, <1>2, <1>3, <2>1
<1>6. ASSUME NEW c \in Cluster, ReaderStep(c) \/ PersistorStep(c) \/ PersistToken(c)
      PROVE queue'[g] \subseteq queue[g]
  <2>1. UNCHANGED queue \/ \E d \in Doc : InsertRecheck(c, d)
    BY <1>6 DEF ReaderStep, ReadBatch, CloseReader, PersistorStep, BeginBatch, EndBatch,
                PersistToken, durable
  <2> QED
    BY <1>1, <1>4, <2>1
<1>7. CASE DriverStep
    BY <1>1, <1>7 DEF DriverStep, PersistGeneration, CloseGenerationDone, Finish,
                AwaitChangeHandling, NextGeneration, FinalGeneration, Advance, durable
<1>8. ASSUME \/ \E c \in Cluster, d \in Doc, v \in Val : Write(c, d, v)
             \/ Start \/ WritesOff \/ TellReader \/ Crash
      PROVE  queue'[g] \subseteq queue[g]
    BY <1>1, <1>8 DEF Write, Start, WritesOff, TellReader, Crash, durable
<1> QED
    BY <1>1, <1>5, <1>6, <1>7, <1>8 DEF Next, vars, durable

(* The recheck queue of a generation is complete when the generation begins.   *)
THEOREM QueuesStayClosed == Spec => QueueClosed
<1>1. TypeOK /\ LockInv /\ [Next]_vars =>
          [\A g \in QueueGen : g <= DurableGen => queue'[g] \subseteq queue[g]]_vars
    BY StepQueue
<1> QED
    BY <1>1, Invariants, PTL DEF Spec, QueueClosed

-----------------------------------------------------------------------------
(* The refinement.  A generation is persisted when the one before it is over,  *)
(* its queue is then turned into the tasks that are due, and the queue after   *)
(* it is still empty.                                                          *)

TasksOver(g) ==
    /\ creator[g] \notin {"added", "processing"}
    /\ \A d \in Doc : docTask[g][d] \in {"none", "completed", "failed"}

LedgerInv ==
    /\ pc # "down" \/ DurableGen > 0 => creator[0] # "none"
    /\ \A g \in QueueGen : g > DurableGen + 1 => queue[g] = {}
    /\ \A g \in Gen : g > DurableGen + 1 => creator[g] = "none"
    /\ \A g \in Gen : g = DurableGen + 1 =>
           creator[g] = "none" \/ (creator[g] = "added" /\ queue[g] # {})
    /\ pc = "check" /\ genDone => TasksOver(DurableGen)
    /\ pc = "await" => TasksOver(DurableGen)
    /\ pc = "persist" /\ generation # DurableGen =>
           /\ generation = DurableGen + 1
           /\ TasksOver(DurableGen)
           /\ queue[generation] # {} => creator[generation] = "added"
    /\ \A w \in Worker : worker[w].pc = "create" => creator[generation] = "processing"
    /\ \A v, w \in Worker : worker[v].pc = "create" /\ worker[w].pc = "create" => v = w

LEMMA InitLedgerInv == Init => LedgerInv
BY BoundsAssumption DEF Init, LedgerInv, Exited, DurableGen, Gen, TasksOver

(* A step that changes neither tasks nor queues nor what the driver knows.     *)
LEMMA LedgerInvFrame ==
    ASSUME LedgerInv, UNCHANGED <<durable, driver>>,
           \A w \in Worker : worker'[w].pc = "create" => worker[w].pc = "create"
    PROVE  LedgerInv'
BY DEF LedgerInv, durable, driver, DurableGen, TasksOver

(* A step that adds to the next queue only.                                    *)
LEMMA LedgerInvEnqueues ==
    ASSUME TypeOK, LockInv, LedgerInv, pc \notin {"down", "persist"},
           NEW D \in SUBSET Doc, queue' = [queue EXCEPT ![generation + 1] = @ \cup D],
           UNCHANGED <<persistedGen, creator, docTask, driver>>,
           \A w \in Worker : worker'[w].pc = "create" => worker[w].pc = "create"
    PROVE  LedgerInv'
<1>1. generation = DurableGen /\ generation \in Gen /\ DurableGen' = DurableGen
    BY ContentAssumption DEF LockInv, TypeOK, DurableGen, Gen
<1>2. \A g \in QueueGen : g # generation + 1 => queue'[g] = queue[g]
    BY DEF TypeOK
<1>3. \A g \in Gen : queue[g] # {} /\ g = generation + 1 => queue'[g] # {}
  <2>1. \A g \in Gen : g = generation + 1 => g \in QueueGen
    BY <1>1, BoundsAssumption DEF Gen, QueueGen
  <2> QED
    BY <2>1 DEF TypeOK
<1>4. \A g \in QueueGen : g > DurableGen' + 1 => queue'[g] = {}
  <2> TAKE g \in QueueGen
  <2> HAVE g > DurableGen' + 1
  <2>1. g # generation + 1
    BY <1>1 DEF Gen, QueueGen
  <2> QED
    BY <1>1, <1>2, <2>1 DEF LedgerInv
<1>5. \A g \in Gen : g = DurableGen' + 1 =>
          creator'[g] = "none" \/ (creator'[g] = "added" /\ queue'[g] # {})
    BY <1>1, <1>3 DEF LedgerInv
<1>6. UNCHANGED <<pc, generation, genDone>>
    BY DEF driver
<1>7. TasksOver(DurableGen)' <=> TasksOver(DurableGen)
    BY <1>1 DEF TasksOver
<1>8. creator' = creator /\ pc' # "persist"
    BY <1>6
<1>9. /\ pc' # "down" \/ DurableGen' > 0 => creator'[0] # "none"
      /\ \A g \in Gen : g > DurableGen' + 1 => creator'[g] = "none"
      /\ pc' = "check" /\ genDone' => TasksOver(DurableGen)'
      /\ pc' = "await" => TasksOver(DurableGen)'
      /\ \A w \in Worker : worker'[w].pc = "create" => creator'[generation'] = "processing"
      /\ \A v, w \in Worker : worker'[v].pc = "create" /\ worker'[w].pc = "create" => v = w
    BY <1>1, <1>6, <1>7, <1>8 DEF LedgerInv
<1> QED
    BY <1>4, <1>5, <1>8, <1>9 DEF LedgerInv

LEMMA StepLedgerInv ==
    TypeOK /\ LockInv /\ CreatorInv /\ FailureInv /\ LedgerInv /\ [Next]_vars => LedgerInv'
<1> SUFFICES ASSUME TypeOK, LockInv, CreatorInv, FailureInv, LedgerInv, [Next]_vars PROVE LedgerInv'
    OBVIOUS
<1> USE BoundsAssumption, ContentAssumption
<1>0. /\ pc \in {"check", "await", "done"} => generation = DurableGen
      /\ DurableGen \in Gen /\ generation \in Gen
      /\ pc # "check" => \A w \in Worker : worker[w].pc # "create"
      /\ persistedGen # None => DurableGen = persistedGen
    BY DEF LockInv, TypeOK, DurableGen, Gen
<1>1. ASSUME NEW c \in Cluster, NEW d \in Doc, NEW v \in Val, Write(c, d, v) PROVE LedgerInv'
    BY <1>1, LedgerInvFrame DEF Write
<1>2. CASE Start
  <2>1. /\ pc = "down" /\ pc' = "persist" /\ generation' = DurableGen /\ DurableGen' = DurableGen
        /\ UNCHANGED <<queue, worker, persistedGen>>
        /\ creator' = IF creator[0] = "none" THEN [ResetCreator EXCEPT ![0] = "added"] ELSE ResetCreator
    BY <1>2 DEF Start, DurableGen
  <2>2. /\ creator'[0] # "none"
        /\ \A g \in Gen : g > DurableGen => creator'[g] = creator[g]
    <3>1. \A g \in Gen : g > DurableGen => creator[g] # "processing" /\ g # 0
      BY <1>0 DEF CreatorInv, Gen
    <3>2. 0 \in Gen /\ creator \in [Gen -> TaskStatus]
      BY DEF Gen, TypeOK
    <3> QED
      BY <2>1, <3>1, <3>2 DEF ResetCreator, ResetStatus
  <2>3. \A w \in Worker : worker'[w].pc # "create"
    BY <1>0, <2>1
  <2>4. \A g \in Gen : (g > DurableGen + 1 \/ g = DurableGen + 1) => g > DurableGen
    BY <1>0 DEF Gen
  <2> QED
    BY <2>1, <2>2, <2>3, <2>4 DEF LedgerInv
<1>3. CASE PersistGeneration
  <2>1. /\ pc = "persist" /\ pc' = "check" /\ persistedGen' = generation /\ genDone' = FALSE
        /\ UNCHANGED <<creator, docTask, queue, generation>>
        /\ \A w \in Worker : worker'[w].pc = "idle"
    BY <1>3 DEF PersistGeneration, Idle
  <2>2. DurableGen' = generation /\ (generation = DurableGen \/ generation = DurableGen + 1)
    BY <1>0, <2>1 DEF DurableGen, LedgerInv, Gen
  <2>3. \A g \in Nat : (g > generation => g > DurableGen) /\ (g > generation + 1 => g > DurableGen + 1)
    BY <1>0, <2>2 DEF Gen
  <2>4. /\ \A g \in QueueGen : g > generation + 1 => queue[g] = {}
        /\ \A g \in Gen : g > generation + 1 => creator[g] = "none"
    BY <2>3 DEF LedgerInv, QueueGen, Gen
  <2>5. \A g \in Gen : g = generation + 1 =>
            creator[g] = "none" \/ (creator[g] = "added" /\ queue[g] # {})
    <3>1. CASE generation = DurableGen
      BY <3>1 DEF LedgerInv
    <3>2. CASE generation = DurableGen + 1
      BY <1>0, <3>2 DEF LedgerInv, Gen
    <3> QED
      BY <2>2, <3>1, <3>2
  <2>6. creator[0] # "none"
    BY <2>1 DEF LedgerInv
  <2>7. PICK n : n = generation /\ n = DurableGen'
    BY <2>2
  <2>8. /\ \A g \in QueueGen : g > n + 1 => queue'[g] = {}
        /\ \A g \in Gen : g > n + 1 => creator'[g] = "none"
        /\ \A g \in Gen : g = n + 1 =>
               creator'[g] = "none" \/ (creator'[g] = "added" /\ queue'[g] # {})
        /\ creator'[0] # "none"
    BY <2>1, <2>4, <2>5, <2>6, <2>7
  <2>9. \A w \in Worker : worker'[w].pc # "create"
    BY <2>1
  <2> QED
    BY <2>1, <2>7, <2>8, <2>9 DEF LedgerInv
<1>4. CASE CloseGenerationDone
  <2>1. TasksOver(DurableGen)
    BY <1>0, <1>4 DEF CloseGenerationDone, Unfinished, TasksOver, TypeOK, TaskStatus
  <2> QED
    BY <1>4, <2>1 DEF CloseGenerationDone, LedgerInv, durable, TasksOver, DurableGen
<1>5. CASE Finish
    BY <1>5 DEF Finish, LedgerInv, durable, TasksOver, DurableGen
<1>6. CASE AwaitChangeHandling
    BY <1>6 DEF AwaitChangeHandling, CheckWorkerReturned, LedgerInv, durable, TasksOver, DurableGen
<1>7. CASE NextGeneration \/ FinalGeneration
  <2>1. /\ pc \in {"check", "await"} /\ TasksOver(DurableGen)
        /\ \A w \in Worker : worker[w].pc # "create"
    BY <1>0, <1>7 DEF NextGeneration, FinalGeneration, CheckWorkerReturned, LedgerInv
  <2>2. /\ generation' = generation + 1 /\ pc' = "persist" /\ generation < MaxGen
        /\ creator' = IF queue[generation + 1] = {} THEN creator
                      ELSE [creator EXCEPT ![generation + 1] =
                                IF @ \in {"none", "processing"} THEN "added" ELSE @]
        /\ UNCHANGED <<persistedGen, docTask, queue, worker>>
    BY <1>7 DEF NextGeneration, FinalGeneration, Advance
  <2>3. /\ generation = DurableGen /\ DurableGen' = DurableGen
        /\ generation + 1 \in Gen /\ generation + 1 \in QueueGen /\ generation + 1 # 0
        /\ generation # generation + 1 /\ 0 \in Gen
    BY <1>0, <2>1, <2>2 DEF DurableGen, Gen, QueueGen
  <2>4. /\ \A g \in Gen : g # generation + 1 => creator'[g] = creator[g]
        /\ queue[generation + 1] # {} => creator'[generation + 1] = "added"
        /\ queue[generation + 1] = {} => creator'[generation + 1] = "none"
    BY <2>2, <2>3 DEF LedgerInv, TypeOK
  <2>5. TasksOver(DurableGen)'
    BY <1>0, <2>1, <2>2, <2>3, <2>4 DEF TasksOver
  <2>6. creator'[0] # "none"
    BY <2>1, <2>3, <2>4 DEF LedgerInv
  <2>7. \A g \in Gen : g > DurableGen + 1 => g # generation + 1
    BY <2>3 DEF Gen
  <2> QED
    BY <2>1, <2>2, <2>3, <2>4, <2>5, <2>6, <2>7 DEF LedgerInv
<1>8. ASSUME NEW w \in Worker, ClaimCreator(w) PROVE LedgerInv'
  <2>1. /\ pc = "check" /\ creator[generation] = "added"
        /\ creator' = [creator EXCEPT ![generation] = "processing"]
        /\ worker' = [worker EXCEPT ![w].pc = "create"]
        /\ UNCHANGED <<persistedGen, docTask, queue, driver>>
    BY <1>8 DEF ClaimCreator
  <2>2. ~genDone
    BY <1>0, <2>1 DEF LedgerInv, TasksOver
  <2>3. \A v \in Worker : worker[v].pc # "create" /\ (worker'[v].pc = "create" => v = w)
    BY <2>1 DEF LedgerInv, TypeOK
  <2>4. /\ creator'[generation] = "processing" /\ DurableGen' = DurableGen
        /\ \A g \in Gen : g # generation => creator'[g] = creator[g]
        /\ creator'[0] # "none"
    BY <1>0, <2>1 DEF LedgerInv, TypeOK, DurableGen, Gen
  <2>5. \A g \in Gen : g > DurableGen + 1 \/ g = DurableGen + 1 => g # generation
    BY <1>0, <2>1 DEF Gen
  <2> QED
    BY <1>0, <2>1, <2>2, <2>3, <2>4, <2>5 DEF LedgerInv, driver
<1>9. ASSUME NEW w \in Worker, NEW d \in Doc, ClaimDocTask(w, d) PROVE LedgerInv'
  <2>1. /\ pc = "check" /\ docTask[generation][d] = "added"
        /\ docTask' = [docTask EXCEPT ![generation][d] = "processing"]
        /\ worker' = [worker EXCEPT ![w].pc = "compare", ![w].doc = d]
        /\ UNCHANGED <<persistedGen, creator, queue, driver>>
    BY <1>9 DEF ClaimDocTask
  <2>2. ~genDone
    BY <1>0, <2>1 DEF LedgerInv, TasksOver
  <2>3. \A v \in Worker : worker'[v].pc = "create" => worker[v].pc = "create"
    BY <2>1, WorkerFields DEF TypeOK
  <2> QED
    BY <2>1, <2>2, <2>3 DEF LedgerInv, driver, DurableGen
<1>10. ASSUME NEW w \in Worker, NEW d \in Doc, CreateDocTask(w, d) PROVE LedgerInv'
  <2>1. /\ worker[w].pc = "create" /\ pc = "check" /\ creator[generation] = "processing"
        /\ UNCHANGED <<persistedGen, creator, queue, driver, worker>>
    BY <1>0, <1>10 DEF CreateDocTask, LedgerInv
  <2>2. ~genDone
    BY <1>0, <2>1 DEF LedgerInv, TasksOver
  <2> QED
    BY <2>1, <2>2 DEF LedgerInv, driver, DurableGen
<1>11. ASSUME NEW w \in Worker, CompleteCreator(w) PROVE LedgerInv'
  <2>1. /\ worker[w].pc = "create" /\ pc = "check"
        /\ creator' = [creator EXCEPT ![generation] = "completed"]
        /\ UNCHANGED <<persistedGen, docTask, queue, driver>>
    BY <1>0, <1>11 DEF CompleteCreator
  <2>2. \A v \in Worker : worker'[v].pc # "create"
    <3>1. worker'[w].pc # "create"
      BY <1>11, WorkerFields DEF CompleteCreator, Idle, TypeOK
    <3>2. \A v \in Worker : v # w => worker'[v] = worker[v]
      BY <1>11 DEF CompleteCreator, TypeOK
    <3> QED
      BY <2>1, <3>1, <3>2 DEF LedgerInv
  <2>3. /\ creator'[generation] = "completed" /\ DurableGen' = DurableGen
        /\ \A g \in Gen : g # generation => creator'[g] = creator[g]
        /\ creator'[0] # "none"
    BY <1>0, <2>1 DEF LedgerInv, TypeOK, DurableGen, Gen
  <2>4. \A g \in Gen : g > DurableGen + 1 \/ g = DurableGen + 1 => g # generation
    BY <1>0, <2>1 DEF Gen
  <2>5. ~genDone
    BY <1>0, <2>1 DEF LedgerInv, TasksOver
  <2> QED
    BY <1>0, <2>1, <2>2, <2>3, <2>4, <2>5 DEF LedgerInv, driver
<1>12. ASSUME NEW w \in Worker, DropQueue(w) PROVE LedgerInv'
  <2>1. /\ pc = "check"
        /\ queue' = [queue EXCEPT ![generation] = {}]
        /\ UNCHANGED <<persistedGen, creator, docTask, driver>>
        /\ \A v \in Worker : worker'[v].pc = "create" => worker[v].pc = "create"
    BY <1>12 DEF DropQueue, LockInv, Idle, TypeOK
  <2>2. \A g \in QueueGen : g # generation => queue'[g] = queue[g]
    BY <2>1 DEF TypeOK
  <2>3. \A g \in Gen \cup QueueGen : g > DurableGen + 1 \/ g = DurableGen + 1 => g # generation /\ g \in QueueGen
    BY <1>0, <2>1 DEF Gen, QueueGen
  <2> QED
    BY <1>0, <2>1, <2>2, <2>3 DEF LedgerInv, driver, DurableGen, TasksOver
<1>13. ASSUME NEW w \in Worker, NEW status \in {"completed", "failed"},
              worker[w].pc # "exited", Record(w, status)
       PROVE LedgerInv'
  <2>1. /\ pc = "check"
        /\ docTask' = [docTask EXCEPT ![generation][worker[w].doc] = status]
        /\ UNCHANGED <<persistedGen, creator, queue, driver>>
        /\ \A v \in Worker : worker'[v].pc = "create" => worker[v].pc = "create"
    BY <1>13 DEF Record, LockInv, Idle, TypeOK
  <2>2. TasksOver(DurableGen) => TasksOver(DurableGen)'
    BY <1>0, <2>1 DEF TasksOver, DurableGen, TypeOK
  <2> QED
    BY <2>1, <2>2 DEF LedgerInv, driver, DurableGen
<1>14. ASSUME NEW w \in Worker, InsertMismatchRecheck(w) PROVE LedgerInv'
  <2>1. worker[w].target = generation + 1 /\ worker[w].doc \in Doc /\ pc = "check"
    BY <1>14, WorkerMoves DEF InsertMismatchRecheck, LockInv, TypeOK
  <2>2. \A v \in Worker : worker'[v].pc = "create" => worker[v].pc = "create"
    BY <1>14, WorkerFields DEF InsertMismatchRecheck, TypeOK
  <2>3. PICK D \in SUBSET Doc : D = {worker[w].doc}
    BY <2>1
  <2> QED
    BY <1>14, <2>1, <2>2, <2>3, LedgerInvEnqueues DEF InsertMismatchRecheck
<1>15. ASSUME NEW c \in Cluster, NEW d \in Doc, InsertRecheck(c, d) PROVE LedgerInv'
  <2>1. batch[c].target = generation + 1 /\ pc \notin {"down", "persist"}
    BY <1>15 DEF InsertRecheck, LockInv
  <2>2. PICK D \in SUBSET Doc : D = {d}
    OBVIOUS
  <2> QED
    BY <1>15, <2>1, <2>2, LedgerInvEnqueues DEF InsertRecheck
<1>16. ASSUME NEW w \in Worker, WorkerStep(w) PROVE LedgerInv'
  <2>1. CASE CompleteDocTask(w)
    BY <1>13, <2>1 DEF CompleteDocTask
  <2>2. CASE FailDocTask(w)
    BY <1>13, <2>2 DEF FailDocTask
  <2>3. CASE ExitWorker(w)
    BY <2>3, LedgerInvFrame DEF ExitWorker, Exited, TypeOK
  <2>4. CASE BeginMismatchRecheck(w)
    <3>1. \A v \in Worker : worker'[v].pc = "create" => worker[v].pc = "create"
      BY <2>4 DEF BeginMismatchRecheck, TypeOK
    <3> QED
      BY <2>4, <3>1, LedgerInvFrame DEF BeginMismatchRecheck
  <2>5. ASSUME NEW c \in Cluster, NEW t \in 0..Len(log[c]), ReadDoc(w, c, t) PROVE LedgerInv'
    <3>1. \A v \in Worker : worker'[v].pc = "create" => worker[v].pc = "create"
      BY <2>5 DEF ReadDoc, TypeOK
    <3> QED
      BY <2>5, <3>1, LedgerInvFrame DEF ReadDoc
  <2> QED
    BY <1>8, <1>9, <1>10, <1>11, <1>12, <1>14, <1>16, <2>1, <2>2, <2>3, <2>4, <2>5 DEF WorkerStep
<1>17. ASSUME NEW c \in Cluster, ReaderStep(c) \/ PersistorStep(c) \/ PersistToken(c) PROVE LedgerInv'
  <2>1. CASE UNCHANGED <<persistedGen, creator, docTask, queue, driver, worker>>
    BY <2>1 DEF LedgerInv, driver, DurableGen, TasksOver
  <2>2. UNCHANGED <<persistedGen, creator, docTask, queue, driver, worker>>
        \/ \E d \in Doc : InsertRecheck(c, d)
    BY <1>17 DEF ReaderStep, ReadBatch, CloseReader, PersistorStep, BeginBatch, EndBatch,
                 PersistToken, durable
  <2> QED
    BY <1>15, <2>1, <2>2
<1>18. CASE WritesOff \/ TellReader
    BY <1>18, LedgerInvFrame DEF WritesOff, TellReader
<1>19. CASE Crash
  <2>1. /\ pc' = "down" /\ UNCHANGED durable /\ \A w \in Worker : worker'[w].pc = "exited"
        /\ pc # "down"
    BY <1>19 DEF Crash, Exited
  <2> QED
    BY <2>1 DEF LedgerInv, durable, DurableGen
<1>20. CASE UNCHANGED vars
    BY <1>20, LedgerInvFrame DEF vars
<1> QED
    BY <1>1, <1>2, <1>3, <1>4, <1>5, <1>6, <1>7, <1>16, <1>17, <1>18, <1>19, <1>20
    DEF Next, DriverStep

LEMMA InitLedger == Init => Ledger!Init
<1> SUFFICES ASSUME Init PROVE Ledger!Init
    OBVIOUS
<1>1. DurableGen = 0 /\ queue[DurableGen + 1] = {}
    BY BoundsAssumption DEF Init, DurableGen, QueueGen
<1>2. Due \subseteq Doc
    BY <1>1 DEF Due, ToCreate
<1> QED
    BY <1>1, <1>2 DEF Ledger!Init

(* A step within a generation: documents are no longer due, rechecks are owed. *)
LEMMA LedgerCompares ==
    ASSUME TypeOK, LockInv, [Next]_vars, DurableGen' = DurableGen,
           queue[DurableGen + 1] \subseteq queue'[DurableGen + 1],
           Uncreated' => Uncreated,
           \A d \in Doc : docTask'[DurableGen][d] \notin {"none", "completed", "failed"} =>
               \/ docTask[DurableGen][d] \notin {"none", "completed", "failed"}
               \/ Uncreated /\ d \in ToCreate(DurableGen)
    PROVE  Ledger!Next
<1> USE BoundsAssumption
<1>1. DurableGen \in Gen /\ DurableGen + 1 \in QueueGen
    BY DEF TypeOK, DurableGen, Gen, QueueGen
<1>2. queue'[DurableGen' + 1] \subseteq Doc
    BY <1>1, StepType DEF TypeOK
<1>3. ToCreate(DurableGen)' \subseteq ToCreate(DurableGen)
  <2>1. CASE DurableGen = 0
    BY <2>1 DEF ToCreate
  <2>2. CASE DurableGen # 0
    <3>1. DurableGen \in QueueGen /\ DurableGen <= DurableGen
      BY <1>1, <2>2 DEF Gen, QueueGen
    <3>2. queue'[DurableGen] \subseteq queue[DurableGen]
      BY <3>1, StepQueue
    <3> QED
      BY <2>2, <3>2 DEF ToCreate
  <2> QED
    BY <2>1, <2>2
<1>4. Due' \subseteq Due
    BY <1>3 DEF Due
<1> QED
    BY <1>2, <1>4 DEF Ledger!Next, Ledger!Compare

(* The next generation is persisted: its queue is now due, and nothing is owed. *)
LEMMA LedgerTurns ==
    ASSUME TypeOK, LockInv, FailureInv, LedgerInv, PersistGeneration, generation # DurableGen
    PROVE  Ledger!Next
<1> USE BoundsAssumption, ContentAssumption
<1>1. /\ pc = "persist" /\ persistedGen' = generation
      /\ UNCHANGED <<creator, docTask, queue>>
    BY DEF PersistGeneration
<1>2. /\ DurableGen \in Gen /\ generation \in Gen /\ generation = DurableGen + 1
      /\ TasksOver(DurableGen)
      /\ queue[generation] # {} => creator[generation] = "added"
      /\ creator[0] # "none"
    BY <1>1 DEF LedgerInv, TypeOK, DurableGen, Gen
<1>3. DurableGen' = generation
    BY <1>1, <1>2 DEF DurableGen, Gen
<1>4. PICK n, m : n = DurableGen /\ m = generation
    OBVIOUS
<1>5. /\ m # 0 /\ m > n /\ m = n + 1 /\ m + 1 > n + 1
      /\ m \in QueueGen /\ m \in Gen /\ m + 1 \in QueueGen
    BY <1>2, <1>4 DEF Gen, QueueGen
<1>6. Due = {}
    BY <1>2 DEF Due, Uncreated, TasksOver
<1>7. queue[m + 1] = {}
    BY <1>4, <1>5 DEF LedgerInv
<1>8. \A d \in Doc : docTask[m][d] = "none"
    BY <1>4, <1>5 DEF FailureInv
<1>9. Due' = queue[m]
  <2>1. ToCreate(m)' = queue[m]
    BY <1>1, <1>5 DEF ToCreate
  <2>2. Uncreated' <=> creator[m] \in {"added", "processing"}
    BY <1>1, <1>2, <1>3, <1>4 DEF Uncreated
  <2>3. ~Uncreated' => queue[m] = {}
    BY <1>2, <1>4, <2>2
  <2>4. Due' = IF Uncreated' THEN queue[m] ELSE {}
    BY <1>1, <1>3, <1>4, <1>8, <2>1 DEF Due
  <2> QED
    BY <2>3, <2>4
<1> QED
    BY <1>1, <1>3, <1>4, <1>5, <1>6, <1>7, <1>9 DEF Ledger!Next, Ledger!Turn

LEMMA StepLedger ==
    TypeOK /\ LockInv /\ CreatorInv /\ FailureInv /\ LedgerInv /\ [Next]_vars =>
        [Ledger!Next]_(Ledger!vars)
<1> SUFFICES ASSUME TypeOK, LockInv, CreatorInv, FailureInv, LedgerInv, [Next]_vars
             PROVE  Ledger!Next
    BY DEF Ledger!vars
<1> USE BoundsAssumption, ContentAssumption
<1>0. /\ DurableGen \in Gen /\ DurableGen + 1 \in QueueGen /\ DurableGen # DurableGen + 1
      /\ generation \in Gen
      /\ pc \notin {"down", "persist"} => generation = DurableGen
      /\ pc \notin {"check"} => \A w \in Worker : worker[w].pc = "exited"
      /\ \A w \in Worker : worker[w].pc # "exited" => pc = "check"
    BY DEF LockInv, TypeOK, DurableGen, Gen, QueueGen
<1>1. CASE UNCHANGED <<persistedGen, creator, docTask, queue>>
    BY <1>1, LedgerCompares DEF DurableGen, Uncreated
<1>2. CASE Start
  <2>1. /\ UNCHANGED <<persistedGen, queue>>
        /\ creator' = IF creator[0] = "none" THEN [ResetCreator EXCEPT ![0] = "added"] ELSE ResetCreator
        /\ docTask' = ResetDocTask
    BY <1>2 DEF Start
  <2>2. Uncreated' => Uncreated
    <3>1. CASE creator[0] = "none"
      BY <3>1 DEF Uncreated
    <3>2. CASE creator[0] # "none"
      <4>1. creator'[DurableGen] = ResetStatus(creator[DurableGen]) /\ creator'[0] # "none"
        BY <1>0, <2>1, <3>2 DEF ResetCreator, ResetStatus, Gen
      <4>2. DurableGen' = DurableGen
        BY <2>1 DEF DurableGen
      <4> QED
        BY <4>1, <4>2 DEF Uncreated, ResetStatus
    <3> QED
      BY <3>1, <3>2
  <2>3. \A d \in Doc : docTask'[DurableGen][d] \notin {"none", "completed", "failed"} =>
            docTask[DurableGen][d] \notin {"none", "completed", "failed"}
    BY <1>0, <2>1 DEF ResetDocTask, ResetStatus
  <2>4. DurableGen' = DurableGen /\ queue'[DurableGen + 1] = queue[DurableGen + 1]
    BY <2>1 DEF DurableGen
  <2> QED
    BY <2>2, <2>3, <2>4, LedgerCompares
<1>3. CASE PersistGeneration
  <2>1. CASE generation # DurableGen
    BY <1>3, <2>1, LedgerTurns
  <2>2. CASE generation = DurableGen
    <3>1. DurableGen' = DurableGen /\ UNCHANGED <<creator, docTask, queue>>
      BY <1>0, <1>3, <2>2 DEF PersistGeneration, DurableGen, Gen
    <3>2. Uncreated' => Uncreated
      BY <3>1 DEF Uncreated
    <3> QED
      BY <3>1, <3>2, LedgerCompares
  <2> QED
    BY <2>1, <2>2
<1>4. CASE NextGeneration \/ FinalGeneration
  <2>1. /\ pc \in {"check", "await"} /\ UNCHANGED <<persistedGen, docTask, queue>>
        /\ generation < MaxGen
        /\ creator' = IF queue[generation + 1] = {} THEN creator
                      ELSE [creator EXCEPT ![generation + 1] =
                                IF @ \in {"none", "processing"} THEN "added" ELSE @]
    BY <1>4 DEF NextGeneration, FinalGeneration, Advance
  <2>2. generation = DurableGen /\ generation # generation + 1 /\ 0 # generation + 1
    BY <1>0, <2>1 DEF Gen
  <2>3. creator'[DurableGen] = creator[DurableGen] /\ creator'[0] = creator[0]
    BY <2>1, <2>2 DEF TypeOK
  <2>4. DurableGen' = DurableGen /\ queue'[DurableGen + 1] = queue[DurableGen + 1]
    BY <2>1 DEF DurableGen
  <2>5. Uncreated' => Uncreated
    BY <2>3, <2>4 DEF Uncreated
  <2> QED
    BY <2>1, <2>4, <2>5, LedgerCompares
<1>5. ASSUME NEW w \in Worker, ClaimCreator(w) \/ CompleteCreator(w) PROVE Ledger!Next
  <2>1. PICK s \in {"processing", "completed"} :
            /\ creator' = [creator EXCEPT ![generation] = s]
            /\ UNCHANGED <<persistedGen, docTask, queue>>
    BY <1>5 DEF ClaimCreator, CompleteCreator
  <2>2. pc = "check" /\ creator[generation] \in {"added", "processing"}
    BY <1>0, <1>5 DEF ClaimCreator, CompleteCreator, LedgerInv
  <2>3. DurableGen' = DurableGen /\ generation = DurableGen
    BY <1>0, <2>1, <2>2 DEF DurableGen
  <2>4. Uncreated
    BY <2>2, <2>3 DEF Uncreated
  <2> QED
    BY <2>1, <2>3, <2>4, LedgerCompares
<1>6. ASSUME NEW w \in Worker, NEW d \in Doc, ClaimDocTask(w, d) PROVE Ledger!Next
  <2>1. /\ pc = "check" /\ docTask[generation][d] = "added"
        /\ docTask' = [docTask EXCEPT ![generation][d] = "processing"]
        /\ UNCHANGED <<persistedGen, creator, queue>>
    BY <1>6 DEF ClaimDocTask
  <2>2. DurableGen' = DurableGen /\ generation = DurableGen
    BY <1>0, <2>1 DEF DurableGen
  <2>3. Uncreated' => Uncreated
    BY <2>1, <2>2 DEF Uncreated
  <2>4. \A e \in Doc : docTask'[DurableGen][e] \notin {"none", "completed", "failed"} =>
            docTask[DurableGen][e] \notin {"none", "completed", "failed"}
    BY <1>0, <2>1, <2>2 DEF TypeOK
  <2> QED
    BY <2>1, <2>2, <2>3, <2>4, LedgerCompares
<1>7. ASSUME NEW w \in Worker, NEW d \in Doc, CreateDocTask(w, d) PROVE Ledger!Next
  <2>1. /\ pc = "check" /\ creator[generation] = "processing" /\ d \in ToCreate(generation)
        /\ docTask' = [docTask EXCEPT ![generation][d] = "added"]
        /\ UNCHANGED <<persistedGen, creator, queue>>
    BY <1>0, <1>7 DEF CreateDocTask, LedgerInv
  <2>2. DurableGen' = DurableGen /\ generation = DurableGen
    BY <1>0, <2>1 DEF DurableGen
  <2>3. Uncreated
    BY <2>1, <2>2 DEF Uncreated
  <2>4. \A e \in Doc : e # d => docTask'[DurableGen][e] = docTask[DurableGen][e]
    BY <1>0, <2>1, <2>2 DEF TypeOK
  <2> QED
    BY <2>1, <2>2, <2>3, <2>4, LedgerCompares
<1>8. ASSUME NEW w \in Worker, DropQueue(w) PROVE Ledger!Next
  <2>1. /\ pc = "check" /\ UNCHANGED <<persistedGen, creator, docTask>>
        /\ queue' = [queue EXCEPT ![generation] = {}]
    BY <1>0, <1>8 DEF DropQueue
  <2>2. DurableGen' = DurableGen /\ generation = DurableGen
    BY <1>0, <2>1 DEF DurableGen
  <2>3. queue'[DurableGen + 1] = queue[DurableGen + 1]
    BY <1>0, <2>1, <2>2 DEF TypeOK
  <2>4. Uncreated' => Uncreated
    BY <2>1, <2>2 DEF Uncreated
  <2> QED
    BY <2>1, <2>2, <2>3, <2>4, LedgerCompares
<1>9. ASSUME NEW w \in Worker, NEW status \in {"completed", "failed"},
             worker[w].pc # "exited", Record(w, status)
      PROVE  Ledger!Next
  <2>1. /\ pc = "check" /\ UNCHANGED <<persistedGen, creator, queue>>
        /\ docTask' = [docTask EXCEPT ![generation][worker[w].doc] = status]
    BY <1>0, <1>9 DEF Record
  <2>2. DurableGen' = DurableGen /\ generation = DurableGen
    BY <1>0, <2>1 DEF DurableGen
  <2>3. Uncreated' => Uncreated
    BY <2>1, <2>2 DEF Uncreated
  <2>4. \A e \in Doc : docTask'[DurableGen][e] \notin {"none", "completed", "failed"} =>
            docTask[DurableGen][e] \notin {"none", "completed", "failed"}
    BY <1>0, <2>1, <2>2 DEF TypeOK
  <2> QED
    BY <2>1, <2>2, <2>3, <2>4, LedgerCompares
<1>10. ASSUME NEW D \in SUBSET Doc, pc \notin {"down", "persist"},
              queue' = [queue EXCEPT ![generation + 1] = @ \cup D],
              UNCHANGED <<persistedGen, creator, docTask>>
       PROVE  Ledger!Next
  <2>1. DurableGen' = DurableGen /\ generation = DurableGen
    BY <1>0, <1>10 DEF DurableGen
  <2>2. queue[DurableGen + 1] \subseteq queue'[DurableGen + 1]
    BY <1>0, <1>10, <2>1 DEF TypeOK
  <2>3. Uncreated' => Uncreated
    BY <1>10, <2>1 DEF Uncreated
  <2> QED
    BY <1>10, <2>1, <2>2, <2>3, LedgerCompares
<1>11. ASSUME NEW w \in Worker, InsertMismatchRecheck(w) PROVE Ledger!Next
  <2>1. worker[w].target = generation + 1 /\ worker[w].doc \in Doc /\ pc = "check"
    BY <1>11, WorkerMoves DEF InsertMismatchRecheck, LockInv, TypeOK
  <2>2. PICK D \in SUBSET Doc : D = {worker[w].doc}
    BY <2>1
  <2> QED
    BY <1>10, <1>11, <2>1, <2>2 DEF InsertMismatchRecheck
<1>12. ASSUME NEW c \in Cluster, NEW d \in Doc, InsertRecheck(c, d) PROVE Ledger!Next
  <2>1. batch[c].target = generation + 1 /\ pc \notin {"down", "persist"}
    BY <1>12 DEF InsertRecheck, LockInv
  <2>2. PICK D \in SUBSET Doc : D = {d}
    OBVIOUS
  <2> QED
    BY <1>10, <1>12, <2>1, <2>2 DEF InsertRecheck
<1>13. ASSUME NEW w \in Worker, WorkerStep(w) PROVE Ledger!Next
  <2>1. CASE CompleteDocTask(w)
    BY <1>9, <2>1 DEF CompleteDocTask
  <2>2. CASE FailDocTask(w)
    BY <1>9, <2>2 DEF FailDocTask
  <2>3. ExitWorker(w) \/ BeginMismatchRecheck(w) \/ (\E c \in Cluster : \E t \in 0..Len(log[c]) : ReadDoc(w, c, t))
            => UNCHANGED <<persistedGen, creator, docTask, queue>>
    BY DEF ExitWorker, BeginMismatchRecheck, ReadDoc, durable
  <2> QED
    BY <1>1, <1>5, <1>6, <1>7, <1>8, <1>11, <1>13, <2>1, <2>2, <2>3 DEF WorkerStep
<1>14. ASSUME NEW c \in Cluster, ReaderStep(c) \/ PersistorStep(c) \/ PersistToken(c)
       PROVE  Ledger!Next
  <2>1. UNCHANGED <<persistedGen, creator, docTask, queue>> \/ \E d \in Doc : InsertRecheck(c, d)
    BY <1>14 DEF ReaderStep, ReadBatch, CloseReader, PersistorStep, BeginBatch, EndBatch,
                 PersistToken, durable
  <2> QED
    BY <1>1, <1>12, <2>1
<1>15. CASE \/ CloseGenerationDone \/ Finish \/ AwaitChangeHandling
            \/ \E c \in Cluster, d \in Doc, v \in Val : Write(c, d, v)
            \/ WritesOff \/ TellReader \/ Crash \/ UNCHANGED vars
  <2>1. UNCHANGED durable
    BY <1>15 DEF CloseGenerationDone, Finish, AwaitChangeHandling, Write, WritesOff, TellReader,
                 Crash, vars
  <2> QED
    BY <1>1, <2>1 DEF durable
<1> QED
    BY <1>2, <1>3, <1>4, <1>13, <1>14, <1>15 DEF Next, DriverStep

(* Every recheck that the metadata database holds for a generation is compared *)
(* in it before the next one is persisted, through crashes and restarts.       *)
THEOREM LedgerImplemented == Spec => LedgerKept
<1> DEFINE Inv == TypeOK /\ LockInv /\ CreatorInv /\ FailureInv /\ LedgerInv
<1>1. Init => Inv
    BY InitType, InitLock, InitCreator, InitFailure, InitLedgerInv
<1>2. Inv /\ [Next]_vars => Inv'
    BY StepType, StepLock, StepCreator, StepFailure, StepLedgerInv
<1>3. Inv /\ [Next]_vars => [Ledger!Next]_(Ledger!vars)
    BY StepLedger
<1> QED
    BY <1>1, <1>2, <1>3, InitLedger, PTL DEF Spec, LedgerKept, Ledger!Spec

============================================================================
