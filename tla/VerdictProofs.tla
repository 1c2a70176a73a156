---------------------------- MODULE VerdictProofs ----------------------------
(***************************************************************************)
(* That no change is lost and that the verdict is right, for any documents,*)
(* contents, workers, writes, generations and crashes.                     *)
(***************************************************************************)
EXTENDS GenerationsProofs, WellFoundedInduction

-----------------------------------------------------------------------------
(* Positions in the logs.  A reader, its persistor and the resume token        *)
(* follow each other, and writes-off fetches the ends of logs that are closed. *)

PositionInv ==
    /\ \A c \in Cluster :
          /\ handled[c] <= pos[c] /\ pos[c] <= Len(log[c])
          /\ batch[c] # None => handled[c] <= batch[c].upTo /\ batch[c].upTo <= pos[c]
          /\ token[c] # None <=> creator[0] # "none"
          /\ token[c] # None => token[c] <= Len(log[c])
          /\ token[c] # None /\ pc # "down" => token[c] <= handled[c]
          /\ writesOff # "none" => frozen /\ finalTs[c] = Len(log[c])
          /\ readerDone[c] => pc # "down" /\ writesOff # "none" /\ pos[c] = Len(log[c])

(* The recheck of event i of cluster c has been stored in a queue. *)
Stored(c, i) ==
    \/ i <= handled[c]
    \/ token[c] # None /\ i <= token[c]
    \/ batch[c] # None /\ i <= batch[c].upTo /\ log[c][i].doc \notin batch[c].pending

(* Tasks that exist are for documents that have to be compared.  Before the    *)
(* first start there are none.                                                 *)
TasksInv ==
    /\ \A w \in Worker : worker[w].pc = "drop" => creator[generation] = "completed"
    /\ \A w \in Worker : worker[w].pc \in {"compare", "insert", "fail"} =>
          docTask[generation][worker[w].doc] # "none"
    /\ creator[DurableGen] \in {"added", "processing"} =>
          \A d \in Doc : docTask[DurableGen][d] # "none" => d \in ToCreate(DurableGen)
    /\ creator[0] = "none" => \A d \in Doc : docTask[0][d] = "none"

(* A worker reads its document as late as the last change whose recheck is     *)
(* stored; a later change has a recheck in the next queue.                     *)
Recent(w) ==
    \A c \in Cluster : worker[w].at[c] # None =>
        /\ worker[w].at[c] <= Len(log[c])
        /\ \A i \in 1..Len(log[c]) :
              log[c][i].doc = worker[w].doc /\ Stored(c, i) =>
                  i <= worker[w].at[c] \/ worker[w].doc \in queue[DurableGen + 1]

ReadsInv == \A w \in Worker : worker[w].pc \in {"compare", "insert", "fail"} => Recent(w)

(* The metadata owes a comparison of d, and it is not over.                    *)
Waiting(d) ==
    \/ d \in queue[DurableGen + 1]
    \/ docTask[DurableGen][d] \in {"added", "processing"}
    \/ /\ docTask[DurableGen][d] = "none"
       /\ creator[DurableGen] \in {"added", "processing"}
       /\ d \in ToCreate(DurableGen)

(* The clusters agreed on d at timestamps after each change that is stored.    *)
Agreed(d) ==
    \E at \in [Cluster -> Nat] :
        /\ \A c \in Cluster : at[c] <= Len(log[c])
        /\ \A c \in Cluster : \A i \in 1..Len(log[c]) :
              log[c][i].doc = d /\ Stored(c, i) => i <= at[c]
        /\ ContentAt("src", d, at["src"]) = ContentAt("dst", d, at["dst"])

(* d has failed in the final generation. *)
Condemned(d) == docTask[DurableGen][d] = "failed" /\ lastGeneration /\ pc # "persist"

(* Each change that is stored was compared, with an outcome. *)
Settled(d) ==
    /\ \A c \in Cluster : \A i \in 1..Len(log[c]) :
          log[c][i].doc = d /\ Stored(c, i) => compared[c][d] >= i
    /\ cutShort \/ Condemned(d) \/ Agreed(d)

CoverInv == creator[0] # "none" => \A d \in Doc : Waiting(d) \/ Settled(d)

(* The final generation begins when nothing is left to read or to store, and   *)
(* nothing is enqueued in it.                                                  *)
FinalInv ==
    /\ lastGeneration =>
          /\ writesOff # "none"
          /\ \A c \in Cluster : handled[c] = Len(log[c]) /\ batch[c] = None
          /\ pc = "persist" => generation # DurableGen
          /\ pc # "persist" => queue[generation + 1] = {}
          /\ \A w \in Worker :
                /\ worker[w].pc \notin {"insert", "fail"}
                /\ \A c \in Cluster : worker[w].at[c] \in {None, Len(log[c])}
          /\ pc # "persist" => \A d \in Doc : docTask[generation][d] = "failed" =>
                Content("src", d) # Content("dst", d)
    /\ pc = "done" => lastGeneration /\ TasksOver(generation)

-----------------------------------------------------------------------------
(* Logs only grow. *)
LogGrows ==
    \A c \in Cluster : /\ Len(log[c]) <= Len(log'[c])
                       /\ \A i \in 1..Len(log[c]) : log'[c][i] = log[c][i]

LEMMA WriteGrows ==
    ASSUME TypeOK, NEW c \in Cluster, NEW d \in Doc, NEW v \in Val, Write(c, d, v)
    PROVE  LogGrows
<1> DEFINE e == [doc |-> d, val |-> v]
<1>1. e \in Event /\ log' = [log EXCEPT ![c] = Append(@, e)]
    BY DEF Write, Event
<1> HIDE DEF e
<1> USE DEF LogGrows
<1> TAKE k \in Cluster
<1>2. log[k] \in Seq(Event) /\ log[c] \in Seq(Event)
    BY DEF TypeOK
<1>3. CASE k = c
    BY <1>1, <1>2, <1>3 DEF TypeOK
<1>4. CASE k # c
    BY <1>1, <1>2, <1>4 DEF TypeOK
<1> QED
    BY <1>3, <1>4

LEMMA SameLogs ==
    ASSUME TypeOK, UNCHANGED log
    PROVE  LogGrows
<1>1. \A c \in Cluster : Len(log[c]) \in Nat
    BY DEF TypeOK
<1> QED
    BY <1>1 DEF LogGrows

LEMMA LogLengths == TypeOK => \A c \in Cluster : Len(log[c]) \in Nat
BY DEF TypeOK

LEMMA InitPosition == Init => PositionInv
BY BoundsAssumption, ContentAssumption DEF Init, PositionInv, Gen

(* A step that neither moves a position nor a log. *)
LEMMA PositionFrame ==
    ASSUME PositionInv, UNCHANGED <<log, frozen, handled, batch, readers, token, request>>,
           creator'[0] # "none" <=> creator[0] # "none", pc' # "down" <=> pc # "down"
    PROVE  PositionInv'
BY DEF PositionInv, readers, request

(* Only the first start creates the first task. *)
LEMMA CreatorStays ==
    TypeOK /\ LedgerInv /\ [Next]_vars /\ ~Start =>
        (creator'[0] # "none" <=> creator[0] # "none")
<1> SUFFICES ASSUME TypeOK, LedgerInv, [Next]_vars, ~Start
             PROVE  creator'[0] # "none" <=> creator[0] # "none"
    OBVIOUS
<1> USE BoundsAssumption DEF TypeOK, Gen
<1>1. CASE UNCHANGED creator
    BY <1>1
<1>2. CASE NextGeneration \/ FinalGeneration
  <2>1. generation \in 0..MaxGen /\ generation + 1 # 0
    OBVIOUS
  <2> QED
    BY <1>2, <2>1 DEF NextGeneration, FinalGeneration, Advance
<1>3. ASSUME NEW w \in Worker, ClaimCreator(w) \/ CompleteCreator(w)
      PROVE  creator'[0] # "none" <=> creator[0] # "none"
  <2>1. /\ creator[generation] # "none"
        /\ \E s \in {"processing", "completed"} : creator' = [creator EXCEPT ![generation] = s]
    BY <1>3 DEF LedgerInv, ClaimCreator, CompleteCreator
  <2> QED
    BY <2>1
<1>4. ASSUME NEW w \in Worker, WorkerStep(w)
      PROVE  creator'[0] # "none" <=> creator[0] # "none"
  <2>1. UNCHANGED creator \/ ClaimCreator(w) \/ CompleteCreator(w)
    BY <1>4 DEF WorkerStep, ExitWorker, DropQueue, CompleteDocTask, BeginMismatchRecheck,
                InsertMismatchRecheck, FailDocTask, Record, ClaimDocTask, CreateDocTask, ReadDoc,
                durable
  <2> QED
    BY <1>1, <1>3, <2>1
<1>5. CASE DriverStep
    BY <1>1, <1>2, <1>5 DEF DriverStep, PersistGeneration, CloseGenerationDone, Finish,
                AwaitChangeHandling, durable
<1>6. CASE \/ \E c \in Cluster, d \in Doc, v \in Val : Write(c, d, v)
           \/ \E c \in Cluster : ReaderStep(c) \/ PersistorStep(c) \/ PersistToken(c)
           \/ WritesOff \/ TellReader \/ Crash \/ UNCHANGED vars
  <2>1. UNCHANGED creator
    BY <1>6 DEF Write, ReaderStep, ReadBatch, CloseReader, PersistorStep, BeginBatch,
                InsertRecheck, EndBatch, PersistToken, WritesOff, TellReader, Crash, durable, vars
  <2> QED
    BY <1>1, <2>1
<1> QED
    BY <1>4, <1>5, <1>6 DEF Next

LEMMA StepPosition ==
    TypeOK /\ LockInv /\ LedgerInv /\ PositionInv /\ [Next]_vars => PositionInv'
<1> SUFFICES ASSUME TypeOK, LockInv, LedgerInv, PositionInv, [Next]_vars PROVE PositionInv'
    OBVIOUS
<1> USE BoundsAssumption, ContentAssumption
<1>1. ASSUME NEW c \in Cluster, NEW d \in Doc, NEW v \in Val, Write(c, d, v) PROVE PositionInv'
  <2>1. /\ ~frozen /\ UNCHANGED <<frozen, handled, batch, readers, token, creator, pc, request>>
    BY <1>1 DEF Write, durable, driver, persists
  <2>2. \A k \in Cluster : Len(log[k]) <= Len(log'[k]) /\ Len(log[k]) \in Nat /\ Len(log'[k]) \in Nat
    <3>1. TypeOK' /\ LogGrows
      BY <1>1, WriteGrows, StepType
    <3>2. \A k \in Cluster : log[k] \in Seq(Event) /\ log'[k] \in Seq(Event)
      BY <3>1 DEF TypeOK
    <3> QED
      BY <3>1, <3>2 DEF LogGrows
  <2>3. /\ \A k \in Cluster : pos[k] \in Nat /\ (token[k] # None => token[k] \in Nat)
        /\ writesOff = "none" /\ \A k \in Cluster : ~readerDone[k]
    BY <2>1 DEF PositionInv, TypeOK
  <2> QED
    BY <2>1, <2>2, <2>3 DEF PositionInv, readers, request
<1>2. CASE Start
  <2>1. /\ pc = "down" /\ UNCHANGED <<log, frozen, request, readerDone, batch>>
        /\ token' = [c \in Cluster |-> IF token[c] = None THEN Len(log[c]) ELSE token[c]]
        /\ pos' = token' /\ handled' = token'
        /\ creator' = IF creator[0] = "none" THEN [ResetCreator EXCEPT ![0] = "added"] ELSE ResetCreator
    BY <1>2 DEF Start, env
  <2>2. creator'[0] # "none"
    BY <2>1 DEF ResetCreator, ResetStatus, Gen
  <2>3. \A c \in Cluster : Len(log[c]) \in Nat /\ (token[c] # None => token[c] \in Nat)
    BY LogLengths DEF TypeOK
  <2>4. \A c \in Cluster : batch[c] = None /\ ~readerDone[c]
    BY <2>1 DEF LockInv, PositionInv
  <2>5. \A c \in Cluster : token'[c] # None /\ token'[c] <= Len(log[c]) /\ token'[c] \in Nat
    BY <2>1, <2>3 DEF PositionInv
  <2> QED
    BY <2>1, <2>2, <2>4, <2>5 DEF PositionInv, request
<1>3. CASE PersistGeneration
    BY <1>3, PositionFrame DEF PersistGeneration, env, persists
<1>4. CASE CloseGenerationDone \/ Finish \/ AwaitChangeHandling
    BY <1>4, PositionFrame DEF CloseGenerationDone, Finish, AwaitChangeHandling, env, durable, persists
<1>5. CASE NextGeneration \/ FinalGeneration
    BY <1>5, CreatorStays, PositionFrame DEF NextGeneration, FinalGeneration, Advance, Start, env, persists
<1>6. ASSUME NEW w \in Worker, WorkerStep(w) PROVE PositionInv'
  <2>1. /\ UNCHANGED <<log, frozen, handled, batch, readers, token, request>> /\ pc' = pc
    BY <1>6 DEF WorkerStep, ClaimCreator, ExitWorker, CompleteCreator, DropQueue, CompleteDocTask,
                BeginMismatchRecheck, InsertMismatchRecheck, FailDocTask, Record, ClaimDocTask,
                CreateDocTask, ReadDoc, env, durable, driver, persists
  <2>2. ~Start
    BY <2>1 DEF Start
  <2> QED
    BY <2>1, <2>2, CreatorStays, PositionFrame
<1>7. ASSUME NEW c \in Cluster, NEW t \in 0..Len(log[c]), ReadBatch(c, t) PROVE PositionInv'
  <2>1. /\ pos' = [pos EXCEPT ![c] = t] /\ t > pos[c] /\ ~readerDone[c]
        /\ UNCHANGED <<log, frozen, handled, batch, readerDone, token, creator, pc, request>>
    BY <1>7 DEF ReadBatch, TypeOK, env, durable, driver, persists
  <2>2. Len(log[c]) \in Nat
    BY LogLengths
  <2> QED
    BY <2>1, <2>2 DEF PositionInv, TypeOK, BatchState, request
<1>8. ASSUME NEW c \in Cluster, CloseReader(c) PROVE PositionInv'
  <2>1. /\ pc # "down" /\ writesOff # "none" /\ pos[c] >= finalTs[c]
        /\ readerDone' = [readerDone EXCEPT ![c] = TRUE]
        /\ UNCHANGED <<log, frozen, handled, batch, pos, token, creator, pc, request>>
    BY <1>8 DEF CloseReader, Told, Running, env, durable, driver, persists
  <2>2. pos[c] = Len(log[c])
    BY <2>1, LogLengths DEF PositionInv, TypeOK
  <2> QED
    BY <2>1, <2>2 DEF PositionInv, TypeOK, request
<1>9. ASSUME NEW c \in Cluster, NEW t \in 0..Len(log[c]), BeginBatch(c, t) PROVE PositionInv'
  <2> DEFINE b == [upTo |-> t, pending |-> {log[c][i].doc : i \in (handled[c] + 1)..t},
                   target |-> RecheckGeneration]
  <2>1. /\ batch' = [batch EXCEPT ![c] = b] /\ handled[c] <= b.upTo /\ b.upTo <= pos[c]
        /\ UNCHANGED <<log, frozen, handled, readers, token, creator, pc, request>>
    BY <1>9 DEF BeginBatch, TypeOK, env, durable, driver
  <2> HIDE DEF b
  <2> QED
    BY <2>1 DEF PositionInv, TypeOK, readers, request
<1>10. ASSUME NEW c \in Cluster, NEW d \in Doc, InsertRecheck(c, d) PROVE PositionInv'
  <2> DEFINE b == [batch[c] EXCEPT !.pending = @ \ {d}]
  <2>1. /\ batch' = [batch EXCEPT ![c] = b] /\ batch[c] # None
        /\ UNCHANGED <<log, frozen, handled, readers, token, creator, pc, request>>
    BY <1>10 DEF InsertRecheck, env, driver
  <2>2. b.upTo = batch[c].upTo
    BY <2>1 DEF TypeOK, BatchState
  <2> HIDE DEF b
  <2> QED
    BY <2>1, <2>2 DEF PositionInv, TypeOK, readers, request
<1>11. ASSUME NEW c \in Cluster, EndBatch(c) PROVE PositionInv'
  <2>1. /\ batch[c] # None
        /\ handled' = [handled EXCEPT ![c] = batch[c].upTo]
        /\ batch' = [batch EXCEPT ![c] = None]
        /\ UNCHANGED <<log, frozen, readers, token, creator, pc, request>>
    BY <1>11 DEF EndBatch, env, durable, driver
  <2>2. handled[c] \in Nat /\ batch[c].upTo \in Nat /\ (token[c] # None => token[c] \in Nat)
    BY <2>1 DEF TypeOK, BatchState
  <2> QED
    BY <2>1, <2>2 DEF PositionInv, TypeOK, readers, request
<1>12. ASSUME NEW c \in Cluster, PersistToken(c) PROVE PositionInv'
  <2>1. /\ pc # "down" /\ token' = [token EXCEPT ![c] = handled[c]]
        /\ UNCHANGED <<log, frozen, handled, batch, readers, creator, pc, request>>
    BY <1>12 DEF PersistToken, Persistable, Running, env, driver, persists
  <2>2. creator[0] # "none"
    BY <2>1 DEF LedgerInv
  <2>3. handled[c] \in Nat /\ pos[c] \in Nat /\ Len(log[c]) \in Nat /\ handled[c] # None
    BY LogLengths DEF TypeOK
  <2> QED
    BY <2>1, <2>2, <2>3 DEF PositionInv, TypeOK, readers, request
<1>13. CASE WritesOff
  <2>1. /\ frozen' = TRUE /\ writesOff = "none" /\ finalTs' = [c \in Cluster |-> Len(log[c])]
        /\ UNCHANGED <<log, handled, batch, readers, token, creator, pc>>
    BY <1>13 DEF WritesOff, durable, driver, persists
  <2> QED
    BY <2>1 DEF PositionInv, readers
<1>14. CASE TellReader
  <2>1. /\ writesOff # "none" /\ writesOff' # "none"
        /\ UNCHANGED <<log, frozen, handled, batch, readers, token, creator, pc, finalTs>>
    BY <1>14 DEF TellReader, env, durable, driver, persists
  <2> QED
    BY <2>1 DEF PositionInv, readers
<1>15. CASE Crash
  <2>1. /\ pc' = "down" /\ writesOff' = "none"
        /\ \A c \in Cluster : pos'[c] = 0 /\ ~readerDone'[c] /\ handled'[c] = 0 /\ batch'[c] = None
        /\ UNCHANGED <<log, token, creator>>
    BY <1>15 DEF Crash, env, durable
  <2> QED
    BY <2>1, LogLengths DEF PositionInv
<1>16. CASE UNCHANGED vars
    BY <1>16, PositionFrame DEF vars, env, durable, driver, persists
<1> QED
    BY <1>1, <1>2, <1>3, <1>4, <1>5, <1>6, <1>7, <1>8, <1>9, <1>10, <1>11, <1>12, <1>13, <1>14,
       <1>15, <1>16
    DEF Next, DriverStep, ReaderStep, PersistorStep

-----------------------------------------------------------------------------
LEMMA InitTasks == Init => TasksInv
BY BoundsAssumption DEF Init, TasksInv, Exited, DurableGen, Gen

(* A worker that has a document keeps it until the outcome is recorded. *)
Comparing(w) == worker[w].pc \in {"compare", "insert", "fail"}

LEMMA ComparingDoc ==
    ASSUME TypeOK
    PROVE  \A w \in Worker : Comparing(w) => worker[w].doc \in Doc
BY DEF Comparing, TypeOK, WorkerState, ParkedState, ComparingState, FailingState

LEMMA ReadDocFields ==
    ASSUME TypeOK, NEW w \in Worker, NEW c \in Cluster, NEW t \in 0..Len(log[c]), ReadDoc(w, c, t)
    PROVE  /\ worker[w].pc = "compare" /\ worker'[w].pc = "compare"
           /\ worker'[w].doc = worker[w].doc
           /\ worker'[w].at = [worker[w].at EXCEPT ![c] = t]
           /\ worker[w].at \in [Cluster -> Nat \cup {None}]
           /\ \A v \in Worker : v # w => worker'[v] = worker[v]
<1>1. worker[w] \in ComparingState
    BY WorkerKind DEF ReadDoc, TypeOK
<1>2. worker' = [worker EXCEPT ![w].at[c] = t]
    BY DEF ReadDoc
<1> QED
    BY <1>1, <1>2 DEF TypeOK, ComparingState

(* A step that leaves the tasks as they are. *)
LEMMA TasksFrame ==
    ASSUME TasksInv, UNCHANGED <<persistedGen, creator, docTask, generation>>,
           ToCreate(DurableGen)' = ToCreate(DurableGen),
           \A w \in Worker : worker'[w].pc = "drop" => worker[w].pc = "drop",
           \A w \in Worker : Comparing(w)' => Comparing(w) /\ worker'[w].doc = worker[w].doc
    PROVE  TasksInv'
BY DEF TasksInv, DurableGen, Comparing

LEMMA StepTasks ==
    TypeOK /\ LockInv /\ CreatorInv /\ FailureInv /\ LedgerInv /\ TasksInv /\ [Next]_vars => TasksInv'
<1> SUFFICES ASSUME TypeOK, LockInv, CreatorInv, FailureInv, LedgerInv, TasksInv, [Next]_vars
             PROVE  TasksInv'
    OBVIOUS
<1> USE BoundsAssumption, ContentAssumption
<1>0. /\ DurableGen \in Gen /\ DurableGen # DurableGen + 1
      /\ generation \in Gen
      /\ pc \notin {"down", "persist"} => generation = DurableGen
      /\ \A w \in Worker : worker[w].pc # "exited" => pc = "check"
    BY DEF LockInv, TypeOK, DurableGen, Gen
<1>1. CASE /\ UNCHANGED <<persistedGen, creator, docTask, queue, generation>>
           /\ \A w \in Worker : worker'[w] = worker[w] \/ worker'[w].pc \in {"idle", "exited"}
    BY <1>1, TasksFrame DEF ToCreate, DurableGen, Comparing
<1>2. CASE Start
  <2>1. /\ pc = "down" /\ generation' = DurableGen /\ UNCHANGED <<persistedGen, queue, worker>>
        /\ creator' = IF creator[0] = "none" THEN [ResetCreator EXCEPT ![0] = "added"] ELSE ResetCreator
        /\ docTask' = ResetDocTask
    BY <1>2 DEF Start
  <2>2. creator'[0] # "none" /\ \A w \in Worker : worker'[w].pc = "exited"
    BY <1>0, <2>1 DEF ResetCreator, ResetStatus, Gen
  <2>3. /\ DurableGen' = DurableGen /\ ToCreate(DurableGen)' = ToCreate(DurableGen)
    BY <2>1 DEF DurableGen, ToCreate
  <2>4. ASSUME creator'[DurableGen] \in {"added", "processing"},
               NEW d \in Doc, docTask'[DurableGen][d] # "none"
        PROVE  d \in ToCreate(DurableGen)
    <3>1. docTask[DurableGen][d] # "none" /\ creator[DurableGen] # "processing"
      BY <1>0, <2>1, <2>4 DEF ResetDocTask, ResetStatus
    <3>2. creator[0] # "none"
      BY <1>0, <3>1 DEF TasksInv, LedgerInv, Gen
    <3>3. creator[DurableGen] = "added"
      BY <1>0, <2>1, <2>4, <3>1, <3>2 DEF ResetCreator, ResetStatus
    <3> QED
      BY <3>1, <3>3 DEF TasksInv
  <2> QED
    BY <2>2, <2>3, <2>4 DEF TasksInv
<1>3. CASE PersistGeneration
  <2>1. /\ pc = "persist" /\ persistedGen' = generation /\ UNCHANGED <<creator, docTask, queue, generation>>
        /\ \A w \in Worker : worker'[w].pc = "idle"
    BY <1>3 DEF PersistGeneration, Idle
  <2>2. creator[0] # "none" /\ DurableGen' = generation
    BY <1>0, <2>1 DEF LedgerInv, DurableGen, Gen
  <2>3. CASE generation = DurableGen
    <3>1. ToCreate(DurableGen)' = ToCreate(DurableGen)
      BY <2>1, <2>2, <2>3 DEF ToCreate
    <3> QED
      BY <2>1, <2>2, <2>3, <3>1 DEF TasksInv
  <2>4. CASE generation # DurableGen
    <3>1. \A d \in Doc : docTask[generation][d] = "none"
      BY <1>0, <2>1, <2>4 DEF LedgerInv, FailureInv, Gen
    <3> QED
      BY <2>1, <2>2, <3>1 DEF TasksInv
  <2> QED
    BY <2>3, <2>4
<1>4. CASE NextGeneration \/ FinalGeneration
  <2>1. /\ pc \in {"check", "await"} /\ UNCHANGED <<persistedGen, docTask, queue, worker>>
        /\ generation < MaxGen /\ \A w \in Worker : worker[w].pc = "exited"
        /\ creator' = IF queue[generation + 1] = {} THEN creator
                      ELSE [creator EXCEPT ![generation + 1] =
                                IF @ \in {"none", "processing"} THEN "added" ELSE @]
    BY <1>4 DEF NextGeneration, FinalGeneration, Advance, LockInv, CheckWorkerReturned
  <2>2. generation = DurableGen /\ generation # generation + 1 /\ 0 # generation + 1
    BY <1>0, <2>1 DEF Gen
  <2>3. creator'[DurableGen] = creator[DurableGen] /\ creator'[0] = creator[0]
    BY <2>1, <2>2 DEF TypeOK
  <2>4. DurableGen' = DurableGen /\ ToCreate(DurableGen)' = ToCreate(DurableGen)
    BY <2>1 DEF DurableGen, ToCreate
  <2> QED
    BY <2>1, <2>3, <2>4 DEF TasksInv
<1>5. ASSUME NEW w \in Worker, ClaimCreator(w) \/ CompleteCreator(w) PROVE TasksInv'
  <2>1. /\ pc = "check" /\ UNCHANGED <<persistedGen, docTask, queue, generation>>
        /\ \A v \in Worker : v # w => worker'[v] = worker[v]
        /\ creator[0] # "none" /\ creator[generation] \in {"added", "processing"}
    BY <1>0, <1>5 DEF ClaimCreator, CompleteCreator, LedgerInv, TypeOK, driver
  <2>2. /\ \A v \in Worker : worker[v].pc # "drop"
        /\ DurableGen' = DurableGen /\ generation = DurableGen
        /\ ToCreate(DurableGen)' = ToCreate(DurableGen)
    BY <1>0, <2>1 DEF TasksInv, DurableGen, ToCreate
  <2>3. CASE ClaimCreator(w)
    <3>1. worker'[w].pc = "create" /\ creator'[generation] = "processing"
          /\ creator'[0] # "none"
      BY <1>0, <2>1, <2>3, WorkerFields DEF ClaimCreator, TypeOK, Gen
    <3> QED
      BY <2>1, <2>2, <3>1 DEF TasksInv
  <2>4. CASE CompleteCreator(w)
    <3>1. worker'[w].pc \in {"idle", "drop"} /\ creator'[generation] = "completed"
          /\ creator'[0] # "none"
      BY <1>0, <2>1, <2>4, WorkerFields DEF CompleteCreator, Idle, TypeOK, Gen
    <3> QED
      BY <2>1, <2>2, <3>1 DEF TasksInv
  <2> QED
    BY <1>5, <2>3, <2>4
<1>6. ASSUME NEW w \in Worker, NEW d \in Doc, ClaimDocTask(w, d) PROVE TasksInv'
  <2>1. /\ pc = "check" /\ docTask[generation][d] = "added"
        /\ docTask' = [docTask EXCEPT ![generation][d] = "processing"]
        /\ worker' = [worker EXCEPT ![w].pc = "compare", ![w].doc = d]
        /\ UNCHANGED <<persistedGen, creator, queue, generation>>
    BY <1>6 DEF ClaimDocTask, driver
  <2>2. /\ DurableGen' = DurableGen /\ generation = DurableGen /\ creator[0] # "none"
        /\ ToCreate(DurableGen)' = ToCreate(DurableGen)
    BY <1>0, <2>1 DEF DurableGen, ToCreate, LedgerInv
  <2>3. \A e \in Doc : docTask'[generation][e] = IF e = d THEN "processing" ELSE docTask[generation][e]
    BY <1>0, <2>1 DEF TypeOK
  <2>4. /\ \A v \in Worker : v # w => worker'[v] = worker[v]
        /\ worker'[w].pc = "compare" /\ worker'[w].doc = d
    BY <2>1 DEF TypeOK, WorkerState, ParkedState, ComparingState, FailingState
  <2>5. \A e \in Doc : docTask'[generation][e] # "none" <=> docTask[generation][e] # "none"
    BY <2>1, <2>3
  <2>6. \A v \in Worker : Comparing(v)' => docTask'[generation][worker'[v].doc] # "none"
    <3> SUFFICES ASSUME NEW v \in Worker, Comparing(v)'
                 PROVE  docTask'[generation][worker'[v].doc] # "none"
      OBVIOUS
    <3>1. CASE v = w
      BY <2>3, <2>4, <3>1
    <3>2. CASE v # w
      <4>1. Comparing(v) /\ worker'[v].doc = worker[v].doc
        BY <2>4, <3>2 DEF Comparing
      <4> QED
        BY <2>5, <4>1, ComparingDoc DEF TasksInv, Comparing
    <3> QED
      BY <3>1, <3>2
  <2>7. \A v \in Worker : worker'[v].pc = "drop" => worker[v].pc = "drop"
    BY <2>4
  <2> QED
    BY <2>1, <2>2, <2>5, <2>6, <2>7 DEF TasksInv, Comparing
<1>7. ASSUME NEW w \in Worker, NEW d \in Doc, CreateDocTask(w, d) PROVE TasksInv'
  <2>1. /\ pc = "check" /\ d \in ToCreate(generation)
        /\ docTask' = [docTask EXCEPT ![generation][d] = "added"]
        /\ UNCHANGED <<persistedGen, creator, queue, generation, worker>>
    BY <1>0, <1>7 DEF CreateDocTask, driver
  <2>2. /\ DurableGen' = DurableGen /\ generation = DurableGen /\ creator[0] # "none"
        /\ ToCreate(DurableGen)' = ToCreate(DurableGen)
    BY <1>0, <2>1 DEF DurableGen, ToCreate, LedgerInv
  <2>3. \A e \in Doc : docTask'[generation][e] = IF e = d THEN "added" ELSE docTask[generation][e]
    BY <1>0, <2>1 DEF TypeOK
  <2> QED
    BY <2>1, <2>2, <2>3 DEF TasksInv
<1>8. ASSUME NEW w \in Worker, DropQueue(w) PROVE TasksInv'
  <2>1. /\ pc = "check" /\ worker[w].pc = "drop"
        /\ UNCHANGED <<persistedGen, creator, docTask, generation>>
        /\ worker' = [worker EXCEPT ![w] = Idle]
    BY <1>0, <1>8 DEF DropQueue, driver
  <2>2. /\ DurableGen' = DurableGen /\ generation = DurableGen /\ creator[generation] = "completed"
        /\ creator[0] # "none"
    BY <1>0, <2>1 DEF DurableGen, TasksInv, LedgerInv
  <2>3. \A v \in Worker : worker'[v] = worker[v] \/ worker'[v].pc = "idle"
    BY <2>1 DEF Idle, TypeOK
  <2> QED
    BY <2>1, <2>2, <2>3 DEF TasksInv
<1>9. ASSUME NEW w \in Worker, NEW status \in {"completed", "failed"}, Comparing(w), Record(w, status)
      PROVE  TasksInv'
  <2>1. /\ pc = "check" /\ UNCHANGED <<persistedGen, creator, queue, generation>>
        /\ docTask' = [docTask EXCEPT ![generation][worker[w].doc] = status]
        /\ worker' = [worker EXCEPT ![w] = Idle]
    BY <1>0, <1>9 DEF Record, Comparing, driver
  <2>2. /\ DurableGen' = DurableGen /\ generation = DurableGen /\ creator[0] # "none"
        /\ ToCreate(DurableGen)' = ToCreate(DurableGen)
        /\ docTask[generation][worker[w].doc] # "none"
    BY <1>0, <1>9, <2>1 DEF DurableGen, ToCreate, LedgerInv, TasksInv, Comparing
  <2>3. \A e \in Doc : docTask'[generation][e] # "none" <=> docTask[generation][e] # "none"
    BY <1>0, <2>1, <2>2 DEF TypeOK
  <2>4. \A v \in Worker : worker'[v] = worker[v] \/ worker'[v].pc = "idle"
    BY <2>1 DEF Idle, TypeOK
  <2> QED
    BY <2>1, <2>2, <2>3, <2>4, ComparingDoc DEF TasksInv, Comparing
<1>10. ASSUME pc \notin {"down", "persist"},
              \A g \in QueueGen : g # generation + 1 => queue'[g] = queue[g],
              UNCHANGED <<persistedGen, creator, docTask, generation>>,
              \A v \in Worker : worker'[v].pc = "drop" => worker[v].pc = "drop",
              \A v \in Worker : Comparing(v)' => Comparing(v) /\ worker'[v].doc = worker[v].doc
       PROVE  TasksInv'
  <2>1. DurableGen' = DurableGen /\ generation = DurableGen
    BY <1>0, <1>10 DEF DurableGen
  <2>2. DurableGen # 0 => DurableGen \in QueueGen
    BY <1>0 DEF Gen, QueueGen
  <2>3. ToCreate(DurableGen)' = ToCreate(DurableGen)
    BY <1>0, <1>10, <2>1, <2>2 DEF ToCreate
  <2> QED
    BY <1>10, <2>3, TasksFrame
<1>11. ASSUME NEW w \in Worker, InsertMismatchRecheck(w) PROVE TasksInv'
  <2>1. /\ worker[w].target = generation + 1 /\ pc = "check" /\ worker[w].pc = "insert"
        /\ queue' = [queue EXCEPT ![generation + 1] = @ \cup {worker[w].doc}]
        /\ worker' = [worker EXCEPT ![w].pc = "fail"]
        /\ UNCHANGED <<persistedGen, creator, docTask, generation>>
    BY <1>0, <1>11 DEF InsertMismatchRecheck, LockInv, driver
  <2>2. \A v \in Worker : worker'[v] = worker[v]
            \/ (v = w /\ worker'[v].pc = "fail" /\ worker'[v].doc = worker[v].doc)
    BY <2>1, WorkerFields DEF TypeOK
  <2>3. \A g \in QueueGen : g # generation + 1 => queue'[g] = queue[g]
    BY <2>1 DEF TypeOK
  <2> QED
    BY <1>10, <2>1, <2>2, <2>3 DEF Comparing
<1>12. ASSUME NEW c \in Cluster, NEW d \in Doc, InsertRecheck(c, d) PROVE TasksInv'
  <2>1. /\ batch[c].target = generation + 1 /\ pc \notin {"down", "persist"}
        /\ queue' = [queue EXCEPT ![generation + 1] = @ \cup {d}]
        /\ UNCHANGED <<persistedGen, creator, docTask, generation, worker>>
    BY <1>12 DEF InsertRecheck, LockInv, driver
  <2>2. \A g \in QueueGen : g # generation + 1 => queue'[g] = queue[g]
    BY <2>1 DEF TypeOK
  <2> QED
    BY <1>10, <2>1, <2>2 DEF Comparing
<1>13. ASSUME NEW w \in Worker, WorkerStep(w) PROVE TasksInv'
  <2>1. CASE CompleteDocTask(w)
    BY <1>9, <2>1 DEF CompleteDocTask, Comparing
  <2>2. CASE FailDocTask(w)
    BY <1>9, <2>2 DEF FailDocTask, Comparing
  <2>3. CASE ExitWorker(w)
    BY <1>1, <2>3 DEF ExitWorker, Exited, TypeOK, durable, driver
  <2>4. ASSUME BeginMismatchRecheck(w) \/ \E c \in Cluster : \E t \in 0..Len(log[c]) : ReadDoc(w, c, t)
        PROVE  TasksInv'
    <3>1. /\ UNCHANGED <<persistedGen, creator, docTask, queue, generation>> /\ worker[w].pc = "compare"
          /\ \A v \in Worker : v # w => worker'[v] = worker[v]
          /\ worker'[w].pc \in {"compare", "insert"} /\ worker'[w].doc = worker[w].doc
      <4>1. CASE BeginMismatchRecheck(w)
        <5>1. worker[w] \in ComparingState
          BY <4>1, WorkerKind DEF BeginMismatchRecheck, TypeOK
        <5> QED
          BY <4>1, <5>1 DEF BeginMismatchRecheck, TypeOK, ComparingState, durable, driver
      <4>2. ASSUME NEW c \in Cluster, NEW t \in 0..Len(log[c]), ReadDoc(w, c, t)
            PROVE  UNCHANGED <<persistedGen, creator, docTask, queue, generation>>
        BY <4>2 DEF ReadDoc, durable, driver
      <4> QED
        BY <2>4, <4>1, <4>2, ReadDocFields
    <3>2. /\ ToCreate(DurableGen)' = ToCreate(DurableGen)
          /\ \A v \in Worker : worker'[v].pc = "drop" => worker[v].pc = "drop"
          /\ \A v \in Worker : Comparing(v)' => Comparing(v) /\ worker'[v].doc = worker[v].doc
      BY <3>1 DEF Comparing, DurableGen, ToCreate
    <3> QED
      BY <3>1, <3>2, TasksFrame
  <2> QED
    BY <1>5, <1>6, <1>7, <1>8, <1>11, <1>13, <2>1, <2>2, <2>3, <2>4 DEF WorkerStep
<1>14. ASSUME NEW c \in Cluster, ReaderStep(c) \/ PersistorStep(c) \/ PersistToken(c)
       PROVE  TasksInv'
  <2>1. \/ UNCHANGED <<persistedGen, creator, docTask, queue, generation, worker>>
        \/ \E d \in Doc : InsertRecheck(c, d)
    BY <1>14 DEF ReaderStep, ReadBatch, CloseReader, PersistorStep, BeginBatch, EndBatch,
                 PersistToken, durable, driver
  <2> QED
    BY <1>1, <1>12, <2>1
<1>15. CASE \/ CloseGenerationDone \/ Finish \/ AwaitChangeHandling
            \/ \E c \in Cluster, d \in Doc, v \in Val : Write(c, d, v)
            \/ WritesOff \/ TellReader \/ UNCHANGED vars
  <2>1. UNCHANGED <<persistedGen, creator, docTask, queue, generation, worker>>
    BY <1>15 DEF CloseGenerationDone, Finish, AwaitChangeHandling, Write, WritesOff, TellReader,
                 vars, durable, driver
  <2> QED
    BY <1>1, <2>1
<1>16. CASE Crash
  <2>1. /\ UNCHANGED <<persistedGen, creator, docTask, queue>> /\ pc # "down"
        /\ \A w \in Worker : worker'[w].pc = "exited"
    BY <1>16 DEF Crash, Exited, durable
  <2>2. ToCreate(DurableGen)' = ToCreate(DurableGen) /\ DurableGen' = DurableGen
    BY <2>1 DEF ToCreate, DurableGen
  <2> QED
    BY <2>1, <2>2 DEF TasksInv
<1> QED
    BY <1>2, <1>3, <1>4, <1>13, <1>14, <1>15, <1>16 DEF Next, DriverStep

-----------------------------------------------------------------------------
(* What one step stores, and for whom. *)

LEMMA RunningGeneration ==
    ASSUME TypeOK, LockInv, pc \notin {"down", "persist"}
    PROVE  generation = DurableGen
<1>1. persistedGen = generation /\ generation # None
    BY BoundsAssumption, ContentAssumption DEF LockInv, TypeOK, Gen
<1> QED
    BY <1>1 DEF DurableGen

(* A step stores the recheck of a change only in the next queue. *)
StoresNext ==
    \A c \in Cluster : \A i \in 1..Len(log'[c]) : Stored(c, i)' =>
        \/ i \in 1..Len(log[c]) /\ Stored(c, i)
        \/ log'[c][i].doc \in queue'[DurableGen' + 1]

LEMMA StepStored ==
    TypeOK /\ LockInv /\ PositionInv /\ [Next]_vars /\ creator[0] # "none" => StoresNext
<1> SUFFICES ASSUME TypeOK, LockInv, PositionInv, [Next]_vars, creator[0] # "none" PROVE StoresNext
    OBVIOUS
<1> USE BoundsAssumption, ContentAssumption
<1>1. ASSUME UNCHANGED <<log, token, handled, batch>> PROVE StoresNext
    BY <1>1 DEF StoresNext, Stored
<1>2. ASSUME NEW c \in Cluster, NEW d \in Doc, NEW v \in Val, Write(c, d, v) PROVE StoresNext
  <2>1. UNCHANGED <<token, handled, batch>> /\ LogGrows
    BY <1>2, WriteGrows DEF Write, durable, persists
  <2> SUFFICES ASSUME NEW k \in Cluster, NEW i \in 1..Len(log'[k]), Stored(k, i)'
               PROVE  i \in 1..Len(log[k]) /\ Stored(k, i)
    BY DEF StoresNext
  <2>2. /\ handled[k] \in Nat /\ pos[k] \in Nat /\ Len(log[k]) \in Nat
        /\ token[k] # None => token[k] \in Nat
        /\ batch[k] # None => batch[k].upTo \in Nat
    BY LogLengths DEF TypeOK, BatchState
  <2>3. i <= Len(log[k])
    BY <2>1, <2>2 DEF Stored, PositionInv
  <2>4. log'[k][i] = log[k][i]
    BY <2>1, <2>2, <2>3 DEF LogGrows
  <2> QED
    BY <2>1, <2>2, <2>3, <2>4 DEF Stored
<1>3. CASE Start
  <2>1. /\ UNCHANGED log /\ pc = "down"
        /\ token' = [c \in Cluster |-> IF token[c] = None THEN Len(log[c]) ELSE token[c]]
        /\ handled' = token' /\ UNCHANGED batch
    BY <1>3 DEF Start, env
  <2>2. \A c \in Cluster : batch[c] = None /\ token[c] # None
    BY <2>1 DEF LockInv, PositionInv
  <2> QED
    BY <2>1, <2>2 DEF StoresNext, Stored
<1>4. ASSUME NEW c \in Cluster, NEW t \in 0..Len(log[c]), BeginBatch(c, t) PROVE StoresNext
  <2> DEFINE b == [upTo |-> t, pending |-> {log[c][i].doc : i \in (handled[c] + 1)..t},
                   target |-> RecheckGeneration]
  <2>1. batch' = [batch EXCEPT ![c] = b] /\ batch[c] = None /\ UNCHANGED <<log, token, handled>>
    BY <1>4 DEF BeginBatch, env, durable
  <2>2. handled[c] \in Nat /\ t \in Nat /\ Len(log[c]) \in Nat
    BY LogLengths DEF TypeOK
  <2>3. \A i \in 1..Len(log[c]) : i <= b.upTo /\ log[c][i].doc \notin b.pending => i <= handled[c]
    BY <2>2
  <2> HIDE DEF b
  <2> QED
    BY <2>1, <2>3 DEF StoresNext, Stored, TypeOK
<1>5. ASSUME NEW c \in Cluster, NEW d \in Doc, InsertRecheck(c, d) PROVE StoresNext
  <2> DEFINE b == [batch[c] EXCEPT !.pending = @ \ {d}]
  <2>1. /\ batch' = [batch EXCEPT ![c] = b] /\ batch[c] # None
        /\ queue' = [queue EXCEPT ![batch[c].target] = @ \cup {d}]
        /\ UNCHANGED <<log, token, handled, persistedGen>>
    BY <1>5 DEF InsertRecheck, env
  <2>2. /\ b.upTo = batch[c].upTo /\ b.pending = batch[c].pending \ {d}
        /\ batch[c].target \in QueueGen
    BY <2>1 DEF TypeOK, BatchState
  <2>3. batch[c].target = DurableGen + 1 /\ DurableGen' = DurableGen
    BY <1>5, <2>1, RunningGeneration DEF InsertRecheck, LockInv, DurableGen
  <2>4. d \in queue'[DurableGen' + 1]
    BY <2>1, <2>2, <2>3 DEF TypeOK
  <2> HIDE DEF b
  <2> QED
    BY <2>1, <2>2, <2>4 DEF StoresNext, Stored, TypeOK
<1>6. ASSUME NEW c \in Cluster, EndBatch(c) PROVE StoresNext
  <2>1. /\ batch' = [batch EXCEPT ![c] = None] /\ batch[c] # None /\ batch[c].pending = {}
        /\ handled' = [handled EXCEPT ![c] = batch[c].upTo]
        /\ UNCHANGED <<log, token>>
    BY <1>6 DEF EndBatch, env, durable
  <2> QED
    BY <2>1 DEF StoresNext, Stored, TypeOK
<1>7. ASSUME NEW c \in Cluster, PersistToken(c) PROVE StoresNext
  <2>1. token' = [token EXCEPT ![c] = handled[c]] /\ UNCHANGED <<log, handled, batch>>
    BY <1>7 DEF PersistToken, Persistable, env, persists
  <2> QED
    BY <2>1 DEF StoresNext, Stored, TypeOK
<1>8. CASE Crash
  <2>1. /\ UNCHANGED <<log, token>>
        /\ \A c \in Cluster : handled'[c] = 0 /\ batch'[c] = None
    BY <1>8 DEF Crash, env, durable
  <2> SUFFICES ASSUME NEW k \in Cluster, NEW i \in 1..Len(log[k]), Stored(k, i)'
               PROVE  Stored(k, i)
    BY <2>1 DEF StoresNext
  <2>2. i \in Nat /\ i > 0
    BY LogLengths
  <2> QED
    BY <2>1, <2>2 DEF Stored
<1>9. ASSUME NEW c \in Cluster, ReaderStep(c) \/ PersistorStep(c) \/ PersistToken(c) PROVE StoresNext
  <2>1. ReaderStep(c) => UNCHANGED <<log, token, handled, batch>>
    BY DEF ReaderStep, ReadBatch, CloseReader, env, durable, persists
  <2> QED
    BY <1>1, <1>4, <1>5, <1>6, <1>7, <1>9, <2>1 DEF PersistorStep
<1>10. CASE DriverStep \/ WritesOff \/ TellReader \/ UNCHANGED vars
  <2>1. UNCHANGED <<log, token, handled, batch>>
    BY <1>10 DEF DriverStep, PersistGeneration, CloseGenerationDone, Finish, AwaitChangeHandling,
                 NextGeneration, FinalGeneration, Advance, WritesOff, TellReader, vars, env, durable,
                 persists
  <2> QED
    BY <1>1, <2>1
<1>11. ASSUME NEW w \in Worker, WorkerStep(w) PROVE StoresNext
  <2>1. UNCHANGED <<log, token, handled, batch>>
    BY <1>11 DEF WorkerStep, ClaimCreator, ExitWorker, CompleteCreator, DropQueue, CompleteDocTask,
                BeginMismatchRecheck, InsertMismatchRecheck, FailDocTask, Record, ClaimDocTask,
                CreateDocTask, ReadDoc, env, durable, persists
  <2> QED
    BY <1>1, <2>1
<1> QED
    BY <1>2, <1>3, <1>8, <1>9, <1>10, <1>11 DEF Next

(* The queue of the next generation only grows. *)
LEMMA NextQueueGrows ==
    TypeOK /\ LockInv /\ [Next]_vars /\ DurableGen' = DurableGen =>
        queue[DurableGen + 1] \subseteq queue'[DurableGen + 1]
<1> SUFFICES ASSUME TypeOK, LockInv, [Next]_vars, DurableGen' = DurableGen
             PROVE  queue[DurableGen + 1] \subseteq queue'[DurableGen + 1]
    OBVIOUS
<1> USE BoundsAssumption, ContentAssumption
<1>0. DurableGen \in Gen /\ DurableGen + 1 \in QueueGen /\ DurableGen # DurableGen + 1
    BY DEF TypeOK, DurableGen, Gen, QueueGen
<1>1. CASE UNCHANGED queue
    BY <1>1
<1>2. ASSUME NEW w \in Worker, WorkerStep(w) PROVE queue[DurableGen + 1] \subseteq queue'[DurableGen + 1]
  <2>1. UNCHANGED queue \/ DropQueue(w) \/ InsertMismatchRecheck(w)
    BY <1>2 DEF WorkerStep, ClaimCreator, ExitWorker, CompleteCreator, CompleteDocTask,
                BeginMismatchRecheck, FailDocTask, Record, ClaimDocTask, CreateDocTask,
                ReadDoc, durable
  <2>2. CASE DropQueue(w)
    <3>1. generation = DurableGen /\ queue' = [queue EXCEPT ![generation] = {}]
      BY <2>2, RunningGeneration DEF DropQueue, LockInv
    <3> QED
      BY <1>0, <3>1 DEF TypeOK
  <2>3. CASE InsertMismatchRecheck(w)
    BY <1>0, <2>3 DEF InsertMismatchRecheck, TypeOK
  <2> QED
    BY <1>1, <2>1, <2>2, <2>3
<1>3. ASSUME NEW c \in Cluster, ReaderStep(c) \/ PersistorStep(c) \/ PersistToken(c)
      PROVE  queue[DurableGen + 1] \subseteq queue'[DurableGen + 1]
  <2>1. UNCHANGED queue \/ \E d \in Doc : InsertRecheck(c, d)
    BY <1>3 DEF ReaderStep, ReadBatch, CloseReader, PersistorStep, BeginBatch, EndBatch,
                PersistToken, durable
  <2>2. ASSUME NEW d \in Doc, InsertRecheck(c, d)
        PROVE  queue[DurableGen + 1] \subseteq queue'[DurableGen + 1]
    BY <1>0, <2>2 DEF InsertRecheck, TypeOK
  <2> QED
    BY <1>1, <2>1, <2>2
<1>4. CASE \/ DriverStep \/ Start \/ WritesOff \/ TellReader \/ Crash \/ UNCHANGED vars
           \/ \E c \in Cluster, d \in Doc, v \in Val : Write(c, d, v)
  <2>1. UNCHANGED queue
    BY <1>4 DEF DriverStep, PersistGeneration, CloseGenerationDone, Finish, AwaitChangeHandling,
                NextGeneration, FinalGeneration, Advance, Start, WritesOff, TellReader, Crash, Write,
                vars, durable
  <2> QED
    BY <1>1, <2>1
<1> QED
    BY <1>2, <1>3, <1>4 DEF Next

LEMMA InitReads == Init => ReadsInv
BY DEF Init, ReadsInv, Exited

(* A step in which no worker reads. *)
LEMMA ReadsFrame ==
    ASSUME TypeOK, LockInv, PositionInv, [Next]_vars, ReadsInv, creator[0] # "none",
           DurableGen' = DurableGen, LogGrows, NEW w \in Worker,
           Comparing(w), worker'[w].doc = worker[w].doc, worker'[w].at = worker[w].at
    PROVE  Recent(w)'
<1>1. StoresNext /\ queue[DurableGen + 1] \subseteq queue'[DurableGen + 1] /\ Recent(w)
    BY StepStored, NextQueueGrows DEF ReadsInv, Comparing
<1>2. \A c \in Cluster : Len(log[c]) \in Nat /\ Len(log'[c]) \in Nat
    BY LogLengths, StepType
<1>3. worker[w].at \in [Cluster -> Nat \cup {None}]
    BY DEF TypeOK, WorkerState, ParkedState, ComparingState, FailingState, Comparing
<1> SUFFICES ASSUME NEW c \in Cluster, worker[w].at[c] # None
             PROVE  /\ worker[w].at[c] <= Len(log'[c])
                    /\ \A i \in 1..Len(log'[c]) :
                          log'[c][i].doc = worker[w].doc /\ Stored(c, i)' =>
                              i <= worker[w].at[c] \/ worker[w].doc \in queue'[DurableGen' + 1]
    BY DEF Recent
<1>4. worker[w].at[c] \in Nat /\ worker[w].at[c] <= Len(log[c])
    BY <1>1, <1>3 DEF Recent
<1>5. worker[w].at[c] <= Len(log'[c])
    BY <1>2, <1>4 DEF LogGrows
<1>6. ASSUME NEW i \in 1..Len(log'[c]), log'[c][i].doc = worker[w].doc, Stored(c, i)'
      PROVE  i <= worker[w].at[c] \/ worker[w].doc \in queue'[DurableGen' + 1]
  <2>1. CASE i \in 1..Len(log[c]) /\ Stored(c, i)
    <3>1. log[c][i].doc = worker[w].doc
      BY <1>6, <2>1 DEF LogGrows
    <3> QED
      BY <1>1, <2>1, <3>1 DEF Recent
  <2> QED
    BY <1>1, <1>6, <2>1 DEF StoresNext
<1> QED
    BY <1>5, <1>6

(* What is stored has been read. *)
LEMMA StoredRead ==
    ASSUME TypeOK, PositionInv, pc # "down", NEW c \in Cluster, NEW i \in Nat, Stored(c, i)
    PROVE  i <= pos[c]
<1>1. /\ handled[c] \in Nat /\ pos[c] \in Nat
      /\ token[c] # None => token[c] \in Nat
      /\ batch[c] # None => batch[c].upTo \in Nat
    BY DEF TypeOK, BatchState
<1> QED
    BY <1>1 DEF Stored, PositionInv

(* The steps that touch workers. *)
LEMMA OthersLeaveWorkers ==
    [Next]_vars => \/ UNCHANGED worker \/ PersistGeneration \/ Crash
                   \/ \E w \in Worker : WorkerStep(w)
BY DEF Next, Start, DriverStep, CloseGenerationDone, Finish, AwaitChangeHandling, NextGeneration,
       FinalGeneration, Advance, WritesOff, TellReader, ReaderStep, ReadBatch, CloseReader,
       PersistorStep, BeginBatch, InsertRecheck, EndBatch, PersistToken, Write, vars

LEMMA AllStop ==
    Crash \/ PersistGeneration => \A w \in Worker : ~Comparing(w)'
<1>1. Crash => worker' = [w \in Worker |-> Exited]
    BY DEF Crash, Exited
<1>2. PersistGeneration => worker' = [w \in Worker |-> Idle]
    BY DEF PersistGeneration
<1> QED
    BY <1>1, <1>2 DEF Comparing, Exited, Idle

LEMMA StepReads ==
    TypeOK /\ LockInv /\ LedgerInv /\ PositionInv /\ ReadsInv /\ [Next]_vars => ReadsInv'
<1> SUFFICES ASSUME TypeOK, LockInv, LedgerInv, PositionInv, ReadsInv, [Next]_vars,
                    NEW w \in Worker, Comparing(w)'
             PROVE  Recent(w)'
    BY DEF ReadsInv, Comparing
<1> USE BoundsAssumption, ContentAssumption
<1>1. CASE pc # "check"
  <2>1. \A v \in Worker : worker[v].pc = "exited"
    BY <1>1 DEF LockInv
  <2>2. ~Crash /\ ~PersistGeneration
    BY AllStop
  <2>3. \A v \in Worker : ~WorkerStep(v)
    BY <2>1 DEF WorkerStep, ClaimCreator, ExitWorker, CompleteCreator, DropQueue, CompleteDocTask,
          BeginMismatchRecheck, InsertMismatchRecheck, FailDocTask, ClaimDocTask, CreateDocTask, ReadDoc
  <2>4. UNCHANGED worker
    BY <2>2, <2>3, OthersLeaveWorkers
  <2> QED
    BY <2>1, <2>4 DEF Comparing
<1>2. CASE pc = "check"
  <2>0. creator[0] # "none" /\ generation = DurableGen
    BY <1>2, RunningGeneration DEF LedgerInv
  <2>1. CASE \E c \in Cluster : \E t \in 0..Len(log[c]) : ReadDoc(w, c, t)
    <3>0. PICK c \in Cluster : \E t \in 0..Len(log[c]) : ReadDoc(w, c, t)
      BY <2>1
    <3>1. PICK t \in 0..Len(log[c]) : ReadDoc(w, c, t)
      BY <3>0
    <3>2. /\ worker[w].pc = "compare" /\ worker'[w].doc = worker[w].doc
          /\ worker[w].at \in [Cluster -> Nat \cup {None}]
          /\ worker'[w].at = [worker[w].at EXCEPT ![c] = t]
      BY <3>1, ReadDocFields
    <3>3. UNCHANGED <<log, token, handled, batch, queue, persistedGen>> /\ t >= pos[c]
      BY <3>1 DEF ReadDoc, env, durable, persists, TypeOK
    <3>4. \A k \in Cluster, i \in Nat : Stored(k, i)' => Stored(k, i)
      BY <3>3 DEF Stored
    <3>5. \A i \in 1..Len(log[c]) : Stored(c, i) => i <= t
      <4> TAKE i \in 1..Len(log[c])
      <4> HAVE Stored(c, i)
      <4>1. i \in Nat /\ t \in Nat /\ pos[c] \in Nat
        BY LogLengths DEF TypeOK
      <4>2. i <= pos[c]
        BY <1>2, <4>1, StoredRead
      <4> QED
        BY <3>3, <4>1, <4>2
    <3>6. Recent(w) /\ DurableGen' = DurableGen
      BY <3>2, <3>3 DEF ReadsInv, DurableGen
    <3>7. \A k \in Cluster : Len(log[k]) \in Nat
      BY LogLengths
    <3> QED
      BY <3>2, <3>3, <3>4, <3>5, <3>6, <3>7 DEF Recent
  <2>2. CASE \E d \in Doc : ClaimDocTask(w, d)
    <3>1. \A c \in Cluster : worker'[w].at[c] = None
      <4>1. worker[w] \in ParkedState
        BY <2>2, WorkerKind DEF ClaimDocTask, TypeOK
      <4> QED
        BY <2>2, <4>1 DEF ClaimDocTask, TypeOK, ParkedState
    <3> QED
      BY <3>1 DEF Recent
  <2>3. CASE /\ ~\E c \in Cluster : \E t \in 0..Len(log[c]) : ReadDoc(w, c, t)
             /\ ~\E d \in Doc : ClaimDocTask(w, d)
    <3>1. LogGrows
      <4>1. CASE \E c \in Cluster, d \in Doc, v \in Val : Write(c, d, v)
        BY <4>1, WriteGrows
      <4>2. CASE ~\E c \in Cluster, d \in Doc, v \in Val : Write(c, d, v)
        <5>1. UNCHANGED log
          BY <4>2 DEF Next, Start, DriverStep, PersistGeneration, CloseGenerationDone, Finish,
             AwaitChangeHandling, NextGeneration, FinalGeneration, Advance, WritesOff, TellReader, Crash,
             ReaderStep, ReadBatch, CloseReader, PersistorStep, BeginBatch, InsertRecheck, EndBatch,
             PersistToken, vars, env, WorkerStep, ClaimCreator, ExitWorker, CompleteCreator, DropQueue,
             CompleteDocTask, BeginMismatchRecheck, InsertMismatchRecheck, FailDocTask, Record,
             ClaimDocTask, CreateDocTask, ReadDoc
        <5> QED
          BY <5>1, SameLogs
      <4> QED
        BY <4>1, <4>2
    <3>2. ~Start /\ ~Crash /\ ~PersistGeneration
      BY <1>2, AllStop DEF Start
    <3>3. DurableGen' = DurableGen
      BY <3>2 DEF Next, DriverStep, CloseGenerationDone, Finish, AwaitChangeHandling, NextGeneration,
          FinalGeneration, Advance, WritesOff, TellReader, ReaderStep, ReadBatch, CloseReader,
          PersistorStep, BeginBatch, InsertRecheck, EndBatch, PersistToken, Write, vars, durable,
          WorkerStep, ClaimCreator, ExitWorker, CompleteCreator, DropQueue, CompleteDocTask,
          BeginMismatchRecheck, InsertMismatchRecheck, FailDocTask, Record, ClaimDocTask, CreateDocTask,
          ReadDoc, DurableGen
    <3>4. Comparing(w) /\ worker'[w].doc = worker[w].doc /\ worker'[w].at = worker[w].at
      <4>1. CASE UNCHANGED worker
        BY <4>1 DEF Comparing
      <4>2. ASSUME NEW v \in Worker, WorkerStep(v)
            PROVE  Comparing(w) /\ worker'[w].doc = worker[w].doc /\ worker'[w].at = worker[w].at
        <5>1. CASE v # w
          <6>1. worker'[w] = worker[w]
            <7>1. ASSUME NEW c \in Cluster, NEW t \in 0..Len(log[c]), ReadDoc(v, c, t)
                  PROVE  worker'[w] = worker[w]
              BY <5>1, <7>1, ReadDocFields
            <7>2. CASE ~\E c \in Cluster : \E t \in 0..Len(log[c]) : ReadDoc(v, c, t)
              BY <4>2, <5>1, <7>2
                 DEF WorkerStep, ClaimCreator, ExitWorker, CompleteCreator, DropQueue,
                 CompleteDocTask, BeginMismatchRecheck, InsertMismatchRecheck, FailDocTask, Record,
                 ClaimDocTask, CreateDocTask, TypeOK
            <7> QED
              BY <7>1, <7>2
          <6> QED
            BY <6>1 DEF Comparing
        <5>2. CASE v = w
          <6>1. BeginMismatchRecheck(w) \/ InsertMismatchRecheck(w) \/ UNCHANGED worker
            <7>1. ~ClaimCreator(w)
              <8>1. ClaimCreator(w) => worker'[w] = [worker[w] EXCEPT !.pc = "create"]
                BY DEF ClaimCreator, TypeOK
              <8>2. worker[w] \in WorkerState
                BY DEF TypeOK
              <8>3. [worker[w] EXCEPT !.pc = "create"].pc = "create"
                BY <8>2, WorkerFields
              <8> QED
                BY <8>1, <8>3 DEF Comparing
            <7>2. ~CompleteCreator(w)
              <8>1. CompleteCreator(w) =>
                        worker'[w] \in {Idle, [worker[w] EXCEPT !.pc = "drop"]}
                BY DEF CompleteCreator, TypeOK
              <8>2. worker[w] \in WorkerState
                BY DEF TypeOK
              <8>3. [worker[w] EXCEPT !.pc = "drop"].pc = "drop" /\ Idle.pc = "idle"
                BY <8>2, WorkerFields DEF Idle
              <8> QED
                BY <8>1, <8>3 DEF Comparing
            <7>3. ~ExitWorker(w) /\ ~DropQueue(w) /\ ~CompleteDocTask(w) /\ ~FailDocTask(w)
              BY DEF ExitWorker, DropQueue, CompleteDocTask, FailDocTask, Record, Idle, Exited, TypeOK,
                 Comparing
            <7>4. \A d \in Doc : CreateDocTask(w, d) => UNCHANGED worker
              BY DEF CreateDocTask
            <7> QED
              BY <2>3, <4>2, <5>2, <7>1, <7>2, <7>3, <7>4 DEF WorkerStep
          <6>2. CASE BeginMismatchRecheck(w)
            <7>1. worker[w] \in ComparingState
              BY <6>2, WorkerKind DEF BeginMismatchRecheck, TypeOK
            <7> QED
              BY <6>2, <7>1 DEF BeginMismatchRecheck, ComparingState, TypeOK, Comparing
          <6>3. CASE InsertMismatchRecheck(w)
            <7>1. worker[w] \in FailingState
              BY <6>3, WorkerKind DEF InsertMismatchRecheck, TypeOK
            <7> QED
              BY <6>3, <7>1 DEF InsertMismatchRecheck, FailingState, TypeOK, Comparing
          <6> QED
            BY <4>1, <6>1, <6>2, <6>3
        <5> QED
          BY <5>1, <5>2
      <4> QED
        BY <3>2, <4>1, <4>2, OthersLeaveWorkers
    <3> QED
      BY <2>0, <3>1, <3>3, <3>4, ReadsFrame
  <2> QED
    BY <2>1, <2>2, <2>3
<1> QED
    BY <1>1, <1>2

-----------------------------------------------------------------------------
(* The content of a document at a timestamp. *)

WritesTo(c, d, t) == {i \in 1..t : log[c][i].doc = d}

Latest(S) == CHOOSE i \in S : \A j \in S : j <= i

LEMMA ContentAtLatest ==
    \A c, d, t : ContentAt(c, d, t) = IF WritesTo(c, d, t) = {} THEN Absent
                                      ELSE log[c][Latest(WritesTo(c, d, t))].val
BY DEF ContentAt, WritesTo, Latest

LEMMA LatestOf ==
    ASSUME NEW n \in Nat, NEW S \in SUBSET (1..n), S # {}
    PROVE  Latest(S) \in S /\ \A j \in S : j <= Latest(S)
<1> DEFINE R == {p \in Nat \X Nat : p[1] < p[2]}
           T == {n - j : j \in S}
<1>1. IsWellFoundedOn(R, Nat)
    BY NatLessThanWellFounded DEF OpToRel
<1>2. T \subseteq Nat /\ T # {}
  <2>1. \A j \in S : n - j \in Nat
    OBVIOUS
  <2> QED
    BY <2>1
<1>3. PICK x \in T : \A y \in T : ~(<<y, x>> \in R)
    BY <1>1, <1>2, WFMin
<1>4. PICK i \in S : x = n - i
    BY <1>3
<1>5. ASSUME NEW j \in S PROVE j <= i
  <2>1. n - j \in T /\ n - j \in Nat /\ n - i \in Nat
    OBVIOUS
  <2>2. ~(n - j < n - i)
    BY <1>3, <1>4, <2>1
  <2> QED
    BY <2>1, <2>2
<1> HIDE DEF R, T
<1> QED
    BY <1>5 DEF Latest

(* What a cluster held at a timestamp does not change. *)
LEMMA ContentStays ==
    ASSUME TypeOK, LogGrows, NEW c \in Cluster, NEW d \in Doc, NEW t \in Nat, t <= Len(log[c])
    PROVE  ContentAt(c, d, t)' = ContentAt(c, d, t)
<1>1. \A i \in 1..t : i \in 1..Len(log[c]) /\ log'[c][i] = log[c][i]
    BY LogLengths DEF LogGrows
<1>2. WritesTo(c, d, t)' = WritesTo(c, d, t)
    BY <1>1 DEF WritesTo
<1> DEFINE S == WritesTo(c, d, t)
<1>3. S \in SUBSET (1..t)
    BY DEF WritesTo
<1>4. S # {} => Latest(S) \in 1..t
    BY <1>3, LatestOf
<1>5. ContentAt(c, d, t) = IF S = {} THEN Absent ELSE log[c][Latest(S)].val
    BY ContentAtLatest
<1>6. ContentAt(c, d, t)' = IF S = {} THEN Absent ELSE log'[c][Latest(S)].val
  <2>1. ContentAt(c, d, t)' = IF WritesTo(c, d, t)' = {} THEN Absent
                              ELSE log'[c][Latest(WritesTo(c, d, t)')].val
    BY DEF ContentAt, WritesTo, Latest
  <2> QED
    BY <1>2, <2>1
<1> HIDE DEF S
<1> QED
    BY <1>1, <1>4, <1>5, <1>6

(* A timestamp after the last write to a document shows what it is now. *)
LEMMA ContentNow ==
    ASSUME TypeOK, NEW c \in Cluster, NEW d \in Doc, NEW t \in Nat, t <= Len(log[c]),
           \A i \in 1..Len(log[c]) : log[c][i].doc = d => i <= t
    PROVE  ContentAt(c, d, t) = Content(c, d)
<1>1. WritesTo(c, d, t) = WritesTo(c, d, Len(log[c]))
    BY LogLengths DEF WritesTo
<1> QED
    BY <1>1, ContentAtLatest DEF Content

-----------------------------------------------------------------------------
(* Every change that is stored is compared, or waits for it. *)

LEMMA InitCover == Init => CoverInv
BY BoundsAssumption DEF Init, CoverInv, Gen

(* A step that does not record the comparison of d. *)
LEMMA CoverFrame ==
    ASSUME TypeOK, LockInv, PositionInv, CoverInv, [Next]_vars, creator[0] # "none", LogGrows,
           NEW d \in Doc,
           \A c \in Cluster : compared'[c][d] >= compared[c][d],
           Waiting(d) => Waiting(d)',
           Condemned(d) => Condemned(d)' \/ cutShort',
           cutShort => cutShort'
    PROVE  Waiting(d)' \/ Settled(d)'
<1> SUFFICES ASSUME Settled(d), ~Waiting(d)' PROVE Settled(d)'
    BY DEF CoverInv
<1>1. \A c \in Cluster : \A i \in 1..Len(log'[c]) : log'[c][i].doc = d /\ Stored(c, i)' =>
          i \in 1..Len(log[c]) /\ log[c][i].doc = d /\ Stored(c, i)
    BY StepStored DEF StoresNext, Waiting, LogGrows
<1>2. \A c \in Cluster : Len(log[c]) \in Nat /\ Len(log'[c]) \in Nat /\ Len(log[c]) <= Len(log'[c])
    BY LogLengths, StepType DEF LogGrows
<1>3. \A c \in Cluster : compared[c][d] \in Nat /\ compared'[c][d] \in Nat
  <2>1. TypeOK'
    BY StepType
  <2> QED
    BY <2>1 DEF TypeOK
<1>4. \A c \in Cluster : \A i \in 1..Len(log'[c]) : log'[c][i].doc = d /\ Stored(c, i)' => compared'[c][d] >= i
  <2> SUFFICES ASSUME NEW c \in Cluster, NEW i \in 1..Len(log'[c]), log'[c][i].doc = d, Stored(c, i)'
               PROVE  compared'[c][d] >= i
    OBVIOUS
  <2>1. compared[c][d] >= i
    BY <1>1 DEF Settled
  <2>2. compared'[c][d] >= compared[c][d] /\ i \in Nat
    BY <1>2
  <2> QED
    BY <1>3, <2>1, <2>2
<1>5. Agreed(d) => Agreed(d)'
  <2> SUFFICES ASSUME Agreed(d) PROVE Agreed(d)'
    OBVIOUS
  <2>1. PICK at \in [Cluster -> Nat] :
            /\ \A c \in Cluster : at[c] <= Len(log[c])
            /\ \A c \in Cluster : \A i \in 1..Len(log[c]) :
                  log[c][i].doc = d /\ Stored(c, i) => i <= at[c]
            /\ ContentAt("src", d, at["src"]) = ContentAt("dst", d, at["dst"])
    BY DEF Agreed
  <2>2. \A c \in Cluster : at[c] <= Len(log'[c])
    BY <1>2, <2>1
  <2>3. \A c \in Cluster : ContentAt(c, d, at[c])' = ContentAt(c, d, at[c])
    BY <2>1, ContentStays
  <2>4. ContentAt("src", d, at["src"])' = ContentAt("dst", d, at["dst"])'
    BY <2>1, <2>3 DEF Cluster
  <2>5. \A c \in Cluster : \A i \in 1..Len(log'[c]) : log'[c][i].doc = d /\ Stored(c, i)' => i <= at[c]
    BY <1>1, <2>1
  <2> QED
    BY <2>2, <2>4, <2>5 DEF Agreed
<1> QED
    BY <1>4, <1>5 DEF Settled

LEMMA StepCover ==
    TypeOK /\ LockInv /\ CreatorInv /\ FailureInv /\ LedgerInv /\ PositionInv /\ TasksInv /\ ReadsInv
        /\ CoverInv /\ [Next]_vars => CoverInv'
<1> SUFFICES ASSUME TypeOK, LockInv, CreatorInv, FailureInv, LedgerInv, PositionInv, TasksInv, ReadsInv,
                    CoverInv, [Next]_vars, creator'[0] # "none", NEW d \in Doc
             PROVE  Waiting(d)' \/ Settled(d)'
    BY DEF CoverInv
<1> USE BoundsAssumption, ContentAssumption
<1>0. /\ DurableGen \in Gen /\ DurableGen + 1 \in QueueGen /\ DurableGen # DurableGen + 1
      /\ generation \in Gen
      /\ pc \notin {"down", "persist"} => generation = DurableGen
      /\ \A w \in Worker : worker[w].pc # "exited" => pc = "check"
    BY RunningGeneration DEF LockInv, TypeOK, DurableGen, Gen, QueueGen
<1>a. \A c \in Cluster : compared[c][d] >= compared[c][d]
    BY DEF TypeOK
<1>1. ASSUME creator[0] # "none", LogGrows,
             UNCHANGED <<persistedGen, creator, docTask, queue, compared, cutShort, lastGeneration>>,
             pc' = "persist" => pc = "persist"
      PROVE  Waiting(d)' \/ Settled(d)'
  <2>1. Waiting(d)' <=> Waiting(d)
    BY <1>1 DEF Waiting, DurableGen, ToCreate
  <2>2. Condemned(d) => Condemned(d)'
    BY <1>1 DEF Condemned, DurableGen
  <2> QED
    BY <1>1, <1>a, <2>1, <2>2, CoverFrame
\* The first start creates the first task, for all documents.
<1>2. CASE Start /\ creator[0] = "none"
  <2>1. /\ DurableGen = 0 /\ DurableGen' = 0 /\ docTask' = ResetDocTask /\ creator'[0] = "added"
    <3>1. DurableGen = 0
      BY <1>0, <1>2 DEF LedgerInv, Gen
    <3> QED
      BY <1>2, <3>1 DEF Start, DurableGen, Gen, ResetCreator
  <2>2. docTask'[0][d] = "none"
    BY <1>2, <2>1 DEF TasksInv, ResetDocTask, ResetStatus, Gen
  <2> QED
    BY <2>1, <2>2 DEF Waiting, ToCreate
\* Any other resets what was in progress.
<1>3. CASE Start /\ creator[0] # "none"
  <2>1. /\ pc = "down" /\ UNCHANGED <<log, persistedGen, queue, compared, cutShort>>
        /\ creator' = ResetCreator /\ docTask' = ResetDocTask
    BY <1>3 DEF Start, env, history
  <2>2. DurableGen' = DurableGen /\ ToCreate(DurableGen)' = ToCreate(DurableGen) /\ LogGrows
    BY <2>1, SameLogs DEF DurableGen, ToCreate
  <2>3. /\ creator'[DurableGen] = ResetStatus(creator[DurableGen])
        /\ docTask'[DurableGen][d] = IF creator[DurableGen] = "processing" THEN "none"
                                     ELSE ResetStatus(docTask[DurableGen][d])
    BY <1>0, <2>1 DEF ResetCreator, ResetDocTask
  <2>4. Waiting(d) => Waiting(d)'
    BY <1>0, <2>1, <2>2, <2>3 DEF Waiting, TasksInv, ResetStatus
  <2>5. ~Condemned(d)
    BY <2>1 DEF Condemned, FailureInv
  <2> QED
    BY <1>3, <1>a, <2>1, <2>2, <2>4, <2>5, CoverFrame
\* The queue of the next generation becomes tasks that wait.
<1>4. CASE PersistGeneration
  <2>1. /\ pc = "persist" /\ persistedGen' = generation
        /\ UNCHANGED <<log, creator, docTask, queue, compared, cutShort>>
    BY <1>4 DEF PersistGeneration, env, history
  <2>2. creator[0] # "none" /\ LogGrows /\ ~Condemned(d) /\ DurableGen' = generation
    BY <1>0, <2>1, SameLogs DEF LedgerInv, Condemned, DurableGen, Gen
  <2>3. Waiting(d) => Waiting(d)'
    <3>1. CASE generation = DurableGen
      BY <2>1, <2>2, <3>1 DEF Waiting, ToCreate
    <3>2. CASE generation # DurableGen
      <4>1. PICK n, m : n = DurableGen /\ m = generation
        OBVIOUS
      <4>2. /\ m = n + 1 /\ TasksOver(n) /\ (queue[m] # {} => creator[m] = "added")
        BY <2>1, <3>2, <4>1 DEF LedgerInv
      <4>3. m > n /\ m # 0 /\ m \in Gen
        BY <1>0, <4>1, <4>2 DEF Gen
      <4>4. docTask[m][d] = "none"
        BY <4>1, <4>3 DEF FailureInv
      <4>5. Waiting(d) => d \in queue[m]
        BY <4>1, <4>2 DEF Waiting, TasksOver
      <4>6. d \in queue[m] => Waiting(d)'
        BY <2>1, <2>2, <4>1, <4>2, <4>3, <4>4 DEF Waiting, ToCreate
      <4> QED
        BY <4>5, <4>6
    <3> QED
      BY <3>1, <3>2
  <2> QED
    BY <1>a, <2>1, <2>2, <2>3, CoverFrame
<1>5. CASE NextGeneration \/ FinalGeneration
  <2>1. /\ pc \in {"check", "await"} /\ UNCHANGED <<log, persistedGen, docTask, queue, compared, cutShort>>
        /\ generation < MaxGen /\ ~lastGeneration
        /\ creator' = IF queue[generation + 1] = {} THEN creator
                      ELSE [creator EXCEPT ![generation + 1] =
                                IF @ \in {"none", "processing"} THEN "added" ELSE @]
    BY <1>5 DEF NextGeneration, FinalGeneration, Advance, FailureInv, env, history
  <2>2. generation = DurableGen /\ generation # generation + 1 /\ 0 # generation + 1
    BY <1>0, <2>1 DEF Gen
  <2>3. creator'[DurableGen] = creator[DurableGen] /\ creator[0] # "none"
    BY <2>1, <2>2 DEF TypeOK, LedgerInv
  <2>4. DurableGen' = DurableGen /\ ToCreate(DurableGen)' = ToCreate(DurableGen) /\ LogGrows
    BY <2>1, SameLogs DEF DurableGen, ToCreate
  <2>5. Waiting(d) => Waiting(d)'
    BY <2>1, <2>3, <2>4 DEF Waiting
  <2> QED
    BY <1>a, <2>1, <2>3, <2>4, <2>5, CoverFrame DEF Condemned
<1>6. ASSUME NEW w \in Worker, ClaimCreator(w) \/ CompleteCreator(w) PROVE Waiting(d)' \/ Settled(d)'
  <2>1. /\ pc = "check" /\ UNCHANGED <<log, persistedGen, docTask, queue, compared, cutShort, lastGeneration, pc>>
        /\ \/ creator' = [creator EXCEPT ![generation] = "processing"]
           \/ /\ creator' = [creator EXCEPT ![generation] = "completed"]
              /\ \A e \in ToCreate(generation) : docTask[generation][e] # "none"
        /\ creator[generation] \in {"added", "processing"}
    BY <1>0, <1>6 DEF ClaimCreator, CompleteCreator, LedgerInv, env, driver, history
  <2>2. /\ DurableGen' = DurableGen /\ generation = DurableGen /\ creator[0] # "none"
        /\ ToCreate(DurableGen)' = ToCreate(DurableGen) /\ LogGrows
    BY <1>0, <2>1, SameLogs DEF DurableGen, ToCreate, LedgerInv
  <2>3. \/ creator'[DurableGen] = "processing"
        \/ \A e \in ToCreate(DurableGen) : docTask[DurableGen][e] # "none"
    BY <1>0, <2>1, <2>2 DEF TypeOK
  <2>4. Waiting(d) => Waiting(d)'
    BY <2>1, <2>2, <2>3 DEF Waiting
  <2>5. Condemned(d) => Condemned(d)'
    BY <2>1, <2>2 DEF Condemned
  <2> QED
    BY <1>a, <2>1, <2>2, <2>4, <2>5, CoverFrame
<1>7. ASSUME NEW w \in Worker, NEW e \in Doc, ClaimDocTask(w, e) \/ CreateDocTask(w, e)
      PROVE  Waiting(d)' \/ Settled(d)'
  <2>1. /\ pc = "check" /\ docTask[generation][e] \in {"added", "none"}
        /\ \E s \in {"added", "processing"} : docTask' = [docTask EXCEPT ![generation][e] = s]
        /\ UNCHANGED <<log, persistedGen, creator, queue, compared, cutShort, lastGeneration, pc>>
    BY <1>0, <1>7 DEF ClaimDocTask, CreateDocTask, env, driver, history
  <2>2. /\ DurableGen' = DurableGen /\ generation = DurableGen /\ creator[0] # "none"
        /\ ToCreate(DurableGen)' = ToCreate(DurableGen) /\ LogGrows
    BY <1>0, <2>1, SameLogs DEF DurableGen, ToCreate, LedgerInv
  <2>3. \/ docTask'[DurableGen][d] = docTask[DurableGen][d]
        \/ /\ docTask[DurableGen][d] \in {"added", "none"}
           /\ docTask'[DurableGen][d] \in {"added", "processing"}
    BY <1>0, <2>1, <2>2 DEF TypeOK
  <2>4. Waiting(d) => Waiting(d)'
    BY <2>1, <2>2, <2>3 DEF Waiting
  <2>5. Condemned(d) => Condemned(d)'
    BY <2>1, <2>2, <2>3 DEF Condemned
  <2> QED
    BY <1>a, <2>1, <2>2, <2>4, <2>5, CoverFrame
<1>8. ASSUME NEW w \in Worker, DropQueue(w) PROVE Waiting(d)' \/ Settled(d)'
  <2>1. /\ pc = "check" /\ worker[w].pc = "drop" /\ queue' = [queue EXCEPT ![generation] = {}]
        /\ UNCHANGED <<log, persistedGen, creator, docTask, compared, cutShort, lastGeneration, pc>>
    BY <1>0, <1>8 DEF DropQueue, env, driver, history
  <2>2. /\ DurableGen' = DurableGen /\ generation = DurableGen /\ creator[0] # "none"
        /\ creator[DurableGen] = "completed" /\ LogGrows
    BY <1>0, <2>1, SameLogs DEF DurableGen, LedgerInv, TasksInv
  <2>3. queue'[DurableGen + 1] = queue[DurableGen + 1]
    BY <1>0, <2>1, <2>2 DEF TypeOK
  <2>4. Waiting(d) => Waiting(d)'
    BY <2>1, <2>2, <2>3 DEF Waiting
  <2>5. Condemned(d) => Condemned(d)'
    BY <2>1, <2>2 DEF Condemned
  <2> QED
    BY <1>a, <2>1, <2>2, <2>4, <2>5, CoverFrame
\* What has read a document late enough settles it, unless a later change waits.
<1>9. ASSUME NEW w \in Worker, Comparing(w), ReadBoth(w), NEW status \in {"completed", "failed"},
             Record(w, status),
             \/ status = "completed" /\ Match(w)
             \/ status = "failed" /\ (worker[w].doc \in queue[generation + 1] \/ lastGeneration)
      PROVE  Waiting(d)' \/ Settled(d)'
  <2>1. /\ pc = "check"
        /\ docTask' = [docTask EXCEPT ![generation][worker[w].doc] = status]
        /\ compared' = [c \in Cluster |-> [compared[c] EXCEPT ![worker[w].doc] =
                            IF @ < worker[w].at[c] THEN worker[w].at[c] ELSE @]]
        /\ UNCHANGED <<log, persistedGen, creator, queue, cutShort, lastGeneration, pc, token, handled, batch>>
    BY <1>0, <1>9 DEF Record, Comparing, env, driver, persists
  <2>2. /\ DurableGen' = DurableGen /\ generation = DurableGen /\ creator[0] # "none"
        /\ ToCreate(DurableGen)' = ToCreate(DurableGen) /\ LogGrows
    BY <1>0, <2>1, SameLogs DEF DurableGen, ToCreate, LedgerInv
  <2>3. /\ worker[w].doc \in Doc
        /\ \A c \in Cluster : worker[w].at[c] \in Nat
        /\ \A c \in Cluster : compared[c] \in [Doc -> Nat]
    BY <1>9, WorkerKind DEF Comparing, ReadBoth, TypeOK, ComparingState, FailingState
  <2>4. \A c \in Cluster : /\ compared'[c][d] >= compared[c][d]
                           /\ d = worker[w].doc => compared'[c][d] >= worker[w].at[c]
                           /\ compared'[c][d] \in Nat
    BY <2>1, <2>3
  <2>5. CASE d # worker[w].doc
    <3>1. docTask'[DurableGen][d] = docTask[DurableGen][d]
      BY <1>0, <2>1, <2>2, <2>5 DEF TypeOK
    <3>2. Waiting(d) => Waiting(d)'
      BY <2>1, <2>2, <3>1 DEF Waiting
    <3>3. Condemned(d) => Condemned(d)'
      BY <2>1, <2>2, <3>1 DEF Condemned
    <3> QED
      BY <2>1, <2>2, <2>4, <3>2, <3>3, CoverFrame
  <2>6. CASE d = worker[w].doc /\ d \in queue[DurableGen + 1]
    BY <2>1, <2>2, <2>6 DEF Waiting
  <2>7. CASE d = worker[w].doc /\ d \notin queue[DurableGen + 1]
    <3>1. Recent(w)
      BY <1>9 DEF ReadsInv, Comparing
    <3>2. \A c \in Cluster : worker[w].at[c] # None /\ worker[w].at[c] <= Len(log[c])
      BY <1>9, <3>1 DEF ReadBoth, Recent
    <3>3. \A c \in Cluster : \A i \in 1..Len(log[c]) :
              log[c][i].doc = d /\ Stored(c, i) => i <= worker[w].at[c]
      BY <2>7, <3>1, <3>2 DEF Recent
    <3>4. \A c \in Cluster : \A i \in 1..Len(log[c]) : Stored(c, i)' <=> Stored(c, i)
      BY <2>1 DEF Stored
    <3>5. \A c \in Cluster : \A i \in 1..Len(log'[c]) :
              log'[c][i].doc = d /\ Stored(c, i)' => compared'[c][d] >= i
      <4> SUFFICES ASSUME NEW c \in Cluster, NEW i \in 1..Len(log[c]), log[c][i].doc = d, Stored(c, i)
                   PROVE  compared'[c][d] >= i
        BY <2>1, <3>4
      <4>1. i <= worker[w].at[c] /\ i \in Nat
        BY <3>3, LogLengths
      <4> QED
        BY <2>3, <2>4, <2>7, <4>1
    <3>6. CASE status = "completed" /\ Match(w)
      <4>1. PICK at \in [Cluster -> Nat] : \A c \in Cluster : at[c] = worker[w].at[c]
        <5>1. [c \in Cluster |-> worker[w].at[c]] \in [Cluster -> Nat]
          BY <2>3
        <5> QED
          BY <5>1
      <4>2. ContentAt("src", d, at["src"]) = ContentAt("dst", d, at["dst"])
        BY <2>7, <3>6, <4>1 DEF Match, Cluster
      <4>3. ContentAt("src", d, at["src"])' = ContentAt("dst", d, at["dst"])'
        BY <2>1, <4>2 DEF ContentAt
      <4>4. Agreed(d)'
        BY <2>1, <3>2, <3>3, <3>4, <4>1, <4>3 DEF Agreed
      <4> QED
        BY <3>5, <4>4 DEF Settled
    <3>7. CASE status = "failed" /\ lastGeneration
      <4>1. docTask'[DurableGen'][d] = "failed"
        BY <1>0, <2>1, <2>2, <2>7, <3>7 DEF TypeOK
      <4>2. Condemned(d)'
        BY <2>1, <3>7, <4>1 DEF Condemned
      <4> QED
        BY <3>5, <4>2 DEF Settled
    <3> QED
      BY <1>9, <2>2, <2>7, <3>6, <3>7
  <2> QED
    BY <2>5, <2>6, <2>7
<1>10. ASSUME creator[0] # "none", LogGrows, generation = DurableGen,
              \A g \in QueueGen : g # generation + 1 => queue'[g] = queue[g],
              queue[generation + 1] \subseteq queue'[generation + 1],
              UNCHANGED <<persistedGen, creator, docTask, compared, cutShort, lastGeneration, pc>>
       PROVE  Waiting(d)' \/ Settled(d)'
  <2>1. DurableGen' = DurableGen
    BY <1>10 DEF DurableGen
  <2>2. DurableGen # 0 => DurableGen \in QueueGen
    BY <1>0 DEF Gen, QueueGen
  <2>3. ToCreate(DurableGen)' = ToCreate(DurableGen)
    BY <1>0, <1>10, <2>1, <2>2 DEF ToCreate
  <2>4. Waiting(d) => Waiting(d)'
    BY <1>10, <2>1, <2>3 DEF Waiting
  <2>5. Condemned(d) => Condemned(d)'
    BY <1>10, <2>1 DEF Condemned
  <2> QED
    BY <1>10, <1>a, <2>4, <2>5, CoverFrame
<1>11. ASSUME NEW w \in Worker, InsertMismatchRecheck(w) PROVE Waiting(d)' \/ Settled(d)'
  <2>1. /\ worker[w].target = generation + 1 /\ pc = "check"
        /\ queue' = [queue EXCEPT ![generation + 1] = @ \cup {worker[w].doc}]
        /\ UNCHANGED <<log, persistedGen, creator, docTask, compared, cutShort, lastGeneration, pc>>
    BY <1>0, <1>11 DEF InsertMismatchRecheck, LockInv, env, driver, history
  <2>2. generation = DurableGen /\ creator[0] # "none" /\ LogGrows
    BY <1>0, <2>1, SameLogs DEF LedgerInv
  <2>3. /\ \A g \in QueueGen : g # generation + 1 => queue'[g] = queue[g]
        /\ queue[generation + 1] \subseteq queue'[generation + 1]
    BY <1>0, <2>1, <2>2 DEF TypeOK
  <2> QED
    BY <1>10, <2>1, <2>2, <2>3
<1>12. ASSUME NEW c \in Cluster, NEW e \in Doc, InsertRecheck(c, e) PROVE Waiting(d)' \/ Settled(d)'
  <2>1. /\ batch[c].target = generation + 1 /\ pc \notin {"down", "persist"}
        /\ queue' = [queue EXCEPT ![generation + 1] = @ \cup {e}]
        /\ UNCHANGED <<log, persistedGen, creator, docTask, compared, cutShort, lastGeneration, pc>>
    BY <1>12 DEF InsertRecheck, LockInv, env, driver, history
  <2>2. generation = DurableGen /\ creator[0] # "none" /\ LogGrows
    BY <1>0, <2>1, SameLogs DEF LedgerInv
  <2>3. /\ \A g \in QueueGen : g # generation + 1 => queue'[g] = queue[g]
        /\ queue[generation + 1] \subseteq queue'[generation + 1]
    BY <1>0, <2>1, <2>2 DEF TypeOK
  <2> QED
    BY <1>10, <2>1, <2>2, <2>3
<1>13. ASSUME NEW w \in Worker, WorkerStep(w) PROVE Waiting(d)' \/ Settled(d)'
  <2>1. CASE CompleteDocTask(w)
    BY <1>9, <2>1 DEF CompleteDocTask, Comparing
  <2>2. CASE FailDocTask(w)
    <3>1. Comparing(w) /\ ReadBoth(w)
      <4>1. worker[w].pc = "fail" => ReadBoth(w)
        BY WorkerKind DEF TypeOK, FailingState, ReadBoth
      <4> QED
        BY <2>2, <4>1 DEF FailDocTask, Comparing
    <3>2. worker[w].doc \in queue[generation + 1] \/ lastGeneration
      BY <2>2 DEF FailDocTask, FailureInv
    <3> QED
      BY <1>9, <2>2, <3>1, <3>2 DEF FailDocTask
  <2>3. CASE ExitWorker(w) \/ BeginMismatchRecheck(w) \/ \E c \in Cluster : \E t \in 0..Len(log[c]) : ReadDoc(w, c, t)
    <3>1. /\ UNCHANGED <<log, persistedGen, creator, docTask, queue, compared, cutShort, lastGeneration, pc>>
          /\ worker[w].pc # "exited"
      BY <2>3 DEF ExitWorker, BeginMismatchRecheck, ReadDoc, env, durable, driver, history
    <3>2. creator[0] # "none" /\ LogGrows
      BY <1>0, <3>1, SameLogs DEF LedgerInv
    <3> QED
      BY <1>1, <3>1, <3>2
  <2> QED
    BY <1>6, <1>7, <1>8, <1>11, <1>13, <2>1, <2>2, <2>3 DEF WorkerStep
<1>14. ASSUME NEW c \in Cluster, ReaderStep(c) \/ PersistorStep(c) \/ PersistToken(c)
       PROVE  Waiting(d)' \/ Settled(d)'
  <2>1. \/ UNCHANGED <<log, persistedGen, creator, docTask, queue, compared, cutShort, lastGeneration, pc>>
        \/ \E e \in Doc : InsertRecheck(c, e)
    BY <1>14 DEF ReaderStep, ReadBatch, CloseReader, PersistorStep, BeginBatch, EndBatch,
                 PersistToken, env, durable, driver, history
  <2> QED
    BY <1>1, <1>12, <2>1, SameLogs
<1>15. ASSUME NEW c \in Cluster, NEW e \in Doc, NEW v \in Val, Write(c, e, v)
       PROVE  Waiting(d)' \/ Settled(d)'
    BY <1>1, <1>15, WriteGrows DEF Write, durable, driver, history
<1>16. CASE \/ CloseGenerationDone \/ Finish \/ AwaitChangeHandling
            \/ WritesOff \/ TellReader \/ UNCHANGED vars
  <2>1. /\ UNCHANGED <<log, persistedGen, creator, docTask, queue, compared, cutShort, lastGeneration>>
        /\ pc' = "persist" => pc = "persist"
    BY <1>16 DEF CloseGenerationDone, Finish, AwaitChangeHandling, WritesOff, TellReader,
                 vars, env, durable, driver, history
  <2> QED
    BY <1>1, <2>1, SameLogs
<1>17. CASE Crash
  <2>1. /\ pc # "down" /\ UNCHANGED <<log, persistedGen, creator, docTask, queue, compared>>
        /\ cutShort' = (cutShort \/ (lastGeneration /\ \E e \in Doc : docTask[generation][e] = "failed"))
    BY <1>17 DEF Crash, env, durable
  <2>2. Waiting(d)' <=> Waiting(d)
    BY <2>1 DEF Waiting, DurableGen, ToCreate
  <2>3. Condemned(d) => cutShort'
    BY <1>0, <2>1 DEF Condemned
  <2>4. cutShort => cutShort'
    BY <2>1
  <2> QED
    BY <1>a, <2>1, <2>2, <2>3, <2>4, CoverFrame, SameLogs
<1> QED
    BY <1>2, <1>3, <1>4, <1>5, <1>13, <1>14, <1>15, <1>16, <1>17 DEF Next, DriverStep

-----------------------------------------------------------------------------
(* The final generation. *)

LEMMA InitFinal == Init => FinalInv
BY DEF Init, FinalInv

(* A step that leaves the final generation as it is. *)
LEMMA FinalFrame ==
    ASSUME FinalInv,
           UNCHANGED <<log, handled, batch, pc, generation, persistedGen, lastGeneration>>,
           UNCHANGED <<queue, docTask, creator, worker>>,
           writesOff # "none" => writesOff' # "none"
    PROVE  FinalInv'
<1>1. \A c \in Cluster, d \in Doc : Content(c, d)' = Content(c, d)
    BY DEF Content, ContentAt
<1>2. DurableGen' = DurableGen /\ TasksOver(generation)' = TasksOver(generation)
    BY DEF DurableGen, TasksOver
<1>3. \A d \in Doc : Content("src", d)' = Content("src", d) /\ Content("dst", d)' = Content("dst", d)
    BY <1>1 DEF Cluster
<1> QED
    BY <1>2, <1>3 DEF FinalInv

(* A step of a worker in the final generation. *)
LEMMA FinalWorker ==
    ASSUME FinalInv, lastGeneration, pc = "check", NEW w \in Worker,
           UNCHANGED <<log, handled, batch, pc, generation, lastGeneration, writesOff>>,
           queue'[generation + 1] = queue[generation + 1],
           \A v \in Worker : v # w => worker'[v] = worker[v],
           worker'[w].pc \notin {"insert", "fail"},
           \A c \in Cluster : worker'[w].at[c] \in {None, Len(log[c])},
           \A d \in Doc : docTask'[generation][d] = "failed" =>
               docTask[generation][d] = "failed" \/ Content("src", d) # Content("dst", d)
    PROVE  FinalInv'
<1>1. \A c \in Cluster, d \in Doc : Content(c, d)' = Content(c, d)
    BY DEF Content, ContentAt
<1>2. \A d \in Doc : Content("src", d)' = Content("src", d) /\ Content("dst", d)' = Content("dst", d)
    BY <1>1 DEF Cluster
<1>3. \A v \in Worker :
          /\ worker'[v].pc \notin {"insert", "fail"}
          /\ \A c \in Cluster : worker'[v].at[c] \in {None, Len(log[c])}
    BY DEF FinalInv
<1> QED
    BY <1>2, <1>3 DEF FinalInv

LEMMA StepFinal ==
    TypeOK /\ LockInv /\ FailureInv /\ LedgerInv /\ PositionInv /\ FinalInv /\ [Next]_vars => FinalInv'
<1> SUFFICES ASSUME TypeOK, LockInv, FailureInv, LedgerInv, PositionInv, FinalInv, [Next]_vars
             PROVE  FinalInv'
    OBVIOUS
<1> USE BoundsAssumption, ContentAssumption
<1>0. /\ pc \notin {"down", "persist"} => generation = DurableGen
      /\ generation \in Gen /\ generation + 1 \in QueueGen /\ DurableGen \in Gen
      /\ \A w \in Worker : worker[w].pc # "exited" => pc = "check"
    BY RunningGeneration DEF LockInv, TypeOK, Gen, QueueGen, DurableGen
<1>1. ASSUME ~lastGeneration', pc' # "done" PROVE FinalInv'
    BY <1>1 DEF FinalInv
<1>2. ASSUME NEW c \in Cluster, NEW d \in Doc, NEW v \in Val, Write(c, d, v) PROVE FinalInv'
  <2>1. ~frozen /\ UNCHANGED <<lastGeneration, pc>>
    BY <1>2 DEF Write, driver
  <2>2. ~lastGeneration
    BY <1>2, <2>1 DEF FinalInv, PositionInv
  <2> QED
    BY <1>1, <2>1, <2>2 DEF FinalInv
<1>3. CASE Start
    BY <1>1, <1>3 DEF Start, FailureInv
\* The final generation begins with no task, and nothing is enqueued for the next.
<1>4. CASE PersistGeneration
  <2>1. /\ pc = "persist" /\ pc' = "check" /\ worker' = [w \in Worker |-> Idle]
        /\ UNCHANGED <<log, docTask, queue, generation, lastGeneration, writesOff, handled, batch>>
    BY <1>4 DEF PersistGeneration, env, request, persists
  <2>2. CASE ~lastGeneration
    BY <1>1, <2>1, <2>2
  <2>3. CASE lastGeneration
    <3>1. generation = DurableGen + 1
      BY <2>1, <2>3 DEF FinalInv, LedgerInv
    <3>2. generation > DurableGen /\ generation + 1 > DurableGen + 1
      BY <1>0, <3>1 DEF Gen
    <3>3. queue[generation + 1] = {} /\ \A d \in Doc : docTask[generation][d] = "none"
      BY <1>0, <3>2 DEF LedgerInv, FailureInv
    <3>4. \A w \in Worker : worker'[w].pc = "idle" /\ \A c \in Cluster : worker'[w].at[c] = None
      BY <2>1 DEF Idle
    <3> QED
      BY <2>1, <2>3, <3>3, <3>4 DEF FinalInv
  <2> QED
    BY <2>2, <2>3
<1>5. CASE CloseGenerationDone
    BY <1>5, FinalFrame DEF CloseGenerationDone, env, durable, request, persists
<1>6. CASE Finish
  <2>1. /\ pc = "check" /\ lastGeneration /\ genDone /\ pc' = "done"
        /\ UNCHANGED <<log, creator, docTask, queue, generation, lastGeneration, writesOff, worker, handled, batch>>
    BY <1>6 DEF Finish, CheckWorkerReturned, env, durable, request, persists
  <2>2. TasksOver(generation)'
    BY <1>0, <2>1 DEF LedgerInv, TasksOver
  <2>3. \A d \in Doc : Content("src", d)' = Content("src", d) /\ Content("dst", d)' = Content("dst", d)
    BY <2>1 DEF Content, ContentAt
  <2> QED
    BY <2>1, <2>2, <2>3 DEF FinalInv
<1>7. CASE AwaitChangeHandling \/ NextGeneration
    BY <1>1, <1>7 DEF AwaitChangeHandling, NextGeneration, Advance
\* It is chosen when both readers have closed and both persistors have caught up.
<1>8. CASE FinalGeneration
  <2>1. /\ pc = "await" /\ pc' = "persist" /\ generation' = generation + 1
        /\ \A c \in Cluster : readerDone[c] /\ handled[c] = pos[c] /\ batch[c] = None
        /\ UNCHANGED <<log, persistedGen, writesOff, worker, handled, batch>>
    BY <1>8 DEF FinalGeneration, Advance, ChangeHandlingDone, env, request, persists
  <2>2. \A c \in Cluster : writesOff # "none" /\ handled[c] = Len(log[c])
    BY <2>1 DEF PositionInv
  <2>3. generation' # DurableGen'
    <3>1. generation + 1 # generation
      BY <1>0 DEF Gen
    <3>2. DurableGen' = DurableGen
      BY <2>1 DEF DurableGen
    <3> QED
      BY <1>0, <2>1, <3>1, <3>2
  <2>4. \A w \in Worker : worker[w].pc = "exited" /\ \A c \in Cluster : worker[w].at[c] = None
    <3>1. \A w \in Worker : worker[w].pc = "exited" /\ worker[w] \in ParkedState
      BY <2>1, WorkerKind DEF LockInv, TypeOK
    <3> QED
      BY <3>1 DEF ParkedState
  <2>5. writesOff # "none"
    BY <2>2 DEF Cluster
  <2> QED
    BY <2>1, <2>2, <2>3, <2>4, <2>5 DEF FinalInv
<1>9. ASSUME NEW w \in Worker, WorkerStep(w) PROVE FinalInv'
  <2>1. /\ UNCHANGED <<log, handled, batch, pc, generation, lastGeneration, writesOff>>
        /\ pc = "check"
    <3>1. UNCHANGED <<log, handled, batch, pc, generation, lastGeneration, writesOff>>
      BY <1>9 DEF WorkerStep, ClaimCreator, ExitWorker, CompleteCreator, DropQueue, CompleteDocTask,
                  BeginMismatchRecheck, InsertMismatchRecheck, FailDocTask, Record, ClaimDocTask,
                  CreateDocTask, ReadDoc, env, driver, request, persists
    <3>2. worker[w].pc # "exited"
      BY <1>9 DEF WorkerStep, ClaimCreator, ExitWorker, CompleteCreator, DropQueue, CompleteDocTask,
                  BeginMismatchRecheck, InsertMismatchRecheck, FailDocTask, ClaimDocTask,
                  CreateDocTask, ReadDoc
    <3> QED
      BY <1>0, <3>1, <3>2
  <2>2. CASE ~lastGeneration
    BY <1>1, <2>1, <2>2
  <2> SUFFICES ASSUME lastGeneration PROVE FinalInv'
    BY <2>2
  <2>3. /\ worker[w].pc \notin {"insert", "fail"} /\ worker[w] \in WorkerState
        /\ \A c \in Cluster : worker[w].at[c] \in {None, Len(log[c])}
    BY DEF FinalInv, TypeOK
  <2>4. ASSUME queue'[generation + 1] = queue[generation + 1],
               worker' = [worker EXCEPT ![w] = Idle] \/ worker' = [worker EXCEPT ![w] = Exited],
               \A d \in Doc : docTask'[generation][d] = "failed" =>
                   docTask[generation][d] = "failed" \/ Content("src", d) # Content("dst", d)
        PROVE  FinalInv'
    <3>1. /\ \A v \in Worker : v # w => worker'[v] = worker[v]
          /\ worker'[w] \in {Idle, Exited}
      BY <2>4 DEF TypeOK
    <3>2. /\ worker'[w].pc \notin {"insert", "fail"}
          /\ \A c \in Cluster : worker'[w].at[c] = None
      BY <3>1 DEF Idle, Exited
    <3> QED
      BY <2>1, <2>4, <3>1, <3>2, FinalWorker
  <2>5. ASSUME NEW p \in {"create", "drop"}, worker[w].pc \in {"idle", "create"},
               worker' = [worker EXCEPT ![w].pc = p], UNCHANGED <<queue, docTask>>
        PROVE  FinalInv'
    <3>1. worker[w] \in ParkedState
      BY <2>3, <2>5, WorkerKind
    <3>2. /\ \A v \in Worker : v # w => worker'[v] = worker[v]
          /\ worker'[w].pc = p /\ worker'[w].at = worker[w].at
      BY <2>5, <3>1 DEF TypeOK, ParkedState
    <3> QED
      BY <2>1, <2>3, <2>5, <3>2, FinalWorker
  <2>6. CASE ClaimCreator(w)
    BY <2>5, <2>6 DEF ClaimCreator
  <2>7. CASE ExitWorker(w)
    BY <2>4, <2>7 DEF ExitWorker, durable
  <2>8. CASE CompleteCreator(w)
    <3>1. CASE generation = 0
      BY <2>4, <2>8, <3>1 DEF CompleteCreator
    <3>2. CASE generation # 0
      <4>1. worker' = [worker EXCEPT ![w].pc = "drop"]
        BY <2>8, <3>2 DEF CompleteCreator
      <4> QED
        BY <2>5, <2>8, <4>1 DEF CompleteCreator
    <3> QED
      BY <3>1, <3>2
  <2>9. CASE DropQueue(w)
    <3>1. /\ queue' = [queue EXCEPT ![generation] = {}] /\ UNCHANGED docTask
          /\ worker' = [worker EXCEPT ![w] = Idle]
      BY <2>9 DEF DropQueue
    <3>2. generation # generation + 1
      BY <1>0 DEF Gen
    <3>3. queue'[generation + 1] = queue[generation + 1]
      BY <1>0, <3>1, <3>2 DEF TypeOK
    <3> QED
      BY <2>4, <3>1, <3>3
  <2>10. CASE CompleteDocTask(w)
    <3>1. \A d \in Doc : docTask'[generation][d] = "failed" => docTask[generation][d] = "failed"
      BY <1>0, <2>10 DEF CompleteDocTask, Record, TypeOK
    <3> QED
      BY <2>4, <2>10, <3>1 DEF CompleteDocTask, Record
  \* Both sides were read at the ends of logs that are closed.
  <2>11. CASE FailDocTask(w)
    <3>1. ReadBoth(w) /\ ~Match(w) /\ Record(w, "failed")
      BY <2>3, <2>11 DEF FailDocTask
    <3>2. worker[w].at["src"] = Len(log["src"]) /\ worker[w].at["dst"] = Len(log["dst"])
      BY <2>3, <3>1 DEF ReadBoth, Cluster
    <3>3. Content("src", worker[w].doc) # Content("dst", worker[w].doc)
      BY <3>1, <3>2 DEF Match, Content
    <3>4. \A d \in Doc : docTask'[generation][d] = "failed" =>
              docTask[generation][d] = "failed" \/ d = worker[w].doc
      BY <1>0, <3>1 DEF Record, TypeOK
    <3> QED
      BY <2>4, <3>1, <3>3, <3>4 DEF Record
  <2>12. ~BeginMismatchRecheck(w) /\ ~InsertMismatchRecheck(w)
    BY <2>3 DEF BeginMismatchRecheck, InsertMismatchRecheck
  <2>13. ASSUME NEW d \in Doc, ClaimDocTask(w, d) PROVE FinalInv'
    <3>1. worker[w].pc = "idle" /\ worker[w] \in ParkedState
      BY <2>3, <2>13, WorkerKind DEF ClaimDocTask
    <3>2. /\ \A v \in Worker : v # w => worker'[v] = worker[v]
          /\ worker'[w].pc = "compare" /\ worker'[w].at = worker[w].at
      BY <2>13, <3>1 DEF ClaimDocTask, TypeOK, ParkedState
    <3>3. \A e \in Doc : docTask'[generation][e] = "failed" => docTask[generation][e] = "failed"
      BY <1>0, <2>13 DEF ClaimDocTask, TypeOK
    <3> QED
      BY <2>1, <2>3, <2>13, <3>2, <3>3, FinalWorker DEF ClaimDocTask
  <2>14. ASSUME NEW d \in Doc, CreateDocTask(w, d) PROVE FinalInv'
    <3>1. \A e \in Doc : docTask'[generation][e] = "failed" => docTask[generation][e] = "failed"
      BY <1>0, <2>14 DEF CreateDocTask, TypeOK
    <3> QED
      BY <2>1, <2>3, <2>14, <3>1, FinalWorker DEF CreateDocTask
  \* The reader has reached the end of the log, so a read can only be there.
  <2>15. ASSUME NEW c \in Cluster, NEW t \in 0..Len(log[c]), ReadDoc(w, c, t) PROVE FinalInv'
    <3>1. /\ worker[w].pc = "compare" /\ worker'[w].pc = "compare"
          /\ worker'[w].doc = worker[w].doc
          /\ worker'[w].at = [worker[w].at EXCEPT ![c] = t]
          /\ worker[w].at \in [Cluster -> Nat \cup {None}]
          /\ \A v \in Worker : v # w => worker'[v] = worker[v]
      BY <2>15, ReadDocFields, Zenon
    <3>2. t >= pos[c] /\ UNCHANGED <<queue, docTask>>
      BY <2>15 DEF ReadDoc, durable, TypeOK
    <3>3. t = Len(log[c])
      BY <3>2, LogLengths DEF FinalInv, PositionInv, TypeOK
    <3>4. \A k \in Cluster : worker'[w].at[k] \in {None, Len(log[k])}
      BY <2>3, <3>1, <3>3
    <3> QED
      BY <2>1, <3>1, <3>2, <3>4, FinalWorker
  <2> QED
    BY <1>9, <2>6, <2>7, <2>8, <2>9, <2>10, <2>11, <2>12, <2>13, <2>14, <2>15 DEF WorkerStep
<1>10. ASSUME NEW c \in Cluster, PersistorStep(c) PROVE FinalInv'
  <2>1. UNCHANGED <<lastGeneration, pc>>
    BY <1>10 DEF PersistorStep, BeginBatch, InsertRecheck, EndBatch, driver
  <2>2. ~lastGeneration
    <3>1. lastGeneration => batch[c] = None /\ handled[c] = Len(log[c])
      BY DEF FinalInv
    <3>2. lastGeneration => ~\E t \in 0..Len(log[c]) : t \in (handled[c] + 1)..pos[c]
      BY <3>1, LogLengths DEF PositionInv, TypeOK
    <3> QED
      BY <1>10, <3>1, <3>2 DEF PersistorStep, BeginBatch, InsertRecheck, EndBatch
  <2> QED
    BY <1>1, <2>1, <2>2 DEF FinalInv
<1>11. ASSUME NEW c \in Cluster, ReaderStep(c) \/ PersistToken(c) PROVE FinalInv'
  <2>1. UNCHANGED <<log, handled, batch, pc, generation, persistedGen, lastGeneration, queue, docTask,
                    creator, worker, writesOff>>
    BY <1>11 DEF ReaderStep, ReadBatch, CloseReader, PersistToken, env, durable, driver, request, persists
  <2> QED
    BY <2>1, FinalFrame
<1>12. CASE WritesOff \/ TellReader \/ UNCHANGED vars
  <2>1. /\ UNCHANGED <<log, handled, batch, pc, generation, persistedGen, lastGeneration, queue, docTask,
                       creator, worker>>
        /\ writesOff # "none" => writesOff' # "none"
    BY <1>12 DEF WritesOff, TellReader, vars, env, durable, driver, request, persists
  <2> QED
    BY <2>1, FinalFrame
<1>13. CASE Crash
    BY <1>1, <1>13 DEF Crash
<1> QED
    BY <1>2, <1>3, <1>4, <1>5, <1>6, <1>7, <1>8, <1>9, <1>10, <1>11, <1>12, <1>13 DEF Next, DriverStep

-----------------------------------------------------------------------------
(* What these invariants say of the tokens and of the verdict. *)

LEMMA TokensAreCovered == TypeOK /\ PositionInv /\ CoverInv => TokenCovered
<1> SUFFICES ASSUME TypeOK, PositionInv, CoverInv, NEW c \in Cluster, token[c] # None,
                    NEW i \in 1..token[c]
             PROVE  compared[c][log[c][i].doc] >= i \/ Owed(log[c][i].doc)
    BY DEF TokenCovered
<1>1. creator[0] # "none" /\ token[c] <= Len(log[c])
    BY DEF PositionInv
<1>2. i \in 1..Len(log[c]) /\ i <= token[c]
  <2>1. token[c] \in Nat /\ Len(log[c]) \in Nat
    BY LogLengths DEF TypeOK
  <2> QED
    BY <1>1, <2>1
<1>3. Stored(c, i)
  <2>1. token[c] # None
    OBVIOUS
  <2> QED
    BY <1>2, <2>1, Zenon DEF Stored
<1>4. log[c][i].doc \in Doc
  <2>1. log[c] \in Seq(Event)
    BY DEF TypeOK
  <2>2. \A j \in 1..Len(log[c]) : log[c][j] \in Event
    BY <2>1
  <2>3. log[c][i] \in Event
    BY <1>2, <2>2
  <2> QED
    BY <2>3 DEF Event
<1>5. Waiting(log[c][i].doc) \/ Settled(log[c][i].doc)
    BY <1>1, <1>4 DEF CoverInv
<1> QED
    BY <1>2, <1>3, <1>5 DEF Settled, Waiting, Owed

LEMMA AgreedNow ==
    ASSUME TypeOK, FinalInv, lastGeneration, NEW d \in Doc, Agreed(d)
    PROVE  Content("src", d) = Content("dst", d)
<1>1. PICK at \in [Cluster -> Nat] :
          /\ \A c \in Cluster : at[c] <= Len(log[c])
          /\ \A c \in Cluster : \A i \in 1..Len(log[c]) :
                log[c][i].doc = d /\ Stored(c, i) => i <= at[c]
          /\ ContentAt("src", d, at["src"]) = ContentAt("dst", d, at["dst"])
    BY DEF Agreed
<1>2. \A c \in Cluster : \A i \in 1..Len(log[c]) : Stored(c, i)
    BY LogLengths DEF FinalInv, Stored
<1>3. \A c \in Cluster : ContentAt(c, d, at[c]) = Content(c, d)
    BY <1>1, <1>2, ContentNow
<1> QED
    BY <1>1, <1>3 DEF Cluster

LEMMA VerdictHolds ==
    TypeOK /\ LockInv /\ LedgerInv /\ CoverInv /\ FinalInv => VerdictSound
<1> SUFFICES ASSUME TypeOK, LockInv, LedgerInv, CoverInv, FinalInv, pc = "done", ~cutShort,
                    FailedDocs = {}, NEW d \in Doc
             PROVE  Content("src", d) = Content("dst", d)
    BY DEF VerdictSound
<1>1. generation = DurableGen /\ creator[0] # "none"
    BY RunningGeneration DEF LedgerInv
<1>2. lastGeneration /\ TasksOver(DurableGen) /\ queue[DurableGen + 1] = {}
    BY <1>1 DEF FinalInv
<1>3. ~Waiting(d)
    BY <1>2 DEF Waiting, TasksOver
<1>4. ~Condemned(d)
    BY <1>1 DEF Condemned, FailedDocs
<1>5. Agreed(d)
    BY <1>1, <1>3, <1>4 DEF CoverInv, Settled
<1> QED
    BY <1>2, <1>5, AgreedNow

LEMMA Progress ==
    Spec => [](TypeOK /\ LockInv /\ LedgerInv /\ PositionInv /\ CoverInv /\ FinalInv)
<1> DEFINE Inv == /\ TypeOK /\ LockInv /\ CreatorInv /\ FailureInv /\ LedgerInv
                  /\ PositionInv /\ TasksInv /\ ReadsInv /\ CoverInv /\ FinalInv
<1>1. Init => Inv
    BY InitType, InitLock, InitCreator, InitFailure, InitLedgerInv, InitPosition, InitTasks,
       InitReads, InitCover, InitFinal
<1>2. Inv /\ [Next]_vars => Inv'
    BY StepType, StepLock, StepCreator, StepFailure, StepLedgerInv, StepPosition, StepTasks,
       StepReads, StepCover, StepFinal
<1> QED
    BY <1>1, <1>2, PTL DEF Spec

(* "Resumability": every change up to a persisted resume token has been        *)
(* compared since, or metadata that survives a crash owes it a comparison.     *)
THEOREM NoChangeLost == Spec => []TokenCovered
BY Progress, TokensAreCovered, PTL

(* When the verifier is done and has no failed task, the clusters agree on     *)
(* every document, unless a crash cut the final generation short.              *)
THEOREM VerdictIsSound == Spec => []VerdictSound
BY Progress, VerdictHolds, PTL

(* When the verifier is done, each failed task is a document that differs.     *)
THEOREM VerdictIsExact == Spec => []VerdictExact
<1>1. FinalInv => VerdictExact
    BY DEF FinalInv, VerdictExact, FailedDocs
<1> QED
    BY <1>1, Progress, PTL

-----------------------------------------------------------------------------
(* Change handling as ChangeLedger promises it, for each cluster.              *)

\* The changes of which a recheck has been stored ...
Stores(c) == {i \in 1..Len(log[c]) : Stored(c, i)}

\* ... and not lost since: compared, or owed a comparison by the metadata.
Kept(c) == {i \in Stores(c) : compared[c][log[c][i].doc] >= i \/ Owed(log[c][i].doc)}

\* The changes up to the timestamp of writes-off that the reader has been told.
Ending(c) == IF Told(c) THEN 1..finalTs[c] ELSE {}

\* Reader and persistor of c have returned.
HandlingOver(c) == readerDone[c] /\ handled[c] = pos[c] /\ batch[c] = None

Changes(c) == INSTANCE ChangeLedger WITH
                  happened <- Len(log[c]),
                  stored <- Kept(c),
                  token <- token[c],
                  asked <- Told(c),
                  due <- Ending(c),
                  over <- HandlingOver(c)

(* Nothing has been read before the start; a reader is told before it closes. *)
HandlingInv ==
    /\ pc = "down" => \A c \in Cluster : handled[c] = 0
    /\ \A c \in Cluster : readerDone[c] => Told(c)

LEMMA InitHandling == Init => HandlingInv
BY DEF Init, HandlingInv

LEMMA StepHandling == TypeOK /\ LockInv /\ HandlingInv /\ [Next]_vars => HandlingInv'
<1> SUFFICES ASSUME TypeOK, LockInv, HandlingInv, [Next]_vars PROVE HandlingInv'
    OBVIOUS
<1> USE DEF HandlingInv
<1>1. ASSUME UNCHANGED <<handled, readerDone, writesOff>>, pc' = "down" => pc = "down"
      PROVE  HandlingInv'
    BY <1>1 DEF Told
<1>2. CASE \/ \E c \in Cluster, d \in Doc, v \in Val : Write(c, d, v)
           \/ DriverStep \/ UNCHANGED vars
    BY <1>1, <1>2 DEF Write, DriverStep, PersistGeneration, CloseGenerationDone, Finish,
        AwaitChangeHandling, NextGeneration, FinalGeneration, Advance, vars, driver, request,
        readers, persists
<1>3. ASSUME NEW w \in Worker, WorkerStep(w) PROVE HandlingInv'
    BY <1>1, <1>3 DEF WorkerStep, ClaimCreator, ExitWorker, CompleteCreator, DropQueue,
        CompleteDocTask, BeginMismatchRecheck, InsertMismatchRecheck, FailDocTask, Record,
        ClaimDocTask, CreateDocTask, ReadDoc, driver, request, readers, persists
<1>4. CASE Start
    BY <1>4 DEF Start, request, Told
<1>5. ASSUME NEW c \in Cluster, ReaderStep(c) \/ PersistorStep(c) \/ PersistToken(c)
      PROVE  HandlingInv'
  <2>1. CASE CloseReader(c)
    BY <2>1 DEF CloseReader, TypeOK, Running, Told, driver, request, persists
  <2>2. CASE EndBatch(c)
    <3>1. UNCHANGED <<readerDone, writesOff>> /\ pc' # "down"
      BY <2>2 DEF EndBatch, LockInv, driver, request, readers
    <3> QED
      BY <3>1 DEF Told
  <2>3. CASE \/ \E t \in 0..Len(log[c]) : ReadBatch(c, t) \/ BeginBatch(c, t)
             \/ \E d \in Doc : InsertRecheck(c, d)
             \/ PersistToken(c)
    BY <1>1, <2>3 DEF ReadBatch, BeginBatch, InsertRecheck, PersistToken, driver, request,
        readers, persists
  <2> QED
    BY <1>5, <2>1, <2>2, <2>3 DEF ReaderStep, PersistorStep
<1>6. CASE WritesOff \/ TellReader
  <2>1. UNCHANGED <<handled, readerDone, pc>> /\ \A c \in Cluster : Told(c) => Told(c)'
    BY <1>6 DEF WritesOff, TellReader, Told, driver, readers, persists
  <2> QED
    BY <2>1
<1>7. CASE Crash
    BY <1>7 DEF Crash
<1> QED
    BY <1>2, <1>3, <1>4, <1>5, <1>6, <1>7 DEF Next

(* What one step of c's readers and persistors does to what c stores. *)
LEMMA BeginStores ==
    ASSUME TypeOK, PositionInv, NEW c \in Cluster, NEW t \in 0..Len(log[c]), BeginBatch(c, t)
    PROVE  Stores(c)' = Stores(c) /\ ~HandlingOver(c) /\ ~HandlingOver(c)'
<1> DEFINE b == [upTo |-> t, pending |-> {log[c][i].doc : i \in (handled[c] + 1)..t},
                 target |-> RecheckGeneration]
<1>1. /\ batch' = [batch EXCEPT ![c] = b] /\ batch[c] = None
      /\ UNCHANGED <<log, token, handled, pos>> /\ handled[c] < pos[c]
    BY DEF BeginBatch, TypeOK, env, durable, readers
<1>2. handled[c] \in Nat /\ t \in Nat /\ Len(log[c]) \in Nat
    BY LogLengths DEF TypeOK
<1>3. \A i \in 1..Len(log[c]) : i <= b.upTo /\ log[c][i].doc \notin b.pending => i <= handled[c]
    BY <1>2
<1>4. batch'[c] = b
    BY <1>1 DEF TypeOK
<1> HIDE DEF b
<1>5. \A i \in 1..Len(log[c]) : Stored(c, i)' <=> Stored(c, i)
    BY <1>1, <1>3, <1>4 DEF Stored
<1> QED
    BY <1>1, <1>2, <1>4, <1>5 DEF Stores, HandlingOver, TypeOK

LEMMA InsertStores ==
    ASSUME TypeOK, NEW c \in Cluster, NEW d \in Doc, InsertRecheck(c, d)
    PROVE  /\ Stores(c) \subseteq Stores(c)' /\ ~HandlingOver(c) /\ ~HandlingOver(c)'
<1> DEFINE b == [batch[c] EXCEPT !.pending = @ \ {d}]
<1>1. /\ batch' = [batch EXCEPT ![c] = b] /\ batch[c] # None
      /\ UNCHANGED <<log, token, handled, pos, readerDone>>
    BY DEF InsertRecheck, env, readers
<1>2. /\ b.upTo = batch[c].upTo /\ b.pending = batch[c].pending \ {d}
      /\ b \in BatchState /\ batch'[c] = b
    BY <1>1 DEF TypeOK, BatchState
<1> HIDE DEF b
<1>3. b # None
    BY <1>2, BatchAssumption
<1>4. \A i \in 1..Len(log[c]) : Stored(c, i) => Stored(c, i)'
    BY <1>1, <1>2, <1>3 DEF Stored
<1> QED
    BY <1>1, <1>2, <1>3, <1>4 DEF Stores, HandlingOver

LEMMA EndStores ==
    ASSUME TypeOK, PositionInv, NEW c \in Cluster, EndBatch(c)
    PROVE  Stores(c)' = Stores(c) /\ ~HandlingOver(c)
<1>1. /\ batch[c] # None /\ batch[c].pending = {}
      /\ batch' = [batch EXCEPT ![c] = None]
      /\ handled' = [handled EXCEPT ![c] = batch[c].upTo]
      /\ UNCHANGED <<log, token>>
    BY DEF EndBatch, env, durable
<1>2. batch'[c] = None /\ handled'[c] = batch[c].upTo
    BY <1>1 DEF TypeOK
<1>3. handled[c] \in Nat /\ batch[c].upTo \in Nat /\ handled[c] <= batch[c].upTo
    BY <1>1 DEF TypeOK, BatchState, PositionInv
<1>4. \A i \in 1..Len(log[c]) : Stored(c, i)' <=> Stored(c, i)
    BY <1>1, <1>2, <1>3 DEF Stored
<1> QED
    BY <1>1, <1>4 DEF Stores, HandlingOver

Progressing ==
    TypeOK /\ LockInv /\ LedgerInv /\ PositionInv /\ CoverInv /\ HandlingInv

(* What has been stored is not lost. *)
LEMMA StoredIsKept == Progressing => \A c \in Cluster : Kept(c) = Stores(c)
<1> SUFFICES ASSUME Progressing, NEW c \in Cluster, NEW i \in Stores(c)
             PROVE  compared[c][log[c][i].doc] >= i \/ Owed(log[c][i].doc)
    BY DEF Kept
<1>1. i \in 1..Len(log[c]) /\ Stored(c, i) /\ Len(log[c]) \in Nat /\ log[c][i].doc \in Doc
  <2>1. log[c] \in Seq(Event) /\ i \in 1..Len(log[c]) /\ Stored(c, i)
    BY DEF Stores, Progressing, TypeOK
  <2>2. log[c][i] \in Event
    BY <2>1
  <2> QED
    BY <2>1, <2>2 DEF Event
<1>2. CASE creator[0] = "none"
  <2>1. pc = "down" /\ handled[c] = 0 /\ batch[c] = None /\ token[c] = None
    BY <1>2 DEF Progressing, LedgerInv, HandlingInv, LockInv, PositionInv
  <2> QED
    BY <1>1, <2>1 DEF Stored
<1>3. CASE creator[0] # "none"
    BY <1>1, <1>3 DEF Progressing, CoverInv, Waiting, Settled, Owed
<1> QED
    BY <1>2, <1>3

LEMMA ChangesInit == Init => \A c \in Cluster : Changes(c)!Init
<1> SUFFICES ASSUME Init, NEW c \in Cluster PROVE Changes(c)!Init
    OBVIOUS
<1>1. Len(log[c]) = 0 /\ token[c] = None /\ writesOff = "none" /\ ~readerDone[c]
    BY DEF Init
<1>2. Kept(c) = {}
    BY <1>1 DEF Kept, Stores
<1>3. ~Told(c) /\ Ending(c) = {} /\ ~HandlingOver(c)
    BY <1>1 DEF Told, Ending, HandlingOver
<1> QED
    BY <1>1, <1>2, <1>3 DEF Changes!Init

(* A step that stores nothing for c and does not end the handling of its changes. *)
LEMMA ChangesFrame ==
    ASSUME NEW c \in Cluster, Kept(c) = Stores(c), (Kept(c) = Stores(c))',
           Stores(c)' = Stores(c), UNCHANGED <<Len(log[c]), token[c]>>,
           Told(c)' <=> Told(c), Ending(c)' = Ending(c), HandlingOver(c)' <=> HandlingOver(c)
    PROVE  UNCHANGED Changes(c)!vars
BY DEF Changes!vars, Told, HandlingOver

(* The last change up to the timestamp of writes-off is stored when it ends. *)
LEMMA ChangesFinish ==
    ASSUME TypeOK, PositionInv', HandlingInv', NEW c \in Cluster,
           Kept(c) = Stores(c), (Kept(c) = Stores(c))',
           Stores(c)' = Stores(c), UNCHANGED <<log, token[c], writesOff, finalTs>>,
           ~HandlingOver(c), HandlingOver(c)'
    PROVE  Changes(c)!Finish
<1>1. Told(c) /\ Told(c)' /\ Ending(c)' = Ending(c) /\ Ending(c) = 1..finalTs[c]
    BY DEF HandlingOver, HandlingInv, Told, Ending
<1>2. writesOff # "none" /\ finalTs[c] = Len(log[c]) /\ handled'[c] = Len(log[c])
    BY <1>1 DEF HandlingOver, PositionInv, Told
<1>3. Ending(c) \subseteq Stores(c)'
    BY <1>1, <1>2, LogLengths DEF Stores, Stored
<1> QED
    BY <1>1, <1>3 DEF Changes!Finish

LEMMA ChangesStep ==
    ASSUME Progressing, Progressing', [Next]_vars, NEW c \in Cluster,
           Kept(c) = Stores(c), (Kept(c) = Stores(c))'
    PROVE  [Changes(c)!Next]_(Changes(c)!vars)
<1> DEFINE Goal == [Changes(c)!Next]_(Changes(c)!vars)
<1> SUFFICES Goal
    OBVIOUS
<1>0. /\ TypeOK /\ LockInv /\ LedgerInv /\ PositionInv /\ HandlingInv
      /\ TypeOK' /\ PositionInv' /\ HandlingInv'
    BY DEF Progressing
<1>a. /\ handled[c] \in Nat /\ pos[c] \in Nat /\ Len(log[c]) \in Nat
      /\ token[c] # None => token[c] \in Nat
    BY <1>0, LogLengths DEF TypeOK
<1>b. ASSUME UNCHANGED Changes(c)!vars PROVE Goal
    BY <1>b
<1>c. ASSUME Changes(c)!Next PROVE Goal
    BY <1>c
<1> HIDE DEF Goal
<1>d. ASSUME UNCHANGED <<log[c], token[c], handled[c], batch[c]>> PROVE Stores(c)' = Stores(c)
    BY <1>d DEF Stores, Stored
<1>e. ASSUME UNCHANGED <<log[c], token[c], handled[c], batch[c], pos[c], readerDone[c], writesOff,
                         finalTs>>
      PROVE  Goal
    BY <1>b, <1>d, <1>e, ChangesFrame DEF Told, Ending, HandlingOver
<1>1. CASE DriverStep \/ UNCHANGED vars
    BY <1>1, <1>e DEF DriverStep, PersistGeneration, CloseGenerationDone, Finish,
        AwaitChangeHandling, NextGeneration, FinalGeneration, Advance, vars, env, durable,
        request, readers, persists
<1>2. ASSUME NEW w \in Worker, WorkerStep(w) PROVE Goal
    BY <1>2, <1>e DEF WorkerStep, ClaimCreator, ExitWorker, CompleteCreator, DropQueue,
        CompleteDocTask, BeginMismatchRecheck, InsertMismatchRecheck, FailDocTask, Record,
        ClaimDocTask, CreateDocTask, ReadDoc, env, durable, request, readers, persists
<1>3. ASSUME NEW k \in Cluster, NEW d \in Doc, NEW v \in Val, Write(k, d, v) PROVE Goal
  <2>1. /\ ~frozen /\ UNCHANGED <<token, handled, batch, pos, readerDone, writesOff, finalTs>>
        /\ LogGrows
    BY <1>0, <1>3, WriteGrows DEF Write, durable, request, readers, persists
  <2>2. Len(log'[c]) \in Nat /\ Len(log[c]) <= Len(log'[c])
    BY <1>0, <2>1 DEF TypeOK, LogGrows
  <2>3. ~Told(c) /\ ~Told(c)'
    BY <1>0, <2>1 DEF PositionInv, Told
  <2>4. Stores(c)' = Stores(c)
    <3>1. batch[c] # None => batch[c].upTo <= Len(log[c]) /\ batch[c].upTo \in Nat
      <4>1. batch[c] # None => batch[c].upTo \in Nat
        BY <1>0 DEF TypeOK, BatchState
      <4>2. batch[c] # None => batch[c].upTo <= pos[c]
        BY <1>0 DEF PositionInv
      <4>3. pos[c] <= Len(log[c])
        BY <1>0 DEF PositionInv
      <4> QED
        BY <1>a, <4>1, <4>2, <4>3
    <3>2. \A i \in 1..Len(log'[c]) : Stored(c, i)' => i <= Len(log[c])
      BY <1>0, <1>a, <2>1, <3>1 DEF Stored, PositionInv
    <3>3. \A i \in 1..Len(log[c]) : Stored(c, i)' <=> Stored(c, i)
      <4>1. \A i \in 1..Len(log[c]) : log'[c][i] = log[c][i]
        BY <2>1 DEF LogGrows
      <4> QED
        BY <2>1, <4>1 DEF Stored
    <3> QED
      BY <1>a, <2>2, <3>2, <3>3 DEF Stores
  <2>5. UNCHANGED <<Told(c), Ending(c), HandlingOver(c)>>
    BY <2>1, <2>3 DEF Told, Ending, HandlingOver
  <2> QED
    BY <1>c, <2>1, <2>2, <2>4, <2>5 DEF Changes!Next, Changes!Happen
<1>4. CASE Start
  <2>1. /\ pc = "down" /\ UNCHANGED <<log, writesOff, finalTs, readerDone, batch>>
        /\ token' = [k \in Cluster |-> IF token[k] = None THEN Len(log[k]) ELSE token[k]]
        /\ pos' = token' /\ handled' = token'
    BY <1>4 DEF Start, env, request
  <2>2. handled[c] = 0 /\ batch[c] = None /\ ~readerDone[c]
    BY <1>0, <2>1 DEF HandlingInv, LockInv, PositionInv
  <2>3. UNCHANGED <<Told(c), Ending(c), HandlingOver(c)>>
    BY <2>1, <2>2 DEF Told, Ending, HandlingOver
  <2>4. CASE token[c] = None
    <3>1. token'[c] = Len(log[c]) /\ token'[c] # None
      BY <1>a, <2>1, <2>4, ContentAssumption
    <3>2. Stores(c)' = 1..Len(log[c]) /\ Stores(c) = {}
      BY <1>a, <2>1, <2>2, <2>4, <3>1 DEF Stores, Stored
    <3> QED
      BY <1>c, <2>1, <2>3, <2>4, <3>1, <3>2 DEF Changes!Next, Changes!Open
  <2>5. CASE token[c] # None
    <3>1. token'[c] = token[c] /\ handled'[c] = token[c]
      BY <2>1, <2>5
    <3>2. Stores(c)' = Stores(c)
      BY <1>a, <2>1, <2>2, <2>5, <3>1 DEF Stores, Stored
    <3> QED
      BY <1>b, <2>1, <2>3, <3>1, <3>2, ChangesFrame
  <2> QED
    BY <2>4, <2>5
<1>5. ASSUME NEW k \in Cluster, k # c, ReaderStep(k) \/ PersistorStep(k) \/ PersistToken(k)
      PROVE  Goal
  <2>1. UNCHANGED <<log, token[c], handled[c], batch[c], pos[c], readerDone[c], writesOff, finalTs>>
    BY <1>0, <1>5 DEF ReaderStep, ReadBatch, CloseReader, PersistorStep, BeginBatch,
        InsertRecheck, EndBatch, PersistToken, TypeOK, env, durable, request, readers, persists
  <2> QED
    BY <1>e, <2>1
<1>6. ASSUME NEW t \in 0..Len(log[c]), ReadBatch(c, t) PROVE Goal
  <2>1. /\ ~readerDone[c]
        /\ UNCHANGED <<log, token, handled, batch, readerDone, writesOff, finalTs>>
    BY <1>6 DEF ReadBatch, env, durable, request, persists
  <2> QED
    BY <1>b, <1>d, <2>1, ChangesFrame DEF Told, Ending, HandlingOver
<1>7. CASE CloseReader(c)
  <2>1. ~HandlingOver(c) /\ UNCHANGED <<log, token, handled, batch, writesOff, finalTs>>
    BY <1>7 DEF CloseReader, HandlingOver, env, durable, request, persists
  <2>2. CASE HandlingOver(c)'
    BY <1>0, <1>c, <1>d, <2>1, <2>2, ChangesFinish DEF Changes!Next
  <2>3. CASE ~HandlingOver(c)'
    BY <1>b, <1>d, <2>1, <2>3, ChangesFrame DEF Told, Ending
  <2> QED
    BY <2>2, <2>3
<1>8. ASSUME NEW t \in 0..Len(log[c]), BeginBatch(c, t) PROVE Goal
  <2>1. UNCHANGED <<log, token, writesOff, finalTs>>
    BY <1>8 DEF BeginBatch, env, durable, request
  <2> QED
    BY <1>0, <1>b, <1>8, <2>1, BeginStores, ChangesFrame DEF Told, Ending
<1>9. ASSUME NEW d \in Doc, InsertRecheck(c, d) PROVE Goal
  <2>1. UNCHANGED <<log, token, writesOff, finalTs>>
    BY <1>9 DEF InsertRecheck, env, request
  <2>2. Stores(c) \subseteq Stores(c)' /\ ~HandlingOver(c) /\ ~HandlingOver(c)'
    BY <1>0, <1>9, InsertStores
  <2>3. UNCHANGED <<Told(c), Ending(c), HandlingOver(c)>>
    BY <2>1, <2>2 DEF Told, Ending, HandlingOver
  <2>4. Stores(c)' \subseteq 1..Len(log[c])
    BY <2>1 DEF Stores
  <2> QED
    BY <1>c, <2>1, <2>2, <2>3, <2>4 DEF Changes!Next, Changes!Store
<1>10. CASE EndBatch(c)
  <2>1. UNCHANGED <<log, token, writesOff, finalTs>>
    BY <1>10 DEF EndBatch, env, durable, request
  <2>2. Stores(c)' = Stores(c) /\ ~HandlingOver(c)
    BY <1>0, <1>10, EndStores
  <2>3. CASE HandlingOver(c)'
    BY <1>0, <1>c, <2>1, <2>2, <2>3, ChangesFinish DEF Changes!Next
  <2>4. CASE ~HandlingOver(c)'
    BY <1>b, <2>1, <2>2, <2>4, ChangesFrame DEF Told, Ending
  <2> QED
    BY <2>3, <2>4
<1>11. CASE PersistToken(c)
  <2>1. /\ pc # "down" /\ token'[c] = handled[c]
        /\ UNCHANGED <<log, handled, batch, pos, readerDone, writesOff, finalTs>>
    BY <1>0, <1>11 DEF PersistToken, Persistable, Running, TypeOK, env, request, readers, persists
  <2>2. token[c] # None /\ token[c] <= handled[c] /\ handled[c] <= Len(log[c])
    BY <1>0, <1>a, <2>1 DEF LedgerInv, PositionInv
  <2>3. Stores(c)' = Stores(c) /\ 1..handled[c] \subseteq Stores(c)
    BY <1>a, <2>1, <2>2 DEF Stores, Stored
  <2>4. UNCHANGED <<Told(c), Ending(c), HandlingOver(c)>>
    BY <2>1 DEF Told, Ending, HandlingOver
  <2> QED
    BY <1>a, <1>c, <2>1, <2>2, <2>3, <2>4 DEF Changes!Next, Changes!Persist, Changes!Covers
<1>12. CASE WritesOff
  <2>1. /\ writesOff = "none" /\ writesOff' = "src"
        /\ UNCHANGED <<log, token, handled, batch, pos, readerDone>>
    BY <1>12 DEF WritesOff, durable, readers, persists
  <2>2. UNCHANGED <<Told(c), Ending(c), HandlingOver(c)>>
    BY <2>1 DEF Told, Ending, HandlingOver
  <2> QED
    BY <1>b, <1>d, <2>1, <2>2, ChangesFrame
<1>13. CASE TellReader
  <2>1. /\ writesOff # "none" /\ (Told(c) => Told(c)')
        /\ UNCHANGED <<log, token, handled, batch, pos, readerDone, finalTs>>
    BY <1>13 DEF TellReader, Told, env, durable, readers, persists
  <2>2. Stores(c)' = Stores(c) /\ UNCHANGED HandlingOver(c)
    BY <1>d, <2>1 DEF HandlingOver
  <2>3. CASE Told(c)
    BY <1>b, <2>1, <2>2, <2>3, ChangesFrame DEF Ending
  <2>4. CASE ~Told(c) /\ ~Told(c)'
    BY <1>b, <2>1, <2>2, <2>4, ChangesFrame DEF Ending
  <2>5. CASE ~Told(c) /\ Told(c)'
    <3>1. ~HandlingOver(c)
      BY <1>0, <2>5 DEF HandlingInv, HandlingOver
    <3>2. Ending(c)' \subseteq 1..Len(log[c])
      BY <1>0, <2>1, <2>5 DEF Ending, PositionInv
    <3> QED
      BY <1>c, <2>1, <2>2, <2>5, <3>1, <3>2 DEF Changes!Next, Changes!Ask
  <2> QED
    BY <2>3, <2>4, <2>5
<1>14. CASE Crash
  <2>1. /\ UNCHANGED <<log, token>> /\ writesOff' = "none"
        /\ ~readerDone'[c] /\ handled'[c] = 0 /\ batch'[c] = None
    BY <1>14 DEF Crash, env, durable
  <2>2. ~Told(c)' /\ Ending(c)' = {} /\ ~HandlingOver(c)'
    BY <2>1 DEF Told, Ending, HandlingOver
  <2>3. Stores(c)' \subseteq Stores(c)
    BY <1>a, <2>1 DEF Stores, Stored
  <2>4. token[c] # None => 1..token[c] \subseteq Stores(c)'
    BY <1>0, <1>a, <2>1 DEF Stores, Stored, PositionInv
  <2> QED
    BY <1>c, <2>1, <2>2, <2>3, <2>4 DEF Changes!Next, Changes!Crash
<1> QED
    BY <1>1, <1>2, <1>3, <1>4, <1>5, <1>6, <1>7, <1>8, <1>9, <1>10, <1>11, <1>12, <1>13, <1>14
       DEF Next, ReaderStep, PersistorStep

(* The change handling of each cluster implements ChangeLedger: no resume token *)
(* covers a change that is not compared or owed a comparison by the metadata,   *)
(* and readers and persistors end when all writes up to writes-off are stored.  *)
THEOREM ChangeLedgersKept ==
    ASSUME NEW c \in Cluster PROVE Spec => Changes(c)!Spec
<1>1. Init => HandlingInv /\ Changes(c)!Init
    BY InitHandling, ChangesInit
<1>2. TypeOK /\ LockInv /\ HandlingInv /\ [Next]_vars => HandlingInv'
    BY StepHandling
<1>3. Progressing => Kept(c) = Stores(c)
    BY StoredIsKept
<1>4. Progressing /\ Progressing' /\ [Next]_vars /\ Kept(c) = Stores(c) /\ (Kept(c) = Stores(c))'
          => [Changes(c)!Next]_(Changes(c)!vars)
    BY ChangesStep
<1>5. TypeOK /\ LockInv /\ LedgerInv /\ PositionInv /\ CoverInv /\ HandlingInv => Progressing
    BY DEF Progressing
<1> QED
    BY <1>1, <1>2, <1>3, <1>4, <1>5, Progress, PTL DEF Spec, Changes!Spec

=============================================================================
