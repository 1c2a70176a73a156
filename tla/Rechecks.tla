------------------------------ MODULE Rechecks ------------------------------
(* The recheck queue and the mismatch records, over several generations.      *)
(*                                                                            *)
(* Change events and mismatches put rows into the queue of the next           *)
(* generation.  There GenerateRecheckTasks reads them in order and groups     *)
(* them into document tasks, merging the rows of one document; the tasks are  *)
(* compared, their mismatches are recorded with the time since which they     *)
(* exist, and are put into the next queue.                                    *)
(*                                                                            *)
(* Which goroutine holds which lock, and crashes, are the subject of module   *)
(* Generations; what goes on within a comparison is that of Comparator.       *)
EXTENDS Integers, Sequences, FiniteSets

CONSTANTS
    Docs,          \* the number of documents
    FirstColl,     \* documents up to this one are in the first collection
    MaxIds,        \* maxRecheckIDs
    MaxPerRequest, \* maxTasksPerRequest
    MaxGen,        \* bound: the last generation
    Changing,      \* bound: the documents that change
    MaxChanges,    \* bound: changes on each cluster
    Failing,       \* bound: the generations in which errors happen
    MaxFailures,   \* bound: transient errors
    MaxBoth        \* bound: changes and errors together

ASSUME ConstantsOk ==
    /\ Docs \in Nat \ {0}
    /\ FirstColl \in 1..Docs
    /\ MaxIds \in Nat \ {0}
    /\ MaxPerRequest \in Nat \ {0}
    /\ MaxGen \in Nat
    /\ Changing \subseteq 1..Docs
    /\ Failing \subseteq Nat
    /\ MaxChanges \in Nat
    /\ MaxFailures \in Nat
    /\ MaxBoth \in Nat

Doc == 1..Docs
Side == {"src", "dst"}

\* Documents are numbered in the order of the queue's _id, which begins with the
\* namespace and the document's _id.
Ns(d) == IF d <= FirstColl THEN 1 ELSE 2

\* A recheck of a change has the cluster that it comes from and its timestamp there,
\* a recheck of a mismatch the time at which that was first seen.  Rows that only their
\* random numbers tell apart are one row here: reading the same again changes nothing.
Row == [doc : Doc, origin : Side \union {"compare"}, time : Nat]

Task == [ids : Seq(Doc), first : Seq(Nat), latest : [Side -> Nat], attempt : Nat,
         status : {"added", "completed", "failed"}, try : Nat, unclear : BOOLEAN]

MismatchInfo == [generation : Nat, task : Nat, doc : Doc, try : Nat, first : Nat]

NoTs == [s \in Side |-> 0]

VARIABLES
    generation,
    ts,          \* the time of the last change on each cluster
    queue,       \* the rows for the next generation
    rows,        \* the rows for this generation; kept here when the queue is dropped
    creator,     \* the task that processes the queue
    attempt,     \* how often it was begun in this generation
    unread,      \* the rows that its cursor has still to return
    ids,         \* idAccum
    first,       \* firstMismatchTime, 0 for none
    latest,      \* latestSrcTimestamp, latestDstTimestamp
    buffer,      \* curTasks
    requests,    \* insertions of tasks that are under way
    groupFailed, \* one of this attempt's insertions has failed
    made,        \* the tasks created in this generation, each with a number for its _id
    tasks,       \* the tasks collection: the document tasks of this generation
    mismatches,  \* the mismatches collection
    failures,
    seen,        \* history: who was found mismatched in which generation
    changed      \* history: whose change was enqueued for which generation

accumulators == <<ids, first, latest>>
output == <<buffer, requests, groupFailed, made>>
creatorVars == <<creator, attempt, unread, accumulators, output>>
records == <<mismatches, seen>>
vars == <<generation, ts, queue, rows, creatorVars, tasks, records, failures, changed>>

RoomForMore == ts["src"] + ts["dst"] + failures < MaxBoth

\* A transient error: there may be another.
Fail ==
    /\ generation \in Failing
    /\ failures < MaxFailures
    /\ RoomForMore
    /\ failures' = failures + 1

-----------------------------------------------------------------------------
\* A change event reaches the queue (insertRecheckDocs for the persistor).
Change(d, s) ==
    /\ generation < MaxGen
    /\ ts[s] < MaxChanges
    /\ RoomForMore
    /\ ts' = [ts EXCEPT ![s] = @ + 1]
    /\ queue' = queue \union {[doc |-> d, origin |-> s, time |-> ts[s] + 1]}
    /\ changed' = changed \union {<<d, generation + 1>>}
    /\ UNCHANGED <<generation, rows, creatorVars, tasks, records, failures>>

-----------------------------------------------------------------------------
\* GenerateRecheckTasks.

NoAccumulators_AgesKept ==
    /\ ids' = <<>>
    /\ latest' = NoTs
    /\ UNCHANGED first

NoAccumulators ==
    /\ ids' = <<>>
    /\ first' = <<>>
    /\ latest' = NoTs

BeginAttempt ==
    /\ creator' = "reading"
    /\ attempt' = attempt + 1
    /\ unread' = rows
    /\ NoAccumulators
    /\ buffer' = <<>>
    /\ groupFailed' = FALSE
    /\ UNCHANGED <<generation, ts, queue, rows, requests, made, tasks, records, changed>>

\* A worker claims the task that processes the queue.
StartGenerate ==
    /\ creator = "added"
    /\ BeginAttempt
    /\ UNCHANGED failures

\* The sorted cursor returns a row.  The order among rows of one key is that of their
\* random numbers: any.
Reads(row) ==
    /\ creator = "reading"
    /\ \A r \in unread : row.doc <= r.doc
    /\ unread' = unread \ {row}
    /\ UNCHANGED <<generation, ts, queue, rows, creator, attempt, groupFailed, tasks, records,
                   failures, changed>>

\* Another recheck of the document that came last.
SameDoc_IfRoom(d) == ids # <<>> /\ ids[Len(ids)] = d /\ Len(ids) < MaxIds
SameDoc(d) == ids # <<>> /\ ids[Len(ids)] = d

\* The task must end before a document of another collection, and when it is full.
MustFlush_AnyColl(d) == ids # <<>> /\ Len(ids) >= MaxIds
MustFlush(d) == ids # <<>> /\ (Ns(ids[1]) # Ns(d) \/ Len(ids) >= MaxIds)

FirstOf(row) == IF row.origin = "compare" THEN row.time ELSE 0

Newer(l, row) ==
    IF row.origin \in Side /\ row.time > l[row.origin]
        THEN [l EXCEPT ![row.origin] = row.time]
        ELSE l

NewTask(n) ==
    [n |-> n,
     task |-> [ids |-> ids, first |-> first, latest |-> latest, attempt |-> attempt,
               status |-> "added", try |-> 0, unclear |-> FALSE]]

Request(list) == [attempt |-> attempt, list |-> list]

\* persistBufferedRechecks: the task joins those that wait for the next insertion,
\* which happens when there are enough of them, or enough bytes.
PersistBuffered ==
    LET list == Append(buffer, NewTask(made + 1)) IN
    /\ made' = made + 1
    /\ \/ /\ Len(list) < MaxPerRequest
          /\ buffer' = list
          /\ UNCHANGED requests
       \/ /\ buffer' = <<>>
          /\ requests' = requests \union {Request(list)}

\* A change forgets the age of its document's mismatch, also one that comes later.
AgeAfter_Kept(row) == first
AgeAfter(row) == IF row.origin \in Side THEN [first EXCEPT ![Len(ids)] = 0] ELSE first

\* A row of the document that came last.
ReadSameDoc(row) ==
    /\ Reads(row)
    /\ SameDoc(row.doc)
    /\ latest' = Newer(latest, row)
    /\ first' = AgeAfter(row)
    /\ UNCHANGED <<ids, buffer, requests, made>>

\* A row of another document, for the same task.
ReadNextDoc(row) ==
    /\ Reads(row)
    /\ ~SameDoc(row.doc)
    /\ ~MustFlush(row.doc)
    /\ ids' = Append(ids, row.doc)
    /\ first' = Append(first, FirstOf(row))
    /\ latest' = Newer(latest, row)
    /\ UNCHANGED <<buffer, requests, made>>

\* A row of another document, for the next task.  It need not be due: the limits on
\* bytes may end a task after any document.
ReadForNextTask(row) ==
    /\ Reads(row)
    /\ ids # <<>>
    /\ ~SameDoc(row.doc)
    /\ PersistBuffered
    /\ ids' = <<row.doc>>
    /\ first' = <<FirstOf(row)>>
    /\ latest' = Newer(NoTs, row)

\* The cursor is exhausted: the last task, and the last insertion.
EndRows ==
    /\ creator = "reading"
    /\ unread = {}
    /\ creator' = "waiting"
    /\ made' = made + 1
    /\ requests' = requests \union {Request(Append(buffer, NewTask(made + 1)))}
    /\ buffer' = <<>>
    /\ NoAccumulators
    /\ UNCHANGED <<generation, ts, queue, rows, attempt, unread, groupFailed, tasks, records,
                   failures, changed>>

\* Reading fails, and is tried again.  The insertions are not waited for: what the
\* server has of them may still take effect.
CursorFails ==
    /\ creator = "reading"
    /\ Fail
    /\ BeginAttempt

\* The first k tasks of an insertion are stored, and it ends.
Stored(r, k) ==
    /\ tasks' = [n \in DOMAIN tasks \union {r.list[i].n : i \in 1..k} |->
                    IF n \in DOMAIN tasks THEN tasks[n]
                    ELSE (CHOOSE e \in {r.list[i] : i \in 1..k} : e.n = n).task]
    /\ requests' = requests \ {r}
    /\ UNCHANGED <<generation, ts, queue, rows, creator, attempt, unread, accumulators, buffer,
                   made, records, changed>>

\* insertDocumentRecheckTasks
InsertTasks(r) ==
    /\ Stored(r, Len(r.list))
    /\ UNCHANGED <<groupFailed, failures>>

\* InsertMany stores one task after the other, fails before the end, and fails its group.
InsertFails(r) ==
    /\ r.attempt = attempt
    /\ Fail
    /\ groupFailed' = TRUE
    /\ \E k \in 0..Len(r.list) - 1 : Stored(r, k)

\* An insertion of a group that has failed, or was left behind, is cut short.
InsertCancelled(r) ==
    /\ groupFailed \/ r.attempt < attempt
    /\ \E k \in 0..Len(r.list) - 1 : Stored(r, k)
    /\ UNCHANGED <<groupFailed, failures>>

\* eg.Wait returns.
Waited == creator = "waiting" /\ \A r \in requests : r.attempt < attempt

CompleteCreator_AnyResult ==
    /\ Waited
    /\ creator' = "completed"
    /\ UNCHANGED <<generation, ts, queue, rows, attempt, unread, accumulators, output, tasks,
                   records, failures, changed>>

\* All tasks are stored: the task that processed the queue is completed.
CompleteCreator ==
    /\ Waited
    /\ ~groupFailed
    /\ creator' = "completed"
    /\ UNCHANGED <<generation, ts, queue, rows, attempt, unread, accumulators, output, tasks,
                   records, failures, changed>>

\* An insertion failed: everything is done again, on top of the tasks there are.
Redo ==
    /\ Waited
    /\ groupFailed
    /\ BeginAttempt
    /\ UNCHANGED failures

-----------------------------------------------------------------------------
\* ProcessVerifyTask.

\* createIDToFirstMismatchTime: the time that the task has for the document, if any.
KnownFirst(t, d) ==
    LET I == {i \in DOMAIN t.ids : t.ids[i] = d /\ t.first[i] # 0} IN
    IF I = {} THEN 0 ELSE t.first[CHOOSE i \in I : \A j \in I : j <= i]

\* createMismatchTimes: without a known first time, a mismatch is first seen now.  The
\* clock ticks once per generation.
FirstTime_Now(t, d) == generation + 1
FirstTime(t, d) == IF KnownFirst(t, d) = 0 THEN generation + 1 ELSE KnownFirst(t, d)

Members(t) == {t.ids[i] : i \in DOMAIN t.ids}

\* recordMismatches
Recorded(n, D) ==
    {[generation |-> generation, task |-> n, doc |-> d, try |-> tasks[n].try,
      first |-> FirstTime(tasks[n], d)] : d \in D}

\* InsertFailedCompareRecheckDocs; the final generation enqueues nothing.
Enqueued(n, D) ==
    IF generation = MaxGen THEN {}
    ELSE {[doc |-> d, origin |-> "compare", time |-> FirstTime(tasks[n], d)] : d \in D}

\* A worker compares a task's documents, any of which may differ, records the
\* mismatches and enqueues them.
ProcessVerifyTask(n) ==
    /\ tasks[n].status = "added"
    /\ \E bad \in SUBSET Members(tasks[n]) :
        /\ tasks' = [tasks EXCEPT ![n].status = IF bad = {} THEN "completed" ELSE "failed"]
        /\ mismatches' = mismatches \union Recorded(n, bad)
        /\ queue' = queue \union Enqueued(n, bad)
        /\ seen' = seen \union (bad \X {generation})
    /\ UNCHANGED <<generation, ts, rows, creatorVars, failures, changed>>

\* clearMismatchesForTask
Cleared_Prior(M, n) == {m \in M : m.generation # generation - 1 \/ m.task # n}
Cleared(M, n) == {m \in M : m.generation # generation \/ m.task # n}

\* Recording or enqueueing fails half-way.  The worker clears what it has recorded,
\* or fails to and carries on, and starts over; what is enqueued stays.
TaskFails(n) ==
    /\ tasks[n].status = "added"
    /\ Fail
    /\ \E D, E \in SUBSET Members(tasks[n]) :
        /\ queue' = queue \union Enqueued(n, D)
        /\ seen' = seen \union ((D \union E) \X {generation})
        /\ \/ /\ mismatches' = Cleared(mismatches \union Recorded(n, E), n)
              /\ tasks' = [tasks EXCEPT ![n].try = @ + 1]
           \/ /\ mismatches' = mismatches \union Recorded(n, E)
              /\ tasks' = [tasks EXCEPT ![n].try = @ + 1, ![n].unclear = TRUE]
    /\ UNCHANGED <<generation, ts, rows, creatorVars, changed>>

\* countMismatchesForGeneration
Counted(g) == {m \in mismatches : m.generation = g}

-----------------------------------------------------------------------------
\* Generations.

GenerationOver_Unread ==
    /\ creator \notin {"reading", "waiting"}
    /\ \A n \in DOMAIN tasks : tasks[n].status # "added"

GenerationOver ==
    /\ creator \in {"none", "completed"}
    /\ \A n \in DOMAIN tasks : tasks[n].status # "added"

\* ensureCreateRecheckTaskIfNeeded: nothing enqueued, nothing to create.
NextGeneration ==
    /\ generation < MaxGen
    /\ GenerationOver
    /\ generation' = generation + 1
    /\ rows' = queue
    /\ queue' = {}
    /\ creator' = IF queue = {} THEN "none" ELSE "added"
    /\ attempt' = 0
    /\ unread' = {}
    /\ NoAccumulators
    /\ buffer' = <<>>
    /\ requests' = {}
    /\ groupFailed' = FALSE
    /\ made' = 0
    /\ tasks' = <<>>
    /\ UNCHANGED <<ts, records, failures, changed>>

\* Generation 0's tasks: two partitions, with the boundary in both, of the first
\* collection, and one of the second if there is one.
PartitionTask(a, b) ==
    [ids |-> [i \in 1..b - a + 1 |-> a + i - 1], first |-> [i \in 1..b - a + 1 |-> 0],
     latest |-> NoTs, attempt |-> 0, status |-> "added", try |-> 0,
     unclear |-> FALSE]

Init ==
    /\ generation = 0
    /\ ts = NoTs
    /\ queue = {}
    /\ rows = {}
    /\ creator = "none"
    /\ attempt = 0
    /\ unread = {}
    /\ ids = <<>>
    /\ first = <<>>
    /\ latest = NoTs
    /\ buffer = <<>>
    /\ requests = {}
    /\ groupFailed = FALSE
    /\ made = 0
    /\ \E b \in 1..FirstColl : tasks =
        <<PartitionTask(1, b), PartitionTask(b, FirstColl)>> \o
        (IF FirstColl < Docs THEN <<PartitionTask(FirstColl + 1, Docs)>> ELSE <<>>)
    /\ mismatches = {}
    /\ failures = 0
    /\ seen = {}
    /\ changed = {}

ReadRow == \E row \in unread : ReadSameDoc(row) \/ ReadNextDoc(row) \/ ReadForNextTask(row)
Insertion == \E r \in requests : InsertTasks(r) \/ InsertFails(r) \/ InsertCancelled(r)
Worker == \E n \in DOMAIN tasks : ProcessVerifyTask(n) \/ TaskFails(n)

Next ==
    \/ \E d \in Changing, s \in Side : Change(d, s)
    \/ StartGenerate
    \/ ReadRow
    \/ EndRows
    \/ CursorFails
    \/ Insertion
    \/ CompleteCreator
    \/ Redo
    \/ Worker
    \/ NextGeneration

Spec == Init /\ [][Next]_vars

-----------------------------------------------------------------------------
\* Every variable keeps its type.
TypeOK ==
    /\ generation \in 0..MaxGen
    /\ ts \in [Side -> 0..MaxChanges]
    /\ queue \subseteq Row
    /\ rows \subseteq Row
    /\ creator \in {"none", "added", "reading", "waiting", "completed"}
    /\ attempt \in Nat
    /\ unread \subseteq rows
    /\ ids \in Seq(Doc)
    /\ first \in Seq(Nat)
    /\ Len(first) = Len(ids)
    /\ latest \in [Side -> Nat]
    /\ buffer \in Seq([n : Nat, task : Task])
    /\ requests \subseteq [attempt : Nat, list : Seq([n : Nat, task : Task])]
    /\ groupFailed \in BOOLEAN
    /\ made \in Nat
    /\ DOMAIN tasks \subseteq Nat
    /\ \A n \in DOMAIN tasks : tasks[n] \in Task
    /\ mismatches \subseteq MismatchInfo
    /\ failures \in 0..MaxFailures
    /\ seen \subseteq Doc \X (0..MaxGen)
    /\ changed \subseteq Doc \X (0..MaxGen)

\* The task compares the row's document, once each cluster is past the row's change.
Covers(t, row) ==
    /\ row.doc \in Members(t)
    /\ row.origin \in Side => t.latest[row.origin] >= row.time

\* GenerateRecheckTasks: once its task is completed, every row of the queue is in a
\* document task that waits for the change's time on the cluster it comes from, however
\* the insertions failed and were redone.
QueueCovered ==
    creator = "completed" =>
        \A row \in rows : \E n \in DOMAIN tasks : Covers(tasks[n], row)

\* One attempt puts a document into one task, once, however many rows it has.
Unsplit ==
    generation > 0 =>
        \A n, k \in DOMAIN tasks : tasks[n].attempt = tasks[k].attempt =>
            \A i \in DOMAIN tasks[n].ids, j \in DOMAIN tasks[k].ids :
                tasks[n].ids[i] = tasks[k].ids[j] => (n = k /\ i = j)

\* A task has documents of one collection, not more than the limit.
TaskUniform(t) ==
    /\ Len(t.ids) \in 1..MaxIds
    /\ \A i, j \in DOMAIN t.ids : Ns(t.ids[i]) = Ns(t.ids[j])

TasksUniform == generation > 0 => \A n \in DOMAIN tasks : TaskUniform(tasks[n])

\* A mismatch that is recorded as first seen at some time was seen then and in every
\* generation since, without a change in between: a change resets its age, whichever
\* of the document's rows is read first, and whatever is retried.
AgeSound ==
    \A m \in mismatches :
        /\ m.first \in 1..m.generation + 1
        /\ \A g \in m.first - 1 .. m.generation : <<m.doc, g>> \in seen
        /\ \A g \in m.first .. m.generation : <<m.doc, g>> \notin changed

\* A mismatch of a document that did not change keeps its age.
AgeKept ==
    \A m \in mismatches :
        (m.generation > 0 /\ <<m.doc, m.generation>> \notin changed) =>
            m.first <= m.generation

\* countMismatchesForGeneration counts a document that failed once per task that
\* has it, even if the task was retried, unless the clearing failed too.
CountedOnce ==
    \A m, o \in Counted(generation) :
        (m.task = o.task /\ m.doc = o.doc /\ ~tasks[m.task].unclear) => m = o

-----------------------------------------------------------------------------
\* The abstract specification.

\* The rows that no task has compared yet.
Due == {row \in rows : ~\E n \in DOMAIN tasks : tasks[n].status # "added" /\ Covers(tasks[n], row)}

Ledger == INSTANCE RecheckLedger WITH Recheck <- Row, owed <- queue, due <- Due

\* What is enqueued in a generation is compared in the next one, before that ends: for
\* each row of the queue a task that covers it is over.
LedgerKept == Ledger!Spec

=============================================================================
