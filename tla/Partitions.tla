----------------------------- MODULE Partitions -----------------------------
(* Partitioning one source collection in generation 0 and reading the          *)
(* partitions, while documents come and go.                                    *)
(*                                                                             *)
(* partitionCollection splits the collection by _id (sampling, walking the     *)
(* index of a DocumentDB source, or computing all bounds first) or in natural  *)
(* order.  Every partition is a document task that is read as soon as it is    *)
(* stored.  Documents that change are rechecked in generation 1, so that only  *)
(* those that stay untouched must be read here.                                *)
EXTENDS Integers, Sequences, FiniteSets, FiniteSetsExt

CONSTANTS
    N,           \* the number of positions that documents can have
    Breaks,      \* the positions after which _ids of other types begin
    MaxChanges,  \* bound: documents that are inserted or deleted
    MaxFailures, \* bound: errors and crashes
    MaxBoth      \* bound: the two together

\* A document's position is that of its _id in the BSON order, or, where natural
\* order is concerned, that of its record ID.
Pos == 1..N
MinKey == 0
MaxKey == N + 1
Bound == MinKey..MaxKey

ASSUME ConstantsOk ==
    /\ N \in Nat \ {0}
    /\ Breaks \subseteq Pos
    /\ MaxChanges \in Nat
    /\ MaxFailures \in Nat
    /\ MaxBoth \in Nat

\* What the verifier knows of the source, and how it is told to partition.  Versions
\* stand for what they can do; DocumentDB has no natural order, and goes by 4.2 or, from
\* its version 5.0 on, by 8.0 where filters are concerned.
Source == {s \in [version : {"4.2", "4.4", "8.0"}, documentDB : BOOLEAN,
                  natural : BOOLEAN, capped : BOOLEAN] :
               s.documentDB => ~s.natural /\ s.version # "4.4"}

\* MinKey is also the lower bound of a natural partition without a resume token.
Task == [lower : Bound, upper : 1..MaxKey, natural : BOOLEAN, capped : BOOLEAN,
         status : {"added", "typed", "read"}, low : 0..N, high : 0..N, got : SUBSET Pos]

VARIABLES
    source,    \* fixed
    live,      \* the documents in the collection
    touched,   \* history: the documents that were inserted or deleted
    step,      \* where the collection's task is
    lower,     \* lowerBound; the record ID of priorToken
    from,      \* sampling: where the cursor is
    stride,    \* docsPerPartition
    bounds,    \* the bounds not used yet, if all are computed first
    reply,     \* natural order: the record ID in the cursor's last reply, or 0
    tasks,     \* the document tasks, in the order of their insertion
    again,     \* history: the collection's task was retried in this run
    cut,       \* history: sampling's cursor failed, and that was taken for its end
    changes,
    failures

collection == <<live, touched, changes>>
progress == <<lower, from, stride, bounds, reply>>
history == <<again, cut>>
partitioner == <<step, progress, history>>
vars == <<source, collection, partitioner, tasks, failures>>

-----------------------------------------------------------------------------
\* What a version can do.

HasSampleRate == source.version # "4.2"
CanResumeFind == source.version # "4.2"
CanUseStartAt == source.version = "8.0"
CanUseExpr == source.version = "8.0"

-----------------------------------------------------------------------------
\* Filters on _id.

\* SameSortBracket: the server compares _ids of these types with each other.
SameSortBracket(a, b) == \A k \in Breaks \union {MinKey, N} : a <= k <=> b <= k

\* getExprPredicates
ExprFilter(lo, up) == {d \in Pos : lo <= d /\ d <= up}

\* A plain comparison matches only what is in the bracket of its operand.
AtLeast(lo) == {d \in Pos : SameSortBracket(d, lo) /\ lo <= d}
AtMost(up) == {d \in Pos : SameSortBracket(d, up) /\ d <= up}

\* getTypeBracketExcludedBSONTypes: the documents with _ids of the types before and
\* after those that sort with the value.
EarlierTypes(b) == {d \in Pos : d < b /\ ~SameSortBracket(d, b)}
LaterTypes(b) == {d \in Pos : b < d /\ ~SameSortBracket(d, b)}

\* The types between the bounds'; after MaxKey there are none.
Between_AllLater(lo, up) == LaterTypes(lo)
Between(lo, up) == IF up = MaxKey THEN LaterTypes(lo) ELSE LaterTypes(lo) \intersect EarlierTypes(up)

\* getExplicitTypeCheckPredicates.  What cannot be below MinKey has no comparison with it.
ExplicitFilter(lo, up) ==
    LET atLeast == IF lo = MinKey THEN {} ELSE AtLeast(lo) IN
    IF up = MaxKey THEN atLeast \union Between(lo, up)
    ELSE IF lo < up /\ ~SameSortBracket(lo, up)
        THEN atLeast \union AtMost(up) \union Between(lo, up)
    ELSE atLeast \intersect AtMost(up)

\* FilterIdBounds
FilterIdBounds(lo, up) ==
    IF CanUseExpr THEN ExprFilter(lo, up) ELSE ExplicitFilter(lo, up)

\* RangeIdPredicates
RangeFilter(lo, up) ==
    {d \in Pos : (lo # MinKey => d \in AtLeast(lo)) /\ (up # MaxKey => d \in AtMost(up))}

\* idRangeFilterIsExact, with the lowest and the highest _id where it asks for them.
RangeExact(t) ==
    \/ t.lower = MinKey /\ t.upper = MaxKey
    \/ t.lower # MinKey /\ t.upper # MaxKey /\ SameSortBracket(t.lower, t.upper)
    \/ t.lower = MinKey /\ t.upper # MaxKey /\ t.low # 0 /\ SameSortBracket(t.low, t.upper)
    \/ t.lower # MinKey /\ t.upper = MaxKey /\ t.high # 0 /\ SameSortBracket(t.high, t.lower)

\* canUseIdRangeFilter
UsesRange(t) == source.documentDB /\ ~t.capped /\ ~t.natural /\ RangeExact(t)

NeedsExtremes(t) ==
    /\ source.documentDB /\ ~t.capped /\ ~t.natural
    /\ (t.lower = MinKey) # (t.upper = MaxKey)

\* getQueryParameters: a capped collection is read without a filter.
Selected(t) ==
    IF t.capped THEN Pos
    ELSE IF UsesRange(t) THEN RangeFilter(t.lower, t.upper)
    ELSE FilterIdBounds(t.lower, t.upper)

-----------------------------------------------------------------------------
\* Natural order.

\* FetchPriorResumeTokens: the tokens of partitions that begin before record r.
PriorTokens(r) ==
    {tasks[i].lower : i \in {j \in DOMAIN tasks : tasks[j].natural /\ tasks[j].lower < r}}
        \ {MinKey}

\* $_startAt: the cursor starts at the token's record, or at the next one.
StartAt(r) == {d \in live : r <= d}

\* openBackupNaturalCursor: $_resumeAfter fails if the token's record is gone; of the
\* tokens whose record is not, the latest one is used, and without any the cursor starts
\* at the beginning.
ResumeAfter(r) ==
    LET valid == (PriorTokens(r) \union {r}) \intersect live
    IN IF valid = {} THEN live ELSE {d \in live : d > Max(valid)}

\* openSourceCursor
FromToken(r) ==
    IF r = MinKey THEN live ELSE IF CanUseStartAt THEN StartAt(r) ELSE ResumeAfter(r)

\* processCursor: records before the partition are skipped, one after it ends the read.
NaturalRead_NoSkip(t) == {d \in FromToken(t.lower) : d <= t.upper}
NaturalRead(t) == {d \in FromToken(t.lower) : t.lower <= d /\ d <= t.upper}

-----------------------------------------------------------------------------
\* The collection.

InsertDoc(d) ==
    /\ changes < MaxChanges
    /\ changes + failures < MaxBoth
    /\ d \notin live
    /\ live' = live \union {d}
    /\ touched' = touched \union {d}
    /\ changes' = changes + 1
    /\ UNCHANGED <<source, partitioner, tasks, failures>>

DeleteDoc(d) ==
    /\ changes < MaxChanges
    /\ changes + failures < MaxBoth
    /\ d \in live
    /\ live' = live \ {d}
    /\ touched' = touched \union {d}
    /\ changes' = changes + 1
    /\ UNCHANGED <<source, partitioner, tasks, failures>>

-----------------------------------------------------------------------------
\* The collection's task.

\* The partitioner's local variables, when it begins and when it has returned.
Fresh ==
    /\ lower' = MinKey
    /\ from' = MinKey
    /\ stride' = 1
    /\ bounds' = {}
    /\ reply' = 0

NewTask(lo, up, natural, capped) ==
    [lower |-> lo, upper |-> up, natural |-> natural, capped |-> capped,
     status |-> "added", low |-> 0, high |-> 0, got |-> {}]

\* InsertPartitionVerificationTask
AddPartition(lo, up, natural, capped) == tasks' = Append(tasks, NewTask(lo, up, natural, capped))

\* GetSizeAndDocumentCount: the server's statistics, which need not be right.
ReadSize ==
    /\ step = "collection"
    /\ step' \in {"small", "large"}
    /\ UNCHANGED <<source, collection, progress, history, tasks, failures>>

\* partitionCollection: a small collection.
SinglePartition ==
    /\ step = "small"
    /\ AddPartition(MinKey, MaxKey, FALSE, source.capped)
    /\ step' = "partitioned"
    /\ UNCHANGED <<source, collection, progress, history, failures>>

Partitioner ==
    IF source.natural THEN (IF CanResumeFind THEN "top" ELSE "whole")
    ELSE IF source.documentDB THEN "walk"
    ELSE IF HasSampleRate THEN "sample" ELSE "list"

\* partitionCollection: a large one.
StartPartitioning ==
    /\ step = "large"
    /\ step' = Partitioner
    /\ UNCHANGED <<source, collection, progress, history, tasks, failures>>

\* findLatestPartitionUpperBound: where an earlier attempt has stopped.
LatestUpper_None == MinKey
LatestUpper == IF tasks = <<>> THEN MinKey ELSE Max({tasks[i].upper : i \in DOMAIN tasks})

\* createPartitionTasksWithSampleRateRetryable: resume, and open the cursor.
BeginSampling ==
    /\ step = "sample"
    /\ lower' = LatestUpper
    /\ from' = LatestUpper
    /\ step' = "sampling"
    /\ UNCHANGED <<source, collection, stride, bounds, reply, history, tasks, failures>>

\* The cursor returns another of the documents, which it picks at random.
SampleNext(d) ==
    /\ step = "sampling"
    /\ d \in live
    /\ from <= d
    /\ d \in FilterIdBounds(lower, MaxKey)
    /\ AddPartition(lower, d, FALSE, source.capped)
    /\ lower' = d
    /\ from' = d + 1
    /\ UNCHANGED <<source, collection, step, stride, bounds, reply, history, failures>>

SampleEnd ==
    /\ step = "sampling"
    /\ AddPartition(lower, MaxKey, FALSE, source.capped)
    /\ step' = "partitioned"
    /\ Fresh
    /\ UNCHANGED <<source, collection, history, failures>>

\* docsPerPartitionFor: any number, and more than there are documents for MaxInt64.
DocsPerPartition == 1..N + 1

\* createPartitionTasksWithIndexWalkRetryable
BeginWalk ==
    /\ step = "walk"
    /\ stride' \in DocsPerPartition
    /\ lower' = LatestUpper
    /\ step' = "walking"
    /\ UNCHANGED <<source, collection, from, bounds, reply, history, tasks, failures>>

\* findNextIDBoundary: the stride-th document after the bound, of those that its range
\* query, which has brackets, matches.
After == {d \in live : lower < d /\ (lower # MinKey => SameSortBracket(d, lower))}
NextIDBoundary == {d \in After : Cardinality({e \in After : e <= d}) = stride}

WalkNext(d) ==
    /\ step = "walking"
    /\ d \in NextIDBoundary
    /\ AddPartition(lower, d, FALSE, FALSE)
    /\ lower' = d
    /\ UNCHANGED <<source, collection, step, from, stride, bounds, reply, history, failures>>

\* The last partition, which is open: _ids of later types are in it.
WalkUpper_Walked == IF After = {} THEN lower ELSE Max(After)
WalkUpper == MaxKey

WalkEnd ==
    /\ step = "walking"
    /\ NextIDBoundary = {}
    /\ AddPartition(lower, WalkUpper, FALSE, FALSE)
    /\ step' = "partitioned"
    /\ Fresh
    /\ UNCHANGED <<source, collection, history, failures>>

\* getMidIDBounds: the bounds of a sample's buckets.
MidIDBounds == SUBSET live

\* partitionCollectionWithParameters: a capped collection is not split.
ListBounds ==
    /\ step = "list"
    /\ bounds' \in (IF source.capped THEN {{}} ELSE MidIDBounds)
    /\ step' = "listed"
    /\ UNCHANGED <<source, collection, lower, from, stride, reply, history, tasks, failures>>

AddListed ==
    /\ step = "listed"
    /\ LET up == IF bounds = {} THEN MaxKey ELSE Min(bounds) IN
        /\ AddPartition(lower, up, FALSE, source.capped)
        /\ IF up = MaxKey
            THEN /\ Fresh
                 /\ step' = "partitioned"
            ELSE /\ lower' = up
                 /\ bounds' = bounds \ {up}
                 /\ UNCHANGED <<step, from, stride, reply>>
    /\ UNCHANGED <<source, collection, history, failures>>

\* GetTopRecordID
TopRecordID == IF live = {} THEN 0 ELSE Max(live)

\* CreateSingleNaturalOrderPartition
WholeNatural_NoCheck ==
    /\ step = "whole"
    /\ AddPartition(MinKey, TopRecordID, TRUE, FALSE)
    /\ step' = "partitioned"
    /\ UNCHANGED <<source, collection, progress, history, failures>>

WholeNatural ==
    /\ step = "whole"
    /\ IF TopRecordID = 0 THEN UNCHANGED tasks ELSE AddPartition(MinKey, TopRecordID, TRUE, FALSE)
    /\ step' = "partitioned"
    /\ UNCHANGED <<source, collection, progress, history, failures>>

\* PartitionCollectionNaturalOrder reads the top record ID.  If there is none, it returns
\* no channel, and partitionCollection waits for one forever.
ReadTopRecordID ==
    /\ step = "top"
    /\ step' = IF TopRecordID = 0 THEN "waiting" ELSE "replies"
    /\ UNCHANGED <<source, collection, progress, history, tasks, failures>>

\* The cursor's reply has the next of the records that it samples.
SampledReply(d) ==
    /\ step = "replies"
    /\ reply = 0
    /\ d \in live
    /\ lower < d
    /\ reply' = d
    /\ UNCHANGED <<source, collection, step, lower, from, stride, bounds, history, tasks, failures>>

\* It becomes the upper bound of a partition, and its token the next one's lower bound.
NaturalPartition ==
    /\ step = "replies"
    /\ reply # 0
    /\ AddPartition(lower, reply, TRUE, FALSE)
    /\ lower' = reply
    /\ reply' = 0
    /\ UNCHANGED <<source, collection, step, from, stride, bounds, history, failures>>

\* The cursor has come to the end of the collection.  With its last reply it is finished,
\* so that the loop ends before that reply, which has no record ID, is looked at.
LastReply ==
    /\ step = "replies"
    /\ reply = 0
    /\ step' = "partitioned"
    /\ Fresh
    /\ UNCHANGED <<source, collection, history, tasks, failures>>

\* The task is stored as done.
CompleteCollection ==
    /\ step = "partitioned"
    /\ step' = "done"
    /\ UNCHANGED <<source, collection, progress, history, tasks, failures>>

-----------------------------------------------------------------------------
\* Failures.

Fail ==
    /\ failures < MaxFailures
    /\ changes + failures < MaxBoth
    /\ failures' = failures + 1

\* A query of a partitioner by _id or the insertion of a partition fails, and the
\* partitioner is called again.  Sampling's cursor is another matter once it is open.
RetryPartitioner ==
    /\ step \in {"sampling", "walking"}
    /\ Fail
    /\ step' = Partitioner
    /\ Fresh
    /\ UNCHANGED <<source, collection, history, tasks>>

\* The cursor fails while sampling goes on.  What is returned is the wrapped error of the
\* last insertion, which is none: no partition up to MaxKey is stored, and no one tries again.
SampleFails ==
    /\ step = "sampling"
    /\ Fail
    /\ step' = "partitioned"
    /\ cut' = TRUE
    /\ Fresh
    /\ UNCHANGED <<source, collection, again, tasks>>

\* processAnyTask: the collection's task fails as a whole, and is tried again.
RetryCollection ==
    /\ step \notin {"collection", "waiting", "done"}
    /\ Fail
    /\ step' = "collection"
    /\ again' = TRUE
    /\ cut' = FALSE
    /\ Fresh
    /\ UNCHANGED <<source, collection, tasks>>

\* The verifier is started again.  A partitioning that was cut short is done from
\* scratch, also one whose task could not be inserted because it already was; tasks
\* that were in progress are reset.
Crash ==
    /\ Fail
    /\ IF step = "done"
        THEN /\ tasks' = [i \in DOMAIN tasks |->
                            IF tasks[i].status = "typed"
                                THEN [tasks[i] EXCEPT !.status = "added", !.low = 0, !.high = 0]
                                ELSE tasks[i]]
             /\ UNCHANGED <<step, history>>
        ELSE /\ tasks' = <<>>
             /\ step' = "collection"
             /\ again' = FALSE
             /\ cut' = FALSE
    /\ Fresh
    /\ UNCHANGED <<source, collection>>

-----------------------------------------------------------------------------
\* The document tasks.

\* findExtremeIDType
Lowest == IF live = {} THEN 0 ELSE Min(live)
Highest == IF live = {} THEN 0 ELSE Max(live)

\* getIDTypeExtremes
ReadExtremes(i) ==
    /\ tasks[i].status = "added"
    /\ NeedsExtremes(tasks[i])
    /\ tasks' = [tasks EXCEPT ![i].status = "typed",
                              ![i].low = Lowest, ![i].high = Highest]
    /\ UNCHANGED <<source, collection, partitioner, failures>>

\* getDocumentsCursor: the task's source documents are read by _id.
ReadById(i) ==
    /\ ~tasks[i].natural
    /\ tasks[i].status = (IF NeedsExtremes(tasks[i]) THEN "typed" ELSE "added")
    /\ tasks' = [tasks EXCEPT ![i].status = "read", ![i].low = 0, ![i].high = 0,
                              ![i].got = live \intersect Selected(tasks[i])]
    /\ UNCHANGED <<source, collection, partitioner, failures>>

\* ReadNaturalPartitionFromSource
ReadNaturally(i) ==
    /\ tasks[i].natural
    /\ tasks[i].status = "added"
    /\ tasks' = [tasks EXCEPT ![i].status = "read", ![i].got = NaturalRead(tasks[i])]
    /\ UNCHANGED <<source, collection, partitioner, failures>>

-----------------------------------------------------------------------------
Init ==
    /\ source \in Source
    /\ live \in SUBSET Pos
    /\ touched = {}
    /\ step = "collection"
    /\ lower = MinKey
    /\ from = MinKey
    /\ stride = 1
    /\ bounds = {}
    /\ reply = 0
    /\ tasks = <<>>
    /\ again = FALSE
    /\ cut = FALSE
    /\ changes = 0
    /\ failures = 0

Partition ==
    \/ ReadSize \/ SinglePartition \/ StartPartitioning \/ CompleteCollection
    \/ BeginSampling \/ (\E d \in Pos : SampleNext(d)) \/ SampleEnd
    \/ BeginWalk \/ (\E d \in Pos : WalkNext(d)) \/ WalkEnd
    \/ ListBounds \/ AddListed
    \/ WholeNatural \/ ReadTopRecordID \/ LastReply \/ NaturalPartition
    \/ (\E d \in Pos : SampledReply(d))

Next ==
    \/ \E d \in Pos : InsertDoc(d) \/ DeleteDoc(d)
    \/ Partition
    \/ RetryPartitioner \/ SampleFails \/ RetryCollection \/ Crash
    \/ \E i \in DOMAIN tasks : ReadExtremes(i) \/ ReadById(i) \/ ReadNaturally(i)

Spec == Init /\ [][Next]_vars

-----------------------------------------------------------------------------
\* Every variable keeps its type; no partition has an upper bound that no record or
\* _id can have.
TypeOK ==
    /\ source \in Source
    /\ live \subseteq Pos
    /\ touched \subseteq Pos
    /\ step \in {"collection", "small", "large", "sample", "sampling", "walk", "walking", "list", "listed",
                 "whole", "top", "waiting", "replies", "partitioned", "done"}
    /\ lower \in Bound
    /\ from \in 0..N + 1
    /\ stride \in 1..N + 1
    /\ bounds \subseteq Pos
    /\ reply \in 0..N
    /\ tasks \in Seq(Task)
    /\ again \in BOOLEAN
    /\ cut \in BOOLEAN
    /\ changes \in 0..MaxChanges
    /\ failures \in 0..MaxFailures

\* The documents that must be read: those that were there from the start to now.
Untouched == live \ touched

Read(t) == t.status = "read"

\* Whatever filter is used and whatever resume tokens are gone, reading a partition
\* finds every untouched document between its bounds, and none beyond.
ReadExact ==
    \A i \in DOMAIN tasks : LET t == tasks[i] IN
        (Read(t) /\ ~t.capped) =>
            \A d \in Untouched :
                /\ (t.lower < d /\ d <= t.upper) => d \in t.got
                /\ d \in t.got => (t.lower <= d /\ d <= t.upper)

\* The two clusters may get different filters for a partition, one by expressions and one
\* by explicit types: they select the same documents.
FiltersAgree ==
    \A i \in DOMAIN tasks : LET t == tasks[i] IN
        ~t.natural => ExplicitFilter(t.lower, t.upper) = ExprFilter(t.lower, t.upper)

AllRead == step = "done" /\ \A i \in DOMAIN tasks : Read(tasks[i])

\* Partitioning by _id leaves no gap, however often it is resumed, retried or started
\* over: every untouched document is read by some task.  In natural order, and where a
\* failure of sampling's cursor was taken for its end, this is so up to the last
\* partition's upper bound.
Covered ==
    AllRead =>
        \A d \in Untouched :
            ((source.natural \/ cut) => \E i \in DOMAIN tasks : d <= tasks[i].upper) =>
                \E i \in DOMAIN tasks : d \in tasks[i].got

\* Partitions overlap in nothing but their bounds, also when partitioning was resumed: no
\* document is compared over and over.  A retry of the whole task may add others.
Disjoint ==
    (~again /\ ~source.capped) =>
        \A i, j \in DOMAIN tasks : i # j =>
            \A d \in (tasks[i].got \intersect tasks[j].got) \ touched :
                d \in {tasks[i].lower, tasks[i].upper} /\ d \in {tasks[j].lower, tasks[j].upper}

\* Also in natural order every untouched document is read by some task: 'We prevent this
\* by querying the top record ID at partitioning time and setting that as the last
\* partition's upper bound' (architecture/partitioning.md).
TailCovered ==
    AllRead => \A d \in Untouched : \E i \in DOMAIN tasks : d \in tasks[i].got

=============================================================================
