----------------------------- MODULE Comparator -----------------------------
(***************************************************************************)
(* One document task: comparator.go, compare.go, compare/natural.go and    *)
(* ProcessVerifyTask (migration_verifier.go) of internal/verifier.         *)
(*                                                                         *)
(* Two readers send the source's and the destination's documents, in       *)
(* chunks, to the comparator, which pairs them and reports what differs to *)
(* the task's worker.  Under _id partitioning the readers are independent; *)
(* under natural partitioning the source reader also sends the ids of each *)
(* server reply to the destination reader, which queries for just those.   *)
(* The three run in one group: the first to return an error cancels the    *)
(* others, and after a transient error the retryer starts them all again,  *)
(* with new channels.  Reports already sent are not taken back.            *)
(*                                                                         *)
(* Documents do not change while the task runs (what changes is            *)
(* Generations' subject); a message is the set of its documents, since the *)
(* comparator pairs them by id whatever their order.  A goroutine whose    *)
(* context is cancelled while another branch of its select is ready may    *)
(* take either.                                                            *)
(***************************************************************************)
EXTENDS Integers, Sequences, FiniteSets

CONSTANTS
    Docs,            \* number of documents, which are 1..Docs in reading order
    BatchSize,       \* ToComparatorBatchSize
    ReplySize,       \* most documents in one reply of the server to a natural scan
    IdsCap,          \* capacity of srcToDstChannel
    MaxProblems,     \* comparatorMaxProblemsLen
    ResultsCap,      \* capacity of resultsChan
    MaxTaskAttempts, \* processAnyTask: attempts at a task
    None,            \* no value
    MaxFailures      \* bound: failures of readers, writes and of the readers' progress

ASSUME SizeAssumption ==
    /\ Docs \in Nat
    /\ {BatchSize, ReplySize, IdsCap, MaxProblems, ResultsCap, MaxTaskAttempts}
           \subseteq Nat \ {0}
    /\ MaxFailures \in Nat

Doc  == 1..Docs
Side == {"src", "dst"}

\* What is wrong with a document: its fields differ, the destination lacks it,
\* or only the destination has it.
Defect  == {"differs", "missing", "extra"}
Problem == [doc : Doc, defect : Defect]

Failure == {"transient", "fatal"}

\* mo.Result: a report or an error.
Result == [problems : SUBSET Problem, error : Failure \cup {None}]

ASSUME NoneAssumption == None \notin Failure /\ None \notin Result

VARIABLES
    condition,   \* external: of each document, "same" or its defect
    natural,     \* Partition.Natural; FALSE: an _id range or a list of ids
    \* --- the readers, by side ---
    rpc,         \* where the reader is
    left,        \* documents its cursor has still to deliver
    reply,       \* natural: documents of the source's reply not yet sent to compare
    ids,         \* natural: srcToDstChannel
    pads,        \* natural: padding messages to send
    closed,      \* sides whose channel to the comparator is closed
    \* --- the comparator ---
    cpc,         \* where the comparator is
    got,         \* sides of which readBatches has this round's message
    batch,       \* its documents, by side
    ended,       \* srcClosed, dstClosed: sides it has seen closed
    cursorDone,  \* dstCursorDone
    cache,       \* srcCache, dstCache: documents without a peer, by side
    problems,
    \* --- the group and the retryer ---
    cancelled,   \* the group's context is cancelled
    cause,       \* the error that the group returns, or None
    ingest,      \* the report that StartIngestMap's goroutine holds, or None
    results,     \* resultsChan: reports and errors
    resultsOver, \* resultsChan is closed
    \* --- the worker ---
    status,      \* of the task
    saving,      \* "record", "recheck": writes of the last report still to do
    unsaved,     \* that report's problems
    found,       \* problemsCount > 0
    recorded,    \* durable: the task's mismatches
    rechecks,    \* durable: documents enqueued for the next generation
    attempt,     \* of processAnyTask's retryer
    failures,
    misled       \* history: the comparator has taken the closed channel of a reader
                 \* that was not done for the end of its documents

task    == <<condition, natural>>
reading == <<rpc, left, reply, ids, pads, closed>>
compare == <<cpc, got, batch, ended, cursorDone, cache, problems>>
group   == <<cancelled, cause>>
outcome == <<ingest, results, resultsOver>>
saves   == <<saving, unsaved, found, recorded, rechecks>>
worker  == <<status, saves, attempt>>

vars == <<task, reading, compare, group, outcome, worker, failures, misled>>

Running == status = "processing"

Smaller(a, b) == IF a < b THEN a ELSE b

\* The documents of one side.
On(s) == {d \in Doc : condition[d] # (IF s = "src" THEN "extra" ELSE "missing")}

\* No documents of either side.
Neither == [s \in Side |-> {}]

\* ToComparatorBatchCount.
BatchCount(n) == (n + BatchSize - 1) \div BatchSize

\* The next n documents, or all if there are fewer, of those left.
Next_n(C, n, rest) ==
    /\ C \subseteq rest
    /\ Cardinality(C) = Smaller(n, Cardinality(rest))
    /\ \A c \in C, d \in rest \ C : c < d

\* A goroutine of the group returns an error: the first one cancels the group.
ReturnError(kind) ==
    /\ cancelled' = TRUE
    /\ cause' = IF cause = None THEN kind ELSE cause

\* A query that finds fewer documents than it asks for sends fewer chunks than the
\* source sent for its reply; the comparator waits for as many.
Padding_None(asked, present) == 0
Padding(asked, present) == BatchCount(asked) - BatchCount(present)

MayFail == failures < MaxFailures /\ failures' = failures + 1

-----------------------------------------------------------------------------
(* The readers *)

\* The reader opens its session and, unless it awaits ids, its cursor.
Open(s) ==
    /\ Running /\ rpc[s] = "open" /\ ~cancelled
    /\ rpc' = [rpc EXCEPT ![s] = IF natural /\ s = "dst" THEN "ids" ELSE "read"]
    /\ left' = [left EXCEPT ![s] = IF natural /\ s = "dst" THEN {} ELSE On(s)]
    /\ UNCHANGED <<task, misled, reply, ids, pads, closed, compare, group, outcome,
                   worker, failures>>

\* An _id reader that cannot open its cursor returns without closing its channel;
\* a natural one closes it (and the source's also srcToDstChannel) by a defer.
OpenFails(s) ==
    /\ Running /\ rpc[s] = "open"
    /\ IF cancelled THEN UNCHANGED failures ELSE MayFail
    /\ rpc' = [rpc EXCEPT ![s] = "failed"]
    /\ closed' = IF natural THEN closed \cup {s} ELSE closed
    /\ \E kind \in Failure : ReturnError(kind)
    /\ UNCHANGED <<task, misled, left, reply, ids, pads, compare, outcome, worker>>

\* A select between a message and the cancelled context: the message.
Receive(s, docs) ==
    /\ cpc = "read" /\ s \notin got
    /\ got' = got \cup {s}
    /\ batch' = [batch EXCEPT ![s] = docs]
    /\ UNCHANGED <<cpc, ended, cursorDone, cache, problems>>

\* iterateCursorToChannel sends a chunk, which on an _id reader the byte limit may
\* cut short.
Send(s) ==
    /\ Running /\ rpc[s] = "read" /\ left[s] # {}
    /\ ~(natural /\ s = "src")
    /\ \E n \in (IF natural THEN {BatchSize} ELSE 1..BatchSize), C \in SUBSET left[s] :
          /\ Next_n(C, n, left[s])
          /\ Receive(s, C)
          /\ left' = [left EXCEPT ![s] = @ \ C]
    /\ UNCHANGED <<task, misled, rpc, reply, ids, pads, closed, group, outcome, worker,
                   failures>>

RoomForIds_OneMore == Len(ids) <= IdsCap
RoomForIds == Len(ids) < IdsCap

\* processCursor has read one reply: flushSourceBatch sends its ids to the
\* destination reader.
SendIds ==
    /\ Running /\ natural /\ rpc["src"] = "read" /\ reply = {}
    /\ RoomForIds
    /\ \E n \in 1..ReplySize, R \in SUBSET left["src"] :
          /\ R # {} /\ Next_n(R, n, left["src"])
          /\ ids' = Append(ids, R)
          /\ reply' = R
          /\ left' = [left EXCEPT !["src"] = @ \ R]
    /\ UNCHANGED <<task, misled, rpc, pads, closed, compare, group, outcome, worker,
                   failures>>

\* ... and then its documents, in chunks, to the comparator.
SendReply ==
    /\ Running /\ rpc["src"] = "read" /\ reply # {}
    /\ \E C \in SUBSET reply :
          /\ Next_n(C, BatchSize, reply)
          /\ Receive("src", C)
          /\ reply' = reply \ C
    /\ UNCHANGED <<task, misled, rpc, left, ids, pads, closed, group, outcome, worker,
                   failures>>

\* The reader has sent everything and closes its channel.
Exhausted(s) ==
    /\ Running /\ rpc[s] = "read" /\ left[s] = {} /\ reply = {}
    /\ ~(natural /\ s = "dst")
    /\ rpc' = [rpc EXCEPT ![s] = "done"]
    /\ closed' = closed \cup {s}
    /\ UNCHANGED <<task, misled, left, reply, ids, pads, compare, group, outcome,
                   worker, failures>>

\* Natural: the destination reader queries for the ids of a reply.
TakeIds ==
    /\ Running /\ rpc["dst"] = "ids" /\ ids # <<>>
    /\ rpc' = [rpc EXCEPT !["dst"] = "read"]
    /\ ids' = Tail(ids)
    /\ left' = [left EXCEPT !["dst"] = Head(ids) \cap On("dst")]
    /\ pads' = Padding(Cardinality(Head(ids)), Cardinality(Head(ids) \cap On("dst")))
    /\ UNCHANGED <<task, misled, reply, closed, compare, group, outcome, worker,
                   failures>>

\* Natural: the query is over; padding makes up for the chunks that the source
\* sent and the destination did not.
SendPadding ==
    /\ Running /\ natural /\ rpc["dst"] = "read" /\ left["dst"] = {} /\ pads > 0
    /\ Receive("dst", {})
    /\ pads' = pads - 1
    /\ UNCHANGED <<task, misled, rpc, left, reply, ids, closed, group, outcome, worker,
                   failures>>

\* ... and the cursor-done message, after which the comparator goes on waiting for
\* a message in the same round.
SendCursorDone ==
    /\ Running /\ natural /\ rpc["dst"] = "read" /\ left["dst"] = {} /\ pads = 0
    /\ cpc = "read" /\ "dst" \notin got
    /\ rpc' = [rpc EXCEPT !["dst"] = "ids"]
    /\ cursorDone' = TRUE
    /\ UNCHANGED <<task, misled, left, reply, ids, pads, closed, cpc, got, batch, ended,
                   cache, problems, group, outcome, worker, failures>>

\* The source reader is gone, and with it srcToDstChannel.
IdsOver ==
    /\ Running /\ rpc["dst"] = "ids" /\ ids = <<>> /\ "src" \in closed
    /\ rpc' = [rpc EXCEPT !["dst"] = "done"]
    /\ closed' = closed \cup {"dst"}
    /\ UNCHANGED <<task, misled, left, reply, ids, pads, compare, group, outcome,
                   worker, failures>>

\* A cursor fails, or sees the cancelled context: the channel is closed first, then
\* (_id) the cursor and the session, and only then is the error returned.
CursorFails(s) ==
    /\ Running /\ rpc[s] \in {"read", "ids"}
    /\ IF cancelled THEN UNCHANGED failures ELSE MayFail
    /\ rpc' = [rpc EXCEPT ![s] = "closing"]
    /\ closed' = closed \cup {s}
    /\ UNCHANGED <<task, misled, left, reply, ids, pads, compare, group, outcome,
                   worker>>

Fails(s) ==
    /\ Running /\ rpc[s] = "closing"
    /\ rpc' = [rpc EXCEPT ![s] = "failed"]
    /\ \E kind \in Failure : ReturnError(kind)
    /\ UNCHANGED <<task, misled, left, reply, ids, pads, closed, compare, outcome,
                   worker, failures>>

-----------------------------------------------------------------------------
(* The comparator *)

\* A reader closes its channel whether or not it has sent everything, so the
\* comparator cannot tell.  Under _id partitioning nothing is reported before both
\* channels are closed.
Misled(E) == (natural \/ E = Side) /\ \E s \in E : rpc[s] # "done"

\* The channel is closed.
SeeClosed(s) ==
    /\ Running /\ s \in closed
    /\ cpc = "read" /\ s \notin got
    /\ got' = got \cup {s}
    /\ ended' = ended \cup {s}
    /\ misled' = (misled \/ Misled(ended'))
    /\ UNCHANGED <<task, reading, cpc, batch, cursorDone, cache, problems, group,
                   outcome, worker, failures>>

\* readBatches returns when it has a message, or the end, of either side.
RoundOver == got = Side

Unpaired == Cardinality(cache["src"]) + Cardinality(cache["dst"])

\* A document that is still without a peer when the comparator flushes is missing.
Report ==
    problems \cup [doc : cache["src"], defect : {"missing"}]
             \cup [doc : cache["dst"], defect : {"extra"}]

Cached == Unpaired + Cardinality(problems)

FlushDue_OverLimit == cursorDone /\ Cached > MaxProblems
FlushDue == cursorDone /\ Cached >= MaxProblems

SendReport ==
    /\ ingest = None
    /\ ingest' = [problems |-> Report, error |-> None]
    /\ problems' = {}
    /\ cache' = Neither

FlushCursor_AnyRound ==
    /\ Running /\ cpc = "read" /\ RoundOver
    /\ Cached > 0
    /\ SendReport
    /\ cursorDone' = FALSE
    /\ UNCHANGED <<task, misled, reading, cpc, got, batch, ended, group, results,
                   resultsOver, worker, failures>>

\* The destination's cursor is done, so what it did not find is missing; the batch
\* at hand is of the next cursor.  comparatorMaxVariableBytes may be reached before
\* MaxProblems, but not with nothing cached.
FlushCursor ==
    /\ Running /\ cpc = "read" /\ RoundOver
    /\ cursorDone /\ Cached > 0
    /\ SendReport
    /\ cursorDone' = FALSE
    /\ UNCHANGED <<task, misled, reading, cpc, got, batch, ended, group, results,
                   resultsOver, worker, failures>>

Paired == (cache["src"] \cup batch["src"]) \cap (cache["dst"] \cup batch["dst"])

\* processSingleDoc on each document of the round.
Compare ==
    /\ Running /\ cpc = "read" /\ RoundOver
    /\ ~FlushDue
    /\ problems' = problems \cup {[doc |-> d, defect |-> condition[d]] :
                                   d \in {d \in Paired : condition[d] # "same"}}
    /\ cache' = [s \in Side |-> (cache[s] \cup batch[s]) \ Paired]
    /\ batch' = Neither
    /\ got' = ended
    /\ cursorDone' = FALSE
    /\ cpc' = IF ended = Side THEN "flush" ELSE "read"
    /\ UNCHANGED <<task, misled, reading, ended, group, outcome, worker, failures>>

FlushLast_IfProblems ==
    /\ Running /\ cpc = "flush"
    /\ IF Report = {} THEN UNCHANGED <<ingest, problems, cache>> ELSE SendReport
    /\ cpc' = "flushed"
    /\ UNCHANGED <<task, misled, reading, got, batch, ended, cursorDone, group, results,
                   resultsOver, worker, failures>>

\* Both channels are closed: the last report, which may be empty.
FlushLast ==
    /\ Running /\ cpc = "flush"
    /\ SendReport
    /\ cpc' = "flushed"
    /\ UNCHANGED <<task, misled, reading, got, batch, ended, cursorDone, group, results,
                   resultsOver, worker, failures>>

\* StartIngestMap's goroutine moves the report to resultsChan, or drops it when the
\* context is cancelled.
Ingest ==
    /\ Running /\ ingest # None
    /\ \/ Len(results) < ResultsCap /\ results' = Append(results, ingest)
       \/ cancelled /\ UNCHANGED results
    /\ ingest' = None
    /\ UNCHANGED <<task, misled, reading, compare, group, resultsOver, worker,
                   failures>>

\* The canceler waits for that goroutine.
CompareReturns ==
    /\ Running /\ cpc = "flushed" /\ ingest = None
    /\ cpc' = "done"
    /\ UNCHANGED <<task, misled, reading, got, batch, ended, cursorDone, cache,
                   problems, group, outcome, worker, failures>>

\* The comparator waits for a message, or to send a report, and sees the cancelled
\* context.
CompareCancelled ==
    /\ Running /\ cancelled
    /\ \/ cpc = "read" /\ (~RoundOver \/ (cursorDone /\ Cached > 0))
       \/ cpc = "flush"
    /\ cpc' = "failed"
    /\ UNCHANGED <<task, misled, reading, got, batch, ended, cursorDone, cache,
                   problems, group, outcome, worker, failures>>

\* checkReaderStalled: a reader the comparator waits for has made no progress for
\* readTimeout; this error is not transient.
Stall ==
    /\ Running /\ cpc = "read" /\ ~RoundOver
    /\ MayFail
    /\ cpc' = "failed"
    /\ ReturnError("fatal")
    /\ UNCHANGED <<task, misled, reading, got, batch, ended, cursorDone, cache,
                   problems, outcome, worker>>

-----------------------------------------------------------------------------
(* The retryer *)

\* New channels, a new group and a new comparator.
StartGroup ==
    /\ rpc' = [s \in Side |-> "open"]
    /\ left' = Neither /\ reply' = {} /\ ids' = <<>> /\ pads' = 0 /\ closed' = {}
    /\ cpc' = "read" /\ got' = {} /\ batch' = Neither /\ ended' = {}
    /\ cursorDone' = FALSE /\ cache' = Neither /\ problems' = {}
    /\ cancelled' = FALSE /\ cause' = None
    /\ ingest' = None

AllReturned ==
    /\ \A s \in Side : rpc[s] \in {"done", "failed"}
    /\ cpc \in {"done", "failed"}
    /\ ingest = None

\* No callback failed: resultsChan is closed.
RunEnds ==
    /\ Running /\ AllReturned /\ cause = None /\ ~resultsOver
    /\ resultsOver' = TRUE
    /\ UNCHANGED <<task, misled, reading, compare, group, ingest, results, worker,
                   failures>>

\* A transient error: the next attempt.
RunAgain ==
    /\ Running /\ AllReturned /\ cause = "transient" /\ ~resultsOver
    /\ StartGroup
    /\ UNCHANGED <<task, misled, results, resultsOver, worker, failures>>

\* Any other error, or a transient one when the time for retries is over.
RunFails ==
    /\ Running /\ AllReturned /\ cause # None /\ ~resultsOver
    /\ Len(results) < ResultsCap
    /\ results' = Append(results, [problems |-> {}, error |-> cause])
    /\ resultsOver' = TRUE
    /\ UNCHANGED <<task, misled, reading, compare, group, ingest, worker, failures>>

-----------------------------------------------------------------------------
(* The worker: ProcessVerifyTask and processAnyTask's retryer *)

\* WithMaxAttempts(5).
MayRetryTask == attempt < MaxTaskAttempts

\* ProcessVerifyTask returns an error: processAnyTask tries again after a transient
\* one and clears the task's mismatches first, if it can; otherwise the process ends.
TaskFails(kind) ==
    IF kind = "transient" /\ MayRetryTask
    THEN /\ attempt' = attempt + 1
         /\ StartGroup
         /\ results' = <<>> /\ resultsOver' = FALSE
         /\ saving' = {} /\ unsaved' = {} /\ found' = FALSE
         /\ recorded' \in {{}, recorded}
         /\ UNCHANGED <<task, misled, status, rechecks>>
    ELSE /\ status' = "error"
         /\ UNCHANGED <<task, misled, reading, compare, group, outcome, saves, attempt>>

\* UpdateVerificationTask.
Finish ==
    /\ status' = IF found THEN "failed" ELSE "completed"
    /\ UNCHANGED <<task, misled, reading, compare, group, outcome, saves, attempt,
                   failures>>

AwaitsResult == Running /\ saving = {}

TakeReport ==
    /\ AwaitsResult /\ results # <<>>
    /\ Head(results).error = None /\ Head(results).problems # {}
    /\ results' = Tail(results)
    /\ found' = TRUE
    /\ unsaved' = Head(results).problems
    /\ saving' = {"record", "recheck"}
    /\ UNCHANGED <<task, misled, reading, compare, group, ingest, resultsOver, status,
                   recorded, rechecks, attempt, failures>>

\* "The only problem-free report is the last one."
TakeEmptyReport ==
    /\ AwaitsResult /\ results # <<>>
    /\ Head(results).error = None /\ Head(results).problems = {}
    /\ Finish

TakeError ==
    /\ AwaitsResult /\ results # <<>> /\ Head(results).error # None
    /\ TaskFails(Head(results).error)
    /\ UNCHANGED failures

SeeResultsOver == AwaitsResult /\ results = <<>> /\ resultsOver /\ Finish

\* Mismatches are recorded and rechecks enqueued side by side.
Save ==
    /\ Running
    /\ \E w \in saving :
          /\ saving' = saving \ {w}
          /\ recorded' = IF w = "record" THEN recorded \cup unsaved ELSE recorded
          /\ rechecks' = IF w = "recheck" THEN rechecks \cup {p.doc : p \in unsaved}
                                          ELSE rechecks
    /\ UNCHANGED <<task, misled, reading, compare, group, outcome, status, unsaved,
                   found, attempt, failures>>

SaveFails ==
    /\ Running /\ saving # {}
    /\ MayFail
    /\ \E kind \in Failure : TaskFails(kind)

Init ==
    /\ condition \in [Doc -> Defect \cup {"same"}]
    /\ natural \in BOOLEAN
    /\ status = "processing" /\ attempt = 1 /\ failures = 0 /\ misled = FALSE
    /\ recorded = {} /\ rechecks = {}
    /\ rpc = [s \in Side |-> "open"]
    /\ left = Neither /\ reply = {} /\ ids = <<>> /\ pads = 0 /\ closed = {}
    /\ cpc = "read" /\ got = {} /\ batch = Neither /\ ended = {}
    /\ cursorDone = FALSE /\ cache = Neither /\ problems = {}
    /\ cancelled = FALSE /\ cause = None
    /\ ingest = None /\ results = <<>> /\ resultsOver = FALSE
    /\ saving = {} /\ unsaved = {} /\ found = FALSE

Reader(s) ==
    \/ Open(s) \/ OpenFails(s) \/ Send(s) \/ Exhausted(s) \/ CursorFails(s) \/ Fails(s)

NaturalReaders == SendIds \/ SendReply \/ TakeIds \/ SendPadding \/ SendCursorDone \/ IdsOver

Comparing ==
    \/ \E s \in Side : SeeClosed(s)
    \/ FlushCursor \/ Compare \/ FlushLast \/ CompareReturns \/ CompareCancelled \/ Stall

Retryer == RunEnds \/ RunAgain \/ RunFails

Worker == TakeReport \/ TakeEmptyReport \/ TakeError \/ SeeResultsOver \/ Save

Next ==
    \/ \E s \in Side : Reader(s)
    \/ NaturalReaders \/ Comparing \/ Ingest \/ Retryer \/ Worker \/ SaveFails

Spec == Init /\ [][Next]_vars

\* The goroutines run; nothing forces an error.
Fairness ==
    /\ \A s \in Side :
          /\ WF_vars(Open(s)) /\ WF_vars(Send(s)) /\ WF_vars(Exhausted(s))
          /\ WF_vars(cancelled /\ (OpenFails(s) \/ CursorFails(s)))
          /\ WF_vars(Fails(s)) /\ WF_vars(SeeClosed(s))
    /\ WF_vars(NaturalReaders)
    /\ WF_vars(FlushCursor \/ Compare \/ FlushLast \/ CompareReturns \/ CompareCancelled)
    /\ WF_vars(Ingest) /\ WF_vars(Retryer)
    /\ WF_vars(Worker)

FairSpec == Spec /\ Fairness

-----------------------------------------------------------------------------
(* Properties *)

\* Every variable has the type its comment gives, and the channels their capacity.
TypeOK ==
    /\ condition \in [Doc -> Defect \cup {"same"}]
    /\ natural \in BOOLEAN
    /\ rpc \in [Side -> {"open", "ids", "read", "closing", "done", "failed"}]
    /\ left \in [Side -> SUBSET Doc]
    /\ reply \in SUBSET Doc
    /\ ids \in Seq(SUBSET Doc) /\ Len(ids) <= IdsCap
    /\ pads \in Nat
    /\ closed \in SUBSET Side
    /\ cpc \in {"read", "flush", "flushed", "done", "failed"}
    /\ got \in SUBSET Side
    /\ batch \in [Side -> SUBSET Doc]
    /\ ended \in SUBSET got
    /\ cursorDone \in BOOLEAN
    /\ cache \in [Side -> SUBSET Doc]
    /\ problems \in SUBSET Problem
    /\ cancelled \in BOOLEAN
    /\ cause \in Failure \cup {None}
    /\ ingest \in Result \cup {None}
    /\ results \in Seq(Result) /\ Len(results) <= ResultsCap
    /\ resultsOver \in BOOLEAN
    /\ status \in {"processing", "completed", "failed", "error"}
    /\ saving \in SUBSET {"record", "recheck"}
    /\ unsaved \in SUBSET Problem
    /\ found \in BOOLEAN
    /\ recorded \in SUBSET Problem
    /\ rechecks \in SUBSET Doc
    /\ attempt \in 1..MaxTaskAttempts
    /\ failures \in 0..MaxFailures
    /\ misled \in BOOLEAN

\* What the task has to find.  README, natural: it "cannot detect documents that
\* exist only on the destination".
Defects ==
    {p \in Problem : p.defect = condition[p.doc] /\ ~(natural /\ p.defect = "extra")}

\* What is recorded for a task that is over is what is wrong, neither less nor more,
\* and it is enqueued for the next generation: whichever reads and writes failed and
\* were tried again, unless the comparator was misled.
RecordedExact ==
    status \in {"completed", "failed"} /\ ~misled =>
        /\ recorded = Defects
        /\ {p.doc : p \in recorded} \subseteq rechecks

\* ProcessVerifyTask "should only see channel closed if there were problems".
ClosedWithProblems == AwaitsResult /\ results = <<>> /\ resultsOver => found

\* comparator.go: "in a large, naturally-scanned collection, memory usage won't
\* balloon when many mismatches are found": beyond the limit the comparator holds
\* at most what one reply adds, unless it was misled.
MemoryBounded == natural /\ ~misled => Cached < MaxProblems + ReplySize

\* The comparison ends: no goroutine waits for another for ever.
TaskEnds == <>(status # "processing")

=============================================================================
