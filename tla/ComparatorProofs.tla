-------------------------- MODULE ComparatorProofs --------------------------
(***************************************************************************)
(* Theorems about Comparator, for any number of documents, any sizes of    *)
(* messages, replies and channels, and any number of failures.             *)
(***************************************************************************)
EXTENDS Comparator, FiniteSetTheorems, SequenceTheorems, TLAPS

(* Whole division is monotonic. *)
LEMMA DivMonotonic ==
    ASSUME NEW a \in Nat, NEW b \in Nat, NEW n \in Nat \ {0}, a <= b
    PROVE  a \div n <= b \div n
<1> DEFINE p == a \div n
           q == b \div n
<1>1. /\ p \in Int /\ q \in Int
      /\ n * p <= a /\ b < n * q + n
    BY Z3
<1>2. ASSUME p > q PROVE FALSE
  <2>1. p >= q + 1
    BY <1>1, <1>2
  <2>2. n * p >= n * (q + 1)
    BY <1>1, <2>1, Z3
  <2>3. n * (q + 1) = n * q + n
    BY <1>1, Z3
  <2> QED
    BY <1>1, <2>2, <2>3, Z3
<1> QED
    BY <1>1, <1>2

(* Fewer documents are in no more messages, so padding is never negative. *)
LEMMA PaddingNat ==
    ASSUME NEW asked \in Nat, NEW present \in Nat, present <= asked
    PROVE  Padding(asked, present) \in Nat
<1>1. BatchSize \in Nat \ {0}
    BY SizeAssumption
<1> DEFINE a == asked + BatchSize - 1
           p == present + BatchSize - 1
<1>2. a \in Nat /\ p \in Nat /\ p <= a
    BY <1>1
<1>3. p \div BatchSize <= a \div BatchSize
    BY <1>1, <1>2, DivMonotonic
<1>4. a \div BatchSize \in Int /\ p \div BatchSize \in Int
    BY <1>1, <1>2
<1> QED
    BY <1>3, <1>4 DEF Padding, BatchCount

LEMMA DocSets ==
    ASSUME NEW S \in SUBSET Doc
    PROVE  IsFiniteSet(S) /\ Cardinality(S) \in Nat
<1>1. IsFiniteSet(Doc)
    BY FS_Interval, SizeAssumption DEF Doc
<1> QED
    BY <1>1, FS_Subset, FS_CardinalityType

(* What the query finds is no more than what it asks for. *)
LEMMA FoundIsLess ==
    ASSUME NEW S \in SUBSET Doc
    PROVE  Padding(Cardinality(S), Cardinality(S \cap On("dst"))) \in Nat
<1>1. S \cap On("dst") \in SUBSET Doc
    OBVIOUS
<1>2. Cardinality(S \cap On("dst")) <= Cardinality(S)
    BY DocSets, FS_Subset
<1> QED
    BY <1>1, <1>2, DocSets, PaddingNat

(* A report is well typed. *)
LEMMA ReportType ==
    ASSUME TypeOK
    PROVE  /\ Report \in SUBSET Problem
           /\ [problems |-> Report, error |-> None] \in Result
           /\ \A kind \in Failure : [problems |-> {}, error |-> kind] \in Result
<1>1. cache["src"] \in SUBSET Doc /\ cache["dst"] \in SUBSET Doc
    BY DEF TypeOK, Side
<1>2. Report \in SUBSET Problem
    BY <1>1 DEF TypeOK, Report, Problem, Defect
<1> QED
    BY <1>2 DEF Result

(* New channels, a new group and a new comparator are well typed. *)
LEMMA StartGroupType ==
    ASSUME TypeOK, StartGroup
    PROVE  /\ rpc' \in [Side -> {"open", "ids", "read", "closing", "done", "failed"}]
           /\ left' \in [Side -> SUBSET Doc] /\ reply' \in SUBSET Doc
           /\ ids' \in Seq(SUBSET Doc) /\ Len(ids') <= IdsCap
           /\ pads' \in Nat /\ closed' \in SUBSET Side
           /\ cpc' \in {"read", "flush", "flushed", "done", "failed"}
           /\ got' \in SUBSET Side /\ batch' \in [Side -> SUBSET Doc]
           /\ ended' \in SUBSET got' /\ cursorDone' \in BOOLEAN
           /\ cache' \in [Side -> SUBSET Doc] /\ problems' \in SUBSET Problem
           /\ cancelled' \in BOOLEAN /\ cause' \in Failure \cup {None}
           /\ ingest' \in Result \cup {None}
<1>1. Neither \in [Side -> SUBSET Doc]
    BY DEF Neither
<1>2. IdsCap \in Nat
    BY SizeAssumption
<1>3. ids' \in Seq(SUBSET Doc) /\ Len(ids') <= IdsCap
    BY <1>2, EmptySeq DEF StartGroup
<1>4. rpc' \in [Side -> {"open", "ids", "read", "closing", "done", "failed"}]
    BY DEF StartGroup
<1> QED
    BY <1>1, <1>3, <1>4 DEF StartGroup

(* What processAnyTask's retryer does to the task is well typed. *)
LEMMA TaskFailsType ==
    ASSUME TypeOK, NEW kind \in Failure, TaskFails(kind), failures' \in 0..MaxFailures
    PROVE  TypeOK'
<1>1. CASE kind = "transient" /\ MayRetryTask
  <2>1. /\ attempt' = attempt + 1 /\ StartGroup
        /\ results' = <<>> /\ resultsOver' = FALSE
        /\ saving' = {} /\ unsaved' = {} /\ found' = FALSE
        /\ recorded' \in {{}, recorded}
        /\ UNCHANGED <<task, misled, status, rechecks>>
    BY <1>1 DEF TaskFails
  <2>2. attempt' \in 1..MaxTaskAttempts
    BY <1>1, <2>1, SizeAssumption DEF TypeOK, MayRetryTask
  <2>3. results' \in Seq(Result) /\ Len(results') <= ResultsCap
    BY <2>1, SizeAssumption
  <2> QED
    BY <2>1, <2>2, <2>3, StartGroupType DEF TypeOK, task
<1>2. CASE ~(kind = "transient" /\ MayRetryTask)
  <2>1. /\ status' = "error"
        /\ UNCHANGED <<task, misled, reading, compare, group, outcome, saves, attempt>>
    BY <1>2 DEF TaskFails
  <2> QED
    BY <2>1 DEF TypeOK, task, reading, compare, group, outcome, saves
<1> QED
    BY <1>1, <1>2

(* A message to the comparator is well typed. *)
LEMMA ReceiveType ==
    ASSUME TypeOK, NEW s \in Side, NEW C \in SUBSET Doc, Receive(s, C)
    PROVE  /\ got' \in SUBSET Side /\ batch' \in [Side -> SUBSET Doc]
           /\ ended' \in SUBSET got'
           /\ UNCHANGED <<cpc, ended, cursorDone, cache, problems>>
    BY DEF TypeOK, Receive

LEMMA ReturnErrorType ==
    ASSUME TypeOK, NEW kind \in Failure, ReturnError(kind)
    PROVE  cancelled' \in BOOLEAN /\ cause' \in Failure \cup {None}
    BY DEF TypeOK, ReturnError

LEMMA MayFailType ==
    ASSUME TypeOK, MayFail \/ UNCHANGED failures
    PROVE  failures' \in 0..MaxFailures
    BY SizeAssumption DEF TypeOK, MayFail

(* The readers keep the types. *)
LEMMA ReaderType ==
    ASSUME TypeOK, NEW s \in Side, Reader(s)
    PROVE  TypeOK'
<1> USE DEF task, reading, compare, group, outcome, saves, worker
<1>1. CASE Open(s)
  <2>1. On(s) \in SUBSET Doc
    BY DEF On
  <2> QED
    BY <1>1, <2>1 DEF TypeOK, Open
<1>2. CASE OpenFails(s)
  <2>1. failures' \in 0..MaxFailures
    BY <1>2, MayFailType DEF OpenFails
  <2>2. PICK kind \in Failure : ReturnError(kind)
    BY <1>2 DEF OpenFails
  <2>3. cancelled' \in BOOLEAN /\ cause' \in Failure \cup {None}
    BY <2>2, ReturnErrorType
  <2> QED
    BY <1>2, <2>1, <2>3 DEF TypeOK, OpenFails
<1>3. CASE Send(s)
  <2>1. PICK C \in SUBSET left[s] :
            Receive(s, C) /\ left' = [left EXCEPT ![s] = @ \ C]
    BY <1>3 DEF Send
  <2>2. C \in SUBSET Doc
    BY <2>1 DEF TypeOK
  <2>3. left' \in [Side -> SUBSET Doc]
    BY <2>1 DEF TypeOK
  <2> QED
    BY <1>3, <2>1, <2>2, <2>3, ReceiveType DEF TypeOK, Send
<1>4. CASE Exhausted(s)
    BY <1>4 DEF TypeOK, Exhausted
<1>5. CASE CursorFails(s)
  <2>1. failures' \in 0..MaxFailures
    BY <1>5, MayFailType DEF CursorFails
  <2> QED
    BY <1>5, <2>1 DEF TypeOK, CursorFails
<1>6. CASE Fails(s)
  <2>1. PICK kind \in Failure : ReturnError(kind)
    BY <1>6 DEF Fails
  <2>2. cancelled' \in BOOLEAN /\ cause' \in Failure \cup {None}
    BY <2>1, ReturnErrorType
  <2> QED
    BY <1>6, <2>2 DEF TypeOK, Fails
<1> QED
    BY <1>1, <1>2, <1>3, <1>4, <1>5, <1>6 DEF Reader

(* The messages of natural partitioning keep the types. *)
LEMMA NaturalReadersType ==
    ASSUME TypeOK, NaturalReaders
    PROVE  TypeOK'
<1> USE DEF task, reading, compare, group, outcome, saves, worker
<1>0. "src" \in Side /\ "dst" \in Side
    BY DEF Side
<1>1. CASE SendIds
  <2>1. PICK R \in SUBSET left["src"] :
            /\ ids' = Append(ids, R)
            /\ reply' = R
            /\ left' = [left EXCEPT !["src"] = @ \ R]
    BY <1>1 DEF SendIds
  <2>2. R \in SUBSET Doc
    BY <1>0, <2>1 DEF TypeOK
  <2>3. Len(ids) < IdsCap
    BY <1>1 DEF SendIds, RoomForIds
  <2>4. ids' \in Seq(SUBSET Doc) /\ Len(ids') = Len(ids) + 1
    BY <2>1, <2>2, AppendProperties DEF TypeOK
  <2>5. Len(ids') <= IdsCap
    BY <2>3, <2>4, SizeAssumption, LenProperties DEF TypeOK
  <2> QED
    BY <1>0, <1>1, <2>1, <2>2, <2>4, <2>5 DEF TypeOK, SendIds
<1>2. CASE SendReply
  <2>1. PICK C \in SUBSET reply : Receive("src", C) /\ reply' = reply \ C
    BY <1>2 DEF SendReply
  <2>2. C \in SUBSET Doc
    BY <2>1 DEF TypeOK
  <2> QED
    BY <1>0, <1>2, <2>1, <2>2, ReceiveType DEF TypeOK, SendReply
<1>3. CASE TakeIds
  <2>1. ids \in Seq(SUBSET Doc) /\ ids # <<>>
    BY <1>3 DEF TypeOK, TakeIds
  <2>2. Head(ids) \in SUBSET Doc /\ Tail(ids) \in Seq(SUBSET Doc)
        /\ Len(Tail(ids)) = Len(ids) - 1
    BY <2>1, HeadTailProperties
  <2>3. ids' \in Seq(SUBSET Doc) /\ Len(ids') <= IdsCap
    BY <1>3, <2>1, <2>2, SizeAssumption, LenProperties DEF TypeOK, TakeIds
  <2>4. pads' \in Nat
    BY <1>3, <2>2, FoundIsLess DEF TakeIds
  <2>5. left' \in [Side -> SUBSET Doc]
    BY <1>0, <1>3, <2>2 DEF TypeOK, TakeIds, On
  <2> QED
    BY <1>3, <2>3, <2>4, <2>5 DEF TypeOK, TakeIds
<1>4. CASE SendPadding
  <2>1. Receive("dst", {}) /\ {} \in SUBSET Doc
    BY <1>4 DEF SendPadding
  <2>2. pads' \in Nat
    BY <1>4 DEF TypeOK, SendPadding
  <2> QED
    BY <1>0, <1>4, <2>1, <2>2, ReceiveType DEF TypeOK, SendPadding
<1>5. CASE SendCursorDone
    BY <1>5 DEF TypeOK, SendCursorDone
<1>6. CASE IdsOver
    BY <1>0, <1>6 DEF TypeOK, IdsOver
<1> QED
    BY <1>1, <1>2, <1>3, <1>4, <1>5, <1>6 DEF NaturalReaders

LEMMA SendReportType ==
    ASSUME TypeOK, SendReport
    PROVE  /\ ingest' \in Result \cup {None}
           /\ problems' \in SUBSET Problem
           /\ cache' \in [Side -> SUBSET Doc]
    BY ReportType DEF SendReport, Neither

(* The comparator keeps the types. *)
LEMMA ComparingType ==
    ASSUME TypeOK, Comparing
    PROVE  TypeOK'
<1> USE DEF task, reading, compare, group, outcome, saves, worker
<1>1. ASSUME NEW s \in Side, SeeClosed(s) PROVE TypeOK'
    BY <1>1 DEF TypeOK, SeeClosed
<1>2. CASE FlushCursor
    BY <1>2, SendReportType DEF TypeOK, FlushCursor
<1>3. CASE Compare
  <2>1. problems' \in SUBSET Problem
    <3>1. \A d \in Paired : d \in Doc
        BY DEF TypeOK, Paired, Side
    <3>2. \A d \in Paired : condition[d] # "same" =>
              [doc |-> d, defect |-> condition[d]] \in Problem
        BY <3>1 DEF TypeOK, Problem
    <3> QED
        BY <1>3, <3>2 DEF TypeOK, Compare
  <2>2. cache' \in [Side -> SUBSET Doc]
    BY <1>3 DEF TypeOK, Compare
  <2>3. batch' \in [Side -> SUBSET Doc]
    BY <1>3 DEF Compare, Neither
  <2>4. /\ got' \in SUBSET Side /\ ended' \in SUBSET got' /\ cursorDone' \in BOOLEAN
        /\ cpc' \in {"read", "flush", "flushed", "done", "failed"}
    BY <1>3 DEF TypeOK, Compare
  <2> QED
    BY <1>3, <2>1, <2>2, <2>3, <2>4 DEF TypeOK, Compare
<1>4. CASE FlushLast
    BY <1>4, SendReportType DEF TypeOK, FlushLast
<1>5. CASE CompareReturns
    BY <1>5 DEF TypeOK, CompareReturns
<1>6. CASE CompareCancelled
    BY <1>6 DEF TypeOK, CompareCancelled
<1>7. CASE Stall
  <2>1. failures' \in 0..MaxFailures
    BY <1>7, MayFailType DEF Stall
  <2>2. cancelled' \in BOOLEAN /\ cause' \in Failure \cup {None}
    BY <1>7, ReturnErrorType DEF Stall, Failure
  <2> QED
    BY <1>7, <2>1, <2>2 DEF TypeOK, Stall
<1> QED
    BY <1>1, <1>2, <1>3, <1>4, <1>5, <1>6, <1>7 DEF Comparing

(* One more result, when the channel has room, is well typed. *)
LEMMA ResultsRoom ==
    ASSUME TypeOK, NEW r \in Result, Len(results) < ResultsCap,
           results' = Append(results, r)
    PROVE  results' \in Seq(Result) /\ Len(results') <= ResultsCap
<1>1. results' \in Seq(Result) /\ Len(results') = Len(results) + 1
    BY AppendProperties DEF TypeOK
<1> QED
    BY <1>1, SizeAssumption, LenProperties DEF TypeOK

(* StartIngestMap's goroutine and the retryer keep the types. *)
LEMMA RetryerType ==
    ASSUME TypeOK, Ingest \/ Retryer
    PROVE  TypeOK'
<1> USE DEF task, reading, compare, group, outcome, saves, worker
<1>1. CASE Ingest
  <2>1. ingest \in Result
    BY <1>1 DEF TypeOK, Ingest
  <2>2. results' \in Seq(Result) /\ Len(results') <= ResultsCap
    <3>1. CASE UNCHANGED results
        BY <3>1 DEF TypeOK
    <3>2. CASE Len(results) < ResultsCap /\ results' = Append(results, ingest)
        BY <2>1, <3>2, ResultsRoom
    <3> QED
        BY <1>1, <3>1, <3>2 DEF Ingest
  <2> QED
    BY <1>1, <2>2 DEF TypeOK, Ingest
<1>2. CASE RunEnds
    BY <1>2 DEF TypeOK, RunEnds
<1>3. CASE RunAgain
    BY <1>3, StartGroupType DEF TypeOK, RunAgain
<1>4. CASE RunFails
  <2>1. cause \in Failure
    BY <1>4 DEF TypeOK, RunFails
  <2>2. results' \in Seq(Result) /\ Len(results') <= ResultsCap
    BY <1>4, <2>1, ReportType, ResultsRoom DEF RunFails
  <2> QED
    BY <1>4, <2>2 DEF TypeOK, RunFails
<1> QED
    BY <1>1, <1>2, <1>3, <1>4 DEF Retryer

(* The worker keeps the types. *)
LEMMA WorkerType ==
    ASSUME TypeOK, Worker \/ SaveFails
    PROVE  TypeOK'
<1> USE DEF task, reading, compare, group, outcome, saves, worker
<1>0. ASSUME results # <<>>
      PROVE  /\ Head(results) \in Result
             /\ Tail(results) \in Seq(Result)
             /\ Len(Tail(results)) <= ResultsCap
    BY <1>0, HeadTailProperties, LenProperties, SizeAssumption DEF TypeOK
<1>1. CASE TakeReport
  <2>1. Head(results).problems \in SUBSET Problem
    BY <1>0, <1>1 DEF TakeReport, Result
  <2>2. results' \in Seq(Result) /\ Len(results') <= ResultsCap
    BY <1>0, <1>1 DEF TakeReport
  <2> QED
    BY <1>1, <2>1, <2>2 DEF TypeOK, TakeReport
<1>2. CASE TakeEmptyReport
    BY <1>2 DEF TypeOK, TakeEmptyReport, Finish
<1>3. CASE TakeError
  <2>1. Head(results).error \in Failure
    BY <1>0, <1>3 DEF TakeError, Result
  <2>2. failures' \in 0..MaxFailures
    BY <1>3 DEF TypeOK, TakeError
  <2> QED
    BY <1>3, <2>1, <2>2, TaskFailsType DEF TakeError
<1>4. CASE SeeResultsOver
    BY <1>4 DEF TypeOK, SeeResultsOver, Finish
<1>5. CASE Save
  <2>1. {p.doc : p \in unsaved} \in SUBSET Doc
    BY DEF TypeOK, Problem
  <2>2. /\ saving' \in SUBSET {"record", "recheck"}
        /\ recorded' \in SUBSET Problem
        /\ rechecks' \in SUBSET Doc
    BY <1>5, <2>1 DEF TypeOK, Save
  <2> QED
    BY <1>5, <2>2 DEF TypeOK, Save
<1>6. CASE SaveFails
  <2>1. failures' \in 0..MaxFailures
    BY <1>6, MayFailType DEF SaveFails
  <2>2. PICK kind \in Failure : TaskFails(kind)
    BY <1>6 DEF SaveFails
  <2> QED
    BY <2>1, <2>2, TaskFailsType
<1> QED
    BY <1>1, <1>2, <1>3, <1>4, <1>5, <1>6 DEF Worker

LEMMA InitType ==
    ASSUME Init
    PROVE  TypeOK
<1>1. Neither \in [Side -> SUBSET Doc]
    BY DEF Neither
<1>2. /\ ids \in Seq(SUBSET Doc) /\ Len(ids) <= IdsCap
      /\ results \in Seq(Result) /\ Len(results) <= ResultsCap
    BY EmptySeq, SizeAssumption DEF Init
<1>3. attempt \in 1..MaxTaskAttempts /\ failures \in 0..MaxFailures
    BY SizeAssumption DEF Init
<1>4. rpc \in [Side -> {"open", "ids", "read", "closing", "done", "failed"}]
    BY DEF Init
<1> QED
    BY <1>1, <1>2, <1>3, <1>4 DEF Init, TypeOK

(* TypeOK: every variable keeps its type, and srcToDstChannel and resultsChan       *)
(* their capacity, through every failure and retry.                                 *)
THEOREM TypeCorrect == Spec => []TypeOK
<1>1. Init => TypeOK
    BY InitType
<1>2. TypeOK /\ [Next]_vars => TypeOK'
  <2>1. ASSUME TypeOK, UNCHANGED vars PROVE TypeOK'
    BY <2>1 DEF TypeOK, vars, task, reading, compare, group, outcome, saves, worker
  <2> QED
    BY <2>1, ReaderType, NaturalReadersType, ComparingType, RetryerType, WorkerType
       DEF Next
<1> QED
    BY <1>1, <1>2, PTL DEF Spec

-----------------------------------------------------------------------------
(* A closed resultsChan.  Unless the group is cancelled its comparator sends *)
(* a last report, which is on its way to the worker or with it: a comparator *)
(* that fails, and a report that is dropped, are of a cancelled group, whose *)
(* error is what the worker then finds.                                      *)

Cancelling ==
    /\ cancelled <=> cause # None
    /\ cpc = "failed" => cancelled

Reported == ingest # None \/ results # <<>> \/ found

Reporting ==
    /\ Running /\ cpc \in {"flushed", "done"} /\ ~cancelled => Reported
    /\ Running /\ resultsOver => results # <<>> \/ found

ClosedInv == Cancelling /\ Reporting

(* Reading, pairing and writing leave all of it alone. *)
LEMMA ClosedFrame ==
    ASSUME ClosedInv,
           UNCHANGED <<cancelled, cause, cpc, status, ingest, results, resultsOver, found>>
    PROVE  ClosedInv'
    BY DEF ClosedInv, Cancelling, Reporting, Reported, Running

(* An error of a reader or of the comparator cancels the group. *)
LEMMA ClosedReturnError ==
    ASSUME ClosedInv, NEW kind \in Failure, ReturnError(kind),
           UNCHANGED <<status, ingest, results, resultsOver, found>>
    PROVE  ClosedInv'
<1>1. cancelled' /\ cause' # None
    BY NoneAssumption DEF ReturnError, ClosedInv, Cancelling
<1> QED
    BY <1>1 DEF ClosedInv, Cancelling, Reporting, Reported, Running

(* A new group has reported nothing yet. *)
LEMMA ClosedStartGroup ==
    ASSUME StartGroup, ~resultsOver'
    PROVE  ClosedInv'
    BY DEF StartGroup, ClosedInv, Cancelling, Reporting

LEMMA ClosedTaskFails ==
    ASSUME ClosedInv, NEW kind \in Failure, TaskFails(kind)
    PROVE  ClosedInv'
<1>1. CASE kind = "transient" /\ MayRetryTask
    BY <1>1, ClosedStartGroup DEF TaskFails
<1>2. CASE ~(kind = "transient" /\ MayRetryTask)
  <2>1. status' = "error" /\ UNCHANGED <<cancelled, cause, cpc>>
    BY <1>2 DEF TaskFails, compare, group
  <2> QED
    BY <2>1 DEF ClosedInv, Cancelling, Reporting, Running
<1> QED
    BY <1>1, <1>2

(* A report is something. *)
LEMMA ReportSent ==
    ASSUME TypeOK, SendReport
    PROVE  ingest' # None
    BY ReportType, NoneAssumption DEF SendReport

LEMMA ClosedReaders ==
    ASSUME ClosedInv, (\E s \in Side : Reader(s)) \/ NaturalReaders
    PROVE  ClosedInv'
<1> USE DEF task, reading, compare, group, outcome, saves, worker, Receive
<1>1. ASSUME NEW s \in Side, OpenFails(s) \/ Fails(s) PROVE ClosedInv'
  <2>1. PICK kind \in Failure : ReturnError(kind)
    BY <1>1 DEF OpenFails, Fails
  <2> QED
    BY <1>1, <2>1, ClosedReturnError DEF OpenFails, Fails
<1>2. ASSUME NEW s \in Side, Open(s) \/ Send(s) \/ Exhausted(s) \/ CursorFails(s)
      PROVE  ClosedInv'
    BY <1>2, ClosedFrame DEF Open, Send, Exhausted, CursorFails
<1>3. ASSUME NaturalReaders PROVE ClosedInv'
    BY <1>3, ClosedFrame
       DEF NaturalReaders, SendIds, SendReply, TakeIds, SendPadding, SendCursorDone, IdsOver
<1> QED
    BY <1>1, <1>2, <1>3 DEF Reader

LEMMA ClosedComparing ==
    ASSUME TypeOK, ClosedInv, Comparing
    PROVE  ClosedInv'
<1> USE DEF task, reading, compare, group, outcome, saves, worker
<1>1. ASSUME NEW s \in Side, SeeClosed(s) PROVE ClosedInv'
    BY <1>1, ClosedFrame DEF SeeClosed
<1>2. CASE FlushCursor \/ FlushLast
    BY <1>2, ReportSent
       DEF FlushCursor, FlushLast, ClosedInv, Cancelling, Reporting, Reported, Running
<1>3. CASE Compare
    BY <1>3 DEF Compare, ClosedInv, Cancelling, Reporting, Running
<1>4. CASE CompareReturns
    BY <1>4 DEF CompareReturns, ClosedInv, Cancelling, Reporting, Reported, Running
<1>5. CASE CompareCancelled
    BY <1>5 DEF CompareCancelled, ClosedInv, Cancelling, Reporting, Running
<1>6. CASE Stall
  <2>1. ReturnError("fatal") /\ UNCHANGED <<status, ingest, results, resultsOver, found>>
    BY <1>6 DEF Stall
  <2> QED
    BY <2>1, ClosedReturnError DEF Failure
<1> QED
    BY <1>1, <1>2, <1>3, <1>4, <1>5, <1>6 DEF Comparing

LEMMA ClosedOthers ==
    ASSUME TypeOK, ClosedInv, Ingest \/ Retryer \/ Worker \/ SaveFails
    PROVE  ClosedInv'
<1> USE DEF task, reading, compare, group, outcome, saves, worker
<1>1. CASE Ingest
  <2>1. CASE cancelled
    BY <1>1, <2>1 DEF Ingest, ClosedInv, Cancelling, Reporting, Running
  <2>2. CASE ~cancelled
    <3>1. results' = Append(results, ingest) /\ ingest \in Result
        BY <1>1, <2>2 DEF Ingest, TypeOK
    <3>2. results' # <<>>
        BY <3>1, AppendProperties DEF TypeOK
    <3> QED
        BY <1>1, <3>2 DEF Ingest, ClosedInv, Cancelling, Reporting, Reported, Running
  <2> QED
    BY <2>1, <2>2
<1>2. CASE RunEnds
    BY <1>2 DEF RunEnds, AllReturned, ClosedInv, Cancelling, Reporting, Reported, Running
<1>3. CASE RunAgain
    BY <1>3, ClosedStartGroup DEF RunAgain
<1>4. CASE RunFails
  <2>1. cause \in Failure
    BY <1>4 DEF RunFails, TypeOK
  <2>2. [problems |-> {}, error |-> cause] \in Result /\ results \in Seq(Result)
    BY <2>1, ReportType DEF TypeOK
  <2>3. results' # <<>>
    BY <1>4, <2>2, AppendProperties DEF RunFails
  <2> QED
    BY <1>4, <2>3 DEF RunFails, ClosedInv, Cancelling, Reporting, Reported, Running
<1>5. CASE TakeReport
    BY <1>5 DEF TakeReport, ClosedInv, Cancelling, Reporting, Reported, Running
<1>6. CASE TakeEmptyReport \/ SeeResultsOver
  <2>1. status' \in {"failed", "completed"} /\ UNCHANGED <<cancelled, cause, cpc>>
    BY <1>6 DEF TakeEmptyReport, SeeResultsOver, Finish
  <2> QED
    BY <2>1 DEF ClosedInv, Cancelling, Reporting, Running
<1>7. CASE TakeError
  <2>1. results # <<>> /\ Head(results).error # None
    BY <1>7 DEF TakeError
  <2>2. Head(results) \in Result
    BY <2>1, HeadTailProperties DEF TypeOK
  <2>3. Head(results).error \in Failure
    BY <2>1, <2>2 DEF Result
  <2> QED
    BY <1>7, <2>3, ClosedTaskFails DEF TakeError
<1>8. CASE Save
    BY <1>8, ClosedFrame DEF Save
<1>9. CASE SaveFails
    BY <1>9, ClosedTaskFails DEF SaveFails
<1> QED
    BY <1>1, <1>2, <1>3, <1>4, <1>5, <1>6, <1>7, <1>8, <1>9 DEF Retryer, Worker

LEMMA ClosedInductive == Spec => []ClosedInv
<1>1. Init => ClosedInv
    BY DEF Init, ClosedInv, Cancelling, Reporting
<1>2. TypeOK /\ ClosedInv /\ [Next]_vars => ClosedInv'
  <2>1. ASSUME ClosedInv, UNCHANGED vars PROVE ClosedInv'
    BY <2>1, ClosedFrame DEF vars, task, reading, compare, group, outcome, saves, worker
  <2> QED
    BY <2>1, ClosedReaders, ClosedComparing, ClosedOthers DEF Next
<1> QED
    BY <1>1, <1>2, TypeCorrect, PTL DEF Spec

(* ClosedWithProblems: when ProcessVerifyTask sees resultsChan closed it has had a  *)
(* report with problems, whatever failed and was retried before.                    *)
THEOREM ClosedSound == Spec => []ClosedWithProblems
<1>1. ClosedInv => ClosedWithProblems
    BY DEF ClosedInv, Reporting, ClosedWithProblems, AwaitsResult
<1> QED
    BY <1>1, ClosedInductive, PTL

-----------------------------------------------------------------------------
(* What is recorded, under _id partitioning, unless the comparator is misled.*)
(* It sends its one report when it has seen both channels closed, and then   *)
(* both readers are done: one that fails, before or after the other closed   *)
(* its channel, either leaves its own open for ever or is taken for a reader *)
(* that is done, which misled remembers.                                     *)

\* The reader's cursor is open, or was.
Opened(s) ==
    rpc[s] \in {"read", "closing", "done"} \/ (rpc[s] = "failed" /\ s \in closed)

EndsInv ==
    /\ ~cursorDone /\ reply = {}
    /\ \A s \in Side : rpc[s] # "ids"
    /\ \A s \in closed : Opened(s) /\ rpc[s] # "read"
    /\ \A s \in Side : rpc[s] = "closing" => s \in closed
    /\ \A s \in Side : rpc[s] = "done" => left[s] = {}
    /\ ended \subseteq closed
    /\ cpc \in {"flush", "flushed", "done"} => ended = Side
    /\ ~misled /\ ended = Side => \A s \in Side : rpc[s] = "done"

\* The documents that the comparator has processed.
Seen(s) == IF Opened(s) THEN On(s) \ (left[s] \cup batch[s]) ELSE {}

Differing(D) == {[doc |-> d, defect |-> condition[d]] : d \in {d \in D : condition[d] # "same"}}

PairingInv ==
    /\ \A s \in Side : left[s] \subseteq On(s) /\ batch[s] \subseteq On(s) \ left[s]
    /\ \A s \in Side : ~Opened(s) => left[s] = {} /\ batch[s] = {}
    /\ \A s \in Side : s \notin got => batch[s] = {}
    /\ cpc = "flush" => batch["src"] = {} /\ batch["dst"] = {}
    /\ cpc \in {"read", "flush"} =>
          /\ cache["src"] = Seen("src") \ Seen("dst")
          /\ cache["dst"] = Seen("dst") \ Seen("src")
          /\ problems = Differing(Seen("src") \cap Seen("dst"))

\* Every report is whole.
ReportsInv ==
    /\ ingest # None => ingest.problems = Defects
    /\ \A i \in 1..Len(results) : results[i].error = None => results[i].problems = Defects

\* RecordedExact of a comparator that was not misled.
Exact ==
    status \in {"completed", "failed"} =>
        recorded = Defects /\ {p.doc : p \in recorded} \subseteq rechecks

SavesInv ==
    /\ recorded \subseteq Defects
    /\ found => unsaved = Defects
    /\ ~found => saving = {}
    /\ found /\ "record" \notin saving => Defects \subseteq recorded
    /\ found /\ "recheck" \notin saving => {p.doc : p \in Defects} \subseteq rechecks
    /\ Exact

IdInv == ~natural => EndsInv /\ PairingInv /\ (~misled => ReportsInv /\ SavesInv)

LEMMA EndsFrame ==
    ASSUME EndsInv,
           UNCHANGED <<cursorDone, reply, rpc, left, closed, ended, cpc, misled>>
    PROVE  EndsInv'
    BY DEF EndsInv, Opened

LEMMA EndsStartGroup ==
    ASSUME StartGroup
    PROVE  EndsInv'
    BY DEF StartGroup, EndsInv, Neither

(* Under _id partitioning no message of natural partitioning is sent. *)
LEMMA NoNatural ==
    ASSUME EndsInv, ~natural
    PROVE  ~NaturalReaders /\ ~FlushCursor
    BY DEF EndsInv, NaturalReaders, SendIds, SendReply, TakeIds, SendPadding, SendCursorDone,
           IdsOver, FlushCursor, Side

LEMMA EndsReaders ==
    ASSUME TypeOK, EndsInv, ~natural, NEW s \in Side, Reader(s)
    PROVE  EndsInv'
<1> USE DEF task, reading, compare, group, outcome, saves, worker
<1>1. CASE Open(s)
    BY <1>1 DEF Open, TypeOK, EndsInv, Opened
<1>2. CASE OpenFails(s)
  <2>1. cancelled' = TRUE /\ rpc' = [rpc EXCEPT ![s] = "failed"] /\ UNCHANGED closed
    BY <1>2 DEF OpenFails, ReturnError
  <2>2. s \notin closed
    BY <1>2 DEF OpenFails, EndsInv, Opened
  <2> QED
    BY <1>2, <2>1, <2>2 DEF OpenFails, TypeOK, EndsInv, Opened
<1>3. CASE Send(s)
  <2>1. PICK C \in SUBSET left[s] : left' = [left EXCEPT ![s] = @ \ C]
    BY <1>3 DEF Send
  <2>2. s \notin closed
    BY <1>3 DEF Send, EndsInv
  <2>3. UNCHANGED <<cursorDone, reply, rpc, closed, ended, cpc, misled>>
    BY <1>3 DEF Send, Receive
  <2> QED
    BY <2>1, <2>2, <2>3 DEF TypeOK, EndsInv, Opened
<1>4. CASE Exhausted(s)
    BY <1>4 DEF Exhausted, TypeOK, EndsInv, Opened
<1>5. CASE CursorFails(s)
    BY <1>5 DEF CursorFails, TypeOK, EndsInv, Opened
<1>6. CASE Fails(s)
  <2>1. s \in closed
    BY <1>6 DEF Fails, EndsInv
  <2> QED
    BY <1>6, <2>1 DEF Fails, TypeOK, EndsInv, Opened
<1> QED
    BY <1>1, <1>2, <1>3, <1>4, <1>5, <1>6 DEF Reader

LEMMA EndsComparing ==
    ASSUME TypeOK, EndsInv, ~natural, Comparing
    PROVE  EndsInv'
<1> USE DEF task, reading, compare, group, outcome, saves, worker
<1>1. ASSUME NEW s \in Side, SeeClosed(s) PROVE EndsInv'
    BY <1>1 DEF SeeClosed, Misled, EndsInv, Opened, TypeOK
<1>2. CASE Compare
    BY <1>2 DEF Compare, EndsInv, Opened
<1>3. CASE FlushLast \/ CompareReturns
    BY <1>3 DEF FlushLast, CompareReturns, EndsInv, Opened
<1>4. CASE CompareCancelled
    BY <1>4 DEF CompareCancelled, EndsInv, Opened
<1>5. CASE Stall
    BY <1>5 DEF Stall, ReturnError, EndsInv, Opened
<1> QED
    BY <1>1, <1>2, <1>3, <1>4, <1>5, NoNatural DEF Comparing

LEMMA EndsTaskFails ==
    ASSUME EndsInv, NEW kind \in Failure, TaskFails(kind)
    PROVE  EndsInv'
<1>1. CASE kind = "transient" /\ MayRetryTask
    BY <1>1, EndsStartGroup DEF TaskFails
<1>2. CASE ~(kind = "transient" /\ MayRetryTask)
    BY <1>2, EndsFrame DEF TaskFails, reading, compare, group
<1> QED
    BY <1>1, <1>2

(* An error that the worker takes is of a kind. *)
LEMMA ErrorKind ==
    ASSUME TypeOK, TakeError
    PROVE  Head(results).error \in Failure
<1>1. results # <<>> /\ Head(results).error # None
    BY DEF TakeError
<1>2. Head(results) \in Result
    BY <1>1, HeadTailProperties DEF TypeOK
<1> QED
    BY <1>1, <1>2 DEF Result

LEMMA EndsOthers ==
    ASSUME TypeOK, EndsInv, Ingest \/ Retryer \/ Worker \/ SaveFails
    PROVE  EndsInv'
<1> USE DEF task, reading, compare, group, outcome, saves, worker
<1>1. CASE Ingest \/ RunEnds \/ RunFails
    BY <1>1, EndsFrame DEF Ingest, RunEnds, RunFails
<1>2. CASE RunAgain
    BY <1>2, EndsStartGroup DEF RunAgain
<1>3. CASE TakeReport \/ TakeEmptyReport \/ SeeResultsOver \/ Save
    BY <1>3, EndsFrame DEF TakeReport, TakeEmptyReport, SeeResultsOver, Save, Finish
<1>4. CASE TakeError
    BY <1>4, ErrorKind, EndsTaskFails DEF TakeError
<1>5. CASE SaveFails
    BY <1>5, EndsTaskFails DEF SaveFails
<1> QED
    BY <1>1, <1>2, <1>3, <1>4, <1>5 DEF Retryer, Worker

(* Pairing depends on what is delivered and processed, and on nothing else. *)
LEMMA PairingFrame ==
    ASSUME PairingInv, UNCHANGED <<condition, left, batch, cpc, cache, problems>>,
           got \subseteq got', \A s \in Side : Opened(s)' <=> Opened(s)
    PROVE  PairingInv'
<1>1. \A s \in Side : On(s)' = On(s) /\ Seen(s)' = Seen(s)
    BY DEF On, Seen
<1>2. \A D : Differing(D)' = Differing(D)
    BY DEF Differing
<1> QED
    BY <1>1, <1>2 DEF PairingInv, Side

LEMMA PairingStartGroup ==
    ASSUME StartGroup, UNCHANGED condition
    PROVE  PairingInv'
<1>1. \A s \in Side : left'[s] = {} /\ batch'[s] = {} /\ cache'[s] = {}
    BY DEF StartGroup, Neither
<1>2. \A s \in Side : ~Opened(s)' /\ Seen(s)' = {}
    BY DEF StartGroup, Opened, Seen
<1>3. Differing({})' = {}
    BY DEF Differing
<1>4. problems' = {} /\ cpc' = "read"
    BY DEF StartGroup
<1> QED
    BY <1>1, <1>2, <1>3, <1>4 DEF PairingInv, Side

(* A reader delivers what it takes from its cursor. *)
LEMMA PairingReaders ==
    ASSUME TypeOK, EndsInv, PairingInv, ~natural, NEW s \in Side, Reader(s)
    PROVE  PairingInv'
<1> USE DEF task, reading, compare, group, outcome, saves, worker
<1>1. CASE Open(s)
  <2>1. /\ ~Opened(s) /\ Opened(s)' /\ left' = [left EXCEPT ![s] = On(s)]
        /\ UNCHANGED <<condition, batch, got, cpc, cache, problems>>
    BY <1>1 DEF Open, TypeOK, EndsInv, Opened
  <2>2. \A t \in Side : On(t)' = On(t)
    BY <2>1 DEF On
  <2>3. \A t \in Side \ {s} : (Opened(t)' <=> Opened(t)) /\ left'[t] = left[t]
    BY <1>1 DEF Open, TypeOK, Opened
  <2>4. left'[s] = On(s) /\ batch[s] = {}
    BY <2>1 DEF TypeOK, PairingInv
  <2>5. \A t \in Side : Seen(t)' = Seen(t)
    BY <2>1, <2>2, <2>3, <2>4 DEF Seen
  <2>6. \A D : Differing(D)' = Differing(D)
    BY <2>1 DEF Differing
  <2> QED
    BY <2>1, <2>2, <2>3, <2>4, <2>5, <2>6 DEF PairingInv, Side
<1>2. CASE Send(s)
  <2>1. PICK C \in SUBSET left[s] : /\ Receive(s, C)
                                    /\ left' = [left EXCEPT ![s] = @ \ C]
    BY <1>2 DEF Send
  <2>2. /\ Opened(s) /\ s \notin got /\ cpc = "read" /\ got' = got \cup {s}
        /\ batch' = [batch EXCEPT ![s] = C]
        /\ UNCHANGED <<condition, cpc, cache, problems, rpc, closed>>
    BY <1>2, <2>1 DEF Send, Receive, Opened
  <2>3. \A t \in Side : On(t)' = On(t) /\ (Opened(t)' <=> Opened(t))
    BY <2>2 DEF On, Opened
  <2>4. \A t \in Side \ {s} : left'[t] = left[t] /\ batch'[t] = batch[t]
    BY <2>1, <2>2 DEF TypeOK
  <2>5. batch[s] = {} /\ batch'[s] = C /\ left'[s] = left[s] \ C
    BY <2>1, <2>2 DEF TypeOK, PairingInv
  <2>6. left'[s] \cup batch'[s] = left[s] \cup batch[s]
    BY <2>1, <2>5
  <2>7. \A t \in Side : Seen(t)' = Seen(t)
    BY <2>3, <2>4, <2>6 DEF Seen
  <2>8. \A D : Differing(D)' = Differing(D)
    BY <2>2 DEF Differing
  <2>9. left[s] \subseteq On(s)
    BY DEF PairingInv
  <2> QED
    BY <2>1, <2>2, <2>3, <2>4, <2>5, <2>7, <2>8, <2>9 DEF PairingInv, Side
<1>3. CASE OpenFails(s) \/ Exhausted(s) \/ CursorFails(s) \/ Fails(s)
  <2>1. UNCHANGED <<condition, left, batch, cpc, cache, problems, got>>
    BY <1>3 DEF OpenFails, Exhausted, CursorFails, Fails
  <2>2. \A t \in Side : Opened(t)' <=> Opened(t)
    BY <1>3 DEF OpenFails, Exhausted, CursorFails, Fails, TypeOK, EndsInv, Opened
  <2> QED
    BY <2>1, <2>2, PairingFrame
<1> QED
    BY <1>1, <1>2, <1>3 DEF Reader

(* The comparator pairs what the round brings with what it has kept. *)
LEMMA PairingCompare ==
    ASSUME TypeOK, PairingInv, Compare
    PROVE  PairingInv'
<1> DEFINE S == Seen("src")
           D == Seen("dst")
           A == batch["src"]
           B == batch["dst"]
<1>0. "src" \in Side /\ "dst" \in Side
    BY DEF Side
<1>1. /\ cpc = "read" /\ cpc' \in {"read", "flush"}
      /\ batch' = Neither /\ UNCHANGED <<condition, natural, left, rpc, closed>>
    BY DEF Compare, task, reading
<1>2. \A s \in Side : On(s)' = On(s) /\ (Opened(s)' <=> Opened(s)) /\ batch'[s] = {}
    BY <1>1 DEF On, Opened, Neither
<1>3. \A s \in Side : Seen(s)' = Seen(s) \cup batch[s] /\ Seen(s) \cap batch[s] = {}
    BY <1>1, <1>2 DEF Seen, PairingInv
<1>4. cache["src"] = S \ D /\ cache["dst"] = D \ S /\ problems = Differing(S \cap D)
    BY <1>1 DEF PairingInv
<1>5. Paired = ((S \ D) \cup A) \cap ((D \ S) \cup B)
    BY <1>4 DEF Paired
<1>6. S \cap A = {} /\ D \cap B = {}
    BY <1>0, <1>3
<1>7. cache'["src"] = ((S \ D) \cup A) \ Paired /\ cache'["dst"] = ((D \ S) \cup B) \ Paired
    BY <1>0, <1>4 DEF Compare
<1>8. /\ cache'["src"] = (S \cup A) \ (D \cup B)
      /\ cache'["dst"] = (D \cup B) \ (S \cup A)
    BY <1>5, <1>6, <1>7
<1>9. (S \cup A) \cap (D \cup B) = (S \cap D) \cup Paired
    BY <1>5, <1>6
<1>10. problems' = problems \cup Differing(Paired)
    BY DEF Compare, Differing
<1>11. problems' = Differing((S \cup A) \cap (D \cup B))
    BY <1>4, <1>9, <1>10 DEF Differing
<1>12. \A E : Differing(E)' = Differing(E)
    BY <1>1 DEF Differing
<1>13. Seen("src")' = S \cup A /\ Seen("dst")' = D \cup B
    BY <1>0, <1>3
<1>14. /\ cache'["src"] = Seen("src")' \ Seen("dst")'
       /\ cache'["dst"] = Seen("dst")' \ Seen("src")'
       /\ problems' = Differing(Seen("src") \cap Seen("dst"))'
    BY <1>8, <1>11, <1>12, <1>13
<1>15. \A s \in Side : left'[s] = left[s] /\ left[s] \subseteq On(s)
    BY <1>1 DEF PairingInv
<1> QED
    BY <1>0, <1>2, <1>14, <1>15 DEF PairingInv

LEMMA PairingComparing ==
    ASSUME TypeOK, EndsInv, PairingInv, ~natural, Comparing
    PROVE  PairingInv'
<1> USE DEF task, reading, compare, group, outcome, saves, worker
<1>1. ASSUME NEW s \in Side, SeeClosed(s) PROVE PairingInv'
    BY <1>1, PairingFrame DEF SeeClosed, Opened
<1>2. CASE FlushLast \/ CompareReturns \/ CompareCancelled \/ Stall
  <2>1. /\ UNCHANGED <<condition, left, batch, got, rpc, closed>>
        /\ cpc' \notin {"read", "flush"}
    BY <1>2 DEF FlushLast, CompareReturns, CompareCancelled, Stall
  <2>2. \A s \in Side : On(s)' = On(s) /\ (Opened(s)' <=> Opened(s))
    BY <2>1 DEF On, Opened
  <2> QED
    BY <2>1, <2>2 DEF PairingInv
<1> QED
    BY <1>1, <1>2, PairingCompare, NoNatural DEF Comparing

LEMMA PairingTaskFails ==
    ASSUME PairingInv, NEW kind \in Failure, TaskFails(kind)
    PROVE  PairingInv'
<1>1. CASE kind = "transient" /\ MayRetryTask
    BY <1>1, PairingStartGroup DEF TaskFails, task
<1>2. CASE ~(kind = "transient" /\ MayRetryTask)
    BY <1>2, PairingFrame DEF TaskFails, task, reading, compare, Opened
<1> QED
    BY <1>1, <1>2

LEMMA PairingOthers ==
    ASSUME TypeOK, PairingInv, Ingest \/ Retryer \/ Worker \/ SaveFails
    PROVE  PairingInv'
<1> USE DEF task, reading, compare, group, outcome, saves, worker
<1>1. CASE Ingest \/ RunEnds \/ RunFails
    BY <1>1, PairingFrame DEF Ingest, RunEnds, RunFails, Opened
<1>2. CASE RunAgain
    BY <1>2, PairingStartGroup DEF RunAgain
<1>3. CASE TakeReport \/ TakeEmptyReport \/ SeeResultsOver \/ Save
    BY <1>3, PairingFrame
       DEF TakeReport, TakeEmptyReport, SeeResultsOver, Save, Finish, Opened
<1>4. CASE TakeError
    BY <1>4, ErrorKind, PairingTaskFails DEF TakeError
<1>5. CASE SaveFails
    BY <1>5, PairingTaskFails DEF SaveFails
<1> QED
    BY <1>1, <1>2, <1>3, <1>4, <1>5 DEF Retryer, Worker

(* The last report tells all that is wrong, and nothing else. *)
LEMMA LastReportWhole ==
    ASSUME TypeOK, EndsInv, PairingInv, ~natural, ~misled, cpc = "flush"
    PROVE  Report = Defects
<1>0. "src" \in Side /\ "dst" \in Side
    BY DEF Side
<1>1. \A s \in Side : rpc[s] = "done"
    BY DEF EndsInv
<1>2. \A s \in Side : rpc[s] = "done" /\ left[s] = {} /\ batch[s] = {}
    BY <1>1 DEF EndsInv, PairingInv, Side
<1>3. Seen("src") = On("src") /\ Seen("dst") = On("dst")
    BY <1>0, <1>2 DEF Seen, Opened
<1>4. /\ cache["src"] = On("src") \ On("dst")
      /\ cache["dst"] = On("dst") \ On("src")
      /\ problems = Differing(On("src") \cap On("dst"))
    BY <1>3 DEF PairingInv
<1>5. /\ On("src") = {d \in Doc : condition[d] # "extra"}
      /\ On("dst") = {d \in Doc : condition[d] # "missing"}
    BY DEF On
<1>6. \A d \in Doc : condition[d] \in {"differs", "missing", "extra", "same"}
    BY DEF TypeOK, Defect
<1>7. Defects = {p \in Problem : p.defect = condition[p.doc]}
    BY DEF Defects
<1>8. ASSUME NEW p \in Report PROVE p \in Defects
  <2>1. p \in Problem
    BY ReportType
  <2>2. CASE p \in problems
    <3>1. PICK d \in On("src") \cap On("dst") :
              condition[d] # "same" /\ p = [doc |-> d, defect |-> condition[d]]
        BY <1>4, <2>2 DEF Differing
    <3> QED
        BY <1>7, <2>1, <3>1
  <2>3. CASE p \in [doc : cache["src"], defect : {"missing"}]
    <3>1. p.doc \in Doc /\ condition[p.doc] = "missing" /\ p.defect = "missing"
        BY <1>4, <1>5, <1>6, <2>3
    <3> QED
        BY <1>7, <2>1, <3>1
  <2>4. CASE p \in [doc : cache["dst"], defect : {"extra"}]
    <3>1. p.doc \in Doc /\ condition[p.doc] = "extra" /\ p.defect = "extra"
        BY <1>4, <1>5, <1>6, <2>4
    <3> QED
        BY <1>7, <2>1, <3>1
  <2> QED
    BY <1>8, <2>2, <2>3, <2>4 DEF Report
<1>9. ASSUME NEW p \in Defects PROVE p \in Report
  <2>1. /\ p.doc \in Doc /\ p.defect \in Defect /\ p.defect = condition[p.doc]
        /\ p = [doc |-> p.doc, defect |-> p.defect]
    BY <1>7 DEF Problem
  <2>2. CASE p.defect = "differs"
    <3>1. p.doc \in On("src") \cap On("dst") /\ condition[p.doc] # "same"
        BY <1>5, <2>1, <2>2
    <3>2. p \in Differing(On("src") \cap On("dst"))
        BY <2>1, <3>1 DEF Differing
    <3> QED
        BY <1>4, <3>2 DEF Report
  <2>3. CASE p.defect = "missing"
    <3>1. p.doc \in cache["src"]
        BY <1>4, <1>5, <2>1, <2>3
    <3> QED
        BY <2>1, <2>3, <3>1 DEF Report
  <2>4. CASE p.defect = "extra"
    <3>1. p.doc \in cache["dst"]
        BY <1>4, <1>5, <2>1, <2>4
    <3> QED
        BY <2>1, <2>4, <3>1 DEF Report
  <2> QED
    BY <2>1, <2>2, <2>3, <2>4 DEF Defect
<1> QED
    BY <1>8, <1>9

(* What is wrong does not change during the task. *)
LEMMA SameDefects ==
    ASSUME UNCHANGED task
    PROVE  Defects' = Defects
    BY DEF Defects, task

LEMMA TaskFixed ==
    ASSUME Next
    PROVE  UNCHANGED task
<1>1. ASSUME NEW s \in Side, Reader(s) PROVE UNCHANGED task
    BY <1>1 DEF Reader, Open, OpenFails, Send, Exhausted, CursorFails, Fails
<1>2. ASSUME NaturalReaders PROVE UNCHANGED task
    BY <1>2
       DEF NaturalReaders, SendIds, SendReply, TakeIds, SendPadding, SendCursorDone, IdsOver
<1>3. ASSUME Comparing PROVE UNCHANGED task
    BY <1>3 DEF Comparing, SeeClosed, FlushCursor, Compare, FlushLast, CompareReturns,
                CompareCancelled, Stall
<1>4. ASSUME Ingest \/ Retryer PROVE UNCHANGED task
    BY <1>4 DEF Ingest, Retryer, RunEnds, RunAgain, RunFails
<1>5. ASSUME Worker \/ SaveFails PROVE UNCHANGED task
    BY <1>5 DEF Worker, TakeReport, TakeEmptyReport, TakeError, SeeResultsOver, Save,
                SaveFails, TaskFails, Finish
<1> QED
    BY <1>1, <1>2, <1>3, <1>4, <1>5 DEF Next

(* A comparator that was misled remains so. *)
LEMMA MisledStays ==
    ASSUME Next, misled
    PROVE  misled'
<1>1. ASSUME NEW s \in Side, Reader(s) PROVE UNCHANGED misled
    BY <1>1 DEF Reader, Open, OpenFails, Send, Exhausted, CursorFails, Fails
<1>2. ASSUME NaturalReaders PROVE UNCHANGED misled
    BY <1>2
       DEF NaturalReaders, SendIds, SendReply, TakeIds, SendPadding, SendCursorDone, IdsOver
<1>3. ASSUME Comparing PROVE misled'
    BY <1>3 DEF Comparing, SeeClosed, FlushCursor, Compare, FlushLast, CompareReturns,
                CompareCancelled, Stall
<1>4. ASSUME Ingest \/ Retryer PROVE UNCHANGED misled
    BY <1>4 DEF Ingest, Retryer, RunEnds, RunAgain, RunFails
<1>5. ASSUME Worker \/ SaveFails PROVE UNCHANGED misled
    BY <1>5 DEF Worker, TakeReport, TakeEmptyReport, TakeError, SeeResultsOver, Save,
                SaveFails, TaskFails, Finish
<1> QED
    BY <1>1, <1>2, <1>3, <1>4, <1>5 DEF Next

(* Readers and comparator leave to the worker what is the worker's. *)
LEMMA SavesFrame ==
    ASSUME SavesInv, UNCHANGED <<task, saves, status>>
    PROVE  SavesInv'
    BY SameDefects DEF SavesInv, Exact, saves

LEMMA ReportsFrame ==
    ASSUME ReportsInv, UNCHANGED <<task, ingest, results>>
    PROVE  ReportsInv'
    BY SameDefects DEF ReportsInv

LEMMA OutcomeReaders ==
    ASSUME ReportsInv, SavesInv, NEW s \in Side, Reader(s)
    PROVE  ReportsInv' /\ SavesInv'
<1>1. UNCHANGED <<task, outcome, worker>>
    BY DEF Reader, Open, OpenFails, Send, Exhausted, CursorFails, Fails
<1> QED
    BY <1>1, SavesFrame, ReportsFrame DEF outcome, worker

LEMMA OutcomeComparing ==
    ASSUME TypeOK, EndsInv, PairingInv, ReportsInv, SavesInv, ~natural, ~misled, Comparing
    PROVE  ReportsInv' /\ SavesInv'
<1>1. UNCHANGED <<task, results, worker>>
    BY DEF Comparing, SeeClosed, FlushCursor, Compare, FlushLast, CompareReturns,
           CompareCancelled, Stall, outcome
<1>2. SavesInv'
    BY <1>1, SavesFrame DEF worker
<1>3. CASE FlushLast
  <2>1. ingest' = [problems |-> Defects, error |-> None]
    BY <1>3, LastReportWhole DEF FlushLast, SendReport
  <2> QED
    BY <1>1, <1>2, <2>1, SameDefects DEF ReportsInv
<1>4. CASE ~FlushLast
  <2>1. UNCHANGED ingest
    BY <1>4, NoNatural
       DEF Comparing, SeeClosed, Compare, CompareReturns, CompareCancelled, Stall, outcome
  <2> QED
    BY <1>1, <1>2, <2>1, ReportsFrame
<1> QED
    BY <1>3, <1>4

(* A report or an error is added to those in the channel. *)
LEMMA ReportsAppend ==
    ASSUME TypeOK, ReportsInv, UNCHANGED task, NEW r \in Result,
           results' = Append(results, r), ingest' \in {ingest, None},
           r.error = None => r.problems = Defects
    PROVE  ReportsInv'
<1>1. results \in Seq(Result)
    BY DEF TypeOK
<1>2. /\ Len(results') = Len(results) + 1 /\ Len(results) \in Nat
      /\ \A i \in 1..Len(results) : results'[i] = results[i]
      /\ results'[Len(results) + 1] = r
    BY <1>1, AppendProperties, LenProperties
<1>3. ASSUME NEW i \in 1..Len(results'), results'[i].error = None
      PROVE  results'[i].problems = Defects
  <2>1. CASE i \in 1..Len(results)
    BY <1>2, <1>3, <2>1 DEF ReportsInv
  <2>2. CASE i = Len(results) + 1
    BY <1>2, <1>3, <2>2
  <2> QED
    BY <1>2, <2>1, <2>2
<1> QED
    BY <1>3, SameDefects DEF ReportsInv

(* The worker takes the first of them. *)
LEMMA ReportsTake ==
    ASSUME TypeOK, ReportsInv, UNCHANGED <<task, ingest>>, results # <<>>,
           results' = Tail(results)
    PROVE  ReportsInv'
<1>1. results \in Seq(Result)
    BY DEF TypeOK
<1>2. /\ Len(results') = Len(results) - 1 /\ Len(results) \in Nat
      /\ \A i \in 1..Len(results') : results'[i] = results[i + 1]
    BY <1>1, HeadTailProperties, LenProperties
<1> QED
    BY <1>2, SameDefects DEF ReportsInv

LEMMA FirstWhole ==
    ASSUME TypeOK, ReportsInv, results # <<>>, Head(results).error = None
    PROVE  Head(results).problems = Defects
<1>1. Len(results) \in Nat \ {0} /\ Head(results) = results[1]
    BY HeadTailProperties, EmptySeq DEF TypeOK
<1> QED
    BY <1>1 DEF ReportsInv

LEMMA OutcomeTaskFails ==
    ASSUME ReportsInv, SavesInv, Running, NEW kind \in Failure, TaskFails(kind)
    PROVE  ReportsInv' /\ SavesInv'
<1>1. CASE kind = "transient" /\ MayRetryTask
  <2>1. /\ ingest' = None /\ results' = <<>>
        /\ saving' = {} /\ found' = FALSE /\ recorded' \in {{}, recorded}
        /\ UNCHANGED <<task, status, rechecks>>
    BY <1>1 DEF TaskFails, StartGroup
  <2>2. status' = "processing"
    BY <2>1 DEF Running
  <2>3. Len(results') = 0
    BY <2>1, EmptySeq
  <2> QED
    BY <2>1, <2>2, <2>3, SameDefects DEF ReportsInv, SavesInv, Exact
<1>2. CASE ~(kind = "transient" /\ MayRetryTask)
  <2>1. status' = "error" /\ UNCHANGED <<task, ingest, results, saves>>
    BY <1>2 DEF TaskFails, outcome
  <2> QED
    BY <2>1, ReportsFrame, SameDefects DEF SavesInv, Exact, saves
<1> QED
    BY <1>1, <1>2

LEMMA OutcomeRetryer ==
    ASSUME TypeOK, ReportsInv, SavesInv, Ingest \/ Retryer
    PROVE  ReportsInv' /\ SavesInv'
<1>1. UNCHANGED <<task, worker>>
    BY DEF Ingest, Retryer, RunEnds, RunAgain, RunFails
<1>2. SavesInv'
    BY <1>1, SavesFrame DEF worker
<1>3. CASE Ingest
  <2>1. ingest \in Result /\ ingest.problems = Defects /\ ingest' = None
    BY <1>3 DEF Ingest, TypeOK, ReportsInv
  <2>2. CASE results' = Append(results, ingest)
    BY <1>1, <1>2, <2>1, <2>2, ReportsAppend
  <2>3. CASE UNCHANGED results
    BY <1>1, <1>2, <2>1, <2>3, SameDefects DEF ReportsInv
  <2> QED
    BY <1>3, <2>2, <2>3 DEF Ingest
<1>4. CASE RunEnds
    BY <1>1, <1>2, <1>4, ReportsFrame DEF RunEnds
<1>5. CASE RunAgain
    BY <1>1, <1>2, <1>5, SameDefects DEF RunAgain, StartGroup, ReportsInv
<1>6. CASE RunFails
  <2>1. cause \in Failure /\ cause # None
    BY <1>6, NoneAssumption DEF RunFails, TypeOK
  <2> DEFINE r == [problems |-> {}, error |-> cause]
  <2>2. r \in Result /\ r.error # None
    BY <2>1, ReportType
  <2>3. results' = Append(results, r) /\ ingest' = ingest
    BY <1>6 DEF RunFails
  <2> HIDE DEF r
  <2> QED
    BY <1>1, <1>2, <2>2, <2>3, ReportsAppend
<1> QED
    BY <1>3, <1>4, <1>5, <1>6 DEF Retryer

LEMMA OutcomeWorker ==
    ASSUME TypeOK, ClosedInv, ReportsInv, SavesInv, Worker \/ SaveFails
    PROVE  ReportsInv' /\ SavesInv'
<1>1. CASE TakeReport
  <2>1. /\ results # <<>> /\ results' = Tail(results) /\ Head(results).error = None
        /\ found' = TRUE /\ unsaved' = Head(results).problems
        /\ saving' = {"record", "recheck"}
        /\ UNCHANGED <<task, ingest, status, recorded, rechecks>> /\ Running
    BY <1>1 DEF TakeReport, AwaitsResult
  <2>2. unsaved' = Defects
    BY <2>1, FirstWhole
  <2>3. ReportsInv'
    BY <2>1, ReportsTake
  <2> QED
    BY <2>1, <2>2, <2>3, SameDefects DEF SavesInv, Exact, Running
<1>2. CASE TakeEmptyReport
  <2>1. Defects = {}
    BY <1>2, FirstWhole DEF TakeEmptyReport
  <2>2. UNCHANGED <<task, ingest, results, saves>>
    BY <1>2 DEF TakeEmptyReport, Finish, outcome
  <2>3. recorded' = {} /\ Defects' = {}
    BY <2>1, <2>2, SameDefects DEF SavesInv, saves
  <2>4. Exact'
    BY <2>3 DEF Exact
  <2> QED
    BY <2>2, <2>4, ReportsFrame, SameDefects DEF SavesInv, saves
<1>3. CASE TakeError
    BY <1>3, ErrorKind, OutcomeTaskFails DEF TakeError, AwaitsResult
<1>4. CASE SeeResultsOver
  <2>1. found /\ saving = {}
    BY <1>4 DEF SeeResultsOver, AwaitsResult, ClosedInv, Reporting
  <2>2. UNCHANGED <<task, ingest, results, saves>>
    BY <1>4 DEF SeeResultsOver, Finish, outcome
  <2>3. recorded = Defects /\ {p.doc : p \in Defects} \subseteq rechecks
    BY <2>1 DEF SavesInv
  <2>4. Exact'
    BY <2>2, <2>3, SameDefects DEF Exact, saves
  <2> QED
    BY <2>2, <2>4, ReportsFrame, SameDefects DEF SavesInv, saves
<1>5. CASE Save
  <2>1. PICK w \in saving :
            /\ saving' = saving \ {w}
            /\ recorded' = IF w = "record" THEN recorded \cup unsaved ELSE recorded
            /\ rechecks' = IF w = "recheck" THEN rechecks \cup {p.doc : p \in unsaved}
                                            ELSE rechecks
    BY <1>5 DEF Save
  <2>2. UNCHANGED <<task, ingest, results, status, unsaved, found>> /\ Running
    BY <1>5 DEF Save, outcome
  <2>3. found /\ unsaved = Defects
    BY <2>1 DEF SavesInv
  <2>4. ReportsInv'
    BY <2>2, ReportsFrame
  <2>5. recorded' \subseteq Defects
    BY <2>1, <2>3 DEF SavesInv
  <2>6. "record" \notin saving' => Defects \subseteq recorded'
    BY <2>1, <2>3 DEF SavesInv
  <2>7. "recheck" \notin saving' => {p.doc : p \in Defects} \subseteq rechecks'
    BY <2>1, <2>3 DEF SavesInv
  <2>8. Exact'
    BY <2>2 DEF Exact, Running
  <2> QED
    BY <2>2, <2>3, <2>4, <2>5, <2>6, <2>7, <2>8, SameDefects DEF SavesInv
<1>6. CASE SaveFails
    BY <1>6, OutcomeTaskFails DEF SaveFails
<1> QED
    BY <1>1, <1>2, <1>3, <1>4, <1>5, <1>6 DEF Worker

LEMMA IdInit ==
    ASSUME Init
    PROVE  IdInv
<1>1. \A s \in Side : rpc[s] = "open" /\ left[s] = {} /\ batch[s] = {} /\ cache[s] = {}
    BY DEF Init, Neither
<1>2. \A s \in Side : ~Opened(s) /\ Seen(s) = {}
    BY <1>1 DEF Init, Opened, Seen
<1>3. EndsInv
    BY <1>1 DEF Init, EndsInv
<1>4. PairingInv
    BY <1>1, <1>2 DEF Init, PairingInv, Differing, Side
<1>5. Len(results) = 0
    BY EmptySeq DEF Init
<1>6. ReportsInv /\ SavesInv
    BY <1>5 DEF Init, ReportsInv, SavesInv, Exact
<1> QED
    BY <1>3, <1>4, <1>6 DEF IdInv

(* RecordedExact, under _id partitioning: however the goroutines interleave, and    *)
(* whichever read or write fails, at whatever step, and is tried again, a task that *)
(* is over has recorded each of its mismatches and nothing else, and enqueued their *)
(* documents, unless the comparator took a channel that a failing reader closed for *)
(* the end of the documents.                                                        *)
THEOREM IdRecordedExact == Spec => [](~natural => RecordedExact)
<1>1. Init => IdInv
    BY IdInit
<1>2. TypeOK /\ ClosedInv /\ IdInv /\ [Next]_vars => IdInv'
  <2> SUFFICES ASSUME TypeOK, ClosedInv, IdInv, [Next]_vars, ~natural'
               PROVE  EndsInv' /\ PairingInv' /\ (~misled' => ReportsInv' /\ SavesInv')
    BY DEF IdInv
  <2>1. CASE UNCHANGED vars
    <3>1. ~natural /\ EndsInv /\ PairingInv /\ (~misled => ReportsInv /\ SavesInv)
        BY <2>1 DEF vars, task, IdInv
    <3>2. EndsInv' /\ PairingInv'
        BY <2>1, <3>1, EndsFrame, PairingFrame
           DEF vars, task, reading, compare, group, Opened
    <3>3. ~misled' => ReportsInv' /\ SavesInv'
        BY <2>1, <3>1, ReportsFrame, SavesFrame DEF vars, outcome, worker
    <3> QED
        BY <3>2, <3>3
  <2>2. CASE Next
    <3>1. ~natural /\ (~misled' => ~misled)
        BY <2>2, TaskFixed, MisledStays DEF task
    <3>2. EndsInv /\ PairingInv /\ (~misled' => ReportsInv /\ SavesInv)
        BY <3>1 DEF IdInv
    <3>3. CASE \E s \in Side : Reader(s)
        BY <3>1, <3>2, <3>3, EndsReaders, PairingReaders, OutcomeReaders
    <3>4. CASE Comparing
        BY <3>1, <3>2, <3>4, EndsComparing, PairingComparing, OutcomeComparing
    <3>5. CASE Ingest \/ Retryer
        BY <3>2, <3>5, EndsOthers, PairingOthers, OutcomeRetryer
    <3>6. CASE Worker \/ SaveFails
        BY <3>2, <3>6, EndsOthers, PairingOthers, OutcomeWorker
    <3> QED
        BY <2>2, <3>1, <3>2, <3>3, <3>4, <3>5, <3>6, NoNatural DEF Next
  <2> QED
    BY <2>1, <2>2
<1>3. IdInv => (~natural => RecordedExact)
    BY DEF IdInv, SavesInv, Exact, RecordedExact
<1> QED
    BY <1>1, <1>2, <1>3, TypeCorrect, ClosedInductive, PTL DEF Spec

=============================================================================
