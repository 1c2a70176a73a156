---------------------------- MODULE ChangeReader ----------------------------
(***************************************************************************)
(* One cluster's change reader and change persistor: change_reader.go,     *)
(* change_stream.go, oplog_reader.go and recheck_persist.go of             *)
(* internal/verifier.                                                      *)
(*                                                                         *)
(* The reader polls a stream of change events and sends each answer, with  *)
(* its resume token, through a bounded channel to the persistor, which     *)
(* stores a recheck per event and, now and then, the token.  When the      *)
(* connection fails the reader opens a new stream at the PERSISTED token,  *)
(* while the batches of the old one still wait in the channel.  After      *)
(* writes-off it reads until it knows that no event up to the writes-off   *)
(* timestamp is left; how it knows depends on the kind of reader.          *)
(*                                                                         *)
(* Events are numbered by their place in the stream; a position is the     *)
(* number of the last event delivered.                                     *)
(***************************************************************************)
EXTENDS Integers, Sequences, FiniteSets

CONSTANTS
    Kinds,        \* the kinds of reader, of these three: a change stream of MongoDB
                  \* or of DocumentDB, and an oplog
    LateWrites,   \* TRUE: someone goes on writing after writes-off
    BufferSize,   \* batchChanBufferSize
    IdlePolls,    \* docDBDrainIdlePolls
    MaxLull,      \* bound: empty answers in a row of a DocumentDB server that
                  \* has something to deliver
    None,         \* no value
    MaxEvents,    \* bound: events in the stream
    MaxTime,      \* bound: the last clock value
    MaxFailures,  \* bound: connection failures
    MaxCrashes    \* bound: crashes of the verifier process

ASSUME KindAssumption ==
    /\ Kinds \subseteq {"changeStream", "documentDB", "oplog"}
    /\ LateWrites \in BOOLEAN

ASSUME SizeAssumption ==
    /\ BufferSize \in Nat \ {0}
    /\ IdlePolls \in Nat
    /\ MaxLull \in Nat
    /\ MaxEvents \in Nat
    /\ MaxTime \in Nat
    /\ MaxFailures \in Nat
    /\ MaxCrashes \in Nat

\* What DocumentDB's drain rests on: that a server with something to deliver is not
\* silent as long as the drain listens.  Nothing else tells a lull from the end.
ASSUME LullAssumption == MaxLull < IdlePolls

Index == 1..MaxEvents
Pos   == 0..MaxEvents
Time  == 0..MaxTime

\* A resume token: its position, the time it encodes, and the event counts
\* persisted with it.
Token == [pos : Pos, at : Time, count : Nat]

ASSUME NoneAssumption == None \notin Nat /\ None \notin Token

VARIABLES
    kind,        \* the kind of the reader, which is fixed
    \* --- the cluster (external) ---
    stream,      \* the clusterTime of each event, in stream order
    clock,       \* the server's operation time
    oldest,      \* events up to here are gone from the server's history
    stopped,     \* the applications have stopped writing
    \* --- the metadata database: survives a crash ---
    handled,     \* the events whose recheck is stored
    tokenDoc,    \* the resume token document, or None
    \* --- the reader goroutine: memory ---
    rpc,         \* where the reader is
    loaded,      \* the token document that loadResumeToken read, or None
    pos,         \* the stream's position
    at,          \* the time in the stream's resume token (opaque: 0 on DocumentDB)
    last,        \* lastChangeEventTime, which a new stream does not reset; 0 for a
                 \* change stream of MongoDB, whose drain does not look at it
    seenClock,   \* lastSeenClusterTime; 0 before DocumentDB's drain, which alone looks at it
    idle,        \* drainDocumentDBUntilQuiesced: idlePolls
    lull,        \* external: empty answers in a row while events wait
    chan,        \* eventBatchChan
    counts,      \* cumulativeEventCounts
    finalTs,     \* WritesOff's cluster time, or None
    fence,       \* writesOffTS, or None while not ready
    \* --- the persistor goroutine: memory ---
    ppc,         \* where the persistor is
    batch,       \* the batch it handles, or None
    pending,     \* its events whose recheck is not stored yet
    saved,       \* the event counts it is about to persist
    \* --- history ---
    first,       \* position at which the very first stream was opened
    skipped,     \* the events that a reopened stream has passed over
    failures,
    crashes

cluster   == <<kind, stream, clock, oldest, stopped>>
durable   == <<handled, tokenDoc>>
cursor    == <<pos, at, last, seenClock, idle, lull>>
request   == <<finalTs, fence>>
persistor == <<ppc, batch, pending, saved>>
history   == <<first, skipped, failures, crashes>>

vars == <<cluster, durable, rpc, loaded, cursor, chan, counts, request, persistor, history>>

Reading == {"read", "drain", "check"}

Larger(a, b) == IF a < b THEN b ELSE a

-----------------------------------------------------------------------------
(* The cluster *)

\* An oplog entry has a time of its own.
SharedTimes == kind # "oplog"

\* A write appears in the stream, at a new time or, as another event of the same
\* transaction or (on DocumentDB) of the same second, at that of the last event.
Write ==
    /\ ~stopped
    /\ Len(stream) < MaxEvents
    /\ \E t \in Time :
          /\ \/ t = clock + 1
             \/ SharedTimes /\ stream # <<>> /\ t = clock /\ stream[Len(stream)] = clock
          /\ stream' = Append(stream, t)
          /\ clock' = t
    /\ UNCHANGED <<kind, oldest, stopped, durable, rpc, loaded, cursor, chan, counts,
                   request, persistor, history>>

\* The clock advances without an event the reader asked for.
Tick ==
    /\ clock < MaxTime
    /\ clock' = clock + 1
    /\ UNCHANGED <<kind, stream, oldest, stopped, durable, rpc, loaded, cursor, chan, counts,
                   request, persistor, history>>

\* The oplog is capped; DocumentDB keeps events for some hours.
Trim ==
    /\ oldest < Len(stream)
    /\ oldest' = oldest + 1
    /\ UNCHANGED <<kind, stream, clock, stopped, durable, rpc, loaded, cursor, chan, counts,
                   request, persistor, history>>

-----------------------------------------------------------------------------
(* WritesOff *)

\* GetNewClusterTime: MongoDB writes a note to the oplog and so makes a new time
\* that no event has; DocumentDB's clock is only read.
FetchFinalTs ==
    /\ rpc # "down"
    /\ finalTs = None
    /\ stopped' = TRUE
    /\ clock' = IF kind = "documentDB" THEN clock ELSE clock + 1
    /\ clock' \in Time
    /\ finalTs' = clock'
    /\ UNCHANGED <<kind, stream, oldest, durable, rpc, loaded, cursor, chan, counts, fence,
                   persistor, history>>

\* setWritesOff: the reader's Eventual is ready.
SetWritesOff ==
    /\ finalTs # None
    /\ fence = None
    /\ fence' = finalTs
    /\ UNCHANGED <<cluster, durable, rpc, loaded, cursor, chan, counts, finalTs,
                   persistor, history>>

-----------------------------------------------------------------------------
(* The reader: opening a stream *)

\* The time a resume token encodes; a DocumentDB token is opaque.
TokenTime(t) == IF kind = "documentDB" THEN 0 ELSE t

\* No token yet: the stream starts at the present, events in its first answer
\* are discarded, and its token is persisted at once.
OpenFirst ==
    /\ rpc = "connect"
    /\ tokenDoc = None
    /\ pos' = Len(stream)
    /\ at' = TokenTime(clock)
    /\ tokenDoc' = [pos |-> Len(stream), at |-> at', count |-> counts]
    /\ first' = Len(stream)
    /\ lull' = 0
    /\ rpc' = "read"
    /\ UNCHANGED <<cluster, handled, loaded, last, seenClock, idle, chan, counts, request,
                   persistor, skipped, failures, crashes>>

\* loadResumeToken: FindOne ...
LoadToken ==
    /\ rpc = "connect"
    /\ tokenDoc # None
    /\ loaded' = tokenDoc
    /\ rpc' = "open"
    /\ UNCHANGED <<cluster, durable, cursor, chan, counts, request, persistor, history>>

\* Mutant: the error is taken for one like others.
HistoryLost_Ignored == FALSE

\* IsChangeStreamHistoryLostError: the server no longer has what follows the token.  The
\* oplog is a collection like others, and reading it from a time it no longer has is no
\* error.
HistoryLost == kind # "oplog" /\ loaded.pos < oldest

\* Mutant: a stream that is opened again starts at the present.
Open_Present ==
    /\ rpc = "open"
    /\ counts' = loaded.count
    /\ ~HistoryLost
    /\ pos' = Len(stream)
    /\ at' = TokenTime(clock)
    /\ lull' = 0
    /\ rpc' = "read"
    /\ loaded' = None
    /\ UNCHANGED <<cluster, durable, last, seenClock, idle, chan, request, persistor,
                   history>>

\* ... which also sets the event counts; then the stream opens after the token, at the
\* first event that is left.
Open ==
    /\ rpc = "open"
    /\ counts' = loaded.count
    /\ ~HistoryLost
    /\ pos' = Larger(loaded.pos, oldest)
    /\ skipped' = skipped \cup (loaded.pos + 1)..pos'
    /\ at' = loaded.at
    /\ lull' = 0
    /\ rpc' = "read"
    /\ loaded' = None
    /\ UNCHANGED <<cluster, durable, last, seenClock, idle, chan, request, persistor,
                   first, failures, crashes>>

\* The verification cannot be trusted any more; only --clean helps.
OpenFails ==
    /\ rpc = "open"
    /\ counts' = loaded.count
    /\ HistoryLost
    /\ rpc' = "failed"
    /\ loaded' = None
    /\ UNCHANGED <<cluster, durable, cursor, chan, request, persistor, history>>

\* A transient error, or the history under the cursor is gone: the retryer calls
\* createIteratorCb again.
Disconnect ==
    /\ rpc \in Reading
    /\ \/ failures < MaxFailures /\ failures' = failures + 1
       \/ pos < oldest /\ UNCHANGED failures
    /\ rpc' = "connect"
    /\ UNCHANGED <<cluster, durable, loaded, cursor, chan, counts, request, persistor,
                   first, skipped, crashes>>

-----------------------------------------------------------------------------
(* The reader: polling *)

\* An event past the ones that count, which a writer who does not stop makes.
Late(p) == LateWrites /\ stopped /\ p = Len(stream)

\* The times of MongoDB's resume token after an answer that ends with event p.
\* A token between events promises that every event up to its time has been
\* delivered; a change stream's token may also be that of event p itself.
Reached(p) ==
    {t \in at..clock :
        /\ p > 0 => stream[p] <= t
        /\ \A j \in (p + 1)..Len(stream) : stream[j] > t}

TokenTimes(p) ==
    CASE kind = "changeStream" -> Reached(p) \cup (IF p > pos THEN {stream[p]} ELSE {})
      [] kind = "oplog"        -> Reached(p)
      [] kind = "documentDB"   -> {0}

\* The operation times the answer may report.
ServerTimes(p) ==
    IF kind = "documentDB" /\ rpc = "drain"
        THEN {t \in seenClock..clock : p > 0 => stream[p] <= t}
        ELSE {0}

\* Mutant: the channel takes a batch too many.
CanSend_OneMore == Len(chan) <= BufferSize

\* A send to the channel blocks while it is full.
CanSend == Len(chan) < BufferSize

\* readAndHandleOneChangeEventBatch, readAndHandleOneBatch: one answer, with the
\* events up to p, is read and sent.  The oplog reader sends nothing for an
\* empty answer, and its lastChangeEventTime also counts entries that are no
\* events.
Poll(p, t, now) ==
    /\ \/ rpc = "read" /\ fence = None
       \/ rpc = "drain"
    /\ pos >= oldest
    /\ CanSend
    /\ t \in TokenTimes(p)
    /\ kind = "oplog" => t > at
    /\ now \in ServerTimes(p)
    /\ lull' = IF kind = "documentDB" /\ p = pos /\ pos < Len(stream) THEN lull + 1 ELSE 0
    /\ lull' <= MaxLull
    /\ chan' = Append(chan, [from |-> pos, upTo |-> p, at |-> t])
    /\ pos' = p
    /\ at' = t
    /\ last' = IF kind = "oplog" THEN t
               ELSE IF kind = "changeStream" THEN last
               ELSE IF Late(p) THEN clock
               ELSE IF p > pos THEN Larger(last, stream[p])
               ELSE last
    /\ seenClock' = now
    /\ idle' = IF kind = "documentDB" /\ rpc = "drain" /\ p = pos /\ ~Late(p)
                   THEN (IF idle < IdlePolls THEN idle + 1 ELSE idle)
                   ELSE 0
    /\ rpc' = IF rpc = "drain" THEN "check" ELSE "read"
    /\ UNCHANGED <<cluster, durable, loaded, counts, request, persistor, history>>

\* The writes-off timestamp is there.  DocumentDB's drain polls first and then
\* looks whether it is over; the others look first.
EnterDrain ==
    /\ rpc = "read"
    /\ fence # None
    /\ idle' = 0
    /\ rpc' = IF kind = "documentDB" THEN "drain" ELSE "check"
    /\ UNCHANGED <<cluster, durable, loaded, pos, at, last, seenClock, lull, chan, counts,
                   request, persistor, history>>

\* Mutants: the server's clock decides alone; DocumentDB's drain waits for idleness.
DrainOver_ServerClock == seenClock >= fence
DrainOver_IdleOnly == seenClock >= fence /\ idle >= IdlePolls

DrainOver ==
    CASE kind = "changeStream" -> at >= fence
      [] kind = "oplog"        -> last >= fence
      [] kind = "documentDB"   -> last >= fence \/ (seenClock >= fence /\ idle >= IdlePolls)

\* The reader closes its channel.
Close ==
    /\ rpc = "check"
    /\ DrainOver
    /\ rpc' = "done"
    /\ UNCHANGED <<cluster, durable, loaded, cursor, chan, counts, request, persistor,
                   history>>

PollAgain ==
    /\ rpc = "check"
    /\ ~DrainOver
    /\ rpc' = "drain"
    /\ UNCHANGED <<cluster, durable, loaded, cursor, chan, counts, request, persistor,
                   history>>

ReadSome == \E p \in pos..Len(stream), t, now \in Time : Poll(p, t, now)

\* The server answers with everything it has.
ReadAll ==
    \/ kind = "documentDB" /\ Poll(Len(stream), 0, clock)
    \/ kind # "documentDB" /\ Poll(Len(stream), clock, 0)

-----------------------------------------------------------------------------
(* The persistor *)

\* RunChangeEventPersistor receives a batch; PersistChangeEvents counts its
\* events before it stores any recheck.
Receive ==
    /\ ppc = "wait"
    /\ chan # <<>>
    /\ rpc # "down"
    /\ batch' = Head(chan)
    /\ chan' = Tail(chan)
    /\ pending' = (batch'.from + 1)..batch'.upTo
    /\ counts' = counts + Cardinality(pending')
    /\ ppc' = "insert"
    /\ UNCHANGED <<cluster, durable, rpc, loaded, cursor, request, saved, history>>

\* insertRecheckDocs: parallel bulk inserts, so in any order.
Insert(i) ==
    /\ ppc = "insert"
    /\ i \in pending
    /\ handled' = handled \cup {i}
    /\ pending' = pending \ {i}
    /\ UNCHANGED <<cluster, tokenDoc, rpc, loaded, cursor, chan, counts, request, ppc,
                   batch, saved, history>>

\* Mutant: the inserts are not awaited.
AllInserted_Started == TRUE

\* insertRecheckDocs has returned.
AllInserted == pending = {}

\* resumeTokenPersistInterval has not passed since the last token.
SkipToken ==
    /\ ppc = "insert"
    /\ AllInserted
    /\ ppc' = "wait"
    /\ batch' = None
    /\ pending' = {}
    /\ UNCHANGED <<cluster, durable, rpc, loaded, cursor, chan, counts, request, saved,
                   history>>

\* persistResumeToken takes the event counts ...
TakeCounts ==
    /\ ppc = "insert"
    /\ AllInserted
    /\ saved' = counts
    /\ ppc' = "persist"
    /\ UNCHANGED <<cluster, durable, rpc, loaded, cursor, chan, counts, request, batch,
                   pending, history>>

\* Mutant: the token persisted is the reader's, not the batch's.
ReplaceToken_ReadersOwn ==
    /\ ppc = "persist"
    /\ tokenDoc' = [pos |-> pos, at |-> at, count |-> saved]
    /\ ppc' = "wait"
    /\ batch' = None
    /\ pending' = {}
    /\ saved' = 0
    /\ UNCHANGED <<cluster, handled, rpc, loaded, cursor, chan, counts, request, history>>

\* ... and replaces the document.
ReplaceToken ==
    /\ ppc = "persist"
    /\ tokenDoc' = [pos |-> batch.upTo, at |-> batch.at, count |-> saved]
    /\ ppc' = "wait"
    /\ batch' = None
    /\ pending' = {}
    /\ saved' = 0
    /\ UNCHANGED <<cluster, handled, rpc, loaded, cursor, chan, counts, request, history>>

-----------------------------------------------------------------------------
(* The process *)

\* Whatever was in memory is lost.
Crash ==
    /\ rpc # "down"
    /\ crashes < MaxCrashes
    /\ crashes' = crashes + 1
    /\ rpc' = "down"
    /\ loaded' = None
    /\ pos' = 0 /\ at' = 0 /\ last' = 0 /\ seenClock' = 0 /\ idle' = 0 /\ lull' = 0
    /\ chan' = <<>>
    /\ counts' = 0
    /\ finalTs' = None /\ fence' = None
    /\ ppc' = "wait" /\ batch' = None /\ pending' = {} /\ saved' = 0
    /\ UNCHANGED <<cluster, durable, first, skipped, failures>>

\* startChangeHandling.
Start ==
    /\ rpc = "down"
    /\ rpc' = "connect"
    /\ UNCHANGED <<cluster, durable, loaded, cursor, chan, counts, request, persistor,
                   history>>

Init ==
    /\ kind \in Kinds
    /\ stream = <<>> /\ clock = 0 /\ oldest = 0 /\ stopped = FALSE
    /\ handled = {} /\ tokenDoc = None
    /\ rpc = "down" /\ loaded = None
    /\ pos = 0 /\ at = 0 /\ last = 0 /\ seenClock = 0 /\ idle = 0 /\ lull = 0
    /\ chan = <<>> /\ counts = 0
    /\ finalTs = None /\ fence = None
    /\ ppc = "wait" /\ batch = None /\ pending = {} /\ saved = 0
    /\ first = 0 /\ skipped = {} /\ failures = 0 /\ crashes = 0

Opening == OpenFirst \/ LoadToken \/ Open \/ OpenFails

Draining == EnterDrain \/ Close \/ PollAgain

PersistorStep ==
    \/ Receive
    \/ \E i \in Index : Insert(i)
    \/ SkipToken
    \/ TakeCounts
    \/ ReplaceToken

Next ==
    \/ Write \/ Tick \/ Trim
    \/ FetchFinalTs \/ SetWritesOff
    \/ Opening \/ ReadSome \/ Draining \/ Disconnect
    \/ PersistorStep
    \/ Crash \/ Start

Spec == Init /\ [][Next]_vars

\* The two goroutines run, and a server that is asked again and again answers
\* at some time with everything it has.
Fairness ==
    /\ WF_vars(Opening) /\ WF_vars(Draining) /\ WF_vars(PersistorStep)
    /\ SF_vars(ReadAll)
    /\ WF_vars(pos < oldest /\ Disconnect)

FairSpec == Spec /\ Fairness

-----------------------------------------------------------------------------
(* Properties *)

Batch == [from : Pos, upTo : Pos, at : Time]

\* Every variable has the type its comment gives, and the channel its capacity.
TypeOK ==
    /\ kind \in Kinds
    /\ stream \in Seq(Time) /\ Len(stream) <= MaxEvents
    /\ clock \in Time
    /\ oldest \in Pos
    /\ stopped \in BOOLEAN
    /\ handled \in SUBSET Index
    /\ tokenDoc \in Token \cup {None}
    /\ rpc \in Reading \cup {"down", "connect", "open", "done", "failed"}
    /\ loaded \in (IF rpc = "open" THEN Token ELSE {None})
    /\ pos \in Pos
    /\ at \in Time
    /\ last \in Time
    /\ seenClock \in Time
    /\ idle \in 0..IdlePolls
    /\ lull \in 0..MaxLull
    /\ chan \in Seq(Batch) /\ Len(chan) <= BufferSize
    /\ counts \in Nat
    /\ finalTs \in Time \cup {None}
    /\ fence \in Time \cup {None}
    /\ ppc \in {"wait", "insert", "persist"}
    /\ batch \in (IF ppc = "wait" THEN {None} ELSE Batch)
    /\ pending \in SUBSET Index
    /\ saved \in Nat
    /\ first \in Pos
    /\ skipped \in SUBSET Index
    /\ failures \in 0..MaxFailures
    /\ crashes \in 0..MaxCrashes

\* Change handling has ended without an error: the reader closed its channel and
\* the persistor emptied it.
HandlingDone == rpc = "done" /\ chan = <<>> /\ ppc = "wait"

\* The events that are accounted for: their recheck is stored, or an oplog reader has
\* passed over them because they were gone.  No other reader passes over anything.
Delivered == handled \cup {i \in skipped : kind = "oplog"}

\* README, Resumability: a restart receives "any change events that happened
\* while the verifier was down".  So every event up to the persisted token is delivered,
\* however often the reader reconnected and however many batches of an older stream were
\* still in the channel.
TokenDelivered ==
    tokenDoc # None => (first + 1)..tokenDoc.pos \subseteq Delivered

\* The events up to the writes-off timestamp.  Of several that have this very timestamp
\* DocumentDB's drain, which stops at the first that it reads, is only sure to read one.
Due(i) ==
    /\ stream[i] <= fence
    /\ kind = "documentDB" => ~(i > 1 /\ stream[i - 1] = fence)

\* drainDocumentDBUntilQuiesced reads until it "has certainly delivered every
\* event up to writesOffTs"; the other readers promise the same.
FenceDelivered ==
    HandlingDone =>
        \A i \in (first + 1)..Len(stream) : Due(i) => i \in Delivered

\* Once the reader knows the writes-off timestamp it comes to its end, even if
\* someone goes on writing.
DrainEnds == (fence # None) ~> (HandlingDone \/ rpc \in {"failed", "down"})

-----------------------------------------------------------------------------
(* The abstract specification *)

\* An event that was there when the first stream was opened needs no recheck, and what an
\* oplog reader passed over gets none; one up to the writes-off timestamp is due once the
\* reader knows that.
Ledger == INSTANCE ChangeLedger WITH
              happened <- Len(stream),
              stored <- Delivered \cup 1..first,
              token <- IF tokenDoc = None THEN None ELSE tokenDoc.pos,
              asked <- fence # None,
              due <- {i \in 1..Len(stream) : fence # None /\ Due(i)},
              over <- HandlingDone

\* Each step of reader and persistor keeps the ledger: no token is ahead of the stored
\* rechecks, nothing but a crash forgets one, change handling ends when all that is due
\* is stored, and then stores nothing more.
LedgerKept == Ledger!Spec

=============================================================================
