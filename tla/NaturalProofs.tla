--------------------------- MODULE NaturalProofs ---------------------------
(***************************************************************************)
(* Natural partitioning in Comparator: what is recorded, and how much the  *)
(* comparator holds, for any sizes of documents, replies and channels.     *)
(*                                                                         *)
(* All rests on the two readers keeping step.  The comparator takes one    *)
(* message of each side in a round, and the destination reader sends as    *)
(* many messages for a reply as the source reader, padding included.  So   *)
(* the source is never more than one message ahead (StepInv), no document  *)
(* of a later reply is in the comparator's caches when the destination's   *)
(* cursor is done (FlushInv), and what is still there is missing.          *)
(***************************************************************************)
EXTENDS ComparatorProofs

-----------------------------------------------------------------------------
(* How many messages a set of documents is sent in. *)

Count(S) == BatchCount(Cardinality(S))

(* Whole division, by what it is bounded by. *)
LEMMA DivIs ==
    ASSUME NEW a \in Int, NEW n \in Nat \ {0}, NEW q \in Int, n * q <= a, a < n * q + n
    PROVE  a \div n = q
  <1> DEFINE p == a \div n
  <1>1. p \in Int /\ n * p <= a /\ a < n * p + n
    BY Z3
  <1>2. ASSUME p > q PROVE FALSE
    <2>1. n * p >= n * (q + 1)
      BY <1>1, <1>2, Z3
    <2>2. n * (q + 1) = n * q + n
      BY Z3
    <2> QED BY <1>1, <2>1, <2>2, Z3
  <1>3. ASSUME p < q PROVE FALSE
    <2>1. n * q >= n * (p + 1)
      BY <1>1, <1>3, Z3
    <2>2. n * (p + 1) = n * p + n
      BY <1>1, Z3
    <2> QED BY <1>1, <2>1, <2>2, Z3
  <1> QED BY <1>1, <1>2, <1>3

LEMMA BatchCountOf ==
    ASSUME NEW n \in Nat
    PROVE  /\ BatchCount(n) \in Nat
           /\ n = 0 => BatchCount(n) = 0
           /\ n > 0 => BatchCount(n) > 0
           /\ n > 0 /\ n <= BatchSize => BatchCount(n) = 1
           /\ n > BatchSize => BatchCount(n) = BatchCount(n - BatchSize) + 1
  <1>1. BatchSize \in Nat \ {0}
    BY SizeAssumption
  <1> DEFINE b == BatchSize
             a == n + b - 1
             q == a \div b
  <1>2. a \in Nat /\ q \in Int /\ b * q <= a /\ a < b * q + b
    BY <1>1, Z3
  <1>3. BatchCount(n) = q
    BY DEF BatchCount
  <1>4. q >= 0
    <2>1. ASSUME q <= -1 PROVE FALSE
      <3>1. b * q <= b * (-1)
        BY <1>1, <1>2, <2>1, Z3
      <3> QED BY <1>1, <1>2, <3>1, Z3
    <2> QED BY <1>2, <2>1
  <1>5. n = 0 => q = 0
    BY <1>1, <1>2, <1>4, Z3
  <1>6. n > 0 => q > 0
    BY <1>1, <1>2, <1>4, Z3
  <1>7. n > 0 /\ n <= b => q = 1
    <2>1. ASSUME n > 0, n <= b, q >= 2 PROVE FALSE
      <3>1. b * q >= b * 2
        BY <1>1, <1>2, <2>1, Z3
      <3> QED BY <1>1, <1>2, <2>1, <3>1
    <2> QED BY <1>2, <1>6, <2>1
  <1>8. ASSUME n > b PROVE BatchCount(n - b) = q - 1
    <2>1. b * (q - 1) = b * q - b
      BY <1>1, <1>2, Z3
    <2> DEFINE c == (n - b) + b - 1
               r == q - 1
    <2>2. b \in Nat \ {0} /\ c \in Int /\ r \in Int /\ b * r <= c /\ c < b * r + b
      BY <1>1, <1>2, <2>1
    <2> HIDE DEF c, r, q, a, b
    <2>4. c \div b = r
      BY <2>2, DivIs
    <2>3. ((n - b) + b - 1) \div b = q - 1
      BY <2>4 DEF c, r
    <2> QED BY <2>3 DEF BatchCount, b
  <1> HIDE DEF q
  <1> QED BY <1>2, <1>3, <1>4, <1>5, <1>6, <1>7, <1>8

LEMMA CountOf ==
    ASSUME NEW S \in SUBSET Doc
    PROVE  /\ Count(S) \in Nat
           /\ Count(S) = 0 <=> S = {}
  <1>1. Cardinality(S) \in Nat /\ (Cardinality(S) = 0 <=> S = {})
    BY DocSets, FS_EmptySet
  <1> QED BY <1>1, BatchCountOf DEF Count

(* A full message is one message. *)
LEMMA CountNext ==
    ASSUME NEW S \in SUBSET Doc, NEW C \in SUBSET S, S # {}, Next_n(C, BatchSize, S)
    PROVE  Count(S) = Count(S \ C) + 1 /\ C # {}
  <1>1. /\ IsFiniteSet(S) /\ Cardinality(S) \in Nat \ {0}
        /\ Cardinality(C) \in Nat /\ BatchSize \in Nat \ {0}
    BY DocSets, FS_EmptySet, SizeAssumption
  <1>2. Cardinality(S \ C) = Cardinality(S) - Cardinality(C)
    <2>1. S \cap C = C
      OBVIOUS
    <2> QED BY <1>1, <2>1, FS_Difference
  <1>3. CASE BatchSize < Cardinality(S)
    <2>1. Cardinality(C) = BatchSize
      BY <1>1, <1>3 DEF Next_n, Smaller
    <2>2. C # {}
      BY <1>1, <2>1, FS_EmptySet
    <2> QED BY <1>1, <1>2, <1>3, <2>1, <2>2, BatchCountOf DEF Count
  <1>4. CASE ~(BatchSize < Cardinality(S))
    <2>1. Cardinality(C) = Cardinality(S)
      BY <1>1, <1>4 DEF Next_n, Smaller
    <2>2. Cardinality(S \ C) = 0 /\ C # {}
      BY <1>1, <1>2, <2>1, FS_EmptySet
    <2> QED BY <1>1, <1>4, <2>2, BatchCountOf DEF Count
  <1> QED BY <1>3, <1>4

-----------------------------------------------------------------------------
(* What holds under natural partitioning. *)

\* The comparator has this round's message of one side.
InHand(s) == IF s \in got \ ended THEN 1 ELSE 0

\* The documents of the replies that the destination reader has yet to take.
Asked == {d \in Doc : \E i \in 1..Len(ids) : d \in ids[i]}

Queued ==
    IF Len(ids) = 0 THEN 0
    ELSE IF Len(ids) = 1 THEN Count(ids[1]) ELSE Count(ids[1]) + Count(ids[2])

\* A group is cancelled when its comparator or a reader has failed.  While the
\* comparator has not, the sides whose end it has seen are those of readers that are
\* done.
CalmInv ==
    /\ cancelled => cpc = "failed" \/ \E s \in Side : rpc[s] = "failed"
    /\ cpc # "failed" =>
         /\ \A s \in Side : rpc[s] \in {"closing", "done", "failed"} <=> s \in closed
         /\ rpc["src"] # "ids"
         /\ rpc["src"] = "open" =>
               "src" \notin got /\ ids = <<>> /\ cache["src"] = {} /\ problems = {}
         /\ rpc["src"] \in {"open", "done"} => left["src"] = {} /\ reply = {}
         /\ rpc["dst"] \in {"open", "ids", "done"} => left["dst"] = {} /\ pads = 0
         /\ rpc["dst"] \in {"open", "ids"} => "dst" \notin got
         /\ rpc["dst"] = "done" => ids = <<>> /\ "src" \in closed
         /\ \A s \in ended : rpc[s] = "done"
         /\ \A s \in Side : s \notin got \ ended => batch[s] = {}
         /\ cpc \in {"flush", "flushed", "done"} => ended = Side

\* The source has sent as many messages as the destination, or one more: at most
\* two replies wait for the destination reader, and nothing of them has been compared.
StepInv ==
    /\ Count(reply) + InHand("src") = Queued + Count(left["dst"]) + pads + InHand("dst")
    /\ Len(ids) <= 2
    /\ \A i \in 1..Len(ids) : ids[i] # {} /\ Cardinality(ids[i]) <= ReplySize
    /\ Len(ids) = 1 =>
         \/ ids[1] = reply
         \/ /\ ids[1] = reply \cup batch["src"] /\ InHand("src") = 1
            /\ left["dst"] = {} /\ pads = 0 /\ InHand("dst") = 0
    /\ Len(ids) = 2 =>
         /\ ids[2] = reply /\ ids[1] = batch["src"] /\ InHand("src") = 1
         /\ left["dst"] = {} /\ pads = 0 /\ InHand("dst") = 0

-----------------------------------------------------------------------------
(* Who is where. *)

\* A reader that fails leaves all but itself and the group alone.
LEMMA FailingReader ==
    ASSUME NEW s \in Side, OpenFails(s) \/ CursorFails(s) \/ Fails(s)
    PROVE  /\ UNCHANGED <<task, left, reply, ids, pads, compare, outcome, worker>>
           /\ rpc[s] \in {"open", "ids", "read", "closing"}
           /\ rpc' = [rpc EXCEPT ![s] = IF CursorFails(s) THEN "closing" ELSE "failed"]
           /\ CursorFails(s) \/ cancelled'
  BY DEF OpenFails, CursorFails, Fails, ReturnError

\* When the comparator has seen both ends no reader has failed.
LEMMA EndsCalm ==
    ASSUME CalmInv, cpc # "failed", ended = Side
    PROVE  ~cancelled /\ \A s \in Side : rpc[s] = "done"
  BY DEF CalmInv

\* What the queue of ids holds.
LEMMA QueueIs ==
    ASSUME TypeOK, StepInv
    PROVE  /\ Len(ids) \in {0, 1, 2}
           /\ \A i \in 1..Len(ids) : ids[i] \in SUBSET Doc
           /\ Len(ids) = 0 => ids = <<>> /\ Asked = {} /\ Queued = 0
           /\ Len(ids) = 1 => ids[1] \in SUBSET Doc /\ Asked = ids[1] /\ Queued = Count(ids[1])
           /\ Len(ids) = 2 => /\ ids[1] \in SUBSET Doc /\ ids[2] \in SUBSET Doc
                              /\ Asked = ids[1] \cup ids[2]
                              /\ Queued = Count(ids[1]) + Count(ids[2])
  <1>0. ids \in Seq(SUBSET Doc)
    BY DEF TypeOK
  <1>1. Len(ids) \in Nat /\ Len(ids) <= 2
    BY <1>0, LenProperties DEF StepInv
  <1>2. Len(ids) \in {0, 1, 2}
    <2>1. \A n \in Nat : n <= 2 => n \in {0, 1, 2}
      OBVIOUS
    <2> QED BY <1>1, <2>1, Zenon
  <1>3. \A i \in 1..Len(ids) : ids[i] \in SUBSET Doc
    BY <1>0, ElementOfSeq
  <1>4. Len(ids) = 0 => ids = <<>>
    BY <1>0, EmptySeq
  <1>5. Asked \subseteq Doc /\ \A d \in Doc : d \in Asked <=> \E i \in 1..Len(ids) : d \in ids[i]
    BY DEF Asked
  <1>6. Len(ids) = 0 => Asked = {}
    BY <1>5
  <1>7. Len(ids) = 1 => Asked = ids[1] /\ ids[1] \in SUBSET Doc
    BY <1>3, <1>5
  <1>8. Len(ids) = 2 => Asked = ids[1] \cup ids[2] /\ ids[1] \in SUBSET Doc /\ ids[2] \in SUBSET Doc
    BY <1>3, <1>5
  <1> QED BY <1>2, <1>3, <1>4, <1>6, <1>7, <1>8 DEF Queued

LEMMA QueuedNat ==
    ASSUME TypeOK, StepInv
    PROVE  Queued \in Nat /\ (Queued = 0 <=> ids = <<>>)
  <1>1. \A i \in 1..Len(ids) : ids[i] \in SUBSET Doc /\ Count(ids[i]) \in Nat \ {0}
    BY QueueIs, CountOf DEF StepInv
  <1>2. ids = <<>> <=> Len(ids) = 0
    BY EmptySeq DEF TypeOK
  <1> QED BY <1>1, <1>2, QueueIs

LEMMA CalmFrame ==
    ASSUME CalmInv,
           UNCHANGED <<rpc, left, reply, ids, pads, closed, cpc, got, batch, ended, cancelled,
                       cache, problems>>
    PROVE  CalmInv'
  BY DEF CalmInv

LEMMA CalmStartGroup ==
    ASSUME StartGroup
    PROVE  CalmInv'
  BY DEF StartGroup, CalmInv, Neither, Side

LEMMA CalmReaders ==
    ASSUME TypeOK, CalmInv, natural, NEW s \in Side, Reader(s)
    PROVE  CalmInv'
  <1> USE DEF Side
  <1>0. UNCHANGED cpc
    BY DEF Reader, Open, OpenFails, Send, Exhausted, CursorFails, Fails, Receive, compare
  <1>1. cancelled' => cpc' = "failed" \/ \E t \in Side : rpc'[t] = "failed"
    <2>1. CASE OpenFails(s) \/ Fails(s)
      BY <2>1 DEF OpenFails, Fails, TypeOK
    <2>2. CASE Open(s) \/ Send(s) \/ Exhausted(s) \/ CursorFails(s)
      BY <1>0, <2>2 DEF Open, Send, Exhausted, CursorFails, CalmInv, TypeOK, group
    <2> QED BY <2>1, <2>2 DEF Reader
  <1>2. CASE cpc = "failed"
    BY <1>0, <1>1, <1>2 DEF CalmInv
  <1>3. CASE cpc # "failed"
    <2>1. CASE Open(s)
      BY <1>1, <1>3, <2>1 DEF Open, CalmInv, TypeOK, compare
    <2>2. CASE OpenFails(s) \/ CursorFails(s) \/ Fails(s)
      <3>1. /\ UNCHANGED <<left, reply, ids, pads, cpc, got, ended, batch, cache, problems>>
            /\ s \notin ended
        BY <1>3, <2>2, FailingReader DEF CalmInv, compare
      <3>2. /\ rpc'[s] \in {"closing", "failed"} /\ s \in closed'
            /\ closed \subseteq closed' /\ closed' \subseteq closed \cup {s}
            /\ \A t \in Side \ {s} : rpc'[t] = rpc[t]
        BY <1>3, <2>2 DEF OpenFails, CursorFails, Fails, CalmInv, TypeOK
      <3>3. \A t \in Side : rpc'[t] \in {"closing", "done", "failed"} <=> t \in closed'
        BY <1>3, <3>2 DEF CalmInv
      <3>4. \A t \in Side : rpc'[t] \in {"open", "ids", "done"} => rpc'[t] = rpc[t]
        BY <3>2
      <3>5. \A t \in ended : rpc'[t] = "done"
        BY <1>3, <3>1, <3>2, <3>4 DEF CalmInv, TypeOK
      <3>6. "src" \in Side /\ "dst" \in Side
        OBVIOUS
      <3> HIDE DEF Side
      <3> QED BY <1>0, <1>1, <1>3, <3>1, <3>2, <3>3, <3>4, <3>5, <3>6 DEF CalmInv
    <2>3. CASE Send(s)
      <3>1. PICK C \in SUBSET left[s] : Receive(s, C) /\ left' = [left EXCEPT ![s] = @ \ C]
        BY <2>3 DEF Send
      <3>2. /\ rpc[s] = "read" /\ s \notin got
            /\ UNCHANGED <<rpc, reply, ids, pads, closed, cpc, ended, cancelled, cache,
                           problems>>
        BY <2>3, <3>1 DEF Send, Receive, group
      <3>3. got' = got \cup {s} /\ batch' = [batch EXCEPT ![s] = C]
        BY <3>1 DEF Receive
      <3>4. \A t \in Side \ {s} : left'[t] = left[t] /\ batch'[t] = batch[t]
        BY <3>1, <3>3 DEF TypeOK
      <3> QED BY <1>1, <1>3, <3>1, <3>2, <3>3, <3>4 DEF CalmInv, TypeOK
    <2>4. CASE Exhausted(s)
      BY <1>1, <1>3, <2>4 DEF Exhausted, CalmInv, TypeOK, compare
    <2> QED BY <2>1, <2>2, <2>3, <2>4 DEF Reader
  <1> QED BY <1>2, <1>3

LEMMA CalmNatural ==
    ASSUME TypeOK, CalmInv, natural, NaturalReaders
    PROVE  CalmInv'
  <1> USE DEF Side, group, compare
  <1>0. UNCHANGED <<cancelled, cpc>>
    BY DEF NaturalReaders, SendIds, SendReply, TakeIds, SendPadding, SendCursorDone, IdsOver,
           Receive
  <1>1. cancelled' => cpc' = "failed" \/ \E t \in Side : rpc'[t] = "failed"
    <2>1. \A t \in Side : rpc[t] = "failed" => rpc'[t] = "failed"
      BY DEF NaturalReaders, SendIds, SendReply, TakeIds, SendPadding, SendCursorDone, IdsOver,
             TypeOK
    <2> QED BY <1>0, <2>1 DEF CalmInv
  <1>2. CASE cpc = "failed"
    BY <1>0, <1>1, <1>2 DEF CalmInv
  <1>3. CASE cpc # "failed"
    <2>1. CASE SendIds
      <3>1. PICK R \in SUBSET left["src"] :
                ids' = Append(ids, R) /\ reply' = R /\ left' = [left EXCEPT !["src"] = @ \ R]
        BY <2>1 DEF SendIds
      <3>2. rpc["src"] = "read" /\ rpc["dst"] # "done"
        BY <1>3, <2>1 DEF SendIds, CalmInv
      <3> QED BY <1>1, <1>3, <2>1, <3>1, <3>2 DEF SendIds, CalmInv, TypeOK
    <2>2. CASE SendReply
      <3>1. PICK C \in SUBSET reply : Receive("src", C) /\ reply' = reply \ C
        BY <2>2 DEF SendReply
      <3> QED BY <1>1, <1>3, <2>2, <3>1 DEF SendReply, Receive, CalmInv, TypeOK
    <2>3. CASE TakeIds
      BY <1>1, <1>3, <2>3 DEF TakeIds, CalmInv, TypeOK
    <2>4. CASE SendPadding
      BY <1>1, <1>3, <2>4 DEF SendPadding, Receive, CalmInv, TypeOK
    <2>5. CASE SendCursorDone
      BY <1>1, <1>3, <2>5 DEF SendCursorDone, CalmInv, TypeOK
    <2>6. CASE IdsOver
      BY <1>1, <1>3, <2>6 DEF IdsOver, CalmInv, TypeOK
    <2> QED BY <2>1, <2>2, <2>3, <2>4, <2>5, <2>6 DEF NaturalReaders
  <1> QED BY <1>2, <1>3

\* Every message that is in hand is compared in its round: both sides sent one, or
\* both are at their end.
LEMMA RoundsMatch ==
    ASSUME TypeOK, CalmInv, StepInv, cpc = "read", RoundOver
    PROVE  InHand("src") = InHand("dst")
  <1>1. \A s \in Side : s \in ended => rpc[s] = "done"
    BY DEF CalmInv
  <1>2. /\ left["dst"] \in SUBSET Doc /\ reply \in SUBSET Doc /\ pads \in Nat
        /\ Count(left["dst"]) \in Nat /\ Count(reply) \in Nat
    BY CountOf DEF TypeOK, Side
  <1>3. Queued \in Nat
    BY QueuedNat
  <1>4. ASSUME "src" \in ended, "dst" \notin ended PROVE FALSE
    <2>1. reply = {} /\ InHand("src") = 0 /\ InHand("dst") = 1
      BY <1>1, <1>4 DEF CalmInv, InHand, RoundOver, Side
    <2>2. Count(reply) = 0
      BY <1>2, <2>1, CountOf
    <2> QED BY <1>2, <1>3, <2>1, <2>2 DEF StepInv
  <1>5. ASSUME "dst" \in ended, "src" \notin ended PROVE FALSE
    <2>1. /\ left["dst"] = {} /\ pads = 0 /\ ids = <<>> /\ InHand("dst") = 0
          /\ InHand("src") = 1
      BY <1>1, <1>5 DEF CalmInv, InHand, RoundOver, Side
    <2>2. Count(left["dst"]) = 0 /\ Queued = 0
      BY <1>2, <2>1, CountOf DEF Queued
    <2> QED BY <1>2, <2>1, <2>2 DEF StepInv
  <1> QED BY <1>4, <1>5 DEF InHand, RoundOver, Side

LEMMA CalmComparing ==
    ASSUME TypeOK, CalmInv, natural, ~misled', Comparing
    PROVE  CalmInv'
  <1> USE DEF Side, reading, group
  <1>0. cpc # "failed" /\ UNCHANGED rpc
    BY DEF Comparing, SeeClosed, FlushCursor, Compare, FlushLast, CompareReturns,
           CompareCancelled, Stall
  <1>1. ASSUME NEW s \in Side, SeeClosed(s) PROVE CalmInv'
    <2>1. \A t \in ended' : rpc[t] = "done"
      BY <1>1 DEF SeeClosed, Misled
    <2>2. /\ got' = got \cup {s} /\ ended' = ended \cup {s} /\ s \notin got /\ cpc = "read"
          /\ UNCHANGED <<rpc, left, reply, ids, pads, closed, cpc, batch, cache, problems, cancelled>>
      BY <1>1 DEF SeeClosed
    <2>3. got' \ ended' = got \ ended
      BY <2>2
    <2>4. rpc["src"] = "open" => s # "src"
      BY <1>0, <1>1 DEF SeeClosed, CalmInv
    <2>5. rpc["dst"] \in {"open", "ids"} => s # "dst"
      BY <1>0, <1>1 DEF SeeClosed, CalmInv
    <2> QED BY <1>0, <2>1, <2>2, <2>3, <2>4, <2>5 DEF CalmInv
  <1>2. CASE FlushCursor
    BY <1>0, <1>2 DEF FlushCursor, SendReport, Neither, RoundOver, CalmInv
  <1>3. CASE Compare
    BY <1>0, <1>3 DEF Compare, RoundOver, CalmInv, TypeOK, Neither
  <1>4. CASE FlushLast \/ CompareReturns
    BY <1>0, <1>4 DEF FlushLast, CompareReturns, SendReport, Neither, CalmInv
  <1>5. CASE CompareCancelled
    BY <1>5 DEF CompareCancelled, CalmInv
  <1>6. CASE Stall
    BY <1>6 DEF Stall, ReturnError, CalmInv
  <1> QED BY <1>1, <1>2, <1>3, <1>4, <1>5, <1>6 DEF Comparing

LEMMA CalmTaskFails ==
    ASSUME CalmInv, NEW kind \in Failure, TaskFails(kind)
    PROVE  CalmInv'
  <1>1. CASE kind = "transient" /\ MayRetryTask
    BY <1>1, CalmStartGroup DEF TaskFails
  <1>2. CASE ~(kind = "transient" /\ MayRetryTask)
    BY <1>2, CalmFrame DEF TaskFails, reading, compare, group
  <1> QED BY <1>1, <1>2

LEMMA CalmOthers ==
    ASSUME TypeOK, CalmInv, Ingest \/ Retryer \/ Worker \/ SaveFails
    PROVE  CalmInv'
  <1> USE DEF reading, compare, group
  <1>1. CASE Ingest \/ RunEnds \/ RunFails
    BY <1>1, CalmFrame DEF Ingest, RunEnds, RunFails
  <1>2. CASE RunAgain
    BY <1>2, CalmStartGroup DEF RunAgain
  <1>3. CASE TakeReport \/ TakeEmptyReport \/ SeeResultsOver \/ Save
    BY <1>3, CalmFrame DEF TakeReport, TakeEmptyReport, SeeResultsOver, Save, Finish
  <1>4. CASE TakeError
    BY <1>4, ErrorKind, CalmTaskFails DEF TakeError
  <1>5. CASE SaveFails
    BY <1>5, CalmTaskFails DEF SaveFails
  <1> QED BY <1>1, <1>2, <1>3, <1>4, <1>5 DEF Retryer, Worker

-----------------------------------------------------------------------------
(* The readers keep step. *)

LEMMA InHandBit == \A s \in Side : InHand(s) \in {0, 1}
  BY DEF InHand

LEMMA StepNumbers ==
    ASSUME TypeOK, StepInv
    PROVE  /\ Count(reply) \in Nat /\ Count(left["dst"]) \in Nat /\ Queued \in Nat
           /\ pads \in Nat /\ InHand("src") \in {0, 1} /\ InHand("dst") \in {0, 1}
           /\ Count(reply) = 0 <=> reply = {}
           /\ Count(left["dst"]) = 0 <=> left["dst"] = {}
  BY CountOf, QueuedNat, InHandBit DEF TypeOK, Side

LEMMA StepFrame ==
    ASSUME StepInv,
           UNCHANGED <<reply, ids, pads, left["dst"], batch["src"],
                       InHand("src"), InHand("dst")>>
    PROVE  StepInv'
  <1>1. Queued' = Queued
    BY DEF Queued, Count, BatchCount
  <1>2. Count(reply)' = Count(reply) /\ Count(left["dst"])' = Count(left["dst"])
    BY DEF Count, BatchCount
  <1> QED BY <1>1, <1>2 DEF StepInv

LEMMA StepStartGroup ==
    ASSUME StartGroup
    PROVE  StepInv'
  <1>1. /\ reply' = {} /\ left'["dst"] = {} /\ ids' = <<>> /\ pads' = 0
        /\ InHand("src")' = 0 /\ InHand("dst")' = 0
    BY DEF StartGroup, Neither, InHand, Side
  <1>2. Len(ids') = 0 /\ Count({}) = 0
    BY <1>1, EmptySeq, CountOf
  <1> QED BY <1>1, <1>2 DEF StepInv, Queued, Count, BatchCount

\* A message: one side has one less to send, and one in hand.
LEMMA ReceiveInHand ==
    ASSUME TypeOK, NEW s \in Side, NEW C, Receive(s, C)
    PROVE  /\ InHand(s) = 0 /\ InHand(s)' = 1
           /\ \A t \in Side \ {s} : InHand(t)' = InHand(t) /\ batch'[t] = batch[t]
           /\ batch'[s] = C
  BY DEF TypeOK, Receive, InHand

LEMMA StepSendIds ==
    ASSUME TypeOK, StepInv, SendIds
    PROVE  StepInv'
  <1>0. "src" \in Side /\ "dst" \in Side
    BY DEF Side
  <1>1. PICK n \in 1..ReplySize : \E R \in SUBSET left["src"] :
            /\ R # {} /\ Next_n(R, n, left["src"])
            /\ ids' = Append(ids, R) /\ reply' = R
            /\ left' = [left EXCEPT !["src"] = @ \ R]
    BY DEF SendIds
  <1>2. PICK R \in SUBSET left["src"] :
            /\ R # {} /\ Next_n(R, n, left["src"])
            /\ ids' = Append(ids, R) /\ reply' = R
            /\ left' = [left EXCEPT !["src"] = @ \ R]
    BY <1>1
  <1>3. /\ reply = {} /\ left'["dst"] = left["dst"]
        /\ UNCHANGED <<pads, batch, got, ended>>
    BY <1>0, <1>2 DEF SendIds, TypeOK, compare
  <1>4. R \in SUBSET Doc /\ Cardinality(R) \in Nat /\ Count(R) \in Nat \ {0}
    BY <1>0, <1>2, DocSets, CountOf DEF TypeOK
  <1>5. Cardinality(R) <= ReplySize
    <2>1. Cardinality(left["src"]) \in Nat /\ ReplySize \in Nat
      BY <1>0, DocSets, SizeAssumption DEF TypeOK
    <2> QED BY <1>2, <2>1 DEF Next_n, Smaller
  <1>6. /\ Len(ids') = Len(ids) + 1 /\ Len(ids) \in Nat /\ ids'[Len(ids) + 1] = R
        /\ \A i \in 1..Len(ids) : ids'[i] = ids[i]
    BY <1>2, <1>4, AppendProperties, LenProperties DEF TypeOK
  <1>7. /\ InHand("src")' = InHand("src") /\ InHand("dst")' = InHand("dst")
        /\ Count(left["dst"])' = Count(left["dst"]) /\ Count(reply)' = Count(R)
    BY <1>2, <1>3 DEF InHand, Count, BatchCount
  <1>8. Count(reply) = 0
    BY <1>3, StepNumbers
  <1>9. CASE Len(ids) = 0
    <2>1. Queued = 0 /\ Len(ids') = 1 /\ ids'[1] = R
      BY <1>6, <1>9, QueueIs
    <2>2. Queued' = Count(R)
      BY <2>1 DEF Queued, Count, BatchCount
    <2>3. \A i \in 1..Len(ids') : ids'[i] = R
      BY <2>1
    <2> QED BY <1>2, <1>3, <1>4, <1>5, <1>7, <1>8, <2>1, <2>2, <2>3, StepNumbers DEF StepInv
  <1>10. CASE Len(ids) = 1
    <2>1. ids[1] # {}
      BY <1>10 DEF StepInv
    <2>2. /\ ids[1] = batch["src"] /\ InHand("src") = 1
          /\ left["dst"] = {} /\ pads = 0 /\ InHand("dst") = 0
      BY <1>3, <1>10, <2>1 DEF StepInv
    <2>3. Queued = Count(ids[1]) /\ Queued = 1
      BY <1>8, <1>10, <2>2, QueueIs, StepNumbers DEF StepInv
    <2>4. Len(ids') = 2 /\ ids'[1] = ids[1] /\ ids'[2] = R
      BY <1>6, <1>10
    <2>5. Queued' = Count(ids[1]) + Count(R)
      BY <2>4 DEF Queued, Count, BatchCount
    <2>6. \A i \in 1..Len(ids') : ids'[i] = R \/ (1 \in 1..Len(ids) /\ ids'[i] = ids[1])
      BY <1>10, <2>4
    <2>7. Count(left["dst"]) = 0
      BY <2>2, StepNumbers
    <2>8. Count(reply)' + InHand("src")'
              = Queued' + Count(left["dst"])' + pads' + InHand("dst")'
      <3>1. /\ Count(reply)' = Count(R) /\ InHand("src")' = 1
            /\ Count(left["dst"])' = 0 /\ pads' = 0 /\ InHand("dst")' = 0
        BY <1>3, <1>7, <2>2, <2>7
      <3>2. Queued' = 1 + Count(R)
        BY <2>3, <2>5
      <3> QED BY <1>4, <3>1, <3>2
    <2>9. \A i \in 1..Len(ids') : ids'[i] # {} /\ Cardinality(ids'[i]) <= ReplySize
      BY <1>2, <1>5, <2>6 DEF StepInv
    <2> QED BY <1>2, <1>3, <1>7, <2>2, <2>4, <2>8, <2>9 DEF StepInv
  <1>11. CASE Len(ids) = 2
    BY <1>3, <1>11 DEF StepInv
  <1> QED BY <1>9, <1>10, <1>11, QueueIs

LEMMA StepSendReply ==
    ASSUME TypeOK, StepInv, SendReply
    PROVE  StepInv'
  <1>0. "src" \in Side /\ "dst" \in Side
    BY DEF Side
  <1>1. PICK C \in SUBSET reply :
            Next_n(C, BatchSize, reply) /\ Receive("src", C) /\ reply' = reply \ C
    BY DEF SendReply
  <1>2. reply # {} /\ UNCHANGED <<left, ids, pads>>
    BY DEF SendReply
  <1>3. Count(reply) = Count(reply \ C) + 1 /\ Count(reply \ C) \in Nat
    BY <1>1, <1>2, CountNext, CountOf DEF TypeOK
  <1>4. /\ InHand("src") = 0 /\ InHand("src")' = 1 /\ InHand("dst")' = InHand("dst")
        /\ batch'["src"] = C
    BY <1>0, <1>1, ReceiveInHand
  <1>5. Queued' = Queued /\ Count(left["dst"])' = Count(left["dst"])
        /\ Count(reply)' = Count(reply \ C)
    BY <1>1, <1>2 DEF Queued, Count, BatchCount
  <1>6. Count(reply)' + InHand("src")'
            = Queued' + Count(left["dst"])' + pads' + InHand("dst")'
    BY <1>2, <1>3, <1>4, <1>5, StepNumbers DEF StepInv
  <1>7. ASSUME Len(ids) = 1
        PROVE  /\ ids'[1] = reply' \cup batch'["src"] /\ InHand("src")' = 1
               /\ left'["dst"] = {} /\ pads' = 0 /\ InHand("dst")' = 0
    <2>1. ids[1] = reply
      BY <1>4, <1>7 DEF StepInv
    <2>2. Queued = Count(reply)
      BY <1>7, <2>1, QueueIs
    <2>3. Count(left["dst"]) = 0 /\ pads = 0 /\ InHand("dst") = 0
      BY <1>4, <2>2, StepNumbers DEF StepInv
    <2> QED BY <1>1, <1>2, <1>4, <2>1, <2>3, StepNumbers
  <1>8. Len(ids) # 2
    BY <1>4 DEF StepInv
  <1> QED BY <1>2, <1>6, <1>7, <1>8 DEF StepInv

LEMMA StepTakeIds ==
    ASSUME TypeOK, CalmInv, cpc # "failed", StepInv, TakeIds
    PROVE  /\ StepInv'
           /\ Len(ids') = Len(ids) - 1
           /\ \A i \in 1..Len(ids') : ids'[i] = ids[i + 1]
           /\ Head(ids) = ids[1] /\ 1 \in 1..Len(ids) /\ ids[1] \in SUBSET Doc
  <1>0. "src" \in Side /\ "dst" \in Side
    BY DEF Side
  <1>1. rpc["dst"] = "ids" /\ ids # <<>> /\ UNCHANGED <<reply, got, ended, batch>>
    BY DEF TakeIds, compare
  <1>2. left["dst"] = {} /\ pads = 0 /\ "dst" \notin got
    BY <1>1 DEF CalmInv
  <1>3. InHand("dst") = 0 /\ Count(left["dst"]) = 0
    BY <1>2, StepNumbers DEF InHand
  <1>4. /\ Len(ids') = Len(ids) - 1 /\ Len(ids) \in Nat \ {0} /\ Head(ids) = ids[1]
        /\ \A i \in 1..Len(ids') : ids'[i] = ids[i + 1]
    BY <1>1, HeadTailProperties, EmptySeq DEF TakeIds, TypeOK
  <1>5. ids[1] \in SUBSET Doc /\ 1 \in 1..Len(ids)
    BY <1>4, QueueIs
  <1> DEFINE F == ids[1] \cap On("dst")
  <1>6. left'["dst"] = F /\ pads' = Count(ids[1]) - Count(F)
    BY <1>0, <1>4 DEF TakeIds, TypeOK, Padding, Count
  <1>7. Count(F) \in Nat /\ Count(ids[1]) \in Nat
    BY <1>5, CountOf
  <1>8. /\ InHand("dst")' = 0 /\ InHand("src")' = InHand("src") /\ Count(reply)' = Count(reply)
        /\ Count(left["dst"])' = Count(F)
    BY <1>1, <1>3, <1>6 DEF InHand, Count, BatchCount
  <1> HIDE DEF F
  <1>9. CASE Len(ids) = 1
    <2>1. Len(ids') = 0 /\ Queued = Count(ids[1])
      BY <1>4, <1>9, QueueIs
    <2>2. Queued' = 0
      BY <2>1 DEF Queued
    <2>3. Count(reply)' + InHand("src")'
              = Queued' + Count(left["dst"])' + pads' + InHand("dst")'
      BY <1>2, <1>3, <1>6, <1>7, <1>8, <2>1, <2>2, StepNumbers DEF StepInv
    <2>4. StepInv'
      BY <2>1, <2>3 DEF StepInv
    <2> QED BY <1>4, <1>5, <2>4
  <1>10. CASE Len(ids) = 2
    <2>1. /\ Len(ids') = 1 /\ ids'[1] = ids[2] /\ Queued = Count(ids[1]) + Count(ids[2])
          /\ Count(ids[2]) \in Nat
      BY <1>4, <1>10, QueueIs, CountOf
    <2>2. Queued' = Count(ids[2])
      BY <2>1 DEF Queued, Count, BatchCount
    <2>3. Count(reply)' + InHand("src")'
              = Queued' + Count(left["dst"])' + pads' + InHand("dst")'
      BY <1>2, <1>3, <1>6, <1>7, <1>8, <2>1, <2>2, StepNumbers DEF StepInv
    <2>4. ids'[1] = reply' /\ ids[2] # {} /\ Cardinality(ids[2]) <= ReplySize
      BY <1>1, <1>10, <2>1 DEF StepInv
    <2>5. \A i \in 1..Len(ids') : ids'[i] = ids[2]
      BY <2>1
    <2>6. StepInv'
      BY <2>1, <2>3, <2>4, <2>5 DEF StepInv
    <2> QED BY <1>4, <1>5, <2>6
  <1> QED BY <1>4, <1>9, <1>10, QueueIs

LEMMA StepSend ==
    ASSUME TypeOK, StepInv, natural, NEW s \in Side, Send(s)
    PROVE  StepInv'
  <1>0. "src" \in Side /\ "dst" \in Side /\ s = "dst"
    BY DEF Side, Send
  <1>1. PICK C \in SUBSET left["dst"] :
            /\ Next_n(C, BatchSize, left["dst"]) /\ Receive("dst", C)
            /\ left' = [left EXCEPT !["dst"] = @ \ C]
    BY <1>0 DEF Send
  <1>2. left["dst"] # {} /\ UNCHANGED <<reply, ids, pads>> /\ left["dst"] \in SUBSET Doc
    BY <1>0 DEF Send, TypeOK
  <1>3. /\ Count(left["dst"]) = Count(left["dst"] \ C) + 1 /\ Count(left["dst"] \ C) \in Nat
        /\ left'["dst"] = left["dst"] \ C
    BY <1>0, <1>1, <1>2, CountNext, CountOf DEF TypeOK
  <1>4. /\ InHand("dst") = 0 /\ InHand("dst")' = 1 /\ InHand("src")' = InHand("src")
        /\ batch'["src"] = batch["src"]
    BY <1>0, <1>1, ReceiveInHand
  <1>5. Queued' = Queued /\ Count(left["dst"])' = Count(left["dst"] \ C)
        /\ Count(reply)' = Count(reply)
    BY <1>2, <1>3 DEF Queued, Count, BatchCount
  <1>6. Count(reply)' + InHand("src")'
            = Queued' + Count(left["dst"])' + pads' + InHand("dst")'
    <2>1. Count(reply) + InHand("src")
              = Queued + Count(left["dst"]) + pads + InHand("dst")
      BY DEF StepInv
    <2> QED BY <1>2, <1>3, <1>4, <1>5, <2>1, StepNumbers
  <1> QED BY <1>2, <1>4, <1>6 DEF StepInv

LEMMA StepSendPadding ==
    ASSUME TypeOK, StepInv, SendPadding
    PROVE  StepInv'
  <1>1. /\ Receive("dst", {}) /\ pads > 0 /\ pads' = pads - 1
        /\ UNCHANGED <<left, reply, ids>>
    BY DEF SendPadding
  <1>2. /\ InHand("dst") = 0 /\ InHand("dst")' = 1 /\ InHand("src")' = InHand("src")
        /\ batch'["src"] = batch["src"]
    BY <1>1, ReceiveInHand DEF Side
  <1>3. Queued' = Queued /\ Count(left["dst"])' = Count(left["dst"])
        /\ Count(reply)' = Count(reply)
    BY <1>1 DEF Queued, Count, BatchCount
  <1>4. Count(reply)' + InHand("src")'
            = Queued' + Count(left["dst"])' + pads' + InHand("dst")'
    BY <1>1, <1>2, <1>3, StepNumbers DEF StepInv
  <1>5. pads # 0
    BY <1>1, StepNumbers
  <1> QED BY <1>1, <1>2, <1>4, <1>5 DEF StepInv

LEMMA StepCompare ==
    ASSUME TypeOK, CalmInv, StepInv, Compare
    PROVE  StepInv'
  <1>1. InHand("src") = InHand("dst")
    BY RoundsMatch DEF Compare
  <1>2. InHand("src")' = 0 /\ InHand("dst")' = 0 /\ UNCHANGED <<reply, ids, pads, left>>
    BY DEF Compare, InHand, reading
  <1>3. Queued' = Queued /\ Count(left["dst"])' = Count(left["dst"])
        /\ Count(reply)' = Count(reply)
    BY <1>2 DEF Queued, Count, BatchCount
  <1>4. Count(reply)' + InHand("src")'
            = Queued' + Count(left["dst"])' + pads' + InHand("dst")'
    BY <1>1, <1>2, <1>3, StepNumbers DEF StepInv
  <1> QED BY <1>1, <1>2, <1>4 DEF StepInv

LEMMA StepReaders ==
    ASSUME TypeOK, CalmInv, StepInv, natural, cpc # "failed",
           (\E s \in Side : Reader(s)) \/ NaturalReaders
    PROVE  StepInv'
  <1> USE DEF Side
  <1>1. ASSUME NEW s \in Side, Open(s) PROVE StepInv'
    <2>1. rpc[s] = "open" /\ UNCHANGED <<reply, ids, pads, batch, got, ended>>
      BY <1>1 DEF Open, compare
    <2>2. left'["dst"] = left["dst"]
      BY <1>1, <2>1 DEF Open, CalmInv, TypeOK
    <2> QED BY <2>1, <2>2, StepFrame DEF InHand
  <1>2. ASSUME NEW s \in Side, Exhausted(s) PROVE StepInv'
    BY <1>2, StepFrame DEF Exhausted, compare, InHand
  <1>3. ASSUME NEW s \in Side, OpenFails(s) \/ CursorFails(s) \/ Fails(s) PROVE StepInv'
    BY <1>3, FailingReader, StepFrame DEF compare, InHand
  <1>4. CASE SendCursorDone \/ IdsOver
    BY <1>4, StepFrame DEF SendCursorDone, IdsOver, compare, InHand
  <1> QED
    BY <1>1, <1>2, <1>3, <1>4, StepSend, StepSendIds, StepSendReply, StepTakeIds, StepSendPadding
       DEF Reader, NaturalReaders

LEMMA StepComparing ==
    ASSUME TypeOK, CalmInv, StepInv, Comparing
    PROVE  StepInv'
  <1> USE DEF reading
  <1>1. ASSUME NEW s \in Side, SeeClosed(s) PROVE StepInv'
    <2>1. got' \ ended' = got \ ended
      BY <1>1 DEF SeeClosed
    <2> QED BY <1>1, <2>1, StepFrame DEF SeeClosed, InHand
  <1>2. CASE FlushCursor \/ FlushLast \/ CompareReturns \/ CompareCancelled \/ Stall
    BY <1>2, StepFrame
       DEF FlushCursor, FlushLast, CompareReturns, CompareCancelled, Stall, InHand
  <1> QED BY <1>1, <1>2, StepCompare DEF Comparing

-----------------------------------------------------------------------------
(* Where documents are, and what the comparator's caches say. *)

ProblemDocs == {p.doc : p \in problems}

\* A document of the source is in one place.  One that both sides have, and that the
\* comparator has not paired, is on its way on both.
PlaceInv ==
    /\ left["src"] \cup reply \cup batch["src"] \cup cache["src"] \subseteq On("src")
    /\ left["src"] \cap (reply \cup batch["src"] \cup cache["src"] \cup ProblemDocs) = {}
    /\ reply \cap (batch["src"] \cup cache["src"] \cup ProblemDocs) = {}
    /\ batch["src"] \cap (cache["src"] \cup ProblemDocs) = {}
    /\ cache["src"] \cap ProblemDocs = {}
    /\ left["dst"] \cup batch["dst"] \cup cache["dst"] \subseteq On("dst")
    /\ left["dst"] \cap (Asked \cup batch["dst"] \cup cache["dst"]) = {}
    /\ batch["dst"] \cap (Asked \cup cache["dst"]) = {}
    /\ cache["dst"] \cap (Asked \cup cache["src"]) = {}
    /\ (reply \cup batch["src"] \cup cache["src"]) \cap On("dst") =
           (Asked \cap On("dst")) \cup left["dst"] \cup batch["dst"] \cup cache["dst"]
    /\ \A p \in problems : p.defect = condition[p.doc] /\ p.defect = "differs"

\* When the destination's cursor is done, what it did not find is missing.
FlushInv == cursorDone => cache["src"] \cap On("dst") = {} /\ cache["dst"] = {}

LEMMA PlaceFrame ==
    ASSUME PlaceInv, UNCHANGED <<condition, left, reply, batch, cache, problems, Asked>>
    PROVE  PlaceInv'
  <1>1. ProblemDocs' = ProblemDocs /\ \A s \in Side : On(s)' = On(s)
    BY DEF ProblemDocs, On
  <1> QED BY <1>1 DEF PlaceInv, Side

LEMMA SameAsked ==
    ASSUME UNCHANGED ids
    PROVE  Asked' = Asked
  BY DEF Asked

LEMMA PlaceStartGroup ==
    ASSUME StartGroup
    PROVE  PlaceInv' /\ FlushInv'
  <1>1. /\ \A s \in Side : left'[s] = {} /\ batch'[s] = {} /\ cache'[s] = {}
        /\ reply' = {} /\ ids' = <<>> /\ problems' = {} /\ ~cursorDone'
    BY DEF StartGroup, Neither
  <1>2. Len(ids') = 0
    BY <1>1, EmptySeq
  <1>3. Asked' = {} /\ ProblemDocs' = {}
    BY <1>1, <1>2 DEF Asked, ProblemDocs
  <1> QED BY <1>1, <1>3 DEF PlaceInv, FlushInv, Side

LEMMA AskedInReply ==
    ASSUME TypeOK, StepInv
    PROVE  Asked \subseteq reply \cup batch["src"]
  BY QueueIs DEF StepInv

\* When the destination reader has sent all that it was asked for, what the source
\* has sent of later replies is still to be compared.
LEMMA NothingAhead ==
    ASSUME TypeOK, CalmInv, cpc # "failed", StepInv, left["dst"] = {}, pads = 0, InHand("dst") = 0
    PROVE  reply \cup batch["src"] = Asked
  <1>1. Count(reply) + InHand("src") = Queued
    BY StepNumbers DEF StepInv
  <1>2. InHand("src") = 0 => batch["src"] = {}
    BY DEF CalmInv, InHand, Side
  <1>3. CASE Len(ids) = 0
    BY <1>1, <1>2, <1>3, QueueIs, StepNumbers
  <1>4. CASE Len(ids) = 1
    <2>1. Queued = Count(ids[1]) /\ Asked = ids[1]
      BY <1>4, QueueIs
    <2>2. CASE ids[1] = reply
      BY <1>1, <1>2, <2>1, <2>2, StepNumbers
    <2>3. CASE ids[1] = reply \cup batch["src"]
      BY <2>1, <2>3
    <2> QED BY <1>4, <2>2, <2>3 DEF StepInv
  <1>5. CASE Len(ids) = 2
    BY <1>5, QueueIs DEF StepInv
  <1> QED BY <1>3, <1>4, <1>5, QueueIs

LEMMA CachesTell ==
    ASSUME TypeOK, CalmInv, cpc # "failed", StepInv, PlaceInv,
           left["dst"] = {}, pads = 0, InHand("dst") = 0
    PROVE  cache["src"] \cap On("dst") = {} /\ cache["dst"] = {}
  <1>1. reply \cup batch["src"] = Asked /\ batch["dst"] = {}
    BY NothingAhead DEF CalmInv, InHand, Side
  <1>2. cache["src"] \cap Asked = {} /\ cache["dst"] \cap (Asked \cup cache["src"]) = {}
    BY <1>1 DEF PlaceInv
  <1>3. (Asked \cup cache["src"]) \cap On("dst") = (Asked \cap On("dst")) \cup cache["dst"]
    BY <1>1 DEF PlaceInv
  <1> QED BY <1>2, <1>3

LEMMA PlaceOpen ==
    ASSUME TypeOK, CalmInv, cpc # "failed", PlaceInv, NEW s \in Side, natural, Open(s)
    PROVE  PlaceInv'
  <1> USE DEF Side
  <1>1. UNCHANGED <<condition, reply, ids, batch, cache, problems>>
    BY DEF Open, task, compare
  <1>2. Asked' = Asked /\ ProblemDocs' = ProblemDocs /\ \A t \in Side : On(t)' = On(t)
    BY <1>1, SameAsked DEF ProblemDocs, On
  <1>3. CASE s = "dst"
    <2>1. left' = [left EXCEPT !["dst"] = {}] /\ left["dst"] = {}
      BY <1>3 DEF Open, CalmInv
    <2>2. left'["src"] = left["src"] /\ left'["dst"] = left["dst"]
      BY <2>1 DEF TypeOK
    <2> QED BY <1>1, <1>2, <2>2 DEF PlaceInv
  <1>4. CASE s = "src"
    <2>1. /\ left' = [left EXCEPT !["src"] = On("src")] /\ reply = {}
          /\ Asked = {} /\ cache["src"] = {} /\ batch["src"] = {} /\ problems = {}
      <3>1. rpc["src"] = "open" /\ left' = [left EXCEPT !["src"] = On("src")]
        BY <1>4 DEF Open
      <3>2. /\ reply = {} /\ ids = <<>> /\ cache["src"] = {} /\ batch["src"] = {} /\ problems = {}
        BY <3>1 DEF CalmInv
      <3>3. Len(ids) = 0
        BY <3>2, EmptySeq
      <3> QED BY <3>1, <3>2, <3>3 DEF Asked
    <2>2. left'["src"] = On("src") /\ left'["dst"] = left["dst"] /\ ProblemDocs = {}
      BY <2>1 DEF TypeOK, ProblemDocs
    <2> QED BY <1>1, <1>2, <2>1, <2>2 DEF PlaceInv
  <1> QED BY <1>3, <1>4

LEMMA PlaceSendIds ==
    ASSUME TypeOK, CalmInv, StepInv, PlaceInv, SendIds
    PROVE  PlaceInv' /\ ((reply \cup batch["src"]) \ Asked)' = (reply \cup batch["src"]) \ Asked
  <1>0. "src" \in Side /\ "dst" \in Side
    BY DEF Side
  <1>1. PICK n \in 1..ReplySize : \E R \in SUBSET left["src"] :
            ids' = Append(ids, R) /\ reply' = R /\ left' = [left EXCEPT !["src"] = @ \ R]
    BY DEF SendIds
  <1>2. PICK R \in SUBSET left["src"] :
            ids' = Append(ids, R) /\ reply' = R /\ left' = [left EXCEPT !["src"] = @ \ R]
    BY <1>1
  <1>3. /\ reply = {} /\ left'["dst"] = left["dst"] /\ left'["src"] = left["src"] \ R
        /\ UNCHANGED <<condition, batch, cache, problems>>
    BY <1>0, <1>2 DEF SendIds, TypeOK, compare, task
  <1>4. R \in SUBSET Doc
    BY <1>0, <1>2 DEF TypeOK
  <1>5. /\ Len(ids') = Len(ids) + 1 /\ Len(ids) \in Nat /\ ids'[Len(ids) + 1] = R
        /\ \A i \in 1..Len(ids) : ids'[i] = ids[i]
    BY <1>2, <1>4, AppendProperties, LenProperties DEF TypeOK
  <1>6. Asked' = Asked \cup R
    <2>1. \A i \in 1..Len(ids') : i \in 1..Len(ids) \/ i = Len(ids) + 1
      BY <1>5
    <2>2. \A i \in 1..Len(ids) : i \in 1..Len(ids')
      BY <1>5
    <2>3. Len(ids) + 1 \in 1..Len(ids')
      BY <1>5
    <2> QED BY <1>4, <1>5, <2>1, <2>2, <2>3 DEF Asked
  <1>7. ProblemDocs' = ProblemDocs /\ \A t \in Side : On(t)' = On(t)
    BY <1>3 DEF ProblemDocs, On
  <1>8. Asked \subseteq batch["src"]
    BY <1>3, AskedInReply
  <1>9. R \cap (batch["src"] \cup cache["src"] \cup ProblemDocs) = {} /\ R \subseteq On("src")
    BY <1>2 DEF PlaceInv
  <1>10. R \cap (left["dst"] \cup batch["dst"] \cup cache["dst"]) = {}
    BY <1>3, <1>9 DEF PlaceInv
  <1>11. PlaceInv'
    BY <1>0, <1>2, <1>3, <1>6, <1>7, <1>8, <1>9, <1>10 DEF PlaceInv
  <1> QED BY <1>2, <1>3, <1>6, <1>9, <1>11

LEMMA PlaceSendReply ==
    ASSUME TypeOK, CalmInv, cpc # "failed", PlaceInv, SendReply
    PROVE  PlaceInv' /\ reply' \cup batch'["src"] = reply \cup batch["src"]
  <1>0. "src" \in Side /\ "dst" \in Side
    BY DEF Side
  <1>1. PICK C \in SUBSET reply : Receive("src", C) /\ reply' = reply \ C
    BY DEF SendReply
  <1>2. batch'["src"] = C /\ batch'["dst"] = batch["dst"] /\ InHand("src") = 0
    BY <1>0, <1>1, ReceiveInHand
  <1>3. batch["src"] = {}
    BY <1>0, <1>2 DEF CalmInv, InHand
  <1>4. UNCHANGED <<condition, left, cache, problems, ids>>
    BY <1>1 DEF SendReply, Receive, task
  <1>5. Asked' = Asked /\ ProblemDocs' = ProblemDocs /\ \A t \in Side : On(t)' = On(t)
    BY <1>4, SameAsked DEF ProblemDocs, On
  <1>6. PlaceInv'
    BY <1>0, <1>1, <1>2, <1>3, <1>4, <1>5 DEF PlaceInv
  <1> QED BY <1>1, <1>2, <1>3, <1>6

\* The destination reader takes the oldest reply: nothing of it has been compared.
LEMMA PlaceTakeIds ==
    ASSUME TypeOK, CalmInv, cpc # "failed", StepInv, PlaceInv, TakeIds
    PROVE  PlaceInv' /\ (reply' \cup batch'["src"]) \ Asked' \subseteq ids[1]
  <1>0. "src" \in Side /\ "dst" \in Side
    BY DEF Side
  <1>1. /\ StepInv' /\ Len(ids') = Len(ids) - 1
        /\ \A i \in 1..Len(ids') : ids'[i] = ids[i + 1]
        /\ Head(ids) = ids[1] /\ 1 \in 1..Len(ids) /\ ids[1] \in SUBSET Doc
    BY StepTakeIds
  <1>2. rpc["dst"] = "ids" /\ UNCHANGED <<condition, reply, batch, cache, problems>>
    BY DEF TakeIds, compare, task
  <1>3. left["dst"] = {} /\ pads = 0 /\ InHand("dst") = 0 /\ batch["dst"] = {}
    BY <1>0, <1>2 DEF CalmInv, InHand
  <1>4. left'["src"] = left["src"] /\ left'["dst"] = ids[1] \cap On("dst")
    BY <1>0, <1>1 DEF TakeIds, TypeOK
  <1>5. reply \cup batch["src"] = Asked
    BY <1>3, NothingAhead DEF CalmInv
  <1>6. Asked = Asked' \cup ids[1] /\ Asked' \cap ids[1] = {}
    <2>1. CASE Len(ids) = 1
      <3>1. Len(ids') = 0 /\ Asked = ids[1]
        BY <1>1, <2>1, QueueIs
      <3> QED BY <3>1 DEF Asked
    <2>2. CASE Len(ids) = 2
      <3>1. Len(ids') = 1 /\ ids'[1] = ids[2] /\ Asked = ids[1] \cup ids[2]
        BY <1>1, <2>2, QueueIs
      <3>2. ids[2] = reply /\ ids[1] = batch["src"]
        BY <2>2 DEF StepInv
      <3>3. Asked' = ids[2]
        <4>1. \A i \in 1..Len(ids') : i = 1
          BY <3>1
        <4>2. 1 \in 1..Len(ids') /\ ids[2] \subseteq Doc
          BY <2>2, <3>1, QueueIs
        <4> QED BY <3>1, <4>1, <4>2 DEF Asked
      <3> QED BY <3>1, <3>2, <3>3 DEF PlaceInv
    <2>3. Len(ids) # 0
      BY <1>1
    <2> QED BY <2>1, <2>2, <2>3, QueueIs
  <1>7. ProblemDocs' = ProblemDocs /\ \A t \in Side : On(t)' = On(t)
    BY <1>2 DEF ProblemDocs, On
  <1>8. ids[1] \cap cache["dst"] = {} /\ Asked' \cap cache["dst"] = {}
    BY <1>6 DEF PlaceInv
  <1>9. PlaceInv'
    BY <1>0, <1>2, <1>3, <1>4, <1>6, <1>7, <1>8 DEF PlaceInv
  <1> QED BY <1>2, <1>5, <1>6, <1>9

LEMMA PlaceSend ==
    ASSUME TypeOK, CalmInv, cpc # "failed", PlaceInv, natural, NEW s \in Side, Send(s)
    PROVE  PlaceInv' /\ batch'["src"] = batch["src"]
  <1>0. "src" \in Side /\ "dst" \in Side /\ s = "dst"
    BY DEF Side, Send
  <1>1. PICK C \in SUBSET left["dst"] :
            Receive("dst", C) /\ left' = [left EXCEPT !["dst"] = @ \ C]
    BY <1>0 DEF Send
  <1>2. batch'["dst"] = C /\ batch'["src"] = batch["src"] /\ InHand("dst") = 0
    BY <1>0, <1>1, ReceiveInHand
  <1>3. batch["dst"] = {} /\ left'["dst"] = left["dst"] \ C /\ left'["src"] = left["src"]
    BY <1>0, <1>1, <1>2 DEF CalmInv, InHand, TypeOK
  <1>4. UNCHANGED <<condition, reply, cache, problems, ids>>
    BY <1>1 DEF Send, Receive, task
  <1>5. Asked' = Asked /\ ProblemDocs' = ProblemDocs /\ \A t \in Side : On(t)' = On(t)
    BY <1>4, SameAsked DEF ProblemDocs, On
  <1>6. PlaceInv'
    BY <1>0, <1>1, <1>2, <1>3, <1>4, <1>5 DEF PlaceInv
  <1> QED BY <1>2, <1>6

LEMMA PlaceSendPadding ==
    ASSUME TypeOK, CalmInv, cpc # "failed", PlaceInv, SendPadding
    PROVE  PlaceInv' /\ UNCHANGED batch
  <1>1. Receive("dst", {})
    BY DEF SendPadding
  <1>2. batch'["dst"] = {} /\ batch'["src"] = batch["src"] /\ InHand("dst") = 0
    BY <1>1, ReceiveInHand DEF Side
  <1>3. batch["dst"] = {}
    BY <1>2 DEF CalmInv, InHand, Side
  <1>4. batch' = batch
    BY <1>1, <1>3 DEF Receive, TypeOK
  <1>5. UNCHANGED <<condition, left, reply, cache, problems, ids>>
    BY <1>1 DEF SendPadding, Receive, task
  <1> QED BY <1>4, <1>5, SameAsked, PlaceFrame

\* The caches are emptied when what they hold has no peer anywhere.
LEMMA PlaceSendReport ==
    ASSUME PlaceInv, SendReport, cache["src"] \cap On("dst") = {}, cache["dst"] = {},
           UNCHANGED <<condition, left, reply, batch, ids>>
    PROVE  PlaceInv'
  <1>1. /\ cache'["src"] = {} /\ cache'["dst"] = {} /\ problems' = {}
    BY DEF SendReport, Neither, Side
  <1>2. Asked' = Asked /\ ProblemDocs' = {} /\ \A t \in Side : On(t)' = On(t)
    BY <1>1, SameAsked DEF ProblemDocs, On
  <1> QED BY <1>1, <1>2 DEF PlaceInv, Side

\* Compare: what it pairs was in the caches and the batches of this round.
LEMMA PlaceCompare ==
    ASSUME TypeOK, PlaceInv, natural, Compare
    PROVE  /\ PlaceInv'
           /\ cache'["src"] \cup cache'["dst"] \cup ProblemDocs' \subseteq
                  cache["src"] \cup batch["src"] \cup cache["dst"] \cup batch["dst"] \cup ProblemDocs
  <1>0. "src" \in Side /\ "dst" \in Side
    BY DEF Side
  <1>1. /\ batch'["src"] = {} /\ batch'["dst"] = {}
        /\ cache'["src"] = (cache["src"] \cup batch["src"]) \ Paired
        /\ cache'["dst"] = (cache["dst"] \cup batch["dst"]) \ Paired
        /\ UNCHANGED <<condition, left, reply, ids>>
    BY <1>0 DEF Compare, Neither, reading, task
  <1>2. Asked' = Asked /\ \A t \in Side : On(t)' = On(t)
    BY <1>1, SameAsked DEF On
  <1>3. \A d \in Paired : d \in Doc /\ d \in On("src") /\ d \in On("dst")
    BY <1>0 DEF Paired, PlaceInv, TypeOK
  <1>4. \A d \in Paired : condition[d] \in {"same", "differs"}
    BY <1>3 DEF On, TypeOK, Defect
  <1> DEFINE New == {[doc |-> d, defect |-> condition[d]] : d \in {d \in Paired : condition[d] # "same"}}
  <1>5. problems' = problems \cup New
    BY DEF Compare
  <1>6. \A p \in New : p.doc \in Paired /\ p.defect = condition[p.doc] /\ p.defect = "differs"
    BY <1>4
  <1> HIDE DEF New
  <1>7. \A p \in problems' : p.defect = condition'[p.doc] /\ p.defect = "differs"
    BY <1>1, <1>5, <1>6 DEF PlaceInv
  <1>8. ProblemDocs \subseteq ProblemDocs' /\ ProblemDocs' \subseteq ProblemDocs \cup Paired
    BY <1>5, <1>6 DEF ProblemDocs
  <1>9. /\ left["src"] \cap (reply \cup cache'["src"] \cup ProblemDocs') = {}
        /\ reply \cap (cache'["src"] \cup ProblemDocs') = {} /\ cache'["src"] \cap ProblemDocs' = {}
        /\ left["dst"] \cap (Asked \cup cache'["dst"]) = {}
        /\ cache'["dst"] \cap (Asked \cup cache'["src"]) = {}
        /\ cache'["dst"] \subseteq On("dst")
        /\ (reply \cup cache'["src"]) \cap On("dst")
               = (Asked \cap On("dst")) \cup left["dst"] \cup cache'["dst"]
        /\ cache'["src"] \cup cache'["dst"] \cup ProblemDocs' \subseteq
               cache["src"] \cup batch["src"] \cup cache["dst"] \cup batch["dst"] \cup ProblemDocs
    <2> DEFINE L == left["src"]
               R == reply
               B == batch["src"]
               C == cache["src"]
               P == ProblemDocs
               A == Asked
               l == left["dst"]
               b == batch["dst"]
               c == cache["dst"]
               O == On("dst")
               P2 == ProblemDocs'
    <2>1. /\ L \cap (R \cup B \cup C \cup P) = {} /\ R \cap (B \cup C \cup P) = {}
          /\ B \cap (C \cup P) = {} /\ C \cap P = {}
          /\ l \cap (A \cup b \cup c) = {} /\ b \cap (A \cup c) = {} /\ c \cap (A \cup C) = {}
          /\ l \subseteq O /\ b \subseteq O /\ c \subseteq O
          /\ (R \cup B \cup C) \cap O = (A \cap O) \cup l \cup b \cup c
      BY DEF PlaceInv
    <2>2. Paired = (C \cup B) \cap (c \cup b)
      BY DEF Paired
    <2>3. P \subseteq P2 /\ P2 \subseteq P \cup ((C \cup B) \cap (c \cup b))
      BY <1>8, <2>2
    <2>4. /\ cache'["src"] = (C \cup B) \ ((C \cup B) \cap (c \cup b))
          /\ cache'["dst"] = (c \cup b) \ ((C \cup B) \cap (c \cup b))
      BY <1>1, <2>2
    <2> HIDE DEF L, R, B, C, P, A, l, b, c, O, P2
    <2> DEFINE X == (C \cup B) \cap (c \cup b)
    <2>5. \A x \in X : x \notin L /\ x \notin R /\ x \notin A /\ x \notin l
      BY <2>1
    <2>6. ASSUME NEW x, x \in (R \cup ((C \cup B) \ X)) \cap O
          PROVE  x \in (A \cap O) \cup l \cup ((c \cup b) \ X)
      BY <2>1, <2>6
    <2>7. ASSUME NEW x, x \in (A \cap O) \cup l \cup ((c \cup b) \ X)
          PROVE  x \in (R \cup ((C \cup B) \ X)) \cap O
      BY <2>1, <2>5, <2>7
    <2>8. (R \cup ((C \cup B) \ X)) \cap O = (A \cap O) \cup l \cup ((c \cup b) \ X)
      BY <2>6, <2>7
    <2>9. /\ L \cap (R \cup ((C \cup B) \ X) \cup P2) = {}
          /\ R \cap (((C \cup B) \ X) \cup P2) = {} /\ ((C \cup B) \ X) \cap P2 = {}
          /\ l \cap (A \cup ((c \cup b) \ X)) = {}
          /\ ((c \cup b) \ X) \cap (A \cup ((C \cup B) \ X)) = {} /\ (c \cup b) \ X \subseteq O
          /\ ((C \cup B) \ X) \cup ((c \cup b) \ X) \cup P2 \subseteq C \cup B \cup c \cup b \cup P
      BY <2>1, <2>3, <2>5
    <2> QED BY <2>4, <2>8, <2>9 DEF L, R, B, C, P, A, l, b, c, O, P2
  <1>10. cache'["src"] \subseteq On("src") /\ left["src"] \cup reply \subseteq On("src")
    BY <1>1 DEF PlaceInv
  <1> QED BY <1>0, <1>1, <1>2, <1>7, <1>9, <1>10 DEF PlaceInv

\* The flush of the last round.
LEMMA EndTells ==
    ASSUME TypeOK, CalmInv, StepInv, PlaceInv, cpc = "flush"
    PROVE  /\ cache["src"] \cap On("dst") = {} /\ cache["dst"] = {}
           /\ left["src"] = {} /\ reply = {} /\ batch["src"] = {}
  <1>1. ended = Side /\ \A s \in Side : rpc[s] = "done"
    BY EndsCalm DEF CalmInv
  <1>2. left["dst"] = {} /\ pads = 0 /\ InHand("dst") = 0 /\ left["src"] = {} /\ reply = {}
        /\ batch["src"] = {}
    BY <1>1 DEF CalmInv, InHand, Side
  <1> QED BY <1>1, <1>2, CachesTell

LEMMA PlaceReaders ==
    ASSUME TypeOK, CalmInv, StepInv, PlaceInv, FlushInv, natural, cpc # "failed",
           (\E s \in Side : Reader(s)) \/ NaturalReaders
    PROVE  PlaceInv' /\ FlushInv'
  <1>1. ASSUME NEW s \in Side, OpenFails(s) \/ CursorFails(s) \/ Fails(s)
        PROVE  PlaceInv' /\ UNCHANGED <<condition, cursorDone, cache>>
    BY <1>1, FailingReader, PlaceFrame, SameAsked DEF compare, task
  <1>2. CASE SendCursorDone
    <2>1. left["dst"] = {} /\ pads = 0 /\ InHand("dst") = 0
      BY <1>2 DEF SendCursorDone, InHand
    <2>2. cache["src"] \cap On("dst") = {} /\ cache["dst"] = {}
      BY <2>1, CachesTell
    <2>3. UNCHANGED <<condition, left, reply, batch, cache, problems, ids>>
      BY <1>2 DEF SendCursorDone, task
    <2>4. On("dst")' = On("dst")
      BY <2>3 DEF On
    <2> QED BY <2>2, <2>3, <2>4, PlaceFrame, SameAsked DEF FlushInv
  <1>3. CASE ~SendCursorDone
    <2>1. UNCHANGED <<condition, cursorDone, cache>>
      BY <1>1, <1>3
         DEF Reader, Open, Send, Exhausted, NaturalReaders, SendIds, SendReply, TakeIds,
             SendPadding, IdsOver, Receive, compare, task
    <2>2. FlushInv'
      BY <2>1 DEF FlushInv, On
    <2>3. ASSUME NEW s \in Side, Exhausted(s) \/ IdsOver PROVE PlaceInv'
      BY <2>3, PlaceFrame, SameAsked DEF Exhausted, IdsOver, compare, task
    <2> QED
      BY <1>1, <1>3, <2>2, <2>3, PlaceOpen, PlaceSend, PlaceSendIds, PlaceSendReply, PlaceTakeIds,
         PlaceSendPadding
         DEF Reader, NaturalReaders, Side
  <1> QED BY <1>2, <1>3

LEMMA PlaceComparing ==
    ASSUME TypeOK, CalmInv, StepInv, PlaceInv, FlushInv, natural, Comparing
    PROVE  PlaceInv' /\ FlushInv'
  <1>1. ASSUME NEW s \in Side,
               SeeClosed(s) \/ CompareReturns \/ CompareCancelled \/ Stall
        PROVE  PlaceInv' /\ FlushInv'
    <2>1. UNCHANGED <<condition, left, reply, batch, cache, problems, ids, cursorDone>>
      BY <1>1 DEF SeeClosed, CompareReturns, CompareCancelled, Stall, reading, task
    <2> QED BY <2>1, PlaceFrame, SameAsked DEF FlushInv, On
  <1>2. CASE FlushCursor
    <2>1. cache["src"] \cap On("dst") = {} /\ cache["dst"] = {}
      BY <1>2 DEF FlushCursor, FlushInv
    <2> QED BY <1>2, <2>1, PlaceSendReport DEF FlushCursor, FlushInv, reading, task
  <1>3. CASE Compare
    BY <1>3, PlaceCompare DEF Compare, FlushInv
  <1>4. CASE FlushLast
    <2>1. cache["src"] \cap On("dst") = {} /\ cache["dst"] = {}
      BY <1>4, EndTells DEF FlushLast
    <2>2. cache'["src"] = {} /\ cache'["dst"] = {}
      BY <1>4 DEF FlushLast, SendReport, Neither, Side
    <2> QED BY <1>4, <2>1, <2>2, PlaceSendReport DEF FlushLast, FlushInv, reading, task
  <1> QED BY <1>1, <1>2, <1>3, <1>4 DEF Comparing, Side

-----------------------------------------------------------------------------
(* What the comparator holds. *)

\* Documents of the reply at hand that are still to be compared, and those that the
\* comparator holds in a cache or in a problem.
Current == (reply \cup batch["src"]) \ Asked
Kept == cache["src"] \cup cache["dst"] \cup ProblemDocs

MemInv ==
    /\ cursorDone =>
           Cardinality(Kept) < MaxProblems + ReplySize /\ Cardinality(Current) <= ReplySize
    /\ ~cursorDone => Cardinality(Kept \cup Current) < MaxProblems + ReplySize
    /\ rpc["dst"] \in {"open", "ids"} => cursorDone \/ Kept = {}

LEMMA KeptDocs ==
    ASSUME TypeOK
    PROVE  Kept \in SUBSET Doc /\ Current \in SUBSET Doc /\ ProblemDocs \in SUBSET Doc
  BY DEF TypeOK, Kept, Current, ProblemDocs, Problem, Side

LEMMA LessDocs ==
    ASSUME NEW T \in SUBSET Doc, NEW S \in SUBSET T
    PROVE  /\ Cardinality(S) \in Nat /\ Cardinality(T) \in Nat
           /\ Cardinality(S) <= Cardinality(T)
  BY DocSets, FS_Subset

LEMMA DisjointSum ==
    ASSUME NEW S \in SUBSET Doc, NEW T \in SUBSET Doc, S \cap T = {}
    PROVE  Cardinality(S \cup T) = Cardinality(S) + Cardinality(T)
  <1>1. IsFiniteSet(S) /\ IsFiniteSet(T) /\ Cardinality(S) \in Nat /\ Cardinality(T) \in Nat
    BY DocSets
  <1>2. Cardinality(S \cap T) = 0
    BY FS_EmptySet
  <1>3. Cardinality(S \cup T) = Cardinality(S) + Cardinality(T) - Cardinality(S \cap T)
    BY <1>1, FS_Union
  <1> QED BY <1>1, <1>2, <1>3

\* Each document is held once.
LEMMA KeptIsCached ==
    ASSUME TypeOK, PlaceInv
    PROVE  Cached = Cardinality(Kept)
  <1>1. /\ cache["src"] \in SUBSET Doc /\ cache["dst"] \in SUBSET Doc
        /\ ProblemDocs \in SUBSET Doc
    BY KeptDocs DEF TypeOK, Side
  <1>2. cache["src"] \cap cache["dst"] = {} /\ (cache["src"] \cup cache["dst"]) \cap ProblemDocs = {}
    <2>1. ASSUME NEW d \in cache["dst"], d \in ProblemDocs PROVE FALSE
      <3>1. d \in reply \cup batch["src"] \cup cache["src"]
        BY DEF PlaceInv
      <3> QED BY <2>1, <3>1 DEF PlaceInv
    <2> QED BY <2>1 DEF PlaceInv
  <1> DEFINE f == [p \in problems |-> p.doc]
  <1>3. f \in Injection(problems, ProblemDocs) /\ f \in Surjection(problems, ProblemDocs)
    <2>1. f \in [problems -> ProblemDocs]
      BY DEF ProblemDocs
    <2>2. \A p \in problems : p \in Problem /\ p.defect = condition[p.doc]
      BY DEF TypeOK, PlaceInv
    <2>3. ASSUME NEW p \in problems, NEW q \in problems, p.doc = q.doc PROVE p = q
      BY <2>2, <2>3 DEF Problem
    <2>4. \A d \in ProblemDocs : \E p \in problems : f[p] = d
      BY DEF ProblemDocs
    <2>5. f \in Surjection(problems, ProblemDocs)
      BY <2>1, <2>4 DEF Surjection
    <2>6. f \in Injection(problems, ProblemDocs)
      <3>1. \A p, q \in problems : f[p] = f[q] => p = q
        BY <2>3
      <3> QED BY <2>1, <3>1 DEF Injection, IsInjective
    <2> QED BY <2>5, <2>6
  <1>4. IsFiniteSet(ProblemDocs)
    BY <1>1, DocSets
  <1>5. Cardinality(problems) = Cardinality(ProblemDocs)
    BY <1>3, <1>4, FS_Injection
  <1> DEFINE U == cache["src"] \cup cache["dst"]
  <1>6. U \in SUBSET Doc /\ U \cap ProblemDocs = {}
    BY <1>1, <1>2
  <1>7. Cardinality(U) = Cardinality(cache["src"]) + Cardinality(cache["dst"])
    BY <1>1, <1>2, DisjointSum
  <1>8. Cardinality(U \cup ProblemDocs) = Cardinality(U) + Cardinality(ProblemDocs)
    BY <1>1, <1>6, DisjointSum
  <1> QED BY <1>5, <1>7, <1>8 DEF Kept, Cached, Unpaired

\* MemoryBounded is the part of MemInv that does not name the reply at hand.
LEMMA MemBounds ==
    ASSUME TypeOK, PlaceInv, MemInv
    PROVE  MemoryBounded
  <1>1. Cardinality(Kept) <= Cardinality(Kept \cup Current) /\ Cardinality(Kept) \in Nat
        /\ Cardinality(Kept \cup Current) \in Nat
    BY KeptDocs, LessDocs
  <1>2. Cardinality(Kept) < MaxProblems + ReplySize
    BY <1>1, SizeAssumption DEF MemInv, TypeOK
  <1> QED BY <1>2, KeptIsCached DEF MemoryBounded

LEMMA MemFrame ==
    ASSUME MemInv, UNCHANGED <<Kept, Current, cursorDone>>,
           rpc'["dst"] \in {"open", "ids"} => rpc["dst"] \in {"open", "ids"}
    PROVE  MemInv'
  BY DEF MemInv

LEMMA SameKept ==
    ASSUME UNCHANGED <<cache, problems>>
    PROVE  Kept' = Kept
  BY DEF Kept, ProblemDocs

\* Nothing is held.
LEMMA MemEmpty ==
    ASSUME Kept' = {}, Current' \in SUBSET Doc, Cardinality(Current') <= ReplySize
    PROVE  MemInv'
  <1>1. Cardinality(Kept') = 0 /\ Kept' \cup Current' = Current'
    BY FS_EmptySet
  <1>2. Cardinality(Current') \in Nat
    BY DocSets
  <1>3. MaxProblems \in Nat \ {0} /\ ReplySize \in Nat \ {0}
    BY SizeAssumption
  <1> QED BY <1>1, <1>2, <1>3 DEF MemInv

LEMMA MemStartGroup ==
    ASSUME StartGroup
    PROVE  MemInv'
  <1>1. Kept' = {} /\ Current' = {}
    BY DEF StartGroup, Kept, Current, ProblemDocs, Neither, Side
  <1>2. Cardinality(Current') <= ReplySize
    BY <1>1, FS_EmptySet, SizeAssumption
  <1> QED BY <1>1, <1>2, MemEmpty

\* When a reply is taken all the documents at hand are its.
LEMMA MemTakeIds ==
    ASSUME TypeOK, TypeOK', CalmInv, cpc # "failed", StepInv, PlaceInv, MemInv, TakeIds
    PROVE  MemInv'
  <1>1. rpc["dst"] = "ids" /\ UNCHANGED <<cache, problems, cursorDone>> /\ rpc'["dst"] = "read"
    BY DEF TakeIds, compare, TypeOK, Side
  <1>2. Kept' = Kept
    BY <1>1, SameKept
  <1>3. Current' \subseteq ids[1] /\ 1 \in 1..Len(ids) /\ ids[1] \in SUBSET Doc
    BY StepTakeIds, PlaceTakeIds DEF Current
  <1>4. Cardinality(ids[1]) <= ReplySize
    BY <1>3 DEF StepInv
  <1>5. Cardinality(Current') <= ReplySize
    BY <1>3, <1>4, LessDocs, SizeAssumption
  <1>6. CASE cursorDone
    BY <1>1, <1>2, <1>5, <1>6 DEF MemInv
  <1>7. CASE ~cursorDone
    <2>1. Kept' = {}
      BY <1>1, <1>2, <1>7 DEF MemInv
    <2> QED BY <1>3, <1>5, <2>1, MemEmpty
  <1> QED BY <1>6, <1>7

LEMMA MemCursorDone ==
    ASSUME TypeOK, CalmInv, cpc # "failed", StepInv, MemInv, SendCursorDone
    PROVE  MemInv'
  <1>1. /\ left["dst"] = {} /\ pads = 0 /\ InHand("dst") = 0 /\ cursorDone'
        /\ UNCHANGED <<cache, problems, reply, batch, ids>>
    BY DEF SendCursorDone, InHand
  <1>2. Current = {} /\ Current' = Current /\ Kept' = Kept
    BY <1>1, NothingAhead, SameKept, SameAsked DEF Current
  <1>3. Cardinality(Current') <= ReplySize
    BY <1>2, FS_EmptySet, SizeAssumption
  <1>4. Cardinality(Kept) < MaxProblems + ReplySize
    <2>1. Kept \cup Current = Kept
      BY <1>2
    <2> QED BY <2>1 DEF MemInv, TypeOK
  <1> QED BY <1>1, <1>2, <1>3, <1>4 DEF MemInv

LEMMA MemReaders ==
    ASSUME TypeOK, TypeOK', CalmInv, cpc # "failed", StepInv, PlaceInv, MemInv, natural,
           (\E s \in Side : Reader(s)) \/ NaturalReaders
    PROVE  MemInv'
  <1>1. ASSUME NEW s \in Side, OpenFails(s) \/ CursorFails(s) \/ Fails(s)
        PROVE  /\ UNCHANGED <<reply, batch, ids, cache, problems, cursorDone>>
               /\ rpc'["dst"] \in {"open", "ids"} => rpc["dst"] \in {"open", "ids"}
               /\ Current' = Current
    <2>1. UNCHANGED <<reply, batch, ids, cache, problems, cursorDone>>
      BY <1>1, FailingReader DEF compare
    <2>2. rpc'["dst"] \in {"open", "ids"} => rpc["dst"] \in {"open", "ids"}
      BY <1>1, FailingReader DEF TypeOK, Side
    <2> QED BY <2>1, <2>2, SameAsked DEF Current
  <1>2. ASSUME ~SendCursorDone, ~TakeIds
        PROVE  /\ UNCHANGED <<Kept, cursorDone>>
               /\ rpc'["dst"] \in {"open", "ids"} => rpc["dst"] \in {"open", "ids"}
    <2>1. UNCHANGED <<cache, problems, cursorDone>>
      BY <1>1, <1>2 DEF Reader, Open, Send, Exhausted, NaturalReaders, SendIds, SendReply,
                        SendPadding, IdsOver, Receive, compare
    <2>2. rpc'["dst"] \in {"open", "ids"} => rpc["dst"] \in {"open", "ids"}
      BY <1>1, <1>2 DEF Reader, Open, Send, Exhausted, NaturalReaders, SendIds, SendReply,
                        SendPadding, IdsOver, TypeOK, Side
    <2> QED BY <2>1, <2>2, SameKept
  <1>3. ASSUME NEW s \in Side, Open(s) \/ Exhausted(s) \/ IdsOver PROVE Current' = Current
    <2>1. UNCHANGED <<reply, batch, ids>>
      BY <1>3 DEF Open, Exhausted, IdsOver, compare
    <2> QED BY <2>1, SameAsked DEF Current
  <1>4. ASSUME NEW s \in Side, Send(s) PROVE Current' = Current
    <2>1. UNCHANGED <<reply, ids>> /\ batch'["src"] = batch["src"]
      BY <1>4, PlaceSend DEF Send
    <2> QED BY <2>1, SameAsked DEF Current
  <1>5. ASSUME SendIds PROVE Current' = Current
    BY <1>5, PlaceSendIds DEF Current
  <1>6. ASSUME SendReply PROVE Current' = Current
    <2>1. UNCHANGED ids
      BY <1>6 DEF SendReply
    <2> QED BY <1>6, <2>1, PlaceSendReply, SameAsked DEF Current
  <1>7. ASSUME SendPadding PROVE Current' = Current
    <2>1. UNCHANGED <<reply, ids, batch>>
      BY <1>7, PlaceSendPadding DEF SendPadding
    <2> QED BY <2>1, SameAsked DEF Current
  <1>8. CASE SendCursorDone
    BY <1>8, MemCursorDone
  <1>9. CASE TakeIds
    BY <1>9, MemTakeIds
  <1>10. ASSUME NEW s \in Side, Reader(s), ~TakeIds, ~SendCursorDone PROVE MemInv'
    <2>1. Current' = Current
      BY <1>1, <1>3, <1>4, <1>10 DEF Reader
    <2> QED BY <1>2, <1>10, <2>1, MemFrame
  <1>11. ASSUME NaturalReaders, ~TakeIds, ~SendCursorDone PROVE MemInv'
    <2>1. Current' = Current
      BY <1>3, <1>5, <1>6, <1>7, <1>11 DEF NaturalReaders, Side
    <2> QED BY <1>2, <1>11, <2>1, MemFrame
  <1> QED BY <1>8, <1>9, <1>10, <1>11

\* A round compares documents of the reply at hand only.
LEMMA MemCompare ==
    ASSUME TypeOK, TypeOK', CalmInv, StepInv, PlaceInv, MemInv, natural, Compare
    PROVE  MemInv'
  <1>1. /\ cpc = "read" /\ RoundOver /\ ~FlushDue /\ ~cursorDone'
        /\ UNCHANGED <<rpc, reply, ids>> /\ batch'["src"] = {}
    BY DEF Compare, CalmInv, reading, Neither, Side
  <1>2. rpc["dst"] \notin {"open", "ids"}
    BY <1>1 DEF CalmInv, RoundOver, Side
  <1>3. batch["src"] \cap Asked = {}
    <2>1. InHand("src") = InHand("dst")
      BY <1>1, RoundsMatch
    <2>2. InHand("src") = 0 => batch["src"] = {}
      BY <1>1 DEF CalmInv, InHand, Side
    <2>3. CASE InHand("src") = 1
      <3>1. Len(ids) # 2 /\ (Len(ids) = 1 => ids[1] = reply)
        BY <2>1, <2>3 DEF StepInv
      <3>2. Asked \subseteq reply
        BY <3>1, QueueIs
      <3> QED BY <3>2 DEF PlaceInv
    <2> QED BY <2>2, <2>3, InHandBit DEF Side
  <1>4. batch["dst"] \subseteq Current \cup Kept
    BY DEF PlaceInv, Current, Kept
  <1>5. batch["src"] \subseteq Current
    BY <1>3 DEF Current
  <1>6. Kept' \subseteq Kept \cup Current
    BY <1>4, <1>5, PlaceCompare DEF Kept
  <1>7. Current' \subseteq Current
    BY <1>1, SameAsked DEF Current
  <1>8. Cardinality((Kept \cup Current)') <= Cardinality(Kept \cup Current)
        /\ Cardinality((Kept \cup Current)') \in Nat /\ Cardinality(Kept \cup Current) \in Nat
    BY <1>6, <1>7, KeptDocs, LessDocs
  <1>9. Cardinality(Kept \cup Current) < MaxProblems + ReplySize
    <2>1. CASE ~cursorDone
      BY <2>1 DEF MemInv
    <2>2. CASE cursorDone
      <3>1. Cardinality(Kept) < MaxProblems /\ Cardinality(Current) <= ReplySize
        <4>1. Cached \in Nat /\ Cached = Cardinality(Kept)
          BY KeptIsCached, KeptDocs, DocSets
        <4> QED BY <1>1, <2>2, <4>1, SizeAssumption DEF FlushDue, MemInv
      <3>2. /\ IsFiniteSet(Kept) /\ IsFiniteSet(Current) /\ Cardinality(Kept) \in Nat
            /\ Cardinality(Current) \in Nat /\ Cardinality(Kept \cap Current) \in Nat
        BY KeptDocs, DocSets
      <3>3. Cardinality(Kept \cup Current)
                = Cardinality(Kept) + Cardinality(Current) - Cardinality(Kept \cap Current)
        BY <3>2, FS_Union
      <3> QED BY <3>1, <3>2, <3>3, SizeAssumption
    <2> QED BY <2>1, <2>2
  <1> QED BY <1>1, <1>2, <1>8, <1>9, SizeAssumption DEF MemInv

LEMMA MemComparing ==
    ASSUME TypeOK, TypeOK', CalmInv, StepInv, PlaceInv, MemInv, natural, cpc' # "failed", Comparing
    PROVE  MemInv'
  <1>1. ASSUME NEW s \in Side, SeeClosed(s) \/ CompareReturns
        PROVE  MemInv'
    <2>1. UNCHANGED <<rpc, reply, batch, cache, problems, ids, cursorDone>>
      BY <1>1 DEF SeeClosed, CompareReturns, reading
    <2> QED BY <2>1, MemFrame, SameKept, SameAsked DEF Current
  <1>2. CASE FlushCursor \/ FlushLast
    <2>1. /\ cache'["src"] = {} /\ cache'["dst"] = {} /\ problems' = {}
          /\ UNCHANGED <<reply, batch, ids>>
      BY <1>2 DEF FlushCursor, FlushLast, SendReport, Neither, Side, reading
    <2>2. Kept' = {} /\ Current' = Current /\ Current \in SUBSET Doc
      BY <2>1, SameAsked, KeptDocs DEF Kept, ProblemDocs, Current
    <2>3. Cardinality(Current) <= ReplySize
      <3>1. CASE FlushCursor
        BY <3>1 DEF FlushCursor, MemInv
      <3>2. CASE FlushLast
        <4>1. Current = {}
          BY <3>2, EndTells DEF FlushLast, Current
        <4> QED BY <4>1, FS_EmptySet, SizeAssumption
      <3> QED BY <1>2, <3>1, <3>2
    <2> QED BY <2>2, <2>3, MemEmpty
  <1>3. ~CompareCancelled /\ ~Stall
    BY DEF CompareCancelled, Stall
  <1> QED BY <1>1, <1>2, <1>3, MemCompare DEF Comparing, Side

-----------------------------------------------------------------------------
(* What the worker is told. *)

InResults(p) == \E i \in 1..Len(results) : p \in results[i].problems

\* The problem is on its way to the task's mismatches or there, and so is its recheck.
Told(p) ==
    \/ ingest # None /\ p \in ingest.problems
    \/ InResults(p)
    \/ /\ p \in recorded \/ ("record" \in saving /\ p \in unsaved)
       /\ p.doc \in rechecks \/ ("recheck" \in saving /\ p \in unsaved)

Known(p) == p \in problems \/ Told(p)

Held == left["src"] \cup reply \cup batch["src"] \cup cache["src"]

Accounted(d) ==
    d \in Held \/ condition[d] = "same" \/ Known([doc |-> d, defect |-> condition[d]])

\* No document of the source is forgotten by a group that is not cancelled.
WholeInv == rpc["src"] # "open" /\ ~cancelled => \A d \in On("src") : Accounted(d)

\* Nothing is reported that is not wrong.
SoundInv ==
    /\ ingest # None => ingest.error = None /\ ingest.problems \subseteq Defects
    /\ \A i \in 1..Len(results) : results[i].problems \subseteq Defects
    /\ unsaved \subseteq Defects /\ recorded \subseteq Defects

\* An empty report is the last one, and a run that failed ends with an error.
LastInv ==
    /\ ingest # None /\ ingest.problems = {} => cpc = "flushed"
    /\ \A i \in 1..Len(results) : results[i].problems = {} /\ results[i].error = None =>
          i = Len(results) /\ ingest = None /\ cpc \in {"flushed", "done"}
    /\ cpc \in {"flushed", "done"} => cache = Neither /\ problems = {}
    /\ resultsOver => cpc \in {"done", "failed"} /\ ingest = None
    /\ Running /\ resultsOver /\ cpc = "failed" =>
          \E i \in 1..Len(results) : results[i].error # None

LEMMA WholeMore ==
    ASSUME TypeOK, WholeInv, UNCHANGED condition, cancelled => cancelled',
           rpc'["src"] # "open" => rpc["src"] # "open",
           Held \subseteq Held', \A p \in Problem : Known(p) => Known(p)'
    PROVE  WholeInv'
  <1> SUFFICES ASSUME rpc'["src"] # "open", ~cancelled', NEW d \in On("src")' PROVE Accounted(d)'
    BY DEF WholeInv
  <1>1. d \in On("src") /\ d \in Doc
    BY DEF On
  <1>2. Accounted(d)
    BY <1>1 DEF WholeInv
  <1>3. CASE Known([doc |-> d, defect |-> condition[d]]) /\ condition[d] # "same"
    <2>1. [doc |-> d, defect |-> condition[d]] \in Problem
      BY <1>1, <1>3 DEF Problem, TypeOK
    <2> QED BY <1>3, <2>1 DEF Accounted
  <1> QED BY <1>2, <1>3 DEF Accounted

LEMMA SameTold ==
    ASSUME UNCHANGED <<ingest, results, recorded, saving, unsaved, rechecks>>, NEW p
    PROVE  Told(p)' <=> Told(p)
  BY DEF Told, InResults

LEMMA WholeFrame ==
    ASSUME TypeOK, WholeInv,
           UNCHANGED <<condition, rpc, cancelled, problems, Held, ingest, results, recorded, saving,
                       unsaved, rechecks>>
    PROVE  WholeInv'
  BY WholeMore, SameTold DEF Known

LEMMA WholeReaders ==
    ASSUME TypeOK, CalmInv, cpc # "failed", WholeInv, natural,
           (\E s \in Side : Reader(s)) \/ NaturalReaders
    PROVE  WholeInv'
  <1>0. "src" \in Side /\ "dst" \in Side
    BY DEF Side
  <1>1. ASSUME NEW s \in Side, OpenFails(s) \/ Fails(s) PROVE WholeInv'
    BY <1>1, FailingReader DEF OpenFails, Fails, CursorFails, ReturnError, WholeInv
  <1> SUFFICES ASSUME \A s \in Side : ~OpenFails(s) /\ ~Fails(s) PROVE WholeInv'
    BY <1>1
  <1>2. /\ UNCHANGED <<condition, cancelled, cache, problems, outcome, worker>>
        /\ rpc["src"] = "open" => rpc'["src"] = "open" \/ Open("src")
    <2>1. ASSUME NEW s \in Side, Reader(s)
          PROVE  /\ UNCHANGED <<condition, cancelled, cache, problems, outcome, worker>>
                 /\ rpc["src"] = "open" => rpc'["src"] = "open" \/ Open("src")
      BY <1>0, <2>1 DEF Reader, Open, Send, Exhausted, CursorFails, Receive, compare, group, task,
                            TypeOK
    <2>2. ASSUME NaturalReaders
          PROVE  /\ UNCHANGED <<condition, cancelled, cache, problems, outcome, worker>>
                 /\ rpc'["src"] = rpc["src"]
      BY <1>0, <2>2 DEF NaturalReaders, SendIds, SendReply, TakeIds, SendPadding, SendCursorDone,
                        IdsOver, Receive, compare, group, task, TypeOK
    <2> QED BY <2>1, <2>2
  <1>3. \A p : Known(p)' <=> Known(p)
    BY <1>2, SameTold DEF Known, outcome, worker, saves
  <1>4. CASE Open("src")
    <2>1. left'["src"] = On("src") /\ On("src")' = On("src")
      BY <1>0, <1>2, <1>4 DEF Open, TypeOK, On
    <2> QED BY <2>1 DEF WholeInv, Accounted, Held
  <1>5. CASE ~Open("src")
    <2>1. Held \subseteq Held'
      <3>1. ASSUME Open("dst") \/ TakeIds \/ SendCursorDone \/ IdsOver
                      \/ \E s \in Side : Exhausted(s) \/ CursorFails(s)
            PROVE  UNCHANGED <<left["src"], reply, batch, cache>>
        BY <1>0, <3>1
           DEF Open, Exhausted, CursorFails, TakeIds, SendCursorDone, IdsOver, compare, TypeOK
      <3>2. ASSUME NEW s \in Side, Send(s) PROVE Held' = Held
        <4>1. s = "dst"
          BY <3>2 DEF Send, Side
        <4>2. PICK C \in SUBSET left["dst"] :
                  Receive("dst", C) /\ left' = [left EXCEPT !["dst"] = @ \ C]
          BY <3>2, <4>1 DEF Send
        <4>3. left'["src"] = left["src"] /\ batch'["src"] = batch["src"] /\ reply' = reply
          BY <1>0, <3>2, <4>2, ReceiveInHand DEF Send, TypeOK
        <4> QED BY <1>2, <4>3 DEF Held
      <3>3. ASSUME SendIds PROVE Held \subseteq Held'
        <4>1. PICK R \in SUBSET left["src"] : reply' = R /\ left' = [left EXCEPT !["src"] = @ \ R]
          BY <3>3 DEF SendIds
        <4>2. left'["src"] = left["src"] \ R /\ reply = {} /\ UNCHANGED batch
          BY <1>0, <3>3, <4>1 DEF SendIds, TypeOK, compare
        <4> QED BY <1>2, <4>1, <4>2 DEF Held
      <3>4. ASSUME SendReply PROVE Held \subseteq Held'
        <4>1. PICK C \in SUBSET reply : Receive("src", C) /\ reply' = reply \ C
          BY <3>4 DEF SendReply
        <4>2. batch'["src"] = C /\ InHand("src") = 0 /\ UNCHANGED left
          BY <1>0, <3>4, <4>1, ReceiveInHand DEF SendReply
        <4>3. batch["src"] = {}
          BY <1>0, <4>2 DEF CalmInv, InHand
        <4> QED BY <1>2, <4>1, <4>2, <4>3 DEF Held
      <3>5. ASSUME SendPadding PROVE Held' = Held
        <4>1. batch'["src"] = batch["src"] /\ UNCHANGED <<left, reply>>
          BY <1>0, <3>5, ReceiveInHand DEF SendPadding
        <4> QED BY <1>2, <4>1 DEF Held
      <3> QED BY <1>5, <3>1, <3>2, <3>3, <3>4, <3>5 DEF Reader, NaturalReaders, Side, Held
    <2> QED BY <1>2, <1>3, <1>5, <2>1, WholeMore
  <1> QED BY <1>4, <1>5

\* What differs is reported as such, and what the destination lacks as missing.
LEMMA ReportSays ==
    ASSUME TypeOK, PlaceInv, natural, cache["src"] \cap On("dst") = {}, cache["dst"] = {}
    PROVE  /\ Report \subseteq Defects /\ problems \subseteq Report
           /\ \A d \in cache["src"] : [doc |-> d, defect |-> condition[d]] \in Report
  <1>1. \A d \in cache["src"] : d \in Doc /\ condition[d] = "missing"
    BY DEF PlaceInv, On
  <1>2. \A p \in problems : p \in Problem /\ p.defect = condition[p.doc] /\ p.defect = "differs"
    BY DEF TypeOK, PlaceInv
  <1>3. problems \subseteq Defects
    BY <1>2 DEF Defects
  <1>4. ASSUME NEW p \in [doc : cache["src"], defect : {"missing"}] PROVE p \in Defects
    <2>1. p.doc \in Doc /\ condition[p.doc] = "missing" /\ p.defect = "missing" /\ p \in Problem
      BY <1>1 DEF Problem, Defect
    <2> QED BY <2>1 DEF Defects
  <1>5. [doc : cache["dst"], defect : {"extra"}] = {}
    OBVIOUS
  <1>6. Report = problems \cup [doc : cache["src"], defect : {"missing"}]
    BY <1>5 DEF Report
  <1>7. \A d \in cache["src"] :
            [doc |-> d, defect |-> condition[d]] \in [doc : cache["src"], defect : {"missing"}]
    BY <1>1
  <1> QED BY <1>3, <1>4, <1>6, <1>7

LEMMA WholeSendReport ==
    ASSUME TypeOK, PlaceInv, WholeInv, natural, SendReport,
           cache["src"] \cap On("dst") = {}, cache["dst"] = {},
           UNCHANGED <<condition, rpc, cancelled, left, reply, batch, results, saves>>
    PROVE  WholeInv'
  <1> SUFFICES ASSUME rpc'["src"] # "open", ~cancelled', NEW d \in On("src")' PROVE Accounted(d)'
    BY DEF WholeInv
  <1>1. d \in On("src") /\ Accounted(d)
    BY DEF On, WholeInv
  <1>2. ingest = None /\ ingest' # None /\ ingest'.problems = Report
    BY ReportSent DEF SendReport
  <1> DEFINE p == [doc |-> d, defect |-> condition[d]]
  <1>3. p \in Report => Known(p)'
    BY <1>2 DEF Known, Told
  <1>4. Told(p) => Told(p)'
    BY <1>2 DEF Told, InResults, saves
  <1>5. p \in problems \/ d \in cache["src"] => p \in Report
    BY ReportSays
  <1>6. d \in left["src"] \cup reply \cup batch["src"] => d \in Held'
    BY DEF Held
  <1> QED BY <1>1, <1>3, <1>4, <1>5, <1>6 DEF Accounted, Known, Held

LEMMA WholeComparing ==
    ASSUME TypeOK, CalmInv, StepInv, PlaceInv, FlushInv, WholeInv, natural, cpc' # "failed", Comparing
    PROVE  WholeInv'
  <1>0. "src" \in Side /\ "dst" \in Side
    BY DEF Side
  <1>1. ASSUME NEW s \in Side, SeeClosed(s) \/ CompareReturns
        PROVE  WholeInv'
    <2>1. /\ UNCHANGED <<condition, rpc, cancelled, problems, ingest, results, recorded, saving,
                         unsaved, rechecks>>
          /\ Held' = Held
      BY <1>1 DEF SeeClosed, CompareReturns, reading, group, outcome, worker, saves, task, Held
    <2> QED BY <2>1, WholeFrame
  <1>2. CASE FlushCursor
    <2>1. cache["src"] \cap On("dst") = {} /\ cache["dst"] = {}
      BY <1>2 DEF FlushCursor, FlushInv
    <2> QED BY <1>2, <2>1, WholeSendReport DEF FlushCursor, reading, group, worker, task
  <1>3. CASE FlushLast
    <2>1. cache["src"] \cap On("dst") = {} /\ cache["dst"] = {}
      BY <1>3, EndTells DEF FlushLast
    <2> QED BY <1>3, <2>1, WholeSendReport DEF FlushLast, reading, group, worker, task
  <1>4. CASE Compare
    <2>1. /\ UNCHANGED <<condition, rpc, cancelled, left, reply, outcome, worker>>
          /\ cache'["src"] = (cache["src"] \cup batch["src"]) \ Paired
          /\ problems' = problems \cup {[doc |-> d, defect |-> condition[d]] :
                                            d \in {d \in Paired : condition[d] # "same"}}
      BY <1>0, <1>4 DEF Compare, reading, group, task
    <2>2. \A p : Told(p)' <=> Told(p)
      BY <2>1, SameTold DEF outcome, worker, saves
    <2> SUFFICES ASSUME rpc'["src"] # "open", ~cancelled', NEW d \in On("src")' PROVE Accounted(d)'
      BY DEF WholeInv
    <2>3. d \in On("src") /\ Accounted(d)
      BY <2>1 DEF On, WholeInv
    <2>4. CASE d \in cache["src"] \cup batch["src"] /\ d \in Paired
      BY <2>1, <2>4 DEF Accounted, Known
    <2>5. CASE d \in left["src"] \cup reply
               \/ (d \in cache["src"] \cup batch["src"] /\ d \notin Paired)
      BY <2>1, <2>5 DEF Accounted, Held
    <2>6. CASE condition[d] = "same" \/ Known([doc |-> d, defect |-> condition[d]])
      BY <2>1, <2>2, <2>6 DEF Accounted, Known
    <2> QED BY <2>3, <2>4, <2>5, <2>6 DEF Accounted, Held
  <1>5. ~CompareCancelled /\ ~Stall
    BY DEF CompareCancelled, Stall
  <1> QED BY <1>1, <1>2, <1>3, <1>4, <1>5 DEF Comparing, Side


-----------------------------------------------------------------------------
(* The way of a report to the worker. *)

\* One result more.
LEMMA ResultAdded ==
    ASSUME TypeOK, NEW r \in Result, results' = Append(results, r)
    PROVE  /\ Len(results) \in Nat /\ Len(results') = Len(results) + 1
           /\ \A i \in 1..Len(results) : results'[i] = results[i]
           /\ results'[Len(results')] = r
           /\ \A p : InResults(p)' <=> InResults(p) \/ p \in r.problems
  <1>1. results \in Seq(Result)
    BY DEF TypeOK
  <1>2. /\ Len(results') = Len(results) + 1 /\ Len(results) \in Nat
        /\ \A i \in 1..Len(results) : results'[i] = results[i]
        /\ results'[Len(results) + 1] = r
    BY <1>1, AppendProperties, LenProperties
  <1>3. \A i \in 1..Len(results') : i \in 1..Len(results) \/ i = Len(results')
    BY <1>2
  <1>4. Len(results') \in 1..Len(results') /\ 1..Len(results) \subseteq 1..Len(results')
    BY <1>2
  <1>5. results'[Len(results')] = r
    BY <1>2
  <1> QED BY <1>2, <1>3, <1>4, <1>5 DEF InResults

\* The first result taken.
LEMMA ResultTaken ==
    ASSUME TypeOK, results # <<>>, results' = Tail(results)
    PROVE  /\ Len(results') \in Nat /\ Len(results) = Len(results') + 1
           /\ \A i \in 1..Len(results') : results'[i] = results[i + 1]
           /\ Head(results) = results[1] /\ Head(results) \in Result
           /\ \A p : InResults(p) <=> InResults(p)' \/ p \in Head(results).problems
  <1>1. results \in Seq(Result)
    BY DEF TypeOK
  <1>2. /\ Len(results') = Len(results) - 1 /\ Len(results) \in Nat /\ Len(results) # 0
        /\ \A i \in 1..Len(results') : results'[i] = results[i + 1]
        /\ Head(results) = results[1] /\ Head(results) \in Result
    BY <1>1, HeadTailProperties, LenProperties, EmptySeq
  <1>3. \A i \in 1..Len(results) : i = 1 \/ (i - 1 \in 1..Len(results') /\ (i - 1) + 1 = i)
    BY <1>2
  <1>4. 1 \in 1..Len(results) /\ \A i \in 1..Len(results') : i + 1 \in 1..Len(results)
    BY <1>2
  <1>5. ASSUME NEW p, InResults(p) PROVE InResults(p)' \/ p \in Head(results).problems
    <2>1. PICK i \in 1..Len(results) : p \in results[i].problems
      BY <1>5 DEF InResults
    <2>2. CASE i = 1
      BY <1>2, <2>1, <2>2
    <2>3. CASE i # 1
      <3> DEFINE j == i - 1
      <3>1. j \in 1..Len(results') /\ j + 1 = i
        BY <1>3, <2>3
      <3>2. results'[j] = results[i]
        BY <1>2, <3>1
      <3> QED BY <2>1, <3>1, <3>2 DEF InResults
    <2> QED BY <2>2, <2>3
  <1>6. ASSUME NEW p, InResults(p)' \/ p \in Head(results).problems PROVE InResults(p)
    BY <1>2, <1>4, <1>6 DEF InResults
  <1> QED BY <1>2, <1>5, <1>6

\* The rest of the process either starts a new group or leaves readers and comparator alone.
LEMMA OthersGroup ==
    ASSUME Ingest \/ Retryer \/ Worker \/ SaveFails
    PROVE  StartGroup \/ UNCHANGED <<reading, compare, group>>
  BY DEF Ingest, Retryer, RunEnds, RunAgain, RunFails, Worker, TakeReport, TakeEmptyReport,
         TakeError, SeeResultsOver, Save, SaveFails, TaskFails, Finish

LEMMA StepOthers ==
    ASSUME TypeOK, condition' = condition, StepInv, PlaceInv, FlushInv, MemInv,
           Ingest \/ Retryer \/ Worker \/ SaveFails
    PROVE  StepInv' /\ PlaceInv' /\ FlushInv' /\ MemInv'
  <1>1. CASE StartGroup
    BY <1>1, StepStartGroup, PlaceStartGroup, MemStartGroup
  <1>2. CASE UNCHANGED <<reading, compare>>
    <2>1. /\ Asked' = Asked /\ UNCHANGED <<InHand("src"), InHand("dst")>>
          /\ Kept' = Kept /\ Current' = Current
      BY <1>2, SameAsked, SameKept DEF reading, compare, InHand, Current
    <2>2. StepInv'
      BY <1>2, <2>1, StepFrame DEF reading, compare
    <2>3. PlaceInv'
      BY <1>2, <2>1, PlaceFrame DEF reading, compare
    <2>4. FlushInv'
      BY <1>2 DEF compare, FlushInv, On
    <2>5. MemInv'
      BY <1>2, <2>1, MemFrame DEF reading, compare
    <2> QED BY <2>2, <2>3, <2>4, <2>5
  <1> QED BY <1>1, <1>2, OthersGroup

LEMMA WholeTold ==
    ASSUME TypeOK, WholeInv, condition' = condition, UNCHANGED <<reading, compare, group>>,
           \A p \in Problem : Told(p) => Told(p)'
    PROVE  WholeInv'
  <1>1. Held' = Held /\ UNCHANGED <<rpc, cancelled, problems>>
    BY DEF Held, reading, compare, group
  <1> QED BY <1>1, WholeMore DEF Known

\* What is on its way arrives, or the comparison starts anew.
LEMMA WholeOthers ==
    ASSUME TypeOK, WholeInv, condition' = condition, Ingest \/ Retryer \/ Worker \/ SaveFails
    PROVE  WholeInv'
  <1>0. CASE StartGroup
    BY <1>0 DEF StartGroup, WholeInv, Side
  <1>00. CASE ~StartGroup
    <2>0. UNCHANGED <<reading, compare, group>>
      BY <1>00, OthersGroup
    <2> SUFFICES ASSUME ~cancelled PROVE WholeInv'
      BY <2>0 DEF WholeInv, group
    <2>1. CASE Ingest
      <3>1. /\ results' = Append(results, ingest) /\ ingest \in Result
            /\ UNCHANGED <<recorded, saving, unsaved, rechecks>>
        BY <2>1 DEF Ingest, TypeOK, worker, saves
      <3>2. \A p : InResults(p)' <=> InResults(p) \/ p \in ingest.problems
        BY <3>1, ResultAdded
      <3>3. \A p \in Problem : Told(p) => Told(p)'
        BY <3>1, <3>2 DEF Told
      <3> QED BY <2>0, <3>3, WholeTold
    <2>2. CASE RunEnds \/ TakeEmptyReport \/ SeeResultsOver
      <3>1. UNCHANGED <<ingest, results, recorded, saving, unsaved, rechecks>>
        BY <2>2 DEF RunEnds, TakeEmptyReport, SeeResultsOver, Finish, outcome, worker, saves
      <3> QED BY <2>0, <3>1, SameTold, WholeTold
    <2>3. CASE RunFails
      <3>1. cause \in Failure
        BY <2>3, NoneAssumption DEF RunFails, TypeOK
      <3> DEFINE r == [problems |-> {}, error |-> cause]
      <3>2. r \in Result
        BY <3>1, ReportType
      <3>3. /\ results' = Append(results, r)
            /\ UNCHANGED <<ingest, recorded, saving, unsaved, rechecks>>
        BY <2>3 DEF RunFails, worker, saves
      <3> HIDE DEF r
      <3>4. \A p : InResults(p) => InResults(p)'
        BY <3>2, <3>3, ResultAdded
      <3>5. \A p \in Problem : Told(p) => Told(p)'
        BY <3>3, <3>4 DEF Told
      <3> QED BY <2>0, <3>5, WholeTold
    <2>4. CASE TakeReport
      <3>1. /\ results # <<>> /\ results' = Tail(results) /\ saving = {}
            /\ unsaved' = Head(results).problems /\ saving' = {"record", "recheck"}
            /\ UNCHANGED <<ingest, recorded, rechecks>>
        BY <2>4 DEF TakeReport, AwaitsResult
      <3>2. \A p : InResults(p) <=> InResults(p)' \/ p \in Head(results).problems
        BY <3>1, ResultTaken
      <3>3. \A p \in Problem : Told(p) => Told(p)'
        BY <3>1, <3>2 DEF Told
      <3> QED BY <2>0, <3>3, WholeTold
    <2>5. CASE Save
      <3>1. PICK w \in saving :
               /\ saving' = saving \ {w}
               /\ recorded' = IF w = "record" THEN recorded \cup unsaved ELSE recorded
               /\ rechecks' = IF w = "recheck" THEN rechecks \cup {p.doc : p \in unsaved}
                                               ELSE rechecks
        BY <2>5 DEF Save
      <3>2. UNCHANGED <<ingest, results, unsaved>>
        BY <2>5 DEF Save, outcome
      <3>3. ASSUME NEW p \in Problem, Told(p) PROVE Told(p)'
        <4>1. InResults(p)' <=> InResults(p)
          BY <3>2 DEF InResults
        <4>2. p \in recorded \/ ("record" \in saving /\ p \in unsaved)
              => p \in recorded' \/ ("record" \in saving' /\ p \in unsaved')
          BY <3>1, <3>2
        <4>3. p.doc \in rechecks \/ ("recheck" \in saving /\ p \in unsaved)
              => p.doc \in rechecks' \/ ("recheck" \in saving' /\ p \in unsaved')
          BY <3>1, <3>2
        <4> QED BY <3>2, <3>3, <4>1, <4>2, <4>3 DEF Told
      <3> QED BY <2>0, <3>3, WholeTold
    <2>6. ASSUME NEW kind \in Failure, TaskFails(kind) PROVE WholeInv'
      <3>1. UNCHANGED <<ingest, results, recorded, saving, unsaved, rechecks>>
        BY <1>00, <2>6 DEF TaskFails, outcome, saves
      <3> QED BY <2>0, <3>1, SameTold, WholeTold
    <2>7. ~RunAgain
      BY <1>00 DEF RunAgain
    <2> QED BY <2>1, <2>2, <2>3, <2>4, <2>5, <2>6, <2>7, ErrorKind
            DEF Retryer, Worker, TakeError, SaveFails
  <1> QED BY <1>0, <1>00

-----------------------------------------------------------------------------
(* Nothing is reported, or recorded, that is not wrong. *)

LEMMA SoundFrame ==
    ASSUME SoundInv, UNCHANGED <<task, ingest, results, unsaved, recorded>>
    PROVE  SoundInv'
  BY SameDefects DEF SoundInv

LEMMA SoundReaders ==
    ASSUME SoundInv, (\E s \in Side : Reader(s)) \/ NaturalReaders
    PROVE  SoundInv'
  <1>1. UNCHANGED <<task, outcome, worker>>
    BY DEF Reader, Open, OpenFails, Send, Exhausted, CursorFails, Fails, NaturalReaders, SendIds,
           SendReply, TakeIds, SendPadding, SendCursorDone, IdsOver
  <1> QED BY <1>1, SoundFrame DEF outcome, worker, saves

LEMMA SoundComparing ==
    ASSUME TypeOK, CalmInv, StepInv, PlaceInv, FlushInv, SoundInv, natural, Comparing
    PROVE  SoundInv'
  <1>1. UNCHANGED <<task, results, worker>>
    BY DEF Comparing, SeeClosed, FlushCursor, Compare, FlushLast, CompareReturns,
           CompareCancelled, Stall, outcome
  <1>2. CASE FlushCursor \/ FlushLast
    <2>1. cache["src"] \cap On("dst") = {} /\ cache["dst"] = {}
      BY <1>2, EndTells DEF FlushCursor, FlushLast, FlushInv
    <2>2. Report \subseteq Defects
      BY <2>1, ReportSays
    <2>3. ingest' = [problems |-> Report, error |-> None]
      BY <1>2 DEF FlushCursor, FlushLast, SendReport
    <2> QED BY <1>1, <2>2, <2>3, SameDefects DEF SoundInv, worker, saves
  <1>3. CASE ~(FlushCursor \/ FlushLast)
    <2>1. UNCHANGED ingest
      BY <1>3 DEF Comparing, SeeClosed, Compare, CompareReturns, CompareCancelled, Stall, outcome
    <2> QED BY <1>1, <2>1, SoundFrame DEF worker, saves
  <1> QED BY <1>2, <1>3

LEMMA SoundAdded ==
    ASSUME TypeOK, SoundInv, NEW r \in Result, r.problems \subseteq Defects,
           results' = Append(results, r), ingest' \in {ingest, None},
           UNCHANGED <<task, unsaved, recorded>>
    PROVE  SoundInv'
  <1>1. /\ Len(results') = Len(results) + 1 /\ Len(results) \in Nat
        /\ \A i \in 1..Len(results) : results'[i] = results[i]
        /\ results'[Len(results')] = r
    BY ResultAdded
  <1>2. ASSUME NEW i \in 1..Len(results') PROVE results'[i].problems \subseteq Defects
    <2>1. CASE i \in 1..Len(results)
      BY <1>1, <2>1 DEF SoundInv
    <2>2. CASE i = Len(results')
      BY <1>1, <2>2
    <2> QED BY <1>1, <2>1, <2>2
  <1> QED BY <1>2, SameDefects DEF SoundInv

LEMMA SoundTaskFails ==
    ASSUME SoundInv, NEW kind \in Failure, TaskFails(kind)
    PROVE  SoundInv'
  <1>1. CASE kind = "transient" /\ MayRetryTask
    <2>1. /\ ingest' = None /\ results' = <<>> /\ unsaved' = {} /\ recorded' \in {{}, recorded}
          /\ UNCHANGED task
      BY <1>1 DEF TaskFails, StartGroup
    <2>2. Len(results') = 0
      BY <2>1, EmptySeq
    <2> QED BY <2>1, <2>2, SameDefects DEF SoundInv
  <1>2. CASE ~(kind = "transient" /\ MayRetryTask)
    BY <1>2, SoundFrame DEF TaskFails, outcome, saves
  <1> QED BY <1>1, <1>2

LEMMA SoundOthers ==
    ASSUME TypeOK, SoundInv, Ingest \/ Retryer \/ Worker \/ SaveFails
    PROVE  SoundInv'
  <1>1. CASE Ingest
    <2>1. ingest \in Result /\ ingest.problems \subseteq Defects /\ ingest' = None
      BY <1>1 DEF Ingest, TypeOK, SoundInv
    <2>2. UNCHANGED <<task, unsaved, recorded>>
      BY <1>1 DEF Ingest, worker, saves
    <2>3. CASE results' = Append(results, ingest)
      BY <2>1, <2>2, <2>3, SoundAdded
    <2>4. CASE UNCHANGED results
      BY <2>1, <2>2, <2>4, SameDefects DEF SoundInv
    <2> QED BY <1>1, <2>3, <2>4 DEF Ingest
  <1>2. CASE RunEnds \/ TakeEmptyReport \/ SeeResultsOver
    BY <1>2, SoundFrame DEF RunEnds, TakeEmptyReport, SeeResultsOver, Finish, outcome, worker, saves
  <1>3. CASE RunAgain
    <2>1. ingest' = None /\ UNCHANGED <<task, results, unsaved, recorded>>
      BY <1>3 DEF RunAgain, StartGroup, worker, saves
    <2> QED BY <2>1, SameDefects DEF SoundInv
  <1>4. CASE RunFails
    <2>1. cause \in Failure
      BY <1>4, NoneAssumption DEF RunFails, TypeOK
    <2> DEFINE r == [problems |-> {}, error |-> cause]
    <2>2. r \in Result /\ r.problems = {}
      BY <2>1, ReportType
    <2>3. results' = Append(results, r) /\ ingest' = ingest /\ UNCHANGED <<task, unsaved, recorded>>
      BY <1>4 DEF RunFails, worker, saves
    <2> HIDE DEF r
    <2> QED BY <2>2, <2>3, SoundAdded
  <1>5. CASE TakeReport
    <2>1. /\ results # <<>> /\ results' = Tail(results) /\ unsaved' = Head(results).problems
          /\ UNCHANGED <<task, ingest, recorded>>
      BY <1>5 DEF TakeReport
    <2>2. /\ Len(results') \in Nat /\ Len(results) = Len(results') + 1
          /\ \A i \in 1..Len(results') : results'[i] = results[i + 1]
          /\ Head(results) = results[1]
      BY <2>1, ResultTaken
    <2>3. 1 \in 1..Len(results) /\ \A i \in 1..Len(results') : i + 1 \in 1..Len(results)
      BY <2>2
    <2> QED BY <2>1, <2>2, <2>3, SameDefects DEF SoundInv
  <1>6. CASE TakeError
    BY <1>6, ErrorKind, SoundTaskFails DEF TakeError
  <1>7. CASE Save
    <2>1. recorded' \in {recorded, recorded \cup unsaved} /\ UNCHANGED <<task, ingest, results, unsaved>>
      BY <1>7 DEF Save, outcome
    <2> QED BY <2>1, SameDefects DEF SoundInv
  <1>8. CASE SaveFails
    BY <1>8, SoundTaskFails DEF SaveFails
  <1> QED BY <1>1, <1>2, <1>3, <1>4, <1>5, <1>6, <1>7, <1>8 DEF Retryer, Worker

-----------------------------------------------------------------------------
(* The last report. *)

LEMMA LastFrame ==
    ASSUME LastInv, UNCHANGED <<cpc, cache, problems, outcome, status>>
    PROVE  LastInv'
  BY DEF LastInv, outcome, Running

LEMMA LastReaders ==
    ASSUME LastInv, (\E s \in Side : Reader(s)) \/ NaturalReaders
    PROVE  LastInv'
  <1>1. UNCHANGED <<cpc, cache, problems, outcome, status>>
    BY DEF Reader, Open, OpenFails, Send, Exhausted, CursorFails, Fails, NaturalReaders, SendIds,
           SendReply, TakeIds, SendPadding, SendCursorDone, IdsOver, Receive, compare, worker
  <1> QED BY <1>1, LastFrame

\* Before its last report the comparator has sent none that is empty.
LEMMA LastEarly ==
    ASSUME LastInv, cpc \in {"read", "flush"}, UNCHANGED outcome,
           cpc' \in {"read", "flush", "failed"}
    PROVE  LastInv'
  BY DEF LastInv, outcome

LEMMA CachedIsReported ==
    ASSUME TypeOK, Cached > 0
    PROVE  Report # {}
  <1> SUFFICES ASSUME Report = {} PROVE FALSE
    OBVIOUS
  <1>1. problems = {}
    BY DEF Report
  <1>2. cache["src"] = {}
    <2>1. \A d \in cache["src"] : [doc |-> d, defect |-> "missing"] \in Report
      BY DEF Report
    <2> QED BY <2>1
  <1>3. cache["dst"] = {}
    <2>1. \A d \in cache["dst"] : [doc |-> d, defect |-> "extra"] \in Report
      BY DEF Report
    <2> QED BY <2>1
  <1> QED BY <1>1, <1>2, <1>3, FS_EmptySet DEF Cached, Unpaired

LEMMA LastComparing ==
    ASSUME TypeOK, LastInv, Comparing
    PROVE  LastInv'
  <1>1. CASE (\E s \in Side : SeeClosed(s)) \/ Compare \/ CompareCancelled \/ Stall
    <2>1. /\ cpc \in {"read", "flush"} /\ UNCHANGED outcome
          /\ cpc' \in {"read", "flush", "failed"}
      BY <1>1 DEF SeeClosed, Compare, CompareCancelled, Stall
    <2> QED BY <2>1, LastEarly
  <1>2. CASE FlushCursor
    <2>1. ingest' = [problems |-> Report, error |-> None] /\ Report # {}
      BY <1>2, CachedIsReported DEF FlushCursor, SendReport
    <2>2. cpc = "read" /\ cpc' = "read" /\ UNCHANGED <<results, resultsOver>>
      BY <1>2 DEF FlushCursor
    <2> QED BY <2>1, <2>2 DEF LastInv
  <1>3. CASE FlushLast
    <2>1. cache' = Neither /\ problems' = {}
      BY <1>3 DEF FlushLast, SendReport
    <2>2. cpc = "flush" /\ cpc' = "flushed" /\ UNCHANGED <<results, resultsOver>>
      BY <1>3 DEF FlushLast
    <2> QED BY <2>1, <2>2 DEF LastInv
  <1>4. CASE CompareReturns
    <2>1. /\ cpc = "flushed" /\ cpc' = "done" /\ ingest = None
          /\ UNCHANGED <<cache, problems, outcome>>
      BY <1>4 DEF CompareReturns
    <2> QED BY <2>1 DEF LastInv, outcome
  <1> QED BY <1>1, <1>2, <1>3, <1>4 DEF Comparing

LEMMA LastTaskFails ==
    ASSUME LastInv, NEW kind \in Failure, TaskFails(kind)
    PROVE  LastInv'
  <1>1. CASE kind = "transient" /\ MayRetryTask
    <2>1. ingest' = None /\ results' = <<>> /\ ~resultsOver' /\ cpc' = "read"
      BY <1>1 DEF TaskFails, StartGroup
    <2>2. Len(results') = 0
      BY <2>1, EmptySeq
    <2> QED BY <2>1, <2>2 DEF LastInv
  <1>2. CASE ~(kind = "transient" /\ MayRetryTask)
    <2>1. status' = "error" /\ UNCHANGED <<compare, outcome>>
      BY <1>2 DEF TaskFails
    <2> QED BY <2>1 DEF LastInv, Running, compare, outcome
  <1> QED BY <1>1, <1>2

\* A group that fails leaves an error, one that does not its last report.
LEMMA LastOthers ==
    ASSUME TypeOK, CalmInv, ClosedInv, LastInv, Ingest \/ Retryer \/ Worker \/ SaveFails
    PROVE  LastInv'
  <1>1. CASE Ingest
    <2>1. /\ ingest \in Result /\ ingest # None /\ ingest' = None
          /\ UNCHANGED <<cpc, cache, problems, resultsOver, status>>
      BY <1>1 DEF Ingest, TypeOK, compare, worker
    <2>2. CASE results' = Append(results, ingest)
      <3>1. /\ Len(results) \in Nat /\ Len(results') = Len(results) + 1
            /\ \A i \in 1..Len(results) : results'[i] = results[i]
            /\ results'[Len(results')] = ingest
        BY <2>1, <2>2, ResultAdded
      <3>2. ASSUME NEW i \in 1..Len(results'), results'[i].problems = {}, results'[i].error = None
            PROVE  i = Len(results') /\ cpc \in {"flushed", "done"}
        <4>1. CASE i \in 1..Len(results)
          BY <2>1, <3>1, <3>2, <4>1 DEF LastInv
        <4>2. CASE i = Len(results')
          BY <2>1, <3>1, <3>2, <4>2 DEF LastInv
        <4> QED BY <3>1, <4>1, <4>2
      <3> QED BY <2>1, <3>2 DEF LastInv
    <2>3. CASE UNCHANGED results
      BY <2>1, <2>3 DEF LastInv
    <2> QED BY <1>1, <2>2, <2>3 DEF Ingest
  <1>2. CASE RunEnds
    <2>1. cause = None /\ cpc \in {"done", "failed"} /\ ingest = None
      BY <1>2 DEF RunEnds, AllReturned
    <2>2. cpc = "done"
      BY <2>1 DEF ClosedInv, Cancelling
    <2>3. UNCHANGED <<cpc, cache, problems, ingest, results, status>>
      BY <1>2 DEF RunEnds, compare, worker
    <2> QED BY <2>1, <2>2, <2>3 DEF LastInv
  <1>3. ASSUME RunAgain \/ RunFails PROVE cpc = "failed" /\ ingest = None
    <2>1. cause # None
      BY <1>3, NoneAssumption DEF RunAgain, RunFails, Failure
    <2>2. cancelled /\ cpc \in {"done", "failed"} /\ ingest = None
      BY <1>3, <2>1 DEF RunAgain, RunFails, AllReturned, ClosedInv, Cancelling
    <2> QED BY <2>2, EndsCalm DEF CalmInv
  <1>4. CASE RunAgain
    <2>1. cpc' = "read" /\ ingest' = None /\ ~resultsOver /\ UNCHANGED <<results, resultsOver>>
      BY <1>4 DEF RunAgain, StartGroup
    <2> QED BY <1>3, <1>4, <2>1 DEF LastInv
  <1>5. CASE RunFails
    <2>1. cause \in Failure /\ cause # None
      BY <1>5, NoneAssumption DEF RunFails, TypeOK
    <2> DEFINE r == [problems |-> {}, error |-> cause]
    <2>2. r \in Result /\ r.error # None
      BY <2>1, ReportType
    <2>3. results' = Append(results, r) /\ UNCHANGED <<cpc, cache, problems, ingest, status>>
      BY <1>5 DEF RunFails, compare, worker
    <2> HIDE DEF r
    <2>4. /\ Len(results) \in Nat /\ Len(results') = Len(results) + 1
          /\ \A i \in 1..Len(results) : results'[i] = results[i]
          /\ results'[Len(results')] = r
      BY <2>2, <2>3, ResultAdded
    <2>5. ASSUME NEW i \in 1..Len(results')
          PROVE  ~(results'[i].problems = {} /\ results'[i].error = None)
      <3>1. CASE i \in 1..Len(results)
        BY <1>3, <1>5, <2>4, <3>1 DEF LastInv
      <3>2. CASE i = Len(results')
        BY <2>2, <2>4, <3>2
      <3> QED BY <2>4, <3>1, <3>2
    <2>6. \E i \in 1..Len(results') : results'[i].error # None
      <3>1. Len(results') \in 1..Len(results')
        BY <2>4
      <3> QED BY <2>2, <2>4, <3>1
    <2> QED BY <1>3, <1>5, <2>3, <2>5, <2>6 DEF LastInv
  <1>6. CASE TakeReport
    <2>1. /\ results # <<>> /\ results' = Tail(results) /\ Head(results).error = None
          /\ UNCHANGED <<cpc, cache, problems, ingest, resultsOver, status>>
      BY <1>6 DEF TakeReport, compare
    <2>2. /\ Len(results') \in Nat /\ Len(results) = Len(results') + 1
          /\ \A i \in 1..Len(results') : results'[i] = results[i + 1]
          /\ Head(results) = results[1]
      BY <2>1, ResultTaken
    <2>3. ASSUME NEW i \in 1..Len(results'), results'[i].problems = {}, results'[i].error = None
          PROVE  i = Len(results') /\ ingest = None /\ cpc \in {"flushed", "done"}
      <3>1. i + 1 \in 1..Len(results)
        BY <2>2
      <3>2. i + 1 = Len(results) /\ ingest = None /\ cpc \in {"flushed", "done"}
        BY <2>2, <2>3, <3>1 DEF LastInv
      <3> QED BY <2>2, <3>2
    <2>4. ASSUME NEW i \in 1..Len(results), results[i].error # None
          PROVE  \E j \in 1..Len(results') : results'[j].error # None
      <3> DEFINE j == i - 1
      <3>1. i # 1
        BY <2>1, <2>2, <2>4
      <3>2. j \in 1..Len(results') /\ j + 1 = i
        BY <2>2, <3>1
      <3>3. results'[j] = results[i]
        BY <2>2, <3>2
      <3> QED BY <2>4, <3>2, <3>3
    <2> QED BY <2>1, <2>3, <2>4 DEF LastInv, Running
  <1>7. CASE TakeEmptyReport \/ SeeResultsOver
    <2>1. status' # "processing" /\ UNCHANGED <<compare, outcome>>
      BY <1>7 DEF TakeEmptyReport, SeeResultsOver, Finish
    <2> QED BY <2>1 DEF LastInv, Running, compare, outcome
  <1>8. CASE TakeError
    BY <1>8, ErrorKind, LastTaskFails DEF TakeError
  <1>9. CASE Save
    BY <1>9, LastFrame DEF Save, compare
  <1>10. CASE SaveFails
    BY <1>10, LastTaskFails DEF SaveFails
  <1> QED BY <1>1, <1>2, <1>4, <1>5, <1>6, <1>7, <1>8, <1>9, <1>10 DEF Retryer, Worker

-----------------------------------------------------------------------------
(* What a task that is over has recorded. *)

LEMMA FinishExact ==
    ASSUME TypeOK, CalmInv, WholeInv, SoundInv, LastInv, natural, cpc \in {"flushed", "done"},
           ingest = None, saving = {}, \A p : ~InResults(p)
    PROVE  recorded = Defects /\ {p.doc : p \in recorded} \subseteq rechecks
  <1>0. "src" \in Side /\ "dst" \in Side
    BY DEF Side
  <1>1. ended = Side /\ ~cancelled
    BY EndsCalm DEF CalmInv
  <1>2. rpc["src"] = "done"
    BY <1>0, <1>1, EndsCalm DEF CalmInv
  <1>3. left["src"] = {} /\ reply = {} /\ batch["src"] = {}
    BY <1>0, <1>1, <1>2 DEF CalmInv
  <1>4. cache["src"] = {} /\ problems = {}
    BY <1>0 DEF LastInv, Neither
  <1>5. Held = {}
    BY <1>3, <1>4 DEF Held
  <1>6. ASSUME NEW p \in Defects PROVE p \in recorded /\ p.doc \in rechecks
    <2>1. /\ p \in Problem /\ p.doc \in Doc /\ p.defect \in Defect
          /\ p.defect = condition[p.doc] /\ p.defect # "extra"
          /\ p = [doc |-> p.doc, defect |-> condition[p.doc]]
      BY DEF Defects, Problem
    <2>2. p.doc \in On("src") /\ condition[p.doc] # "same"
      BY <2>1 DEF On, Defect
    <2>3. Known(p)
      BY <1>1, <1>2, <1>5, <2>1, <2>2 DEF WholeInv, Accounted
    <2> QED BY <1>4, <2>3 DEF Known, Told
  <1>7. recorded \subseteq Defects
    BY DEF SoundInv
  <1> QED BY <1>6, <1>7

LEMMA RecordedByWorker ==
    ASSUME TypeOK, CalmInv, cpc # "failed" => WholeInv, SoundInv, LastInv, natural, Next
    PROVE  RecordedExact'
  <1>1. CASE TakeEmptyReport
    <2>1. /\ Running /\ saving = {} /\ results # <<>>
          /\ Head(results).error = None /\ Head(results).problems = {}
      BY <1>1 DEF TakeEmptyReport, AwaitsResult
    <2>2. Len(results) \in Nat \ {0} /\ Head(results) = results[1]
      BY <2>1, HeadTailProperties, LenProperties, EmptySeq DEF TypeOK
    <2>3. Len(results) = 1 /\ ingest = None /\ cpc \in {"flushed", "done"}
      <3>1. 1 \in 1..Len(results) /\ results[1].problems = {} /\ results[1].error = None
        BY <2>1, <2>2
      <3> QED BY <3>1 DEF LastInv
    <2>4. \A p : ~InResults(p)
      BY <2>1, <2>2, <2>3 DEF InResults
    <2>5. recorded = Defects /\ {p.doc : p \in recorded} \subseteq rechecks
      BY <2>1, <2>3, <2>4, FinishExact
    <2>6. UNCHANGED <<task, recorded, rechecks>>
      BY <1>1 DEF TakeEmptyReport, Finish, saves
    <2> QED BY <2>5, <2>6, SameDefects DEF RecordedExact
  <1>2. CASE SeeResultsOver
    <2>1. Running /\ saving = {} /\ results = <<>> /\ resultsOver
      BY <1>2 DEF SeeResultsOver, AwaitsResult
    <2>2. Len(results) = 0
      BY <2>1, EmptySeq
    <2>3. cpc = "done" /\ ingest = None
      BY <2>1, <2>2 DEF LastInv
    <2>4. \A p : ~InResults(p)
      BY <2>2 DEF InResults
    <2>5. recorded = Defects /\ {p.doc : p \in recorded} \subseteq rechecks
      BY <2>1, <2>3, <2>4, FinishExact
    <2>6. UNCHANGED <<task, recorded, rechecks>>
      BY <1>2 DEF SeeResultsOver, Finish, saves
    <2> QED BY <2>5, <2>6, SameDefects DEF RecordedExact
  <1>3. CASE ~TakeEmptyReport /\ ~SeeResultsOver
    <2>1. ASSUME NEW kind, TaskFails(kind), Running PROVE status' \in {"processing", "error"}
      BY <2>1 DEF TaskFails, Running
    <2>2. ASSUME NEW s \in Side, Reader(s) PROVE status' = "processing"
      BY <2>2 DEF Reader, Open, OpenFails, Send, Exhausted, CursorFails, Fails, worker, Running
    <2>3. ASSUME NaturalReaders PROVE status' = "processing"
      BY <2>3 DEF NaturalReaders, SendIds, SendReply, TakeIds, SendPadding, SendCursorDone,
                  IdsOver, worker, Running
    <2>4. ASSUME Comparing PROVE status' = "processing"
      BY <2>4 DEF Comparing, SeeClosed, FlushCursor, Compare, FlushLast, CompareReturns,
                  CompareCancelled, Stall, worker, Running
    <2>5. ASSUME Ingest \/ Retryer \/ TakeReport \/ Save PROVE status' = "processing"
      BY <2>5 DEF Ingest, Retryer, RunEnds, RunAgain, RunFails, TakeReport, AwaitsResult, Save,
                  worker, Running
    <2>6. ASSUME TakeError \/ SaveFails PROVE status' \in {"processing", "error"}
      BY <2>1, <2>6 DEF TakeError, AwaitsResult, SaveFails
    <2>7. status' \in {"processing", "error"}
      BY <1>3, <2>2, <2>3, <2>4, <2>5, <2>6 DEF Next, Worker
    <2> QED BY <2>7 DEF RecordedExact
  <1> QED BY <1>1, <1>2, <1>3

\* A comparator that has failed takes nothing more.
LEMMA BoundedFailed ==
    ASSUME Next, natural' = natural, ~misled, MemoryBounded, cpc' = "failed"
    PROVE  MemoryBounded'
  <1>1. UNCHANGED <<cache, problems>>
    <2>1. ASSUME (\E s \in Side : Reader(s)) \/ NaturalReaders PROVE UNCHANGED <<cache, problems>>
      BY <2>1 DEF Reader, Open, OpenFails, Send, Exhausted, CursorFails, Fails, NaturalReaders,
                  SendIds, SendReply, TakeIds, SendPadding, SendCursorDone, IdsOver, Receive, compare
    <2>2. ASSUME Comparing PROVE UNCHANGED <<cache, problems>>
      BY <2>2 DEF Comparing, SeeClosed, FlushCursor, Compare, FlushLast, CompareReturns,
                  CompareCancelled, Stall
    <2>3. ASSUME Ingest \/ Retryer \/ Worker \/ SaveFails PROVE UNCHANGED <<cache, problems>>
      BY <2>3, OthersGroup DEF StartGroup, compare
    <2> QED BY <2>1, <2>2, <2>3 DEF Next
  <1> QED BY <1>1 DEF MemoryBounded, Cached, Unpaired

\* Comparator and readers, while the comparison has not failed.
ComparingInv == StepInv /\ PlaceInv /\ FlushInv /\ MemInv /\ WholeInv

NaturalInv ==
    natural /\ ~misled =>
        /\ CalmInv
        /\ cpc # "failed" => ComparingInv
        /\ cpc = "failed" => MemoryBounded
        /\ SoundInv /\ LastInv /\ RecordedExact

LEMMA NaturalInit ==
    ASSUME Init
    PROVE  NaturalInv
  <1>1. \A s \in Side : rpc[s] = "open" /\ left[s] = {} /\ batch[s] = {} /\ cache[s] = {}
    BY DEF Init, Neither
  <1>2. "src" \in Side /\ "dst" \in Side
    BY DEF Side
  <1>3. Len(results) = 0 /\ Len(ids) = 0 /\ Asked = {}
    BY EmptySeq DEF Init, Asked
  <1>4. Count({}) = 0
    BY CountOf
  <1>5. CalmInv
    <2>1. /\ ~cancelled /\ cpc = "read" /\ closed = {} /\ got = {} /\ ended = {} /\ ids = <<>>
          /\ reply = {} /\ pads = 0 /\ problems = {}
      BY DEF Init
    <2> QED BY <1>1, <1>2, <2>1 DEF CalmInv
  <1>6. StepInv
    <2>1. Count(reply) = 0 /\ Count(left["dst"]) = 0 /\ InHand("src") = 0 /\ InHand("dst") = 0
      BY <1>1, <1>2, <1>4 DEF Init, InHand
    <2>2. Queued = 0 /\ pads = 0
      BY <1>3 DEF Init, Queued
    <2> QED BY <1>3, <2>1, <2>2 DEF StepInv
  <1>7. PlaceInv /\ FlushInv
    BY <1>1, <1>2, <1>3 DEF Init, PlaceInv, FlushInv
  <1>8. WholeInv
    BY <1>1, <1>2 DEF WholeInv
  <1>9. Kept = {} /\ Current = {}
    BY <1>1, <1>2 DEF Init, Kept, Current, ProblemDocs
  <1>10. MaxProblems \in Nat \ {0} /\ ReplySize \in Nat \ {0} /\ Cardinality({}) = 0
    BY SizeAssumption, FS_EmptySet
  <1>11. MemInv
    BY <1>9, <1>10 DEF MemInv
  <1>12. SoundInv /\ LastInv /\ RecordedExact
    BY <1>3 DEF Init, SoundInv, LastInv, RecordedExact
  <1> QED BY <1>5, <1>6, <1>7, <1>8, <1>11, <1>12 DEF Init, NaturalInv, ComparingInv

\* While the comparison has not failed a step of it keeps all of this.
LEMMA ComparingKept ==
    ASSUME TypeOK, TypeOK', CalmInv, ComparingInv, cpc # "failed", cpc' # "failed",
           natural, Next
    PROVE  ComparingInv'
  <1>0. condition' = condition
    BY TaskFixed DEF task
  <1>1. CASE (\E s \in Side : Reader(s)) \/ NaturalReaders
    BY <1>0, <1>1, StepReaders, PlaceReaders, MemReaders, WholeReaders DEF ComparingInv
  <1>2. CASE Comparing
    BY <1>0, <1>2, StepComparing, PlaceComparing, MemComparing, WholeComparing DEF ComparingInv
  <1>3. CASE Ingest \/ Retryer \/ Worker \/ SaveFails
    BY <1>0, <1>3, StepOthers, WholeOthers DEF ComparingInv
  <1> QED BY <1>1, <1>2, <1>3 DEF Next

\* A comparator that has failed is replaced in a new group.
LEMMA ComparingAnew ==
    ASSUME Next, cpc = "failed", cpc' # "failed"
    PROVE  StartGroup
  <1>1. ~((\E s \in Side : Reader(s)) \/ NaturalReaders)
    BY DEF Reader, Open, OpenFails, Send, Exhausted, CursorFails, Fails, NaturalReaders, SendIds,
           SendReply, TakeIds, SendPadding, SendCursorDone, IdsOver, Receive, compare
  <1>2. ~Comparing
    BY DEF Comparing, SeeClosed, FlushCursor, Compare, FlushLast, CompareReturns,
           CompareCancelled, Stall
  <1> QED BY <1>1, <1>2, OthersGroup DEF Next, compare

LEMMA ComparingStarts ==
    ASSUME StartGroup
    PROVE  ComparingInv'
  <1>1. WholeInv'
    BY DEF StartGroup, WholeInv, Side
  <1> QED BY <1>1, StepStartGroup, PlaceStartGroup, MemStartGroup DEF ComparingInv

LEMMA NaturalStutter ==
    ASSUME NaturalInv, UNCHANGED vars
    PROVE  NaturalInv'
  <1> SUFFICES ASSUME natural, ~misled PROVE NaturalInv'
    BY DEF NaturalInv, vars, task
  <1>1. /\ UNCHANGED <<condition, natural, rpc, left, reply, ids, pads, closed, cpc, got, batch,
                       ended, cursorDone, cache, problems, cancelled, cause, misled>>
        /\ UNCHANGED <<ingest, results, resultsOver, status, saving, unsaved, found, recorded,
                       rechecks, attempt>>
    BY DEF vars, task, reading, compare, group, outcome, worker, saves
  <1>2. /\ Asked' = Asked /\ UNCHANGED <<InHand("src"), InHand("dst")>>
        /\ Kept' = Kept /\ Current' = Current /\ Held' = Held
    BY <1>1, SameAsked, SameKept DEF InHand, Current, Held
  <1>3. CalmInv'
    BY <1>1, CalmFrame DEF NaturalInv
  <1>4. StepInv => StepInv'
    BY <1>1, <1>2, StepFrame
  <1>5. PlaceInv => PlaceInv'
    BY <1>1, <1>2, PlaceFrame
  <1>6. FlushInv => FlushInv'
    BY <1>1 DEF FlushInv, On
  <1>7. MemInv => MemInv'
    BY <1>1, <1>2, MemFrame
  <1>8. WholeInv => WholeInv'
    BY <1>1, <1>2, SameTold DEF WholeInv, On, Accounted, Known
  <1>9. MemoryBounded => MemoryBounded'
    BY <1>1 DEF MemoryBounded, Cached, Unpaired
  <1>10. SoundInv' /\ LastInv'
    BY <1>1, SoundFrame, LastFrame DEF NaturalInv, task, outcome
  <1>11. RecordedExact'
    BY <1>1, SameDefects DEF NaturalInv, RecordedExact, task
  <1> QED BY <1>1, <1>3, <1>4, <1>5, <1>6, <1>7, <1>8, <1>9, <1>10, <1>11
          DEF NaturalInv, ComparingInv

LEMMA NaturalStep ==
    ASSUME TypeOK, TypeOK', ClosedInv, NaturalInv, Next
    PROVE  NaturalInv'
  <1> SUFFICES ASSUME natural, ~misled, ~misled' PROVE NaturalInv'
    BY TaskFixed, MisledStays DEF NaturalInv, task
  <1>0. natural' = natural
    BY TaskFixed DEF task
  <1>1. /\ CalmInv /\ SoundInv /\ LastInv
        /\ cpc # "failed" => ComparingInv
        /\ MemoryBounded
    BY MemBounds DEF NaturalInv, ComparingInv
  <1>2. CalmInv'
    BY <1>1, CalmReaders, CalmNatural, CalmComparing, CalmOthers DEF Next
  <1>3. cpc' # "failed" => ComparingInv'
    BY <1>1, ComparingKept, ComparingAnew, ComparingStarts
  <1>4. cpc' = "failed" => MemoryBounded'
    BY <1>0, <1>1, BoundedFailed
  <1>5. SoundInv'
    <2>1. Comparing => cpc # "failed"
      BY DEF Comparing, SeeClosed, FlushCursor, Compare, FlushLast, CompareReturns,
             CompareCancelled, Stall
    <2> QED BY <1>1, <2>1, SoundReaders, SoundComparing, SoundOthers DEF Next, ComparingInv
  <1>6. LastInv'
    BY <1>1, LastReaders, LastComparing, LastOthers DEF Next
  <1>7. RecordedExact'
    BY <1>1, RecordedByWorker DEF ComparingInv
  <1> QED BY <1>2, <1>3, <1>4, <1>5, <1>6, <1>7 DEF NaturalInv

LEMMA NaturalInductive == Spec => []NaturalInv
  <1>1. Init => NaturalInv
    BY NaturalInit
  <1>2. TypeOK /\ TypeOK' /\ ClosedInv /\ NaturalInv /\ [Next]_vars => NaturalInv'
    BY NaturalStutter, NaturalStep
  <1> QED BY <1>1, <1>2, TypeCorrect, ClosedInductive, PTL DEF Spec

(* RecordedExact, under natural partitioning: however readers, comparator and       *)
(* worker interleave, whatever the replies are cut into, whichever read or write    *)
(* fails, at whatever step, and though the comparator reports as missing what is    *)
(* still in its cache when the destination's cursor is done, nothing is recorded    *)
(* that is not wrong, and nothing of the source is forgotten, unless the comparator *)
(* took a channel that a failing reader closed for the end of the documents.        *)
THEOREM NaturalRecordedExact == Spec => [](natural => RecordedExact)
  <1>1. NaturalInv => (natural => RecordedExact)
    BY DEF NaturalInv, RecordedExact
  <1> QED BY <1>1, NaturalInductive, PTL

(* RecordedExact, however the task is partitioned: processAnyTask's mismatches and  *)
(* rechecks are what is wrong, whichever run of the comparison reported it.         *)
THEOREM AllRecordedExact == Spec => []RecordedExact
  <1>1. (natural => RecordedExact) /\ (~natural => RecordedExact) => RecordedExact
    OBVIOUS
  <1> QED BY <1>1, IdRecordedExact, NaturalRecordedExact, PTL

(* MemoryBounded: comparatorMaxProblemsLen bounds what the comparator of a naturally *)
(* partitioned task holds, up to one reply of the server, although it looks at the   *)
(* limit only when the destination's cursor is done, and whichever read fails, until *)
(* it takes a channel that a failing reader closed for the end of the documents.     *)
THEOREM MemoryIsBounded == Spec => []MemoryBounded
  <1>1. TypeOK /\ NaturalInv => MemoryBounded
    <2>1. ~natural \/ misled => MemoryBounded
      BY DEF MemoryBounded
    <2> QED BY <2>1, MemBounds DEF NaturalInv, ComparingInv
  <1> QED BY <1>1, NaturalInductive, TypeCorrect, PTL

=============================================================================
