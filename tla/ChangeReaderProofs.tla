------------------------- MODULE ChangeReaderProofs -------------------------
(***************************************************************************)
(* Theorems about ChangeReader, for any number of events, connection       *)
(* failures and crashes, and any buffer size.                              *)
(***************************************************************************)
EXTENDS ChangeReader, FiniteSetTheorems, SequenceTheorems, TLAPS

LEMMA InitType == Init => TypeOK
<1> SUFFICES ASSUME Init PROVE TypeOK
    OBVIOUS
<1> USE SizeAssumption DEF Init
<1>1. stream \in Seq(Time) /\ Len(stream) = 0 /\ chan \in Seq(Batch) /\ Len(chan) = 0
    OBVIOUS
<1>2. 0 \in Time /\ 0 \in Pos /\ 0 \in 0..IdlePolls /\ 0 \in 0..MaxLull
    BY DEF Time, Pos
<1>3. failures \in 0..MaxFailures /\ crashes \in 0..MaxCrashes /\ {} \in SUBSET Index
    OBVIOUS
<1>4. stream \in Seq(Time) /\ Len(stream) <= MaxEvents /\ chan \in Seq(Batch) /\ Len(chan) <= BufferSize
    BY <1>1
<1>5. /\ rpc \in Reading \cup {"down", "connect", "open", "done", "failed"}
      /\ loaded \in (IF rpc = "open" THEN Token ELSE {None})
      /\ batch \in (IF ppc = "wait" THEN {None} ELSE Batch)
    OBVIOUS
<1>6. /\ counts \in Nat /\ saved \in Nat /\ kind \in Kinds
    OBVIOUS
<1> QED
    BY <1>1, <1>2, <1>3, <1>4, <1>5, <1>6 DEF TypeOK

(* What a poll may put into the variables it changes. *)
LEMMA PollType ==
    ASSUME TypeOK, NEW p \in pos..Len(stream), NEW t \in Time, NEW now \in Time,
           Poll(p, t, now)
    PROVE  TypeOK'
<1> USE DEF TypeOK
<1>1. p \in Pos
    BY SizeAssumption DEF Pos
<1>2. [from |-> pos, upTo |-> p, at |-> t] \in Batch
    BY <1>1 DEF Batch
<1>3. chan' \in Seq(Batch) /\ Len(chan') <= BufferSize
    BY <1>2, SizeAssumption, AppendProperties DEF Poll, CanSend
<1>4. last' \in Time
  <2>1. p > pos => stream[p] \in Time
    <3>1. p > pos => p \in 1..Len(stream)
        BY <1>1, SizeAssumption DEF Pos
    <3> QED
        BY <3>1
  <2>2. last' \in {t, last, clock} \/ (p > pos /\ last' \in {last, stream[p]})
    BY DEF Poll, Larger
  <2> QED
    BY <2>1, <2>2
<1>5. idle' \in 0..IdlePolls /\ lull' \in 0..MaxLull
    BY SizeAssumption DEF Poll
<1>6. rpc' \in Reading \cup {"down", "connect", "open", "done", "failed"}
    BY DEF Poll, Reading
<1> QED
    BY <1>1, <1>3, <1>4, <1>5, <1>6
       DEF Poll, cluster, durable, request, persistor, history

LEMMA StepType == TypeOK /\ [Next]_vars => TypeOK'
<1> SUFFICES ASSUME TypeOK, [Next]_vars PROVE TypeOK'
    OBVIOUS
<1> USE DEF TypeOK, Token
<1>1. CASE Write
  <2>1. PICK t \in Time : stream' = Append(stream, t) /\ clock' = t
    BY <1>1 DEF Write
  <2>2. stream' \in Seq(Time) /\ Len(stream') <= MaxEvents
    BY <1>1, <2>1, SizeAssumption DEF Write
  <2> QED
    BY <1>1, <2>1, <2>2 DEF Write, durable, cursor, request, persistor, history
<1>2. CASE Tick
  <2>1. clock' \in Time
    <3> HIDE DEF TypeOK
    <3>1. clock \in Time
        BY DEF TypeOK
    <3> QED
        BY <1>2, <3>1, SizeAssumption DEF Tick, Time
  <2> QED
    BY <1>2, <2>1 DEF Tick, durable, cursor, request, persistor, history
<1>3. CASE Trim
  <2>1. oldest' \in Pos
    BY <1>3, SizeAssumption DEF Trim, Pos
  <2> QED
    BY <1>3, <2>1 DEF Trim, durable, cursor, request, persistor, history
<1>4. CASE FetchFinalTs
    BY <1>4 DEF FetchFinalTs, durable, cursor, persistor, history
<1>5. CASE SetWritesOff
    BY <1>5 DEF SetWritesOff, cluster, durable, cursor, persistor, history
<1>6. CASE OpenFirst
  <2>1. Len(stream) \in Pos /\ TokenTime(clock) \in Time
    BY SizeAssumption DEF Pos, Time, TokenTime
  <2>2. 0 \in 0..MaxLull
    BY SizeAssumption
  <2> QED
    BY <1>6, <2>1, <2>2 DEF OpenFirst, cluster, request, persistor, Reading
<1>7. CASE LoadToken
    BY <1>7 DEF LoadToken, cluster, durable, cursor, request, persistor, history
<1>8. CASE Open \/ OpenFails
  <2>1. loaded \in Token
    BY <1>8 DEF Open, OpenFails
  <2>2. loaded.pos \in Pos /\ loaded.at \in Time /\ loaded.count \in Nat
    BY <2>1
  <2>3. 0 \in 0..MaxLull
    BY SizeAssumption
  <2>4. CASE Open
    <3>1. pos' \in Pos /\ skipped' \in SUBSET Index
      <4> HIDE DEF TypeOK
      <4>1. pos' = Larger(loaded.pos, oldest) /\ skipped' = skipped \cup (loaded.pos + 1)..pos'
        BY <2>4 DEF Open
      <4>2. loaded.pos \in Pos /\ oldest \in Pos /\ skipped \in SUBSET Index
        BY <2>2 DEF TypeOK
      <4>3. pos' \in Pos
        BY <4>1, <4>2 DEF Larger
      <4>4. (loaded.pos + 1)..pos' \subseteq Index
        BY <4>2, <4>3, SizeAssumption DEF Pos, Index
      <4> QED
        BY <4>1, <4>2, <4>3, <4>4
    <3>2. /\ UNCHANGED <<cluster, durable, last, seenClock, idle, chan, request, persistor,
                          first, failures, crashes>>
          /\ counts' \in Nat /\ at' \in Time /\ lull' \in 0..MaxLull
          /\ rpc' = "read" /\ loaded' = None
        BY <2>2, <2>3, <2>4 DEF Open
    <3>3. /\ rpc' \in Reading \cup {"down", "connect", "open", "done", "failed"}
          /\ loaded' \in (IF rpc' = "open" THEN Token ELSE {None})
        BY <3>2 DEF Reading
    <3>4. UNCHANGED <<kind, stream, clock, oldest, stopped, handled, tokenDoc, last, seenClock,
                      idle, chan, finalTs, fence, ppc, batch, pending, saved, first, failures,
                      crashes>>
        BY <3>2 DEF cluster, durable, request, persistor
    <3> QED
        BY <3>1, <3>2, <3>3, <3>4, Zenon
  <2>5. CASE OpenFails
    BY <2>2, <2>5 DEF OpenFails, cluster, durable, cursor, request, persistor, history, Reading
  <2> QED
    BY <1>8, <2>4, <2>5
<1>9. CASE ReadSome
    BY <1>9, PollType DEF ReadSome
<1>10. CASE Draining
  <2>1. 0 \in 0..IdlePolls
    BY SizeAssumption
  <2> QED
    BY <1>10, <2>1 DEF Draining, EnterDrain, Close, PollAgain, cluster, durable, cursor,
                       request, persistor, history, Reading
<1>11. CASE Disconnect
  <2>1. failures' \in 0..MaxFailures
    BY <1>11, SizeAssumption DEF Disconnect
  <2> QED
    BY <1>11, <2>1 DEF Disconnect, cluster, durable, cursor, request, persistor, Reading
<1>12. CASE Receive
  <2>1. Head(chan) \in Batch /\ Tail(chan) \in Seq(Batch) /\ Len(Tail(chan)) = Len(chan) - 1
    BY <1>12, HeadTailProperties DEF Receive
  <2>2. batch' \in Batch /\ batch'.from \in Pos /\ batch'.upTo \in Pos
    BY <1>12, <2>1 DEF Receive, Batch
  <2>3. pending' \in SUBSET Index
    BY <1>12, <2>2, SizeAssumption DEF Receive, Pos, Index
  <2>4. IsFiniteSet((batch'.from + 1)..batch'.upTo)
    <3>1. batch'.from + 1 \in Int /\ batch'.upTo \in Int
        BY <2>2, SizeAssumption DEF Pos
    <3> QED
        BY <3>1, FS_Interval, Zenon
  <2>5. counts' \in Nat
    BY <1>12, <2>4, FS_CardinalityType DEF Receive
  <2>6. chan' \in Seq(Batch) /\ Len(chan') <= BufferSize
    BY <1>12, <2>1, SizeAssumption DEF Receive
  <2> QED
    BY <1>12, <2>2, <2>3, <2>5, <2>6 DEF Receive, cluster, durable, cursor, request, history
<1>13. CASE \E i \in Index : Insert(i)
    BY <1>13 DEF Insert, cluster, cursor, request, history
<1>14. CASE SkipToken \/ TakeCounts
    BY <1>14 DEF SkipToken, TakeCounts, cluster, durable, cursor, request, history
<1>15. CASE ReplaceToken
  <2>1. batch \in Batch
    BY <1>15 DEF ReplaceToken
  <2>2. tokenDoc' \in Token
    BY <1>15, <2>1 DEF ReplaceToken, Batch
  <2> QED
    BY <1>15, <2>2 DEF ReplaceToken, cluster, cursor, request, history
<1>16. CASE Crash
  <2>1. 0 \in Pos /\ 0 \in Time /\ 0 \in 0..IdlePolls /\ 0 \in 0..MaxLull
    BY SizeAssumption DEF Pos, Time
  <2>2. <<>> \in Seq(Batch) /\ Len(<<>>) <= BufferSize
    BY SizeAssumption
  <2>3. crashes' \in 0..MaxCrashes
    BY <1>16, SizeAssumption DEF Crash
  <2> QED
    BY <1>16, <2>1, <2>2, <2>3 DEF Crash, cluster, durable, Reading
<1>17. CASE Start
    BY <1>17 DEF Start, cluster, durable, cursor, request, persistor, history
<1>18. CASE UNCHANGED vars
    BY <1>18 DEF vars, cluster, durable, cursor, request, persistor, history
<1> QED
    BY <1>1, <1>2, <1>3, <1>4, <1>5, <1>6, <1>7, <1>8, <1>9, <1>10, <1>11, <1>12, <1>13,
       <1>14, <1>15, <1>16, <1>17, <1>18 DEF Next, Opening, PersistorStep

(* Every reachable state is well typed: what a reader, a persistor and the     *)
(* channel between them hold, through reconnects and crashes.                  *)
THEOREM TypeCorrect == Spec => []TypeOK
BY InitType, StepType, PTL DEF Spec

-----------------------------------------------------------------------------
(* Delivery: where an event is between the stream and its stored recheck. *)

Events(b) == (b.from + 1)..b.upTo

\* Event i is accounted for, its recheck is being stored, or will be by the time the
\* k-th batch of the channel has been handled.
Sent(i, k) ==
    \/ i \in Delivered
    \/ i \in pending
    \/ \E j \in 1..k : i \in Events(chan[j])

\* Nothing has been read before the first stream was opened.
VirginInv ==
    tokenDoc = None => rpc \in {"down", "connect"} /\ chan = <<>> /\ ppc = "wait"

\* What a token, a batch or the reader's position says has been delivered is
\* accounted for, or is being stored, or precedes it in the channel.
StoredInv ==
    /\ tokenDoc # None => \A i \in (first + 1)..tokenDoc.pos : i \in Delivered
    /\ rpc = "open" => \A i \in (first + 1)..loaded.pos : i \in Delivered
PersistorInv ==
    /\ ppc # "insert" => pending = {}
    /\ ppc # "wait" => \A i \in (first + 1)..batch.upTo : Sent(i, 0)
ChannelInv ==
    \A k \in 1..Len(chan) : \A i \in (first + 1)..chan[k].upTo : Sent(i, k)
PositionInv ==
    rpc \in Reading \cup {"done"} => \A i \in (first + 1)..pos : Sent(i, Len(chan))

DeliveryInv == VirginInv /\ StoredInv /\ PersistorInv /\ ChannelInv /\ PositionInv

LEMMA InitDelivery == Init => DeliveryInv
BY DEF Init, DeliveryInv, VirginInv, StoredInv, PersistorInv, ChannelInv, PositionInv, Reading

(* Steps that touch neither the channel nor the persistor nor the position. *)
LEMMA QuietDelivery ==
    ASSUME TypeOK, DeliveryInv,
           UNCHANGED <<kind, durable, chan, ppc, batch, pending, pos, first, skipped>>,
           rpc' \in Reading \cup {"done"} => rpc \in Reading \cup {"done"},
           rpc' = "open" => loaded' = tokenDoc \/ (rpc = "open" /\ loaded' = loaded),
           tokenDoc = None => rpc' \in {"down", "connect"}
    PROVE  DeliveryInv'
<1> USE DEF DeliveryInv, durable
<1>1. \A i, k : Sent(i, k)' <=> Sent(i, k)
    BY DEF Sent, Delivered, Events
<1>2. VirginInv' /\ PersistorInv' /\ ChannelInv' /\ PositionInv'
    BY <1>1 DEF VirginInv, PersistorInv, ChannelInv, PositionInv
<1>3. StoredInv'
    BY DEF StoredInv, VirginInv, Delivered
<1> QED
    BY <1>2, <1>3

(* A poll puts the events it read at the end of the channel. *)
LEMMA PollSent ==
    ASSUME TypeOK, NEW p \in pos..Len(stream), NEW t \in Time, NEW now \in Time,
           Poll(p, t, now), NEW n \in Nat, n = Len(chan)
    PROVE  /\ Len(chan') = n + 1
           /\ \A j \in 1..n : chan'[j] = chan[j]
           /\ chan'[n + 1] = [from |-> pos, upTo |-> p, at |-> t]
           /\ \A k \in 0..n : \A i : Sent(i, k) => Sent(i, k)'
           /\ \A i \in (pos + 1)..p : Sent(i, n + 1)'
<1> DEFINE b == [from |-> pos, upTo |-> p, at |-> t]
<1>1. UNCHANGED <<kind, handled, skipped, pending>> /\ chan' = Append(chan, b)
    BY DEF Poll, cluster, durable, persistor, history
<1>2. chan \in Seq(Batch) /\ b \in Batch /\ pos \in Nat /\ p \in Nat
    BY SizeAssumption DEF TypeOK, Pos, Batch
<1>3. /\ Len(chan') = n + 1
      /\ \A j \in 1..n : chan'[j] = chan[j]
      /\ chan'[n + 1] = b
    <2> HIDE DEF b
    <2> QED
        BY <1>1, <1>2, AppendProperties
<1>4. ASSUME NEW k \in 0..n, NEW i, Sent(i, k) PROVE Sent(i, k)'
    <2>1. \A j \in 1..k : chan'[j] = chan[j]
        BY <1>3
    <2> QED
        BY <1>1, <1>4, <2>1 DEF Sent, Delivered, Events
<1>5. ASSUME NEW i \in (pos + 1)..p PROVE Sent(i, n + 1)'
    <2>1. i \in Events(b) /\ n + 1 \in 1..(n + 1)
        BY <1>2 DEF Events
    <2>2. \E j \in 1..(n + 1) : i \in Events(chan'[j])
        <3> HIDE DEF b
        <3> QED
            BY <2>1, <1>3
    <2> QED
        BY <2>2 DEF Sent, Delivered, Events
<1> QED
    BY <1>3, <1>4, <1>5

LEMMA PollDelivery ==
    ASSUME TypeOK, DeliveryInv, NEW p \in pos..Len(stream), NEW t \in Time,
           NEW now \in Time, Poll(p, t, now)
    PROVE  DeliveryInv'
<1> USE DEF DeliveryInv
<1>1. /\ UNCHANGED <<kind, handled, skipped, tokenDoc, ppc, batch, pending, first>>
      /\ pos' = p /\ rpc \in Reading /\ rpc' \in Reading
    BY DEF Poll, cluster, durable, persistor, history, Reading
<1>2. chan \in Seq(Batch) /\ pos \in Nat /\ p \in Nat /\ first \in Nat
    BY SizeAssumption DEF TypeOK, Pos
<1> PICK n \in Nat : n = Len(chan)
    BY <1>2
<1>3. /\ Len(chan') = n + 1
      /\ \A j \in 1..n : chan'[j] = chan[j]
      /\ chan'[n + 1] = [from |-> pos, upTo |-> p, at |-> t]
      /\ \A k \in 0..n : \A i : Sent(i, k) => Sent(i, k)'
      /\ \A i \in (pos + 1)..p : Sent(i, n + 1)'
    BY PollSent, Zenon
<1>4. ASSUME NEW i \in (first + 1)..p PROVE Sent(i, n + 1)'
    <2>1. CASE i <= pos
        <3>1. Sent(i, n) /\ n \in 0..n /\ 1..n \subseteq 1..(n + 1)
            BY <1>1, <1>2, <2>1 DEF PositionInv
        <3>2. Sent(i, n)'
            BY <1>3, <3>1
        <3> QED
            BY <3>1, <3>2 DEF Sent, Delivered, Events
    <2>2. CASE i > pos
        BY <1>2, <1>3, <2>2
    <2> QED
        BY <1>2, <2>1, <2>2
<1>5. VirginInv' /\ StoredInv'
    BY <1>1 DEF VirginInv, StoredInv, Delivered, Reading
<1>6. PersistorInv'
    BY <1>1, <1>3 DEF PersistorInv, Sent, Delivered
<1>7. ChannelInv'
  <2> SUFFICES ASSUME NEW k \in 1..(n + 1), NEW i \in (first + 1)..chan'[k].upTo
               PROVE Sent(i, k)'
    BY <1>1, <1>3 DEF ChannelInv
  <2>1. CASE k = n + 1
    BY <2>1, <1>3, <1>4
  <2>2. CASE k # n + 1
    <3>1. k \in 1..n /\ k \in 0..n /\ chan'[k] = chan[k]
        BY <2>2, <1>3
    <3> QED
        BY <3>1, <1>3 DEF ChannelInv
  <2> QED
    BY <2>1, <2>2
<1>8. PositionInv'
    BY <1>1, <1>3, <1>4 DEF PositionInv
<1> QED
    BY <1>5, <1>6, <1>7, <1>8

(* Receiving moves the first batch's events from the channel to pending. *)
LEMMA ReceiveSent ==
    ASSUME TypeOK, pending = {}, Receive, NEW n \in Nat, n = Len(chan)
    PROVE  /\ n >= 1 /\ Len(chan') = n - 1
           /\ batch' = chan[1]
           /\ \A j \in 1..(n - 1) : chan'[j] = chan[j + 1]
           /\ \A k \in 1..n : \A i : Sent(i, k) => Sent(i, k - 1)'
<1>1. /\ UNCHANGED <<kind, handled, skipped>> /\ chan # <<>> /\ chan \in Seq(Batch)
      /\ batch' = chan[1] /\ chan' = Tail(chan) /\ pending' = Events(chan[1])
    BY DEF Receive, cluster, durable, history, TypeOK, Events
<1>2. n >= 1 /\ Len(chan') = n - 1 /\ \A j \in 1..(n - 1) : chan'[j] = chan[j + 1]
    BY <1>1, HeadTailProperties
<1>3. ASSUME NEW k \in 1..n, NEW i, Sent(i, k) PROVE Sent(i, k - 1)'
  <2>1. CASE i \in Delivered
    BY <1>1, <2>1 DEF Sent, Delivered
  <2>2. CASE \E j \in 1..k : i \in Events(chan[j])
    <3>1. PICK j \in 1..k : i \in Events(chan[j])
        BY <2>2
    <3>2. CASE j = 1
        BY <1>1, <3>1, <3>2 DEF Sent, Delivered
    <3>3. CASE j # 1
        <4>1. j - 1 \in 1..(k - 1) /\ j - 1 \in 1..(n - 1) /\ (j - 1) + 1 = j
            BY <3>3
        <4>2. chan'[j - 1] = chan[j]
            BY <1>2, <4>1
        <4>3. \E m \in 1..(k - 1) : i \in Events(chan'[m])
            BY <3>1, <4>1, <4>2
        <4> QED
            BY <4>3 DEF Sent, Delivered, Events
    <3> QED
        BY <3>2, <3>3
  <2> QED
    BY <1>3, <2>1, <2>2 DEF Sent, Delivered
<1> QED
    BY <1>1, <1>2, <1>3

LEMMA ReceiveDelivery == TypeOK /\ DeliveryInv /\ Receive => DeliveryInv'
<1> SUFFICES ASSUME TypeOK, DeliveryInv, Receive PROVE DeliveryInv'
    OBVIOUS
<1> USE DEF DeliveryInv
<1>1. /\ UNCHANGED <<kind, handled, skipped, tokenDoc, loaded, rpc, pos, first>>
      /\ ppc = "wait" /\ ppc' = "insert" /\ chan # <<>>
    BY DEF Receive, cluster, durable, cursor, history
<1>2. chan \in Seq(Batch) /\ pending = {}
    BY <1>1 DEF TypeOK, PersistorInv
<1> PICK n \in Nat : n = Len(chan)
    BY <1>2
<1>3. /\ n >= 1 /\ Len(chan') = n - 1
      /\ batch' = chan[1]
      /\ \A j \in 1..(n - 1) : chan'[j] = chan[j + 1]
      /\ \A k \in 1..n : \A i : Sent(i, k) => Sent(i, k - 1)'
    BY <1>2, ReceiveSent
<1>4. VirginInv' /\ StoredInv'
    BY <1>1 DEF VirginInv, StoredInv, Delivered
<1>5. PersistorInv'
  <2>1. 1 \in 1..n /\ 1 - 1 = 0
    BY <1>3
  <2>2. ASSUME NEW i \in (first + 1)..chan[1].upTo PROVE Sent(i, 0)'
    <3>1. Sent(i, 1)
        BY <2>1 DEF ChannelInv
    <3>2. Sent(i, 1 - 1)'
        BY <1>3, <2>1, <3>1
    <3> QED
        BY <3>2 DEF Sent, Delivered
  <2> QED
    BY <1>1, <1>3, <2>2 DEF PersistorInv
<1>6. ChannelInv'
  <2> SUFFICES ASSUME NEW k \in 1..(n - 1), NEW i \in (first + 1)..chan'[k].upTo
               PROVE Sent(i, k)'
    BY <1>1, <1>3 DEF ChannelInv
  <2>1. k + 1 \in 1..n /\ (k + 1) - 1 = k /\ chan'[k] = chan[k + 1]
    BY <1>3
  <2>2. Sent(i, k + 1)
    BY <2>1 DEF ChannelInv
  <2>3. Sent(i, (k + 1) - 1)'
    BY <1>3, <2>1, <2>2
  <2> QED
    BY <2>1, <2>3 DEF Sent, Delivered, Events
<1>7. PositionInv'
  <2> SUFFICES ASSUME rpc \in Reading \cup {"done"}, NEW i \in (first + 1)..pos
               PROVE Sent(i, n - 1)'
    BY <1>1, <1>3 DEF PositionInv
  <2>1. n \in 1..n /\ Sent(i, n)
    BY <1>3 DEF PositionInv
  <2> QED
    BY <1>3, <2>1
<1> QED
    BY <1>4, <1>5, <1>6, <1>7

(* The persistor's other steps. *)
LEMMA InsertDelivery ==
    ASSUME TypeOK, DeliveryInv, NEW e \in Index, Insert(e)
    PROVE  DeliveryInv'
<1> USE DEF DeliveryInv
<1>1. /\ UNCHANGED <<kind, skipped, tokenDoc, loaded, rpc, pos, first, chan, ppc, batch>>
      /\ handled' = handled \cup {e} /\ pending' = pending \ {e} /\ ppc = "insert"
    BY DEF Insert, cluster, cursor, history
<1>2. \A i, k : Sent(i, k) => Sent(i, k)'
    BY <1>1 DEF Sent, Delivered, Events
<1>3. VirginInv' /\ StoredInv'
    BY <1>1 DEF VirginInv, StoredInv, Delivered
<1>4. PersistorInv' /\ ChannelInv' /\ PositionInv'
    BY <1>1, <1>2 DEF PersistorInv, ChannelInv, PositionInv
<1> QED
    BY <1>3, <1>4

LEMMA TokenDelivery ==
    TypeOK /\ DeliveryInv /\ (SkipToken \/ TakeCounts \/ ReplaceToken) => DeliveryInv'
<1> SUFFICES ASSUME TypeOK, DeliveryInv, SkipToken \/ TakeCounts \/ ReplaceToken
             PROVE  DeliveryInv'
    OBVIOUS
<1> USE DEF DeliveryInv
<1>1. /\ UNCHANGED <<kind, handled, skipped, loaded, rpc, pos, first, chan>>
      /\ pending = {} /\ pending' = {} /\ ppc # "wait" /\ ppc' # "insert"
      /\ ppc' # "wait" => batch' = batch
      /\ \/ UNCHANGED tokenDoc
         \/ ppc' = "wait" /\ tokenDoc' = [pos |-> batch.upTo, at |-> batch.at, count |-> saved]
    BY DEF SkipToken, TakeCounts, ReplaceToken, AllInserted, cluster, cursor, durable,
           history, PersistorInv
<1>2. \A i, k : Sent(i, k)' <=> Sent(i, k)
    BY <1>1 DEF Sent, Delivered, Events
<1>3. tokenDoc # None
    BY <1>1 DEF VirginInv
<1>4. VirginInv'
    <2>1. UNCHANGED tokenDoc => VirginInv'
        BY <1>3 DEF VirginInv
    <2>2. tokenDoc' = [pos |-> batch.upTo, at |-> batch.at, count |-> saved] => tokenDoc' \in Token
        BY <1>1 DEF TypeOK, Token, Batch
    <2> QED
        BY <1>1, <2>1, <2>2, NoneAssumption DEF VirginInv
<1>5. \A i \in (first + 1)..batch.upTo : i \in Delivered
    BY <1>1 DEF PersistorInv, Sent
<1>6. StoredInv'
    BY <1>1, <1>3, <1>5 DEF StoredInv, Delivered
<1>7. PersistorInv' /\ ChannelInv' /\ PositionInv'
    BY <1>1, <1>2 DEF PersistorInv, ChannelInv, PositionInv
<1> QED
    BY <1>4, <1>6, <1>7

(* The reader's other steps, and the process's. *)
LEMMA OpenDelivery == TypeOK /\ DeliveryInv /\ (OpenFirst \/ Open) => DeliveryInv'
<1> SUFFICES ASSUME TypeOK, DeliveryInv, OpenFirst \/ Open PROVE DeliveryInv'
    OBVIOUS
<1> USE DEF DeliveryInv
<1>1. CASE OpenFirst
  <2>1. /\ UNCHANGED <<kind, chan, ppc, batch, pending>>
        /\ tokenDoc' = [pos |-> Len(stream), at |-> at', count |-> counts]
        /\ pos' = Len(stream) /\ first' = Len(stream) /\ rpc' = "read"
        /\ chan = <<>> /\ ppc = "wait" /\ Len(stream) \in Nat
    BY <1>1 DEF OpenFirst, cluster, persistor, VirginInv, TypeOK
  <2>2. tokenDoc' \in Token
    BY <2>1, <1>1, SizeAssumption DEF OpenFirst, TypeOK, Token, Pos, TokenTime, Time
  <2>3. (Len(stream) + 1)..Len(stream) = {}
    BY <2>1
  <2>4. VirginInv' /\ StoredInv' /\ PersistorInv' /\ ChannelInv'
    BY <2>1, <2>2, <2>3, NoneAssumption
       DEF VirginInv, StoredInv, PersistorInv, ChannelInv
  <2>5. PositionInv'
    BY <2>1, <2>3 DEF PositionInv
  <2> QED
    BY <2>4, <2>5
<1>2. CASE Open
  <2>1. /\ UNCHANGED <<kind, handled, tokenDoc, chan, ppc, batch, pending, first>>
        /\ rpc = "open" /\ rpc' = "read" /\ ~HistoryLost
        /\ pos' = Larger(loaded.pos, oldest)
        /\ skipped' = skipped \cup (loaded.pos + 1)..pos'
    BY <1>2 DEF Open, cluster, durable, persistor, history
  <2>2. loaded.pos \in Nat /\ oldest \in Nat /\ first \in Nat
    BY <2>1, SizeAssumption DEF TypeOK, Token, Pos
  <2>3. Delivered \subseteq Delivered'
    BY <2>1 DEF Delivered
  <2>4. \A i, k : Sent(i, k) => Sent(i, k)'
    BY <2>1, <2>3 DEF Sent, Events
  <2>5. VirginInv' /\ StoredInv' /\ PersistorInv' /\ ChannelInv'
    BY <2>1, <2>3, <2>4 DEF VirginInv, StoredInv, PersistorInv, ChannelInv
  <2>6. \A i \in (first + 1)..pos' : i \in Delivered'
    <3> SUFFICES ASSUME NEW i \in (first + 1)..pos' PROVE i \in Delivered'
        OBVIOUS
    <3>1. CASE i <= loaded.pos
        <4>1. i \in Delivered
            BY <2>1, <2>2, <3>1 DEF StoredInv
        <4> QED
            BY <2>3, <4>1
    <3>2. CASE i > loaded.pos
        <4>1. loaded.pos < oldest /\ i \in skipped'
            BY <2>1, <2>2, <3>2 DEF Larger
        <4>2. kind = "oplog"
            BY <2>1, <4>1 DEF HistoryLost
        <4> QED
            BY <2>1, <4>1, <4>2 DEF Delivered
    <3> QED
        BY <2>1, <2>2, <3>1, <3>2 DEF Larger
  <2>7. PositionInv'
    BY <2>1, <2>6 DEF PositionInv, Sent
  <2> QED
    BY <2>5, <2>7
<1> QED
    BY <1>1, <1>2

LEMMA CrashDelivery == DeliveryInv /\ Crash => DeliveryInv'
BY DEF DeliveryInv, Crash, cluster, durable, VirginInv, StoredInv, PersistorInv, ChannelInv,
       PositionInv, Reading, Delivered

LEMMA StepDelivery == TypeOK /\ DeliveryInv /\ [Next]_vars => DeliveryInv'
<1> SUFFICES ASSUME TypeOK, DeliveryInv, [Next]_vars PROVE DeliveryInv'
    OBVIOUS
<1> DEFINE Quiet == UNCHANGED <<kind, durable, chan, ppc, batch, pending, pos, first, skipped>>
<1> DEFINE SameReader == UNCHANGED <<rpc, loaded>>
<1>1. tokenDoc = None => rpc \in {"down", "connect"}
    BY DEF DeliveryInv, VirginInv
<1>2. Quiet /\ SameReader => DeliveryInv'
    BY <1>1, QuietDelivery
<1>3. CASE Write \/ Tick \/ Trim \/ FetchFinalTs \/ SetWritesOff \/ UNCHANGED vars
    BY <1>2, <1>3 DEF Write, Tick, Trim, FetchFinalTs, SetWritesOff, vars, cluster, durable,
                      cursor, request, persistor, history
<1>4. CASE LoadToken \/ OpenFails \/ Draining \/ Disconnect \/ Start
  <2>1. Quiet
    BY <1>4 DEF LoadToken, OpenFails, Draining, EnterDrain, Close, PollAgain, Disconnect,
                Start, cluster, durable, cursor, persistor, history
  <2>2. /\ rpc' \in Reading \cup {"done"} => rpc \in Reading \cup {"done"}
        /\ rpc' = "open" => loaded' = tokenDoc \/ (rpc = "open" /\ loaded' = loaded)
        /\ tokenDoc = None => rpc' \in {"down", "connect"}
    BY <1>1, <1>4 DEF LoadToken, OpenFails, Draining, EnterDrain, Close, PollAgain,
                      Disconnect, Start, Reading
  <2> QED
    BY <2>1, <2>2, QuietDelivery
<1>5. CASE ReadSome
    BY <1>5, PollDelivery DEF ReadSome
<1>6. CASE OpenFirst \/ Open
    BY <1>6, OpenDelivery
<1>7. CASE PersistorStep
    BY <1>7, ReceiveDelivery, InsertDelivery, TokenDelivery DEF PersistorStep
<1>8. CASE Crash
    BY <1>8, CrashDelivery
<1> QED
    BY <1>3, <1>4, <1>5, <1>6, <1>7, <1>8 DEF Next, Opening

(* The recheck of every event up to the persisted resume token is stored, but   *)
(* for those that an oplog reader has found gone.  So a reader that reconnects  *)
(* or restarts at the token loses nothing that was still there, whatever was in *)
(* the channel of the stream it had before.                                     *)
THEOREM ResumeSafe == Spec => []TokenDelivered
<1>1. Init => TypeOK /\ DeliveryInv
    BY InitType, InitDelivery
<1>2. TypeOK /\ DeliveryInv /\ [Next]_vars => (TypeOK /\ DeliveryInv)'
    BY StepType, StepDelivery
<1>3. DeliveryInv => TokenDelivered
    BY DEF DeliveryInv, StoredInv, TokenDelivered
<1> QED
    BY <1>1, <1>2, <1>3, PTL DEF Spec

-----------------------------------------------------------------------------
LEMMA ThreeKinds == TypeOK => kind \in {"changeStream", "documentDB", "oplog"}
BY KindAssumption DEF TypeOK

(* Times: what a resume token promises about the events after it. *)

\* The clock is never behind the stream or the reader.
ClockInv ==
    /\ \A i \in 1..Len(stream) : 1 <= stream[i] /\ stream[i] <= clock
    /\ \A i, j \in 1..Len(stream) : i < j => stream[i] <= stream[j]
    /\ last <= clock

\* No event after position p is older than t.
NoneBefore(p, t) == t <= clock /\ \A i \in 1..Len(stream) : i > p => t <= stream[i]

TokenTimeInv ==
    /\ tokenDoc # None => NoneBefore(tokenDoc.pos, tokenDoc.at)
    /\ rpc = "open" => NoneBefore(loaded.pos, loaded.at)
    /\ ppc # "wait" => NoneBefore(batch.upTo, batch.at)
    /\ \A k \in 1..Len(chan) : NoneBefore(chan[k].upTo, chan[k].at)
    /\ rpc \in Reading \cup {"done"} => NoneBefore(pos, at)

\* The writes-off timestamp is not before any event, and no event comes after
\* it; it is there when a drain begins.
FenceInv ==
    /\ finalTs # None =>
          /\ stopped
          /\ \A i \in 1..Len(stream) :
                stream[i] <= finalTs /\ (kind # "documentDB" => stream[i] < finalTs)
    /\ fence # None => fence = finalTs
    /\ rpc \in {"drain", "check", "done"} => fence # None
    /\ rpc = "done" => DrainOver

\* DocumentDB's reader counts no more idle polls than the server has been silent.
IdleInv ==
    kind = "documentDB" /\ rpc \in {"drain", "check", "done"} /\ pos < Len(stream)
        => idle <= lull

\* Event i, of its time at least the first, is not after lastChangeEventTime.
Past(i) ==
    \/ stream[i] < last
    \/ kind = "documentDB" /\ stream[i] = last /\ ~(i > 1 /\ stream[i - 1] = last)

\* lastChangeEventTime outlives the stream it was read from, so what it says must
\* not depend on the position.
LastInv ==
    kind # "changeStream" =>
        \A i \in 1..Len(stream) : i > first /\ Past(i) => Sent(i, Len(chan))

(* An event that was sent stays sent, unless the process crashes. *)
LEMMA SentStep ==
    ASSUME TypeOK, DeliveryInv, [Next]_vars, ~Crash, NEW i, Sent(i, Len(chan))
    PROVE  Sent(i, Len(chan))'
<1>1. CASE UNCHANGED <<kind, handled, pending, chan>> /\ skipped \subseteq skipped'
    BY <1>1 DEF Sent, Delivered, Events
<1>2. CASE Write \/ Tick \/ Trim \/ FetchFinalTs \/ SetWritesOff \/ Opening \/ Draining
           \/ Disconnect \/ Start \/ UNCHANGED vars
    BY <1>1, <1>2 DEF Write, Tick, Trim, FetchFinalTs, SetWritesOff, Opening, OpenFirst,
        LoadToken, Open, OpenFails, Draining, EnterDrain, Close, PollAgain, Disconnect,
        Start, vars, cluster, durable, persistor, history
<1>3. CASE SkipToken \/ TakeCounts \/ ReplaceToken
    BY <1>1, <1>3 DEF SkipToken, TakeCounts, ReplaceToken, AllInserted, cluster, durable,
                      history, DeliveryInv, PersistorInv
<1>4. CASE \E e \in Index : Insert(e)
    BY <1>4 DEF Insert, cluster, history, Sent, Delivered, Events
<1> PICK n \in Nat : n = Len(chan)
    BY DEF TypeOK
<1>5. CASE ReadSome
  <2>1. PICK p \in pos..Len(stream), t \in Time, now \in Time : Poll(p, t, now)
    BY <1>5 DEF ReadSome
  <2>2. Len(chan') = n + 1 /\ \A k \in 0..n : \A e : Sent(e, k) => Sent(e, k)'
    BY <2>1, PollSent, Zenon
  <2>3. n \in 0..n /\ 1..n \subseteq 1..(n + 1)
    OBVIOUS
  <2>4. Sent(i, n)'
    BY <2>2, <2>3
  <2> QED
    BY <2>2, <2>3, <2>4 DEF Sent, Delivered, Events
<1>6. CASE Receive
  <2>1. pending = {}
    BY <1>6 DEF Receive, DeliveryInv, PersistorInv
  <2>2. n >= 1 /\ Len(chan') = n - 1 /\ \A k \in 1..n : \A e : Sent(e, k) => Sent(e, k - 1)'
    BY <1>6, <2>1, ReceiveSent
  <2>3. n \in 1..n
    BY <2>2
  <2> QED
    BY <2>2, <2>3
<1> QED
    BY <1>2, <1>3, <1>4, <1>5, <1>6 DEF Next, PersistorStep

LEMMA StepClock == TypeOK /\ ClockInv /\ [Next]_vars => ClockInv'
<1> SUFFICES ASSUME TypeOK, ClockInv, [Next]_vars PROVE ClockInv'
    OBVIOUS
<1>0. /\ clock \in Nat /\ last \in Nat /\ Len(stream) \in Nat
      /\ \A i \in 1..Len(stream) : stream[i] \in Nat
    BY SizeAssumption DEF TypeOK, Time
<1>1. CASE Write
  <2>1. PICK t \in Time : /\ t = clock + 1 \/ (SharedTimes /\ stream # <<>> /\ t = clock
                                                /\ stream[Len(stream)] = clock)
                          /\ stream' = Append(stream, t) /\ clock' = t
    BY <1>1 DEF Write
  <2>2. /\ Len(stream') = Len(stream) + 1
        /\ \A i \in 1..Len(stream) : stream'[i] = stream[i]
        /\ stream'[Len(stream) + 1] = t
    BY <2>1, AppendProperties DEF TypeOK
  <2>3. t \in Nat /\ t >= clock /\ t >= 1
    <3>1. CASE t = clock + 1
        BY <3>1, <1>0
    <3>2. CASE SharedTimes /\ stream # <<>> /\ t = clock /\ stream[Len(stream)] = clock
        <4>1. Len(stream) \in 1..Len(stream)
            BY <3>2, <1>0 DEF TypeOK
        <4> QED
            BY <3>2, <4>1, <1>0 DEF ClockInv
    <3> QED
        BY <2>1, <3>1, <3>2, SizeAssumption DEF Time
  <2>4. \A i \in 1..(Len(stream) + 1) : 1 <= stream'[i] /\ stream'[i] <= t
    <3> SUFFICES ASSUME NEW i \in 1..(Len(stream) + 1)
                 PROVE 1 <= stream'[i] /\ stream'[i] <= t
        OBVIOUS
    <3>1. CASE i = Len(stream) + 1
        BY <3>1, <2>2, <2>3
    <3>2. CASE i \in 1..Len(stream)
        BY <3>2, <2>2, <2>3, <1>0 DEF ClockInv
    <3> QED
        BY <3>1, <3>2, <1>0
  <2>5. ASSUME NEW i \in 1..(Len(stream) + 1), NEW j \in 1..(Len(stream) + 1), i < j
        PROVE  stream'[i] <= stream'[j]
    <3>1. i \in 1..Len(stream)
        BY <2>5, <1>0
    <3>2. CASE j = Len(stream) + 1
        <4>1. stream'[i] = stream[i] /\ stream'[j] = t
            BY <3>1, <3>2, <2>2
        <4>2. stream[i] <= clock /\ stream[i] \in Nat
            BY <3>1, <1>0 DEF ClockInv
        <4> QED
            BY <4>1, <4>2, <2>3, <1>0
    <3>3. CASE j \in 1..Len(stream)
        BY <2>5, <3>1, <3>3, <2>2 DEF ClockInv
    <3> QED
        BY <3>2, <3>3, <1>0
  <2>6. last' <= clock'
    BY <1>1, <2>1, <2>3, <1>0 DEF Write, cursor, ClockInv
  <2> QED
    BY <2>1, <2>2, <2>4, <2>5, <2>6 DEF ClockInv
<1>2. ASSUME UNCHANGED stream, clock' \in Nat, clock' >= clock, last' <= clock' PROVE ClockInv'
    BY <1>2, <1>0 DEF ClockInv
<1>3. CASE Tick \/ FetchFinalTs
  <2>1. clock' \in Nat /\ clock' >= clock /\ UNCHANGED <<stream, last>>
    BY <1>3, <1>0 DEF Tick, FetchFinalTs, cursor
  <2> QED
    BY <2>1, <1>2, <1>0 DEF ClockInv
<1>4. CASE ReadSome
  <2>1. PICK p \in pos..Len(stream), t \in Time, now \in Time : Poll(p, t, now)
    BY <1>4 DEF ReadSome
  <2>2. UNCHANGED <<stream, clock>>
    BY <2>1 DEF Poll, cluster
  <2>3. last' <= clock
    <3>1. CASE kind = "oplog"
        <4>1. t \in Reached(p) /\ last' = t
            BY <2>1, <3>1 DEF Poll, TokenTimes
        <4>2. at \in Nat
            BY SizeAssumption DEF TypeOK, Time
        <4> QED
            BY <4>1, <4>2, <1>0 DEF Reached
    <3>2. CASE p > pos
        <4>1. p \in 1..Len(stream)
            BY <3>2, SizeAssumption DEF TypeOK, Pos
        <4> QED
            BY <4>1, <2>1, <3>1, <1>0 DEF Poll, Larger, ClockInv
    <3>3. CASE kind # "oplog" /\ ~(p > pos)
        BY <3>3, <2>1, <1>0 DEF Poll, ClockInv
    <3> QED
        BY <3>1, <3>2, <3>3
  <2> QED
    BY <2>2, <2>3, <1>2, <1>0
<1>5. CASE Crash
  <2>1. UNCHANGED <<stream, clock>> /\ last' = 0
    BY <1>5 DEF Crash, cluster
  <2> QED
    BY <2>1, <1>0, <1>2
<1>6. CASE UNCHANGED <<stream, clock, last>>
    BY <1>0, <1>2, <1>6 DEF ClockInv
<1>7. CASE Trim \/ SetWritesOff \/ Opening \/ Draining \/ Disconnect \/ PersistorStep
           \/ Start \/ UNCHANGED vars
    BY <1>6, <1>7 DEF Trim, SetWritesOff, Opening, OpenFirst, LoadToken, Open, OpenFails,
        Draining, EnterDrain, Close, PollAgain, Disconnect, PersistorStep, Receive, Insert,
        SkipToken, TakeCounts, ReplaceToken, Start, vars, cluster, cursor
<1> QED
    BY <1>1, <1>3, <1>4, <1>5, <1>7 DEF Next

(* What a step does to the stream and the clock. *)
LEMMA StreamStep ==
    ASSUME TypeOK, ClockInv, [Next]_vars
    PROVE  /\ clock \in Nat /\ clock' \in Nat /\ clock' >= clock
           /\ stopped => stopped' /\ UNCHANGED stream
           /\ UNCHANGED kind
           /\ \A i \in 1..Len(stream) : stream'[i] = stream[i]
           /\ \A i \in 1..Len(stream') :
                 \/ i \in 1..Len(stream) /\ stream'[i] = stream[i]
                 \/ /\ stream'[i] >= clock
                    /\ stream'[i] = clock => i > 1 /\ stream'[i - 1] = clock
<1>1. clock \in Nat /\ stream \in Seq(Time) /\ Len(stream) \in Nat
    BY SizeAssumption DEF TypeOK, Time
<1>2. CASE Write
  <2>1. PICK t \in Time : /\ \/ t = clock + 1
                             \/ stream # <<>> /\ t = clock /\ stream[Len(stream)] = clock
                          /\ stream' = Append(stream, t) /\ clock' = t
    BY <1>2 DEF Write
  <2>2. /\ Len(stream') = Len(stream) + 1
        /\ \A i \in 1..Len(stream) : stream'[i] = stream[i]
        /\ stream'[Len(stream) + 1] = t
    BY <2>1, <1>1, AppendProperties
  <2>3. \A i \in 1..(Len(stream) + 1) : i \in 1..Len(stream) \/ i = Len(stream) + 1
    BY <1>1
  <2>4. t = clock => Len(stream) >= 1 /\ stream'[Len(stream)] = clock
    <3>1. stream # <<>> => Len(stream) >= 1 /\ Len(stream) \in 1..Len(stream)
        BY <1>1
    <3> QED
        BY <1>1, <2>1, <2>2, <3>1
  <2>5. ASSUME NEW i, i = Len(stream) + 1
        PROVE  stream'[i] >= clock /\ (stream'[i] = clock => i > 1 /\ stream'[i - 1] = clock)
    <3>1. i - 1 = Len(stream) /\ stream'[i] = t
        BY <1>1, <2>2, <2>5
    <3>2. t >= clock
        BY <1>1, <2>1
    <3>3. CASE t = clock
        <4>1. i > 1 /\ stream'[i - 1] = clock
            BY <1>1, <2>4, <2>5, <3>1, <3>3
        <4> QED
            BY <3>1, <3>2, <4>1
    <3> QED
        BY <3>1, <3>2, <3>3
  <2>6. \A i \in 1..Len(stream') :
                 \/ i \in 1..Len(stream) /\ stream'[i] = stream[i]
                 \/ /\ stream'[i] >= clock
                    /\ stream'[i] = clock => i > 1 /\ stream'[i - 1] = clock
    BY <2>2, <2>3, <2>5
  <2> QED
    BY <1>1, <1>2, <2>1, <2>2, <2>6 DEF Write
<1>3. CASE UNCHANGED <<kind, stream>> /\ clock' \in {clock, clock + 1} /\ (stopped => stopped')
    BY <1>1, <1>3
<1>4. CASE Tick \/ Trim \/ FetchFinalTs \/ SetWritesOff \/ Opening \/ ReadSome \/ Draining
           \/ Disconnect \/ PersistorStep \/ Crash \/ Start \/ UNCHANGED vars
  <2>1. CASE Tick \/ FetchFinalTs
    BY <1>3, <2>1 DEF Tick, FetchFinalTs
  <2>2. CASE UNCHANGED <<kind, stream, clock, stopped>>
    BY <1>3, <2>2
  <2>3. ReadSome => UNCHANGED cluster
    BY DEF ReadSome, Poll
  <2>4. PersistorStep => UNCHANGED cluster
    BY DEF PersistorStep, Receive, Insert, SkipToken, TakeCounts, ReplaceToken
  <2>5. Opening \/ Draining => UNCHANGED cluster
    BY DEF Opening, OpenFirst, LoadToken, Open, OpenFails, Draining, EnterDrain, Close,
           PollAgain
  <2>6. SetWritesOff \/ Disconnect \/ Crash \/ Start \/ UNCHANGED vars => UNCHANGED cluster
    BY DEF SetWritesOff, Disconnect, Crash, Start, vars
  <2>7. Trim => UNCHANGED <<kind, stream, clock, stopped>>
    BY DEF Trim
  <2> QED
    BY <1>4, <2>1, <2>2, <2>3, <2>4, <2>5, <2>6, <2>7 DEF cluster
<1> QED
    BY <1>2, <1>4 DEF Next

(* A token's promise is kept by every step. *)
LEMMA PromiseKept ==
    ASSUME TypeOK, ClockInv, [Next]_vars, NEW p, NEW t \in Nat, NoneBefore(p, t)
    PROVE  NoneBefore(p, t)'
<1>1. \A i \in 1..Len(stream) : stream[i] \in Nat
    BY SizeAssumption DEF TypeOK, Time
<1>2. t <= clock'
    BY StreamStep DEF NoneBefore
<1>3. ASSUME NEW i \in 1..Len(stream'), i > p PROVE t <= stream'[i]
    <2>1. CASE i \in 1..Len(stream) /\ stream'[i] = stream[i]
        BY <1>3, <2>1 DEF NoneBefore
    <2>2. stream'[i] \in Nat
        <3>1. stream' \in Seq(Time)
            BY StepType DEF TypeOK
        <3>2. stream'[i] \in Time
            BY <3>1
        <3> QED
            BY <3>2, SizeAssumption DEF Time
    <2>3. CASE stream'[i] >= clock
        BY <2>2, <2>3, StreamStep DEF NoneBefore
    <2> QED
        BY <2>1, <2>3, StreamStep
<1> QED
    BY <1>2, <1>3 DEF NoneBefore

(* The token of an answer keeps its promise at once. *)
LEMMA PollPromise ==
    ASSUME TypeOK, ClockInv, NEW p \in pos..Len(stream), NEW t \in Time, NEW now \in Time,
           Poll(p, t, now)
    PROVE  NoneBefore(p, t)'
<1>1. UNCHANGED <<stream, clock>> /\ t \in TokenTimes(p)
    BY DEF Poll, cluster
<1>2. /\ clock \in Nat /\ at \in Nat /\ pos \in Nat /\ p \in Nat /\ Len(stream) \in Nat
      /\ \A i \in 1..Len(stream) : stream[i] \in Nat
    BY SizeAssumption DEF TypeOK, Time, Pos
<1>3. CASE t \in Reached(p)
    BY <1>1, <1>2, <1>3 DEF Reached, NoneBefore
<1>4. CASE p > pos /\ t = stream[p]
    <2>1. p \in 1..Len(stream)
        BY <1>2, <1>4
    <2> QED
        BY <1>1, <1>2, <1>4, <2>1 DEF ClockInv, NoneBefore
<1>5. CASE t = 0
    BY <1>1, <1>2, <1>5 DEF NoneBefore
<1> QED
    BY <1>1, <1>3, <1>4, <1>5, ThreeKinds DEF TokenTimes

LEMMA StepTokenTime ==
    ASSUME TypeOK, DeliveryInv, ClockInv, TokenTimeInv, [Next]_vars
    PROVE  TokenTimeInv'
<1> DEFINE Kept(p, t) == t \in Nat /\ NoneBefore(p, t) => NoneBefore(p, t)'
<1>0. \A p, t : Kept(p, t)
    BY PromiseKept
<1>1. /\ tokenDoc # None => tokenDoc.at \in Nat
      /\ rpc = "open" => loaded.at \in Nat
      /\ ppc # "wait" => batch.at \in Nat
      /\ at \in Nat
    BY SizeAssumption DEF TypeOK, Token, Batch, Time
<1> PICK n \in Nat : n = Len(chan)
    BY DEF TypeOK
<1>2. \A k \in 1..n : chan[k].at \in Nat
  <2>1. \A k \in 1..n : chan[k] \in Batch
    BY DEF TypeOK
  <2> QED
    BY <2>1, SizeAssumption DEF Batch, Time
<1>3. /\ tokenDoc # None => NoneBefore(tokenDoc.pos, tokenDoc.at)
      /\ rpc = "open" => NoneBefore(loaded.pos, loaded.at)
      /\ ppc # "wait" => NoneBefore(batch.upTo, batch.at)
      /\ \A k \in 1..n : NoneBefore(chan[k].upTo, chan[k].at)
      /\ rpc \in Reading \cup {"done"} => NoneBefore(pos, at)
    BY DEF TokenTimeInv
<1>4. ASSUME NEW p, NEW t \in Nat, NoneBefore(p, t)
      PROVE  /\ t <= clock'
             /\ \A i \in 1..Len(stream') : i > p => t <= stream'[i]
    BY <1>4, <1>0 DEF NoneBefore
<1> HIDE DEF Kept
<1>5. /\ tokenDoc # None /\ UNCHANGED tokenDoc => NoneBefore(tokenDoc.pos, tokenDoc.at)'
      /\ rpc = "open" /\ UNCHANGED loaded => NoneBefore(loaded.pos, loaded.at)'
      /\ ppc # "wait" /\ UNCHANGED batch => NoneBefore(batch.upTo, batch.at)'
      /\ rpc \in Reading \cup {"done"} /\ UNCHANGED <<pos, at>> => NoneBefore(pos, at)'
    BY <1>1, <1>3, <1>4 DEF NoneBefore
<1>6. \A k \in 1..n : /\ chan[k].at <= clock'
                      /\ \A i \in 1..Len(stream') : i > chan[k].upTo => chan[k].at <= stream'[i]
    BY <1>2, <1>3, <1>4
<1>7. UNCHANGED chan => \A k \in 1..Len(chan') : NoneBefore(chan[k].upTo, chan[k].at)'
    BY <1>6 DEF NoneBefore
<1>8. CASE /\ UNCHANGED <<tokenDoc, loaded, batch, chan, pos, at>>
           /\ rpc' = "open" => rpc = "open"
           /\ rpc' \in Reading \cup {"done"} => rpc \in Reading \cup {"done"}
           /\ ppc' # "wait" => ppc # "wait"
    BY <1>5, <1>7, <1>8 DEF TokenTimeInv
<1>9. CASE Write \/ Tick \/ Trim \/ FetchFinalTs \/ SetWritesOff \/ UNCHANGED vars
    BY <1>8, <1>9 DEF Write, Tick, Trim, FetchFinalTs, SetWritesOff, vars, durable, cursor,
                      persistor
<1>10. CASE OpenFails \/ Draining \/ Disconnect \/ Start
  <2>1. /\ UNCHANGED <<tokenDoc, batch, chan, pos, at, ppc>>
        /\ rpc' # "open"
        /\ rpc' \in Reading \cup {"done"} => rpc \in Reading \cup {"done"}
    BY <1>10 DEF OpenFails, Draining, EnterDrain, Close, PollAgain, Disconnect, Start,
                 durable, cursor, persistor, Reading
  <2> QED
    BY <1>5, <1>7, <2>1 DEF TokenTimeInv
<1>11. CASE SkipToken \/ TakeCounts \/ (\E i \in Index : Insert(i))
  <2>1. UNCHANGED <<tokenDoc, loaded, rpc, chan, pos, at>> /\ ppc # "wait"
    BY <1>11 DEF SkipToken, TakeCounts, Insert, durable, cursor
  <2>2. ppc' # "wait" => UNCHANGED batch
    BY <1>11 DEF SkipToken, TakeCounts, Insert
  <2> QED
    BY <1>5, <1>7, <2>1, <2>2 DEF TokenTimeInv
<1>12. CASE ReplaceToken
  <2>1. /\ UNCHANGED <<loaded, rpc, chan, pos, at>> /\ ppc # "wait" /\ ppc' = "wait"
        /\ tokenDoc'.pos = batch.upTo /\ tokenDoc'.at = batch.at
    BY <1>12 DEF ReplaceToken, cursor
  <2>2. NoneBefore(tokenDoc.pos, tokenDoc.at)'
    BY <1>1, <1>3, <1>4, <2>1 DEF NoneBefore
  <2> QED
    BY <1>5, <1>7, <2>1, <2>2 DEF TokenTimeInv
<1>13. CASE Receive
  <2>1. /\ UNCHANGED <<tokenDoc, loaded, rpc, pos, at>> /\ ppc = "wait"
    BY <1>13 DEF Receive, durable, cursor
  <2>2. pending = {}
    BY <2>1 DEF DeliveryInv, PersistorInv
  <2>3. /\ n >= 1 /\ Len(chan') = n - 1 /\ batch' = chan[1]
        /\ \A j \in 1..(n - 1) : chan'[j] = chan[j + 1]
    BY <1>13, <2>2, ReceiveSent
  <2>4. NoneBefore(batch.upTo, batch.at)'
    <3>1. 1 \in 1..n
        BY <2>3
    <3> QED
        BY <1>6, <2>3, <3>1 DEF NoneBefore
  <2>5. \A k \in 1..Len(chan') : NoneBefore(chan[k].upTo, chan[k].at)'
    <3> SUFFICES ASSUME NEW k \in 1..(n - 1) PROVE NoneBefore(chan[k].upTo, chan[k].at)'
        BY <2>3
    <3>1. k + 1 \in 1..n /\ chan'[k] = chan[k + 1]
        BY <2>3
    <3> QED
        BY <1>6, <3>1 DEF NoneBefore
  <2> QED
    BY <1>5, <2>1, <2>4, <2>5 DEF TokenTimeInv
<1>14. CASE ReadSome
  <2>1. PICK p \in pos..Len(stream), t \in Time, now \in Time : Poll(p, t, now)
    BY <1>14 DEF ReadSome
  <2>2. /\ UNCHANGED <<tokenDoc, loaded, ppc, batch>> /\ pos' = p /\ at' = t
        /\ rpc' \in Reading
    BY <2>1 DEF Poll, durable, persistor, Reading
  <2>3. /\ Len(chan') = n + 1
        /\ \A j \in 1..n : chan'[j] = chan[j]
        /\ chan'[n + 1] = [from |-> pos, upTo |-> p, at |-> t]
    BY <2>1, PollSent, Zenon
  <2>4. NoneBefore(p, t)'
    BY <2>1, PollPromise
  <2>5. NoneBefore(pos, at)'
    BY <2>2, <2>4 DEF NoneBefore
  <2>6. \A k \in 1..Len(chan') : NoneBefore(chan[k].upTo, chan[k].at)'
    <3> SUFFICES ASSUME NEW k \in 1..(n + 1) PROVE NoneBefore(chan[k].upTo, chan[k].at)'
        BY <2>3
    <3>1. CASE k = n + 1
        <4>1. chan'[k].upTo = p /\ chan'[k].at = t
            BY <2>3, <3>1
        <4> QED
            BY <2>4, <4>1 DEF NoneBefore
    <3>2. CASE k \in 1..n
        BY <1>6, <2>3, <3>2 DEF NoneBefore
    <3> QED
        BY <3>1, <3>2
  <2> QED
    BY <1>5, <2>2, <2>5, <2>6 DEF TokenTimeInv, Reading
<1>15. CASE OpenFirst
  <2>1. /\ UNCHANGED <<stream, clock, chan, ppc, batch>> /\ rpc' = "read"
        /\ tokenDoc'.pos = Len(stream) /\ tokenDoc'.at = at' /\ pos' = Len(stream)
        /\ at' \in {0, clock}
    BY <1>15 DEF OpenFirst, TokenTime, cluster, persistor
  <2>2. clock \in Nat /\ Len(stream) \in Nat
    BY SizeAssumption DEF TypeOK, Time
  <2>3. NoneBefore(tokenDoc.pos, tokenDoc.at)' /\ NoneBefore(pos, at)'
    BY <2>1, <2>2 DEF NoneBefore
  <2> QED
    BY <1>5, <1>7, <2>1, <2>3 DEF TokenTimeInv
<1>16. CASE LoadToken
  <2>1. /\ UNCHANGED <<tokenDoc, chan, ppc, batch>> /\ tokenDoc # None
        /\ loaded' = tokenDoc /\ rpc' = "open"
    BY <1>16 DEF LoadToken, durable, persistor
  <2>2. NoneBefore(loaded.pos, loaded.at)'
    BY <1>1, <1>3, <1>4, <2>1 DEF NoneBefore
  <2> QED
    BY <1>5, <1>7, <2>1, <2>2 DEF TokenTimeInv, Reading
<1>17. CASE Open
  <2>1. /\ UNCHANGED <<tokenDoc, chan, ppc, batch>> /\ rpc = "open" /\ rpc' = "read"
        /\ pos' = Larger(loaded.pos, oldest) /\ at' = loaded.at
    BY <1>17 DEF Open, durable, persistor
  <2>2. loaded.pos \in Nat /\ pos' \in Nat /\ loaded.pos <= pos'
    BY <2>1, SizeAssumption DEF TypeOK, Token, Pos, Larger
  <2>3. /\ at' <= clock'
        /\ \A i \in 1..Len(stream') : i > loaded.pos => at' <= stream'[i]
    BY <1>1, <1>3, <1>4, <2>1
  <2>4. Len(stream') \in Nat
    BY StepType DEF TypeOK
  <2>5. \A i \in 1..Len(stream') : i > pos' => i > loaded.pos
    BY <2>2, <2>4
  <2>6. NoneBefore(pos, at)'
    BY <2>3, <2>5 DEF NoneBefore
  <2> QED
    BY <1>5, <1>7, <2>1, <2>6 DEF TokenTimeInv
<1>18. CASE Crash
  <2>1. UNCHANGED tokenDoc /\ chan' = <<>> /\ ppc' = "wait" /\ rpc' = "down"
    BY <1>18 DEF Crash, durable
  <2> QED
    BY <1>5, <2>1 DEF TokenTimeInv, Reading
<1> QED
    BY <1>9, <1>10, <1>11, <1>12, <1>13, <1>14, <1>15, <1>16, <1>17, <1>18
       DEF Next, Opening, PersistorStep

LEMMA StepFence ==
    ASSUME TypeOK, ClockInv, FenceInv, [Next]_vars
    PROVE  FenceInv'
<1>0. /\ None \notin Time
      /\ clock \in Nat /\ \A i \in 1..Len(stream) : stream[i] \in Nat
    BY SizeAssumption, NoneAssumption DEF TypeOK, Time
<1>1. ASSUME UNCHANGED <<finalTs, fence>>,
             rpc' \in {"drain", "check", "done"} => rpc \in {"drain", "check", "done"} \/ fence # None,
             rpc' = "done" => DrainOver'
      PROVE  FenceInv'
    BY <1>1, StreamStep DEF FenceInv
<1>2. CASE UNCHANGED <<finalTs, fence, at, last, seenClock, idle>>
           /\ (rpc' = rpc \/ rpc' \notin {"drain", "check", "done"})
    BY <1>1, <1>2, StreamStep DEF FenceInv, DrainOver
<1>3. CASE Write \/ Tick \/ Trim \/ LoadToken \/ OpenFails \/ Disconnect \/ Start
           \/ UNCHANGED vars
    BY <1>2, <1>3 DEF Write, Tick, Trim, LoadToken, OpenFails, Disconnect, Start, vars,
                      cursor, request
<1>4. CASE OpenFirst \/ Open
    BY <1>1, <1>4 DEF OpenFirst, Open, request
<1>5. CASE PersistorStep
  <2>1. UNCHANGED <<rpc, cursor, request>>
    BY <1>5 DEF PersistorStep, Receive, Insert, SkipToken, TakeCounts, ReplaceToken
  <2> QED
    BY <1>2, <2>1 DEF cursor, request
<1>6. CASE ReadSome
    BY <1>1, <1>6 DEF ReadSome, Poll, request
<1>7. CASE Draining
  <2>1. /\ UNCHANGED request
        /\ rpc' \in {"drain", "check", "done"} => rpc \in {"drain", "check", "done"} \/ fence # None
    BY <1>7 DEF Draining, EnterDrain, Close, PollAgain
  <2>2. rpc' = "done" => DrainOver'
    BY <1>7, StreamStep DEF Draining, EnterDrain, Close, PollAgain, DrainOver, cursor, request
  <2> QED
    BY <1>1, <2>1, <2>2 DEF request
<1>8. CASE FetchFinalTs
  <2>1. /\ UNCHANGED <<kind, fence, rpc, stream>> /\ finalTs = None /\ finalTs' \in Time
        /\ stopped'
        /\ finalTs' \in Nat
        /\ finalTs' >= clock
        /\ kind # "documentDB" => finalTs' > clock
    BY <1>0, <1>8, SizeAssumption DEF FetchFinalTs, Time
  <2>2. fence = None
    BY <2>1 DEF FenceInv
  <2>3. \A i \in 1..Len(stream) :
            stream[i] <= finalTs' /\ (kind # "documentDB" => stream[i] < finalTs')
    BY <1>0, <2>1 DEF ClockInv
  <2> QED
    BY <2>1, <2>2, <2>3 DEF FenceInv
<1>9. CASE SetWritesOff
  <2>1. UNCHANGED <<kind, rpc, stream, stopped, finalTs>> /\ fence = None /\ fence' = finalTs /\ finalTs # None
    BY <1>9 DEF SetWritesOff, cluster
  <2> QED
    BY <2>1 DEF FenceInv
<1>10. CASE Crash
    BY <1>10 DEF Crash, FenceInv
<1> QED
    BY <1>3, <1>4, <1>5, <1>6, <1>7, <1>8, <1>9, <1>10 DEF Next, Opening

LEMMA StepIdle ==
    ASSUME TypeOK, FenceInv, IdleInv, [Next]_vars
    PROVE  IdleInv'
<1> DEFINE Over == rpc \in {"drain", "check", "done"}
<1>0. idle \in Nat /\ lull \in Nat /\ pos \in Nat /\ Len(stream) \in Nat
    BY SizeAssumption DEF TypeOK, Pos
<1>1. CASE UNCHANGED <<kind, stream, cursor>> /\ (Over' => Over)
    BY <1>1 DEF IdleInv, cursor
<1>2. CASE Write
    BY <1>2 DEF Write, FenceInv, IdleInv
<1>3. CASE Tick \/ Trim \/ FetchFinalTs \/ SetWritesOff \/ LoadToken \/ OpenFails
           \/ PollAgain \/ Close \/ Disconnect \/ Start \/ UNCHANGED vars
    BY <1>1, <1>3 DEF Tick, Trim, FetchFinalTs, SetWritesOff, LoadToken, OpenFails,
                      PollAgain, Close, Disconnect, Start, vars, cluster
<1>4. CASE PersistorStep
    BY <1>1, <1>4 DEF PersistorStep, Receive, Insert, SkipToken, TakeCounts, ReplaceToken,
                      cluster
<1>5. CASE OpenFirst \/ Open \/ Crash
    BY <1>5 DEF OpenFirst, Open, Crash, IdleInv
<1>6. CASE EnterDrain
    BY <1>0, <1>6 DEF EnterDrain, IdleInv
<1>7. CASE ReadSome
  <2>1. PICK p \in pos..Len(stream), t \in Time, now \in Time : Poll(p, t, now)
    BY <1>7 DEF ReadSome
  <2>2. UNCHANGED stream /\ pos' = p
    BY <2>1 DEF Poll, cluster
  <2>3. CASE idle' = 0
    <3>1. lull' \in Nat
        BY <2>1, <1>0 DEF Poll
    <3> QED
        BY <2>3, <3>1 DEF IdleInv
  <2>4. CASE idle' # 0
    <3>1. rpc = "drain" /\ p = pos /\ kind = "documentDB" /\ idle' <= idle + 1 /\ idle' \in Nat
        BY <2>1, <2>4, <1>0, SizeAssumption DEF Poll
    <3>2. pos < Len(stream) => lull' = lull + 1
        BY <2>1, <3>1 DEF Poll
    <3> QED
        BY <1>0, <2>2, <3>1, <3>2 DEF IdleInv
  <2> QED
    BY <2>3, <2>4
<1> QED
    BY <1>2, <1>3, <1>4, <1>5, <1>6, <1>7 DEF Next, Opening, Draining

LEMMA StepLast ==
    ASSUME TypeOK, DeliveryInv, ClockInv, LastInv, [Next]_vars
    PROVE  LastInv'
<1>0. /\ clock \in Nat /\ last \in Nat /\ first \in Nat /\ Len(stream) \in Nat
      /\ \A i \in 1..Len(stream) : stream[i] \in Nat
    BY SizeAssumption DEF TypeOK, Time, Pos
<1>1. \A i : Sent(i, Len(chan)) /\ ~Crash => Sent(i, Len(chan))'
    BY SentStep
<1>2. CASE UNCHANGED <<last, first>> /\ ~Crash
  <2> SUFFICES ASSUME kind # "changeStream", NEW i \in 1..Len(stream'), i > first, Past(i)'
               PROVE  Sent(i, Len(chan))'
    BY <1>2, StreamStep DEF LastInv
  <2>1. CASE i \in 1..Len(stream) /\ stream'[i] = stream[i]
    <3>1. i > 1 => stream'[i - 1] = stream[i - 1]
        <4>1. i > 1 => i - 1 \in 1..Len(stream)
            BY <1>0, <2>1
        <4> QED
            BY <4>1, StreamStep
    <3>2. Past(i)
        BY <1>2, <2>1, <3>1, StreamStep DEF Past
    <3> QED
        BY <1>1, <1>2, <2>1, <3>2 DEF LastInv
  <2>2. CASE stream'[i] >= clock /\ (stream'[i] = clock => i > 1 /\ stream'[i - 1] = clock)
    <3>1. stream'[i] \in Nat
        <4>1. stream' \in Seq(Time)
            BY StepType DEF TypeOK
        <4>2. stream'[i] \in Time
            BY <4>1
        <4> QED
            BY <4>2, SizeAssumption DEF Time
    <3>2. last <= clock /\ last' = last
        BY <1>2 DEF ClockInv
    <3>3. stream'[i] = clock => last = clock
        BY <1>0, <2>2, <3>1, <3>2 DEF Past
    <3> QED
        BY <1>0, <2>2, <3>1, <3>2, <3>3 DEF Past
  <2> QED
    BY <2>1, <2>2, StreamStep
<1>3. CASE ReadSome
  <2>1. PICK p \in pos..Len(stream), t \in Time, now \in Time : Poll(p, t, now)
    BY <1>3 DEF ReadSome
  <2>2. /\ UNCHANGED <<kind, stream, clock, first>> /\ pos' = p /\ rpc' \in Reading
        /\ ~Crash
    BY <2>1 DEF Poll, cluster, history, Reading, Crash
  <2>3. pos \in Nat /\ p \in Nat
    BY SizeAssumption DEF TypeOK, Pos
  <2>4. \A i \in (first + 1)..p : Sent(i, Len(chan))'
    BY <2>1, <2>2, PollDelivery DEF DeliveryInv, PositionInv
  <2> SUFFICES ASSUME kind # "changeStream", NEW i \in 1..Len(stream), i > first, Past(i)'
               PROVE  Sent(i, Len(chan))'
    BY <2>2 DEF LastInv
  <2>5. CASE i <= p
    BY <1>0, <2>3, <2>4, <2>5
  <2>6. CASE i > p
    <3>1. CASE kind = "oplog"
        <4>1. last' = t /\ t \in Reached(p)
            BY <2>1, <3>1 DEF Poll, TokenTimes
        <4>2. i \in (p + 1)..Len(stream) /\ t \in Nat
            BY <1>0, <2>3, <2>6, SizeAssumption DEF Time
        <4> QED
            BY <1>0, <2>2, <3>1, <4>1, <4>2 DEF Reached, Past
    <3>2. CASE kind = "documentDB"
        <4>1. ~Late(p)
            BY <1>0, <2>3, <2>6 DEF Late
        <4>2. CASE last' = last
            BY <1>1, <2>2, <4>2 DEF LastInv, Past
        <4>3. CASE p > pos /\ last' = stream[p]
            <5>1. p \in 1..Len(stream) /\ p < i /\ i > 1 /\ i - 1 \in 1..Len(stream)
                BY <1>0, <2>3, <2>6, <4>3
            <5>2. stream[p] <= stream[i]
                BY <5>1 DEF ClockInv
            <5>3. stream[p] <= stream[i - 1] /\ stream[i - 1] <= stream[i]
                <6>1. p = i - 1 \/ p < i - 1
                    BY <1>0, <2>3, <5>1
                <6>2. i - 1 < i
                    BY <1>0
                <6>3. stream[i - 1] <= stream[i]
                    BY <5>1, <6>2 DEF ClockInv
                <6>4. p < i - 1 => stream[p] <= stream[i - 1]
                    BY <5>1 DEF ClockInv
                <6>5. p = i - 1 => stream[p] <= stream[i - 1]
                    BY <1>0, <5>1
                <6> QED
                    BY <6>1, <6>3, <6>4, <6>5
            <5>4. stream[i] = last' /\ ~(stream[i - 1] = last')
                BY <1>0, <2>2, <4>3, <5>1, <5>2 DEF Past
            <5> QED
                BY <1>0, <4>3, <5>1, <5>3, <5>4
        <4> QED
            BY <2>1, <3>2, <4>1, <4>2, <4>3 DEF Poll, Larger
    <3> QED
        BY <3>1, <3>2, ThreeKinds
  <2> QED
    BY <2>3, <2>5, <2>6
<1>4. CASE OpenFirst
    BY <1>0, <1>4 DEF OpenFirst, cluster, LastInv
<1>5. CASE Crash
  <2>1. last' = 0 /\ UNCHANGED stream
    BY <1>5 DEF Crash, cluster
  <2>2. \A i \in 1..Len(stream) : stream[i] >= 1 /\ stream[i] \in Nat
    BY <1>0 DEF ClockInv
  <2> QED
    BY <1>0, <2>1, <2>2 DEF LastInv, Past
<1>6. CASE ~Crash /\ (Write \/ Tick \/ Trim \/ FetchFinalTs \/ SetWritesOff \/ LoadToken
           \/ Open \/ OpenFails \/ Draining \/ Disconnect \/ PersistorStep \/ Start
           \/ UNCHANGED vars)
  <2>1. UNCHANGED <<last, first>>
    BY <1>6 DEF Write, Tick, Trim, FetchFinalTs, SetWritesOff, LoadToken, Open, OpenFails,
        Draining, EnterDrain, Close, PollAgain, Disconnect, PersistorStep, Receive, Insert,
        SkipToken, TakeCounts, ReplaceToken, Start, vars, cursor, history
  <2> QED
    BY <1>2, <1>6, <2>1
<1> QED
    BY <1>3, <1>4, <1>5, <1>6 DEF Next, Opening

Inv == TypeOK /\ DeliveryInv /\ ClockInv /\ TokenTimeInv /\ FenceInv /\ IdleInv /\ LastInv

LEMMA InitInv == Init => Inv
BY InitType, InitDelivery DEF Inv, Init, ClockInv, TokenTimeInv, FenceInv, IdleInv, LastInv, Reading

LEMMA StepInv == Inv /\ [Next]_vars => Inv'
BY StepType, StepDelivery, StepClock, StepTokenTime, StepFence, StepIdle, StepLast DEF Inv

LEMMA InvFence == Inv => FenceDelivered
<1> SUFFICES ASSUME Inv, HandlingDone, NEW i \in (first + 1)..Len(stream), Due(i)
             PROVE  i \in Delivered
    BY DEF FenceDelivered
<1> USE DEF Inv
<1>0. /\ i \in 1..Len(stream) /\ i > first /\ first \in Nat /\ pos \in Nat
      /\ stream[i] \in Nat /\ last \in Nat /\ at \in Nat
      /\ idle \in Nat /\ lull \in Nat /\ lull <= MaxLull
      /\ stream[i] <= fence
    BY SizeAssumption DEF TypeOK, Time, Pos, Due
<1>1. rpc = "done" /\ chan = <<>> /\ ppc = "wait" /\ pending = {}
    BY DEF HandlingDone, DeliveryInv, PersistorInv
<1>2. Sent(i, Len(chan)) => i \in Delivered
    BY <1>1 DEF Sent
<1>3. i <= pos => Sent(i, Len(chan))
    BY <1>0, <1>1 DEF DeliveryInv, PositionInv
<1>4. /\ fence = finalTs /\ finalTs # None /\ fence \in Nat
      /\ kind # "documentDB" => stream[i] < fence
      /\ DrainOver
    BY <1>0, <1>1, SizeAssumption DEF FenceInv, TypeOK, Time
<1>5. CASE kind = "changeStream"
    <2>1. at >= fence /\ (i > pos => at <= stream[i])
        BY <1>0, <1>1, <1>4, <1>5 DEF DrainOver, TokenTimeInv, NoneBefore
    <2> QED
        BY <1>0, <1>2, <1>3, <1>4, <1>5, <2>1
<1>6. CASE kind = "oplog"
    <2>1. last >= fence
        BY <1>4, <1>6 DEF DrainOver
    <2>2. Past(i)
        BY <1>0, <1>4, <1>6, <2>1 DEF Past
    <2> QED
        BY <1>0, <1>2, <1>6, <2>2 DEF LastInv
<1>7. CASE kind = "documentDB"
    <2>1. CASE last >= fence
        <3>1. Past(i)
            BY <1>0, <1>4, <1>7, <2>1 DEF Past, Due
        <3> QED
            BY <1>0, <1>2, <1>7, <3>1 DEF LastInv
    <2>2. CASE idle >= IdlePolls
        <3>1. ~(pos < Len(stream))
            BY <1>0, <1>1, <1>7, <2>2, SizeAssumption, LullAssumption DEF IdleInv
        <3> QED
            BY <1>0, <1>2, <1>3, <3>1
    <2> QED
        BY <1>4, <1>7, <2>1, <2>2 DEF DrainOver
<1> QED
    BY <1>5, <1>6, <1>7, ThreeKinds

(* When change handling has ended, every event up to the writes-off timestamp  *)
(* is accounted for: its recheck is stored or, with an oplog, the event was gone *)
(* when the reader opened it again.  DocumentDB's drain is only sure of the      *)
(* first event that has this very timestamp, and rests on LullAssumption.        *)
THEOREM NothingLeft == Spec => []FenceDelivered
BY InitInv, StepInv, InvFence, PTL DEF Spec

-----------------------------------------------------------------------------
(* The abstract specification: each step keeps the ledger or leaves it alone. *)

\* No position is ahead of the stream.
WithinInv ==
    /\ first <= Len(stream) /\ pos <= Len(stream) /\ oldest <= Len(stream)
    /\ handled \cup pending \cup skipped \subseteq 1..Len(stream)
    /\ tokenDoc # None => tokenDoc.pos <= Len(stream)
    /\ rpc = "open" => loaded.pos <= Len(stream)
    /\ ppc # "wait" => batch.upTo <= Len(stream)
    /\ \A k \in 1..Len(chan) : chan[k].upTo <= Len(stream)

LEMMA InitWithin == Init => WithinInv
BY DEF Init, WithinInv

LEMMA StepWithin == TypeOK /\ DeliveryInv /\ WithinInv /\ [Next]_vars => WithinInv'
<1> SUFFICES ASSUME TypeOK, DeliveryInv, WithinInv, [Next]_vars PROVE WithinInv'
    OBVIOUS
<1> USE NoneAssumption DEF WithinInv
<1>0. /\ Len(stream) \in Nat /\ Len(chan) \in Nat /\ chan \in Seq(Batch)
      /\ first \in Nat /\ pos \in Nat /\ oldest \in Nat
    BY SizeAssumption DEF TypeOK, Pos
<1>1. CASE Write
  <2>1. PICK t \in Time : stream' = Append(stream, t)
    BY <1>1 DEF Write
  <2>2. Len(stream') = Len(stream) + 1
    BY <2>1 DEF TypeOK
  <2>3. /\ tokenDoc # None => tokenDoc.pos \in Nat
        /\ rpc = "open" => loaded.pos \in Nat
        /\ ppc # "wait" => batch.upTo \in Nat
        /\ \A k \in 1..Len(chan) : chan[k].upTo \in Nat
    <3>1. /\ tokenDoc # None => tokenDoc \in Token
          /\ rpc = "open" => loaded \in Token
          /\ ppc # "wait" => batch \in Batch
        BY DEF TypeOK
    <3>2. \A k \in 1..Len(chan) : chan[k] \in Batch
        BY <1>0
    <3>3. /\ \A u \in Token : u.pos \in Nat
          /\ \A b \in Batch : b.upTo \in Nat
        BY SizeAssumption DEF Token, Batch, Pos
    <3> HIDE DEF WithinInv
    <3> QED
        BY <3>1, <3>2, <3>3
  <2> QED
    <3>1. UNCHANGED <<oldest, handled, tokenDoc, rpc, loaded, pos, chan, ppc, batch, pending,
                      first, skipped>>
        BY <1>1 DEF Write, durable, cursor, persistor, history
    <3>2. handled' \cup pending' \cup skipped' \subseteq 1..Len(stream')
        BY <1>0, <2>2, <3>1
    <3>3. /\ tokenDoc # None => tokenDoc.pos <= Len(stream')
          /\ rpc = "open" => loaded.pos <= Len(stream')
          /\ ppc # "wait" => batch.upTo <= Len(stream')
          /\ \A k \in 1..Len(chan) : chan[k].upTo <= Len(stream')
        BY <1>0, <2>2, <2>3
    <3>4. first <= Len(stream') /\ pos <= Len(stream') /\ oldest <= Len(stream')
        BY <1>0, <2>2
    <3> QED
        BY <3>1, <3>2, <3>3, <3>4
<1>2. CASE Tick \/ FetchFinalTs \/ SetWritesOff \/ OpenFails \/ Draining \/ Disconnect
           \/ TakeCounts \/ Start \/ UNCHANGED vars
    BY <1>2 DEF Tick, FetchFinalTs, SetWritesOff, OpenFails, Draining, EnterDrain, Close,
        PollAgain, Disconnect, TakeCounts, Start, vars, cluster, durable, cursor, persistor,
        history
<1>3. CASE OpenFirst
    BY <1>0, <1>3 DEF OpenFirst, cluster, persistor
<1>4. CASE LoadToken
    BY <1>4 DEF LoadToken, cluster, durable, cursor, persistor, history
<1>5. CASE Trim
    BY <1>0, <1>5 DEF Trim, durable, cursor, persistor, history
<1>6. CASE Open
  <2>1. /\ UNCHANGED <<stream, oldest, handled, tokenDoc, chan, ppc, batch, pending, first>>
        /\ rpc = "open" /\ rpc' = "read"
        /\ pos' = Larger(loaded.pos, oldest)
        /\ skipped' = skipped \cup (loaded.pos + 1)..pos'
    BY <1>6 DEF Open, cluster, durable, persistor
  <2>2. loaded.pos \in Nat /\ loaded.pos <= Len(stream)
    BY <2>1, SizeAssumption DEF TypeOK, Token, Pos
  <2>3. pos' \in Nat /\ pos' <= Len(stream)
    BY <1>0, <2>1, <2>2 DEF Larger
  <2>4. skipped' \subseteq 1..Len(stream)
    BY <1>0, <2>1, <2>2, <2>3
  <2> QED
    BY <2>1, <2>3, <2>4
<1>7. CASE ReadSome
  <2>1. PICK p \in pos..Len(stream), t \in Time, now \in Time : Poll(p, t, now)
    BY <1>7 DEF ReadSome
  <2> DEFINE b == [from |-> pos, upTo |-> p, at |-> t]
  <2>2. chan' = Append(chan, b) /\ pos' = p /\ b.upTo = p
    BY <2>1 DEF Poll
  <2>3. p \in Nat /\ p <= Len(stream) /\ b \in Batch
    BY <1>0, <2>1, SizeAssumption DEF Batch, Pos, TypeOK
  <2> HIDE DEF b
  <2>4. \A k \in 1..Len(chan') : chan'[k] = b \/ (k \in 1..Len(chan) /\ chan'[k] = chan[k])
    BY <1>0, <2>2, <2>3
  <2> QED
    BY <1>0, <2>1, <2>2, <2>3, <2>4 DEF Poll, cluster, durable, persistor, history
<1>8. CASE Receive
  <2>1. /\ batch' = Head(chan) /\ chan' = Tail(chan) /\ chan # <<>>
        /\ pending' = (batch'.from + 1)..batch'.upTo
    BY <1>8 DEF Receive
  <2>2. /\ Len(chan) >= 1 /\ Head(chan) = chan[1] /\ chan[1] \in Batch
        /\ \A k \in 1..Len(chan') : k + 1 \in 1..Len(chan) /\ chan'[k] = chan[k + 1]
    BY <1>0, <2>1
  <2>3. batch'.from \in Nat /\ batch'.upTo \in Nat /\ batch'.upTo <= Len(stream)
    BY <1>0, <2>1, <2>2, SizeAssumption DEF Batch, Pos
  <2>4. pending' \subseteq 1..Len(stream)
    BY <1>0, <2>1, <2>3
  <2> QED
    BY <1>8, <2>2, <2>3, <2>4 DEF Receive, cluster, durable, cursor, history
<1>9. CASE \E i \in Index : Insert(i)
    BY <1>9 DEF Insert, cluster, cursor, history
<1>10. CASE SkipToken \/ ReplaceToken
    BY <1>10 DEF SkipToken, ReplaceToken, cluster, durable, cursor, history
<1>11. CASE Crash
    BY <1>0, <1>11 DEF Crash, cluster, durable
<1> QED
    BY <1>1, <1>2, <1>3, <1>4, <1>5, <1>6, <1>7, <1>8, <1>9, <1>10, <1>11
       DEF Next, Opening, PersistorStep

LEMMA LedgerInit == Init => Ledger!Init
BY DEF Init, Ledger!Init, HandlingDone, Delivered

(* Most steps store nothing, move no token and do not end change handling. *)
LEMMA LedgerFrame ==
    ASSUME UNCHANGED <<kind, stream, handled, skipped, first, tokenDoc, fence>>,
           HandlingDone' <=> HandlingDone
    PROVE  UNCHANGED Ledger!vars
<1>1. Delivered' = Delivered /\ \A i : fence # None => (Due(i)' <=> Due(i))
    BY DEF Delivered, Due
<1>2. {i \in 1..Len(stream') : fence' # None /\ Due(i)'} = {i \in 1..Len(stream) : fence # None /\ Due(i)}
    BY <1>1
<1>3. HandlingDone' = HandlingDone
    BY DEF HandlingDone
<1> QED
    BY <1>1, <1>2, <1>3 DEF Ledger!vars

(* What change handling has left to do when it ends. *)
LEMMA LedgerFinish ==
    ASSUME Inv', WithinInv', FenceDelivered', ~HandlingDone, HandlingDone', first \in Nat,
           UNCHANGED <<kind, stream, handled, skipped, first, fence>>,
           LET t == IF tokenDoc = None THEN None ELSE tokenDoc.pos
           IN  t' = t \/ Ledger!Covers(t')
    PROVE  Ledger!Finish
<1>1. fence # None
    BY DEF Inv, FenceInv, HandlingDone
<1>0. Delivered' = Delivered /\ \A i : Due(i)' <=> Due(i)
    BY DEF Delivered, Due
<1>2. \A i \in 1..Len(stream) : Due(i) => i \in Delivered \cup 1..first
  <2> TAKE i \in 1..Len(stream)
  <2>1. CASE i <= first
    BY <2>1
  <2>2. CASE ~(i <= first)
    <3>1. i \in (first + 1)..Len(stream)
        BY <2>2
    <3> QED
        BY <1>0, <3>1 DEF FenceDelivered
  <2> QED
    BY <2>1, <2>2
<1> QED
    BY <1>0, <1>1, <1>2 DEF Ledger!Finish

(* What a token covers is stored, and so is what the next one will cover. *)
LEMMA LedgerCovers ==
    ASSUME TypeOK, DeliveryInv, WithinInv
    PROVE  /\ tokenDoc # None => Ledger!Covers(tokenDoc.pos)
           /\ ppc = "persist" => Ledger!Covers(batch.upTo)
<1>0. first \in Nat /\ Len(stream) \in Nat
    BY SizeAssumption DEF TypeOK, Pos
<1>1. ASSUME NEW p \in Nat, p <= Len(stream), \A i \in (first + 1)..p : i \in Delivered
      PROVE  Ledger!Covers(p)
  <2>1. \A i \in 1..p : i \in Delivered \cup 1..first
    <3> TAKE i \in 1..p
    <3>1. i <= first \/ i \in (first + 1)..p
        BY <1>0
    <3> QED
        BY <1>0, <1>1, <3>1
  <2> QED
    BY <1>0, <1>1, <2>1 DEF Ledger!Covers
<1>2. ASSUME tokenDoc # None PROVE Ledger!Covers(tokenDoc.pos)
  <2>1. tokenDoc.pos \in Nat
    BY <1>2, SizeAssumption DEF TypeOK, Token, Pos
  <2> QED
    BY <1>1, <1>2, <2>1 DEF DeliveryInv, StoredInv, WithinInv
<1>3. ASSUME ppc = "persist" PROVE Ledger!Covers(batch.upTo)
  <2>1. batch.upTo \in Nat
    BY <1>3, SizeAssumption DEF TypeOK, Batch, Pos
  <2>2. \A i \in (first + 1)..batch.upTo : i \in Delivered
    BY <1>3 DEF DeliveryInv, PersistorInv, Sent
  <2> QED
    BY <1>1, <1>3, <2>1, <2>2 DEF WithinInv
<1> QED
    BY <1>2, <1>3

LEMMA LedgerStep ==
    ASSUME Inv, WithinInv, Inv', WithinInv', FenceDelivered', [Next]_vars
    PROVE  [Ledger!Next]_Ledger!vars
<1> USE NoneAssumption
<1>0. /\ TypeOK /\ DeliveryInv /\ Len(stream) \in Nat /\ Len(stream') \in Nat
      /\ first \in Nat /\ first <= Len(stream)
  <2>1. TypeOK /\ TypeOK' /\ DeliveryInv /\ first <= Len(stream)
    BY DEF Inv, WithinInv
  <2>2. stream \in Seq(Time) /\ stream' \in Seq(Time) /\ first \in Pos
    BY <2>1 DEF TypeOK
  <2> QED
    BY <2>1, <2>2, SizeAssumption DEF Pos
<1>1. CASE Write
  <2>1. Len(stream') = Len(stream) + 1 /\ fence = None
    BY <1>1 DEF Write, Inv, TypeOK, FenceInv
  <2> QED
    BY <1>0, <1>1, <2>1 DEF Write, durable, request, history, persistor, HandlingDone,
                            Delivered, Ledger!Next, Ledger!Happen
<1>2. CASE \/ Tick \/ Trim \/ FetchFinalTs \/ LoadToken \/ OpenFails \/ ReadSome
           \/ EnterDrain \/ PollAgain \/ Disconnect \/ Receive \/ TakeCounts \/ Start
           \/ UNCHANGED vars
  <2>1. UNCHANGED <<kind, stream, handled, skipped, first, tokenDoc, fence>>
    BY <1>2 DEF Tick, Trim, FetchFinalTs, LoadToken, OpenFails, ReadSome, Poll,
        EnterDrain, PollAgain, Disconnect, Receive, TakeCounts, Start, vars, cluster, durable,
        request, history
  <2>2. HandlingDone' <=> HandlingDone
    BY <1>2 DEF Tick, Trim, FetchFinalTs, LoadToken, OpenFails, ReadSome, Poll,
        EnterDrain, PollAgain, Disconnect, Receive, TakeCounts, Start, vars, persistor,
        HandlingDone, Reading
  <2> QED
    BY <2>1, <2>2, LedgerFrame
<1>3. CASE SetWritesOff
  <2>1. ~HandlingDone /\ ~HandlingDone'
    BY <1>3 DEF SetWritesOff, HandlingDone, persistor, Inv, FenceInv
  <2>2. /\ fence = None /\ fence' # None
        /\ UNCHANGED <<kind, stream, handled, skipped, first, tokenDoc>>
    BY <1>3 DEF SetWritesOff, cluster, durable, history
  <2>3. {i \in 1..Len(stream') : fence' # None /\ Due(i)'} \subseteq 1..Len(stream)
    BY <2>2
  <2>4. Delivered' = Delivered
    BY <2>2 DEF Delivered
  <2>5. HandlingDone' = HandlingDone
    BY <2>1 DEF HandlingDone
  <2>6. Ledger!Ask
    BY <2>1, <2>2, <2>3, <2>5, <2>4 DEF Ledger!Ask
  <2> QED
    BY <2>6 DEF Ledger!Next
<1>4. CASE OpenFirst
  <2>1. /\ tokenDoc = None /\ tokenDoc' # None /\ tokenDoc'.pos = Len(stream)
        /\ first' = Len(stream) /\ UNCHANGED <<kind, stream, handled, skipped, fence>>
    <3>1. tokenDoc' = [pos |-> Len(stream), at |-> at', count |-> counts]
        BY <1>4 DEF OpenFirst
    <3>2. tokenDoc' \in Token \cup {None} /\ tokenDoc'.pos = Len(stream) /\ TypeOK'
        BY <3>1 DEF Inv, TypeOK
    <3>3. at' \in Time /\ counts \in Nat /\ Len(stream) \in Pos
        BY <1>0, <3>2, SizeAssumption DEF TypeOK, Pos
    <3>4. tokenDoc' \in Token
        BY <3>1, <3>3 DEF Token
    <3> QED
        BY <1>4, <3>2, <3>4 DEF OpenFirst, cluster, request
  <2>2. ~HandlingDone /\ ~HandlingDone'
    BY <1>4 DEF OpenFirst, HandlingDone
  <2>3. Delivered' = Delivered /\ \A i : fence # None => (Due(i)' <=> Due(i))
    BY <2>1 DEF Delivered, Due
  <2>4. Delivered' \cup 1..first' = (Delivered \cup 1..first) \cup 1..Len(stream)
    BY <1>0, <2>1, <2>3
  <2> QED
    BY <2>1, <2>2, <2>3, <2>4 DEF Ledger!Next, Ledger!Open, HandlingDone
<1>9. CASE Open
  <2>1. UNCHANGED <<kind, stream, handled, first, tokenDoc, fence>> /\ skipped \subseteq skipped'
    BY <1>9 DEF Open, cluster, durable, request
  <2>2. ~HandlingDone /\ HandlingDone' = HandlingDone
    BY <1>9 DEF Open, HandlingDone
  <2>3. Delivered \subseteq Delivered' /\ \A i : Due(i)' <=> Due(i)
    BY <2>1 DEF Delivered, Due
  <2>4. Delivered' \cup 1..first \subseteq 1..Len(stream)
    BY <1>0, <2>1 DEF Delivered, WithinInv
  <2>5. Ledger!Store
    BY <2>1, <2>2, <2>3, <2>4 DEF Ledger!Store
  <2> QED
    BY <2>5 DEF Ledger!Next
<1>5. CASE Close \/ SkipToken
  <2>1. /\ UNCHANGED <<kind, stream, handled, skipped, first, tokenDoc, fence>>
        /\ HandlingDone => HandlingDone'
    BY <1>5 DEF Close, SkipToken, cluster, durable, request, history, HandlingDone
  <2>2. CASE HandlingDone' /\ ~HandlingDone
    BY <1>0, <2>1, <2>2, LedgerFinish DEF Ledger!Next
  <2> QED
    BY <2>1, <2>2, LedgerFrame
<1>6. CASE \E i \in Index : Insert(i)
  <2>1. PICK i \in Index : Insert(i)
    BY <1>6
  <2>2. ~HandlingDone /\ ~HandlingDone'
    BY <2>1 DEF Insert, HandlingDone
  <2>3. /\ UNCHANGED <<kind, stream, skipped, first, tokenDoc, fence>>
        /\ handled \subseteq handled'
    BY <2>1 DEF Insert, cluster, request, history
  <2>4. Delivered' \cup 1..first \subseteq 1..Len(stream)
    BY <1>0, <2>1, <2>3 DEF Insert, Delivered, WithinInv
  <2>5. Delivered \subseteq Delivered' /\ \A e : Due(e)' <=> Due(e)
    BY <2>3 DEF Delivered, Due
  <2>6. HandlingDone' = HandlingDone
    BY <2>2 DEF HandlingDone
  <2>7. Ledger!Store
    BY <2>2, <2>4, <2>3, <2>6, <2>5 DEF Ledger!Store
  <2> QED
    BY <2>7 DEF Ledger!Next
<1>7. CASE ReplaceToken
  <2>1. /\ Ledger!Covers(batch.upTo) /\ ~HandlingDone
        /\ tokenDoc # None /\ tokenDoc' # None /\ tokenDoc'.pos = batch.upTo
        /\ UNCHANGED <<kind, stream, handled, skipped, first, fence>>
    <3>1. /\ ppc = "persist" /\ UNCHANGED <<kind, stream, handled, skipped, first, fence>>
          /\ tokenDoc' = [pos |-> batch.upTo, at |-> batch.at, count |-> saved]
        BY <1>7 DEF ReplaceToken, cluster, request, history
    <3>2. batch \in Batch /\ saved \in Nat
        BY <1>0, <3>1 DEF TypeOK
    <3>3. tokenDoc' \in Token /\ tokenDoc'.pos = batch.upTo
        BY <3>1, <3>2 DEF Token, Batch
    <3>4. tokenDoc # None /\ ~HandlingDone
        BY <1>0, <3>1 DEF DeliveryInv, VirginInv, HandlingDone
    <3> QED
        BY <1>0, <3>1, <3>3, <3>4, LedgerCovers
  <2>2. CASE HandlingDone'
    BY <1>0, <2>1, <2>2, LedgerFinish DEF Ledger!Next
  <2>3. CASE ~HandlingDone'
    <3>1. HandlingDone' = HandlingDone
        BY <2>1, <2>3 DEF HandlingDone
    <3>2. tokenDoc.pos # None
        BY <1>0, <2>1, SizeAssumption DEF TypeOK, Token, Pos
    <3>4. Delivered' = Delivered /\ \A i : Due(i)' <=> Due(i)
        BY <2>1 DEF Delivered, Due
    <3>3. Ledger!Persist
        BY <2>1, <3>1, <3>2, <3>4 DEF Ledger!Persist
    <3> QED
        BY <3>3 DEF Ledger!Next
  <2> QED
    BY <2>2, <2>3
<1>8. CASE Crash
  <2>1. /\ UNCHANGED <<kind, stream, handled, skipped, first, tokenDoc>>
        /\ fence' = None /\ ~HandlingDone'
    BY <1>8 DEF Crash, cluster, durable, HandlingDone
  <2>2. Delivered' = Delivered
    BY <2>1 DEF Delivered
  <2>3. WithinInv
    OBVIOUS
  <2> QED
    BY <1>0, <2>1, <2>2, <2>3, LedgerCovers DEF Ledger!Next, Ledger!Crash, Ledger!Covers
<1> QED
    BY <1>1, <1>2, <1>3, <1>4, <1>5, <1>6, <1>7, <1>8, <1>9
       DEF Next, Opening, Draining, PersistorStep

(* Reader and persistor keep the ledger, whatever reconnects and crashes do to  *)
(* the batches in their channel: they implement ChangeLedger, where an event that *)
(* an oplog reader passes over is accounted for when the stream opens again.     *)
THEOREM StreamLedgerKept == Spec => LedgerKept
<1>1. Init => Inv /\ WithinInv /\ Ledger!Init
    BY InitInv, InitWithin, LedgerInit
<1>2. Inv /\ WithinInv /\ [Next]_vars => Inv' /\ WithinInv'
    BY StepInv, StepWithin DEF Inv
<1>3. Inv => FenceDelivered
    BY InvFence
<1>4. Inv /\ WithinInv /\ Inv' /\ WithinInv' /\ FenceDelivered' /\ [Next]_vars
          => [Ledger!Next]_Ledger!vars
    BY LedgerStep
<1> QED
    BY <1>1, <1>2, <1>3, <1>4, PTL DEF Spec, LedgerKept, Ledger!Spec

=============================================================================
