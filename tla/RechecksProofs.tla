--------------------------- MODULE RechecksProofs ---------------------------
(***************************************************************************)
(* No row of the recheck queue is lost, no document is split, and a        *)
(* mismatch has the age that it should, for any number of documents, rows, *)
(* generations and failures.                                               *)
(*                                                                         *)
(* The argument follows the tasks from the accumulators through the buffer *)
(* and the insertions to the collection.  What never changes of a task is  *)
(* its entry; the entries of the current attempt cover the rows that were  *)
(* read, unless an insertion has failed.  What an attempt that failed has  *)
(* left behind are entries too, of an earlier attempt.                     *)
(***************************************************************************)
EXTENDS Rechecks, SequenceTheorems, WellFoundedInduction, TLAPS

-----------------------------------------------------------------------------
\* The inductive invariant.

Numbered == [n : Nat, task : Task]

\* What never changes of a task.
Entry(n, t) ==
    [n |-> n, ids |-> t.ids, first |-> t.first, latest |-> t.latest, attempt |-> t.attempt]

OfList(list) == {Entry(list[i].n, list[i].task) : i \in DOMAIN list}
Saved == {Entry(n, tasks[n]) : n \in DOMAIN tasks}
Inserting == UNION {OfList(r.list) : r \in requests}
Entries == OfList(buffer) \union Inserting \union Saved

CreatorInv ==
    /\ creator # "reading" => ids = <<>> /\ first = <<>> /\ buffer = <<>> /\ unread = {}
    /\ creator \in {"added", "reading", "waiting"} => rows # {}
    /\ creator = "none" => rows = {}
    /\ ids = <<>> => buffer = <<>> /\ (creator = "reading" => unread = rows)
    /\ generation = 0 => creator = "none" /\ rows = {} /\ requests = {}

\* A task's number tells which one it is, also among those still to be stored.
NumbersInv ==
    generation > 0 =>
        /\ \A e \in Entries : e.n \in 1..made /\ e.attempt <= attempt
        /\ \A e, f \in Entries : e.n = f.n => e = f
        /\ \A e \in OfList(buffer) : e.attempt = attempt
        /\ \A r \in requests : \A e \in OfList(r.list) : e.attempt = r.attempt

\* The documents of the current attempt come in order: those of its tasks, those of the
\* accumulators, those of the rows to come.
AccumulatorsInv ==
    /\ \A i, j \in DOMAIN ids : i < j => ids[i] < ids[j]
    /\ \A i, j \in DOMAIN ids : Ns(ids[i]) = Ns(ids[j])
    /\ Len(ids) <= MaxIds
    /\ \A i \in DOMAIN ids : \A row \in unread : ids[i] <= row.doc
    /\ ids # <<>> => \A row \in rows \ unread : row.doc <= ids[Len(ids)]
    /\ creator = "reading" =>
           \A e \in Entries : e.attempt = attempt =>
               /\ ids # <<>>
               /\ \A i \in DOMAIN e.ids, j \in DOMAIN ids : e.ids[i] < ids[j]

EntryOk(e) ==
    /\ Len(e.ids) \in 1..MaxIds
    /\ \A i, j \in DOMAIN e.ids : Ns(e.ids[i]) = Ns(e.ids[j])
    /\ \A i, j \in DOMAIN e.ids : i < j => e.ids[i] < e.ids[j]

Apart(e, f) == \A i \in DOMAIN e.ids, j \in DOMAIN f.ids : e.ids[i] # f.ids[j]

EntriesInv ==
    generation > 0 =>
        /\ \A e \in Entries : EntryOk(e)
        /\ \A e, f \in Entries : e.attempt = f.attempt /\ e.n # f.n => Apart(e, f)

\* The documents and times, of an entry or of the accumulators, cover the row.
CoveredBy(list, times, row) ==
    /\ \E i \in DOMAIN list : list[i] = row.doc
    /\ row.origin \in Side => times[row.origin] >= row.time

PlacedInv ==
    /\ creator \in {"reading", "waiting"} /\ ~groupFailed =>
           \A row \in rows \ unread :
               \/ CoveredBy(ids, latest, row)
               \/ \E e \in Entries : e.attempt = attempt /\ CoveredBy(e.ids, e.latest, row)
    /\ creator = "completed" =>
           \A row \in rows : \E e \in Saved : CoveredBy(e.ids, e.latest, row)

\* f is an age that a mismatch of d may have in generation g.
AgeOk(d, f, g) ==
    /\ f \in 1..g + 1
    /\ \A h \in f - 1..g : <<d, h>> \in seen
    /\ \A h \in f..g : <<d, h>> \notin changed

HasChange(d, R) == \E row \in R : row.doc = d /\ row.origin \in Side

\* What the rows say of the past.
HistoryInv ==
    /\ \A d, g : <<d, g>> \in changed => g \in 1..generation + 1
    /\ \A d \in Doc : <<d, generation>> \in changed <=> HasChange(d, rows)
    /\ \A d \in Doc : <<d, generation + 1>> \in changed <=> HasChange(d, queue)
    /\ \A row \in queue : row.origin = "compare" => AgeOk(row.doc, row.time, generation)
    /\ \A row \in rows : row.origin = "compare" => AgeOk(row.doc, row.time, generation - 1)

\* A task has its documents' ages, and none for those that have changed.
EntryAge(d, f) ==
    /\ f # 0 => AgeOk(d, f, generation - 1) /\ <<d, generation>> \notin changed
    /\ f = 0 /\ generation > 0 => <<d, generation>> \in changed

EntryAges ==
    \A e \in Entries : /\ Len(e.first) = Len(e.ids)
                       /\ \A i \in DOMAIN e.ids : EntryAge(e.ids[i], e.first[i])

AccumulatorAges ==
    \A i \in DOMAIN ids :
        /\ first[i] # 0 => AgeOk(ids[i], first[i], generation - 1) /\ ~HasChange(ids[i], rows \ unread)
        /\ first[i] = 0 => <<ids[i], generation>> \in changed

\* A task has records only once it is over, unless clearing them failed.
RecordsInv ==
    /\ \A m \in mismatches : m.generation <= generation
    /\ \A m \in Counted(generation) :
           /\ m.task \in DOMAIN tasks
           /\ tasks[m.task].status = "added" => tasks[m.task].unclear

CreatingInv ==
    /\ CreatorInv /\ NumbersInv /\ AccumulatorsInv /\ EntriesInv /\ PlacedInv
    /\ EntryAges /\ AccumulatorAges

MismatchInv == RecordsInv /\ AgeSound /\ AgeKept /\ CountedOnce

Inv == TypeOK /\ CreatingInv /\ HistoryInv /\ MismatchInv

-----------------------------------------------------------------------------
\* Types.

LEMMA Numbers ==
    /\ Docs \in Nat /\ Docs >= 1 /\ FirstColl \in 1..Docs /\ MaxIds \in Nat /\ MaxIds >= 1
    /\ MaxGen \in Nat /\ MaxChanges \in Nat /\ MaxFailures \in Nat /\ Changing \subseteq Doc
    /\ Doc \subseteq Nat /\ \A d \in Doc : d \in Int
  BY ConstantsOk DEF ConstantsOk, Doc

LEMMA RowFields ==
    ASSUME NEW row \in Row
    PROVE  /\ row.doc \in Doc /\ row.doc \in Nat /\ row.time \in Nat
           /\ row.origin \in Side \/ row.origin = "compare"
           /\ FirstOf(row) \in Nat
           /\ \A l \in [Side -> Nat] : Newer(l, row) \in [Side -> Nat]
  <1>1. /\ row.doc \in Doc /\ row.doc \in Nat /\ row.time \in Nat
        /\ row.origin \in Side \/ row.origin = "compare"
    BY Numbers DEF Row
  <1> QED BY <1>1 DEF FirstOf, Newer

LEMMA NewTaskType ==
    ASSUME TypeOK
    PROVE  /\ NewTask(made + 1) \in Numbered
           /\ Append(buffer, NewTask(made + 1)) \in Seq(Numbered)
           /\ Request(Append(buffer, NewTask(made + 1))) \in [attempt : Nat, list : Seq(Numbered)]
           /\ NoTs \in [Side -> Nat]
  <1>1. NewTask(made + 1) \in Numbered
    BY DEF TypeOK, NewTask, Numbered, Task
  <1>2. buffer \in Seq(Numbered)
    BY DEF TypeOK, Numbered
  <1>3. Append(buffer, NewTask(made + 1)) \in Seq(Numbered)
    BY <1>1, <1>2, AppendProperties
  <1> QED BY <1>1, <1>3 DEF TypeOK, Request, NoTs

LEMMA TypeBegins ==
    ASSUME TypeOK, BeginAttempt, failures' \in 0..MaxFailures
    PROVE  TypeOK'
  <1> USE DEF records
  <1>1. ids' = <<>> /\ first' = <<>> /\ latest' \in [Side -> Nat]
    BY NewTaskType DEF BeginAttempt, NoAccumulators
  <1>2. attempt' \in Nat /\ buffer' = <<>> /\ creator' = "reading" /\ unread' = rows /\ groupFailed' = FALSE
    BY DEF TypeOK, BeginAttempt
  <1>3. UNCHANGED <<generation, ts, queue, rows, requests, made, tasks, mismatches, seen, changed>>
    BY DEF BeginAttempt
  <1>4. /\ ids' \in Seq(Doc) /\ first' \in Seq(Nat) /\ Len(first') = Len(ids')
        /\ buffer' \in Seq([n : Nat, task : Task])
    BY <1>1, <1>2
  <1> QED BY <1>1, <1>2, <1>3, <1>4 DEF TypeOK

LEMMA TypePersists ==
    ASSUME TypeOK, PersistBuffered
    PROVE  /\ buffer' \in Seq(Numbered)
           /\ requests' \subseteq [attempt : Nat, list : Seq(Numbered)]
           /\ made' \in Nat
  <1>1. requests \subseteq [attempt : Nat, list : Seq(Numbered)] /\ made \in Nat
    BY DEF TypeOK, Numbered
  <1>2. CASE buffer' = Append(buffer, NewTask(made + 1)) /\ UNCHANGED requests
    BY <1>1, <1>2, NewTaskType DEF PersistBuffered
  <1>3. CASE /\ buffer' = <<>>
             /\ requests' = requests \union {Request(Append(buffer, NewTask(made + 1)))}
    BY <1>1, <1>3, NewTaskType DEF PersistBuffered
  <1> QED BY <1>2, <1>3 DEF PersistBuffered

LEMMA TypeReads ==
    ASSUME TypeOK, NEW row \in unread,
           ReadSameDoc(row) \/ ReadNextDoc(row) \/ ReadForNextTask(row)
    PROVE  TypeOK'
  <1> USE DEF records
  <1>1. row \in Row /\ unread' \subseteq rows
    BY DEF TypeOK, Reads, ReadSameDoc, ReadNextDoc, ReadForNextTask
  <1>2. /\ ids \in Seq(Doc) /\ first \in Seq(Nat) /\ Len(first) = Len(ids)
        /\ latest \in [Side -> Nat] /\ Len(ids) \in Nat
    BY LenProperties DEF TypeOK
  <1>3. UNCHANGED <<generation, ts, queue, rows, creator, attempt, groupFailed, tasks, mismatches, seen, failures, changed>>
    BY DEF Reads, ReadSameDoc, ReadNextDoc, ReadForNextTask
  <1>4. /\ ids' \in Seq(Doc) /\ first' \in Seq(Nat) /\ Len(first') = Len(ids')
        /\ latest' \in [Side -> Nat]
    <2>1. CASE ReadSameDoc(row)
      <3>1. ids' = ids /\ latest' \in [Side -> Nat]
        BY <1>1, <1>2, <2>1, RowFields DEF ReadSameDoc
      <3>2. first' \in Seq(Nat) /\ Len(first') = Len(first)
        <4>1. CASE row.origin \in Side
          <5>1. first' = [first EXCEPT ![Len(ids)] = 0]
            BY <2>1, <4>1 DEF ReadSameDoc, AgeAfter
          <5>2. Len(ids) \in 1..Len(first)
            BY <1>2, <2>1, EmptySeq DEF ReadSameDoc, SameDoc
          <5> QED BY <1>2, <5>1, <5>2, ExceptSeq
        <4>2. CASE row.origin \notin Side
          BY <1>2, <2>1, <4>2 DEF ReadSameDoc, AgeAfter
        <4> QED BY <4>1, <4>2
      <3> QED BY <1>2, <3>1, <3>2
    <2>2. CASE ReadNextDoc(row)
      BY <1>1, <1>2, <2>2, RowFields, AppendProperties DEF ReadNextDoc
    <2>3. CASE ReadForNextTask(row)
      <3>1. NoTs \in [Side -> Nat]
        BY DEF NoTs
      <3>2. ids' = <<row.doc>> /\ first' = <<FirstOf(row)>> /\ latest' \in [Side -> Nat]
        BY <1>1, <2>3, <3>1, RowFields DEF ReadForNextTask
      <3> QED BY <1>1, <3>2, RowFields
    <2> QED BY <2>1, <2>2, <2>3
  <1>5. /\ buffer' \in Seq(Numbered)
        /\ requests' \subseteq [attempt : Nat, list : Seq(Numbered)]
        /\ made' \in Nat
    BY TypePersists DEF ReadSameDoc, ReadNextDoc, ReadForNextTask, TypeOK, Numbered
  <1> QED BY <1>1, <1>3, <1>4, <1>5 DEF TypeOK, Numbered

LEMMA TypeEnds ==
    ASSUME TypeOK, EndRows
    PROVE  TypeOK'
  <1> USE DEF records
  <1>0. NoAccumulators /\ buffer' = <<>> /\ creator' = "waiting" /\ made' = made + 1 /\ made \in Nat
    BY DEF EndRows, TypeOK
  <1>1. /\ ids' = <<>> /\ first' = <<>> /\ latest' \in [Side -> Nat] /\ buffer' = <<>>
        /\ creator' = "waiting" /\ made' \in Nat
    BY <1>0, NewTaskType DEF NoAccumulators
  <1>2. /\ ids' \in Seq(Doc) /\ first' \in Seq(Nat) /\ Len(first') = Len(ids')
        /\ buffer' \in Seq([n : Nat, task : Task])
    BY <1>1
  <1>3. requests' \subseteq [attempt : Nat, list : Seq([n : Nat, task : Task])]
    <2>1. Request(Append(buffer, NewTask(made + 1))) \in [attempt : Nat, list : Seq([n : Nat, task : Task])]
      BY NewTaskType DEF Numbered
    <2> QED BY <2>1 DEF EndRows, TypeOK
  <1> QED BY <1>1, <1>2, <1>3 DEF TypeOK, EndRows

\* What an insertion leaves of the tasks there were and adds to them.
LEMMA StoredTasks ==
    ASSUME TypeOK, NEW r \in requests, NEW k \in 0..Len(r.list), Stored(r, k)
    PROVE  /\ r.list \in Seq(Numbered) /\ r.attempt \in Nat
           /\ DOMAIN tasks' = DOMAIN tasks \union {r.list[i].n : i \in 1..k}
           /\ \A n \in DOMAIN tasks : tasks'[n] = tasks[n]
           /\ \A n \in DOMAIN tasks' \ DOMAIN tasks :
                  \E i \in DOMAIN r.list : n = r.list[i].n /\ tasks'[n] = r.list[i].task
           /\ \A i \in DOMAIN r.list : r.list[i] \in Numbered
           /\ DOMAIN r.list = 1..Len(r.list) /\ k \in Nat /\ k <= Len(r.list)
  <1>1. r.list \in Seq(Numbered) /\ r.attempt \in Nat
    BY DEF TypeOK, Numbered
  <1>2. DOMAIN r.list = 1..Len(r.list) /\ Len(r.list) \in Nat /\ \A i \in DOMAIN r.list : r.list[i] \in Numbered
    BY <1>1, LenProperties, ElementOfSeq
  <1>3. 1..k \subseteq DOMAIN r.list
    BY <1>2
  <1> DEFINE S == {r.list[i] : i \in 1..k}
             T == DOMAIN tasks \union {r.list[i].n : i \in 1..k}
  <1>4. tasks' = [n \in T |-> IF n \in DOMAIN tasks THEN tasks[n] ELSE (CHOOSE e \in S : e.n = n).task]
    BY DEF Stored
  <1>5. ASSUME NEW n \in T, n \notin DOMAIN tasks
        PROVE  \E i \in DOMAIN r.list : n = r.list[i].n /\ tasks'[n] = r.list[i].task
    <2>1. \E e \in S : e.n = n
      BY <1>5
    <2>2. PICK e \in S : e = (CHOOSE x \in S : x.n = n) /\ e.n = n
      BY <2>1
    <2>3. tasks'[n] = e.task
      BY <1>4, <1>5, <2>2
    <2> QED BY <1>3, <2>2, <2>3
  <1>6. DOMAIN tasks' = T /\ \A n \in DOMAIN tasks : tasks'[n] = tasks[n]
    BY <1>4
  <1> HIDE DEF S
  <1>7. \A n \in DOMAIN tasks' \ DOMAIN tasks :
            \E i \in DOMAIN r.list : n = r.list[i].n /\ tasks'[n] = r.list[i].task
    BY <1>5, <1>6
  <1>8. k \in Nat /\ k <= Len(r.list)
    BY <1>2
  <1> QED BY <1>1, <1>2, <1>6, <1>7, <1>8

LEMMA TypeStores ==
    ASSUME TypeOK, NEW r \in requests, NEW k \in 0..Len(r.list), Stored(r, k),
           groupFailed' \in BOOLEAN, failures' \in 0..MaxFailures
    PROVE  TypeOK'
  <1>1. requests' \subseteq requests
    BY DEF Stored
  <1>s. \A n \in DOMAIN tasks' \ DOMAIN tasks :
            \E i \in DOMAIN r.list : n = r.list[i].n /\ tasks'[n] = r.list[i].task
    BY StoredTasks
  <1>2. ASSUME NEW n \in DOMAIN tasks' PROVE n \in Nat /\ tasks'[n] \in Task
    <2>1. CASE n \in DOMAIN tasks
      BY <2>1, StoredTasks DEF TypeOK
    <2>2. CASE n \notin DOMAIN tasks
      <3>1. PICK i \in DOMAIN r.list : n = r.list[i].n /\ tasks'[n] = r.list[i].task
        BY <1>s, <2>2
      <3>2. r.list[i] \in Numbered
        BY StoredTasks
      <3> QED BY <3>1, <3>2 DEF Numbered
    <2> QED BY <2>1, <2>2
  <1>3. UNCHANGED <<generation, ts, queue, rows, creator, attempt, unread, ids, first, latest,
                    buffer, made, mismatches, seen, changed>>
    BY DEF Stored, accumulators, records
  <1> QED BY <1>1, <1>2, <1>3 DEF TypeOK

\* The age that a mismatch is recorded with is the task's, or now.
LEMMA HasMax ==
    ASSUME NEW n \in Nat, NEW S \in SUBSET (0..n), S # {}
    PROVE  \E x \in S : \A y \in S : y <= x
  <1> DEFINE T == {n - x : x \in S}
             R == {p \in Nat \X Nat : p[1] < p[2]}
  <1>1. \A x \in S : n - x \in Nat
    OBVIOUS
  <1>2. T \in SUBSET Nat /\ T # {}
    BY <1>1
  <1>3. IsWellFoundedOn(R, Nat)
    BY NatLessThanWellFounded DEF OpToRel
  <1>4. PICK t \in T : \A u \in T : ~(<<u, t>> \in R)
    BY <1>2, <1>3, WFMin
  <1>5. PICK x \in S : t = n - x
    BY <1>4
  <1>6. ASSUME NEW y \in S PROVE y <= x
    <2>1. n - y \in T /\ n - y \in Nat /\ t \in Nat
      BY <1>1, <1>5
    <2>2. ~(n - y < t)
      BY <1>4, <2>1
    <2> QED BY <1>5, <2>1, <2>2
  <1> QED BY <1>6

LEMMA KnownFirstOf ==
    ASSUME NEW t \in Task, NEW d, Len(t.first) = Len(t.ids)
    PROVE  /\ KnownFirst(t, d) \in Nat
           /\ KnownFirst(t, d) # 0 =>
                  \E i \in DOMAIN t.ids : t.ids[i] = d /\ t.first[i] = KnownFirst(t, d)
           /\ KnownFirst(t, d) = 0 => \A i \in DOMAIN t.ids : t.ids[i] = d => t.first[i] = 0
  <1> DEFINE I == {i \in DOMAIN t.ids : t.ids[i] = d /\ t.first[i] # 0}
  <1>1. CASE I = {}
    BY <1>1 DEF KnownFirst
  <1>2. CASE I # {}
    <2>1. t.ids \in Seq(Doc) /\ t.first \in Seq(Nat)
      BY DEF Task
    <2>2. /\ DOMAIN t.ids = 1..Len(t.ids) /\ Len(t.ids) \in Nat /\ DOMAIN t.first = DOMAIN t.ids
          /\ \A i \in DOMAIN t.first : t.first[i] \in Nat
      BY <2>1, LenProperties, ElementOfSeq
    <2>3. I \in SUBSET (0..Len(t.ids))
      BY <2>2
    <2>4. \E i \in I : \A j \in I : j <= i
      BY <1>2, <2>2, <2>3, HasMax
    <2>5. PICK i \in I : KnownFirst(t, d) = t.first[i]
      BY <1>2, <2>4 DEF KnownFirst
    <2> QED BY <2>2, <2>5
  <1> QED BY <1>1, <1>2

-----------------------------------------------------------------------------
\* Entries.

LEMMA ListExtended ==
    ASSUME NEW list \in Seq(Numbered), NEW x \in Numbered
    PROVE  OfList(Append(list, x)) = OfList(list) \union {Entry(x.n, x.task)}
  <1> DEFINE more == Append(list, x)
  <1>1. /\ Len(more) = Len(list) + 1 /\ Len(list) \in Nat
        /\ \A i \in 1..Len(list) : more[i] = list[i]
        /\ more[Len(list) + 1] = x
        /\ DOMAIN more = 1..Len(more) /\ DOMAIN list = 1..Len(list)
    BY AppendProperties, LenProperties
  <1>2. DOMAIN more = DOMAIN list \union {Len(list) + 1}
    BY <1>1
  <1> HIDE DEF more
  <1>3. OfList(more) = OfList(list) \union {Entry(x.n, x.task)}
    BY <1>1, <1>2 DEF OfList
  <1> QED BY <1>3 DEF more

LEMMA WhereEntries ==
    ASSUME NEW e
    PROVE  /\ e \in Entries <=> \/ e \in OfList(buffer) \/ e \in Saved
                               \/ \E r \in requests : e \in OfList(r.list)
           /\ e \in Entries' <=> \/ e \in OfList(buffer') \/ e \in Saved'
                                \/ \E r \in requests' : e \in OfList(r.list)
  <1>1. ASSUME NEW R
        PROVE  e \in UNION {OfList(r.list) : r \in R} <=> \E r \in R : e \in OfList(r.list)
    BY Zenon
  <1>2. OfList(buffer)' = OfList(buffer')
    BY DEF OfList
  <1>3. Inserting' = UNION {OfList(r.list) : r \in requests'}
    BY DEF Inserting, OfList
  <1> QED BY <1>1, <1>2, <1>3 DEF Entries, Inserting

LEMMA EmptyList == OfList(<<>>) = {}
  BY DEF OfList

\* The task made of the accumulators.
NewEntry == [n |-> made + 1, ids |-> ids, first |-> first, latest |-> latest, attempt |-> attempt]

LEMMA NewTaskEntry ==
    Entry(NewTask(made + 1).n, NewTask(made + 1).task) = NewEntry
  BY DEF Entry, NewTask, NewEntry

LEMMA SavedSame ==
    ASSUME UNCHANGED tasks
    PROVE  Saved' = Saved
  BY DEF Saved, Entry

LEMMA EntriesSame ==
    ASSUME UNCHANGED <<buffer, requests>>, Saved' = Saved
    PROVE  Entries' = Entries
  BY WhereEntries

\* A task is put into the buffer, and perhaps into an insertion with the others there.
LEMMA EntryAdded ==
    ASSUME TypeOK, UNCHANGED tasks, NEW list,
           list = Append(buffer, NewTask(made + 1)),
           \/ buffer' = list /\ UNCHANGED requests
           \/ buffer' = <<>> /\ requests' = requests \union {Request(list)}
    PROVE  /\ Entries' = Entries \union {NewEntry}
           /\ OfList(list) = OfList(buffer) \union {NewEntry}
           /\ \A r \in requests' : r \in requests \/ r = Request(list)
           /\ OfList(buffer') \subseteq OfList(list)
  <1>1. buffer \in Seq(Numbered) /\ NewTask(made + 1) \in Numbered
    BY NewTaskType DEF TypeOK, Numbered
  <1>2. OfList(list) = OfList(buffer) \union {NewEntry}
    BY <1>1, ListExtended, NewTaskEntry
  <1>3. Request(list).list = list
    BY DEF Request
  <1>4. Saved' = Saved
    BY SavedSame
  <1>5. CASE buffer' = list /\ UNCHANGED requests
    <2>1. Entries' = Entries \union {NewEntry}
      BY <1>2, <1>4, <1>5, WhereEntries
    <2> QED BY <1>2, <1>5, <2>1
  <1>6. CASE buffer' = <<>> /\ requests' = requests \union {Request(list)}
    <2>1. Entries' = Entries \union {NewEntry}
      BY <1>2, <1>3, <1>4, <1>6, WhereEntries, EmptyList
    <2> QED BY <1>2, <1>6, <2>1, EmptyList
  <1> QED BY <1>2, <1>5, <1>6

\* Storing tasks leaves all entries as they are, but for those that an insertion which is
\* cut short has not stored.
LEMMA StoredEntries ==
    ASSUME TypeOK, NumbersInv, generation > 0,
           NEW r \in requests, NEW k \in 0..Len(r.list), Stored(r, k)
    PROVE  /\ Saved \subseteq Saved' /\ Saved' \subseteq Saved \union OfList(r.list)
           /\ Entries' \subseteq Entries
           /\ \A e \in Entries : e.attempt # r.attempt \/ k = Len(r.list) => e \in Entries'
  <1>1. /\ DOMAIN tasks' = DOMAIN tasks \union {r.list[i].n : i \in 1..k}
        /\ \A n \in DOMAIN tasks : tasks'[n] = tasks[n]
        /\ DOMAIN r.list = 1..Len(r.list)
    BY StoredTasks
  <1>2. \A n \in DOMAIN tasks' \ DOMAIN tasks :
            \E i \in DOMAIN r.list : n = r.list[i].n /\ tasks'[n] = r.list[i].task
    BY StoredTasks
  <1>3. requests' = requests \ {r} /\ buffer' = buffer
    BY DEF Stored
  <1>4. Saved \subseteq Saved'
    BY <1>1 DEF Saved, Entry
  <1>5. Saved' \subseteq Saved \union OfList(r.list)
    BY <1>1, <1>2 DEF Saved, OfList
  <1>6. OfList(r.list) \subseteq Entries
    BY WhereEntries
  <1>7. Entries' \subseteq Entries
    BY <1>3, <1>5, <1>6, WhereEntries
  <1>8. ASSUME k = Len(r.list), NEW e \in OfList(r.list)
        PROVE  e \in Saved'
    <2>1. PICK i \in DOMAIN r.list : e = Entry(r.list[i].n, r.list[i].task)
      BY DEF OfList
    <2>2. e.n = r.list[i].n /\ e.n \in DOMAIN tasks'
      BY <1>1, <1>8, <2>1 DEF Entry
    <2>3. Entry(e.n, tasks'[e.n]) \in Saved'
      BY <2>2 DEF Saved
    <2>4. Entry(e.n, tasks'[e.n]) \in Entries /\ e \in Entries
      BY <1>5, <1>6, <2>3, WhereEntries
    <2>5. Entry(e.n, tasks'[e.n]).n = e.n
      BY DEF Entry
    <2>6. Entry(e.n, tasks'[e.n]) = e
      BY <2>4, <2>5 DEF NumbersInv
    <2> QED BY <2>3, <2>6
  <1>9. ASSUME NEW e \in Entries, e.attempt # r.attempt \/ k = Len(r.list)
        PROVE  e \in Entries'
    <2>1. CASE e \in OfList(buffer)
      BY <1>3, <2>1, WhereEntries
    <2>2. CASE e \in Saved
      BY <1>4, <2>2, WhereEntries
    <2>3. CASE e \in OfList(r.list)
      <3>1. k = Len(r.list)
        BY <1>9, <2>3 DEF NumbersInv
      <3> QED BY <1>8, <2>3, <3>1, WhereEntries
    <2>4. CASE \E q \in requests : q # r /\ e \in OfList(q.list)
      BY <1>3, <2>4, WhereEntries
    <2> QED BY <1>9, <2>1, <2>2, <2>3, <2>4, WhereEntries
  <1> QED BY <1>4, <1>5, <1>7, <1>9

-----------------------------------------------------------------------------
\* What steps leave alone.

LEMMA EntryTypes ==
    ASSUME TypeOK, NEW e \in Entries
    PROVE  /\ e.n \in Nat /\ e.attempt \in Nat /\ e.ids \in Seq(Doc) /\ e.first \in Seq(Nat)
           /\ e.latest \in [Side -> Nat]
  <1>1. \A n \in Nat, t \in Task :
            LET f == Entry(n, t) IN
            /\ f.n \in Nat /\ f.attempt \in Nat /\ f.ids \in Seq(Doc) /\ f.first \in Seq(Nat)
            /\ f.latest \in [Side -> Nat]
    BY DEF Entry, Task
  <1>2. \A list \in Seq(Numbered) : \A i \in DOMAIN list : list[i].n \in Nat /\ list[i].task \in Task
    <2> SUFFICES ASSUME NEW list \in Seq(Numbered), NEW i \in DOMAIN list
                 PROVE  list[i].n \in Nat /\ list[i].task \in Task
      OBVIOUS
    <2>1. list[i] \in Numbered
      BY ElementOfSeq, LenProperties
    <2> QED BY <2>1 DEF Numbered
  <1>3. buffer \in Seq(Numbered) /\ \A r \in requests : r.list \in Seq(Numbered)
    BY DEF TypeOK, Numbered
  <1>4. CASE e \in Saved
    BY <1>1, <1>4 DEF Saved, TypeOK
  <1>5. CASE \E list \in Seq(Numbered) : e \in OfList(list)
    BY <1>1, <1>2, <1>5 DEF OfList
  <1> QED BY <1>3, <1>4, <1>5, WhereEntries

LEMMA SubEntries ==
    ASSUME Entries' \subseteq Entries, UNCHANGED <<generation, seen, changed>>
    PROVE  /\ EntriesInv => EntriesInv'
           /\ EntryAges => EntryAges'
  BY DEF EntriesInv, EntryOk, Apart, EntryAges, EntryAge, AgeOk

\* Nothing the rows say of the past changes, and of the tasks there are nothing but new ones.
Creating ==
    /\ UNCHANGED <<generation, ts, queue, rows, mismatches, seen, changed>>
    /\ \A n \in DOMAIN tasks : n \in DOMAIN tasks' /\ tasks'[n] = tasks[n]

LEMMA CreatingFrame ==
    ASSUME Inv, Creating
    PROVE  HistoryInv' /\ MismatchInv'
  <1> USE DEF Creating
  <1>1. HistoryInv'
    BY DEF Inv, HistoryInv, HasChange, AgeOk
  <1>2. RecordsInv'
    BY DEF Inv, MismatchInv, RecordsInv, Counted
  <1>3. AgeSound' /\ AgeKept'
    BY DEF Inv, MismatchInv, AgeSound, AgeKept
  <1>4. CountedOnce'
    BY DEF Inv, MismatchInv, RecordsInv, CountedOnce, Counted
  <1> QED BY <1>1, <1>2, <1>3, <1>4 DEF MismatchInv

-----------------------------------------------------------------------------
\* Reading the rows.

LEMMA InvBegins ==
    ASSUME Inv, BeginAttempt, failures' \in 0..MaxFailures, generation > 0, rows # {}
    PROVE  Inv'
  <1> USE DEF records
  <1>1. /\ creator' = "reading" /\ attempt' = attempt + 1 /\ unread' = rows /\ ids' = <<>> /\ first' = <<>>
        /\ buffer' = <<>> /\ groupFailed' = FALSE
        /\ UNCHANGED <<generation, ts, queue, rows, requests, made, tasks, mismatches, seen, changed>>
    BY DEF BeginAttempt, NoAccumulators
  <1>2. TypeOK' /\ attempt \in Nat
    BY TypeBegins DEF Inv, TypeOK
  <1>3. Saved' = Saved
    BY <1>1, SavedSame
  <1>4. Entries' \subseteq Entries
    BY <1>1, <1>3, WhereEntries, EmptyList
  <1>5. \A e \in Entries : e.attempt \in Nat /\ e.attempt <= attempt
    BY EntryTypes DEF Inv, CreatingInv, NumbersInv
  <1>6. CreatorInv'
    BY <1>1 DEF Inv, CreatingInv, CreatorInv
  <1>7. NumbersInv'
    <2>1. OfList(buffer)' = {}
      BY <1>1, EmptyList DEF OfList
    <2>2. \A r \in requests' : \A e \in OfList(r.list)' : e.attempt = r.attempt
      BY <1>1 DEF Inv, CreatingInv, NumbersInv, OfList
    <2>3. \A e \in Entries' : e.n \in 1..made' /\ e.attempt <= attempt'
      BY <1>1, <1>2, <1>4, <1>5 DEF Inv, CreatingInv, NumbersInv
    <2>4. \A e, f \in Entries' : e.n = f.n => e = f
      BY <1>4 DEF Inv, CreatingInv, NumbersInv
    <2> QED BY <2>1, <2>2, <2>3, <2>4 DEF NumbersInv
  <1>8. AccumulatorsInv'
    <2>1. \A e \in Entries' : e.attempt # attempt'
      BY <1>1, <1>2, <1>4, <1>5
    <2> QED BY <1>1, <2>1, Numbers DEF AccumulatorsInv
  <1>9. EntriesInv' /\ EntryAges'
    BY <1>1, <1>4, SubEntries DEF Inv, CreatingInv
  <1>10. PlacedInv' /\ AccumulatorAges'
    BY <1>1 DEF PlacedInv, AccumulatorAges
  <1>11. Creating
    BY <1>1 DEF Creating
  <1> QED BY <1>2, <1>6, <1>7, <1>8, <1>9, <1>10, <1>11, CreatingFrame DEF Inv, CreatingInv

\* latestSrcTimestamp and latestDstTimestamp only advance.
LEMMA NewerOf ==
    ASSUME NEW l \in [Side -> Nat], NEW row \in Row
    PROVE  /\ \A s \in Side : Newer(l, row)[s] >= l[s]
           /\ row.origin \in Side => Newer(l, row)[row.origin] >= row.time
  BY RowFields DEF Newer

\* What is known while rows are read.
LEMMA Reading ==
    ASSUME Inv, NEW row \in unread, Reads(row)
    PROVE  /\ row \in Row /\ row \in rows /\ row.doc \in Doc /\ row.doc \in Int
           /\ generation > 0
           /\ creator = "reading" /\ creator' = "reading"
           /\ UNCHANGED <<generation, ts, queue, rows, attempt, groupFailed, tasks, mismatches, seen, failures, changed>>
           /\ rows \ unread' = (rows \ unread) \union {row} /\ unread' \subseteq unread
           /\ \A r \in unread : row.doc <= r.doc /\ r.doc \in Int
           /\ \A r \in rows : r \in Row /\ r.doc \in Int
           /\ ids \in Seq(Doc) /\ DOMAIN ids = 1..Len(ids) /\ Len(ids) \in Nat
           /\ first \in Seq(Nat) /\ DOMAIN first = DOMAIN ids /\ latest \in [Side -> Nat]
           /\ \A i \in DOMAIN ids : ids[i] \in Doc /\ ids[i] \in Int /\ ids[i] <= ids[Len(ids)]
  <1>1. TypeOK /\ unread \subseteq rows /\ rows \subseteq Row
    BY DEF Inv, TypeOK
  <1>2. \A r \in Row : r.doc \in Doc /\ r.doc \in Int
    BY RowFields
  <1>3. /\ ids \in Seq(Doc) /\ DOMAIN ids = 1..Len(ids) /\ Len(ids) \in Nat
        /\ first \in Seq(Nat) /\ DOMAIN first = DOMAIN ids /\ latest \in [Side -> Nat]
        /\ \A i \in DOMAIN ids : ids[i] \in Doc
    BY <1>1, LenProperties, ElementOfSeq DEF TypeOK
  <1>4. \A i \in DOMAIN ids : ids[i] \in Int
    BY <1>3, Numbers
  <1>5. \A i \in DOMAIN ids : ids[i] <= ids[Len(ids)]
    <2> SUFFICES ASSUME NEW i \in DOMAIN ids PROVE ids[i] <= ids[Len(ids)]
      OBVIOUS
    <2>1. Len(ids) \in DOMAIN ids /\ i <= Len(ids) /\ i \in Nat
      BY <1>3
    <2>2. i < Len(ids) => ids[i] < ids[Len(ids)]
      BY <2>1 DEF Inv, CreatingInv, AccumulatorsInv
    <2>3. ids[i] \in Int /\ ids[Len(ids)] \in Int
      BY <1>4, <2>1
    <2> QED BY <1>3, <2>1, <2>2, <2>3
  <1>6. generation > 0
    BY <1>1 DEF Inv, CreatingInv, CreatorInv, Reads, TypeOK
  <1>7. /\ creator = "reading" /\ creator' = "reading" /\ unread' = unread \ {row}
        /\ UNCHANGED <<generation, ts, queue, rows, attempt, groupFailed, tasks, mismatches, seen, failures, changed>>
        /\ \A r \in unread : row.doc <= r.doc
    BY DEF Reads, records
  <1> QED BY <1>1, <1>2, <1>3, <1>4, <1>5, <1>6, <1>7

LEMMA InvSameDoc ==
    ASSUME Inv, NEW row \in unread, ReadSameDoc(row)
    PROVE  Inv'
  <1>1. Reads(row) /\ UNCHANGED <<ids, buffer, requests, made>>
    BY DEF ReadSameDoc
  <1>2. /\ row \in Row /\ row \in rows /\ row.doc \in Doc /\ generation > 0
        /\ creator = "reading" /\ creator' = "reading"
        /\ UNCHANGED <<generation, ts, queue, rows, attempt, groupFailed, tasks, mismatches, seen, failures, changed>>
        /\ rows \ unread' = (rows \ unread) \union {row} /\ unread' \subseteq unread
        /\ DOMAIN ids = 1..Len(ids) /\ Len(ids) \in Nat /\ latest \in [Side -> Nat]
        /\ first \in Seq(Nat) /\ DOMAIN first = DOMAIN ids
        /\ \A i \in DOMAIN ids : ids[i] \in Doc /\ ids[i] \in Int /\ ids[i] <= ids[Len(ids)]
    BY <1>1, Reading
  <1>3. ids # <<>> /\ ids[Len(ids)] = row.doc
    BY DEF ReadSameDoc, SameDoc
  <1>k. Len(ids) \in DOMAIN ids
    BY <1>2, <1>3, EmptySeq DEF Inv, TypeOK
  <1>4. TypeOK'
    BY TypeReads DEF Inv
  <1>5. Saved' = Saved /\ Entries' = Entries
    BY <1>1, <1>2, SavedSame, EntriesSame
  <1>6. CreatorInv'
    BY <1>1, <1>2, <1>3 DEF Inv, CreatingInv, CreatorInv
  <1>7. NumbersInv'
    BY <1>1, <1>2, <1>5 DEF Inv, CreatingInv, NumbersInv, OfList
  <1>8. AccumulatorsInv'
    <2>1. \A r \in rows \ unread' : r.doc <= ids[Len(ids)]
      BY <1>2, <1>3, <1>k DEF Inv, CreatingInv, AccumulatorsInv
    <2> QED BY <1>1, <1>2, <1>3, <1>5, <2>1 DEF Inv, CreatingInv, AccumulatorsInv
  <1>9. EntriesInv' /\ EntryAges'
    BY <1>2, <1>5, SubEntries DEF Inv, CreatingInv
  <1>10. PlacedInv'
    <2> SUFFICES ASSUME ~groupFailed, NEW r \in rows \ unread'
                 PROVE  \/ CoveredBy(ids, latest', r)
                        \/ \E e \in Entries : e.attempt = attempt /\ CoveredBy(e.ids, e.latest, r)
      BY <1>1, <1>2, <1>5 DEF PlacedInv, CoveredBy
    <2>1. latest' = Newer(latest, row)
      BY DEF ReadSameDoc
    <2>2. CASE r = row
      BY <1>2, <1>3, <1>k, <2>1, <2>2, NewerOf DEF CoveredBy
    <2>3. CASE r \in rows \ unread
      <3>1. \/ CoveredBy(ids, latest, r)
            \/ \E e \in Entries : e.attempt = attempt /\ CoveredBy(e.ids, e.latest, r)
        BY <1>2, <2>3 DEF Inv, CreatingInv, PlacedInv
      <3>2. CoveredBy(ids, latest, r) => CoveredBy(ids, latest', r)
        <4> SUFFICES ASSUME CoveredBy(ids, latest, r), r.origin \in Side
                     PROVE  latest'[r.origin] >= r.time
          BY DEF CoveredBy
        <4>1. latest[r.origin] >= r.time /\ latest'[r.origin] >= latest[r.origin]
          BY <1>2, <2>1, NewerOf DEF CoveredBy
        <4>2. r \in Row
          BY <2>3 DEF Inv, TypeOK
        <4>3. r.time \in Nat /\ latest[r.origin] \in Nat /\ latest'[r.origin] \in Nat
          BY <1>2, <1>4, <4>2, RowFields DEF TypeOK
        <4> QED BY <4>1, <4>3
      <3> QED BY <3>1, <3>2
    <2> QED BY <1>2, <2>2, <2>3
  <1>11. AccumulatorAges'
    <2> SUFFICES ASSUME NEW i \in DOMAIN ids
                 PROVE  /\ first'[i] # 0 => /\ AgeOk(ids[i], first'[i], generation - 1)
                                            /\ ~HasChange(ids[i], rows \ unread')
                        /\ first'[i] = 0 => <<ids[i], generation>> \in changed
      BY <1>1, <1>2 DEF AccumulatorAges, AgeOk, HasChange
    <2>1. /\ first[i] # 0 => AgeOk(ids[i], first[i], generation - 1) /\ ~HasChange(ids[i], rows \ unread)
          /\ first[i] = 0 => <<ids[i], generation>> \in changed
      BY DEF Inv, CreatingInv, AccumulatorAges
    <2>2. CASE row.origin \in Side
      <3>1. first' = [first EXCEPT ![Len(ids)] = 0]
        BY <2>2 DEF ReadSameDoc, AgeAfter
      <3>2. CASE i = Len(ids)
        <4>1. first'[i] = 0
          BY <1>2, <3>1, <3>2
        <4>2. HasChange(row.doc, rows)
          BY <1>2, <2>2 DEF HasChange
        <4> QED BY <1>2, <1>3, <3>2, <4>1, <4>2 DEF Inv, HistoryInv
      <3>3. CASE i # Len(ids)
        <4>1. first'[i] = first[i]
          BY <1>2, <3>1, <3>3
        <4>2. ids[i] # row.doc
          <5>1. i < Len(ids)
            BY <1>2, <3>3
          <5>2. ids[i] < ids[Len(ids)]
            BY <1>k, <5>1 DEF Inv, CreatingInv, AccumulatorsInv
          <5> QED BY <1>2, <1>3, <1>k, <5>2
        <4>3. HasChange(ids[i], rows \ unread') => HasChange(ids[i], rows \ unread)
          BY <1>2, <4>2 DEF HasChange
        <4> QED BY <2>1, <4>1, <4>3
      <3> QED BY <3>2, <3>3
    <2>3. CASE row.origin \notin Side
      <3>1. first' = first
        BY <2>3 DEF ReadSameDoc, AgeAfter
      <3>2. HasChange(ids[i], rows \ unread') => HasChange(ids[i], rows \ unread)
        BY <1>2, <2>3 DEF HasChange
      <3> QED BY <2>1, <3>1, <3>2
    <2> QED BY <2>2, <2>3
  <1>12. Creating
    BY <1>2 DEF Creating
  <1> QED BY <1>4, <1>6, <1>7, <1>8, <1>9, <1>10, <1>11, <1>12, CreatingFrame DEF Inv, CreatingInv

\* A document's age as its first row has it.
LEMMA FirstRow ==
    ASSUME Inv, NEW row \in rows, NEW R, R \subseteq rows,
           \A r \in R : r.doc = row.doc => r = row
    PROVE  /\ FirstOf(row) # 0 => AgeOk(row.doc, FirstOf(row), generation - 1) /\ ~HasChange(row.doc, R)
           /\ FirstOf(row) = 0 => <<row.doc, generation>> \in changed
  <1>1. row \in Row
    BY DEF Inv, TypeOK
  <1>2. CASE row.origin = "compare"
    <2>1. FirstOf(row) = row.time /\ AgeOk(row.doc, row.time, generation - 1)
      BY <1>2 DEF Inv, HistoryInv, FirstOf
    <2>2. row.time # 0
      BY <2>1 DEF AgeOk
    <2>3. ~HasChange(row.doc, R)
      BY <1>2 DEF HasChange, Side
    <2> QED BY <2>1, <2>2, <2>3
  <1>3. CASE row.origin # "compare"
    <2>1. FirstOf(row) = 0 /\ row.origin \in Side /\ row.doc \in Doc
      BY <1>1, <1>3, RowFields DEF FirstOf
    <2>2. HasChange(row.doc, rows)
      BY <2>1 DEF HasChange
    <2> QED BY <2>1, <2>2 DEF Inv, HistoryInv
  <1> QED BY <1>2, <1>3

\* A row of another document: the accumulators' documents come before it.
LEMMA OtherDoc ==
    ASSUME Inv, NEW row \in unread, Reads(row), ~SameDoc(row.doc)
    PROVE  /\ \A i \in DOMAIN ids : ids[i] < row.doc
           /\ \A r \in rows \ unread : r.doc < row.doc
           /\ \A i \in DOMAIN ids : \A r \in unread : ids[i] < r.doc
  <1>1. /\ row.doc \in Int
        /\ \A r \in unread : row.doc <= r.doc /\ r.doc \in Int
        /\ \A r \in rows : r.doc \in Int
        /\ DOMAIN ids = 1..Len(ids) /\ Len(ids) \in Nat /\ creator = "reading"
        /\ \A i \in DOMAIN ids : ids[i] \in Int /\ ids[i] <= ids[Len(ids)]
    BY Reading
  <1>2. CASE ids = <<>>
    BY <1>2 DEF Inv, CreatingInv, CreatorInv, Reads
  <1>3. CASE ids # <<>>
    <2>1. Len(ids) \in DOMAIN ids
      BY <1>1, <1>3, EmptySeq DEF Inv, TypeOK
    <2>2. ids[Len(ids)] # row.doc /\ ids[Len(ids)] <= row.doc
      BY <1>3, <2>1 DEF SameDoc, Inv, CreatingInv, AccumulatorsInv
    <2>3. ids[Len(ids)] < row.doc
      BY <1>1, <2>1, <2>2
    <2>4. \A r \in rows \ unread : r.doc <= ids[Len(ids)]
      BY <1>3 DEF Inv, CreatingInv, AccumulatorsInv
    <2>5. \A i \in DOMAIN ids : ids[i] < row.doc
      BY <1>1, <2>1, <2>3
    <2>6. \A r \in rows \ unread : r.doc < row.doc
      BY <1>1, <2>1, <2>3, <2>4
    <2>7. \A i \in DOMAIN ids : \A r \in unread : ids[i] < r.doc
      BY <1>1, <2>5
    <2> QED BY <2>5, <2>6, <2>7
  <1> QED BY <1>2, <1>3

LEMMA InvNextDoc ==
    ASSUME Inv, NEW row \in unread, ReadNextDoc(row)
    PROVE  Inv'
  <1>1. Reads(row) /\ ~SameDoc(row.doc) /\ UNCHANGED <<buffer, requests, made>>
    BY DEF ReadNextDoc
  <1>2. /\ row \in Row /\ row \in rows /\ row.doc \in Doc /\ row.doc \in Int /\ generation > 0
        /\ creator = "reading" /\ creator' = "reading"
        /\ UNCHANGED <<generation, ts, queue, rows, attempt, groupFailed, tasks, mismatches, seen, failures, changed>>
        /\ rows \ unread' = (rows \ unread) \union {row} /\ unread' \subseteq unread
        /\ \A r \in unread : row.doc <= r.doc /\ r.doc \in Int
        /\ \A r \in rows : r.doc \in Int
        /\ ids \in Seq(Doc) /\ first \in Seq(Nat)
        /\ DOMAIN ids = 1..Len(ids) /\ Len(ids) \in Nat /\ latest \in [Side -> Nat]
        /\ DOMAIN first = DOMAIN ids
        /\ \A i \in DOMAIN ids : ids[i] \in Doc /\ ids[i] \in Int /\ ids[i] <= ids[Len(ids)]
    BY <1>1, Reading
  <1>3. /\ \A i \in DOMAIN ids : ids[i] < row.doc
        /\ \A r \in rows \ unread : r.doc < row.doc
    BY <1>1, OtherDoc
  <1>k. PICK k \in Nat : k = Len(ids) + 1
    BY <1>2
  <1>4. /\ DOMAIN ids' = DOMAIN ids \union {k} /\ Len(ids') = k /\ k \notin DOMAIN ids
        /\ \A i \in DOMAIN ids : ids'[i] = ids[i] /\ first'[i] = first[i] /\ i \in Nat /\ i < k
        /\ ids'[k] = row.doc /\ first'[k] = FirstOf(row)
        /\ ids' # <<>>
    <2>1. ids' = Append(ids, row.doc) /\ first' = Append(first, FirstOf(row))
      BY DEF ReadNextDoc
    <2>2. /\ Len(ids') = Len(ids) + 1 /\ ids' \in Seq(Doc)
          /\ \A i \in 1..Len(ids) : ids'[i] = ids[i] /\ ids'[Len(ids) + 1] = row.doc
          /\ ids'[Len(ids) + 1] = row.doc
      BY <1>2, <2>1, AppendProperties
    <2>3. FirstOf(row) \in Nat /\ Len(first) = Len(ids)
      BY <1>2, RowFields DEF Inv, TypeOK
    <2>4. /\ \A i \in 1..Len(first) : first'[i] = first[i]
          /\ first'[Len(first) + 1] = FirstOf(row)
      BY <1>2, <2>1, <2>3, AppendProperties
    <2>5. DOMAIN ids' = 1..Len(ids')
      BY <2>2, LenProperties
    <2>6. ids' # <<>>
      BY <1>2, <2>2
    <2> QED BY <1>2, <1>k, <2>2, <2>3, <2>4, <2>5, <2>6
  <1>5. TypeOK'
    BY TypeReads DEF Inv
  <1>6. Saved' = Saved /\ Entries' = Entries
    BY <1>1, <1>2, SavedSame, EntriesSame
  <1>7. CreatorInv'
    BY <1>1, <1>2, <1>4 DEF Inv, CreatingInv, CreatorInv
  <1>8. NumbersInv'
    BY <1>1, <1>2, <1>6 DEF Inv, CreatingInv, NumbersInv, OfList
  <1>9. AccumulatorsInv'
    <2>1. \A i, j \in DOMAIN ids' : i < j => ids'[i] < ids'[j]
      <3> SUFFICES ASSUME NEW i \in DOMAIN ids', NEW j \in DOMAIN ids', i < j
                   PROVE  ids'[i] < ids'[j]
        OBVIOUS
      <3>1. i \in DOMAIN ids
        BY <1>4
      <3>2. CASE j \in DOMAIN ids
        BY <1>4, <3>1, <3>2 DEF Inv, CreatingInv, AccumulatorsInv
      <3>3. CASE j = k
        BY <1>3, <1>4, <3>1, <3>3
      <3> QED BY <1>4, <3>2, <3>3
    <2>2. ids # <<>> => Ns(ids[1]) = Ns(row.doc) /\ Len(ids) < MaxIds /\ 1 \in DOMAIN ids
      <3>1. ids # <<>> => 1 \in DOMAIN ids
        BY <1>2, EmptySeq
      <3> QED BY <1>2, <3>1, Numbers DEF ReadNextDoc, MustFlush
    <2>3. \A i \in DOMAIN ids : Ns(ids[i]) = Ns(row.doc)
      BY <1>2, <2>2 DEF Inv, CreatingInv, AccumulatorsInv
    <2>4. \A i, j \in DOMAIN ids' : Ns(ids'[i]) = Ns(ids'[j])
      BY <1>4, <2>3
    <2>5. Len(ids') <= MaxIds
      BY <1>2, <1>4, <1>k, <2>2, Numbers
    <2>6. \A i \in DOMAIN ids' : \A r \in unread' : ids'[i] <= r.doc
      BY <1>2, <1>4 DEF Inv, CreatingInv, AccumulatorsInv
    <2>7. \A r \in rows \ unread' : r.doc <= ids'[Len(ids')]
      BY <1>2, <1>3, <1>4
    <2>8. ASSUME NEW e \in Entries, e.attempt = attempt, NEW i \in DOMAIN e.ids, NEW j \in DOMAIN ids'
          PROVE  e.ids[i] < ids'[j]
      <3>1. ids # <<>> /\ \A m \in DOMAIN ids : e.ids[i] < ids[m]
        BY <1>2, <2>8 DEF Inv, CreatingInv, AccumulatorsInv
      <3>2. 1 \in DOMAIN ids
        BY <2>2, <3>1
      <3>3. e.ids[i] \in Int
        <4>1. e.ids \in Seq(Doc)
          BY EntryTypes DEF Inv
        <4> QED BY <4>1, LenProperties, ElementOfSeq, Numbers
      <3>4. e.ids[i] < row.doc
        BY <1>2, <1>3, <3>1, <3>2, <3>3
      <3> QED BY <1>4, <3>1, <3>4
    <2> QED BY <1>2, <1>4, <1>6, <2>1, <2>4, <2>5, <2>6, <2>7, <2>8 DEF AccumulatorsInv
  <1>10. EntriesInv' /\ EntryAges'
    BY <1>2, <1>6, SubEntries DEF Inv, CreatingInv
  <1>11. PlacedInv'
    <2> SUFFICES ASSUME ~groupFailed, NEW r \in rows \ unread'
                 PROVE  \/ CoveredBy(ids', latest', r)
                        \/ \E e \in Entries : e.attempt = attempt /\ CoveredBy(e.ids, e.latest, r)
      BY <1>1, <1>2, <1>6 DEF PlacedInv, CoveredBy
    <2>1. latest' = Newer(latest, row)
      BY DEF ReadNextDoc
    <2>2. CASE r = row
      BY <1>2, <1>4, <2>1, <2>2, NewerOf DEF CoveredBy
    <2>3. CASE r \in rows \ unread
      <3>1. \/ CoveredBy(ids, latest, r)
            \/ \E e \in Entries : e.attempt = attempt /\ CoveredBy(e.ids, e.latest, r)
        BY <1>2, <2>3 DEF Inv, CreatingInv, PlacedInv
      <3>2. CoveredBy(ids, latest, r) => CoveredBy(ids', latest', r)
        <4> SUFFICES ASSUME CoveredBy(ids, latest, r)
                     PROVE  CoveredBy(ids', latest', r)
          OBVIOUS
        <4>1. \E i \in DOMAIN ids' : ids'[i] = r.doc
          BY <1>4 DEF CoveredBy
        <4>2. ASSUME r.origin \in Side PROVE latest'[r.origin] >= r.time
          <5>1. latest[r.origin] >= r.time /\ latest'[r.origin] >= latest[r.origin]
            BY <1>2, <2>1, <4>2, NewerOf DEF CoveredBy
          <5>2. r \in Row
            BY <2>3 DEF Inv, TypeOK
          <5>3. r.time \in Nat /\ latest[r.origin] \in Nat /\ latest'[r.origin] \in Nat
            BY <1>2, <1>5, <4>2, <5>2, RowFields DEF TypeOK
          <5> QED BY <5>1, <5>3
        <4> QED BY <4>1, <4>2 DEF CoveredBy
      <3> QED BY <3>1, <3>2
    <2> QED BY <1>2, <2>2, <2>3
  <1>12. AccumulatorAges'
    <2> SUFFICES ASSUME NEW i \in DOMAIN ids'
                 PROVE  /\ first'[i] # 0 => /\ AgeOk(ids'[i], first'[i], generation - 1)
                                            /\ ~HasChange(ids'[i], rows \ unread')
                        /\ first'[i] = 0 => <<ids'[i], generation>> \in changed
      BY <1>1, <1>2 DEF AccumulatorAges, AgeOk, HasChange
    <2>1. CASE i \in DOMAIN ids
      <3>1. /\ first[i] # 0 => AgeOk(ids[i], first[i], generation - 1) /\ ~HasChange(ids[i], rows \ unread)
            /\ first[i] = 0 => <<ids[i], generation>> \in changed
        BY <2>1 DEF Inv, CreatingInv, AccumulatorAges
      <3>2. ids[i] # row.doc
        BY <1>2, <1>3, <2>1
      <3>3. HasChange(ids[i], rows \ unread') => HasChange(ids[i], rows \ unread)
        BY <1>2, <3>2 DEF HasChange
      <3> QED BY <1>4, <2>1, <3>1, <3>3
    <2>2. CASE i = k
      <3>1. \A r \in rows \ unread' : r.doc = row.doc => r = row
        BY <1>2, <1>3
      <3>2. rows \ unread' \subseteq rows
        OBVIOUS
      <3>3. /\ FirstOf(row) # 0 => /\ AgeOk(row.doc, FirstOf(row), generation - 1)
                                   /\ ~HasChange(row.doc, rows \ unread')
            /\ FirstOf(row) = 0 => <<row.doc, generation>> \in changed
        BY <1>2, <3>1, <3>2, FirstRow
      <3> QED BY <1>4, <2>2, <3>3
    <2> QED BY <1>4, <2>1, <2>2
  <1>13. Creating
    BY <1>2 DEF Creating
  <1> QED BY <1>5, <1>7, <1>8, <1>9, <1>10, <1>11, <1>12, <1>13, CreatingFrame DEF Inv, CreatingInv

\* The accumulators become a task, when all rows of their documents are read.
LEMMA Flushed ==
    ASSUME Inv, creator = "reading", ids # <<>>, UNCHANGED <<generation, attempt, tasks, seen, changed>>,
           \A i \in DOMAIN ids : \A r \in unread : ids[i] < r.doc,
           made' = made + 1, NEW list,
           list = Append(buffer, NewTask(made + 1)),
           \/ buffer' = list /\ UNCHANGED requests
           \/ buffer' = <<>> /\ requests' = requests \union {Request(list)}
    PROVE  /\ NumbersInv' /\ EntriesInv' /\ EntryAges'
           /\ Entries' = Entries \union {NewEntry}
  <1>1. /\ Entries' = Entries \union {NewEntry}
        /\ OfList(list) = OfList(buffer) \union {NewEntry}
        /\ \A r \in requests' : r \in requests \/ r = Request(list)
        /\ OfList(buffer') \subseteq OfList(list)
    BY EntryAdded DEF Inv
  <1>2. /\ NewEntry.n = made + 1 /\ NewEntry.ids = ids /\ NewEntry.first = first
        /\ NewEntry.latest = latest /\ NewEntry.attempt = attempt
    BY DEF NewEntry
  <1>3. /\ ids \in Seq(Doc) /\ DOMAIN ids = 1..Len(ids) /\ Len(ids) \in Nat /\ Len(ids) # 0
        /\ Len(first) = Len(ids) /\ DOMAIN first = DOMAIN ids
        /\ made \in Nat /\ attempt \in Nat /\ generation \in Nat
    BY LenProperties, EmptySeq, Numbers DEF Inv, TypeOK
  <1>4. NumbersInv'
    <2> SUFFICES ASSUME generation > 0 PROVE NumbersInv'
      BY DEF NumbersInv
    <2>1. \A e \in Entries : e.n \in 1..made /\ e.attempt <= attempt
      BY DEF Inv, CreatingInv, NumbersInv
    <2>2. \A e \in Entries' : e.n \in 1..made' /\ e.attempt <= attempt'
      BY <1>1, <1>2, <1>3, <2>1
    <2>3. \A e, f \in Entries' : e.n = f.n => e = f
      BY <1>1, <1>2, <1>3, <2>1 DEF Inv, CreatingInv, NumbersInv
    <2>4. \A e \in OfList(list) : e.attempt = attempt
      BY <1>1, <1>2 DEF Inv, CreatingInv, NumbersInv
    <2>5. \A r \in requests' : \A e \in OfList(r.list) : e.attempt = r.attempt
      <3>1. Request(list).list = list /\ Request(list).attempt = attempt
        BY DEF Request
      <3> QED BY <1>1, <2>4, <3>1 DEF Inv, CreatingInv, NumbersInv
    <2>6. OfList(buffer)' = OfList(buffer') /\ \A r : OfList(r.list)' = OfList(r.list)
      BY DEF OfList
    <2>7. \A e \in OfList(buffer)' : e.attempt = attempt'
      BY <1>1, <2>4, <2>6
    <2>8. \A r \in requests' : \A e \in OfList(r.list)' : e.attempt = r.attempt
      BY <2>5, <2>6
    <2> QED BY <2>2, <2>3, <2>7, <2>8 DEF NumbersInv
  <1>5. EntriesInv'
    <2> SUFFICES ASSUME generation > 0 PROVE EntriesInv'
      BY DEF EntriesInv
    <2>1. EntryOk(NewEntry)
      BY <1>2, <1>3, Numbers DEF EntryOk, Inv, CreatingInv, AccumulatorsInv
    <2>2. ASSUME NEW e \in Entries, e.attempt = attempt
          PROVE  Apart(e, NewEntry) /\ Apart(NewEntry, e)
      <3>1. \A i \in DOMAIN e.ids, j \in DOMAIN ids : e.ids[i] < ids[j]
        BY <2>2 DEF Inv, CreatingInv, AccumulatorsInv
      <3>2. \A i \in DOMAIN e.ids : e.ids[i] \in Int
        <4>1. e.ids \in Seq(Doc)
          BY EntryTypes DEF Inv
        <4> QED BY <4>1, LenProperties, ElementOfSeq, Numbers
      <3>3. \A j \in DOMAIN ids : ids[j] \in Int
        BY <1>3, ElementOfSeq, Numbers
      <3> QED BY <1>2, <3>1, <3>2, <3>3 DEF Apart
    <2>3. \A e, f \in Entries : e.attempt = f.attempt /\ e.n # f.n => Apart(e, f)
      BY DEF Inv, CreatingInv, EntriesInv
    <2>4. \A e \in Entries : EntryOk(e)
      BY DEF Inv, CreatingInv, EntriesInv
    <2>5. \A e, f \in Entries' : e.attempt = f.attempt /\ e.n # f.n => Apart(e, f)
      BY <1>1, <1>2, <2>2, <2>3
    <2>6. \A e \in Entries' : EntryOk(e)
      BY <1>1, <2>1, <2>4
    <2> QED BY <2>5, <2>6 DEF EntriesInv, EntryOk, Apart
  <1>6. EntryAges'
    <2>1. ASSUME NEW i \in DOMAIN ids PROVE EntryAge(ids[i], first[i])
      <3>1. /\ first[i] # 0 => AgeOk(ids[i], first[i], generation - 1) /\ ~HasChange(ids[i], rows \ unread)
            /\ first[i] = 0 => <<ids[i], generation>> \in changed
        BY DEF Inv, CreatingInv, AccumulatorAges
      <3>2. ids[i] \in Doc /\ ids[i] \in Int
        BY <1>3, ElementOfSeq, Numbers
      <3>3. \A r \in unread : r.doc # ids[i]
        BY <3>2
      <3>4. HasChange(ids[i], rows) => HasChange(ids[i], rows \ unread)
        BY <3>3 DEF HasChange
      <3> QED BY <3>1, <3>2, <3>4 DEF EntryAge, Inv, HistoryInv
    <2>2. \A e \in Entries' : /\ Len(e.first) = Len(e.ids)
                              /\ \A i \in DOMAIN e.ids : EntryAge(e.ids[i], e.first[i])
      BY <1>1, <1>2, <1>3, <2>1 DEF Inv, CreatingInv, EntryAges
    <2> QED BY <2>2 DEF EntryAges, EntryAge, AgeOk
  <1> QED BY <1>1, <1>4, <1>5, <1>6

LEMMA InvForNextTask ==
    ASSUME Inv, NEW row \in unread, ReadForNextTask(row)
    PROVE  Inv'
  <1>1. Reads(row) /\ ~SameDoc(row.doc) /\ ids # <<>> /\ PersistBuffered
    BY DEF ReadForNextTask
  <1>2. /\ row \in Row /\ row \in rows /\ row.doc \in Doc /\ row.doc \in Int /\ generation > 0
        /\ creator = "reading" /\ creator' = "reading"
        /\ UNCHANGED <<generation, ts, queue, rows, attempt, groupFailed, tasks, mismatches, seen, failures, changed>>
        /\ rows \ unread' = (rows \ unread) \union {row} /\ unread' \subseteq unread
        /\ \A r \in unread : row.doc <= r.doc /\ r.doc \in Int
        /\ \A r \in rows : r.doc \in Int
        /\ DOMAIN ids = 1..Len(ids) /\ Len(ids) \in Nat
        /\ \A i \in DOMAIN ids : ids[i] \in Doc /\ ids[i] \in Int
    BY <1>1, Reading
  <1>3. /\ \A i \in DOMAIN ids : ids[i] < row.doc
        /\ \A r \in rows \ unread : r.doc < row.doc
        /\ \A i \in DOMAIN ids : \A r \in unread : ids[i] < r.doc
    BY <1>1, OtherDoc
  <1>4. /\ ids' = <<row.doc>> /\ first' = <<FirstOf(row)>> /\ latest' = Newer(NoTs, row)
        /\ made' = made + 1
    BY <1>1 DEF ReadForNextTask, PersistBuffered
  <1>5. DOMAIN ids' = {1} /\ ids'[1] = row.doc /\ first'[1] = FirstOf(row) /\ ids' # <<>> /\ Len(ids') = 1
    BY <1>4
  <1>6. TypeOK'
    BY TypeReads DEF Inv
  <1>7. PICK list : list = Append(buffer, NewTask(made + 1))
    OBVIOUS
  <1>8. \/ buffer' = list /\ UNCHANGED requests
        \/ buffer' = <<>> /\ requests' = requests \union {Request(list)}
    BY <1>1, <1>7 DEF PersistBuffered
  <1>9. NumbersInv' /\ EntriesInv' /\ EntryAges' /\ Entries' = Entries \union {NewEntry}
    BY <1>1, <1>2, <1>3, <1>4, <1>7, <1>8, Flushed
  <1>10. CreatorInv'
    BY <1>2, <1>5 DEF CreatorInv
  <1>11. AccumulatorsInv'
    <2>1. /\ \A i, j \in DOMAIN ids' : ~(i < j)
          /\ \A i, j \in DOMAIN ids' : Ns(ids'[i]) = Ns(ids'[j])
          /\ Len(ids') <= MaxIds
      BY <1>5, Numbers
    <2>2. \A i \in DOMAIN ids' : \A r \in unread' : ids'[i] <= r.doc
      BY <1>2, <1>5
    <2>3. \A r \in rows \ unread' : r.doc <= ids'[Len(ids')]
      BY <1>2, <1>3, <1>5
    <2>4. ASSUME NEW e \in Entries', e.attempt = attempt, NEW i \in DOMAIN e.ids
          PROVE  e.ids[i] < row.doc
      <3>1. CASE e = NewEntry
        BY <1>3, <3>1 DEF NewEntry
      <3>2. CASE e \in Entries
        <4>1. 1 \in DOMAIN ids
          BY <1>1, <1>2, EmptySeq
        <4>2. e.ids[i] < ids[1]
          BY <1>2, <2>4, <3>2, <4>1 DEF Inv, CreatingInv, AccumulatorsInv
        <4>3. e.ids[i] \in Int
          <5>1. e.ids \in Seq(Doc)
            BY <3>2, EntryTypes DEF Inv
          <5> QED BY <5>1, LenProperties, ElementOfSeq, Numbers
        <4> QED BY <1>2, <1>3, <4>1, <4>2, <4>3
      <3> QED BY <1>9, <3>1, <3>2
    <2> QED BY <1>2, <1>5, <2>1, <2>2, <2>3, <2>4 DEF AccumulatorsInv
  <1>12. PlacedInv'
    <2> SUFFICES ASSUME ~groupFailed, NEW r \in rows \ unread'
                 PROVE  \/ CoveredBy(ids', latest', r)
                        \/ \E e \in Entries' : e.attempt = attempt /\ CoveredBy(e.ids, e.latest, r)
      BY <1>2 DEF PlacedInv, CoveredBy
    <2>1. CASE r = row
      <3>1. NoTs \in [Side -> Nat]
        BY DEF NoTs
      <3> QED BY <1>2, <1>4, <1>5, <2>1, <3>1, NewerOf DEF CoveredBy
    <2>2. CASE r \in rows \ unread
      <3>1. \/ CoveredBy(ids, latest, r)
            \/ \E e \in Entries : e.attempt = attempt /\ CoveredBy(e.ids, e.latest, r)
        BY <1>2, <2>2 DEF Inv, CreatingInv, PlacedInv
      <3>2. NewEntry.ids = ids /\ NewEntry.latest = latest /\ NewEntry.attempt = attempt
        BY DEF NewEntry
      <3> QED BY <1>9, <3>1, <3>2
    <2> QED BY <1>2, <2>1, <2>2
  <1>13. AccumulatorAges'
    <2>1. \A r \in rows \ unread' : r.doc = row.doc => r = row
      BY <1>2, <1>3
    <2>2. rows \ unread' \subseteq rows
      OBVIOUS
    <2>3. /\ FirstOf(row) # 0 => /\ AgeOk(row.doc, FirstOf(row), generation - 1)
                                 /\ ~HasChange(row.doc, rows \ unread')
          /\ FirstOf(row) = 0 => <<row.doc, generation>> \in changed
      BY <1>2, <2>1, <2>2, FirstRow
    <2> QED BY <1>2, <1>5, <2>3 DEF AccumulatorAges, AgeOk, HasChange
  <1>14. Creating
    BY <1>2 DEF Creating
  <1> QED BY <1>6, <1>9, <1>10, <1>11, <1>12, <1>13, <1>14, CreatingFrame DEF Inv, CreatingInv

LEMMA InvEnds ==
    ASSUME Inv, EndRows
    PROVE  Inv'
  <1> USE DEF records
  <1>1. /\ creator = "reading" /\ unread = {} /\ creator' = "waiting" /\ made' = made + 1
        /\ requests' = requests \union {Request(Append(buffer, NewTask(made + 1)))}
        /\ buffer' = <<>> /\ ids' = <<>> /\ first' = <<>>
        /\ UNCHANGED <<generation, ts, queue, rows, attempt, unread, groupFailed, tasks, mismatches, seen,
                       failures, changed>>
    BY DEF EndRows, NoAccumulators
  <1>2. generation > 0 /\ ids # <<>>
    BY <1>1 DEF Inv, CreatingInv, CreatorInv, TypeOK
  <1>3. TypeOK'
    BY TypeEnds DEF Inv
  <1>4. PICK list : list = Append(buffer, NewTask(made + 1))
    OBVIOUS
  <1>5. NumbersInv' /\ EntriesInv' /\ EntryAges' /\ Entries' = Entries \union {NewEntry}
    BY <1>1, <1>2, <1>4, Flushed
  <1>6. CreatorInv'
    BY <1>1, <1>2 DEF Inv, CreatingInv, CreatorInv
  <1>7. AccumulatorsInv' /\ AccumulatorAges'
    BY <1>1, Numbers DEF AccumulatorsInv, AccumulatorAges
  <1>8. PlacedInv'
    <2> SUFFICES ASSUME ~groupFailed, NEW r \in rows \ unread
                 PROVE  \E e \in Entries' : e.attempt = attempt /\ CoveredBy(e.ids, e.latest, r)
      BY <1>1 DEF PlacedInv, CoveredBy
    <2>1. \/ CoveredBy(ids, latest, r)
          \/ \E e \in Entries : e.attempt = attempt /\ CoveredBy(e.ids, e.latest, r)
      BY <1>1 DEF Inv, CreatingInv, PlacedInv
    <2>2. NewEntry.ids = ids /\ NewEntry.latest = latest /\ NewEntry.attempt = attempt
      BY DEF NewEntry
    <2> QED BY <1>5, <2>1, <2>2
  <1>9. Creating
    BY <1>1 DEF Creating
  <1> QED BY <1>3, <1>5, <1>6, <1>7, <1>8, <1>9, CreatingFrame DEF Inv, CreatingInv

-----------------------------------------------------------------------------
\* Insertions.

LEMMA InvStored ==
    ASSUME Inv, NEW r \in requests, NEW k \in 0..Len(r.list), Stored(r, k),
           groupFailed' \in BOOLEAN, failures' \in 0..MaxFailures,
           ~groupFailed' => ~groupFailed /\ (k = Len(r.list) \/ r.attempt < attempt)
    PROVE  Inv'
  <1> USE DEF accumulators, records
  <1>1. /\ UNCHANGED <<generation, ts, queue, rows, creator, attempt, unread, ids, first, latest, buffer,
                       made, mismatches, seen, changed>>
        /\ requests' \subseteq requests
    BY DEF Stored
  <1>2. generation > 0
    BY DEF Inv, CreatingInv, CreatorInv, TypeOK
  <1>3. TypeOK'
    BY TypeStores DEF Inv
  <1>4. /\ Saved \subseteq Saved' /\ Entries' \subseteq Entries
        /\ \A e \in Entries : e.attempt # r.attempt \/ k = Len(r.list) => e \in Entries'
    BY <1>2, StoredEntries DEF Inv, CreatingInv
  <1>5. CreatorInv'
    BY <1>1, <1>2 DEF Inv, CreatingInv, CreatorInv
  <1>6. NumbersInv'
    BY <1>1, <1>4 DEF Inv, CreatingInv, NumbersInv, OfList
  <1>7. AccumulatorsInv'
    BY <1>1, <1>4 DEF Inv, CreatingInv, AccumulatorsInv
  <1>8. EntriesInv' /\ EntryAges'
    BY <1>1, <1>4, SubEntries DEF Inv, CreatingInv
  <1>9. PlacedInv'
    <2>1. ~groupFailed' => \A e \in Entries : e.attempt = attempt => e \in Entries'
      <3>1. r.attempt \in Nat /\ attempt \in Nat
        BY DEF Inv, TypeOK
      <3> QED BY <1>4, <3>1
    <2>2. ASSUME creator \in {"reading", "waiting"}, ~groupFailed', NEW row \in rows \ unread
          PROVE  \/ CoveredBy(ids, latest, row)
                 \/ \E e \in Entries' : e.attempt = attempt /\ CoveredBy(e.ids, e.latest, row)
      BY <2>1, <2>2 DEF Inv, CreatingInv, PlacedInv
    <2>3. ASSUME creator = "completed", NEW row \in rows
          PROVE  \E e \in Saved' : CoveredBy(e.ids, e.latest, row)
      BY <1>4, <2>3 DEF Inv, CreatingInv, PlacedInv
    <2> QED BY <1>1, <2>2, <2>3 DEF PlacedInv, CoveredBy
  <1>10. AccumulatorAges'
    BY <1>1 DEF Inv, CreatingInv, AccumulatorAges, AgeOk, HasChange
  <1>11. Creating
    BY <1>1, StoredTasks DEF Creating, Inv
  <1> QED BY <1>3, <1>5, <1>6, <1>7, <1>8, <1>9, <1>10, <1>11, CreatingFrame DEF Inv, CreatingInv

LEMMA InvCompletes ==
    ASSUME Inv, CompleteCreator
    PROVE  Inv'
  <1> USE DEF accumulators, output, records
  <1>1. /\ creator = "waiting" /\ ~groupFailed /\ creator' = "completed"
        /\ \A r \in requests : r.attempt < attempt
        /\ UNCHANGED <<generation, ts, queue, rows, attempt, unread, ids, first, latest, buffer, requests,
                       groupFailed, made, tasks, mismatches, seen, failures, changed>>
    BY DEF CompleteCreator, Waited
  <1>2. Saved' = Saved /\ Entries' = Entries
    BY <1>1, SavedSame, EntriesSame
  <1>3. TypeOK'
    BY <1>1 DEF Inv, TypeOK
  <1>4. CreatorInv' /\ NumbersInv' /\ AccumulatorsInv'
    BY <1>1, <1>2 DEF Inv, CreatingInv, CreatorInv, NumbersInv, OfList, AccumulatorsInv, TypeOK
  <1>5. EntriesInv' /\ EntryAges'
    BY <1>1, <1>2, SubEntries DEF Inv, CreatingInv
  <1>6. AccumulatorAges'
    BY <1>1 DEF Inv, CreatingInv, AccumulatorAges, AgeOk, HasChange
  <1>7. PlacedInv'
    <2> SUFFICES ASSUME NEW row \in rows
                 PROVE  \E e \in Saved : CoveredBy(e.ids, e.latest, row)
      BY <1>1, <1>2 DEF PlacedInv, CoveredBy
    <2>1. ids = <<>> /\ buffer = <<>> /\ unread = {} /\ generation > 0
      BY <1>1 DEF Inv, CreatingInv, CreatorInv, TypeOK
    <2>2. PICK e \in Entries : e.attempt = attempt /\ CoveredBy(e.ids, e.latest, row)
      BY <1>1, <2>1 DEF Inv, CreatingInv, PlacedInv, CoveredBy
    <2>3. \A r \in requests : e \notin OfList(r.list)
      <3>1. attempt \in Nat
        BY DEF Inv, TypeOK
      <3> QED BY <1>1, <2>1, <2>2, <3>1 DEF Inv, CreatingInv, NumbersInv
    <2>4. e \in Saved
      BY <2>1, <2>3, WhereEntries, EmptyList
    <2> QED BY <2>2, <2>4
  <1>8. Creating
    BY <1>1 DEF Creating
  <1> QED BY <1>3, <1>4, <1>5, <1>6, <1>7, <1>8, CreatingFrame DEF Inv, CreatingInv

-----------------------------------------------------------------------------
\* Changes and comparisons.

\* Time goes on: what is seen stays so, and no change is of this generation any more.
Onward ==
    /\ seen \subseteq seen'
    /\ \A d, g : <<d, g>> \in changed => <<d, g>> \in changed'
    /\ \A d, g : <<d, g>> \in changed' => <<d, g>> \in changed \/ g = generation + 1

LEMMA AgeStays ==
    ASSUME Onward, generation \in Nat, NEW d, NEW f, NEW g \in Int, g <= generation, AgeOk(d, f, g)
    PROVE  AgeOk(d, f, g)'
  <1>1. \A h \in f..g : h # generation + 1
    OBVIOUS
  <1> QED BY <1>1 DEF Onward, AgeOk

\* What is recorded and enqueued so far stays right.
LEMMA PastStays ==
    ASSUME Inv, Onward, UNCHANGED generation
    PROVE  /\ \A r \in queue : r.origin = "compare" => AgeOk(r.doc, r.time, generation)'
           /\ \A r \in rows : r.origin = "compare" => AgeOk(r.doc, r.time, generation - 1)'
           /\ \A m \in mismatches : AgeOk(m.doc, m.first, m.generation)'
  <1>1. generation \in Nat
    BY Numbers DEF Inv, TypeOK
  <1>2. ASSUME NEW r \in queue, r.origin = "compare"
        PROVE  AgeOk(r.doc, r.time, generation)'
    <2>1. PICK d, f, g : d = r.doc /\ f = r.time /\ g = generation
      OBVIOUS
    <2>2. AgeOk(d, f, g)
      BY <1>2, <2>1 DEF Inv, HistoryInv
    <2>3. AgeOk(d, f, g)'
      BY <1>1, <2>1, <2>2, AgeStays
    <2> QED BY <2>1, <2>3 DEF AgeOk
  <1>3. ASSUME NEW r \in rows, r.origin = "compare"
        PROVE  AgeOk(r.doc, r.time, generation - 1)'
    <2>1. PICK d, f, g : d = r.doc /\ f = r.time /\ g = generation - 1
      OBVIOUS
    <2>2. AgeOk(d, f, g)
      BY <1>3, <2>1 DEF Inv, HistoryInv
    <2>3. AgeOk(d, f, g)'
      BY <1>1, <2>1, <2>2, AgeStays
    <2> QED BY <2>1, <2>3 DEF AgeOk
  <1>4. ASSUME NEW m \in mismatches
        PROVE  AgeOk(m.doc, m.first, m.generation)'
    <2>1. AgeOk(m.doc, m.first, m.generation)
      BY DEF Inv, MismatchInv, AgeSound, AgeOk
    <2>2. m.generation \in Int /\ m.generation <= generation
      BY DEF Inv, TypeOK, MismatchInfo, MismatchInv, RecordsInv
    <2> QED BY <1>1, <2>1, <2>2, AgeStays
  <1> QED BY <1>2, <1>3, <1>4

LEMMA CreatingKept ==
    ASSUME Inv, Onward, UNCHANGED <<generation, rows, creatorVars>>, Saved' = Saved
    PROVE  CreatingInv'
  <1> USE DEF creatorVars, accumulators, output
  <1>1. Entries' = Entries
    BY EntriesSame
  <1>2. generation \in Nat /\ generation - 1 \in Int /\ generation - 1 <= generation /\ generation # generation + 1
    BY Numbers DEF Inv, TypeOK
  <1>3. \A d, f : AgeOk(d, f, generation - 1) => AgeOk(d, f, generation - 1)'
    BY <1>2, AgeStays
  <1>4. \A d : <<d, generation>> \in changed <=> <<d, generation>> \in changed'
    BY <1>2 DEF Onward
  <1>5. CreatorInv' /\ NumbersInv' /\ AccumulatorsInv' /\ EntriesInv' /\ PlacedInv'
    BY <1>1 DEF Inv, CreatingInv, CreatorInv, NumbersInv, OfList, AccumulatorsInv, EntriesInv, EntryOk, Apart,
                PlacedInv, CoveredBy
  <1>6. EntryAges'
    <2>1. \A d, f : EntryAge(d, f) => EntryAge(d, f)'
      <3> SUFFICES ASSUME NEW d, NEW f, EntryAge(d, f) PROVE EntryAge(d, f)'
        OBVIOUS
      <3>1. f # 0 => AgeOk(d, f, generation - 1)' /\ <<d, generation>> \notin changed'
        BY <1>3, <1>4 DEF EntryAge
      <3>2. f = 0 /\ generation > 0 => <<d, generation>> \in changed'
        BY <1>4 DEF EntryAge
      <3> QED BY <3>1, <3>2 DEF EntryAge, AgeOk
    <2> QED BY <1>1, <2>1 DEF Inv, CreatingInv, EntryAges
  <1>7. AccumulatorAges'
    <2> SUFFICES ASSUME NEW i \in DOMAIN ids
                 PROVE  /\ first[i] # 0 => /\ AgeOk(ids[i], first[i], generation - 1)'
                                           /\ ~HasChange(ids[i], rows \ unread)
                        /\ first[i] = 0 => <<ids[i], generation>> \in changed'
      BY DEF AccumulatorAges, AgeOk, HasChange
    <2>1. /\ first[i] # 0 => AgeOk(ids[i], first[i], generation - 1) /\ ~HasChange(ids[i], rows \ unread)
          /\ first[i] = 0 => <<ids[i], generation>> \in changed
      BY DEF Inv, CreatingInv, AccumulatorAges
    <2>2. PICK d, f : d = ids[i] /\ f = first[i]
      OBVIOUS
    <2>3. AgeOk(d, f, generation - 1) => AgeOk(d, f, generation - 1)'
      BY <1>3
    <2> QED BY <1>4, <2>1, <2>2, <2>3 DEF AgeOk
  <1> QED BY <1>5, <1>6, <1>7 DEF CreatingInv

LEMMA InvChange ==
    ASSUME Inv, NEW d \in Doc, NEW s \in Side, Change(d, s)
    PROVE  Inv'
  <1> USE DEF records
  <1>1. /\ generation < MaxGen /\ ts[s] < MaxChanges /\ ts' = [ts EXCEPT ![s] = @ + 1]
        /\ changed' = changed \union {<<d, generation + 1>>}
        /\ UNCHANGED <<generation, rows, creatorVars, tasks, mismatches, seen, failures>>
    BY DEF Change
  <1>2. PICK row : row = [doc |-> d, origin |-> s, time |-> ts[s] + 1]
    OBVIOUS
  <1>3. queue' = queue \union {row} /\ row.doc = d /\ row.origin = s
    BY <1>2 DEF Change
  <1>4. generation \in Nat /\ ts \in [Side -> 0..MaxChanges] /\ ts[s] \in Nat
    BY Numbers DEF Inv, TypeOK
  <1>5. TypeOK'
    <2>1. row \in Row
      BY <1>2, <1>4 DEF Row
    <2>2. ts' \in [Side -> 0..MaxChanges]
      BY <1>1, <1>4, Numbers
    <2>3. changed' \subseteq Doc \X (0..MaxGen)
      <3>1. <<d, generation + 1>> \in Doc \X (0..MaxGen)
        BY <1>1, <1>4, Numbers
      <3> QED BY <1>1, <3>1 DEF Inv, TypeOK
    <2> QED BY <1>1, <1>3, <2>1, <2>2, <2>3 DEF Inv, TypeOK, creatorVars, accumulators, output
  <1>6. Onward
    BY <1>1 DEF Onward
  <1>7. CreatingInv'
    BY <1>1, <1>6, CreatingKept, SavedSame
  <1>8. /\ \A r \in queue : r.origin = "compare" => AgeOk(r.doc, r.time, generation)'
        /\ \A r \in rows : r.origin = "compare" => AgeOk(r.doc, r.time, generation - 1)'
        /\ \A m \in mismatches : AgeOk(m.doc, m.first, m.generation)'
    BY <1>1, <1>6, PastStays
  <1>9. HistoryInv'
    <2>1. \A e, g : <<e, g>> \in changed' => g \in 1..generation + 1
      BY <1>1, <1>4 DEF Inv, HistoryInv
    <2>2. \A e \in Doc : <<e, generation>> \in changed' <=> HasChange(e, rows)
      BY <1>1, <1>4 DEF Inv, HistoryInv
    <2>3. \A e \in Doc : <<e, generation + 1>> \in changed' <=> HasChange(e, queue')
      BY <1>1, <1>3, <1>4 DEF Inv, HistoryInv, HasChange
    <2>4. \A r \in queue' : r.origin = "compare" => r \in queue
      BY <1>3 DEF Side
    <2> QED BY <1>1, <1>8, <2>1, <2>2, <2>3, <2>4 DEF HistoryInv, HasChange, AgeOk
  <1>10. MismatchInv'
    <2>1. RecordsInv' /\ CountedOnce'
      BY <1>1 DEF Inv, MismatchInv, RecordsInv, CountedOnce, Counted
    <2>2. AgeSound'
      BY <1>1, <1>8 DEF AgeSound, AgeOk
    <2>3. AgeKept'
      BY <1>1 DEF Inv, MismatchInv, AgeKept
    <2> QED BY <2>1, <2>2, <2>3 DEF MismatchInv
  <1> QED BY <1>5, <1>7, <1>9, <1>10 DEF Inv

\* The age with which a task's mismatch is recorded and enqueued.
LEMMA FirstTimeOf ==
    ASSUME Inv, NEW n \in DOMAIN tasks, NEW d \in Members(tasks[n])
    PROVE  /\ FirstTime(tasks[n], d) \in 1..generation + 1
           /\ \A h \in FirstTime(tasks[n], d) - 1..generation - 1 : <<d, h>> \in seen
           /\ \A h \in FirstTime(tasks[n], d)..generation : <<d, h>> \notin changed
           /\ generation > 0 /\ <<d, generation>> \notin changed => FirstTime(tasks[n], d) <= generation
           /\ d \in Doc
  <1>1. tasks[n] \in Task /\ generation \in Nat
    BY Numbers DEF Inv, TypeOK
  <1>2. PICK t \in Task : t = tasks[n]
    BY <1>1
  <1>3. /\ Len(t.first) = Len(t.ids)
        /\ \A i \in DOMAIN t.ids : EntryAge(t.ids[i], t.first[i])
    <2>1. Entry(n, t) \in Entries
      BY <1>2, WhereEntries DEF Saved
    <2>2. Entry(n, t).ids = t.ids /\ Entry(n, t).first = t.first
      BY DEF Entry
    <2> QED BY <2>1, <2>2 DEF Inv, CreatingInv, EntryAges
  <1>4. PICK i \in DOMAIN t.ids : t.ids[i] = d
    BY <1>2 DEF Members
  <1>5. d \in Doc
    <2>1. t.ids \in Seq(Doc)
      BY DEF Task
    <2> QED BY <1>4, <2>1, LenProperties, ElementOfSeq
  <1>6. CASE KnownFirst(t, d) = 0
    <2>1. FirstTime(t, d) = generation + 1
      BY <1>6 DEF FirstTime
    <2>2. t.first[i] = 0
      BY <1>3, <1>4, <1>6, KnownFirstOf
    <2>3. generation > 0 => <<d, generation>> \in changed
      BY <1>3, <1>4, <2>2 DEF EntryAge
    <2> QED BY <1>1, <1>2, <1>5, <2>1, <2>3
  <1>7. CASE KnownFirst(t, d) # 0
    <2>1. PICK j \in DOMAIN t.ids : t.ids[j] = d /\ t.first[j] = KnownFirst(t, d)
      BY <1>3, <1>7, KnownFirstOf
    <2>2. PICK f : f = KnownFirst(t, d)
      OBVIOUS
    <2>3. FirstTime(t, d) = f
      BY <1>7, <2>2 DEF FirstTime
    <2>4. AgeOk(d, f, generation - 1) /\ <<d, generation>> \notin changed
      BY <1>3, <1>7, <2>1, <2>2 DEF EntryAge
    <2>5. /\ f \in 1..generation
          /\ \A h \in f - 1..generation - 1 : <<d, h>> \in seen
          /\ \A h \in f..generation - 1 : <<d, h>> \notin changed
      BY <1>1, <2>4 DEF AgeOk
    <2>6. \A h \in f..generation : h \in f..generation - 1 \/ h = generation
      BY <1>1, <2>5
    <2> QED BY <1>1, <1>2, <1>5, <2>3, <2>4, <2>5, <2>6
  <1> QED BY <1>6, <1>7

\* A comparison of task n with its records, be it complete or not.
LEMMA InvCompares ==
    ASSUME Inv, NEW n \in DOMAIN tasks, NEW t \in Task,
           tasks' = [tasks EXCEPT ![n] = t], Entry(n, t) = Entry(n, tasks[n]),
           NEW D \in SUBSET Members(tasks[n]), NEW E \in SUBSET Members(tasks[n]),
           queue' = queue \union Enqueued(n, D),
           seen' = seen \union ((D \union E) \X {generation}),
           mismatches' \subseteq mismatches \union Recorded(n, E),
           UNCHANGED <<generation, ts, rows, creatorVars, changed>>, failures' \in 0..MaxFailures,
           RecordsInv', CountedOnce'
    PROVE  Inv'
  <1>1. generation \in Nat /\ generation <= MaxGen /\ tasks[n] \in Task
    BY Numbers DEF Inv, TypeOK
  <1>2. DOMAIN tasks' = DOMAIN tasks /\ tasks'[n] = t /\ \A k \in DOMAIN tasks : k # n => tasks'[k] = tasks[k]
    OBVIOUS
  <1>3. ASSUME NEW d \in Members(tasks[n]), d \in D \union E
        PROVE  /\ d \in Doc /\ FirstTime(tasks[n], d) \in 1..generation + 1
               /\ \A h \in FirstTime(tasks[n], d) - 1..generation : <<d, h>> \in seen'
               /\ \A h \in FirstTime(tasks[n], d)..generation : <<d, h>> \notin changed'
               /\ generation > 0 /\ <<d, generation>> \notin changed' => FirstTime(tasks[n], d) <= generation
    <2>1. PICK f : f = FirstTime(tasks[n], d)
      OBVIOUS
    <2>2. /\ d \in Doc /\ f \in 1..generation + 1
          /\ \A h \in f - 1..generation - 1 : <<d, h>> \in seen
          /\ \A h \in f..generation : <<d, h>> \notin changed
          /\ generation > 0 /\ <<d, generation>> \notin changed => f <= generation
      BY <2>1, FirstTimeOf
    <2>3. \A h \in f - 1..generation : h \in f - 1..generation - 1 \/ h = generation
      BY <1>1, <2>2
    <2>4. <<d, generation>> \in seen'
      BY <1>3
    <2>5. \A h \in f - 1..generation : <<d, h>> \in seen'
      BY <2>2, <2>3, <2>4
    <2> QED BY <2>1, <2>2, <2>5
  <1>4. ASSUME NEW r \in Enqueued(n, D)
        PROVE  /\ r \in Row /\ r.origin = "compare"
               /\ r.time \in 1..generation + 1
               /\ \A h \in r.time - 1..generation : <<r.doc, h>> \in seen'
               /\ \A h \in r.time..generation : <<r.doc, h>> \notin changed'
    <2>1. PICK d \in D : r = [doc |-> d, origin |-> "compare", time |-> FirstTime(tasks[n], d)]
      BY DEF Enqueued
    <2>2. r.doc = d /\ r.origin = "compare" /\ r.time = FirstTime(tasks[n], d)
      BY <2>1
    <2>3. r.time \in 1..generation + 1 /\ d \in Doc
      BY <1>3, <2>2
    <2>4. r \in Row
      BY <2>1, <2>2, <2>3 DEF Row
    <2> QED BY <1>3, <2>2, <2>4
  <1>5. ASSUME NEW m \in Recorded(n, E)
        PROVE  /\ m \in MismatchInfo /\ m.generation = generation
               /\ m.first \in 1..generation + 1
               /\ \A h \in m.first - 1..generation : <<m.doc, h>> \in seen'
               /\ \A h \in m.first..generation : <<m.doc, h>> \notin changed'
               /\ generation > 0 /\ <<m.doc, generation>> \notin changed' => m.first <= generation
    <2>1. PICK d \in E : m = [generation |-> generation, task |-> n, doc |-> d, try |-> tasks[n].try,
                              first |-> FirstTime(tasks[n], d)]
      BY DEF Recorded
    <2>2. m.doc = d /\ m.generation = generation /\ m.first = FirstTime(tasks[n], d)
      BY <2>1
    <2>3. m.first \in 1..generation + 1 /\ d \in Doc
      BY <1>3, <2>2
    <2>4. tasks[n].try \in Nat /\ n \in Nat
      BY <1>1 DEF Task, Inv, TypeOK
    <2>5. m \in MismatchInfo
      BY <1>1, <2>1, <2>2, <2>3, <2>4 DEF MismatchInfo
    <2> QED BY <1>3, <2>2, <2>5
  <1>6. Onward
    BY DEF Onward
  <1>7. Saved' = Saved
    <2>1. ASSUME NEW k \in DOMAIN tasks PROVE Entry(k, tasks'[k]) = Entry(k, tasks[k])
      BY <1>2
    <2>2. Saved' = {Entry(k, tasks'[k]) : k \in DOMAIN tasks}
      BY <1>2 DEF Saved, Entry
    <2> QED BY <2>1, <2>2 DEF Saved
  <1>8. CreatingInv'
    BY <1>6, <1>7, CreatingKept
  <1>9. /\ \A r \in queue : r.origin = "compare" => AgeOk(r.doc, r.time, generation)'
        /\ \A r \in rows : r.origin = "compare" => AgeOk(r.doc, r.time, generation - 1)'
        /\ \A m \in mismatches : AgeOk(m.doc, m.first, m.generation)'
    BY <1>6, PastStays
  <1>10. TypeOK'
    <2>1. DOMAIN tasks' \subseteq Nat /\ \A k \in DOMAIN tasks' : tasks'[k] \in Task
      BY <1>2 DEF Inv, TypeOK
    <2>2. queue' \subseteq Row /\ mismatches' \subseteq MismatchInfo
      BY <1>4, <1>5 DEF Inv, TypeOK
    <2>3. seen' \subseteq Doc \X (0..MaxGen)
      <3>1. \A d \in D \union E : d \in Doc
        BY <1>3
      <3>2. generation \in 0..MaxGen /\ seen \subseteq Doc \X (0..MaxGen)
        BY DEF Inv, TypeOK
      <3> QED BY <3>1, <3>2
    <2> QED BY <2>1, <2>2, <2>3 DEF Inv, TypeOK, creatorVars, accumulators, output
  <1>11. HistoryInv'
    <2>1. \A d, g : <<d, g>> \in changed' => g \in 1..generation + 1
      BY DEF Inv, HistoryInv
    <2>2. \A d \in Doc : <<d, generation>> \in changed' <=> HasChange(d, rows)
      BY DEF Inv, HistoryInv
    <2>3. \A d \in Doc : <<d, generation + 1>> \in changed' <=> HasChange(d, queue')
      <3>1. "compare" \notin Side
        BY DEF Side
      <3> QED BY <1>4, <3>1 DEF Inv, HistoryInv, HasChange
    <2>4. \A r \in queue' : r.origin = "compare" => AgeOk(r.doc, r.time, generation)'
      BY <1>4, <1>9 DEF AgeOk
    <2> QED BY <1>9, <2>1, <2>2, <2>3, <2>4 DEF HistoryInv, HasChange, AgeOk
  <1>12. AgeSound'
    <2>1. \A m \in mismatches' : m \in mismatches \/ m \in Recorded(n, E)
      OBVIOUS
    <2>2. \A m \in mismatches' :
            /\ m.first \in 1..m.generation + 1
            /\ \A g \in m.first - 1..m.generation : <<m.doc, g>> \in seen'
            /\ \A g \in m.first..m.generation : <<m.doc, g>> \notin changed'
      BY <1>5, <1>9, <2>1 DEF AgeOk
    <2> QED BY <2>2 DEF AgeSound
  <1>13. AgeKept'
    <2>1. \A m \in mismatches' : m \in mismatches \/ m \in Recorded(n, E)
      OBVIOUS
    <2>2. \A m \in mismatches' :
            m.generation > 0 /\ <<m.doc, m.generation>> \notin changed' => m.first <= m.generation
      BY <1>5, <2>1 DEF Inv, MismatchInv, AgeKept
    <2> QED BY <2>2 DEF AgeKept
  <1> QED BY <1>8, <1>10, <1>11, <1>12, <1>13 DEF Inv, MismatchInv

LEMMA RecordedFields ==
    ASSUME NEW n, NEW E
    PROVE  /\ \A m \in Recorded(n, E) : m.generation = generation /\ m.task = n
           /\ \A m, o \in Recorded(n, E) : m.doc = o.doc => m = o
  BY DEF Recorded

LEMMA InvProcess ==
    ASSUME Inv, NEW n \in DOMAIN tasks, ProcessVerifyTask(n)
    PROVE  Inv'
  <1>1. PICK bad \in SUBSET Members(tasks[n]) :
            /\ tasks' = [tasks EXCEPT ![n].status = IF bad = {} THEN "completed" ELSE "failed"]
            /\ mismatches' = mismatches \union Recorded(n, bad)
            /\ queue' = queue \union Enqueued(n, bad)
            /\ seen' = seen \union (bad \X {generation})
    BY DEF ProcessVerifyTask
  <1>2. /\ tasks[n].status = "added"
        /\ UNCHANGED <<generation, ts, rows, creatorVars, failures, changed>>
    BY DEF ProcessVerifyTask
  <1>3. tasks[n] \in Task /\ failures \in 0..MaxFailures
    BY DEF Inv, TypeOK
  <1>4. PICK t : t = [tasks[n] EXCEPT !.status = IF bad = {} THEN "completed" ELSE "failed"]
    OBVIOUS
  <1>5. /\ t \in Task /\ tasks' = [tasks EXCEPT ![n] = t] /\ Entry(n, t) = Entry(n, tasks[n])
        /\ t.status # "added" /\ t.unclear = tasks[n].unclear
    BY <1>1, <1>3, <1>4 DEF Task, Entry
  <1>6. DOMAIN tasks' = DOMAIN tasks /\ tasks'[n] = t /\ \A k \in DOMAIN tasks : k # n => tasks'[k] = tasks[k]
    BY <1>5
  <1>7. \A m \in mismatches' : m \in mismatches \/ m \in Recorded(n, bad)
    BY <1>1
  <1>8. RecordsInv'
    <2>1. \A m \in mismatches' : m.generation <= generation
      <3>1. generation \in Nat
        BY Numbers DEF Inv, TypeOK
      <3> QED BY <1>7, <3>1, RecordedFields DEF Inv, MismatchInv, RecordsInv
    <2>2. ASSUME NEW m \in mismatches', m.generation = generation
          PROVE  m.task \in DOMAIN tasks' /\ (tasks'[m.task].status = "added" => tasks'[m.task].unclear)
      <3>1. CASE m.task = n
        BY <1>5, <1>6, <3>1
      <3>2. CASE m.task # n
        <4>1. m \in Counted(generation)
          BY <1>7, <2>2, <3>2, RecordedFields DEF Counted
        <4> QED BY <1>6, <3>2, <4>1 DEF Inv, MismatchInv, RecordsInv
      <3> QED BY <3>1, <3>2
    <2> QED BY <1>2, <2>1, <2>2 DEF RecordsInv, Counted
  <1>9. CountedOnce'
    <2> SUFFICES ASSUME NEW m \in mismatches', NEW o \in mismatches', m.generation = generation,
                        o.generation = generation, m.task = o.task, m.doc = o.doc,
                        ~tasks'[m.task].unclear
                 PROVE  m = o
      BY <1>2 DEF CountedOnce, Counted
    <2>1. CASE m.task = n
      <3>1. m \notin mismatches /\ o \notin mismatches
        BY <1>2, <1>5, <1>6, <2>1 DEF Inv, MismatchInv, RecordsInv, Counted
      <3> QED BY <1>7, <3>1, RecordedFields
    <2>2. CASE m.task # n
      <3>1. m \in Counted(generation) /\ o \in Counted(generation)
        BY <1>7, <2>2, RecordedFields DEF Counted
      <3>2. tasks'[m.task] = tasks[m.task]
        BY <1>6, <2>2, <3>1 DEF Inv, MismatchInv, RecordsInv
      <3> QED BY <3>1, <3>2 DEF Inv, MismatchInv, CountedOnce
    <2> QED BY <2>1, <2>2
  <1>10. seen' = seen \union ((bad \union bad) \X {generation})
    BY <1>1
  <1> QED BY <1>1, <1>2, <1>3, <1>5, <1>8, <1>9, <1>10, InvCompares

LEMMA InvTaskFails ==
    ASSUME Inv, NEW n \in DOMAIN tasks, TaskFails(n)
    PROVE  Inv'
  <1>1. PICK D \in SUBSET Members(tasks[n]), E \in SUBSET Members(tasks[n]) :
            /\ queue' = queue \union Enqueued(n, D)
            /\ seen' = seen \union ((D \union E) \X {generation})
            /\ \/ /\ mismatches' = Cleared(mismatches \union Recorded(n, E), n)
                  /\ tasks' = [tasks EXCEPT ![n].try = @ + 1]
               \/ /\ mismatches' = mismatches \union Recorded(n, E)
                  /\ tasks' = [tasks EXCEPT ![n].try = @ + 1, ![n].unclear = TRUE]
    BY DEF TaskFails
  <1>2. /\ tasks[n].status = "added" /\ failures < MaxFailures /\ failures' = failures + 1
        /\ UNCHANGED <<generation, ts, rows, creatorVars, changed>>
    BY DEF TaskFails, Fail
  <1>3. tasks[n] \in Task /\ failures' \in 0..MaxFailures
    BY <1>2, Numbers DEF Inv, TypeOK
  <1>4. PICK u \in BOOLEAN :
            /\ tasks' = [tasks EXCEPT ![n] = [tasks[n] EXCEPT !.try = @ + 1, !.unclear = u]]
            /\ u \/ (u = tasks[n].unclear /\ mismatches' = Cleared(mismatches \union Recorded(n, E), n))
            /\ mismatches' \subseteq mismatches \union Recorded(n, E)
    <2>1. CASE /\ mismatches' = Cleared(mismatches \union Recorded(n, E), n)
               /\ tasks' = [tasks EXCEPT ![n].try = @ + 1]
      <3>1. tasks[n].unclear \in BOOLEAN
        BY <1>3 DEF Task
      <3>2. [tasks[n] EXCEPT !.try = @ + 1] = [tasks[n] EXCEPT !.try = @ + 1, !.unclear = tasks[n].unclear]
        BY <1>3 DEF Task
      <3>3. tasks' = [tasks EXCEPT ![n] = [tasks[n] EXCEPT !.try = @ + 1]]
        BY <2>1
      <3>4. mismatches' \subseteq mismatches \union Recorded(n, E)
        BY <2>1 DEF Cleared
      <3> QED BY <2>1, <3>1, <3>2, <3>3, <3>4
    <2>2. CASE /\ mismatches' = mismatches \union Recorded(n, E)
               /\ tasks' = [tasks EXCEPT ![n].try = @ + 1, ![n].unclear = TRUE]
      <3>1. tasks' = [tasks EXCEPT ![n] = [tasks[n] EXCEPT !.try = @ + 1, !.unclear = TRUE]]
        BY <2>2
      <3> QED BY <2>2, <3>1
    <2> QED BY <1>1, <2>1, <2>2
  <1>5. PICK t : t = [tasks[n] EXCEPT !.try = @ + 1, !.unclear = u]
    OBVIOUS
  <1>6. /\ t \in Task /\ tasks' = [tasks EXCEPT ![n] = t] /\ Entry(n, t) = Entry(n, tasks[n])
        /\ t.status = "added" /\ t.unclear = u
    <2>1. t \in Task
      <3>1. tasks[n].try + 1 \in Nat
        BY <1>3 DEF Task
      <3>2. t = [tasks[n] EXCEPT !.try = tasks[n].try + 1, !.unclear = u]
        BY <1>5
      <3> QED BY <1>3, <3>1, <3>2 DEF Task
    <2>2. /\ t.ids = tasks[n].ids /\ t.first = tasks[n].first /\ t.latest = tasks[n].latest
          /\ t.attempt = tasks[n].attempt /\ t.status = tasks[n].status /\ t.unclear = u
      BY <1>3, <1>5 DEF Task
    <2>3. tasks' = [tasks EXCEPT ![n] = t]
      BY <1>4, <1>5
    <2> QED BY <1>2, <2>1, <2>2, <2>3 DEF Entry
  <1>7. DOMAIN tasks' = DOMAIN tasks /\ tasks'[n] = t /\ \A k \in DOMAIN tasks : k # n => tasks'[k] = tasks[k]
    BY <1>6
  <1>8. ~u => \A m \in mismatches' : m.generation = generation => m.task # n
    BY <1>4 DEF Cleared
  <1>9. \A m \in mismatches' : m \in mismatches \/ m \in Recorded(n, E)
    BY <1>4
  <1>10. RecordsInv'
    <2>1. \A m \in mismatches' : m.generation <= generation
      <3>1. generation \in Nat
        BY Numbers DEF Inv, TypeOK
      <3> QED BY <1>9, <3>1, RecordedFields DEF Inv, MismatchInv, RecordsInv
    <2>2. ASSUME NEW m \in mismatches', m.generation = generation
          PROVE  m.task \in DOMAIN tasks' /\ (tasks'[m.task].status = "added" => tasks'[m.task].unclear)
      <3>1. CASE m.task = n
        BY <1>6, <1>7, <1>8, <2>2, <3>1
      <3>2. CASE m.task # n
        <4>1. m \in Counted(generation)
          BY <1>9, <2>2, <3>2, RecordedFields DEF Counted
        <4> QED BY <1>7, <3>2, <4>1 DEF Inv, MismatchInv, RecordsInv
      <3> QED BY <3>1, <3>2
    <2> QED BY <1>2, <2>1, <2>2 DEF RecordsInv, Counted
  <1>11. CountedOnce'
    <2> SUFFICES ASSUME NEW m \in mismatches', NEW o \in mismatches', m.generation = generation,
                        o.generation = generation, m.task = o.task, m.doc = o.doc,
                        ~tasks'[m.task].unclear
                 PROVE  m = o
      BY <1>2 DEF CountedOnce, Counted
    <2>1. m.task # n
      BY <1>6, <1>7, <1>8
    <2>2. m \in Counted(generation) /\ o \in Counted(generation)
      BY <1>9, <2>1, RecordedFields DEF Counted
    <2>3. tasks'[m.task] = tasks[m.task]
      BY <1>7, <2>1, <2>2 DEF Inv, MismatchInv, RecordsInv
    <2> QED BY <2>2, <2>3 DEF Inv, MismatchInv, CountedOnce
  <1> QED BY <1>1, <1>2, <1>3, <1>4, <1>6, <1>10, <1>11, InvCompares

-----------------------------------------------------------------------------
\* The next generation.

LEMMA InvNextGeneration ==
    ASSUME Inv, NextGeneration
    PROVE  Inv'
  <1> USE DEF records
  <1>1. /\ generation < MaxGen /\ generation' = generation + 1 /\ rows' = queue /\ queue' = {}
        /\ creator' = IF queue = {} THEN "none" ELSE "added"
        /\ attempt' = 0 /\ unread' = {} /\ ids' = <<>> /\ first' = <<>> /\ latest' = NoTs
        /\ buffer' = <<>> /\ requests' = {} /\ groupFailed' = FALSE /\ made' = 0 /\ tasks' = <<>>
        /\ UNCHANGED <<ts, mismatches, seen, failures, changed>>
    BY DEF NextGeneration, NoAccumulators
  <1>2. generation \in Nat /\ generation' \in 0..MaxGen /\ generation' > 0
    BY <1>1, Numbers DEF Inv, TypeOK
  <1>3. TypeOK'
    <2>1. ids' \in Seq(Doc) /\ first' \in Seq(Nat) /\ Len(first') = Len(ids') /\ DOMAIN tasks' = {}
      BY <1>1
    <2>2. buffer' \in Seq([n : Nat, task : Task])
      BY <1>1
    <2>3. latest' \in [Side -> Nat]
      BY <1>1 DEF NoTs
    <2> QED BY <1>1, <1>2, <2>1, <2>2, <2>3 DEF Inv, TypeOK
  <1>4. \A e : e \notin Entries'
    <2>1. Saved' = {}
      BY <1>1 DEF Saved
    <2> QED BY <1>1, <2>1, WhereEntries, EmptyList
  <1>5. CreatorInv'
    BY <1>1, <1>2 DEF Inv, CreatingInv, CreatorInv
  <1>6. NumbersInv' /\ EntriesInv' /\ EntryAges'
    <2>1. OfList(buffer)' = {}
      BY <1>1 DEF OfList
    <2> QED BY <1>1, <1>4, <2>1 DEF NumbersInv, EntriesInv, EntryAges
  <1>7. AccumulatorsInv' /\ AccumulatorAges' /\ PlacedInv'
    BY <1>1, Numbers DEF AccumulatorsInv, AccumulatorAges, PlacedInv
  <1>8. HistoryInv'
    <2>1. \A d, g : <<d, g>> \in changed => g \in 1..generation + 1
      BY DEF Inv, HistoryInv
    <2>2. \A d, g : <<d, g>> \in changed' => g \in 1..generation' + 1
      BY <1>1, <1>2, <2>1
    <2>3. \A d \in Doc : <<d, generation'>> \in changed' <=> HasChange(d, rows')
      BY <1>1 DEF Inv, HistoryInv, HasChange
    <2>4. \A d \in Doc : <<d, generation' + 1>> \in changed' <=> HasChange(d, queue')
      BY <1>1, <1>2, <2>1 DEF HasChange
    <2>5. generation' - 1 = generation
      BY <1>1, <1>2
    <2>6. \A r \in rows' : r.origin = "compare" => AgeOk(r.doc, r.time, generation' - 1)
      BY <1>1, <2>5 DEF Inv, HistoryInv
    <2> QED BY <1>1, <2>2, <2>3, <2>4, <2>6 DEF HistoryInv, HasChange, AgeOk
  <1>9. MismatchInv'
    <2>1. \A m \in mismatches : m.generation \in Nat /\ m.generation <= generation
      BY DEF Inv, TypeOK, MismatchInfo, MismatchInv, RecordsInv
    <2>2. \A m \in mismatches' : m.generation <= generation' /\ m.generation # generation'
      BY <1>1, <1>2, <2>1
    <2>3. RecordsInv' /\ CountedOnce'
      BY <2>2 DEF RecordsInv, CountedOnce, Counted
    <2>4. AgeSound' /\ AgeKept'
      BY <1>1 DEF Inv, MismatchInv, AgeSound, AgeKept
    <2> QED BY <2>3, <2>4 DEF MismatchInv
  <1> QED BY <1>3, <1>5, <1>6, <1>7, <1>8, <1>9 DEF Inv, CreatingInv

\* Generation 0's tasks.
LEMMA PartitionTaskOf ==
    ASSUME NEW a \in Doc, NEW b \in Doc, a <= b
    PROVE  /\ PartitionTask(a, b) \in Task
           /\ Len(PartitionTask(a, b).first) = Len(PartitionTask(a, b).ids)
           /\ \A i \in DOMAIN PartitionTask(a, b).ids : PartitionTask(a, b).first[i] = 0
  <1> DEFINE n == b - a + 1
             list == [i \in 1..n |-> a + i - 1]
             none == [i \in 1..n |-> 0]
  <1>1. n \in Nat /\ a \in Int /\ b \in Int /\ a >= 1 /\ b <= Docs
    BY Numbers DEF Doc
  <1>2. \A i \in 1..n : a + i - 1 \in Doc
    BY <1>1, Numbers DEF Doc
  <1>3. list \in Seq(Doc) /\ none \in Seq(Nat) /\ Len(list) = n /\ Len(none) = n
    BY <1>1, <1>2
  <1>4. NoTs \in [Side -> Nat]
    BY DEF NoTs
  <1>5. /\ PartitionTask(a, b).ids = list /\ PartitionTask(a, b).first = none
        /\ PartitionTask(a, b) = [ids |-> list, first |-> none, latest |-> NoTs, attempt |-> 0, status |-> "added",
                                  try |-> 0, unclear |-> FALSE]
    BY DEF PartitionTask
  <1>6. \A i \in DOMAIN list : none[i] = 0
    OBVIOUS
  <1> HIDE DEF n, list, none
  <1>7. PartitionTask(a, b) \in Task
    BY <1>3, <1>4, <1>5 DEF Task
  <1> QED BY <1>3, <1>5, <1>6, <1>7

LEMMA InvInit == Init => Inv
  <1> SUFFICES ASSUME Init PROVE Inv
    OBVIOUS
  <1> DEFINE P == {t \in Task : Len(t.first) = Len(t.ids) /\ \A i \in DOMAIN t.ids : t.first[i] = 0}
  <1>1. tasks \in Seq(P)
    <2>1. PICK b \in 1..FirstColl : tasks =
              <<PartitionTask(1, b), PartitionTask(b, FirstColl)>> \o
              (IF FirstColl < Docs THEN <<PartitionTask(FirstColl + 1, Docs)>> ELSE <<>>)
      BY DEF Init
    <2>2. 1 \in Doc /\ b \in Doc /\ FirstColl \in Doc /\ 1 <= b /\ b <= FirstColl
      BY Numbers DEF Doc
    <2>3. PartitionTask(1, b) \in P /\ PartitionTask(b, FirstColl) \in P
      BY <2>2, PartitionTaskOf
    <2>4. FirstColl < Docs => PartitionTask(FirstColl + 1, Docs) \in P
      <3>1. FirstColl < Docs => FirstColl + 1 \in Doc /\ Docs \in Doc /\ FirstColl + 1 <= Docs
        BY Numbers DEF Doc
      <3> QED BY <3>1, PartitionTaskOf
    <2> HIDE DEF P
    <2>5. <<PartitionTask(1, b), PartitionTask(b, FirstColl)>> \in Seq(P)
      BY <2>3
    <2>6. (IF FirstColl < Docs THEN <<PartitionTask(FirstColl + 1, Docs)>> ELSE <<>>) \in Seq(P)
      BY <2>4
    <2> QED BY <2>1, <2>5, <2>6, ConcatProperties
  <1>2. /\ DOMAIN tasks \subseteq Nat
        /\ \A n \in DOMAIN tasks : /\ tasks[n] \in Task /\ Len(tasks[n].first) = Len(tasks[n].ids)
                                   /\ \A i \in DOMAIN tasks[n].ids : tasks[n].first[i] = 0
    <2>1. DOMAIN tasks = 1..Len(tasks) /\ Len(tasks) \in Nat
      BY <1>1, LenProperties
    <2>2. \A n \in DOMAIN tasks : tasks[n] \in P
      BY <1>1, <2>1, ElementOfSeq
    <2> QED BY <2>1, <2>2
  <1> HIDE DEF P
  <1>3. /\ generation = 0 /\ queue = {} /\ rows = {} /\ creator = "none" /\ attempt = 0 /\ unread = {}
        /\ ids = <<>> /\ first = <<>> /\ buffer = <<>> /\ requests = {} /\ groupFailed = FALSE /\ made = 0
        /\ mismatches = {} /\ seen = {} /\ changed = {} /\ ts = NoTs /\ latest = NoTs /\ failures = 0
    BY DEF Init
  <1>4. TypeOK
    <2>1. ids \in Seq(Doc) /\ first \in Seq(Nat) /\ Len(first) = Len(ids) /\ buffer \in Seq([n : Nat, task : Task])
      BY <1>3
    <2>2. ts \in [Side -> 0..MaxChanges] /\ latest \in [Side -> Nat]
      BY <1>3, Numbers DEF NoTs
    <2>3. generation \in 0..MaxGen /\ failures \in 0..MaxFailures
      BY <1>3, Numbers
    <2>4. \A n \in DOMAIN tasks : tasks[n] \in Task
      BY <1>2
    <2>5. DOMAIN tasks \subseteq Nat
      BY <1>2
    <2> QED BY <1>3, <2>1, <2>2, <2>3, <2>4, <2>5 DEF TypeOK
  <1>5. CreatorInv /\ NumbersInv /\ AccumulatorsInv /\ EntriesInv /\ PlacedInv /\ AccumulatorAges
    <2>1. AccumulatorsInv
      BY <1>3, Numbers DEF AccumulatorsInv
    <2> QED BY <1>3, <2>1 DEF CreatorInv, NumbersInv, EntriesInv, PlacedInv, AccumulatorAges
  <1>6. EntryAges
    <2> SUFFICES ASSUME NEW e \in Entries
                 PROVE  Len(e.first) = Len(e.ids) /\ \A i \in DOMAIN e.ids : EntryAge(e.ids[i], e.first[i])
      BY DEF EntryAges
    <2>1. e \in Saved
      BY <1>3, WhereEntries, EmptyList
    <2>2. PICK n \in DOMAIN tasks : e = Entry(n, tasks[n])
      BY <2>1 DEF Saved
    <2>3. e.first = tasks[n].first /\ e.ids = tasks[n].ids
      BY <2>2 DEF Entry
    <2> QED BY <1>2, <1>3, <2>3 DEF EntryAge
  <1>7. HistoryInv /\ MismatchInv
    BY <1>3 DEF HistoryInv, HasChange, MismatchInv, RecordsInv, Counted, AgeSound, AgeKept, CountedOnce
  <1> QED BY <1>4, <1>5, <1>6, <1>7 DEF Inv, CreatingInv

-----------------------------------------------------------------------------
\* The invariant, and what follows from it.

LEMMA FailBound ==
    ASSUME TypeOK, Fail \/ UNCHANGED failures
    PROVE  failures' \in 0..MaxFailures
  BY Numbers DEF TypeOK, Fail

LEMMA InvInsertion ==
    ASSUME Inv, NEW r \in requests, InsertTasks(r) \/ InsertFails(r) \/ InsertCancelled(r)
    PROVE  Inv'
  <1>1. failures' \in 0..MaxFailures /\ groupFailed' \in BOOLEAN
    BY FailBound DEF Inv, TypeOK, InsertTasks, InsertFails, InsertCancelled
  <1>2. Len(r.list) \in Nat
    BY LenProperties DEF Inv, TypeOK
  <1>3. CASE InsertTasks(r)
    <2>1. Len(r.list) \in 0..Len(r.list) /\ Stored(r, Len(r.list)) /\ UNCHANGED groupFailed
      BY <1>2, <1>3 DEF InsertTasks
    <2> QED BY <1>1, <2>1, InvStored
  <1>4. CASE InsertFails(r)
    <2>1. PICK k \in 0..Len(r.list) - 1 : Stored(r, k)
      BY <1>4 DEF InsertFails
    <2>2. k \in 0..Len(r.list) /\ groupFailed' = TRUE
      BY <1>2, <1>4 DEF InsertFails
    <2> QED BY <1>1, <2>1, <2>2, InvStored
  <1>5. CASE InsertCancelled(r)
    <2>1. PICK k \in 0..Len(r.list) - 1 : Stored(r, k)
      BY <1>5 DEF InsertCancelled
    <2>2. k \in 0..Len(r.list) /\ UNCHANGED groupFailed /\ (groupFailed \/ r.attempt < attempt)
      BY <1>2, <1>5 DEF InsertCancelled
    <2> QED BY <1>1, <2>1, <2>2, InvStored
  <1> QED BY <1>3, <1>4, <1>5

LEMMA InvNext == Inv /\ [Next]_vars => Inv'
  <1> SUFFICES ASSUME Inv, [Next]_vars PROVE Inv'
    OBVIOUS
  <1>1. CASE UNCHANGED vars
    <2> USE <1>1 DEF vars, creatorVars, accumulators, output, records
    <2>1. TypeOK'
      BY DEF Inv, TypeOK
    <2>2. Saved' = Saved /\ Onward
      BY SavedSame DEF Onward
    <2>3. CreatingInv'
      BY <2>2, CreatingKept
    <2>4. Creating
      BY DEF Creating
    <2> QED BY <2>1, <2>3, <2>4, CreatingFrame DEF Inv
  <1>2. CASE \E d \in Changing, s \in Side : Change(d, s)
    BY <1>2, InvChange, Numbers
  <1>3. CASE StartGenerate \/ CursorFails \/ Redo
    <2>1. BeginAttempt /\ failures' \in 0..MaxFailures
      BY <1>3, FailBound DEF Inv, StartGenerate, CursorFails, Redo
    <2>2. generation > 0
      BY <1>3 DEF StartGenerate, CursorFails, Redo, Waited, Inv, CreatingInv, CreatorInv, TypeOK
    <2>3. rows # {}
      <3>1. CASE StartGenerate \/ CursorFails
        BY <3>1 DEF StartGenerate, CursorFails, Inv, CreatingInv, CreatorInv
      <3>2. CASE Redo
        BY <3>2 DEF Redo, Waited, Inv, CreatingInv, CreatorInv
      <3> QED BY <1>3, <3>1, <3>2
    <2> QED BY <2>1, <2>2, <2>3, InvBegins
  <1>4. CASE ReadRow
    BY <1>4, InvSameDoc, InvNextDoc, InvForNextTask DEF ReadRow
  <1>5. CASE EndRows
    BY <1>5, InvEnds
  <1>6. CASE Insertion
    BY <1>6, InvInsertion DEF Insertion
  <1>7. CASE CompleteCreator
    BY <1>7, InvCompletes
  <1>8. CASE Worker
    BY <1>8, InvProcess, InvTaskFails DEF Worker
  <1>9. CASE NextGeneration
    BY <1>9, InvNextGeneration
  <1> QED BY <1>1, <1>2, <1>3, <1>4, <1>5, <1>6, <1>7, <1>8, <1>9 DEF Next

LEMMA Invariant == Spec => []Inv
  <1> QED BY InvInit, InvNext, PTL DEF Spec

-----------------------------------------------------------------------------
\* The properties follow.

LEMMA SavedEntries ==
    ASSUME Inv, NEW n \in DOMAIN tasks
    PROVE  /\ Entry(n, tasks[n]) \in Entries
           /\ tasks[n] \in Task
           /\ generation > 0 => EntryOk(Entry(n, tasks[n]))
  <1>1. Entry(n, tasks[n]) \in Entries
    BY WhereEntries DEF Saved
  <1> QED BY <1>1 DEF Inv, TypeOK, CreatingInv, EntriesInv

LEMMA CoveredWhenDone == Inv => QueueCovered
  <1> SUFFICES ASSUME Inv, creator = "completed", NEW row \in rows
               PROVE  \E n \in DOMAIN tasks : Covers(tasks[n], row)
    BY DEF QueueCovered
  <1>1. PICK e \in Saved : CoveredBy(e.ids, e.latest, row)
    BY DEF Inv, CreatingInv, PlacedInv
  <1>2. PICK n \in DOMAIN tasks : e = Entry(n, tasks[n])
    BY <1>1 DEF Saved
  <1>3. CoveredBy(tasks[n].ids, tasks[n].latest, row)
    BY <1>1, <1>2 DEF Entry
  <1> QED BY <1>3 DEF CoveredBy, Covers, Members

LEMMA UnsplitAlways == Inv => Unsplit
  <1> SUFFICES ASSUME Inv, generation > 0,
                      NEW n \in DOMAIN tasks, NEW k \in DOMAIN tasks,
                      tasks[n].attempt = tasks[k].attempt,
                      NEW i \in DOMAIN tasks[n].ids, NEW j \in DOMAIN tasks[k].ids,
                      tasks[n].ids[i] = tasks[k].ids[j]
               PROVE  n = k /\ i = j
    BY DEF Unsplit
  <1>1. n = k
    <2> SUFFICES ASSUME n # k PROVE FALSE
      OBVIOUS
    <2>1. Apart(Entry(n, tasks[n]), Entry(k, tasks[k]))
      <3>1. /\ Entry(n, tasks[n]).n = n /\ Entry(k, tasks[k]).n = k
            /\ Entry(n, tasks[n]).attempt = Entry(k, tasks[k]).attempt
        BY DEF Entry
      <3> QED BY <3>1, SavedEntries DEF Inv, CreatingInv, EntriesInv
    <2> QED BY <2>1 DEF Apart, Entry
  <1>2. i = j
    <2>1. /\ tasks[n].ids \in Seq(Doc)
          /\ \A a, b \in DOMAIN tasks[n].ids : a < b => tasks[n].ids[a] < tasks[n].ids[b]
      BY SavedEntries DEF Task, EntryOk, Entry
    <2>2. i \in Nat /\ j \in Nat /\ tasks[n].ids[i] \in Nat
      <3>1. i \in 1..Len(tasks[n].ids) /\ j \in 1..Len(tasks[n].ids) /\ Len(tasks[n].ids) \in Nat
        BY <1>1, <2>1, LenProperties
      <3>2. tasks[n].ids[i] \in Doc
        BY <2>1, <3>1, ElementOfSeq
      <3>3. tasks[n].ids[i] \in Nat
        BY <3>2, Numbers
      <3>4. i \in Nat /\ j \in Nat
        BY <3>1
      <3> QED BY <3>3, <3>4
    <2>3. ~(i < j) /\ ~(j < i)
      BY <1>1, <2>1, <2>2
    <2> QED BY <2>2, <2>3
  <1> QED BY <1>1, <1>2

LEMMA UniformAlways == Inv => TasksUniform
  <1> SUFFICES ASSUME Inv, generation > 0, NEW n \in DOMAIN tasks
               PROVE  TaskUniform(tasks[n])
    BY DEF TasksUniform
  <1> QED BY SavedEntries DEF EntryOk, Entry, TaskUniform

-----------------------------------------------------------------------------
\* The refinement.

LEMMA DueShrinks ==
    ASSUME UNCHANGED rows,
           \A n \in DOMAIN tasks : tasks[n].status # "added" =>
               /\ n \in DOMAIN tasks' /\ tasks'[n].status # "added"
               /\ tasks'[n].ids = tasks[n].ids /\ tasks'[n].latest = tasks[n].latest
    PROVE  Due' \subseteq Due
  <1> SUFFICES ASSUME NEW row \in rows, NEW n \in DOMAIN tasks,
                      tasks[n].status # "added", Covers(tasks[n], row)
               PROVE  row \notin Due'
    BY DEF Due
  <1>1. Covers(tasks'[n], row)
    BY DEF Covers, Members
  <1> QED BY <1>1 DEF Due, Covers, Members

\* A step that leaves the queue and what is over alone.
LEMMA LedgerStutters ==
    ASSUME Inv, UNCHANGED <<generation, queue, rows>>,
           \A n \in DOMAIN tasks : n \in DOMAIN tasks' /\ tasks'[n] = tasks[n]
    PROVE  Ledger!Next
  <1>1. Due' \subseteq Due
    BY DueShrinks
  <1> QED BY <1>1 DEF Ledger!Next, Ledger!Compare, Inv, TypeOK

\* A task that is not over yet is compared, or tried in vain.
LEMMA LedgerCompares ==
    ASSUME Inv, Inv', UNCHANGED <<generation, rows>>, queue \subseteq queue',
           NEW n \in DOMAIN tasks, tasks[n].status = "added",
           DOMAIN tasks' = DOMAIN tasks, \A k \in DOMAIN tasks : k # n => tasks'[k] = tasks[k]
    PROVE  Ledger!Next
  <1>1. Due' \subseteq Due
    BY DueShrinks
  <1> QED BY <1>1 DEF Ledger!Next, Ledger!Compare, Inv, TypeOK

LEMMA LedgerTurns ==
    ASSUME Inv, NextGeneration
    PROVE  Ledger!Next
  <1>1. /\ generation' = generation + 1 /\ rows' = queue /\ queue' = {} /\ tasks' = <<>>
        /\ creator \in {"none", "completed"}
        /\ \A n \in DOMAIN tasks : tasks[n].status # "added"
    BY DEF NextGeneration, GenerationOver
  <1>2. Due = {}
    <2>1. CASE creator = "none"
      BY <2>1 DEF Due, Inv, CreatingInv, CreatorInv
    <2>2. CASE creator = "completed"
      BY <1>1, <2>2, CoveredWhenDone DEF Due, QueueCovered
    <2> QED BY <1>1, <2>1, <2>2
  <1>3. Due' = queue
    BY <1>1 DEF Due
  <1> QED BY <1>1, <1>2, <1>3 DEF Ledger!Next, Ledger!Turn

LEMMA LedgerStep ==
    Inv /\ [Next]_vars => [Ledger!Next]_(Ledger!vars)
  <1> SUFFICES ASSUME Inv, [Next]_vars PROVE Ledger!Next
    OBVIOUS
  <1> USE DEF vars, creatorVars, accumulators, output, records
  <1>0. Inv'
    BY InvNext
  <1>1. CASE UNCHANGED vars
    BY <1>1, LedgerStutters
  <1>2. CASE \E d \in Changing, s \in Side : Change(d, s)
    <2>1. UNCHANGED <<generation, rows, tasks>> /\ queue \subseteq queue'
      BY <1>2 DEF Change
    <2>2. Due' = Due
      BY <2>1 DEF Due, Covers, Members
    <2> QED BY <1>0, <2>1, <2>2 DEF Ledger!Next, Ledger!Owe, Inv, TypeOK
  <1>3. CASE StartGenerate \/ CursorFails \/ Redo
    BY <1>3, LedgerStutters DEF StartGenerate, CursorFails, Redo, BeginAttempt
  <1>4. CASE ReadRow
    BY <1>4, LedgerStutters DEF ReadRow, ReadSameDoc, ReadNextDoc, ReadForNextTask, Reads
  <1>5. CASE EndRows
    BY <1>5, LedgerStutters DEF EndRows
  <1>6. CASE Insertion
    <2>1. PICK r \in requests, k \in Int : k \in 0..Len(r.list) /\ Stored(r, k)
      BY <1>6 DEF Insertion, InsertTasks, InsertFails, InsertCancelled
    <2>2. \A n \in DOMAIN tasks : n \in DOMAIN tasks' /\ tasks'[n] = tasks[n]
      BY <2>1, StoredTasks DEF Inv
    <2> QED BY <2>1, <2>2, LedgerStutters DEF Stored
  <1>7. CASE CompleteCreator
    BY <1>7, LedgerStutters DEF CompleteCreator
  <1>8. CASE Worker
    <2>1. PICK n \in DOMAIN tasks : ProcessVerifyTask(n) \/ TaskFails(n)
      BY <1>8 DEF Worker
    <2>2. /\ tasks[n].status = "added" /\ UNCHANGED <<generation, rows>> /\ queue \subseteq queue'
          /\ DOMAIN tasks' = DOMAIN tasks /\ \A k \in DOMAIN tasks : k # n => tasks'[k] = tasks[k]
      BY <2>1 DEF ProcessVerifyTask, TaskFails
    <2> QED BY <1>0, <2>1, <2>2, LedgerCompares
  <1>9. CASE NextGeneration
    BY <1>9, LedgerTurns
  <1> QED BY <1>1, <1>2, <1>3, <1>4, <1>5, <1>6, <1>7, <1>8, <1>9 DEF Next

LEMMA LedgerInit == Init => Ledger!Init
  <1> SUFFICES ASSUME Init PROVE Ledger!Init
    OBVIOUS
  <1>1. generation = 0 /\ queue = {} /\ rows = {}
    BY DEF Init
  <1> QED BY <1>1 DEF Due, Ledger!Init

\* The tasks, rows and records that GenerateRecheckTasks and the workers handle have
\* their types, through every retry.
THEOREM TypeCorrect == Spec => []TypeOK
  <1>1. Inv => TypeOK
    BY DEF Inv
  <1> QED BY <1>1, Invariant, PTL

\* No row of the recheck queue is lost: once GenerateRecheckTasks' task is completed, each
\* is in a document task that waits for its change.
THEOREM QueueAllCovered == Spec => []QueueCovered
  <1> QED BY CoveredWhenDone, Invariant, PTL

\* GenerateRecheckTasks puts a document into one task of an attempt, and once.
THEOREM NeverSplit == Spec => []Unsplit
  <1> QED BY UnsplitAlways, Invariant, PTL

\* GenerateRecheckTasks does not mix collections in a task, nor exceed maxRecheckIDs.
THEOREM TasksAreUniform == Spec => []TasksUniform
  <1> QED BY UniformAlways, Invariant, PTL

\* A mismatch's first time, carried from queue to task to record to queue, is one since
\* which the document was mismatched in each generation and did not change.
THEOREM AgesSound == Spec => []AgeSound
  <1>1. Inv => AgeSound
    BY DEF Inv, MismatchInv
  <1> QED BY <1>1, Invariant, PTL

\* The first time is not forgotten without a change.
THEOREM AgesKept == Spec => []AgeKept
  <1>1. Inv => AgeKept
    BY DEF Inv, MismatchInv
  <1> QED BY <1>1, Invariant, PTL

\* A task that is processed again after an error does not record its mismatches twice,
\* unless clearMismatchesForTask failed.
THEOREM CountsExact == Spec => []CountedOnce
  <1>1. Inv => CountedOnce
    BY DEF Inv, MismatchInv
  <1> QED BY <1>1, Invariant, PTL

\* The queue, GenerateRecheckTasks and the workers do what the generation loop promises:
\* every recheck of a generation is compared in the next one, before that ends.
THEOREM LedgerImplemented == Spec => LedgerKept
  <1> QED BY LedgerInit, LedgerStep, Invariant, PTL DEF Spec, LedgerKept, Ledger!Spec

=============================================================================
