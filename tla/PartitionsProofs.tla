-------------------------- MODULE PartitionsProofs --------------------------
(***************************************************************************)
(* Partitioning leaves no gap and no overlap, and reading a partition      *)
(* finds exactly its documents, for any number of documents, types, and    *)
(* whatever changes, fails or is retried how often.                        *)
(*                                                                         *)
(* Covered speaks of the end only.  The argument is that the partitions    *)
(* stored so far reach without a gap from MinKey to the upper bound of     *)
(* each of them, in whatever order and however often they were stored, so  *)
(* that an attempt may resume at any such bound.  Disjoint rests on the    *)
(* cursor being past all stored partitions; ReadExact on the filters and   *)
(* on what is known of the documents that no one has touched.              *)
(***************************************************************************)
EXTENDS Partitions, SequenceTheorems, WellFoundedInduction, TLAPS

-----------------------------------------------------------------------------
\* The inductive invariant.

Building == {"sampling", "walking", "listed", "replies"}

Within(t, d) == t.lower < d /\ d <= t.upper

\* A stored partition has the document, if it is not below it.
Reached(d) == \E i \in DOMAIN tasks : Within(tasks[i], d)

\* Where the partitioner's local variables are in use, and what they say.
CursorInv ==
    /\ step \notin Building => lower = MinKey
    /\ step # "listed" => bounds = {}
    /\ step # "replies" => reply = 0
    /\ \A b \in bounds : lower < b
    /\ reply # 0 => lower < reply
    /\ step \in {"whole", "top", "replies"} => source.natural
    /\ step \in {"sample", "sampling"} => Partitioner = "sample"
    /\ step \in {"walk", "walking"} => Partitioner = "walk"

\* Up to each upper bound, and to where the partitioner is, there is no gap.
CoverInv ==
    /\ \A i \in DOMAIN tasks : \A d \in 1..tasks[i].upper : Reached(d)
    /\ \A d \in 1..lower : Reached(d)
    /\ step \in {"partitioned", "done"} /\ ~source.natural /\ ~cut =>
           \E i \in DOMAIN tasks : tasks[i].upper = MaxKey

\* Unless the whole task was retried, each partition begins where the ones before it end.
OrderInv ==
    ~again =>
        /\ \A i, j \in DOMAIN tasks : i < j => tasks[i].upper <= tasks[j].lower
        /\ step \in Building => \A i \in DOMAIN tasks : tasks[i].upper <= lower
        /\ step \in {"collection", "small", "large", "list", "whole", "top"} => DOMAIN tasks = {}

\* What was read of a task, the extremes or the documents, is right for those that
\* nobody has touched.
TaskOk(t) ==
    /\ t.lower <= t.upper
    /\ t.natural => ~t.capped
    /\ t.capped => source.capped
    /\ ~Read(t) => t.got = {}
    /\ t.got \subseteq live \union touched
    /\ t.status = "typed" =>
           \A d \in Untouched : (t.low # 0 => t.low <= d) /\ (t.high # 0 => d <= t.high)
    /\ t.status # "typed" => t.low = 0 /\ t.high = 0
    /\ Read(t) /\ t.capped => Untouched \subseteq t.got
    /\ Read(t) /\ ~t.capped =>
           \A d \in Untouched : /\ Within(t, d) => d \in t.got
                                /\ d \in t.got => t.lower <= d /\ d <= t.upper

TasksInv == \A i \in DOMAIN tasks : TaskOk(tasks[i])

Inv == TypeOK /\ CursorInv /\ CoverInv /\ OrderInv /\ TasksInv

-----------------------------------------------------------------------------
\* Least and greatest elements.

LEMMA LessThanWellFounded == IsWellFoundedOn({p \in Nat \X Nat : p[1] < p[2]}, Nat)
  BY NatLessThanWellFounded DEF OpToRel

LEMMA MinOf ==
    ASSUME NEW S \in SUBSET Nat, S # {}
    PROVE  Min(S) \in S /\ \A y \in S : Min(S) <= y
  <1> DEFINE R == {p \in Nat \X Nat : p[1] < p[2]}
  <1>1. PICK x \in S : \A y \in S : ~(<<y, x>> \in R)
    BY LessThanWellFounded, WFMin
  <1>2. ASSUME NEW y \in S PROVE x <= y
    <2>1. ~(<<y, x>> \in R)
      BY <1>1
    <2>2. y \in Nat /\ x \in Nat
      OBVIOUS
    <2>3. ~(y < x)
      BY <2>1, <2>2
    <2> QED BY <2>2, <2>3
  <1> HIDE DEF R
  <1> QED BY <1>2 DEF Min

\* The greatest is the least in reverse.
LEMMA MaxOf ==
    ASSUME NEW n \in Nat, NEW S \in SUBSET (0..n), S # {}
    PROVE  Max(S) \in S /\ \A y \in S : y <= Max(S)
  <1> DEFINE T == {n - x : x \in S}
  <1>1. \A x \in S : n - x \in Nat
    OBVIOUS
  <1>2. T \in SUBSET Nat
    BY <1>1
  <1>3. T # {}
    OBVIOUS
  <1> HIDE DEF T
  <1>4. Min(T) \in T /\ \A y \in T : Min(T) <= y
    BY <1>2, <1>3, MinOf
  <1>5. PICK x \in S : Min(T) = n - x
    BY <1>4 DEF T
  <1>6. ASSUME NEW y \in S PROVE y <= x
    <2>1. n - y \in T
      BY DEF T
    <2> QED BY <1>4, <1>5, <2>1
  <1> QED BY <1>6 DEF Max

-----------------------------------------------------------------------------
\* Filters.

\* What lies between two _ids of one bracket is of their bracket, and MinKey and MaxKey
\* are alone in theirs.
LEMMA BracketConvex ==
    ASSUME NEW a \in Bound, NEW b \in Bound, NEW d \in Bound,
           a <= d, d <= b, SameSortBracket(a, b)
    PROVE  SameSortBracket(a, d) /\ SameSortBracket(d, b)
  <1>1. \A k \in Breaks \union {MinKey, N} : k \in Int
    BY ConstantsOk DEF Pos, MinKey
  <1> QED BY <1>1, ConstantsOk DEF SameSortBracket, Bound, MinKey, MaxKey

LEMMA EndsAlone ==
    ASSUME NEW d \in Pos
    PROVE  /\ ~SameSortBracket(MinKey, d) /\ ~SameSortBracket(d, MinKey)
           /\ ~SameSortBracket(d, MaxKey) /\ ~SameSortBracket(MaxKey, d)
  <1>1. MinKey <= MinKey /\ ~(d <= MinKey) /\ d <= N /\ ~(MaxKey <= N)
    BY ConstantsOk DEF Pos, MinKey, MaxKey
  <1> QED BY <1>1 DEF SameSortBracket

LEMMA BracketRelation ==
    ASSUME NEW a, NEW b
    PROVE  SameSortBracket(a, a) /\ (SameSortBracket(a, b) <=> SameSortBracket(b, a))
  BY DEF SameSortBracket

\* getExplicitTypeCheckPredicates "should yield the same result as getExprPredicates".
LEMMA FiltersEqual ==
    ASSUME NEW lo \in Bound, NEW up \in 1..MaxKey, lo <= up
    PROVE  ExplicitFilter(lo, up) = ExprFilter(lo, up)
  <1>0. /\ lo \in Int /\ up \in Int /\ up \in Bound
        /\ lo \in Pos \union {MinKey, MaxKey} /\ up \in Pos \union {MaxKey}
    BY ConstantsOk DEF Bound, Pos, MinKey, MaxKey
  <1>1. ASSUME NEW d \in Pos
        PROVE  d \in ExplicitFilter(lo, up) <=> (lo <= d /\ d <= up)
    <2>1. d \in Bound /\ d \in Int /\ MinKey < d /\ d < MaxKey
      BY ConstantsOk DEF Pos, MinKey, MaxKey, Bound
    <2>2. /\ d = lo => SameSortBracket(d, lo)
          /\ d = up => SameSortBracket(d, up)
      BY BracketRelation
    <2>3. lo = MinKey => ~SameSortBracket(d, lo)
      BY EndsAlone
    <2>4. CASE up = MaxKey
      BY <1>0, <2>1, <2>2, <2>3, <2>4
         DEF ExplicitFilter, Between, LaterTypes, AtLeast
    <2>5. CASE up # MaxKey /\ lo < up /\ ~SameSortBracket(lo, up)
      <3>1. lo <= d /\ SameSortBracket(d, lo) => d < up
        BY <1>0, <2>1, <2>5, BracketConvex, BracketRelation
      <3>2. d <= up /\ SameSortBracket(d, up) => lo < d
        BY <1>0, <2>1, <2>5, BracketConvex, BracketRelation
      <3> QED BY <1>0, <2>1, <2>2, <2>3, <2>5, <3>1, <3>2
              DEF ExplicitFilter, Between, LaterTypes, EarlierTypes, AtLeast, AtMost
    <2>6. CASE up # MaxKey /\ ~(lo < up /\ ~SameSortBracket(lo, up))
      <3>1. SameSortBracket(lo, up)
        BY <1>0, <2>6, BracketRelation
      <3>2. lo # MinKey
        BY <1>0, <2>6, <3>1, EndsAlone
      <3>3. lo <= d /\ d <= up => SameSortBracket(d, lo) /\ SameSortBracket(d, up)
        BY <1>0, <2>1, <3>1, BracketConvex, BracketRelation
      <3> QED BY <1>0, <2>6, <3>1, <3>2, <3>3 DEF ExplicitFilter, AtLeast, AtMost
    <2> QED BY <2>4, <2>5, <2>6
  <1>2. ExplicitFilter(lo, up) \subseteq Pos
    BY DEF ExplicitFilter, AtLeast, AtMost, Between, LaterTypes
  <1> QED BY <1>1, <1>2 DEF ExprFilter

\* A plain range is exact for a document between the extremes that were read.
LEMMA RangeSelects ==
    ASSUME NEW t \in Task, NEW d \in Pos, t.lower <= t.upper, RangeExact(t),
           t.low # 0 => t.low <= d, t.high # 0 => d <= t.high
    PROVE  d \in RangeFilter(t.lower, t.upper) <=> t.lower <= d /\ d <= t.upper
  <1> DEFINE lo == t.lower
             up == t.upper
  <1>0. /\ lo \in Bound /\ up \in 1..MaxKey /\ lo \in Int /\ up \in Int /\ up \in Bound
        /\ t.low \in 0..N /\ t.high \in 0..N /\ t.low \in Bound /\ t.high \in Bound
        /\ t.low \in Int /\ t.high \in Int
    BY ConstantsOk DEF Task, Bound, MinKey, MaxKey
  <1>1. d \in Bound /\ d \in Int /\ MinKey < d /\ d < MaxKey /\ MinKey <= d /\ d <= MaxKey
    BY ConstantsOk DEF Pos, MinKey, MaxKey, Bound
  <1> HIDE DEF lo, up
  <1>r. d \in RangeFilter(lo, up) <=> (lo # MinKey => d \in AtLeast(lo)) /\ (up # MaxKey => d \in AtMost(up))
    BY DEF RangeFilter
  <1>2. d \in RangeFilter(lo, up) <=> lo <= d /\ d <= up
    <2>1. CASE lo = MinKey /\ up = MaxKey
      BY <1>1, <2>1, <1>r
    <2>2. CASE lo # MinKey /\ up # MaxKey /\ SameSortBracket(lo, up)
      <3>1. lo <= d /\ d <= up => SameSortBracket(d, lo) /\ SameSortBracket(d, up)
        BY <1>0, <1>1, <2>2, BracketConvex, BracketRelation
      <3> QED BY <2>2, <1>r, <3>1 DEF AtLeast, AtMost
    <2>3. CASE lo = MinKey /\ up # MaxKey /\ t.low # 0 /\ SameSortBracket(t.low, up)
      <3>1. d <= up => SameSortBracket(d, up)
        BY <1>0, <1>1, <2>3, BracketConvex
      <3> QED BY <1>1, <2>3, <1>r, <3>1 DEF AtMost
    <2>4. CASE lo # MinKey /\ up = MaxKey /\ t.high # 0 /\ SameSortBracket(t.high, lo)
      <3>1. lo <= d => SameSortBracket(d, lo)
        BY <1>0, <1>1, <2>4, BracketConvex, BracketRelation
      <3> QED BY <1>1, <2>4, <1>r, <3>1 DEF AtLeast
    <2> QED BY <2>1, <2>2, <2>3, <2>4 DEF RangeExact, lo, up
  <1> QED BY <1>2 DEF lo, up

LEMMA SelectedExact ==
    ASSUME NEW t \in Task, NEW d \in Pos, t.lower <= t.upper, ~t.capped,
           t.low # 0 => t.low <= d, t.high # 0 => d <= t.high
    PROVE  d \in Selected(t) <=> t.lower <= d /\ d <= t.upper
  <1>1. CASE UsesRange(t)
    BY <1>1, RangeSelects DEF Selected, UsesRange
  <1>2. CASE ~UsesRange(t)
    <2>1. t.lower \in Bound /\ t.upper \in 1..MaxKey
      BY DEF Task
    <2>2. FilterIdBounds(t.lower, t.upper) = ExprFilter(t.lower, t.upper)
      BY <2>1, FiltersEqual DEF FilterIdBounds
    <2> QED BY <1>2, <2>2 DEF Selected, ExprFilter
  <1> QED BY <1>1, <1>2

-----------------------------------------------------------------------------
\* Reading by resume tokens.

\* openBackupNaturalCursor passes over nothing of the partition.
LEMMA ResumeAfterReaches ==
    ASSUME live \subseteq Pos, NEW r \in Pos, NEW d \in live, r < d
    PROVE  d \in ResumeAfter(r)
  <1> DEFINE valid == (PriorTokens(r) \union {r}) \intersect live
  <1>1. CASE valid = {}
    BY <1>1 DEF ResumeAfter
  <1>2. CASE valid # {}
    <2>1. valid \in SUBSET (0..N)
      <3>1. N \in Nat
        BY ConstantsOk DEF ConstantsOk
      <3>2. valid \subseteq Pos
        OBVIOUS
      <3> QED BY <3>1, <3>2 DEF Pos
    <2>2. Max(valid) \in valid
      BY <1>2, <2>1, ConstantsOk, MaxOf
    <2>3. \A x \in PriorTokens(r) \union {r} : x \in Int => x <= r
      BY DEF PriorTokens, Pos
    <2>4. Max(valid) \in Int /\ Max(valid) <= r /\ d \in Int /\ r \in Int
      <3>1. Max(valid) \in Pos /\ d \in Pos /\ Max(valid) \in PriorTokens(r) \union {r}
        BY <2>2
      <3> QED BY <2>3, <3>1 DEF Pos
    <2> QED BY <1>2, <2>4 DEF ResumeAfter
  <1> QED BY <1>1, <1>2

LEMMA NaturalReadExact ==
    ASSUME live \subseteq Pos, NEW t \in Task, NEW d \in live
    PROVE  /\ t.lower < d /\ d <= t.upper => d \in NaturalRead(t)
           /\ d \in NaturalRead(t) => t.lower <= d /\ d <= t.upper
  <1>1. t.lower < d /\ d <= t.upper => d \in FromToken(t.lower)
    <2>1. CASE t.lower = MinKey
      BY <2>1 DEF FromToken
    <2>2. CASE t.lower # MinKey /\ t.lower < d
      <3>1. t.lower \in Pos
        BY <2>2, ConstantsOk DEF Task, Bound, Pos, MinKey, MaxKey
      <3> QED BY <2>2, <3>1, ResumeAfterReaches, ConstantsOk DEF FromToken, StartAt, Pos
    <2> QED BY <2>1, <2>2
  <1>2. t.lower \in Int /\ d \in Int
    BY ConstantsOk DEF Task, Bound, Pos, MinKey, MaxKey
  <1> QED BY <1>1, <1>2 DEF NaturalRead

-----------------------------------------------------------------------------
\* Types.

LEMMA Numbers ==
    /\ N \in Nat /\ N >= 1 /\ MinKey = 0 /\ MaxKey = N + 1 /\ MaxKey \in Nat
    /\ Pos \subseteq Nat /\ Bound \subseteq Nat /\ Bound \subseteq Int
    /\ Pos \subseteq 1..MaxKey /\ Pos \subseteq Bound /\ Pos \subseteq 0..N
    /\ MinKey \in Bound /\ MaxKey \in Bound /\ MaxKey \in 1..MaxKey /\ MinKey \in 0..N
    /\ \A b \in Bound : MinKey <= b /\ b <= MaxKey
    /\ \A d \in Pos : MinKey < d /\ d < MaxKey
  BY ConstantsOk DEF ConstantsOk, Pos, Bound, MinKey, MaxKey

\* What is known of a task by its type.
LEMMA TaskFields ==
    ASSUME NEW t \in Task
    PROVE  /\ t.lower \in Bound /\ t.lower \in Int
           /\ t.upper \in 1..MaxKey /\ t.upper \in Bound /\ t.upper \in Int
  BY Numbers DEF Task, Bound

LEMMA NewTaskType ==
    ASSUME NEW lo \in Bound, NEW up \in 1..MaxKey, NEW n \in BOOLEAN, NEW c \in BOOLEAN
    PROVE  NewTask(lo, up, n, c) \in Task
  BY Numbers DEF NewTask, Task, Pos

\* What storing a partition does.
LEMMA Added ==
    ASSUME tasks \in Seq(Task),
           NEW lo \in Bound, NEW up \in 1..MaxKey, NEW n \in BOOLEAN, NEW c \in BOOLEAN,
           AddPartition(lo, up, n, c)
    PROVE  /\ tasks' \in Seq(Task)
           /\ Len(tasks) + 1 \in Nat
           /\ DOMAIN tasks' = DOMAIN tasks \union {Len(tasks) + 1}
           /\ \A i \in DOMAIN tasks : i \in Nat /\ i < Len(tasks) + 1 /\ tasks'[i] = tasks[i]
           /\ tasks'[Len(tasks) + 1] = NewTask(lo, up, n, c)
  <1>1. NewTask(lo, up, n, c) \in Task
    BY NewTaskType
  <1>2. tasks' = Append(tasks, NewTask(lo, up, n, c))
    BY DEF AddPartition
  <1>3. /\ tasks' \in Seq(Task)
        /\ Len(tasks') = Len(tasks) + 1
        /\ \A i \in 1..Len(tasks) : tasks'[i] = tasks[i]
        /\ tasks'[Len(tasks) + 1] = NewTask(lo, up, n, c)
    BY <1>1, <1>2, AppendProperties
  <1>4. DOMAIN tasks = 1..Len(tasks) /\ DOMAIN tasks' = 1..Len(tasks') /\ Len(tasks) \in Nat
    BY <1>3, LenProperties
  <1> QED BY <1>3, <1>4

LEMMA LatestUpperOf ==
    ASSUME tasks \in Seq(Task)
    PROVE  /\ LatestUpper \in Bound
           /\ LatestUpper # MinKey => \E i \in DOMAIN tasks : tasks[i].upper = LatestUpper
           /\ \A i \in DOMAIN tasks : tasks[i].upper <= LatestUpper
  <1> DEFINE S == {tasks[i].upper : i \in DOMAIN tasks}
  <1>1. CASE tasks = <<>>
    BY <1>1, Numbers DEF LatestUpper
  <1>2. CASE tasks # <<>>
    <2>1. DOMAIN tasks = 1..Len(tasks) /\ Len(tasks) \in Nat /\ Len(tasks) # 0
      BY <1>2, LenProperties, EmptySeq
    <2>2. 1 \in DOMAIN tasks
      BY <2>1
    <2>3. S # {}
      BY <2>2
    <2>4. \A i \in DOMAIN tasks : tasks[i] \in Task
      BY <2>1, ElementOfSeq
    <2>5. S \in SUBSET (0..MaxKey)
      BY <2>4, TaskFields, Numbers DEF Bound
    <2>6. Max(S) \in S /\ \A y \in S : y <= Max(S)
      BY <2>3, <2>5, MaxOf, Numbers
    <2>7. LatestUpper = Max(S)
      BY <1>2 DEF LatestUpper
    <2> HIDE DEF S
    <2>8. Max(S) \in Bound
      BY <2>5, <2>6, Numbers DEF Bound
    <2> QED BY <2>6, <2>7, <2>8 DEF S
  <1> QED BY <1>1, <1>2

LEMMA TypeInit == Init => TypeOK
  <1> SUFFICES ASSUME Init PROVE TypeOK
    OBVIOUS
  <1>1. tasks \in Seq(Task)
    BY DEF Init
  <1>2. /\ lower \in Bound /\ from \in 0..N + 1 /\ stride \in 1..N + 1 /\ reply \in 0..N
        /\ changes \in 0..MaxChanges /\ failures \in 0..MaxFailures
    BY Numbers, ConstantsOk DEF ConstantsOk, Init
  <1>3. live \subseteq Pos /\ touched \subseteq Pos /\ bounds \subseteq Pos
    BY DEF Init
  <1> QED BY <1>1, <1>2, <1>3 DEF Init, TypeOK

\* A step of the partitioner that stores nothing.
LEMMA TypePlan ==
    ASSUME TypeOK
    PROVE  /\ ReadSize \/ StartPartitioning \/ CompleteCollection \/ ReadTopRecordID => TypeOK'
           /\ BeginSampling \/ BeginWalk \/ ListBounds \/ LastReply => TypeOK'
           /\ \A d \in Pos : SampledReply(d) => TypeOK'
  <1> USE DEF collection, progress, history
  <1>1. ASSUME ReadSize \/ StartPartitioning \/ CompleteCollection \/ ReadTopRecordID PROVE TypeOK'
    BY <1>1 DEF TypeOK, ReadSize, StartPartitioning, Partitioner, CompleteCollection, ReadTopRecordID
  <1>2. ASSUME BeginSampling PROVE TypeOK'
    <2>1. LatestUpper \in Bound /\ LatestUpper \in 0..N + 1
      BY LatestUpperOf, Numbers DEF TypeOK, Bound
    <2> QED BY <1>2, <2>1 DEF TypeOK, BeginSampling
  <1>3. ASSUME BeginWalk PROVE TypeOK'
    <2>1. LatestUpper \in Bound
      BY LatestUpperOf DEF TypeOK
    <2> QED BY <1>3, <2>1 DEF TypeOK, BeginWalk, DocsPerPartition
  <1>4. ASSUME ListBounds PROVE TypeOK'
    <2>1. bounds' \subseteq Pos
      BY <1>4 DEF ListBounds, MidIDBounds, TypeOK
    <2> QED BY <1>4, <2>1 DEF TypeOK, ListBounds
  <1>5. ASSUME LastReply PROVE TypeOK'
    BY <1>5, Numbers DEF TypeOK, LastReply, Fresh
  <1>6. ASSUME NEW d \in Pos, SampledReply(d) PROVE TypeOK'
    BY <1>6, Numbers DEF TypeOK, SampledReply
  <1> QED BY <1>1, <1>2, <1>3, <1>4, <1>5, <1>6

-----------------------------------------------------------------------------
\* Steps that store a partition: what they have in common.

LEMMA MinOfBounds ==
    ASSUME bounds \subseteq Pos, bounds # {}
    PROVE  Min(bounds) \in bounds /\ Min(bounds) \in Pos /\ \A b \in bounds : Min(bounds) <= b
  <1>1. bounds \in SUBSET Nat
    BY Numbers
  <1> QED BY <1>1, MinOf

LEMMA ExtremesOfLive ==
    ASSUME live \subseteq Pos
    PROVE  /\ Lowest \in 0..N /\ (Lowest # 0 => \A d \in live : Lowest <= d)
           /\ Highest \in 0..N /\ (Highest # 0 => \A d \in live : d <= Highest)
           /\ TopRecordID = Highest
  <1>1. live \in SUBSET (0..N) /\ live \in SUBSET Nat
    BY Numbers
  <1>2. live # {} => /\ Min(live) \in live /\ \A d \in live : Min(live) <= d
                     /\ Max(live) \in live /\ \A d \in live : d <= Max(live)
    BY <1>1, MinOf, MaxOf, Numbers
  <1> QED BY <1>1, <1>2, Numbers DEF Lowest, Highest, TopRecordID

\* A partition is stored that begins where the partitioner is.  Either it is the last
\* one, or the partitioner goes on from its upper bound.
Storing ==
    \E up \in 1..MaxKey, n, c \in BOOLEAN :
        /\ AddPartition(lower, up, n, c)
        /\ lower <= up
        /\ (n => ~c) /\ (c => source.capped)
        /\ step \in Building \union {"small", "whole"}
        /\ \/ /\ step' = "partitioned"
              /\ source.natural \/ up = MaxKey
              /\ lower' = MinKey /\ reply' = 0 /\ bounds' = {}
           \/ /\ step' = step /\ step \in Building
              /\ lower' = up /\ reply' = 0
              /\ bounds' \subseteq Pos /\ \A b \in bounds' : up < b
              /\ step # "listed" => bounds' = {}

\* Each of these steps keeps what it does not use of its variables, or begins afresh.
LEMMA FreshLocals ==
    ASSUME Fresh
    PROVE  lower' = MinKey /\ reply' = 0 /\ bounds' = {} /\ from' \in 0..N + 1 /\ stride' \in 1..N + 1
  BY Numbers DEF Fresh

StoresWell == Storing /\ from' \in 0..N + 1 /\ stride' \in 1..N + 1

LEMMA SingleStores ==
    ASSUME TypeOK, CursorInv, SinglePartition
    PROVE  StoresWell
  <1>1. lower = MinKey /\ reply = 0 /\ bounds = {}
    BY DEF CursorInv, SinglePartition, Building
  <1>2. UNCHANGED <<lower, from, stride, bounds, reply>>
    BY DEF SinglePartition, progress
  <1>3. source.capped \in BOOLEAN
    BY DEF TypeOK, Source
  <1>4. AddPartition(lower, MaxKey, FALSE, source.capped) /\ step' = "partitioned" /\ step = "small"
    BY <1>1 DEF SinglePartition
  <1> QED BY <1>1, <1>2, <1>3, <1>4, Numbers DEF StoresWell, Storing, TypeOK

LEMMA SampleNextStores ==
    ASSUME TypeOK, CursorInv, NEW d \in Pos, SampleNext(d)
    PROVE  StoresWell
  <1>1. bounds = {} /\ reply = 0 /\ lower \in Bound /\ step = "sampling"
    BY DEF CursorInv, SampleNext, TypeOK
  <1>2. d \in ExprFilter(lower, MaxKey)
    BY <1>1, FiltersEqual, Numbers DEF SampleNext, FilterIdBounds
  <1>3. lower <= d /\ d \in 1..MaxKey /\ d \in Int
    BY <1>2, Numbers DEF ExprFilter
  <1>4. source.capped \in BOOLEAN
    BY DEF TypeOK, Source
  <1>5. /\ AddPartition(lower, d, FALSE, source.capped)
        /\ lower' = d /\ from' = d + 1
        /\ UNCHANGED <<step, stride, bounds, reply>>
    BY DEF SampleNext
  <1>6. from' \in 0..N + 1 /\ stride' \in 1..N + 1
    BY <1>5, Numbers DEF TypeOK, Pos
  <1>7. Storing
    BY <1>1, <1>3, <1>4, <1>5 DEF Storing, Building
  <1> QED BY <1>6, <1>7 DEF StoresWell

\* The last partition of a scan by _id.
LEMMA LastStores ==
    ASSUME TypeOK, SampleEnd \/ WalkEnd
    PROVE  StoresWell
  <1>1. PICK c \in BOOLEAN : AddPartition(lower, MaxKey, FALSE, c) /\ (c => source.capped)
    BY DEF SampleEnd, WalkEnd, WalkUpper, TypeOK, Source
  <1>2. step' = "partitioned" /\ Fresh /\ step \in Building
    BY DEF SampleEnd, WalkEnd, Building
  <1>3. lower <= MaxKey
    BY Numbers DEF TypeOK
  <1> QED BY <1>1, <1>2, <1>3, FreshLocals, Numbers DEF StoresWell, Storing

LEMMA WalkNextStores ==
    ASSUME TypeOK, CursorInv, NEW d \in Pos, WalkNext(d)
    PROVE  StoresWell
  <1>1. bounds = {} /\ reply = 0 /\ lower \in Bound /\ step = "walking"
    BY DEF CursorInv, WalkNext, TypeOK
  <1>2. lower < d
    BY DEF WalkNext, NextIDBoundary, After
  <1>3. lower <= d /\ d \in 1..MaxKey
    BY <1>1, <1>2, Numbers
  <1>4. /\ AddPartition(lower, d, FALSE, FALSE)
        /\ lower' = d
        /\ UNCHANGED <<step, from, stride, bounds, reply>>
    BY DEF WalkNext
  <1>5. Storing
    BY <1>1, <1>3, <1>4 DEF Storing, Building
  <1> QED BY <1>4, <1>5 DEF StoresWell, TypeOK

LEMMA AddListedStores ==
    ASSUME TypeOK, CursorInv, AddListed
    PROVE  StoresWell
  <1>1. reply = 0 /\ lower \in Bound /\ step = "listed"
    BY DEF CursorInv, AddListed, TypeOK
  <1>2. source.capped \in BOOLEAN
    BY DEF TypeOK, Source
  <1>3. CASE bounds = {}
    <2>1. AddPartition(lower, MaxKey, FALSE, source.capped) /\ Fresh /\ step' = "partitioned"
      BY <1>3 DEF AddListed
    <2>2. lower <= MaxKey
      BY <1>1, Numbers
    <2> QED BY <1>1, <1>2, <2>1, <2>2, FreshLocals, Numbers DEF StoresWell, Storing, Building
  <1>4. CASE bounds # {}
    <2> DEFINE up == Min(bounds)
    <2>1. up \in bounds /\ up \in Pos /\ \A b \in bounds : up <= b
      BY <1>4, MinOfBounds DEF TypeOK
    <2> HIDE DEF up
    <2>2. up # MaxKey /\ up \in 1..MaxKey /\ lower <= up
      <3>1. lower < up
        BY <2>1 DEF CursorInv
      <3>2. lower \in Int /\ up \in Int /\ up < MaxKey /\ up \in 1..MaxKey /\ MaxKey \in Int
        BY <1>1, <2>1, Numbers
      <3> QED BY <3>1, <3>2
    <2>3. /\ AddPartition(lower, up, FALSE, source.capped)
          /\ lower' = up /\ bounds' = bounds \ {up}
          /\ UNCHANGED <<step, from, stride, reply>>
      BY <1>4, <2>2 DEF AddListed, up
    <2>4. bounds' \subseteq Pos /\ \A b \in bounds' : up < b
      BY <2>1, <2>3, Numbers DEF TypeOK
    <2>5. Storing
      BY <1>1, <1>2, <2>2, <2>3, <2>4 DEF Storing, Building
    <2> QED BY <2>3, <2>5 DEF StoresWell, TypeOK
  <1> QED BY <1>3, <1>4

LEMMA WholeStores ==
    ASSUME TypeOK, CursorInv, WholeNatural
    PROVE  \/ StoresWell
           \/ step' = "partitioned" /\ source.natural /\ UNCHANGED <<tasks, progress>>
  <1>1. /\ lower = MinKey /\ reply = 0 /\ bounds = {} /\ source.natural /\ step = "whole"
        /\ step' = "partitioned" /\ UNCHANGED progress
    BY DEF CursorInv, WholeNatural, Building
  <1>2. CASE TopRecordID = 0
    BY <1>1, <1>2 DEF WholeNatural
  <1>3. CASE TopRecordID # 0
    <2>1. TopRecordID \in 1..MaxKey /\ lower <= TopRecordID
      BY <1>1, <1>3, ExtremesOfLive, Numbers DEF TypeOK
    <2>2. AddPartition(lower, TopRecordID, TRUE, FALSE)
      BY <1>1, <1>3 DEF WholeNatural
    <2>3. UNCHANGED <<lower, from, stride, bounds, reply>>
      BY <1>1 DEF progress
    <2>4. Storing
      BY <1>1, <2>1, <2>2, <2>3 DEF Storing
    <2> QED BY <2>3, <2>4 DEF StoresWell, TypeOK
  <1> QED BY <1>2, <1>3

LEMMA NaturalStores ==
    ASSUME TypeOK, CursorInv, NaturalPartition
    PROVE  StoresWell
  <1>1. bounds = {} /\ reply \in 1..MaxKey /\ lower < reply /\ lower \in Bound
    BY Numbers DEF CursorInv, NaturalPartition, TypeOK
  <1>2. lower <= reply
    BY <1>1, Numbers
  <1>3. /\ step = "replies" /\ AddPartition(lower, reply, TRUE, FALSE)
        /\ lower' = reply /\ reply' = 0
        /\ UNCHANGED <<step, from, stride, bounds>>
    BY DEF NaturalPartition
  <1>4. Storing
    BY <1>1, <1>2, <1>3 DEF Storing, Building
  <1> QED BY <1>3, <1>4 DEF StoresWell, TypeOK

-----------------------------------------------------------------------------
\* The inductive invariant is preserved.

LEMMA InvInit == Init => Inv
  <1> SUFFICES ASSUME Init PROVE Inv
    OBVIOUS
  <1>1. TypeOK
    BY TypeInit
  <1>2. DOMAIN tasks = {} /\ step = "collection" /\ lower = MinKey /\ reply = 0 /\ bounds = {}
    BY DEF Init
  <1>3. 1..lower = {}
    BY <1>2, Numbers
  <1> QED BY <1>1, <1>2, <1>3 DEF Inv, CursorInv, CoverInv, OrderInv, TasksInv, Building

\* Steps that store a partition.
LEMMA InvStores ==
    ASSUME Inv, StoresWell, UNCHANGED <<source, collection, history, failures>>
    PROVE  Inv'
  <1> USE DEF collection, history
  <1>1. PICK up \in 1..MaxKey, n \in BOOLEAN, c \in BOOLEAN :
            /\ AddPartition(lower, up, n, c)
            /\ lower <= up
            /\ (n => ~c) /\ (c => source.capped)
            /\ step \in Building \union {"small", "whole"}
            /\ \/ /\ step' = "partitioned"
                  /\ source.natural \/ up = MaxKey
                  /\ lower' = MinKey /\ reply' = 0 /\ bounds' = {}
               \/ /\ step' = step /\ step \in Building
                  /\ lower' = up /\ reply' = 0
                  /\ bounds' \subseteq Pos /\ \A b \in bounds' : up < b
                  /\ step # "listed" => bounds' = {}
    BY DEF StoresWell, Storing
  <1>2. tasks \in Seq(Task) /\ lower \in Bound /\ lower \in Int
    BY Numbers DEF Inv, TypeOK
  <1>t. PICK t \in Task : t = NewTask(lower, up, n, c)
    BY <1>2, NewTaskType
  <1>k. PICK k \in Nat : k = Len(tasks) + 1
    BY <1>2, LenProperties
  <1>3. /\ tasks' \in Seq(Task)
        /\ DOMAIN tasks' = DOMAIN tasks \union {k}
        /\ \A i \in DOMAIN tasks : i \in Nat /\ i < k /\ tasks'[i] = tasks[i]
        /\ tasks'[k] = t
    BY <1>1, <1>2, <1>t, <1>k, Added
  <1>4. /\ t.lower = lower /\ t.upper = up /\ t.natural = n /\ t.capped = c
        /\ t.status = "added" /\ t.low = 0 /\ t.high = 0 /\ t.got = {}
    BY <1>t DEF NewTask
  <1>5. TypeOK'
    <2>1. lower' \in Bound /\ reply' \in 0..N /\ bounds' \subseteq Pos
      BY <1>1, Numbers, TaskFields, <1>t, <1>4
    <2>2. from' \in 0..N + 1 /\ stride' \in 1..N + 1
      BY DEF StoresWell
    <2> QED BY <1>1, <1>3, <2>1, <2>2 DEF Inv, TypeOK
  <1>6. CursorInv'
    BY <1>1 DEF Inv, CursorInv, Building, Partitioner, CanResumeFind, HasSampleRate
  <1>7. CoverInv'
    <2>1. \A d : Reached(d) => Reached(d)'
      BY <1>3 DEF Reached, Within
    <2>2. ASSUME NEW d \in 1..up PROVE Reached(d)'
      <3>1. CASE d <= lower
        BY <1>2, <2>1, <3>1 DEF Inv, CoverInv
      <3>2. CASE ~(d <= lower)
        BY <1>2, <1>3, <1>4, <3>2 DEF Reached, Within
      <3> QED BY <3>1, <3>2
    <2>3. ASSUME NEW i \in DOMAIN tasks', NEW d \in 1..tasks'[i].upper PROVE Reached(d)'
      BY <1>3, <1>4, <2>1, <2>2 DEF Inv, CoverInv
    <2>4. ASSUME NEW d \in 1..lower' PROVE Reached(d)'
      BY <1>1, <2>2, Numbers
    <2>5. step' \in {"partitioned", "done"} /\ ~source.natural /\ ~cut =>
              \E i \in DOMAIN tasks' : tasks'[i].upper = MaxKey
      BY <1>1, <1>3, <1>4 DEF Building
    <2> QED BY <2>3, <2>4, <2>5 DEF CoverInv
  <1>8. OrderInv'
    <2> SUFFICES ASSUME ~again
                 PROVE  /\ \A i, j \in DOMAIN tasks' : i < j => tasks'[i].upper <= tasks'[j].lower
                        /\ step' \in Building => \A i \in DOMAIN tasks' : tasks'[i].upper <= lower'
                        /\ step' \notin {"collection", "small", "large", "list", "whole", "top"}
      BY DEF OrderInv
    <2>1. \A i \in DOMAIN tasks : tasks[i].upper <= lower /\ tasks[i].upper \in Int
      <3>1. \A i \in DOMAIN tasks : tasks[i] \in Task
        BY <1>2, LenProperties, ElementOfSeq
      <3>2. \A i \in DOMAIN tasks : tasks[i].upper <= lower
        BY <1>1 DEF Inv, OrderInv
      <3> QED BY <3>1, <3>2, TaskFields
    <2>2. ASSUME NEW i \in DOMAIN tasks', NEW j \in DOMAIN tasks', i < j
          PROVE  tasks'[i].upper <= tasks'[j].lower
      <3>1. i \in DOMAIN tasks
        BY <1>3, <2>2
      <3>2. CASE j \in DOMAIN tasks
        BY <1>3, <2>2, <3>1, <3>2 DEF Inv, OrderInv
      <3>3. CASE j = k
        BY <1>3, <1>4, <2>1, <3>1, <3>3
      <3> QED BY <1>3, <3>2, <3>3
    <2>3. ASSUME step' \in Building, NEW i \in DOMAIN tasks'
          PROVE  tasks'[i].upper <= lower'
      <3>1. lower' = up
        BY <1>1, <2>3 DEF Building
      <3>2. CASE i \in DOMAIN tasks
        BY <1>1, <1>2, <1>3, <2>1, <3>1, <3>2
      <3>3. CASE i = k
        BY <1>3, <1>4, <3>1, <3>3
      <3> QED BY <1>3, <3>2, <3>3
    <2> QED BY <1>1, <2>2, <2>3 DEF Building
  <1>9. TasksInv'
    <2>1. Untouched' = Untouched
      BY DEF Untouched
    <2>2. ASSUME NEW i \in DOMAIN tasks PROVE TaskOk(tasks[i])'
      BY <1>3, <2>1 DEF Inv, TasksInv, TaskOk, Read, Within
    <2>3. TaskOk(tasks[k])'
      BY <1>1, <1>3, <1>4 DEF TaskOk, Read
    <2> QED BY <1>3, <2>2, <2>3 DEF TasksInv
  <1> QED BY <1>5, <1>6, <1>7, <1>8, <1>9 DEF Inv

\* Steps that leave the stored partitions as they are.
Early == {"collection", "small", "large", "list", "whole", "top"}

SameBounds ==
    /\ DOMAIN tasks' = DOMAIN tasks
    /\ \A i \in DOMAIN tasks : tasks'[i].lower = tasks[i].lower /\ tasks'[i].upper = tasks[i].upper

LEMMA CoverFrame ==
    ASSUME CoverInv, SameBounds, UNCHANGED source,
           \A d \in 1..lower' : Reached(d),
           step' \in {"partitioned", "done"} =>
               source.natural \/ cut' \/ (step \in {"partitioned", "done"} /\ cut' = cut)
    PROVE  CoverInv'
  <1>1. \A d : Reached(d) <=> Reached(d)'
    BY DEF SameBounds, Reached, Within
  <1> QED BY <1>1 DEF SameBounds, CoverInv

LEMMA OrderFrame ==
    ASSUME OrderInv, SameBounds, ~again' => ~again,
           ~again /\ step' \in Building => \A i \in DOMAIN tasks : tasks[i].upper <= lower',
           ~again /\ step' \in Early => DOMAIN tasks = {}
    PROVE  OrderInv'
  BY DEF OrderInv, SameBounds, Early

LEMMA TasksFrame ==
    ASSUME TasksInv, UNCHANGED <<source, tasks, live, touched>>
    PROVE  TasksInv' /\ SameBounds
  BY DEF TasksInv, TaskOk, Untouched, Read, Within, SameBounds

LEMMA UpperReached ==
    ASSUME TypeOK, CoverInv
    PROVE  \A d \in 1..LatestUpper : Reached(d)
  <1> SUFFICES ASSUME NEW d \in 1..LatestUpper PROVE Reached(d)
    OBVIOUS
  <1>1. LatestUpper # MinKey
    BY Numbers
  <1>2. PICK i \in DOMAIN tasks : tasks[i].upper = LatestUpper
    BY <1>1, LatestUpperOf DEF TypeOK
  <1> QED BY <1>2 DEF CoverInv

\* The partitioner gets on without storing anything.
LEMMA InvPlan ==
    ASSUME Inv,
           \/ ReadSize \/ StartPartitioning \/ CompleteCollection \/ ReadTopRecordID
           \/ BeginSampling \/ BeginWalk \/ ListBounds \/ LastReply
           \/ \E d \in Pos : SampledReply(d)
    PROVE  Inv'
  <1> USE DEF collection, progress, history
  <1>1. TypeOK'
    BY TypePlan DEF Inv
  <1>2. UNCHANGED <<source, live, touched, tasks, again, cut>>
    BY DEF ReadSize, StartPartitioning, CompleteCollection, ReadTopRecordID, BeginSampling,
           BeginWalk, ListBounds, LastReply, SampledReply
  <1>3. TasksInv' /\ SameBounds
    BY <1>2, TasksFrame DEF Inv
  <1>4. \A d \in 1..MinKey : FALSE
    BY Numbers
  <1>5. CASE ReadSize \/ StartPartitioning \/ CompleteCollection
    <2>1. CursorInv'
      BY <1>5 DEF Inv, CursorInv, ReadSize, StartPartitioning, Partitioner, CompleteCollection,
                  Building, CanResumeFind, HasSampleRate
    <2>2. CoverInv'
      BY <1>2, <1>3, <1>5, CoverFrame
         DEF Inv, CoverInv, ReadSize, StartPartitioning, Partitioner, CompleteCollection
    <2>3. OrderInv'
      BY <1>2, <1>3, <1>5, OrderFrame
         DEF Inv, OrderInv, ReadSize, StartPartitioning, Partitioner, CompleteCollection, Early, Building
    <2> QED BY <1>1, <1>3, <2>1, <2>2, <2>3 DEF Inv
  <1>6. CASE ReadTopRecordID \/ ListBounds
    <2>1. lower = MinKey /\ lower' = MinKey
      BY <1>6 DEF Inv, CursorInv, ReadTopRecordID, ListBounds, Building
    <2>2. CursorInv'
      <3>1. bounds' \subseteq Pos
        BY <1>1 DEF TypeOK
      <3>2. \A b \in bounds' : lower' < b
        BY <2>1, <3>1, Numbers
      <3> QED BY <1>2, <1>6, <2>1, <3>2 DEF Inv, CursorInv, ReadTopRecordID, ListBounds, Building
    <2>3. CoverInv'
      BY <1>2, <1>3, <1>4, <1>6, <2>1, CoverFrame DEF Inv, ReadTopRecordID, ListBounds
    <2>4. OrderInv'
      BY <1>2, <1>3, <1>6, OrderFrame DEF Inv, OrderInv, ReadTopRecordID, ListBounds, Early
    <2> QED BY <1>1, <1>3, <2>2, <2>3, <2>4 DEF Inv
  <1>8. CASE LastReply
    <2>1. CursorInv'
      BY <1>8 DEF Inv, CursorInv, LastReply, Fresh, Building
    <2>2. CoverInv'
      <3>1. lower' = MinKey /\ source.natural /\ step' = "partitioned"
        BY <1>8 DEF Inv, CursorInv, LastReply, Fresh
      <3> QED BY <1>2, <1>3, <1>4, <3>1, CoverFrame DEF Inv
    <2>3. OrderInv'
      BY <1>2, <1>3, <1>8, OrderFrame DEF Inv, LastReply, Building, Early
    <2> QED BY <1>1, <1>3, <2>1, <2>2, <2>3 DEF Inv
  <1>9. CASE \E d \in Pos : SampledReply(d)
    <2>1. PICK d \in Pos : SampledReply(d)
      BY <1>9
    <2>2. CursorInv'
      BY <1>2, <2>1 DEF Inv, CursorInv, SampledReply, Building
    <2>3. CoverInv'
      BY <1>2, <1>3, <2>1, CoverFrame DEF Inv, CoverInv, SampledReply
    <2>4. OrderInv'
      BY <1>2, <1>3, <2>1, OrderFrame DEF Inv, OrderInv, SampledReply, Building, Early
    <2> QED BY <1>1, <1>3, <2>2, <2>3, <2>4 DEF Inv
  <1>7. CASE BeginSampling \/ BeginWalk
    <2>1. CursorInv'
      BY <1>2, <1>7 DEF Inv, CursorInv, BeginSampling, BeginWalk, Building, Partitioner, CanResumeFind, HasSampleRate
    <2>2. CoverInv'
      BY <1>2, <1>3, <1>7, UpperReached, CoverFrame DEF Inv, BeginSampling, BeginWalk
    <2>3. OrderInv'
      BY <1>2, <1>3, <1>7, LatestUpperOf, OrderFrame
         DEF Inv, TypeOK, BeginSampling, BeginWalk, Early
    <2> QED BY <1>1, <1>3, <2>1, <2>2, <2>3 DEF Inv
  <1> QED BY <1>5, <1>6, <1>7, <1>8, <1>9

\* A document comes or goes.
LEMMA InvDocs ==
    ASSUME Inv, NEW d \in Pos, InsertDoc(d) \/ DeleteDoc(d)
    PROVE  Inv'
  <1> USE DEF partitioner, progress, history
  <1>1. UNCHANGED <<source, step, lower, from, stride, bounds, reply, history, tasks, failures>>
    BY DEF InsertDoc, DeleteDoc
  <1>2. live' \subseteq Pos /\ touched' \subseteq Pos /\ Untouched' \subseteq Untouched
        /\ live \union touched \subseteq live' \union touched'
    BY DEF Inv, TypeOK, InsertDoc, DeleteDoc, Untouched
  <1>3. changes' \in 0..MaxChanges
    BY ConstantsOk DEF ConstantsOk, Inv, TypeOK, InsertDoc, DeleteDoc
  <1>4. TypeOK'
    BY <1>1, <1>2, <1>3 DEF Inv, TypeOK
  <1>5. CursorInv' /\ CoverInv' /\ OrderInv'
    BY <1>1 DEF Inv, CursorInv, Partitioner, CanResumeFind, HasSampleRate, CoverInv, Reached, OrderInv
  <1>6. TasksInv'
    <2>1. ASSUME NEW i \in DOMAIN tasks PROVE TaskOk(tasks[i])'
      BY <1>1, <1>2 DEF Inv, TasksInv, TaskOk, Read, Within
    <2> QED BY <1>1, <2>1 DEF TasksInv
  <1> QED BY <1>4, <1>5, <1>6 DEF Inv

\* A task is replaced by one with the same bounds, for which the invariant holds.
LEMMA InvTask ==
    ASSUME Inv, NEW i \in DOMAIN tasks, NEW t \in Task,
           tasks' = [tasks EXCEPT ![i] = t],
           t.lower = tasks[i].lower, t.upper = tasks[i].upper, TaskOk(t),
           UNCHANGED <<source, collection, partitioner, failures>>
    PROVE  Inv'
  <1> USE DEF collection, partitioner, progress, history
  <1>1. tasks \in Seq(Task) /\ DOMAIN tasks = 1..Len(tasks)
    BY LenProperties DEF Inv, TypeOK
  <1>2. /\ tasks' \in Seq(Task)
        /\ DOMAIN tasks' = DOMAIN tasks
        /\ tasks'[i] = t
        /\ \A j \in DOMAIN tasks : j # i => tasks'[j] = tasks[j]
    BY <1>1, ExceptSeq
  <1>3. SameBounds
    BY <1>2 DEF SameBounds
  <1>4. TypeOK'
    BY <1>2 DEF Inv, TypeOK
  <1>5. CursorInv'
    BY DEF Inv, CursorInv, Partitioner, CanResumeFind, HasSampleRate
  <1>6. CoverInv'
    BY <1>3, CoverFrame DEF Inv, CoverInv
  <1>7. OrderInv'
    BY <1>3, OrderFrame DEF Inv, OrderInv, Early
  <1>8. TasksInv'
    <2>1. Untouched' = Untouched
      BY DEF Untouched
    <2>2. TaskOk(tasks[i])'
      BY <1>2, <2>1 DEF TaskOk, Read, Within
    <2>3. ASSUME NEW j \in DOMAIN tasks, j # i PROVE TaskOk(tasks[j])'
      BY <1>2, <2>1, <2>3 DEF Inv, TasksInv, TaskOk, Read, Within
    <2> QED BY <1>2, <2>2, <2>3 DEF TasksInv
  <1> QED BY <1>4, <1>5, <1>6, <1>7, <1>8 DEF Inv

LEMMA InvReads ==
    ASSUME Inv, NEW i \in DOMAIN tasks, ReadExtremes(i) \/ ReadById(i) \/ ReadNaturally(i)
    PROVE  Inv'
  <1>1. tasks[i] \in Task /\ live \subseteq Pos /\ TaskOk(tasks[i])
    BY LenProperties, ElementOfSeq DEF Inv, TypeOK, TasksInv
  <1>2. Untouched \subseteq live /\ \A d \in Untouched : d \in Pos
    BY <1>1 DEF Untouched
  <1>3. CASE ReadExtremes(i)
    <2>1. PICK t : t = [tasks[i] EXCEPT !.status = "typed", !.low = Lowest, !.high = Highest]
      OBVIOUS
    <2>2. tasks' = [tasks EXCEPT ![i] = t]
      BY <1>3, <2>1 DEF ReadExtremes
    <2>3. t \in Task
      BY <1>1, <2>1, ExtremesOfLive DEF Task
    <2>4. /\ t.lower = tasks[i].lower /\ t.upper = tasks[i].upper /\ t.natural = tasks[i].natural
          /\ t.capped = tasks[i].capped /\ t.status = "typed" /\ t.low = Lowest /\ t.high = Highest
          /\ t.got = tasks[i].got
      BY <1>1, <2>1 DEF Task
    <2>5. TaskOk(t)
      <3>1. tasks[i].got = {}
        BY <1>1, <1>3 DEF TaskOk, Read, ReadExtremes
      <3> QED BY <1>1, <1>2, <2>4, <3>1, ExtremesOfLive DEF TaskOk, Read
    <2> QED BY <1>3, <2>2, <2>3, <2>4, <2>5, InvTask DEF ReadExtremes
  <1>4. CASE ReadById(i)
    <2>1. PICK t : t = [tasks[i] EXCEPT !.status = "read", !.low = 0, !.high = 0,
                                        !.got = live \intersect Selected(tasks[i])]
      OBVIOUS
    <2>2. tasks' = [tasks EXCEPT ![i] = t]
      BY <1>4, <2>1 DEF ReadById
    <2>3. t \in Task
      BY <1>1, <2>1, Numbers DEF Task
    <2>4. /\ t.lower = tasks[i].lower /\ t.upper = tasks[i].upper /\ t.natural = tasks[i].natural
          /\ t.capped = tasks[i].capped /\ t.status = "read" /\ t.low = 0 /\ t.high = 0
          /\ t.got = live \intersect Selected(tasks[i])
      BY <1>1, <2>1 DEF Task
    <2>5. TaskOk(t)
      <3>1. CASE t.capped
        BY <1>1, <1>2, <2>4, <3>1 DEF TaskOk, Selected, Read
      <3>2. CASE ~t.capped
        <4>1. ASSUME NEW d \in Untouched
              PROVE  d \in t.got <=> t.lower <= d /\ d <= t.upper
          <5>1. /\ tasks[i].low # 0 => tasks[i].low <= d
                /\ tasks[i].high # 0 => d <= tasks[i].high
            BY <1>1 DEF TaskOk
          <5>2. d \in Selected(tasks[i]) <=> tasks[i].lower <= d /\ d <= tasks[i].upper
            BY <1>1, <1>2, <2>4, <3>2, <5>1, SelectedExact DEF TaskOk
          <5> QED BY <1>2, <2>4, <5>2
        <4>2. \A d \in Untouched : t.lower < d => t.lower <= d
          BY <1>1, <1>2, <2>4, TaskFields, Numbers
        <4> QED BY <1>1, <2>4, <3>2, <4>1, <4>2 DEF TaskOk, Within, Read
      <3> QED BY <3>1, <3>2
    <2> QED BY <1>4, <2>2, <2>3, <2>4, <2>5, InvTask DEF ReadById
  <1>5. CASE ReadNaturally(i)
    <2>1. PICK t : t = [tasks[i] EXCEPT !.status = "read", !.got = NaturalRead(tasks[i])]
      OBVIOUS
    <2>2. tasks' = [tasks EXCEPT ![i] = t]
      BY <1>5, <2>1 DEF ReadNaturally
    <2>3. NaturalRead(tasks[i]) \subseteq Pos /\ NaturalRead(tasks[i]) \subseteq live
      BY <1>1 DEF NaturalRead, FromToken, StartAt, ResumeAfter
    <2>4. t \in Task
      BY <1>1, <2>1, <2>3 DEF Task
    <2>5. /\ t.lower = tasks[i].lower /\ t.upper = tasks[i].upper /\ t.natural = tasks[i].natural
          /\ t.capped = tasks[i].capped /\ t.status = "read" /\ t.low = tasks[i].low
          /\ t.high = tasks[i].high /\ t.got = NaturalRead(tasks[i])
      BY <1>1, <2>1 DEF Task
    <2>6. tasks[i].natural /\ tasks[i].status = "added"
      BY <1>5 DEF ReadNaturally
    <2>7. ASSUME NEW d \in Untouched
          PROVE  /\ Within(t, d) => d \in t.got
                 /\ d \in t.got => t.lower <= d /\ d <= t.upper
      BY <1>1, <1>2, <2>5, NaturalReadExact DEF Within
    <2>8. TaskOk(t)
      BY <1>1, <2>3, <2>5, <2>6, <2>7 DEF TaskOk, Read
    <2> QED BY <1>5, <2>2, <2>4, <2>5, <2>8, InvTask DEF ReadNaturally
  <1> QED BY <1>3, <1>4, <1>5

\* A failure, a retry, a crash: the partitioner starts again with what is stored.
LEMMA InvFail ==
    ASSUME Inv, RetryPartitioner \/ SampleFails \/ RetryCollection \/ Crash
    PROVE  Inv'
  <1> USE DEF collection, history
  <1>1. UNCHANGED <<source, live, touched, changes>> /\ Fresh /\ Fail
    BY DEF RetryPartitioner, SampleFails, RetryCollection, Crash
  <1>2. lower' = MinKey /\ reply' = 0 /\ bounds' = {} /\ from' \in 0..N + 1 /\ stride' \in 1..N + 1
    BY <1>1, FreshLocals
  <1>3. failures' \in 0..MaxFailures
    BY <1>1, ConstantsOk DEF ConstantsOk, Fail, Inv, TypeOK
  <1>4. \A d \in 1..MinKey : FALSE
    BY Numbers
  <1>5. ASSUME tasks' \in Seq(Task), again' \in BOOLEAN, cut' \in BOOLEAN,
               step' \in {"sample", "walk", "collection", "partitioned", "done"}
        PROVE  TypeOK'
    BY <1>1, <1>2, <1>3, <1>5, Numbers DEF Inv, TypeOK
  <1>6. CASE RetryPartitioner
    <2>1. /\ UNCHANGED <<tasks, history>>
          /\ step' \in {"sample", "walk"} /\ step' = Partitioner
      BY <1>6 DEF RetryPartitioner, Inv, CursorInv
    <2>2. TasksInv' /\ SameBounds
      BY <1>1, <2>1, TasksFrame DEF Inv
    <2>3. TypeOK'
      BY <1>5, <2>1 DEF Inv, TypeOK
    <2>4. CursorInv'
      BY <1>1, <1>2, <2>1 DEF CursorInv, Building, Partitioner, CanResumeFind, HasSampleRate
    <2>5. CoverInv'
      BY <1>1, <1>2, <1>4, <2>1, <2>2, CoverFrame DEF Inv
    <2>6. OrderInv'
      BY <2>1, <2>2, OrderFrame DEF Inv, Building, Early
    <2> QED BY <2>2, <2>3, <2>4, <2>5, <2>6 DEF Inv
  <1>7. CASE RetryCollection
    <2>1. UNCHANGED tasks /\ again' = TRUE /\ cut' = FALSE /\ step' = "collection"
      BY <1>7 DEF RetryCollection
    <2>2. TasksInv' /\ SameBounds
      BY <1>1, <2>1, TasksFrame DEF Inv
    <2>3. TypeOK'
      BY <1>5, <2>1 DEF Inv, TypeOK
    <2>4. CursorInv'
      BY <1>2, <2>1 DEF CursorInv, Building
    <2>5. CoverInv'
      BY <1>1, <1>2, <1>4, <2>1, <2>2, CoverFrame DEF Inv
    <2>6. OrderInv'
      BY <2>1 DEF OrderInv
    <2> QED BY <2>2, <2>3, <2>4, <2>5, <2>6 DEF Inv
  <1>10. CASE SampleFails
    <2>1. UNCHANGED <<tasks, again>> /\ cut' = TRUE /\ step' = "partitioned"
      BY <1>10 DEF SampleFails
    <2>2. TasksInv' /\ SameBounds
      BY <1>1, <2>1, TasksFrame DEF Inv
    <2>3. TypeOK'
      BY <1>5, <2>1 DEF Inv, TypeOK
    <2>4. CursorInv'
      BY <1>2, <2>1 DEF CursorInv, Building
    <2>5. CoverInv'
      <3>1. \A d \in 1..lower' : Reached(d)
        BY <1>2, <1>4
      <3>2. cut' /\ source' = source /\ CoverInv
        BY <1>1, <2>1 DEF Inv
      <3>3. step' \in {"partitioned", "done"} =>
                source.natural \/ cut' \/ (step \in {"partitioned", "done"} /\ cut' = cut)
        BY <3>2
      <3> QED BY <2>2, <3>1, <3>2, <3>3, CoverFrame
    <2>6. OrderInv'
      BY <2>1, <2>2, OrderFrame DEF Inv, Building, Early
    <2> QED BY <2>2, <2>3, <2>4, <2>5, <2>6 DEF Inv
  <1>8. CASE Crash /\ step = "done"
    <2>1. /\ UNCHANGED <<step, history>>
          /\ tasks' = [i \in DOMAIN tasks |->
                         IF tasks[i].status = "typed"
                             THEN [tasks[i] EXCEPT !.status = "added", !.low = 0, !.high = 0]
                             ELSE tasks[i]]
      BY <1>8 DEF Crash
    <2>2. DOMAIN tasks = 1..Len(tasks) /\ Len(tasks) \in Nat /\ \A i \in DOMAIN tasks : tasks[i] \in Task
      BY LenProperties, ElementOfSeq DEF Inv, TypeOK
    <2>3. ASSUME NEW i \in DOMAIN tasks
          PROVE  /\ tasks'[i] \in Task
                 /\ tasks'[i].lower = tasks[i].lower /\ tasks'[i].upper = tasks[i].upper
                 /\ TaskOk(tasks[i])'
      <3>1. tasks[i] \in Task /\ TaskOk(tasks[i])
        BY <2>2 DEF Inv, TasksInv
      <3>2. Untouched' = Untouched
        BY <1>1 DEF Untouched
      <3>3. CASE tasks[i].status = "typed"
        <4>1. tasks'[i] = [tasks[i] EXCEPT !.status = "added", !.low = 0, !.high = 0]
          BY <2>1, <3>3
        <4>2. tasks'[i] \in Task
          BY <3>1, <4>1, Numbers DEF Task
        <4>3. /\ tasks'[i].lower = tasks[i].lower /\ tasks'[i].upper = tasks[i].upper
              /\ tasks'[i].natural = tasks[i].natural /\ tasks'[i].capped = tasks[i].capped
              /\ tasks'[i].status = "added" /\ tasks'[i].low = 0 /\ tasks'[i].high = 0
              /\ tasks'[i].got = tasks[i].got
          BY <3>1, <4>1 DEF Task
        <4>4. TaskOk(tasks[i])'
          BY <1>1, <3>1, <3>3, <4>3 DEF TaskOk, Read
        <4> QED BY <4>2, <4>3, <4>4
      <3>4. CASE tasks[i].status # "typed"
        <4>1. tasks'[i] = tasks[i]
          BY <2>1, <3>4
        <4> QED BY <1>1, <3>1, <3>2, <4>1 DEF TaskOk, Read, Within
      <3> QED BY <3>3, <3>4
    <2>4. tasks' \in Seq(Task) /\ DOMAIN tasks' = DOMAIN tasks
      <3>1. DOMAIN tasks' = DOMAIN tasks
        BY <2>1
      <3>2. tasks' \in [1..Len(tasks) -> Task]
        BY <2>1, <2>2, <2>3
      <3> QED BY <2>2, <3>1, <3>2
    <2>5. SameBounds
      BY <2>3, <2>4 DEF SameBounds
    <2>6. TypeOK'
      BY <1>5, <1>8, <2>1, <2>4 DEF Inv, TypeOK
    <2>7. CursorInv'
      BY <1>2, <1>8, <2>1 DEF CursorInv, Building
    <2>8. CoverInv'
      <3>1. \A d \in 1..lower' : Reached(d)
        BY <1>2, <1>4
      <3>2. cut' = cut /\ source' = source /\ step \in {"partitioned", "done"} /\ CoverInv
        BY <1>1, <1>8, <2>1 DEF Inv
      <3> QED BY <2>5, <3>1, <3>2, CoverFrame
    <2>9. OrderInv'
      BY <1>8, <2>1, <2>5, OrderFrame DEF Inv, Building, Early
    <2>10. TasksInv'
      BY <2>3, <2>4 DEF TasksInv
    <2> QED BY <2>6, <2>7, <2>8, <2>9, <2>10 DEF Inv
  <1>9. CASE Crash /\ step # "done"
    <2>1. tasks' = <<>> /\ step' = "collection" /\ again' = FALSE /\ cut' = FALSE
      BY <1>9 DEF Crash
    <2>2. tasks' \in Seq(Task) /\ DOMAIN tasks' = {}
      BY <2>1
    <2>3. TypeOK'
      BY <1>5, <2>1, <2>2
    <2>4. CursorInv'
      BY <1>2, <2>1 DEF CursorInv, Building
    <2>5. CoverInv' /\ OrderInv' /\ TasksInv'
      BY <1>2, <1>4, <2>1, <2>2 DEF CoverInv, OrderInv, TasksInv, Building
    <2> QED BY <2>3, <2>4, <2>5 DEF Inv
  <1> QED BY <1>6, <1>7, <1>8, <1>9, <1>10

LEMMA InvNext == Inv /\ [Next]_vars => Inv'
  <1> SUFFICES ASSUME Inv, [Next]_vars PROVE Inv'
    OBVIOUS
  <1>0. TypeOK /\ CursorInv
    BY DEF Inv
  <1>1. CASE UNCHANGED vars
    <2> USE <1>1 DEF vars, collection, partitioner, progress, history
    <2>1. TypeOK' /\ CursorInv' /\ CoverInv' /\ OrderInv'
      BY DEF Inv, TypeOK, CursorInv, Partitioner, CanResumeFind, HasSampleRate, CoverInv, Reached,
             OrderInv
    <2>2. TasksInv'
      BY TasksFrame DEF Inv
    <2> QED BY <2>1, <2>2 DEF Inv
  <1>2. CASE \E d \in Pos : InsertDoc(d) \/ DeleteDoc(d)
    BY <1>2, InvDocs
  <1>3. CASE Partition
    <2>1. CASE SinglePartition
      <3>1. UNCHANGED <<source, collection, history, failures>>
        BY <2>1 DEF SinglePartition
      <3> QED BY <1>0, <2>1, <3>1, SingleStores, InvStores
    <2>2. CASE \E d \in Pos : SampleNext(d)
      <3>1. UNCHANGED <<source, collection, history, failures>>
        BY <2>2 DEF SampleNext
      <3> QED BY <1>0, <2>2, <3>1, SampleNextStores, InvStores
    <2>3. CASE SampleEnd \/ WalkEnd
      <3>1. UNCHANGED <<source, collection, history, failures>>
        BY <2>3 DEF SampleEnd, WalkEnd
      <3> QED BY <1>0, <2>3, <3>1, LastStores, InvStores
    <2>4. CASE \E d \in Pos : WalkNext(d)
      <3>1. UNCHANGED <<source, collection, history, failures>>
        BY <2>4 DEF WalkNext
      <3> QED BY <1>0, <2>4, <3>1, WalkNextStores, InvStores
    <2>5. CASE AddListed
      <3>1. UNCHANGED <<source, collection, history, failures>>
        BY <2>5 DEF AddListed
      <3> QED BY <1>0, <2>5, <3>1, AddListedStores, InvStores
    <2>6. CASE NaturalPartition
      <3>1. UNCHANGED <<source, collection, history, failures>>
        BY <2>6 DEF NaturalPartition
      <3> QED BY <1>0, <2>6, <3>1, NaturalStores, InvStores
    <2>7. CASE WholeNatural
      <3>1. UNCHANGED <<source, collection, history, failures>> /\ step = "whole"
        BY <2>7 DEF WholeNatural
      <3>2. CASE StoresWell
        BY <3>1, <3>2, InvStores
      <3>3. CASE step' = "partitioned" /\ source.natural /\ UNCHANGED <<tasks, progress>>
        <4> USE <3>1, <3>3 DEF collection, progress, history
        <4>1. TypeOK'
          BY <1>0 DEF TypeOK
        <4>2. CursorInv'
          BY <1>0 DEF CursorInv, Building
        <4>3. TasksInv' /\ SameBounds
          BY TasksFrame DEF Inv
        <4>4. CoverInv'
          BY <4>3, CoverFrame DEF Inv, CoverInv
        <4>5. OrderInv'
          BY <4>3, OrderFrame DEF Inv, Building, Early
        <4> QED BY <4>1, <4>2, <4>3, <4>4, <4>5 DEF Inv
      <3> QED BY <1>0, <2>7, <3>2, <3>3, WholeStores
    <2>8. CASE \/ ReadSize \/ StartPartitioning \/ CompleteCollection \/ ReadTopRecordID
               \/ BeginSampling \/ BeginWalk \/ ListBounds \/ LastReply
               \/ \E d \in Pos : SampledReply(d)
      BY <2>8, InvPlan
    <2> QED BY <1>3, <2>1, <2>2, <2>3, <2>4, <2>5, <2>6, <2>7, <2>8 DEF Partition
  <1>4. CASE RetryPartitioner \/ SampleFails \/ RetryCollection \/ Crash
    BY <1>4, InvFail
  <1>5. CASE \E i \in DOMAIN tasks : ReadExtremes(i) \/ ReadById(i) \/ ReadNaturally(i)
    BY <1>5, InvReads
  <1> QED BY <1>1, <1>2, <1>3, <1>4, <1>5 DEF Next

LEMMA Invariant == Spec => []Inv
  <1> QED BY InvInit, InvNext, PTL DEF Spec

-----------------------------------------------------------------------------
\* What follows from the invariant.

LEMMA InvTasks ==
    ASSUME Inv, NEW i \in DOMAIN tasks
    PROVE  tasks[i] \in Task /\ TaskOk(tasks[i])
  BY LenProperties, ElementOfSeq DEF Inv, TypeOK, TasksInv

LEMMA UntouchedNumbers ==
    ASSUME Inv, NEW d \in Untouched
    PROVE  d \in Pos /\ d \in Int
  BY Numbers DEF Inv, TypeOK, Untouched

LEMMA InvReadExact == Inv => ReadExact
  BY InvTasks DEF ReadExact, TaskOk, Within

LEMMA InvFiltersAgree == Inv => FiltersAgree
  <1> SUFFICES ASSUME Inv, NEW i \in DOMAIN tasks
               PROVE  ExplicitFilter(tasks[i].lower, tasks[i].upper) = ExprFilter(tasks[i].lower, tasks[i].upper)
    BY DEF FiltersAgree
  <1> QED BY InvTasks, TaskFields, FiltersEqual DEF TaskOk

LEMMA InvCovered == Inv => Covered
  <1> SUFFICES ASSUME Inv, AllRead, NEW d \in Untouched,
                      (source.natural \/ cut) => \E i \in DOMAIN tasks : d <= tasks[i].upper
               PROVE  \E i \in DOMAIN tasks : d \in tasks[i].got
    BY DEF Covered
  <1>1. d \in Pos /\ d \in Int
    BY UntouchedNumbers
  <1>2. PICK i \in DOMAIN tasks : d <= tasks[i].upper
    <2>1. CASE source.natural \/ cut
      BY <2>1
    <2>2. CASE ~(source.natural \/ cut)
      BY <1>1, <2>2, Numbers DEF AllRead, Inv, CoverInv
    <2> QED BY <2>1, <2>2
  <1>3. Reached(d)
    <2>1. tasks[i].upper \in Int
      BY InvTasks, TaskFields
    <2> QED BY <1>1, <1>2, <2>1, Numbers DEF Inv, CoverInv
  <1>4. PICK j \in DOMAIN tasks : Within(tasks[j], d)
    BY <1>3 DEF Reached
  <1>5. Read(tasks[j])
    BY DEF AllRead
  <1> QED BY <1>4, <1>5, InvTasks DEF TaskOk

LEMMA InvDisjoint == Inv => Disjoint
  <1> SUFFICES ASSUME Inv, ~again, ~source.capped,
                      NEW i \in DOMAIN tasks, NEW j \in DOMAIN tasks, i # j,
                      NEW d \in (tasks[i].got \intersect tasks[j].got) \ touched
               PROVE  d \in {tasks[i].lower, tasks[i].upper} /\ d \in {tasks[j].lower, tasks[j].upper}
    BY DEF Disjoint
  <1>1. d \in Untouched
    BY InvTasks DEF TaskOk, Untouched
  <1>2. ASSUME NEW k \in DOMAIN tasks, d \in tasks[k].got
        PROVE  /\ tasks[k].lower <= d /\ d <= tasks[k].upper
               /\ tasks[k].lower \in Int /\ tasks[k].upper \in Int
    BY <1>1, <1>2, InvTasks, TaskFields DEF TaskOk
  <1>3. i \in Nat /\ j \in Nat
    BY LenProperties DEF Inv, TypeOK
  <1>4. tasks[i].upper <= tasks[j].lower \/ tasks[j].upper <= tasks[i].lower
    BY <1>3 DEF Inv, OrderInv
  <1>5. d \in Int
    BY <1>1, UntouchedNumbers
  <1> QED BY <1>2, <1>4, <1>5

\* TypeCorrect: every variable keeps its type; a natural partition's upper bound, for
\* one, is a record ID although GetTopRecordID may find none.
THEOREM TypeCorrect == Spec => []TypeOK
  <1>1. Inv => TypeOK
    BY DEF Inv
  <1> QED BY <1>1, Invariant, PTL

\* ReadsExact: reading a partition, by _id with whatever filter the server needs, or in
\* natural order from whatever resume token is left, finds the untouched documents
\* between its bounds, and of them no others.
THEOREM ReadsExact == Spec => []ReadExact
  BY Invariant, InvReadExact, PTL

\* FiltersAlwaysAgree: the filter with explicit types selects what the one with
\* expressions does, for every partition that partitioning comes up with.
THEOREM FiltersAlwaysAgree == Spec => []FiltersAgree
  BY Invariant, InvFiltersAgree, PTL

\* AllCovered: once partitioning is done and every partition is read, every untouched
\* document was read, whatever failed and was retried; in natural order, and where the
\* failing of sampling's cursor was taken for its end, those up to the last partition's
\* upper bound.
THEOREM AllCovered == Spec => []Covered
  BY Invariant, InvCovered, PTL

\* NoOverlap: unless the whole task is retried, partitions share nothing but bounds, also
\* when sampling or the index walk was resumed at the latest upper bound.
THEOREM NoOverlap == Spec => []Disjoint
  BY Invariant, InvDisjoint, PTL

=============================================================================
