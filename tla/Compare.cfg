\* Both kinds of partition, three documents, one failure anywhere.
SPECIFICATION MCSpec
CONSTANTS
    Docs = 3
    BatchSize = 1
    ReplySize = 2
    IdsCap = 1
    MaxProblems = 1
    ResultsCap = 1
    MaxTaskAttempts = 2
    None = None
    MaxFailures = 1
\* The task comes to its end.
CHECK_DEADLOCK FALSE
INVARIANTS TypeOK RecordedExact ClosedWithProblems MemoryBounded
PROPERTY TaskEnds
