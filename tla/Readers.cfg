\* The three kinds of reader, with reconnects, a crash and lost history.  On
\* DocumentDB lulls (MaxLull) are shorter than the drain's patience (IdlePolls).
SPECIFICATION Spec
CONSTANTS
    Kinds = {"changeStream", "documentDB", "oplog"}
    LateWrites = FALSE
    BufferSize = 1
    IdlePolls = 2
    MaxLull = 1
    None = None
    MaxEvents = 2
    MaxTime = 3
    MaxFailures = 1
    MaxCrashes = 1
\* The reader may be done or have failed for good.
CHECK_DEADLOCK FALSE
CONSTRAINT ClockBound
INVARIANTS
    TypeOK
    TokenDelivered
    FenceDelivered
