\* DocumentDB, with a writer who goes on after writes-off.
SPECIFICATION FairSpec
CONSTANTS
    Kinds = {"documentDB"}
    LateWrites = TRUE
    BufferSize = 1
    IdlePolls = 2
    MaxLull = 1
    None = None
    MaxEvents = 1
    MaxTime = 2
    MaxFailures = 1
    MaxCrashes = 1
\* The reader may be done or have failed for good.
CHECK_DEADLOCK FALSE
PROPERTY DrainEnds
