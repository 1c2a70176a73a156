\* Two collections of two partitions, two workers, crashes and errors, also of the
\* claims; the set-up is not interrupted.
SPECIFICATION Spec
CONSTANTS
    Namespaces = {n1, n2}
    Part = {p1, p2}
    Worker = {w1, w2}
    NoNs = NoNs
    SetupInterrupted = FALSE
    ClaimErrors = TRUE
    MaxAttempts = 2
    MaxCopies = 2
    MaxRetries = 1
    MaxCrashes = 1
\* The generation comes to its end.
CHECK_DEADLOCK FALSE
INVARIANTS TypeOK AllCompared AllPartitionsCompared MetadataRecheckOwed PartitionedOnce
PROPERTY ResultsKept
