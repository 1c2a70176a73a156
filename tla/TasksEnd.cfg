\* Crashes and lost answers at any point of the set-up: all tasks or none, and an end.
SPECIFICATION FairSpec
CONSTANTS
    Namespaces = {n1, n2}
    Part = {p1}
    Worker = {w1, w2}
    NoNs = NoNs
    SetupInterrupted = TRUE
    ClaimErrors = FALSE
    MaxAttempts = 2
    MaxCopies = 2
    MaxRetries = 1
    MaxCrashes = 2
\* The generation comes to its end.
CHECK_DEADLOCK FALSE
INVARIANT SetupAllOrNothing
PROPERTY GenerationEnds
