\* A crash during the set-up.
SPECIFICATION Spec
CONSTANTS
    Namespaces = {n1, n2}
    Part = {p1}
    Worker = {w1}
    NoNs = NoNs
    SetupInterrupted = TRUE
    ClaimErrors = FALSE
    MaxAttempts = 2
    MaxCopies = 2
    MaxRetries = 0
    MaxCrashes = 1
\* The generation comes to its end.
CHECK_DEADLOCK FALSE
INVARIANTS AllCompared
