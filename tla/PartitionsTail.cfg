\* A large collection in natural order, nothing fails or changes.
SPECIFICATION Spec
CONSTANTS
    N = 3
    Breaks = {2}
    MaxChanges = 0
    MaxFailures = 0
    MaxBoth = 0
\* The collection is done.
CHECK_DEADLOCK FALSE
INVARIANT TailCovered
