\* One document, two workers and the most generations, under fairness: a crash at
\* any point, also in the final generation, and a second run to its own final
\* generation.  No SYMMETRY: a liveness property is checked.
SPECIFICATION FairSpec
CONSTANTS
    Doc = {d1}
    Val = {absent, a}
    Absent = absent
    Worker = {w1, w2}
    None = None
    SpinGen = 1
    MaxGen = 3
    MaxWrites = 1
    MaxCrashes = 1
INVARIANTS
    TypeOK
    CreatorIsCurrent
    FailureOwed
PROPERTIES
    QueueClosed
    WritesOffFinishes
\* The verification ends, and without writes-off it stops at SpinGen.
CHECK_DEADLOCK FALSE
