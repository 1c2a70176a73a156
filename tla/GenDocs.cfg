\* Two documents: batches and creator tasks that are cut in the middle.
SPECIFICATION Spec
CONSTANTS
    Doc = {d1, d2}
    Val = {absent, a}
    Absent = absent
    Worker = {w1}
    None = None
    SpinGen = 0
    MaxGen = 2
    MaxWrites = 2
    MaxCrashes = 1
\* The verification ends, and without writes-off it stops at SpinGen.
CHECK_DEADLOCK FALSE
INVARIANTS
    TokenCovered
    VerdictSound
    VerdictExact
PROPERTY LedgerKept
SYMMETRY DocSymmetry
