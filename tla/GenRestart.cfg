\* The final generation is interrupted after it has failed a document.
SPECIFICATION Spec
CONSTANTS
    Doc = {d1}
    Val = {absent, a}
    Absent = absent
    Worker = {w1}
    None = None
    SpinGen = 1
    MaxGen = 3
    MaxWrites = 2
    MaxCrashes = 1
INVARIANT RestartVerdictSound
\* The verification ends, and without writes-off it stops at SpinGen.
CHECK_DEADLOCK FALSE
