SPECIFICATION Spec
CONSTANTS
    Docs = 3
    FirstColl = 2
    MaxIds = 2
    MaxPerRequest = 2
    MaxGen = 2
    Changing = {2}
    Failing = {1}
    MaxChanges = 1
    MaxFailures = 1
    MaxBoth = 2
\* The last generation comes to its end.
CHECK_DEADLOCK FALSE
INVARIANTS TypeOK QueueCovered Unsplit TasksUniform AgeSound AgeKept CountedOnce
PROPERTY LedgerKept
