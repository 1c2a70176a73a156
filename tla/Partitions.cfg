\* Every kind of source; _ids in two brackets of types; documents that come and go,
\* and errors or crashes, at any point.
SPECIFICATION Spec
CONSTANTS
    N = 3
    Breaks = {2}
    MaxChanges = 2
    MaxFailures = 1
    MaxBoth = 2
\* The collection is done.
CHECK_DEADLOCK FALSE
INVARIANTS TypeOK ReadExact FiltersAgree Covered Disjoint
