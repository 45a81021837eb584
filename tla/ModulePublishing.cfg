SPECIFICATION Spec
CONSTANTS
    t1 = t1
    t2 = t2
    m1 = m1
    m2 = m2
    Threads <- MCThreads
    Paths <- MCPaths
SYMMETRY Symmetry
INVARIANT ParallelIsRaceFree
INVARIANT FallbackIsNeeded
CHECK_DEADLOCK FALSE
