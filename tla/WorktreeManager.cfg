SPECIFICATION Spec
CONSTANTS
    s1 = s1
    s2 = s2
    Executor = Executor
    c1 = c1
    c2 = c2
    None = None
    Broken = Broken
    Partial = Partial
    Slugs = {s1, s2}
    Callbacks = {c1, c2}
    MaxJobs = 3
    MaxCleanups = 2
    MaxFaults = 2
    MaxCrashes = 1
SYMMETRY Interchangeable
INVARIANT TypeOK
INVARIANT WorkIsOwn
INVARIANT BranchHoldsTheWork
PROPERTY RetryStartsClean
PROPERTY RemoveLeavesNothing
CHECK_DEADLOCK FALSE
