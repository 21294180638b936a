SPECIFICATION Spec
CONSTANTS
    Jobs = {1, 2}
    s1 = s1
    s2 = s2
    h1 = h1
    h2 = h2
    Slugs = {s1, s2}
    Handlers = {h1, h2}
    Faults = {"db", "git", "gitlab", "telegram"}
    DryRunModes = {TRUE, FALSE}
    MaxPresses = 2
    MaxCrashes = 1
    Base = Base
    None = None
SYMMETRY Interchangeable
INVARIANT TypeOK
INVARIANT WorktreeIsOwn
INVARIANT PublishedWasVerified
INVARIANT MergedWasApproved
INVARIANT AwaitingIsMergeable
INVARIANT DoneIsMergedOrDry
PROPERTY KeepsTheGate
PROPERTY NeverReopened
CHECK_DEADLOCK FALSE
