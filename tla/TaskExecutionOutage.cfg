SPECIFICATION Spec
CONSTANTS
    Jobs = {1}
    s1 = s1
    h1 = h1
    h2 = h2
    Slugs = {s1}
    Handlers = {h1, h2}
    Faults = {"telegram"}
    DryRunModes = {FALSE}
    MaxPresses = 2
    MaxCrashes = 0
    Base = Base
    None = None
SYMMETRY Interchangeable
INVARIANT OutageNeverAborts
CHECK_DEADLOCK FALSE
