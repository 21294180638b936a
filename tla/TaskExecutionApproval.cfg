SPECIFICATION FairSpec
CONSTANTS
    Jobs = {1, 2}
    s1 = s1
    h1 = h1
    h2 = h2
    h3 = h3
    Slugs = {s1}
    Handlers = {h1, h2, h3}
    Faults = {"gitlab"}
    DryRunModes = {TRUE, FALSE}
    MaxPresses = 3
    MaxCrashes = 0
    Base = Base
    None = None
PROPERTY ApprovalActsOn
PROPERTY MergingResolves
CHECK_DEADLOCK FALSE
