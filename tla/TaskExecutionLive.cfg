SPECIFICATION FairSpec
CONSTANTS
    Jobs = {1, 2}
    s1 = s1
    h1 = h1
    h2 = h2
    Slugs = {s1}
    Handlers = {h1, h2}
    Faults = {"git", "gitlab", "telegram"}
    DryRunModes = {TRUE, FALSE}
    MaxPresses = 2
    MaxCrashes = 0
    Base = Base
    None = None
PROPERTY AcceptedSettles
PROPERTY MergingResolves
CHECK_DEADLOCK FALSE
