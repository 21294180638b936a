SPECIFICATION FairSpec
CONSTANTS
    Pages = {1, 2}
    Versions = {1, 2}
    h1 = h1
    Handlers = {h1}
    MaxEdits = 2
    MaxPresses = 0
    MaxFaults = 2
    MaxCrashes = 1
    None = None
PROPERTY RemovalIsRecorded
PROPERTY SnapshotCatchesUp
PROPERTY OfferedUnlessCallFails
