SPECIFICATION FairSpec
CONSTANTS
    Pages = {1}
    Versions = {1}
    h1 = h1
    Handlers = {h1}
    MaxEdits = 0
    MaxPresses = 0
    MaxFaults = 1
    MaxCrashes = 0
    None = None
PROPERTY NewTaskIsOffered
