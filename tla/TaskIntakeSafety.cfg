SPECIFICATION Spec
CONSTANTS
    Pages = {1, 2}
    Versions = {1}
    h1 = h1
    h2 = h2
    Handlers = {h1, h2}
    MaxEdits = 2
    MaxPresses = 2
    MaxFaults = 1
    MaxCrashes = 1
    None = None
SYMMETRY Interchangeable
INVARIANT TypeOK
INVARIANT OneCardPerPage
INVARIANT NotifiedHasCard
PROPERTY RemovedWasAbsent
PROPERTY RemovalSparesDecided
PROPERTY AcceptStarts
