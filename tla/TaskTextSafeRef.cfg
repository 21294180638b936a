SPECIFICATION Spec
CONSTANTS
    MaxDigits = 1
    MaxTitle = 3
    MaxLen = 8
    NBlocks = 1
    PageSize = 2
    MaxDepth = 1
INVARIANT SlugIsSafeRef
CHECK_DEADLOCK FALSE
