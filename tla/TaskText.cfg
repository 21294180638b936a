SPECIFICATION Spec
CONSTANTS
    MaxDigits = 2
    MaxTitle = 5
    MaxLen = 9
    NBlocks = 5
    PageSize = 2
    MaxDepth = 2
INVARIANT SlugIsTidy
INVARIANT NumberIsReadBack
INVARIANT BodyIsThePage
CHECK_DEADLOCK FALSE
