SPECIFICATION Spec
CONSTANTS
    NGates = 3
    MaxLines = 3
    MaxTokens = 7
INVARIANT TypeOK
INVARIANT FailuresAreNamed
INVARIANT PlainVerdictIsRead
INVARIANT RejectionIsNoApproval
PROPERTY OnlyGoodWorkPasses
PROPERTY ApprovalWasSaid
PROPERTY LimitIsReported
CHECK_DEADLOCK FALSE
