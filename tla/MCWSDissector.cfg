SPECIFICATION FairSpec
CONSTANTS
    Messages <- MCMessages
    NotUtf8 <- MCNotUtf8
    AnswerLines = 3
    RequestPipe = 10
    AnswerPipe = 2
    StdioSize = 2
    MaxCalls = 5
INVARIANTS
    TypeOK
    AnswersInStep
PROPERTIES
    DecodeReturns
    ChildLeavesWithParent
CHECK_DEADLOCK FALSE
