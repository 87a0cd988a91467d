\* Steps of every kind, two attempts, one correction, two answers.
SPECIFICATION FairSpec
CONSTANTS
    Steps <- EveryKind
    Budget = 2
    MaxTokens = 2
    MaxRetry = 1
    MaxRepairs = 1
    MaxUsage = 2
    MaxAnswers = 2
    MaxSessions = 6
INVARIANTS
    OneConversation
    BudgetsSpanBlocks
PROPERTIES
    CompletedOrBlockedStands
    StepEnds
CHECK_DEADLOCK FALSE
