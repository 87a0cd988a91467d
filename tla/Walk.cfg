SPECIFICATION ObservedSpec
CONSTANTS
    Workflows <- MCWorkflows
    Input <- MCInput
    MaxCalls = 3
    MaxEdits = 1
INVARIANT ReportMatchesStatusOtherwise
INVARIANT CompletedNodesFormPrefix
INVARIANT ClockMatchesState
INVARIANT EndedRunIsSettled
INVARIANT PanelFollowsRun
INVARIANT PublishedIsSelfContained
INVARIANT SubscriberFollows
PROPERTY RestoresPosition
PROPERTY AnswerReachesStepOtherwise
PROPERTY ReadsAreRecovered
CHECK_DEADLOCK FALSE
