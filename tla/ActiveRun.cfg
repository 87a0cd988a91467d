\* Two cancellers race a fresh run that emits two events, while two appends may fail.
SPECIFICATION FairSpec
CONSTANTS
    Fresh = TRUE
    Callers = {c1, c2}
    MaxEmits = 2
    MaxFailures = 2
INVARIANTS
    NothingFollowsCancellation
    FlushedBeforeAbort
    ReportMatchesLog
PROPERTIES
    ImplementsDecision
    RunEnds
    CancellersAnswered
CHECK_DEADLOCK FALSE
