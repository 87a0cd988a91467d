\* Every construct over three items, four engine calls, one dead process, one cancellation.
SPECIFICATION FairSpec
CONSTANTS
    Kinds = {"sequential", "foreach", "parallel"}
    N = 3
    Body = 1
    Concurrency = 2
    Ceiling = 2
    Asking = {1, 3}
    Optional = {2}
    MaxCalls = 4
    MaxCrashes = 1
    MaxCancels = 1
INVARIANTS
    ReportMatchesStatusOtherwise
PROPERTIES
    BlockedArmsUntouched
    CompletedWorkIsKept
    OutputIsWhole
    DrainClaimsNothing
    CallReturns
CHECK_DEADLOCK FALSE
