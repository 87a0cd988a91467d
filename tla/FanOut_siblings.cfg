\* A foreach with several blocked items, answered one at a time.
SPECIFICATION Spec
CONSTANTS
    Kinds = {"foreach"}
    N = 3
    Body = 2
    Concurrency = 2
    Ceiling = 2
    Asking = {1, 2}
    Optional = {}
    MaxCalls = 2
    MaxCrashes = 0
    MaxCancels = 0
PROPERTY BlockedSiblingsUntouched
CHECK_DEADLOCK FALSE
