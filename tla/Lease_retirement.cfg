\* A process dies while it holds the retirement marker.
SPECIFICATION Spec
CONSTANTS
    a1 = a1
    a2 = a2
    a3 = a3
    p1 = p1
    p2 = p2
    p3 = p3
    Agents = {a1, a2, a3}
    Procs = {p1, p2, p3}
    ProcOf <- MCProcOf
    HostOf <- MCHostOf
    MaxRetries = 1
    MaxCommands = 3
    MaxCrashes = 1
INVARIANT MutualExclusion
CHECK_DEADLOCK FALSE
