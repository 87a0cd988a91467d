\* Three commands in three processes; a process may die between any two system calls.
SPECIFICATION FairSpec
CONSTANTS
    a1 = a1
    a2 = a2
    a3 = a3
    p1 = p1
    p2 = p2
    p3 = p3
    Agents = {a1, a2, a3}
    Procs = {p1, p2, p3}
    ProcOf <- MCProcOf
    HostOf <- MCHostOf
    MaxRetries = 1
    MaxCommands = 3
    MaxCrashes = 1
INVARIANTS
    LeaseCoversExecution
PROPERTIES
    ImplementsExclusiveLease
    CommandsEnd
CHECK_DEADLOCK FALSE
