\* Two processes, three agents, two questions, one process death.
SPECIFICATION FairSpec
CONSTANTS
    a = a
    b = b
    c = c
    p = p
    q = q
    Agents = {a, b, c}
    Procs = {p, q}
    ProcOf <- ThreeAgents
    First = a
    Nobody = Nobody
    MaxCommands = 2
    MaxAsks = 1
    MaxCrashes = 1
INVARIANTS
    ExecutionsAreSerial
PROPERTIES
    EndStands
    OneAnswerPerQuestion
    GhostsAreReclaimed
CHECK_DEADLOCK FALSE
