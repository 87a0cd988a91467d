\* Two runs, two processes of which one dies in the middle of a line.
SPECIFICATION Spec
CONSTANTS
    Runs = {r1, r2}
    Procs = {p, q}
    MaxEvents = 4
    MaxDeaths = 2
INVARIANT AcknowledgedIsRead
CHECK_DEADLOCK FALSE
