SPECIFICATION Spec
CONSTANTS
    Workflows <- MCWorkflows
    Input <- MCInput
    MaxCalls = 3
    MaxEdits = 0
INVARIANT ReportMatchesStatus
CHECK_DEADLOCK FALSE
