\* Five steps compete for two slots.
SPECIFICATION Spec
CONSTANTS
    Steps = {s1, s2, s3, s4, s5}
    Limit = 2
INVARIANTS
    CeilingHolds
    NoIdleSlot
PROPERTIES
    FirstComeFirstServed
