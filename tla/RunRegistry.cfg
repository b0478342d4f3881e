SPECIFICATION Spec
CONSTANTS
    Sessions = {s1, s2}
    RunIds = {r1, r2, r3, r4}
    NoRun = NoRun
    MaxRuns = 2
    Retention = 2
    MayPanic = TRUE
INVARIANTS
    PermitMeansRoom
    IndexIsExact
CHECK_DEADLOCK FALSE
