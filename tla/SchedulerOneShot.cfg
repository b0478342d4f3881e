SPECIFICATION Spec
CONSTANTS
    Timed = {"brief", "timer"}
    Rules = {"rule"}
    Stored <- Files
    Requests <- EveryCall
    Cooldown = 2
    Procs = {p1, p2}
    MaxTime = 2
    MaxCalls = 2
    MaxCrashes = 1
SYMMETRY AnyOrder
INVARIANT
    NewestIsOnDisk
CHECK_DEADLOCK FALSE
