SPECIFICATION Spec
CONSTANTS
    Sessions = {"s1", "s2"}
    Turns = {"t1", "t2"}
    MaxTicks = 2
PROPERTY
    OnlyAnotherStopsIt
CHECK_DEADLOCK FALSE
