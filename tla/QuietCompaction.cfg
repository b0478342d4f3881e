SPECIFICATION FairSpec
CONSTANTS
    Sessions = {"s1", "s2"}
    Turns = {"t1", "t2"}
    MaxTicks = 2
INVARIANTS
    PassIsSound
    MetPassHasEnded
PROPERTIES
    StoppedPassReleases
    PassYields
CHECK_DEADLOCK FALSE
