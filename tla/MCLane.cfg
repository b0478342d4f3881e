SPECIFICATION FairSpec
CONSTANTS
    JobOrder <- MCOneChore
    Patience = 2
    Never = 4
    Floor <- MCFloor
    Quiet <- MCQuiet
    Exempt = {"LongTaskStep"}
    ByHand = {"Titling"}
    FirstSince = {0, 3}
    HasCamera = TRUE
    MaxIdle = 2
INVARIANT
    SlotIsConsistent
PROPERTIES
    PreemptReachesTheJob
    ChoresAreServed
    ImplementsSlot
