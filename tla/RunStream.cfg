SPECIFICATION FairSpec
CONSTANTS
    Clients = {"phone"}
    Policies = {"Ephemeral", "Detached"}
    MaxFrames = 3
    MaxBytes = 4
    BroadcastCap = 2
    Sizes = {1, 5}
    MaxPushed = 3
    MaxReattach = 2
INVARIANTS
    NoSilentHole
    RingIsSound
    InterruptedAgrees
PROPERTIES
    FollowerSeesTheEnd
CHECK_DEADLOCK FALSE
