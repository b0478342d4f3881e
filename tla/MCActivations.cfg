SPECIFICATION FairSpec
CONSTANTS
    Keys = {"a"}
    MaxAttempts = 2
    MaxFruitless = 1
    MaxTasks = 2
    Kinds = {"activation"}
    Drafts <- MCOneDraft
    FirstKey = "a"
    HandOffKeys = {}
    MaxHandOffs = 1
    MaxSteps = 3
    MaxShortSteps = 1
    MaxOverruns = 0
    MaxFaults = 1
    MaxCrashes = 1
PROPERTIES
    ActivationEnds
CHECK_DEADLOCK FALSE
