SPECIFICATION Spec
CONSTANTS
    Keys = {"a", "b", "h"}
    MaxAttempts = 2
    MaxFruitless = 2
    MaxTasks = 1
    Kinds = {"planned", "quick", "activation"}
    Drafts <- MCDrafts
    FirstKey = "a"
    HandOffKeys = {"h"}
    MaxHandOffs = 1
    MaxSteps = 3
    MaxShortSteps = 1
    MaxOverruns = 1
    MaxFaults = 1
    MaxCrashes = 2
INVARIANTS
    TypeOK
    AttemptsBounded
    DepsDone
    PlanSound
    NeverStuck
    RunningHasARunner
    CompletedMeansSettled
    OpenedWithItsStep
PROPERTIES
    FinishedForever
    HistoryKept
    ImplementsLife
CHECK_DEADLOCK FALSE
