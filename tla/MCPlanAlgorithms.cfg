SPECIFICATION FairSearchSpec
CONSTANTS
    Keys = {"a", "b", "c"}
    MaxAttempts = 2
    MaxFruitless = 3
    Inputs <- MCInputs
INVARIANTS
    FindsExactlyTheCycles
    RoundsFindTheBlocked
    WaitHasACause
PROPERTY
    AlgorithmsEnd
