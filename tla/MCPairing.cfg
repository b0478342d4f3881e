SYMMETRY Symmetry
SPECIFICATION Spec
CONSTANTS
    Devices = {phone, tablet}
    phone = phone  tablet = tablet  r1 = r1  r2 = r2  screen = screen
    Runs = {r1, r2}
    Methods = {"cpace", "hmac", "legacy", "setup", "device"}
    Issuers = {screen}
    Budget = 1
    MaxPending = 2
    MaxCodes = 2
    MaxTokens = 3
    MaxRearms = 1
    MaxCrashes = 2
INVARIANTS
    BudgetHolds
    ProofPairsOnce
    OneLivePair
    CardClaimsOnce
    PairedMeansClaimed
PROPERTIES
    RefreshBuysOnce
CHECK_DEADLOCK FALSE
