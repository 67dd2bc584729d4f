\* The documented state machine against two requests at a time.
SPECIFICATION MCSpec
CONSTANTS
    JobIds = {j1}
    Parties = {r, e1, e2, v}
    NoParty = NoParty
    Escrow = Escrow
    Amounts = {1}
    Stakes = {1}
    InitialBalance = 1
    Guards = {}
    NoGuard = NoGuard
    GuardDelay = 1
    MaxTime = 4
    Requester = r
    Validator = v
    Executors = {e1}
    Amount = 1
    ExecutorStake = 1
    ExpiresAt = 3
    AnchorRequired = TRUE
    Slots = {s1, s2}
    MaxLate = 0
    MaxAnchors = 2
    MaxCrashes = 0
    ApprovalTtl = 1
    MaxResumes = 0
    Loads = {"overlapping"}
    Lenders = {}
PROPERTY SubmittedOnlySettles
CHECK_DEADLOCK FALSE
