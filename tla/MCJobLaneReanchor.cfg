\* The anchor of a submit that is tried again, one request at a time.
SPECIFICATION MCSpec
CONSTANTS
    JobIds = {j1}
    Parties = {r, e1, e2, v}
    NoParty = NoParty
    Escrow = Escrow
    Amounts = {1}
    Stakes = {1}
    InitialBalance = 1
    Guards = {}
    NoGuard = NoGuard
    GuardDelay = 1
    MaxTime = 4
    Requester = r
    Validator = v
    Executors = {e1, e2}
    Amount = 1
    ExecutorStake = 1
    ExpiresAt = 3
    AnchorRequired = TRUE
    Slots = {s1}
    MaxLate = 0
    MaxAnchors = 2
    MaxCrashes = 0
    ApprovalTtl = 1
    MaxResumes = 0
    Loads = {"serial"}
    Lenders = {}
INVARIANT SubmitAnchorReused
CHECK_DEADLOCK FALSE
