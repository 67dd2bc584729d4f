\* A funding that was released overlaps with the owner's second thoughts.
SPECIFICATION MCSpec
CONSTANTS
    JobIds = {j1}
    Parties = {r, e1, v}
    NoParty = NoParty
    Escrow = Escrow
    Amounts = {1}
    Stakes = {0}
    InitialBalance = 1
    Guards = {}
    NoGuard = NoGuard
    GuardDelay = 1
    MaxTime = 4
    Requester = r
    Validator = v
    Executors = {e1}
    Amount = 1
    ExecutorStake = 0
    ExpiresAt = 3
    AnchorRequired = FALSE
    Slots = {s1}
    MaxLate = 1
    MaxAnchors = 0
    MaxCrashes = 0
    ApprovalTtl = 1
    MaxResumes = 1
    Loads = {"funding"}
    Lenders = {}
PROPERTY RejectionStands
CHECK_DEADLOCK FALSE
