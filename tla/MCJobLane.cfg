\* Two requests at a time on one job, one at a time with more failures, or
\* fundings above the threshold.
SPECIFICATION MCSpec
CONSTANTS
    JobIds = {j1, j2}
    Parties = {r, e1, e2, v}
    NoParty = NoParty
    Escrow = Escrow
    Amounts = {1}
    Stakes = {1}
    InitialBalance = 1
    Guards = {g1}
    NoGuard = NoGuard
    GuardDelay = 1
    MaxTime = 4
    Requester = r
    Validator = v
    Executors = {e1, e2}
    Amount = 1
    ExecutorStake = 1
    ExpiresAt = 3
    AnchorRequired = TRUE
    Slots = {s1, s2}
    MaxLate = 1
    MaxAnchors = 2
    MaxCrashes = 2
    ApprovalTtl = 1
    MaxResumes = 2
    Loads = {"overlapping", "serial", "funding", "lending"}
    Lenders = {j2}
SYMMETRY Symmetry
INVARIANTS
    LaneTypeOK
    RecordsBacked
    VerdictsSettled
    SubmitsAnchored
    ApprovalTypeOK
    ApprovalsMatchContract
PROPERTIES
    RecordsOnlyAdvance
    AskedOnce
CHECK_DEADLOCK FALSE
