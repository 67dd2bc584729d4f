\* The comment on setTraceAnchorGuard against what the contract does.
SPECIFICATION MCSpec
CONSTANTS
    JobIds = {j1}
    Parties = {p1, p2}
    NoParty = NoParty
    Escrow = Escrow
    Amounts = {1}
    Stakes = {1}
    InitialBalance = 1
    Guards = {g1, g2}
    NoGuard = NoGuard
    GuardDelay = 2
    MaxTime = 4
    Loads = {"guards"}
PROPERTY ImmediateOnlyBeforeFirst
CHECK_DEADLOCK FALSE
