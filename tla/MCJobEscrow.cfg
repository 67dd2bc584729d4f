\* Two jobs over one pool of tokens, two parties in any of the three roles; or
\* one job and every order of the owner's guard transactions.
SPECIFICATION MCFairSpec
CONSTANTS
    JobIds = {j1, j2}
    Parties = {p1, p2}
    NoParty = NoParty
    Escrow = Escrow
    Amounts = {2}
    Stakes = {1}
    InitialBalance = 4
    Guards = {g1, g2}
    NoGuard = NoGuard
    GuardDelay = 2
    MaxTime = 4
    Loads = {"jobs", "guards"}
INVARIANTS
    TypeOK
    JobsCoherent
    BalancesExplained
PROPERTIES
    TransfersMatchRecords
    TermsFixed
    KeepsPromise
    GuardNotice
    EventuallyResolved
CHECK_DEADLOCK FALSE
