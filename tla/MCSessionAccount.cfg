\* One session, revoked and created again, and bundles of two operations.
SPECIFICATION HSpec
CONSTANTS
    SessionIds = {s1}
    Owners = {o}
    Agents = {a1}
    NoAgent = NoAgent
    p1 = p1
    p2 = p2
    Providers = {p1, p2}
    Tokens = {t}
    Nonces = {n1, n2}
    Values = {1, 2}
    Limits = {1}
    Validities <- MCValidities
    Calls = {c}
    RuleLists <- MCRuleLists
    MaxRules = 2
    Expiries = {2}
    MaxOps = 2
    MaxTime = 3
SYMMETRY NonceSymmetry
INVARIANTS
    SessionTypeOK
    NonceOnce
    ValidatedExecutes
    WindowBudget
