CONSTANTS
    RequestIds = {q1, q2, q3}
    CommerceIds = {q3}
    NoRequest = NoRequest
    payer = p1
    destination = d1
    small = small
    large = large
    Payers = {p1}
    Accounts = {p1}
    NoPayer = NoPayer
    Destinations = {d1}
    Amounts = {small, large}
    terms <- TermsOfIds
    MaxTransfers = 1
    Tasks = {t1, t2}
    NoTask = NoTask
    Intents = {i1}
    NoIntent = NoIntent
    NoRow = NoRow
    Calls = {c1, c2}
    NoCall = NoCall
SPECIFICATION MCSpec
INVARIANTS PaymentsTypeOK PaidBacked CompletedServed OneExecution StuckExplained
PROPERTIES PaidUndone RowsLost RevokedAdmitsNone
SYMMETRY Symmetry
CHECK_DEADLOCK FALSE
