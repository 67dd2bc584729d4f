\* Two payments of one wallet, three posts between them.
CONSTANTS
    Clients = {x1, x2}
    Calls = {1, 2, 3}
    NoCall = NoCall
    Requests = {q1}
    MaxPosts = 2
    MaxNonce = 2
SPECIFICATION MCFairSpec
INVARIANTS SessionPayTypeOK PaidTwiceOnlyAbandoned AnsweredPaidMined OneSender QueueMoves
PROPERTY QueueDrains
CHECK_DEADLOCK FALSE
