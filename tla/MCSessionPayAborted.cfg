\* What the comment on the timeout of postSessionPayWithRetry promises.
CONSTANTS
    Clients = {x1}
    Calls = {1, 2}
    NoCall = NoCall
    Requests = {q1}
    MaxPosts = 2
    MaxNonce = 2
SPECIFICATION MCSpec
INVARIANT ValidAttemptsNotAborted
CHECK_DEADLOCK FALSE
