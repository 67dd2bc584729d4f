------------------------------ MODULE SessionPay ------------------------------
(***************************************************************************)
(* Session payments of one payer: the clients that post them and post them *)
(* again (postSessionPayWithRetry), the route that makes them              *)
(* (/api/session/pay), the lock the route's calls take per payer, and the  *)
(* bundler that mines what they send.  X402Requests shows the same from    *)
(* outside.                                                                *)
(*                                                                         *)
(* A client is one logical payment: a workflow run or a service call that  *)
(* pays one request.  Each of its posts starts a call of the route, which  *)
(* signs an authorization of its own and goes on whether or not the client *)
(* still listens.                                                          *)
(*                                                                         *)
(* The route has a loop of attempts, waits for a user operation it sent    *)
(* earlier (trackInflightSessionPay, awaitInflightSessionPay) and may turn *)
(* to a relayer.  None of it is reached: after any attempt that did not    *)
(* succeed the loop reads submittedUserOpHash outside the block that       *)
(* declares it (automationX402Routes.js:787 and 800), which throws, and    *)
(* the route answers 500 with the exception's message.  That message is no *)
(* transport failure, so the client does not post again either.            *)
(***************************************************************************)
EXTENDS Naturals, FiniteSets

CONSTANTS
    Clients,    \* logical payments
    Calls,      \* calls of the route, each id used once
    NoCall,
    Requests,   \* x402 requests they pay
    MaxPosts,   \* maxAttempts of postSessionPayWithRetry
    MaxNonce    \* bound on user operations of the wallet

ASSUME SessionPayAssumption ==
    /\ NoCall \notin Calls
    /\ MaxPosts \in Nat \ {0} /\ MaxNonce \in Nat

VARIABLES
    pending,    \* requests whose row is pending
    clients,    \* clients[x]: what it pays, its posts, the call it listens to
    calls,      \* calls[c]: how far the call is
    tail,       \* the call whose promise sessionUserOpQueue holds, or NoCall
    mempool,    \* user operations the bundler holds
    nonce,      \* the wallet's next nonce at the EntryPoint
    mined,      \* calls whose authorization was executed
    records,    \* calls with a payment record
    abandoned   \* calls whose client gave up listening

chain == <<mempool, nonce, mined>>
vars == <<pending, clients, calls, tail, chain, records, abandoned>>

Stage == {"unused", "checks", "queued", "preparing", "sending", "waiting", "done"}

Client == [request : Requests, posts : 0..MaxPosts, listens : Calls \cup {NoCall},
           state : {"paying", "paid", "failed"}]

\* behind: the calls whose gates the awaited promise chains together.
\* nonce: what the user operation in preparation carries.
Call == [by : Clients \cup {NoCall}, stage : Stage, behind : SUBSET Calls, nonce : 0..MaxNonce]

UserOp == [call : Calls, nonce : 0..MaxNonce]

SessionPayTypeOK ==
    /\ pending \subseteq Requests
    /\ clients \in [Clients -> Client]
    /\ calls \in [Calls -> Call]
    /\ tail \in Calls \cup {NoCall}
    /\ mempool \subseteq UserOp /\ mined \subseteq Calls
    /\ nonce \in 0..MaxNonce
    /\ records \subseteq Calls /\ abandoned \subseteq Calls

\* A call out of line, with nothing in preparation.
Bare(x, stage) == [by |-> x, stage |-> stage, behind |-> {}, nonce |-> 0]

Init ==
    /\ pending = Requests
    /\ clients \in [Clients -> {[request |-> q, posts |-> 0, listens |-> NoCall,
                                 state |-> "paying"] : q \in Requests}]
    /\ calls = [c \in Calls |-> Bare(NoCall, "unused")]
    /\ tail = NoCall
    /\ mempool = {} /\ nonce = 0 /\ mined = {}
    /\ records = {} /\ abandoned = {}

at(c, stage) == calls[c].stage = stage
goes(c, stage) == calls' = [calls EXCEPT ![c].stage = stage]

Inside == {"preparing", "sending", "waiting"}   \* holds the lock
InProgress == Inside \cup {"checks", "queued"}
-----------------------------------------------------------------------------
\* The client: postSessionPayWithRetry

\* A row that is no longer pending is answered at once, with a 409 that the
\* client does not post again.
post(x, c) ==
    /\ clients[x].state = "paying" /\ clients[x].listens = NoCall
    /\ at(c, "unused")
    /\ IF clients[x].request \in pending
         THEN /\ clients' = [clients EXCEPT ![x].posts = @ + 1, ![x].listens = c]
              /\ calls' = [calls EXCEPT ![c] = Bare(x, "checks")]
         ELSE clients' = [clients EXCEPT ![x].state = "failed"] /\ UNCHANGED calls
    /\ UNCHANGED <<pending, tail, chain, records, abandoned>>

\* The names with a slip_ prefix are broken variants of the definition that
\* follows them, kept to show that the properties notice.
slip_again(x) == IF clients[x].posts <= MaxPosts THEN "paying" ELSE "failed"   \* one too many

\* What is left to a client that may post again.
again(x) == IF clients[x].posts < MaxPosts THEN "paying" ELSE "failed"

\* Slip: any failure may be posted again.
slip_answered(c, answer) ==
    clients' = [x \in Clients |->
        IF clients[x].listens # c THEN clients[x]
        ELSE [clients[x] EXCEPT !.listens = NoCall,
                                !.state = IF answer = "paid" THEN answer ELSE again(x)]]

\* What the client that listens to c, if any, does with its answer.
answered(c, answer) ==
    clients' = [x \in Clients |->
        IF clients[x].listens # c THEN clients[x]
        ELSE [clients[x] EXCEPT !.listens = NoCall,
                                !.state = IF answer = "again" THEN again(x) ELSE answer]]

\* The client's timer, 45 to 180 seconds, or its own caller's signal.  The
\* call goes on: nothing tells the route.
abort(x) ==
    /\ clients[x].listens # NoCall
    /\ \E answer \in {"again", "failed"} : answered(clients[x].listens, answer)
    /\ abandoned' = abandoned \cup {clients[x].listens}
    /\ UNCHANGED <<pending, calls, tail, chain, records>>

-----------------------------------------------------------------------------
\* The route: POST /api/session/pay

\* The call's part is over: what it held is nobody's any more.
over(c) == Bare(calls[c].by, "done")

\* Runtime, token, session, rules and funds are read over the network.  A
\* transport failure may be posted again; nothing was sent.
checksFail(c) ==
    /\ at(c, "checks")
    /\ calls' = [calls EXCEPT ![c] = over(c)]
    /\ \E answer \in {"again", "failed"} : answered(c, answer)
    /\ UNCHANGED <<pending, tail, chain, records, abandoned>>

\* The promise a newcomer awaits is the one before it chained with its gate.
behindAll == IF tail = NoCall THEN {} ELSE calls[tail].behind \cup {tail}

\* Slip: the newcomer awaits the promise it leaves in the map, its own gate included.
slip_enqueue(c) ==
    /\ at(c, "checks")
    /\ calls' = [calls EXCEPT ![c].stage = "queued", ![c].behind = behindAll \cup {c}]
    /\ tail' = c
    /\ UNCHANGED <<pending, clients, chain, records, abandoned>>

\* Checked and signed; the call takes its place in the payer's queue.
enqueue(c) ==
    /\ at(c, "checks")
    /\ calls' = [calls EXCEPT ![c].stage = "queued", ![c].behind = behindAll]
    /\ tail' = c
    /\ UNCHANGED <<pending, clients, chain, records, abandoned>>

\* Every gate before it is open.
takeTurn(c) ==
    /\ at(c, "queued") /\ \A d \in calls[c].behind : at(d, "done")
    /\ goes(c, "preparing")
    /\ UNCHANGED <<pending, clients, tail, chain, records, abandoned>>

\* getNonce answers 0 when it cannot read.
getNonce(c) ==
    /\ at(c, "preparing")
    /\ \E n \in {nonce, 0} :
        calls' = [calls EXCEPT ![c].stage = "sending", ![c].nonce = n]
    /\ UNCHANGED <<pending, clients, tail, chain, records, abandoned>>

\* The bundler takes a user operation only with the nonce of the moment.
takenByBundler(c) ==
    /\ calls[c].nonce = nonce
    /\ mempool' = mempool \cup {[call |-> c, nonce |-> nonce]}

submitted(c) ==
    /\ at(c, "sending") /\ takenByBundler(c)
    /\ calls' = [calls EXCEPT ![c].stage = "waiting", ![c].nonce = 0]
    /\ UNCHANGED <<pending, clients, tail, nonce, mined, records, abandoned>>

\* Slip: the queue is forgotten whoever leaves it.
slip_release(c) == calls' = [calls EXCEPT ![c] = over(c)] /\ tail' = NoCall

\* The finally block of withSessionUserOpLock.
release(c) ==
    /\ calls' = [calls EXCEPT ![c] = over(c)]
    /\ tail' = IF tail = c THEN NoCall ELSE tail

\* Slip: the gate is opened only after a success.
slip_attemptFails(c) ==
    /\ goes(c, "waiting") /\ UNCHANGED tail
    /\ answered(c, "failed")
    /\ UNCHANGED <<pending, records, abandoned>>

\* The ReferenceError: 500, and the client does not post again.
attemptFails(c) ==
    /\ release(c)
    /\ answered(c, "failed")
    /\ UNCHANGED <<pending, records, abandoned>>

\* Refused, or taken although the answer got lost.
submitFails(c) ==
    /\ at(c, "sending") /\ attemptFails(c)
    /\ takenByBundler(c) \/ UNCHANGED mempool
    /\ UNCHANGED <<nonce, mined>>

\* No receipt in 180 seconds, none that can be read, or one of a revert.
receiptMissing(c) ==
    /\ at(c, "waiting") /\ attemptFails(c)
    /\ UNCHANGED chain

slip_confirmed(c) == \A op \in mempool : op.call # c   \* a receipt, whatever it says
confirmed(c) == c \in mined

receiptArrives(c) ==
    /\ at(c, "waiting") /\ confirmed(c)
    /\ release(c)
    /\ records' = records \cup {c}
    /\ answered(c, "paid")
    /\ UNCHANGED <<pending, chain, abandoned>>

-----------------------------------------------------------------------------
\* The bundler, other user operations of the wallet, the rest of the backend

\* A user operation whose nonce was used by another is never mined.
opMined(op) ==
    /\ op \in mempool /\ op.nonce = nonce /\ nonce < MaxNonce
    /\ nonce' = nonce + 1
    /\ mempool' = mempool \ {op}
    /\ mined' = mined \cup {op.call} \/ UNCHANGED mined   \* or it reverts
    /\ UNCHANGED <<pending, clients, calls, tail, records, abandoned>>

opDropped(op) ==
    /\ op \in mempool
    /\ mempool' = mempool \ {op}
    /\ UNCHANGED <<pending, clients, calls, tail, nonce, mined, records, abandoned>>

\* Escrow calls go through the same wallet, and not through the lock.
otherOpMined ==
    /\ nonce < MaxNonce
    /\ nonce' = nonce + 1
    /\ UNCHANGED <<pending, clients, calls, tail, mempool, mined, records, abandoned>>

\* A handler verified a transfer and marks the request, or the clean-up expires it.
rowChanges(q) ==
    /\ q \in pending
    /\ pending' = pending \ {q}
    /\ UNCHANGED <<clients, calls, tail, chain, records, abandoned>>

\* Clients and calls share the process.  Records and rows are in files.
Crash ==
    /\ clients' = [x \in Clients |-> IF clients[x].state # "paying" THEN clients[x]
                       ELSE [clients[x] EXCEPT !.state = "failed", !.listens = NoCall]]
    /\ calls' = [c \in Calls |-> IF calls[c].stage \in InProgress
                                   THEN over(c) ELSE calls[c]]
    /\ tail' = NoCall
    /\ UNCHANGED <<pending, chain, records, abandoned>>

Next ==
    \/ \E x \in Clients : abort(x) \/ \E c \in Calls : post(x, c)
    \/ \E c \in Calls :
        \/ checksFail(c) \/ enqueue(c) \/ takeTurn(c) \/ getNonce(c)
        \/ submitted(c) \/ submitFails(c) \/ receiptArrives(c) \/ receiptMissing(c)
    \/ \E op \in mempool : opMined(op) \/ opDropped(op)
    \/ otherOpMined
    \/ \E q \in Requests : rowChanges(q)
    \/ Crash

Spec == Init /\ [][Next]_vars

\* Every await of the route ends: requests to the node and the bundler have
\* timeouts, a receipt is waited for 180 seconds.
CallFairness == \A c \in Calls :
    /\ WF_vars(enqueue(c) \/ checksFail(c))
    /\ WF_vars(takeTurn(c)) /\ WF_vars(getNonce(c))
    /\ WF_vars(submitted(c) \/ submitFails(c))
    /\ WF_vars(receiptArrives(c) \/ receiptMissing(c))

FairSpec == Spec /\ CallFairness

-----------------------------------------------------------------------------
\* Properties

\* A client pays twice only if it gave up on one of the two calls while that
\* call was at work.  Failed attempts, timeouts of the bundler, lost answers
\* and late mining do not lead there, and crashes neither.
PaidTwiceOnlyAbandoned ==
    \A c, d \in mined :
        c # d /\ calls[c].by = calls[d].by => c \in abandoned \/ d \in abandoned

\* Who was told paid has a transfer, and a record of it, which the accounts
\* of the payer are read from; there is no record without a transfer.
AnsweredPaidMined ==
    /\ records \subseteq mined
    /\ \A x \in Clients : clients[x].state = "paid" =>
        \E c \in records : calls[c].by = x

\* withSessionUserOpLock lets one call of the payer through at a time, although its
\* map forgets the queue whenever the last in line leaves.
OneSender ==
    \A c, d \in Calls : calls[c].stage \in Inside /\ calls[d].stage \in Inside => c = d

\* Calls never wait for one another in a circle, nor for a gate that nobody is
\* there to open: while anybody waits, somebody in line, waiting or inside, has
\* only open gates before it.
QueueMoves ==
    (\E c \in Calls : at(c, "queued")) =>
        \E c \in Calls :
            /\ at(c, "queued") \/ calls[c].stage \in Inside
            /\ \A d \in calls[c].behind : at(d, "done")

\* Whoever stands in the queue leaves it: no call keeps the gate shut.
QueueDrains == \A c \in Calls : at(c, "queued") ~> at(c, "done")

\* The comment in postSessionPayWithRetry, sessionPay.js:245-247: the timeout is
\* kept above the route's own, "so we don't abort a valid payment attempt
\* mid-flight".  An attempt that was given up is none that gets mined.
ValidAttemptsNotAborted == abandoned \cap mined = {}
=============================================================================
