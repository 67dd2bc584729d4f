--------------------------- MODULE PaymentsProofs ---------------------------
(***************************************************************************)
(* Theorems about Payments, for any number of requests, handlers, calls    *)
(* and intents: nothing is said to be paid without a transfer, intents     *)
(* execute once and end with their call, and what becomes of a paid row.   *)
(***************************************************************************)
EXTENDS Payments, TLAPS

PaymentsAssumption == RequestsAssumption /\ IntentsAssumption /\ CallsAssumption

-----------------------------------------------------------------------------
\* The inductive invariant: who may say what about a request

\* What a row of q may say, in the table or in a copy of it.
RowHonest(q, status) ==
    /\ status # "none" => q \in issued
    /\ status = "paid" => q \in backedRequests

\* What may be said of a request that was handed out.
PaidFor(q) == q \in issued /\ q \in backedRequests

Bounded == \A k \in Transfer : userOps[k] + transfers[k] <= MaxTransfers

TableHonest ==
    /\ \A q \in RequestIds : RowHonest(q, table[q])
    /\ \A q \in delivered : PaidFor(q)

TaskHonest(t) ==
    tasks[t] # NoTask =>
        /\ \A q \in RequestIds : RowHonest(q, tasks[t].snap[q])
        /\ tasks[t].awaits # "identity" => tasks[t].request \in issued
        /\ tasks[t].awaits \in {"service", "recompute"} => tasks[t].request \in backedRequests

\* A feed call holds a row from its arrival; whoever holds one got it honestly.
CallHonest(c) ==
    /\ inFlight(c) =>
        /\ calls[c].awaits \in {"feed", "pay", "userOp", "proof"} => calls[c].copy # "none"
        /\ calls[c].copy # "none" => RowHonest(calls[c].request, calls[c].copy)
        /\ calls[c].awaits = "trust" => PaidFor(calls[c].request)
    /\ waits(c, "served") \/ waits(c, "bought") => PaidFor(calls[c].request)

PaymentsInv ==
    /\ PaymentsTypeOK
    /\ Bounded
    /\ TableHonest
    /\ \A t \in Tasks : TaskHonest(t)
    /\ \A c \in Calls : CallHonest(c)

-----------------------------------------------------------------------------
\* Money

\* Every way a step may touch the ledger of requests and transfers.
MoneyEffect ==
    \/ UNCHANGED moneyVars
    \/ \E q \in RequestIds :
        \/ createX402Request(q) /\ UNCHANGED <<overdue, userOps, transfers>>
        \/ (transferMined(q) \/ transferUncertain(q)) /\ UNCHANGED <<issued, overdue>>
        \/ ttlPasses(q)
    \/ \E k \in Transfer : userOpMined(k) \/ userOpDropped(k) \/ agentPays(k)

LEMMA InFlightCall ==
    ASSUME CallsTypeOK, NEW c \in Calls, inFlight(c)
    PROVE  calls[c] \in Call
BY DEF CallsTypeOK, inFlight, Past, Waiting, Ended

LEMMA TaskInProgress ==
    ASSUME TasksTypeOK, NEW t \in Tasks, NEW stage, at(t, stage)
    PROVE  tasks[t] \in Task /\ tasks[t].awaits = stage
BY DEF TasksTypeOK, at

\* What a task or a call pays for is a request.
LEMMA PayersKnow ==
    ASSUME PaymentsInv
    PROVE  /\ \A t \in Tasks : at(t, "userOp") => tasks[t].request \in RequestIds
           /\ \A c \in Calls : waits(c, "userOp") => calls[c].request \in RequestIds
<1>1. issued \subseteq RequestIds
    BY DEF PaymentsInv, PaymentsTypeOK, X402TypeOK
<1>2. ASSUME NEW t \in Tasks, at(t, "userOp")
      PROVE  tasks[t].request \in RequestIds
    BY <1>1, <1>2 DEF PaymentsInv, TaskHonest, at
<1>3. ASSUME NEW c \in Calls, waits(c, "userOp")
      PROVE  calls[c].request \in RequestIds
    BY <1>1, <1>3 DEF PaymentsInv, CallHonest, RowHonest, waits, inFlight, Waiting
<1> QED
    BY <1>2, <1>3

LEMMA TaskMoney ==
    ASSUME PaymentsInv, NEW t \in Tasks, TaskStep(t)
    PROVE  MoneyEffect
<1>1. CASE A2AHandlers(t)
    BY <1>1 DEF A2AHandlers, firstLeg, challenge, handleA2AStopOrders, handleA2ABtcPrice,
           handleA2ARiskScore, handleA2AXReader, transferIntent, kolScore, presents,
           MoneyEffect, moneyVars, x402Vars
<1>2. CASE WorkflowRuns(t)
    BY <1>2 DEF WorkflowRuns, stopOrderRun, btcPriceRun, riskScoreRun, infoRun,
           hyperliquidOrderRun, challenge, MoneyEffect, moneyVars, x402Vars
<1>3. CASE taskProceeds(t)
    BY <1>3 DEF taskProceeds, issueRequest, refuseChallenge, proofVerified, proofRefused,
           serviceAnswers, serviceFails, recomputeFails, MoneyEffect, moneyVars, x402Vars
<1>4. CASE runProceeds(t)
    <2>1. CASE sessionPaySucceeds(t) \/ sessionPayUncertain(t)
        BY <2>1, PayersKnow DEF sessionPaySucceeds, sessionPayUncertain, MoneyEffect
    <2>2. CASE sessionPayReads(t) \/ sessionPayRefused(t) \/ runPresents(t)
        BY <2>2 DEF sessionPayReads, sessionPayRefused, runPresents, MoneyEffect, moneyVars, x402Vars
    <2> QED
        BY <1>4, <2>1, <2>2 DEF runProceeds
<1>5. CASE Commerce(t)
    BY <1>5, RequestsAssumption DEF RequestsAssumption, Commerce, commerceAsks, commercePresents,
           commerceSettles, commerceRefuses, MoneyEffect, moneyVars, x402Vars
<1> QED
    BY <1>1, <1>2, <1>3, <1>4, <1>5 DEF TaskStep

LEMMA CallMoney ==
    ASSUME PaymentsInv, NEW c \in Calls, CallStep(c)
    PROVE  MoneyEffect
<1>1. CASE arrive(c)
    <2>1. ASSUME NEW i \in Intents \cup {NoIntent}, NEW supplied \in Supplied,
                 \/ \E mode \in {"session", "agent"} : feedCall(c, mode, i, supplied)
                 \/ taskCall(c, i, supplied)
                 \/ workflowCall(c, i)
          PROVE  MoneyEffect
        BY <2>1 DEF feedCall, taskCall, workflowCall, beginsOnArrival, MoneyEffect,
               moneyVars, x402Vars
    <2> QED
        BY <1>1, <2>1 DEF arrive
<1>2. CASE FeedNext(c)
    <2>1. CASE invokePaySucceeds(c) \/ invokePayUncertain(c)
        BY <2>1, PayersKnow DEF invokePaySucceeds, invokePayUncertain, MoneyEffect
    <2>2. CASE \/ feedFails(c) \/ noData(c) \/ feedForSession(c) \/ feedForAgent(c)
               \/ invokePayReads(c) \/ invokePayRefused(c)
               \/ invokeProofVerified(c) \/ invokeProofRefused(c)
        BY <2>2 DEF feedFails, noData, feedForSession, feedForAgent, invokePayReads,
               invokePayRefused, invokeProofVerified, invokeProofRefused, MoneyEffect,
               moneyVars, x402Vars
    <2> QED
        BY <1>2, <2>1, <2>2 DEF FeedNext
<1>3. CASE trustAnswers(c)
    BY <1>3 DEF trustAnswers, MoneyEffect, moneyVars, x402Vars
<1>4. CASE AnsweredNext(c, delivered)
    BY <1>4 DEF AnsweredNext, taskAsksPayment, taskDelivers, taskErrs, workflowDelivers,
           workflowFailed, unanswered, MoneyEffect, moneyVars, x402Vars
<1>5. CASE BuyNext(c)
    BY <1>5 DEF BuyNext, buy, beginsOnArrival, buyCompletes, buyFails, MoneyEffect,
           moneyVars, x402Vars
<1> QED
    BY <1>1, <1>2, <1>3, <1>4, <1>5 DEF CallStep

LEMMA CrashMoney ==
    ASSUME Crash
    PROVE  UNCHANGED <<x402Vars, delivered, intentVars, authorityVars>>
BY DEF Crash, unguardedServiceFails, tasksLost

LEMMA MoneyStep ==
    ASSUME PaymentsInv, [Next]_vars
    PROVE  MoneyEffect
<1>1. CASE RequestStep
    BY <1>1 DEF RequestStep, X402Environment, expireStaleX402PendingRequests, MoneyEffect
<1>2. CASE AgeStep \/ OwnerStep \/ UNCHANGED vars
    BY <1>2 DEF AgeStep, intentsAge, OwnerStep, vars, MoneyEffect, moneyVars, x402Vars
<1>3. CASE Crash
    BY <1>3, CrashMoney DEF MoneyEffect, moneyVars, x402Vars
<1> QED
    BY <1>1, <1>2, <1>3, TaskMoney, CallMoney DEF Next

\* The ledger keeps to its types, and to the bound on transfers.
LEMMA MoneyTyped ==
    ASSUME RequestsAssumption, X402TypeOK, Bounded, MoneyEffect
    PROVE  /\ issued' \subseteq RequestIds /\ overdue' \subseteq issued'
           /\ userOps' \in [Transfer -> 0..MaxTransfers]
           /\ transfers' \in [Transfer -> 0..MaxTransfers]
           /\ Bounded'
<1> USE DEF X402TypeOK, Bounded, RequestsAssumption
<1>1. CASE UNCHANGED moneyVars
    BY <1>1 DEF moneyVars
<1>2. ASSUME NEW q \in RequestIds, createX402Request(q), UNCHANGED <<overdue, userOps, transfers>>
      PROVE  /\ issued' \subseteq RequestIds /\ overdue' \subseteq issued'
             /\ userOps' = userOps /\ transfers' = transfers
    BY <1>2 DEF createX402Request
<1>3. ASSUME NEW k \in Transfer, mined(k)
      PROVE  /\ userOps' \in [Transfer -> 0..MaxTransfers]
             /\ transfers' \in [Transfer -> 0..MaxTransfers]
             /\ Bounded'
    BY <1>3 DEF mined, mayPay
<1>4. ASSUME NEW q \in RequestIds, transferUncertain(q)
      PROVE  /\ userOps' \in [Transfer -> 0..MaxTransfers]
             /\ transfers' \in [Transfer -> 0..MaxTransfers]
             /\ Bounded'
    <2>1. CASE UNCHANGED <<userOps, transfers>>
        BY <2>1
    <2>2. ASSUME NEW k \in Transfer, mayPay(k), userOps' = [userOps EXCEPT ![k] = @ + 1],
                 UNCHANGED transfers
          PROVE  /\ userOps' \in [Transfer -> 0..MaxTransfers]
                 /\ transfers' \in [Transfer -> 0..MaxTransfers]
                 /\ Bounded'
        BY <2>2 DEF mayPay
    <2> QED
        BY <1>4, <2>1, <2>2 DEF transferUncertain, paymentsFor
<1>5. ASSUME NEW k \in Transfer, userOpMined(k) \/ userOpDropped(k)
      PROVE  /\ userOps' \in [Transfer -> 0..MaxTransfers]
             /\ transfers' \in [Transfer -> 0..MaxTransfers]
             /\ Bounded'
    BY <1>5 DEF userOpMined, userOpDropped
<1>6. ASSUME NEW q \in RequestIds, ttlPasses(q)
      PROVE  /\ issued' \subseteq RequestIds /\ overdue' \subseteq issued'
             /\ userOps' = userOps /\ transfers' = transfers
    BY <1>6 DEF ttlPasses
<1>7. ASSUME NEW k \in Transfer, userOpMined(k) \/ userOpDropped(k) \/ agentPays(k)
      PROVE  UNCHANGED <<issued, overdue>>
    BY <1>7 DEF userOpMined, userOpDropped, agentPays
<1>8. ASSUME NEW k \in Transfer, agentPays(k)
      PROVE  mined(k)
    BY <1>8 DEF agentPays
<1>9. ASSUME NEW q \in RequestIds, transferMined(q)
      PROVE  \E k \in Transfer : mined(k)
    BY <1>9 DEF transferMined, paymentsFor
<1> HIDE DEF RequestsAssumption
<1> QED
    BY <1>1, <1>2, <1>3, <1>4, <1>5, <1>6, <1>7, <1>8, <1>9 DEF MoneyEffect

\* Requests stay issued, and transfers stay made.
LEMMA LedgerGrows ==
    ASSUME X402TypeOK, MoneyEffect
    PROVE  /\ issued \subseteq issued'
           /\ backedRequests \subseteq backedRequests'
<1> USE DEF X402TypeOK
<1>1. ASSUME NEW k \in Transfer, mined(k) \/ userOpMined(k)
      PROVE  \A l \in Transfer : transfers[l] > 0 => transfers'[l] > 0
    BY <1>1 DEF mined, userOpMined
<1>2. \A l \in Transfer : transfers[l] > 0 => transfers'[l] > 0
    BY <1>1 DEF MoneyEffect, moneyVars, createX402Request, transferMined, transferUncertain,
           paymentsFor, ttlPasses, userOpDropped, agentPays
<1>3. issued \subseteq issued'
    BY DEF MoneyEffect, moneyVars, createX402Request, ttlPasses, userOpMined, userOpDropped, agentPays
<1> QED
    BY <1>2, <1>3 DEF backedRequests

LEMMA BackedSame ==
    ASSUME UNCHANGED transfers
    PROVE  backedRequests' = backedRequests
BY DEF backedRequests

\* Every verification that succeeds found a transfer the terms agree with.
LEMMA VerifiedBacked ==
    ASSUME NEW q \in RequestIds, onChain(q) \/ (q \in CommerceIds /\ sessionEvent(q))
    PROVE  q \in backedRequests
BY DEF onChain, sessionEvent, paymentsFor, payerMatches, backedRequests

LEMMA HonestLasts ==
    ASSUME X402TypeOK, MoneyEffect, NEW q \in RequestIds, NEW status
    PROVE  /\ RowHonest(q, status) => RowHonest(q, status)'
           /\ PaidFor(q) => PaidFor(q)'
BY LedgerGrows DEF RowHonest, PaidFor

-----------------------------------------------------------------------------
\* Handlers

\* What every step of a handler leaves behind.
TaskGood(t) ==
    /\ table' \in Table
    /\ tasks' \in [Tasks -> Task \cup {NoTask}]
    /\ delivered' \subseteq RequestIds
    /\ TableHonest'
    /\ TaskHonest(t)'
    /\ \A s \in Tasks \ {t} : tasks'[s] = tasks[s]

LEMMA HonestTableLasts ==
    ASSUME PaymentsInv, MoneyEffect
    PROVE  /\ \A q \in RequestIds : RowHonest(q, table[q])' \/ table'[q] # table[q]
           /\ \A q \in delivered : PaidFor(q)'
<1>1. X402TypeOK /\ TableHonest /\ delivered \subseteq RequestIds
    BY DEF PaymentsInv, PaymentsTypeOK, TasksTypeOK
<1>2. ASSUME NEW q \in RequestIds
      PROVE  RowHonest(q, table[q])' \/ table'[q] # table[q]
    BY <1>1, LedgerGrows DEF TableHonest, RowHonest
<1>3. ASSUME NEW q \in delivered
      PROVE  PaidFor(q)'
    BY <1>1, HonestLasts DEF TableHonest
<1> QED
    BY <1>2, <1>3

\* The handler ends without a change to the table.
LEMMA EndsGood ==
    ASSUME PaymentsInv, MoneyEffect, NEW t \in Tasks, ends(t), UNCHANGED <<table, delivered>>
    PROVE  TaskGood(t)
<1>1. TableHonest'
    BY HonestTableLasts DEF TableHonest
<1>2. tasks'[t] = NoTask
    BY DEF ends, PaymentsInv, PaymentsTypeOK, TasksTypeOK
<1> QED
    BY <1>1, <1>2 DEF TaskGood, TaskHonest, ends, PaymentsInv, PaymentsTypeOK, X402TypeOK, TasksTypeOK

\* The handler moves on to its next await.
LEMMA GoesGood ==
    ASSUME PaymentsInv, MoneyEffect, NEW t \in Tasks,
           NEW before \in Stage \ {"identity"}, at(t, before),
           NEW stage \in Stage \ {"identity"}, goes(t, stage),
           stage \in {"service", "recompute"} => tasks[t].request \in backedRequests,
           UNCHANGED <<table, delivered>>
    PROVE  TaskGood(t)
<1>1. TableHonest'
    BY HonestTableLasts DEF TableHonest
<1>2. tasks[t] \in Task /\ tasks[t].awaits = before /\ tasks[t] # NoTask
    BY TaskInProgress DEF PaymentsInv, PaymentsTypeOK, at
<1>3. tasks' \in [Tasks -> Task \cup {NoTask}]
    BY <1>2 DEF goes, Task, PaymentsInv, PaymentsTypeOK, TasksTypeOK
<1>4. tasks'[t] = [tasks[t] EXCEPT !.awaits = stage]
    BY DEF goes, PaymentsInv, PaymentsTypeOK, TasksTypeOK
<1>5. /\ \A q \in RequestIds : RowHonest(q, tasks[t].snap[q])
      /\ tasks[t].request \in issued /\ issued \subseteq RequestIds
    BY <1>2 DEF PaymentsInv, PaymentsTypeOK, X402TypeOK, TaskHonest
<1>6. /\ tasks'[t].snap = tasks[t].snap /\ tasks'[t].request = tasks[t].request
      /\ tasks'[t].awaits = stage
    BY <1>2, <1>4 DEF Task
<1>7. TaskHonest(t)'
    BY <1>5, <1>6, LedgerGrows DEF PaymentsInv, PaymentsTypeOK, TaskHonest, RowHonest
<1> QED
    BY <1>1, <1>3, <1>7 DEF TaskGood, goes, PaymentsInv, PaymentsTypeOK, X402TypeOK, TasksTypeOK

LEMMA SettleGood ==
    ASSUME PaymentsInv, NEW t \in Tasks, UNCHANGED moneyVars, settle(t),
           tasks[t] # NoTask, tasks[t].awaits # "identity", tasks[t].request \in backedRequests
    PROVE  TaskGood(t)
<1> DEFINE q == tasks[t].request
<1>1. tasks[t] \in Task /\ tasks[t].snap \in Table
    BY DEF PaymentsInv, PaymentsTypeOK, TasksTypeOK, Task
<1>2. q \in issued /\ q \in RequestIds /\ PaidFor(q)
    BY DEF PaymentsInv, PaymentsTypeOK, X402TypeOK, TaskHonest, PaidFor
<1>3. table' = [tasks[t].snap EXCEPT ![q] = "paid"] /\ delivered' = delivered \cup {q} /\ ends(t)
    BY DEF settle, writeX402Requests
<1>4. table' \in Table
    BY <1>1, <1>3 DEF Table, Status
<1>5. \A p \in RequestIds : RowHonest(p, tasks[t].snap[p])
    BY DEF PaymentsInv, TaskHonest
<1> HIDE DEF q
<1>6. \A p \in RequestIds : table'[p] = IF p = q THEN "paid" ELSE tasks[t].snap[p]
    BY <1>1, <1>3 DEF Table
<1>7. issued' = issued /\ backedRequests' = backedRequests
    BY BackedSame DEF moneyVars
<1>8. \A p \in RequestIds : RowHonest(p, table[p])'
    BY <1>2, <1>5, <1>6, <1>7 DEF RowHonest, PaidFor
<1>9. \A p \in delivered' : PaidFor(p)'
    BY <1>2, <1>3, <1>7 DEF PaymentsInv, TableHonest, PaidFor
<1>10. tasks'[t] = NoTask
    BY <1>3 DEF ends, PaymentsInv, PaymentsTypeOK, TasksTypeOK
<1> QED
    BY <1>2, <1>3, <1>4, <1>8, <1>9, <1>10
       DEF TaskGood, TableHonest, TaskHonest, ends, PaymentsInv, PaymentsTypeOK, TasksTypeOK

\* A handler begins to wait, with the table it has just read.
LEMMA HoldsGood ==
    ASSUME PaymentsInv, NEW t \in Tasks, NEW q \in RequestIds, NEW service \in Service,
           NEW run \in BOOLEAN, NEW stage \in Stage \ {"identity", "service"},
           table[q] # "none", stage = "recompute" => table[q] = "paid",
           tasks' = [tasks EXCEPT ![t] = [awaits |-> stage, request |-> q, snap |-> table,
                                          service |-> service, run |-> run]],
           UNCHANGED moneyVars, UNCHANGED <<table, delivered>>
    PROVE  TaskGood(t)
<1>1. /\ table \in Table /\ tasks \in [Tasks -> Task \cup {NoTask}] /\ issued \subseteq RequestIds
      /\ delivered \subseteq RequestIds
      /\ \A p \in RequestIds : RowHonest(p, table[p])
      /\ \A p \in delivered : PaidFor(p)
    BY DEF PaymentsInv, PaymentsTypeOK, X402TypeOK, TasksTypeOK, TableHonest
<1>2. issued' = issued /\ backedRequests' = backedRequests
    BY BackedSame DEF moneyVars
<1> DEFINE task == [awaits |-> stage, request |-> q, snap |-> table, service |-> service, run |-> run]
<1>3. task \in Task
    BY <1>1 DEF Task
<1>4. tasks'[t] = task /\ tasks' \in [Tasks -> Task \cup {NoTask}]
    BY <1>1, <1>3
<1>5. TableHonest'
    BY <1>1, <1>2 DEF TableHonest, RowHonest, PaidFor
<1>6. TaskHonest(t)'
    BY <1>1, <1>2, <1>4 DEF TaskHonest, RowHonest
<1> QED
    BY <1>1, <1>4, <1>5, <1>6 DEF TaskGood

LEMMA PresentGood ==
    ASSUME PaymentsInv, NEW t \in Tasks, NEW q \in RequestIds, NEW service \in Service,
           NEW run \in BOOLEAN, UNCHANGED moneyVars, present(t, q, service, run)
    PROVE  TaskGood(t)
<1>1. /\ table \in Table /\ tasks \in [Tasks -> Task \cup {NoTask}] /\ issued \subseteq RequestIds
      /\ delivered \subseteq RequestIds
      /\ \A p \in RequestIds : RowHonest(p, table[p])
      /\ \A p \in delivered : PaidFor(p)
    BY DEF PaymentsInv, PaymentsTypeOK, X402TypeOK, TasksTypeOK, TableHonest
<1>2. q \in issued
    BY <1>1 DEF present, RowHonest
<1>3. issued' = issued /\ backedRequests' = backedRequests
    BY BackedSame DEF moneyVars
<1>4. CASE expired(q) /\ upsertX402RequestRecord(q, "expired") /\ ends(t) /\ UNCHANGED delivered
    <2>1. table' \in Table /\ \A p \in RequestIds : table'[p] = table[p] \/ (p = q /\ table'[p] = "expired")
        BY <1>1, <1>4 DEF upsertX402RequestRecord, writeX402Requests, Table, Status
    <2>2. TableHonest'
        BY <1>1, <1>2, <1>3, <1>4, <2>1 DEF TableHonest, RowHonest, PaidFor
    <2> QED
        BY <1>1, <1>4, <2>1, <2>2 DEF TaskGood, TaskHonest, ends
<1>5. CASE table[q] = "paid" /\ delivered' = delivered \cup {q} /\ ends(t) /\ UNCHANGED table
    <2>1. TableHonest'
        BY <1>1, <1>2, <1>3, <1>5 DEF TableHonest, RowHonest, PaidFor
    <2> QED
        BY <1>1, <1>5, <2>1 DEF TaskGood, TaskHonest, ends
<1>6. ASSUME NEW stage \in {"recompute", "proof"}, stage = "recompute" => table[q] = "paid",
             tasks' = [tasks EXCEPT ![t] = [awaits |-> stage, request |-> q, snap |-> table,
                                            service |-> service, run |-> run]],
             UNCHANGED <<table, delivered>>
      PROVE  TaskGood(t)
    BY <1>6, HoldsGood DEF present, Stage
<1> QED
    BY <1>4, <1>5, <1>6 DEF present

LEMMA ChallengeGood ==
    ASSUME PaymentsInv, NEW t \in Tasks, NEW service \in Service, NEW run \in BOOLEAN,
           challenge(t, service, run)
    PROVE  TaskGood(t)
<1>1. /\ table \in Table /\ tasks \in [Tasks -> Task \cup {NoTask}]
      /\ delivered \subseteq RequestIds /\ TableHonest
    BY DEF PaymentsInv, PaymentsTypeOK, X402TypeOK, TasksTypeOK
<1>2. table' = table /\ issued' = issued /\ backedRequests' = backedRequests /\ delivered' = delivered
    BY BackedSame DEF challenge, x402Vars, moneyVars
<1>3. TableHonest'
    BY <1>1, <1>2 DEF TableHonest, RowHonest, PaidFor
<1> DEFINE task == [awaits |-> "identity", request |-> NoRequest, snap |-> table,
                    service |-> service, run |-> run]
<1>4. task \in Task
    BY <1>1 DEF Task, Stage
<1>5. tasks'[t] = task /\ tasks' \in [Tasks -> Task \cup {NoTask}]
    BY <1>1, <1>4 DEF challenge
<1>6. TaskHonest(t)'
    BY <1>1, <1>2, <1>5 DEF TaskHonest, TableHonest, RowHonest
<1> QED
    BY <1>1, <1>2, <1>3, <1>5, <1>6 DEF TaskGood, challenge

LEMMA IssueGood ==
    ASSUME PaymentsInv, NEW t \in Tasks, issueRequest(t)
    PROVE  TaskGood(t)
<1>1. /\ tasks \in [Tasks -> Task \cup {NoTask}] /\ tasks[t] \in Task /\ tasks[t].snap \in Table
      /\ tasks[t] # NoTask /\ delivered \subseteq RequestIds /\ issued \subseteq RequestIds
      /\ \A p \in RequestIds : RowHonest(p, tasks[t].snap[p])
      /\ \A p \in delivered : PaidFor(p)
    BY DEF issueRequest, at, PaymentsInv, PaymentsTypeOK, X402TypeOK, TasksTypeOK, TaskHonest,
           TableHonest, Task
<1>2. PICK q \in RequestIds :
        /\ createX402Request(q)
        /\ writeX402Requests([tasks[t].snap EXCEPT ![q] = "pending"])
        /\ IF tasks[t].run
             THEN tasks' = [tasks EXCEPT ![t] = [@ EXCEPT !.awaits = "pay", !.request = q,
                                                          !.snap = NoTable]]
             ELSE ends(t)
    BY DEF issueRequest
<1>3. issued' = issued \cup {q} /\ backedRequests' = backedRequests /\ delivered' = delivered
    BY <1>2, BackedSame DEF createX402Request, issueRequest
<1>4. /\ table' \in Table
      /\ \A p \in RequestIds : table'[p] = IF p = q THEN "pending" ELSE tasks[t].snap[p]
    BY <1>1, <1>2 DEF writeX402Requests, Table, Status
<1>5. TableHonest'
    BY <1>1, <1>3, <1>4 DEF TableHonest, RowHonest, PaidFor
<1>6. CASE ends(t)
    BY <1>1, <1>3, <1>4, <1>5, <1>6 DEF TaskGood, TaskHonest, ends
<1>7. CASE tasks' = [tasks EXCEPT ![t] = [@ EXCEPT !.awaits = "pay", !.request = q,
                                                   !.snap = NoTable]]
    <2> DEFINE task == [tasks[t] EXCEPT !.awaits = "pay", !.request = q, !.snap = NoTable]
    <2>1. NoTable \in Table /\ \A p \in RequestIds : NoTable[p] = "none"
        BY DEF NoTable, Table
    <2>2. task \in Task /\ task.awaits = "pay" /\ task.request = q /\ task.snap = NoTable
        BY <1>1, <2>1 DEF Task, Stage
    <2>3. tasks'[t] = task /\ tasks' \in [Tasks -> Task \cup {NoTask}]
        BY <1>1, <1>7, <2>2
    <2> HIDE DEF task
    <2>4. TaskHonest(t)'
        BY <1>3, <2>1, <2>2, <2>3 DEF TaskHonest, RowHonest
    <2> QED
        BY <1>1, <1>3, <1>4, <1>5, <1>7, <2>3, <2>4 DEF TaskGood
<1> QED
    BY <1>2, <1>6, <1>7

\* kolScore writes a fresh row and is done.
LEMMA FreshGood ==
    ASSUME PaymentsInv, NEW t \in Tasks, NEW q \in RequestIds, createX402Request(q),
           upsertX402RequestRecord(q, "pending"), UNCHANGED <<transfers, taskVars>>
    PROVE  TaskGood(t)
<1>1. /\ table \in Table /\ tasks \in [Tasks -> Task \cup {NoTask}] /\ TableHonest /\ TaskHonest(t)
      /\ delivered \subseteq RequestIds
    BY DEF PaymentsInv, PaymentsTypeOK, X402TypeOK, TasksTypeOK
<1>2. issued' = issued \cup {q} /\ backedRequests' = backedRequests /\ UNCHANGED <<tasks, delivered>>
    BY BackedSame DEF createX402Request, taskVars
<1>3. table' \in Table /\ \A p \in RequestIds : table'[p] = IF p = q THEN "pending" ELSE table[p]
    BY <1>1 DEF upsertX402RequestRecord, writeX402Requests, Table, Status
<1>4. TableHonest'
    BY <1>1, <1>2, <1>3 DEF TableHonest, RowHonest, PaidFor
<1>5. TaskHonest(t)'
    BY <1>1, <1>2 DEF TaskHonest, RowHonest
<1> QED
    BY <1>1, <1>2, <1>3, <1>4, <1>5 DEF TaskGood

\* The handler writes its copy with its own request marked paid.
LEMMA WritesPaidGood ==
    ASSUME PaymentsInv, NEW t \in Tasks, NEW q \in RequestIds, UNCHANGED moneyVars,
           UNCHANGED delivered, tasks[t] # NoTask, q \in issued, q \in backedRequests,
           writeX402Requests([tasks[t].snap EXCEPT ![q] = "paid"]), ends(t)
    PROVE  TaskGood(t)
<1>1. /\ tasks \in [Tasks -> Task \cup {NoTask}] /\ tasks[t].snap \in Table
      /\ \A p \in RequestIds : RowHonest(p, tasks[t].snap[p])
      /\ delivered \subseteq RequestIds /\ \A p \in delivered : PaidFor(p)
    BY DEF PaymentsInv, PaymentsTypeOK, TasksTypeOK, Task, TaskHonest, TableHonest
<1>2. issued' = issued /\ backedRequests' = backedRequests
    BY BackedSame DEF moneyVars
<1>3. table' \in Table /\ \A p \in RequestIds : table'[p] = IF p = q THEN "paid" ELSE tasks[t].snap[p]
    BY <1>1 DEF writeX402Requests, Table, Status
<1>4. TableHonest'
    BY <1>1, <1>2, <1>3 DEF TableHonest, RowHonest, PaidFor
<1> QED
    BY <1>1, <1>3, <1>4 DEF TaskGood, TaskHonest, ends

LEMMA CommerceGood ==
    ASSUME PaymentsInv, MoneyEffect, NEW t \in Tasks, Commerce(t)
    PROVE  TaskGood(t)
<1>1. CASE commerceAsks
    BY <1>1, RequestsAssumption, FreshGood DEF RequestsAssumption, commerceAsks
<1>2. CASE commercePresents(t)
    <2>1. PICK q \in RequestIds :
            /\ table[q] \notin {"none", "paid"}
            /\ tasks' = [tasks EXCEPT ![t] = [awaits |-> "commerce", request |-> q, snap |-> table,
                                              service |-> "none", run |-> FALSE]]
        BY <1>2 DEF commercePresents
    <2>2. UNCHANGED moneyVars /\ UNCHANGED <<table, delivered>>
        BY <1>2 DEF commercePresents, x402Vars
    <2>3. /\ "commerce" \in Stage \ {"identity", "service"} /\ "none" \in Service
          /\ FALSE \in BOOLEAN
        BY DEF Stage, Service
    <2> QED
        BY <2>1, <2>2, <2>3, HoldsGood
<1>3. CASE commerceSettles(t)
    <2>1. PICK q \in CommerceIds : q = tasks[t].request
        BY <1>3 DEF commerceSettles
    <2>2. tasks[t] # NoTask /\ q \in issued /\ q \in RequestIds
        BY <1>3, <2>1 DEF commerceSettles, at, PaymentsInv, PaymentsTypeOK, X402TypeOK, TaskHonest
    <2>3. q \in backedRequests
        BY <1>3, <2>1, <2>2, VerifiedBacked DEF commerceSettles
    <2> QED
        BY <1>3, <2>1, <2>2, <2>3, WritesPaidGood DEF commerceSettles
<1>4. CASE commerceRefuses(t)
    BY <1>4, EndsGood DEF commerceRefuses, x402Vars
<1> QED
    BY <1>1, <1>2, <1>3, <1>4 DEF Commerce

LEMMA HandlersGood ==
    ASSUME PaymentsInv, NEW t \in Tasks, A2AHandlers(t) \/ WorkflowRuns(t)
    PROVE  TaskGood(t)
<1>1. ASSUME NEW service \in Service, NEW run \in BOOLEAN, challenge(t, service, run)
      PROVE  TaskGood(t)
    BY <1>1, ChallengeGood
<1>2. ASSUME NEW service \in Service, presents(t, service)
      PROVE  TaskGood(t)
    <2>1. PICK q \in RequestIds : present(t, q, service, FALSE)
        BY <1>2 DEF presents
    <2> QED
        BY <1>2, <2>1, PresentGood DEF presents
<1>3. ASSUME NEW q \in RequestIds, createX402Request(q), upsertX402RequestRecord(q, "pending"),
             UNCHANGED <<overdue, userOps, transfers, taskVars>>
      PROVE  TaskGood(t)
    BY <1>3, FreshGood
<1>4. {"none", "fetched", "recomputed", "unguarded"} \subseteq Service
    BY DEF Service
<1> QED
    BY <1>1, <1>2, <1>3, <1>4 DEF A2AHandlers, firstLeg, handleA2AStopOrders, handleA2ABtcPrice,
       handleA2ARiskScore, handleA2AXReader, transferIntent, kolScore, WorkflowRuns,
       stopOrderRun, btcPriceRun, riskScoreRun, infoRun, hyperliquidOrderRun

LEMMA TaskStepGood ==
    ASSUME PaymentsInv, NEW t \in Tasks, TaskStep(t)
    PROVE  TaskGood(t)
<1> DEFINE q == tasks[t].request
<1>1. MoneyEffect
    BY TaskMoney
<1>2. \A stage : at(t, stage) => tasks[t] # NoTask /\ tasks[t].awaits = stage /\ tasks[t] \in Task
    BY TaskInProgress DEF at, PaymentsInv, PaymentsTypeOK
<1>3. \A stage \in Stage \ {"identity"} : at(t, stage) => q \in RequestIds
    BY <1>2 DEF PaymentsInv, PaymentsTypeOK, X402TypeOK, TaskHonest
<1>4. CASE A2AHandlers(t) \/ WorkflowRuns(t)
    BY <1>4, HandlersGood
<1>5. CASE issueRequest(t)
    BY <1>5, IssueGood
<1>6. CASE \/ refuseChallenge(t) \/ proofRefused(t) \/ serviceFails(t) \/ sessionPayRefused(t)
    BY <1>1, <1>6, EndsGood DEF refuseChallenge, proofRefused, serviceFails, sessionPayRefused, x402Vars
<1>7. CASE proofVerified(t)
    <2>3. q \in backedRequests
        BY <1>3, <1>7, VerifiedBacked DEF proofVerified, Stage
    <2>1. CASE settle(t)
        BY <1>2, <1>7, <2>1, <2>3, SettleGood DEF proofVerified
    <2>2. CASE goes(t, "service") /\ UNCHANGED <<table, delivered>>
        BY <1>1, <1>7, <2>2, <2>3, GoesGood DEF proofVerified, Stage
    <2> QED
        BY <1>7, <2>1, <2>2 DEF proofVerified
<1>8. CASE serviceAnswers(t)
    <2>1. q \in backedRequests
        BY <1>2, <1>8 DEF serviceAnswers, PaymentsInv, TaskHonest
    <2> QED
        BY <1>2, <1>8, <2>1, SettleGood DEF serviceAnswers
<1>9. CASE recomputeFails(t)
    <2>1. q \in RequestIds /\ PaidFor(q)
        BY <1>2, <1>3, <1>9 DEF recomputeFails, Stage, PaymentsInv, TaskHonest, PaidFor
    <2>2. table' = table /\ issued' = issued /\ backedRequests' = backedRequests /\ delivered' = delivered \cup {q}
        BY <1>9, BackedSame DEF recomputeFails, x402Vars, moneyVars
    <2>3. TableHonest'
        BY <2>1, <2>2 DEF PaymentsInv, TableHonest, RowHonest, PaidFor
    <2> QED
        BY <1>9, <2>1, <2>2, <2>3
           DEF recomputeFails, ends, TaskGood, TaskHonest, PaymentsInv, PaymentsTypeOK, X402TypeOK, TasksTypeOK
<1>10. CASE sessionPayReads(t)
    BY <1>1, <1>10, GoesGood, EndsGood DEF sessionPayReads, Stage, x402Vars
<1>11. CASE sessionPaySucceeds(t)
    BY <1>1, <1>11, GoesGood DEF sessionPaySucceeds, Stage
<1>12. CASE sessionPayUncertain(t)
    <2>1. at(t, "userOp") /\ UNCHANGED <<table, delivered>> /\ (goes(t, "pay") \/ ends(t))
        BY <1>12 DEF sessionPayUncertain
    <2> QED
        BY <1>1, <2>1, GoesGood, EndsGood DEF Stage
<1>13. CASE runPresents(t)
    <2>1. q \in RequestIds /\ tasks[t].service \in Service /\ at(t, "present")
        BY <1>2, <1>3, <1>13 DEF runPresents, Stage, Task
    <2> QED
        BY <1>1, <1>13, <2>1, PresentGood, EndsGood DEF runPresents
<1>14. CASE Commerce(t)
    BY <1>1, <1>14, CommerceGood
<1> QED
    BY <1>4, <1>5, <1>6, <1>7, <1>8, <1>9, <1>10, <1>11, <1>12, <1>13, <1>14
       DEF TaskStep, taskProceeds, runProceeds

-----------------------------------------------------------------------------
\* Calls

TableGood ==
    /\ table' \in Table
    /\ \A q \in RequestIds : RowHonest(q, table[q])'

CallGood(c) ==
    /\ calls' \in [Calls -> Call \cup Past \cup {NoCall}]
    /\ CallHonest(c)'
    /\ \A d \in Calls \ {c} : calls'[d] = calls[d]

\* What is said of a request and may be believed after the step.
HonestAfter(q, status) ==
    /\ status # "none" => q \in issued'
    /\ status = "paid" => q \in backedRequests'

LEMMA TableUnchangedGood ==
    ASSUME PaymentsInv, MoneyEffect, UNCHANGED table
    PROVE  TableGood
BY HonestTableLasts DEF TableGood, PaymentsInv, PaymentsTypeOK, X402TypeOK

LEMMA UpsertGood ==
    ASSUME PaymentsInv, MoneyEffect, NEW q \in RequestIds, NEW status \in Status,
           upsertX402RequestRecord(q, status), HonestAfter(q, status)
    PROVE  TableGood
<1>1. table \in Table
    BY DEF PaymentsInv, PaymentsTypeOK, X402TypeOK
<1>2. table' \in Table /\ \A p \in RequestIds : table'[p] = IF p = q THEN status ELSE table[p]
    BY <1>1 DEF upsertX402RequestRecord, writeX402Requests, Table
<1>3. ASSUME NEW p \in RequestIds, p # q
      PROVE  RowHonest(p, table[p])'
    BY <1>2, <1>3, HonestTableLasts
<1>4. RowHonest(q, table[q])'
    BY <1>2 DEF RowHonest, HonestAfter
<1> QED
    BY <1>2, <1>3, <1>4 DEF TableGood

LEMMA BecomesGood ==
    ASSUME PaymentsInv, NEW c \in Calls, NEW call \in Call, becomes(c, call),
           call.awaits \in {"feed", "pay", "userOp", "proof"} => call.copy # "none",
           HonestAfter(call.request, call.copy),
           call.awaits = "trust" => HonestAfter(call.request, "paid")
    PROVE  CallGood(c)
<1>1. calls \in [Calls -> Call \cup Past \cup {NoCall}]
    BY DEF PaymentsInv, PaymentsTypeOK, CallsTypeOK
<1>2. calls'[c] = call /\ call.awaits \in Waiting /\ call.awaits \notin {"served", "bought"}
    BY <1>1 DEF becomes, Call, Waiting
<1>3. CallHonest(c)'
    BY <1>2 DEF CallHonest, waits, RowHonest, PaidFor, HonestAfter
<1> QED
    BY <1>1, <1>3 DEF CallGood, becomes

LEMMA FinishesGood ==
    ASSUME PaymentsInv, NEW c \in Calls, NEW call \in Past, becomes(c, call),
           call.awaits \in {"served", "bought"} => HonestAfter(call.request, "paid")
    PROVE  CallGood(c)
<1>1. calls \in [Calls -> Call \cup Past \cup {NoCall}]
    BY DEF PaymentsInv, PaymentsTypeOK, CallsTypeOK
<1>2. calls'[c] = call /\ call.awaits \notin Waiting
    BY <1>1 DEF becomes, Past, Waiting, Ended
<1>3. CallHonest(c)'
    BY <1>2 DEF CallHonest, waits, inFlight, PaidFor, HonestAfter
<1> QED
    BY <1>1, <1>3 DEF CallGood, becomes

LEMMA PastTyped ==
    ASSUME NEW call, call.intent \in Intents \cup {NoIntent}, call.started \in BOOLEAN,
           NEW how \in Ended, NEW q \in RequestIds \cup {NoRequest}
    PROVE  past(call, how, q) \in Past
BY DEF past, Past

\* Calls that end without being served.
LEMMA EndsUnserved ==
    ASSUME PaymentsInv, NEW c \in Calls, inFlight(c), NEW how \in {"failed", "refused"},
           becomes(c, past(calls[c], how, NoRequest))
    PROVE  CallGood(c)
<1>1. calls[c] \in Call
    BY InFlightCall DEF PaymentsInv, PaymentsTypeOK
<1>2. past(calls[c], how, NoRequest) \in Past /\ past(calls[c], how, NoRequest).awaits = how
    BY <1>1, PastTyped DEF Call, Ended, past
<1> QED
    BY <1>2, FinishesGood

\* What a call holds in this state may be believed after the step.
LEMMA HeldHonest ==
    ASSUME PaymentsInv, MoneyEffect, NEW c \in Calls, inFlight(c)
    PROVE  /\ calls[c] \in Call
           /\ HonestAfter(calls[c].request, calls[c].copy)
           /\ calls[c].copy # "none" => /\ calls[c].request \in RequestIds
                                       /\ calls[c].request \in issued'
           /\ calls[c].awaits \in {"feed", "pay", "userOp", "proof"} => calls[c].copy # "none"
           /\ calls[c].awaits = "trust" => HonestAfter(calls[c].request, "paid")
<1>1. X402TypeOK /\ issued \subseteq RequestIds
    BY DEF PaymentsInv, PaymentsTypeOK, X402TypeOK
<1>2. CallHonest(c)
    BY DEF PaymentsInv
<1>3. calls[c] \in Call
    BY InFlightCall DEF PaymentsInv, PaymentsTypeOK
<1>4. calls[c].copy # "none" => calls[c].request \in RequestIds
    BY <1>1, <1>2 DEF CallHonest, RowHonest
<1>5. HonestAfter(calls[c].request, calls[c].copy)
    BY <1>1, <1>2, <1>4, LedgerGrows DEF CallHonest, RowHonest, HonestAfter
<1>6. calls[c].awaits = "trust" => HonestAfter(calls[c].request, "paid")
    BY <1>1, <1>2, LedgerGrows DEF CallHonest, PaidFor, HonestAfter
<1> QED
    BY <1>2, <1>3, <1>4, <1>5, <1>6 DEF CallHonest, HonestAfter

LEMMA InvokeFailsGood ==
    ASSUME PaymentsInv, MoneyEffect, NEW c \in Calls, inFlight(c), invokeFails(c)
    PROVE  TableGood /\ CallGood(c)
<1>1. CallGood(c)
    BY EndsUnserved DEF invokeFails
<1>2. CASE calls[c].copy = "none"
    BY <1>1, <1>2, TableUnchangedGood DEF invokeFails
<1>3. CASE calls[c].copy # "none"
    <2>1. upsertX402RequestRecord(calls[c].request, "failed") /\ calls[c].request \in RequestIds
        BY <1>3, HeldHonest DEF invokeFails
    <2>2. HonestAfter(calls[c].request, "failed") /\ "failed" \in Status
        BY <1>3, HeldHonest DEF HonestAfter, Status
    <2> QED
        BY <1>1, <2>1, <2>2, UpsertGood
<1> QED
    BY <1>1, <1>2, <1>3

LEMMA WaitingInFlight ==
    ASSUME NEW c \in Calls, NEW stage \in Waiting, waits(c, stage)
    PROVE  inFlight(c) /\ calls[c].awaits = stage
BY DEF waits, inFlight

\* A call moves on with what it holds.
LEMMA MovesGood ==
    ASSUME PaymentsInv, MoneyEffect, NEW c \in Calls, inFlight(c), NEW stage \in Waiting,
           NEW call \in Call, becomes(c, call), call.awaits = stage,
           call.request = calls[c].request, call.copy = calls[c].copy,
           stage \in {"feed", "pay", "userOp", "proof"} => calls[c].copy # "none",
           stage = "trust" => HonestAfter(calls[c].request, "paid")
    PROVE  CallGood(c)
BY HeldHonest, BecomesGood

LEMMA FeedCallGood ==
    ASSUME PaymentsInv, MoneyEffect, NEW c \in Calls, NEW mode \in {"session", "agent"},
           NEW i \in Intents \cup {NoIntent}, NEW supplied \in Supplied,
           feedCall(c, mode, i, supplied)
    PROVE  TableGood /\ CallGood(c)
<1>1. PICK q \in RequestIds :
        /\ IF supplied \in {"id", "proof"}
             THEN table[q] # "none" /\ UNCHANGED issued
             ELSE q \notin CommerceIds /\ createX402Request(q)
        /\ upsertX402RequestRecord(q, IF table[q] = "paid" THEN "paid" ELSE "pending")
        /\ becomes(c, arriving(mode, i, supplied, q, IF table[q] = "paid" THEN "paid" ELSE "pending", "feed"))
    BY DEF feedCall
<1>2. RowHonest(q, table[q]) /\ X402TypeOK
    BY DEF PaymentsInv, PaymentsTypeOK, TableHonest
<1>3. q \in issued'
    BY <1>1, <1>2 DEF createX402Request, RowHonest
<1>4. table[q] = "paid" => q \in backedRequests'
    BY <1>2, LedgerGrows DEF RowHonest
<1>5. PICK status \in {"paid", "pending"} : status = IF table[q] = "paid" THEN "paid" ELSE "pending"
    OBVIOUS
<1>6. HonestAfter(q, status) /\ status \in Status
    BY <1>3, <1>4, <1>5 DEF HonestAfter, Status
<1>7. TableGood
    BY <1>1, <1>5, <1>6, UpsertGood
<1>8. /\ arriving(mode, i, supplied, q, status, "feed") \in Call
      /\ arriving(mode, i, supplied, q, status, "feed").copy = status
      /\ arriving(mode, i, supplied, q, status, "feed").request = q
      /\ arriving(mode, i, supplied, q, status, "feed").awaits = "feed"
    BY <1>6 DEF arriving, Call, Waiting, Mode
<1>9. CallGood(c)
    BY <1>1, <1>5, <1>6, <1>8, BecomesGood DEF HonestAfter
<1> QED
    BY <1>7, <1>9

LEMMA TaskCallGood ==
    ASSUME PaymentsInv, MoneyEffect, NEW c \in Calls,
           NEW i \in Intents \cup {NoIntent}, NEW supplied \in Supplied,
           taskCall(c, i, supplied)
    PROVE  TableGood /\ CallGood(c)
<1>1. TableGood
    BY TableUnchangedGood DEF taskCall, x402Vars
<1>2. PICK q \in RequestIds \cup {NoRequest} :
        /\ IF supplied \in {"id", "proof"} THEN q \in RequestIds /\ table[q] # "none"
           ELSE q = NoRequest
        /\ becomes(c, arriving("task", i, supplied, q,
                               IF q = NoRequest THEN "none" ELSE table[q], "task"))
    BY DEF taskCall
<1>3. PICK status \in Status \cup {"none"} : status = IF q = NoRequest THEN "none" ELSE table[q]
    BY DEF PaymentsInv, PaymentsTypeOK, X402TypeOK, Table
<1>4. HonestAfter(q, status)
    <2>1. CASE q = NoRequest
        BY <1>3, <2>1 DEF HonestAfter
    <2>2. CASE q # NoRequest
        BY <1>3, <2>2, LedgerGrows DEF HonestAfter, RowHonest, PaymentsInv, PaymentsTypeOK, TableHonest
    <2> QED
        BY <2>1, <2>2
<1>5. /\ arriving("task", i, supplied, q, status, "task") \in Call
      /\ arriving("task", i, supplied, q, status, "task").copy = status
      /\ arriving("task", i, supplied, q, status, "task").request = q
      /\ arriving("task", i, supplied, q, status, "task").awaits = "task"
    BY DEF arriving, Call, Waiting, Mode
<1>6. CallGood(c)
    BY <1>2, <1>3, <1>4, <1>5, BecomesGood
<1> QED
    BY <1>1, <1>6

LEMMA BeginsOnArrivalGood ==
    ASSUME PaymentsInv, MoneyEffect, NEW c \in Calls, NEW i \in Intents \cup {NoIntent},
           NEW mode \in {"workflow", "buy"}, NEW stage \in {"workflow", "invoke"},
           beginsOnArrival(c, mode, i, stage)
    PROVE  TableGood /\ CallGood(c)
<1>1. TableGood
    BY TableUnchangedGood DEF beginsOnArrival, x402Vars
<1>2. CASE becomes(c, begun(arriving(mode, i, "nothing", NoRequest, "none", stage)))
    <2> DEFINE call == begun(arriving(mode, i, "nothing", NoRequest, "none", stage))
    <2>1. call \in Call /\ call.copy = "none" /\ call.awaits = stage
        BY DEF begun, arriving, Call, Waiting, Mode, Supplied
    <2> HIDE DEF call
    <2>2. HonestAfter(call.request, call.copy)
        BY <2>1 DEF HonestAfter
    <2> QED
        BY <1>1, <1>2, <2>1, <2>2, BecomesGood DEF call
<1>3. CASE UNCHANGED calls
    <2>1. /\ calls \in [Calls -> Call \cup Past \cup {NoCall}] /\ X402TypeOK /\ CallHonest(c)
          /\ issued \subseteq RequestIds
        BY DEF PaymentsInv, PaymentsTypeOK, CallsTypeOK, X402TypeOK
    <2>2. CallHonest(c)'
        BY <1>3, <2>1, LedgerGrows DEF CallHonest, inFlight, waits, RowHonest, PaidFor
    <2> QED
        BY <1>1, <1>3, <2>1, <2>2 DEF CallGood
<1> QED
    BY <1>2, <1>3 DEF beginsOnArrival

LEMMA FeedNextGood ==
    ASSUME PaymentsInv, MoneyEffect, NEW c \in Calls, FeedNext(c)
    PROVE  TableGood /\ CallGood(c)
<1>1. \A stage \in Waiting : waits(c, stage) => inFlight(c) /\ calls[c].awaits = stage
    BY WaitingInFlight
<1>2. inFlight(c) => /\ calls[c] \in Call
                     /\ begun(calls[c]) \in Call /\ begun(calls[c]).copy = calls[c].copy
                     /\ begun(calls[c]).request = calls[c].request
    BY HeldHonest DEF begun, Call
<1>3. \A stage \in Waiting : inFlight(c) =>
          /\ [calls[c] EXCEPT !.awaits = stage] \in Call
          /\ [calls[c] EXCEPT !.awaits = stage].awaits = stage
          /\ [calls[c] EXCEPT !.awaits = stage].request = calls[c].request
          /\ [calls[c] EXCEPT !.awaits = stage].copy = calls[c].copy
          /\ [begun(calls[c]) EXCEPT !.awaits = stage] \in Call
          /\ [begun(calls[c]) EXCEPT !.awaits = stage].awaits = stage
          /\ [begun(calls[c]) EXCEPT !.awaits = stage].request = calls[c].request
          /\ [begun(calls[c]) EXCEPT !.awaits = stage].copy = calls[c].copy
    BY <1>2 DEF Call
<1>4. CASE feedFails(c) \/ invokePayRefused(c)
    BY <1>1, <1>4, InvokeFailsGood DEF feedFails, invokePayRefused, Waiting
<1>5. CASE noData(c)
    <2>1. inFlight(c) /\ calls[c].awaits = "feed"
        BY <1>1, <1>5 DEF noData, Waiting
    <2>2. /\ calls[c].request \in RequestIds /\ HonestAfter(calls[c].request, "failed")
          /\ "failed" \in Status
        BY <2>1, HeldHonest DEF HonestAfter, Status
    <2>3. TableGood
        BY <1>5, <2>2, UpsertGood DEF noData
    <2> QED
        BY <1>5, <2>1, <2>3, EndsUnserved DEF noData, refused
<1>6. CASE feedForSession(c)
    <2>1. inFlight(c) /\ calls[c].awaits = "feed" /\ TableGood
        BY <1>1, <1>6, TableUnchangedGood DEF feedForSession, Waiting, x402Vars
    <2>2. CASE becomes(c, [begun(calls[c]) EXCEPT !.awaits = "pay"])
        <3>1. calls[c].copy # "none" /\ "pay" \in Waiting
            BY <2>1, HeldHonest DEF Waiting
        <3> QED
            BY <1>3, <2>1, <2>2, <3>1, MovesGood
    <2>3. CASE refused(c)
        BY <2>1, <2>3, EndsUnserved DEF refused
    <2> QED
        BY <1>6, <2>2, <2>3 DEF feedForSession
<1>7. CASE feedForAgent(c)
    <2>1. inFlight(c) /\ calls[c].awaits = "feed"
        BY <1>1, <1>7 DEF feedForAgent, Waiting
    <2>2. /\ calls[c].request \in RequestIds /\ calls[c].copy \in Status /\ calls[c].copy # "none"
          /\ HonestAfter(calls[c].request, calls[c].copy)
        BY <2>1, HeldHonest DEF Call
    <2>3. TableGood
        BY <1>7, <2>2, UpsertGood DEF feedForAgent
    <2>4. CASE refused(c)
        BY <2>1, <2>3, <2>4, EndsUnserved DEF refused
    <2>5. CASE becomes(c, past(begun(calls[c]), "refused", NoRequest))
        <3>1. past(begun(calls[c]), "refused", NoRequest) \in Past
            BY <1>2, <2>1, PastTyped DEF Ended, Call
        <3>2. past(begun(calls[c]), "refused", NoRequest).awaits = "refused"
            BY DEF past
        <3> QED
            BY <2>3, <2>5, <3>1, <3>2, FinishesGood
    <2>6. ASSUME NEW stage \in {"trust", "proof"}, stage = "trust" => calls[c].copy = "paid",
                 becomes(c, [begun(calls[c]) EXCEPT !.awaits = stage])
          PROVE  CallGood(c)
        <3> DEFINE call == [begun(calls[c]) EXCEPT !.awaits = stage]
        <3>1. stage \in Waiting
            BY <2>6 DEF Waiting
        <3>2. /\ call \in Call /\ call.awaits = stage
              /\ call.request = calls[c].request /\ call.copy = calls[c].copy
            BY <1>3, <2>1, <3>1
        <3>3. becomes(c, call)
            BY <2>6
        <3>4. stage = "trust" => HonestAfter(calls[c].request, "paid")
            BY <2>2, <2>6
        <3>5. calls[c].copy # "none"
            BY <2>2
        <3> HIDE DEF call
        <3> QED
            BY <2>1, <3>1, <3>2, <3>3, <3>4, <3>5, MovesGood
    <2> QED
        BY <1>7, <2>3, <2>4, <2>5, <2>6 DEF feedForAgent
<1>8. CASE invokePayReads(c)
    <2>1. inFlight(c) /\ calls[c].awaits = "pay" /\ "userOp" \in Waiting
        BY <1>1, <1>8 DEF invokePayReads, Waiting
    <2>2. CASE moves(c, "userOp") /\ UNCHANGED table
        BY <1>3, <2>1, <2>2, MovesGood, HeldHonest, TableUnchangedGood DEF moves
    <2> QED
        BY <1>8, <2>1, <2>2, InvokeFailsGood DEF invokePayReads
<1>9. CASE invokePaySucceeds(c)
    <2>1. inFlight(c) /\ calls[c].awaits = "userOp" /\ "proof" \in Waiting
        BY <1>1, <1>9 DEF invokePaySucceeds, Waiting
    <2> QED
        BY <1>3, <1>9, <2>1, MovesGood, HeldHonest, TableUnchangedGood DEF invokePaySucceeds, moves
<1>10. CASE invokePayUncertain(c)
    <2>1. inFlight(c) /\ calls[c].awaits = "userOp" /\ "pay" \in Waiting
        BY <1>1, <1>10 DEF invokePayUncertain, Waiting
    <2>2. CASE moves(c, "pay") /\ UNCHANGED table
        BY <1>3, <2>1, <2>2, MovesGood, HeldHonest, TableUnchangedGood DEF moves
    <2> QED
        BY <1>10, <2>1, <2>2, InvokeFailsGood DEF invokePayUncertain
<1>11. CASE invokeProofVerified(c)
    <2>1. inFlight(c) /\ calls[c].awaits = "proof" /\ calls[c] \in Call
        BY <1>1, <1>2, <1>11 DEF invokeProofVerified, Waiting
    <2>2. calls[c].request \in RequestIds /\ calls[c].request \in issued'
        BY <2>1, HeldHonest
    <2>3. HonestAfter(calls[c].request, "paid") /\ "paid" \in Status
        BY <1>11, <2>2, LedgerGrows, VerifiedBacked
           DEF invokeProofVerified, HonestAfter, Status, PaymentsInv, PaymentsTypeOK
    <2>4. TableGood
        BY <1>11, <2>2, <2>3, UpsertGood DEF invokeProofVerified
    <2> DEFINE call == [calls[c] EXCEPT !.awaits = "trust", !.copy = "paid"]
    <2>5. /\ call \in Call /\ call.awaits = "trust" /\ call.copy = "paid"
          /\ call.request = calls[c].request
        BY <2>1 DEF Call, Waiting, Status
    <2>6. becomes(c, call)
        BY <1>11 DEF invokeProofVerified, unlocks
    <2> HIDE DEF call
    <2> QED
        BY <2>3, <2>4, <2>5, <2>6, BecomesGood
<1>12. CASE invokeProofRefused(c)
    <2>1. inFlight(c)
        BY <1>1, <1>12 DEF invokeProofRefused, Waiting
    <2>2. CASE refused(c) /\ UNCHANGED table
        BY <2>1, <2>2, EndsUnserved, TableUnchangedGood DEF refused
    <2> QED
        BY <1>12, <2>1, <2>2, InvokeFailsGood DEF invokeProofRefused
<1> QED
    BY <1>4, <1>5, <1>6, <1>7, <1>8, <1>9, <1>10, <1>11, <1>12 DEF FeedNext

\* A call that is served for a request that was paid.
LEMMA ServedGood ==
    ASSUME PaymentsInv, MoneyEffect, NEW c \in Calls, inFlight(c),
           NEW how \in {"served", "bought"}, NEW q \in RequestIds, HonestAfter(q, "paid"),
           becomes(c, past(calls[c], how, q))
    PROVE  CallGood(c)
<1>1. calls[c] \in Call
    BY HeldHonest
<1>2. past(calls[c], how, q) \in Past /\ past(calls[c], how, q).request = q
    BY <1>1, PastTyped DEF Call, Ended, past
<1> QED
    BY <1>2, FinishesGood

LEMMA WritesCopyBackGood ==
    ASSUME PaymentsInv, MoneyEffect, NEW c \in Calls, inFlight(c), writesCopyBack(c)
    PROVE  TableGood
<1>1. CASE calls[c].copy = "none"
    BY <1>1, TableUnchangedGood DEF writesCopyBack
<1>2. CASE calls[c].copy # "none"
    <2>1. /\ calls[c].request \in RequestIds /\ calls[c].copy \in Status
          /\ HonestAfter(calls[c].request, calls[c].copy)
        BY <1>2, HeldHonest DEF Call
    <2> QED
        BY <1>2, <2>1, UpsertGood DEF writesCopyBack
<1> QED
    BY <1>1, <1>2

\* What handlers delivered was paid.
LEMMA DeliveredPaid ==
    ASSUME PaymentsInv, MoneyEffect, NEW q \in delivered
    PROVE  q \in RequestIds /\ HonestAfter(q, "paid")
<1>1. X402TypeOK /\ q \in RequestIds /\ PaidFor(q)
    BY DEF PaymentsInv, PaymentsTypeOK, TasksTypeOK, TableHonest
<1> QED
    BY <1>1, LedgerGrows DEF PaidFor, HonestAfter

LEMMA AnsweredGood ==
    ASSUME PaymentsInv, MoneyEffect, NEW c \in Calls,
           AnsweredNext(c, delivered) \/ trustAnswers(c)
    PROVE  TableGood /\ CallGood(c)
<1>1. \A stage \in Waiting : waits(c, stage) => inFlight(c) /\ calls[c].awaits = stage
    BY WaitingInFlight
<1>2. X402TypeOK /\ issued \subseteq RequestIds
    BY DEF PaymentsInv, PaymentsTypeOK, X402TypeOK
<1>3. CASE taskAsksPayment(c)
    <2>1. inFlight(c)
        BY <1>1, <1>3 DEF taskAsksPayment, Waiting
    <2>2. TableGood
        BY <1>3, <2>1, WritesCopyBackGood, TableUnchangedGood DEF taskAsksPayment
    <2> QED
        BY <1>3, <2>1, <2>2, EndsUnserved DEF taskAsksPayment, refused
<1>4. CASE taskDelivers(c, delivered)
    <2> DEFINE q == calls[c].request
    <2>1. inFlight(c) /\ calls[c] \in Call
        BY <1>1, <1>4, InFlightCall DEF taskDelivers, Waiting, PaymentsInv, PaymentsTypeOK
    <2>2. q \in RequestIds /\ HonestAfter(q, "paid")
        BY <1>4, DeliveredPaid DEF taskDelivers
    <2>3. TableGood
        BY <1>4, <2>1, WritesCopyBackGood, TableUnchangedGood DEF taskDelivers
    <2>4. ASSUME NEW status \in Status \cup {"none"}, unlocks(c, status), HonestAfter(q, status)
          PROVE  CallGood(c)
        <3> DEFINE call == [calls[c] EXCEPT !.awaits = "trust", !.copy = status]
        <3>1. /\ call \in Call /\ call.awaits = "trust" /\ call.copy = status
              /\ call.request = q
            BY <2>1 DEF Call, Waiting
        <3>2. becomes(c, call)
            BY <2>4 DEF unlocks
        <3> HIDE DEF call, q
        <3> QED
            BY <2>2, <2>4, <3>1, <3>2, BecomesGood
    <2>5. calls[c].copy \in Status \cup {"none"} /\ HonestAfter(q, calls[c].copy)
        BY <2>1, HeldHonest DEF Call
    <2>6. table[q] \in Status \cup {"none"} /\ HonestAfter(q, table[q])
        BY <1>2, <2>2, LedgerGrows DEF X402TypeOK, Table, PaymentsInv, TableHonest, RowHonest, HonestAfter
    <2> QED
        BY <1>4, <2>3, <2>4, <2>5, <2>6 DEF taskDelivers
<1>5. CASE taskErrs(c)
    <2>1. inFlight(c) /\ calls[c].awaits = "task" /\ calls[c] \in Call
        BY <1>1, <1>5, InFlightCall DEF taskErrs, Waiting, PaymentsInv, PaymentsTypeOK
    <2>2. TableGood
        BY <1>5, <2>1, WritesCopyBackGood DEF taskErrs
    <2>3. CASE becomes(c, [begun(calls[c]) EXCEPT !.awaits = "workflow"])
        <3> DEFINE call == [begun(calls[c]) EXCEPT !.awaits = "workflow"]
        <3>1. /\ call \in Call /\ call.awaits = "workflow" /\ call.copy = calls[c].copy
              /\ call.request = calls[c].request
            BY <2>1 DEF begun, Call, Waiting
        <3> HIDE DEF call
        <3> QED
            BY <2>1, <2>2, <2>3, <3>1, HeldHonest, BecomesGood DEF call
    <2> QED
        BY <1>5, <2>1, <2>2, <2>3, EndsUnserved DEF taskErrs, refused
<1>6. CASE workflowDelivers(c, delivered)
    <2>1. inFlight(c) /\ TableGood
        BY <1>1, <1>6, TableUnchangedGood DEF workflowDelivers, Waiting, x402Vars
    <2>2. PICK q \in delivered : becomes(c, past(calls[c], "served", q))
        BY <1>6 DEF workflowDelivers
    <2> QED
        BY <2>1, <2>2, DeliveredPaid, ServedGood
<1>7. CASE workflowFailed(c)
    <2>1. inFlight(c) /\ TableGood
        BY <1>1, <1>7, TableUnchangedGood DEF workflowFailed, Waiting, x402Vars
    <2> QED
        BY <1>7, <2>1, EndsUnserved DEF workflowFailed
<1>8. CASE unanswered(c)
    BY <1>1, <1>8, InvokeFailsGood DEF unanswered, Waiting
<1>9. CASE trustAnswers(c)
    <2>1. inFlight(c) /\ calls[c].awaits = "trust" /\ TableGood
        BY <1>1, <1>9, TableUnchangedGood DEF trustAnswers, Waiting, x402Vars
    <2>2. HonestAfter(calls[c].request, "paid") /\ calls[c].request \in RequestIds
        BY <1>2, <2>1, HeldHonest DEF PaymentsInv, CallHonest, PaidFor
    <2> QED
        BY <1>9, <2>1, <2>2, ServedGood DEF trustAnswers
<1> QED
    BY <1>3, <1>4, <1>5, <1>6, <1>7, <1>8, <1>9 DEF AnsweredNext

LEMMA BuyGood ==
    ASSUME PaymentsInv, MoneyEffect, NEW c \in Calls, BuyNext(c)
    PROVE  TableGood /\ CallGood(c)
<1>1. waits(c, "invoke") => inFlight(c)
    BY WaitingInFlight DEF Waiting
<1>2. CASE \E i \in Intents \cup {NoIntent} : buy(c, i)
    BY <1>2, BeginsOnArrivalGood DEF buy
<1>3. CASE buyCompletes(c)
    <2>1. inFlight(c) /\ TableGood
        BY <1>1, <1>3, TableUnchangedGood DEF buyCompletes, x402Vars
    <2>2. PICK d \in Calls : waits(d, "served") /\ becomes(c, past(calls[c], "bought", calls[d].request))
        BY <1>3 DEF buyCompletes
    <2>3. calls[d].request \in RequestIds /\ HonestAfter(calls[d].request, "paid")
        BY <2>2, LedgerGrows
           DEF PaymentsInv, PaymentsTypeOK, X402TypeOK, CallHonest, PaidFor, HonestAfter
    <2> QED
        BY <2>1, <2>2, <2>3, ServedGood
<1>4. CASE buyFails(c)
    <2>1. inFlight(c) /\ TableGood
        BY <1>1, <1>4, TableUnchangedGood DEF buyFails, x402Vars
    <2> QED
        BY <1>4, <2>1, EndsUnserved DEF buyFails
<1> QED
    BY <1>2, <1>3, <1>4 DEF BuyNext

LEMMA CallStepGood ==
    ASSUME PaymentsInv, NEW c \in Calls, CallStep(c)
    PROVE  TableGood /\ CallGood(c)
<1>1. MoneyEffect
    BY CallMoney
<1>2. ASSUME arrive(c)
      PROVE  TableGood /\ CallGood(c)
    <2>1. ASSUME NEW i \in Intents \cup {NoIntent}, workflowCall(c, i)
          PROVE  TableGood /\ CallGood(c)
        BY <1>1, <2>1, BeginsOnArrivalGood DEF workflowCall
    <2> QED
        BY <1>1, <1>2, <2>1, FeedCallGood, TaskCallGood DEF arrive
<1> QED
    BY <1>1, <1>2, FeedNextGood, AnsweredGood, BuyGood DEF CallStep

-----------------------------------------------------------------------------
\* Intents

\* The rows of the intents and what is known of their calls.  A call that began
\* its intent keeps the row from being taken, until compaction may drop it.
Claimed(c) ==
    calls[c] # NoCall /\ calls[c].started =>
        /\ calls[c].intent \in Intents
        /\ \/ calls[c].intent \in forgettable
           \/ intents[calls[c].intent] # NoRow /\ kept(intents[calls[c].intent])

IntentsInv ==
    /\ PaymentsInv
    /\ \A c \in Calls : Claimed(c)
    /\ OneExecution
    /\ StuckExplained
    /\ CompletedServed
    /\ revoked => authority.revokedAt

\* How a call's step may treat the rows: it leaves them, compacts them, begins
\* the call's intent, or ends it.
SameIntent(c) ==
    /\ calls[c] = NoCall \/ inFlight(c)
    /\ calls[c] # NoCall => calls'[c] # NoCall /\ calls'[c].intent = calls[c].intent

Keeps(c) ==
    /\ intents' = intents \/ readCompactedConsumerIntents
    /\ forgettable' = forgettable
    /\ calls[c] = NoCall => calls'[c] = NoCall \/ ~calls'[c].started
    /\ calls[c] # NoCall =>
        /\ calls'[c].started = calls[c].started
        /\ calls[c].started => calls'[c].awaits \in Waiting \cup {"refused"}

Begins(c) ==
    /\ beginConsumerIntent(calls'[c].intent)
    /\ calls'[c] # NoCall
    /\ calls'[c].intent \in Intents \cup {NoIntent}
    /\ calls'[c].started = (calls'[c].intent # NoIntent)
    /\ calls'[c].awaits \in Waiting \cup {"refused"}

Finalizes(c) ==
    /\ inFlight(c)
    /\ calls'[c].started = calls[c].started
    /\ \E status \in Outcome :
        /\ finalizeConsumerIntent(calls[c].intent, status)
        /\ status = "completed" => /\ calls'[c].awaits \in {"served", "bought"}
                                  /\ calls'[c].request \in backedRequests'

IntentEffect(c) == SameIntent(c) /\ (Keeps(c) \/ Begins(c) \/ Finalizes(c))

LEMMA BecomesIs ==
    ASSUME CallsTypeOK, NEW c \in Calls, NEW call, becomes(c, call)
    PROVE  calls'[c] = call
BY DEF CallsTypeOK, becomes

\* What calls remember when they end, move on, or begin.
LEMMA PastOf ==
    ASSUME CallsAssumption, CallsTypeOK, NEW c \in Calls, NEW how \in Ended,
           NEW q \in RequestIds \cup {NoRequest}, NEW call \in Call, becomes(c, past(call, how, q))
    PROVE  /\ calls'[c] # NoCall /\ calls'[c].awaits = how /\ calls'[c].request = q
           /\ calls'[c].intent = call.intent /\ calls'[c].started = call.started
<1>1. past(call, how, q) \in Past
    BY PastTyped DEF Call
<1>2. calls'[c] = past(call, how, q)
    BY BecomesIs
<1> QED
    BY <1>1, <1>2 DEF past, CallsAssumption

LEMMA CallOf ==
    ASSUME CallsAssumption, CallsTypeOK, NEW c \in Calls, NEW call \in Call, becomes(c, call)
    PROVE  /\ calls'[c] = call /\ calls'[c] # NoCall /\ calls'[c].awaits \in Waiting
           /\ calls'[c].intent = call.intent /\ calls'[c].started = call.started
BY BecomesIs DEF CallsAssumption, Call

\* The call ends without a word to its intent, whose rows are compacted at most.
LEMMA RefusedEffect ==
    ASSUME PaymentsAssumption, PaymentsInv, NEW c \in Calls, inFlight(c), refused(c),
           UNCHANGED intentVars \/ \E i \in Intents \cup {NoIntent} : conflict(i)
    PROVE  IntentEffect(c)
<1>1. calls[c] \in Call /\ CallsTypeOK /\ CallsAssumption /\ calls[c] # NoCall
    BY InFlightCall DEF PaymentsInv, PaymentsTypeOK, PaymentsAssumption, inFlight
<1>2. /\ calls'[c] # NoCall /\ calls'[c].awaits = "refused"
      /\ calls'[c].intent = calls[c].intent /\ calls'[c].started = calls[c].started
    BY <1>1, PastOf DEF refused, Ended
<1>3. forgettable' = forgettable /\ (intents' = intents \/ readCompactedConsumerIntents)
    BY DEF intentVars, conflict
<1> QED
    BY <1>1, <1>2, <1>3 DEF IntentEffect, SameIntent, Keeps

LEMMA MovesEffect ==
    ASSUME PaymentsAssumption, PaymentsInv, NEW c \in Calls, inFlight(c), UNCHANGED intentVars,
           NEW call \in Call, becomes(c, call), call.intent = calls[c].intent,
           call.started = calls[c].started
    PROVE  IntentEffect(c)
<1>1. calls[c] \in Call /\ CallsTypeOK /\ CallsAssumption /\ calls[c] # NoCall
    BY InFlightCall DEF PaymentsInv, PaymentsTypeOK, PaymentsAssumption, inFlight
<1>2. /\ calls'[c] # NoCall /\ calls'[c].awaits \in Waiting
      /\ calls'[c].intent = calls[c].intent /\ calls'[c].started = calls[c].started
    BY <1>1, CallOf
<1> QED
    BY <1>1, <1>2 DEF IntentEffect, SameIntent, Keeps, intentVars

\* The call ends and its intent with it.
LEMMA FinalizesEffect ==
    ASSUME PaymentsAssumption, PaymentsInv, NEW c \in Calls, inFlight(c),
           NEW how \in Ended, NEW q \in RequestIds \cup {NoRequest},
           becomes(c, past(calls[c], how, q)),
           NEW status \in Outcome, finalizeConsumerIntent(calls[c].intent, status),
           status = "completed" => how \in {"served", "bought"} /\ q \in backedRequests'
    PROVE  IntentEffect(c)
<1>1. calls[c] \in Call /\ CallsTypeOK /\ CallsAssumption /\ calls[c] # NoCall
    BY InFlightCall DEF PaymentsInv, PaymentsTypeOK, PaymentsAssumption, inFlight
<1>2. /\ calls'[c] # NoCall /\ calls'[c].awaits = how /\ calls'[c].request = q
      /\ calls'[c].intent = calls[c].intent /\ calls'[c].started = calls[c].started
    BY <1>1, PastOf
<1> QED
    BY <1>1, <1>2 DEF IntentEffect, SameIntent, Finalizes

LEMMA InvokeFailsEffect ==
    ASSUME PaymentsAssumption, PaymentsInv, NEW c \in Calls, inFlight(c), invokeFails(c)
    PROVE  IntentEffect(c)
<1>1. calls[c] \in Call /\ CallsTypeOK /\ CallsAssumption /\ calls[c] # NoCall
    BY InFlightCall DEF PaymentsInv, PaymentsTypeOK, PaymentsAssumption, inFlight
<1>2. CASE calls[c].started
    BY <1>2, FinalizesEffect DEF invokeFails, Outcome, Ended
<1>3. CASE ~calls[c].started
    <2>1. /\ calls'[c] # NoCall /\ calls'[c].awaits = "failed"
          /\ calls'[c].intent = calls[c].intent /\ calls'[c].started = calls[c].started
        BY <1>1, PastOf DEF invokeFails, Ended
    <2> QED
        BY <1>1, <1>3, <2>1 DEF invokeFails, IntentEffect, SameIntent, Keeps, intentVars
<1> QED
    BY <1>2, <1>3

\* The call begins its intent and waits, or is refused after that.
LEMMA BeginsEffect ==
    ASSUME PaymentsAssumption, PaymentsInv, NEW c \in Calls, inFlight(c),
           beginConsumerIntent(calls[c].intent),
           \/ \E stage \in Waiting : becomes(c, [begun(calls[c]) EXCEPT !.awaits = stage])
           \/ becomes(c, past(begun(calls[c]), "refused", NoRequest))
    PROVE  IntentEffect(c)
<1>1. calls[c] \in Call /\ CallsTypeOK /\ CallsAssumption /\ calls[c] # NoCall
    BY InFlightCall DEF PaymentsInv, PaymentsTypeOK, PaymentsAssumption, inFlight
<1>2. /\ begun(calls[c]) \in Call /\ begun(calls[c]).intent = calls[c].intent
      /\ begun(calls[c]).started = (calls[c].intent # NoIntent)
    BY <1>1 DEF begun, Call
<1>3. ASSUME NEW stage \in Waiting, becomes(c, [begun(calls[c]) EXCEPT !.awaits = stage])
      PROVE  /\ calls'[c] # NoCall /\ calls'[c].awaits \in Waiting
             /\ calls'[c].intent = calls[c].intent
             /\ calls'[c].started = (calls[c].intent # NoIntent)
    <2> DEFINE call == [begun(calls[c]) EXCEPT !.awaits = stage]
    <2>1. /\ call \in Call /\ call.intent = begun(calls[c]).intent
          /\ call.started = begun(calls[c]).started
        BY <1>2 DEF Call
    <2>2. becomes(c, call)
        BY <1>3
    <2> HIDE DEF call
    <2> QED
        BY <1>1, <1>2, <2>1, <2>2, CallOf
<1>4. ASSUME becomes(c, past(begun(calls[c]), "refused", NoRequest))
      PROVE  /\ calls'[c] # NoCall /\ calls'[c].awaits = "refused"
             /\ calls'[c].intent = calls[c].intent
             /\ calls'[c].started = (calls[c].intent # NoIntent)
    BY <1>1, <1>2, <1>4, PastOf DEF Ended
<1>5. calls[c].intent \in Intents \cup {NoIntent}
    BY <1>1 DEF Call
<1> QED
    BY <1>1, <1>3, <1>4, <1>5 DEF IntentEffect, SameIntent, Begins

LEMMA BeginsOnArrivalEffect ==
    ASSUME PaymentsAssumption, PaymentsInv, NEW c \in Calls, NEW i \in Intents \cup {NoIntent},
           NEW mode \in {"workflow", "buy"}, NEW stage \in {"workflow", "invoke"},
           beginsOnArrival(c, mode, i, stage)
    PROVE  IntentEffect(c)
<1>1. CallsTypeOK /\ CallsAssumption /\ calls[c] = NoCall
    BY DEF PaymentsInv, PaymentsTypeOK, PaymentsAssumption, beginsOnArrival
<1>2. CASE /\ beginConsumerIntent(i)
           /\ becomes(c, begun(arriving(mode, i, "nothing", NoRequest, "none", stage)))
    <2> DEFINE call == begun(arriving(mode, i, "nothing", NoRequest, "none", stage))
    <2>1. call \in Call /\ call.intent = i /\ call.started = (i # NoIntent)
        BY DEF begun, arriving, Call, Waiting, Mode, Supplied
    <2> HIDE DEF call
    <2>2. /\ calls'[c] # NoCall /\ calls'[c].awaits \in Waiting
          /\ calls'[c].intent = i /\ calls'[c].started = (i # NoIntent)
        BY <1>1, <1>2, <2>1, CallOf DEF call
    <2> QED
        BY <1>1, <1>2, <2>2 DEF IntentEffect, SameIntent, Begins
<1>3. CASE conflict(i) /\ UNCHANGED calls
    BY <1>1, <1>3 DEF conflict, IntentEffect, SameIntent, Keeps
<1> QED
    BY <1>2, <1>3 DEF beginsOnArrival

\* A call that arrives and begins nothing yet.
LEMMA ArrivesEffect ==
    ASSUME PaymentsAssumption, PaymentsInv, NEW c \in Calls, calls[c] = NoCall, UNCHANGED intentVars,
           NEW call, call.started = FALSE, becomes(c, call)
    PROVE  IntentEffect(c)
BY BecomesIs DEF IntentEffect, SameIntent, Keeps, intentVars, PaymentsInv, PaymentsTypeOK

LEMMA FeedEffect ==
    ASSUME PaymentsAssumption, PaymentsInv, NEW c \in Calls, FeedNext(c)
    PROVE  IntentEffect(c)
<1>1. \A stage \in Waiting : waits(c, stage) => inFlight(c) /\ calls[c].awaits = stage
    BY WaitingInFlight
<1>2. inFlight(c) => calls[c] \in Call /\ calls[c].intent \in Intents \cup {NoIntent}
    BY InFlightCall DEF PaymentsInv, PaymentsTypeOK, Call
<1>3. \A stage \in Waiting : inFlight(c) =>
          /\ [calls[c] EXCEPT !.awaits = stage] \in Call
          /\ [calls[c] EXCEPT !.awaits = stage].intent = calls[c].intent
          /\ [calls[c] EXCEPT !.awaits = stage].started = calls[c].started
    BY <1>2 DEF Call
<1>4. CASE feedFails(c) \/ invokePayRefused(c)
    BY <1>1, <1>4, InvokeFailsEffect DEF feedFails, invokePayRefused, Waiting
<1>5. CASE noData(c)
    BY <1>1, <1>5, RefusedEffect DEF noData, Waiting
<1>6. CASE feedForSession(c)
    <2>1. inFlight(c) /\ "pay" \in Waiting
        BY <1>1, <1>6 DEF feedForSession, Waiting
    <2>2. CASE /\ beginConsumerIntent(calls[c].intent)
               /\ becomes(c, [begun(calls[c]) EXCEPT !.awaits = "pay"])
        BY <2>1, <2>2, BeginsEffect
    <2>3. CASE conflict(calls[c].intent) /\ refused(c)
        BY <1>2, <2>1, <2>3, RefusedEffect
    <2> QED
        BY <1>6, <2>2, <2>3 DEF feedForSession
<1>7. CASE feedForAgent(c)
    <2>1. inFlight(c) /\ "trust" \in Waiting /\ "proof" \in Waiting
        BY <1>1, <1>7 DEF feedForAgent, Waiting
    <2>2. CASE refused(c) /\ (UNCHANGED intentVars \/ conflict(calls[c].intent))
        BY <1>2, <2>1, <2>2, RefusedEffect
    <2>3. CASE /\ beginConsumerIntent(calls[c].intent)
               /\ becomes(c, past(begun(calls[c]), "refused", NoRequest))
        BY <2>1, <2>3, BeginsEffect
    <2>4. ASSUME NEW stage \in {"trust", "proof"}, beginConsumerIntent(calls[c].intent),
                 becomes(c, [begun(calls[c]) EXCEPT !.awaits = stage])
          PROVE  IntentEffect(c)
        BY <2>1, <2>4, BeginsEffect
    <2> QED
        BY <1>7, <2>2, <2>3, <2>4 DEF feedForAgent
<1>8. CASE invokePayReads(c)
    <2>1. inFlight(c) /\ "userOp" \in Waiting
        BY <1>1, <1>8 DEF invokePayReads, Waiting
    <2>2. CASE moves(c, "userOp") /\ UNCHANGED intentVars
        BY <1>3, <2>1, <2>2, MovesEffect DEF moves
    <2> QED
        BY <1>8, <2>1, <2>2, InvokeFailsEffect DEF invokePayReads
<1>9. CASE invokePaySucceeds(c)
    <2>1. inFlight(c) /\ "proof" \in Waiting
        BY <1>1, <1>9 DEF invokePaySucceeds, Waiting
    <2> QED
        BY <1>3, <1>9, <2>1, MovesEffect DEF invokePaySucceeds, moves
<1>10. CASE invokePayUncertain(c)
    <2>1. inFlight(c) /\ "pay" \in Waiting
        BY <1>1, <1>10 DEF invokePayUncertain, Waiting
    <2>2. CASE moves(c, "pay") /\ UNCHANGED intentVars
        BY <1>3, <2>1, <2>2, MovesEffect DEF moves
    <2> QED
        BY <1>10, <2>1, <2>2, InvokeFailsEffect DEF invokePayUncertain
<1>11. CASE invokeProofVerified(c)
    <2>1. inFlight(c) /\ calls[c] \in Call
        BY <1>1, <1>2, <1>11 DEF invokeProofVerified, Waiting
    <2> DEFINE call == [calls[c] EXCEPT !.awaits = "trust", !.copy = "paid"]
    <2>2. call \in Call /\ call.intent = calls[c].intent /\ call.started = calls[c].started
        BY <2>1 DEF Call, Waiting, Status
    <2>3. becomes(c, call) /\ UNCHANGED intentVars
        BY <1>11 DEF invokeProofVerified, unlocks
    <2> HIDE DEF call
    <2> QED
        BY <2>1, <2>2, <2>3, MovesEffect
<1>12. CASE invokeProofRefused(c)
    <2>1. inFlight(c)
        BY <1>1, <1>12 DEF invokeProofRefused, Waiting
    <2> QED
        BY <1>12, <2>1, RefusedEffect, InvokeFailsEffect DEF invokeProofRefused
<1> QED
    BY <1>4, <1>5, <1>6, <1>7, <1>8, <1>9, <1>10, <1>11, <1>12 DEF FeedNext

LEMMA AnsweredEffect ==
    ASSUME PaymentsAssumption, PaymentsInv, MoneyEffect, NEW c \in Calls,
           AnsweredNext(c, delivered) \/ trustAnswers(c)
    PROVE  IntentEffect(c)
<1>1. \A stage \in Waiting : waits(c, stage) => inFlight(c) /\ calls[c].awaits = stage
    BY WaitingInFlight
<1>2. inFlight(c) => calls[c] \in Call /\ calls[c].intent \in Intents \cup {NoIntent}
    BY InFlightCall DEF PaymentsInv, PaymentsTypeOK, Call
<1>3. CASE taskAsksPayment(c)
    BY <1>1, <1>3, RefusedEffect DEF taskAsksPayment, Waiting
<1>4. CASE taskDelivers(c, delivered)
    <2>1. inFlight(c) /\ calls[c] \in Call
        BY <1>1, <1>2, <1>4 DEF taskDelivers, Waiting
    <2>2. calls[c].request \in RequestIds
        BY <1>4, DeliveredPaid DEF taskDelivers
    <2>3. table[calls[c].request] \in Status \cup {"none"} /\ calls[c].copy \in Status \cup {"none"}
        BY <2>1, <2>2 DEF PaymentsInv, PaymentsTypeOK, X402TypeOK, Table, Call
    <2>4. ASSUME NEW status \in Status \cup {"none"}, unlocks(c, status)
          PROVE  IntentEffect(c)
        <3> DEFINE call == [calls[c] EXCEPT !.awaits = "trust", !.copy = status]
        <3>1. call \in Call /\ call.intent = calls[c].intent /\ call.started = calls[c].started
            BY <2>1 DEF Call, Waiting
        <3>2. becomes(c, call) /\ UNCHANGED intentVars
            BY <1>4, <2>4 DEF taskDelivers, unlocks
        <3> HIDE DEF call
        <3> QED
            BY <2>1, <3>1, <3>2, MovesEffect
    <2> QED
        BY <1>4, <2>3, <2>4 DEF taskDelivers
<1>5. CASE taskErrs(c)
    <2>1. inFlight(c) /\ "workflow" \in Waiting
        BY <1>1, <1>5 DEF taskErrs, Waiting
    <2>2. CASE /\ beginConsumerIntent(calls[c].intent)
               /\ becomes(c, [begun(calls[c]) EXCEPT !.awaits = "workflow"])
        BY <2>1, <2>2, BeginsEffect
    <2>3. CASE conflict(calls[c].intent) /\ refused(c)
        BY <1>2, <2>1, <2>3, RefusedEffect
    <2> QED
        BY <1>5, <2>2, <2>3 DEF taskErrs
<1>6. CASE workflowDelivers(c, delivered)
    <2>1. inFlight(c)
        BY <1>1, <1>6 DEF workflowDelivers, Waiting
    <2>2. PICK q \in delivered : becomes(c, past(calls[c], "served", q))
        BY <1>6 DEF workflowDelivers
    <2>3. q \in RequestIds /\ q \in backedRequests'
        BY <2>2, DeliveredPaid DEF HonestAfter
    <2> QED
        BY <1>6, <2>1, <2>2, <2>3, FinalizesEffect DEF workflowDelivers, Ended, Outcome
<1>7. CASE workflowFailed(c)
    BY <1>1, <1>7, FinalizesEffect DEF workflowFailed, Waiting, Ended, Outcome
<1>8. CASE unanswered(c)
    BY <1>1, <1>8, InvokeFailsEffect DEF unanswered, Waiting
<1>9. CASE trustAnswers(c)
    <2>1. inFlight(c) /\ calls[c].awaits = "trust" /\ calls[c] \in Call
        BY <1>1, <1>2, <1>9 DEF trustAnswers, Waiting
    <2>2. calls[c].request \in backedRequests' /\ calls[c].request \in RequestIds \cup {NoRequest}
        BY <2>1, HeldHonest DEF HonestAfter, Call
    <2> QED
        BY <1>9, <2>1, <2>2, FinalizesEffect DEF trustAnswers, Ended, Outcome
<1> QED
    BY <1>3, <1>4, <1>5, <1>6, <1>7, <1>8, <1>9 DEF AnsweredNext

LEMMA BuyEffect ==
    ASSUME PaymentsAssumption, PaymentsInv, MoneyEffect, NEW c \in Calls, BuyNext(c)
    PROVE  IntentEffect(c)
<1>1. waits(c, "invoke") => inFlight(c)
    BY WaitingInFlight DEF Waiting
<1>2. CASE \E i \in Intents \cup {NoIntent} : buy(c, i)
    BY <1>2, BeginsOnArrivalEffect DEF buy
<1>3. CASE buyCompletes(c)
    <2>1. PICK d \in Calls : waits(d, "served") /\ becomes(c, past(calls[c], "bought", calls[d].request))
        BY <1>3 DEF buyCompletes
    <2>2. calls[d].request \in RequestIds /\ calls[d].request \in backedRequests'
        BY <2>1, LedgerGrows DEF PaymentsInv, PaymentsTypeOK, X402TypeOK, CallHonest, PaidFor
    <2> QED
        BY <1>1, <1>3, <2>1, <2>2, FinalizesEffect DEF buyCompletes, Ended, Outcome
<1>4. CASE buyFails(c)
    BY <1>1, <1>4, FinalizesEffect DEF buyFails, Ended, Outcome
<1> QED
    BY <1>2, <1>3, <1>4 DEF BuyNext

LEMMA CallEffect ==
    ASSUME PaymentsAssumption, PaymentsInv, NEW c \in Calls, CallStep(c)
    PROVE  IntentEffect(c)
<1>1. MoneyEffect
    BY CallMoney
<1>2. ASSUME arrive(c)
      PROVE  IntentEffect(c)
    <2>1. ASSUME NEW i \in Intents \cup {NoIntent}, NEW supplied \in Supplied,
                 NEW mode \in {"session", "agent"}, feedCall(c, mode, i, supplied)
          PROVE  IntentEffect(c)
        <3>1. PICK q \in RequestIds :
                  becomes(c, arriving(mode, i, supplied, q,
                                      IF table[q] = "paid" THEN "paid" ELSE "pending", "feed"))
            BY <2>1 DEF feedCall
        <3> QED
            BY <2>1, <3>1, ArrivesEffect DEF feedCall, arriving
    <2>2. ASSUME NEW i \in Intents \cup {NoIntent}, NEW supplied \in Supplied,
                 taskCall(c, i, supplied)
          PROVE  IntentEffect(c)
        <3>1. PICK q \in RequestIds \cup {NoRequest} :
                  becomes(c, arriving("task", i, supplied, q,
                                      IF q = NoRequest THEN "none" ELSE table[q], "task"))
            BY <2>2 DEF taskCall
        <3> QED
            BY <2>2, <3>1, ArrivesEffect DEF taskCall, arriving, x402Vars
    <2>3. ASSUME NEW i \in Intents \cup {NoIntent}, workflowCall(c, i)
          PROVE  IntentEffect(c)
        BY <2>3, BeginsOnArrivalEffect DEF workflowCall
    <2> QED
        BY <1>2, <2>1, <2>2, <2>3 DEF arrive
<1> QED
    BY <1>1, <1>2, FeedEffect, AnsweredEffect, BuyEffect DEF CallStep

-----------------------------------------------------------------------------
\* What the intent operations do to the rows

LEMMA Compacted ==
    ASSUME NEW rows \in [Intents -> Row \cup {NoRow}]
    PROVE  /\ compactConsumerIntentRows(rows) \in [Intents -> Row \cup {NoRow}]
           /\ \A i \in Intents :
                /\ compactConsumerIntentRows(rows)[i] \in {rows[i], NoRow}
                /\ rows[i] # NoRow /\ kept(rows[i]) <=>
                   compactConsumerIntentRows(rows)[i] = rows[i] /\ rows[i] # NoRow
BY DEF compactConsumerIntentRows

\* A row that compaction must keep is kept by every operation, unless a call
\* that is given the intent of a free row writes it anew.
RowsKept ==
    \A i \in Intents :
        intents[i] # NoRow /\ kept(intents[i]) => intents'[i] # NoRow /\ kept(intents'[i])

LEMMA ChangedRow ==
    ASSUME IntentsAssumption, IntentsTypeOK, NEW i \in Intents,
           NEW status \in Outcome \cup {"in_progress"}, changed(i, status)
    PROVE  /\ intents' \in [Intents -> Row \cup {NoRow}]
           /\ RowsKept
           /\ intents'[i] # NoRow /\ kept(intents'[i]) /\ intents'[i].status = status
           /\ \A j \in Intents \ {i} : intents'[j] \in {intents[j], NoRow}
<1> DEFINE row == [status |-> status, age |-> "recent"]
<1>1. row \in Row /\ row # NoRow /\ kept(row) /\ row.status = status
    BY DEF Row, IntentsAssumption, kept
<1>2. intents \in [Intents -> Row \cup {NoRow}]
    BY DEF IntentsTypeOK
<1>3. compactConsumerIntentRows(intents) \in [Intents -> Row \cup {NoRow}]
    BY <1>2, Compacted
<1>4. intents' = [compactConsumerIntentRows(intents) EXCEPT ![i] = row]
    BY DEF changed
<1> HIDE DEF row
<1>5. intents' \in [Intents -> Row \cup {NoRow}] /\ intents'[i] = row
    BY <1>1, <1>3, <1>4
<1>6. \A j \in Intents \ {i} : intents'[j] = compactConsumerIntentRows(intents)[j]
    BY <1>3, <1>4
<1>7. \A j \in Intents \ {i} : intents'[j] \in {intents[j], NoRow}
    BY <1>2, <1>6, Compacted
<1>8. RowsKept
    BY <1>1, <1>2, <1>5, <1>6, Compacted DEF RowsKept
<1> QED
    BY <1>1, <1>5, <1>7, <1>8

LEMMA CompactedRow ==
    ASSUME IntentsTypeOK, readCompactedConsumerIntents
    PROVE  /\ intents' \in [Intents -> Row \cup {NoRow}]
           /\ RowsKept
           /\ \A j \in Intents : intents'[j] \in {intents[j], NoRow}
BY Compacted DEF IntentsTypeOK, readCompactedConsumerIntents, RowsKept

LEMMA FinalizedRow ==
    ASSUME IntentsAssumption, IntentsTypeOK, NEW i \in Intents \cup {NoIntent},
           NEW status \in Outcome, finalizeConsumerIntent(i, status)
    PROVE  /\ intents' \in [Intents -> Row \cup {NoRow}]
           /\ RowsKept
           /\ \A j \in Intents \ {i} : intents'[j] \in {intents[j], NoRow}
           /\ i \in Intents => intents'[i] = NoRow \/ intents'[i].status = status
           /\ forgettable' = forgettable
<1>1. CASE i = NoIntent
    BY <1>1 DEF finalizeConsumerIntent, RowsKept, IntentsTypeOK, IntentsAssumption
<1>2. CASE i \in Intents /\ compactConsumerIntentRows(intents)[i] = NoRow
    <2>1. readCompactedConsumerIntents /\ forgettable' = forgettable
        BY <1>2 DEF finalizeConsumerIntent, IntentsAssumption
    <2>2. intents'[i] = NoRow
        BY <1>2, <2>1 DEF readCompactedConsumerIntents
    <2> QED
        BY <2>1, <2>2, CompactedRow
<1>3. CASE i \in Intents /\ compactConsumerIntentRows(intents)[i] # NoRow
    BY <1>3, ChangedRow DEF finalizeConsumerIntent, IntentsAssumption
<1> QED
    BY <1>1, <1>2, <1>3

\* A row can be begun only where none had to be kept.
LEMMA BegunRow ==
    ASSUME IntentsAssumption, IntentsTypeOK, NEW i \in Intents \cup {NoIntent},
           beginConsumerIntent(i)
    PROVE  /\ intents' \in [Intents -> Row \cup {NoRow}]
           /\ RowsKept
           /\ \A j \in Intents \ {i} : intents'[j] \in {intents[j], NoRow}
           /\ i \in Intents => /\ intents[i] = NoRow \/ ~kept(intents[i])
                              /\ intents'[i] # NoRow /\ kept(intents'[i])
                              /\ intents'[i].status = "in_progress"
           /\ forgettable' = forgettable
<1>1. CASE i = NoIntent
    BY <1>1 DEF beginConsumerIntent, RowsKept, IntentsTypeOK, IntentsAssumption
<1>2. CASE i \in Intents
    <2>1. changed(i, "in_progress") /\ forgettable' = forgettable
        BY <1>2 DEF beginConsumerIntent, IntentsAssumption
    <2>2. intents[i] = NoRow \/ ~kept(intents[i])
        BY <1>2, Compacted DEF beginConsumerIntent, free, IntentsTypeOK
    <2> QED
        BY <1>2, <2>1, <2>2, ChangedRow
<1> QED
    BY <1>1, <1>2

-----------------------------------------------------------------------------
\* Intents across a step

LEMMA EffectRows ==
    ASSUME PaymentsAssumption, PaymentsInv, NEW c \in Calls, IntentEffect(c)
    PROVE  /\ intents' \in [Intents -> Row \cup {NoRow}]
           /\ forgettable' = forgettable
           /\ RowsKept
           /\ \A i \in Intents :
                \/ intents'[i] \in {intents[i], NoRow}
                \/ Begins(c) /\ i = calls'[c].intent
                \/ Finalizes(c) /\ i = calls[c].intent
<1>1. IntentsTypeOK /\ IntentsAssumption
    BY DEF PaymentsAssumption, PaymentsInv, PaymentsTypeOK
<1>2. CASE Keeps(c)
    BY <1>1, <1>2, CompactedRow DEF Keeps, RowsKept, IntentsTypeOK
<1>3. CASE Begins(c)
    BY <1>1, <1>3, BegunRow DEF Begins
<1>4. CASE Finalizes(c)
    <2>1. calls[c].intent \in Intents \cup {NoIntent}
        BY <1>4, InFlightCall DEF Finalizes, PaymentsInv, PaymentsTypeOK, Call
    <2> QED
        BY <1>1, <1>4, <2>1, FinalizedRow DEF Finalizes
<1> QED
    BY <1>2, <1>3, <1>4 DEF IntentEffect

LEMMA ClaimedStep ==
    ASSUME PaymentsAssumption, IntentsInv, NEW c \in Calls, IntentEffect(c),
           NEW d \in Calls, d = c \/ calls'[d] = calls[d]
    PROVE  Claimed(d)'
<1>1. PaymentsInv /\ Claimed(d) /\ IntentsTypeOK /\ IntentsAssumption
    BY DEF IntentsInv, PaymentsInv, PaymentsTypeOK, PaymentsAssumption
<1>2. RowsKept /\ forgettable' = forgettable
    BY <1>1, EffectRows
<1>3. CASE calls'[d] = calls[d]
    BY <1>1, <1>2, <1>3 DEF Claimed, RowsKept
<1>4. CASE d = c /\ calls[c] # NoCall /\ calls[c].started
    <2>1. calls'[c].intent = calls[c].intent
        BY <1>4 DEF IntentEffect, SameIntent
    <2> QED
        BY <1>1, <1>2, <1>4, <2>1 DEF Claimed, RowsKept
<1>5. CASE d = c /\ ~(calls[c] # NoCall /\ calls[c].started)
    <2>1. CASE Keeps(c)
        BY <1>5, <2>1 DEF Keeps, Claimed
    <2>2. CASE Begins(c)
        BY <1>1, <1>5, <2>2, BegunRow DEF Begins, Claimed
    <2>3. CASE Finalizes(c)
        BY <1>5, <2>3 DEF Finalizes, inFlight, Claimed
    <2> QED
        BY <2>1, <2>2, <2>3 DEF IntentEffect
<1> QED
    BY <1>3, <1>4, <1>5

LEMMA OneExecutionStep ==
    ASSUME PaymentsAssumption, IntentsInv, NEW c \in Calls, IntentEffect(c),
           \A d \in Calls \ {c} : calls'[d] = calls[d]
    PROVE  OneExecution'
<1>1. /\ PaymentsInv /\ OneExecution /\ IntentsTypeOK /\ IntentsAssumption
      /\ \A d \in Calls : Claimed(d)
    BY DEF IntentsInv, PaymentsInv, PaymentsTypeOK, PaymentsAssumption
<1>2. forgettable' = forgettable
    BY <1>1, EffectRows
<1>3. ASSUME NEW d \in Calls \ {c}, calls[d] # NoCall, calls[d].started,
             calls'[c] # NoCall, calls'[c].started, calls'[c].intent = calls[d].intent
      PROVE  calls[d].intent \in forgettable
    <2>1. CASE calls[c] # NoCall /\ calls[c].started
        <3>1. calls[c].intent = calls[d].intent
            BY <1>3, <2>1 DEF IntentEffect, SameIntent
        <3> QED
            BY <1>1, <1>3, <2>1, <3>1 DEF OneExecution
    <2>2. CASE ~(calls[c] # NoCall /\ calls[c].started)
        <3>1. Begins(c)
            BY <1>3, <2>2 DEF IntentEffect, Keeps, Finalizes, inFlight
        <3>2. calls[d].intent \in Intents
            BY <1>1, <1>3 DEF Claimed
        <3>3. intents[calls[d].intent] = NoRow \/ ~kept(intents[calls[d].intent])
            BY <1>1, <1>3, <3>1, <3>2, BegunRow DEF Begins
        <3> QED
            BY <1>1, <1>3, <3>3 DEF Claimed
    <2> QED
        BY <2>1, <2>2
<1> QED
    BY <1>1, <1>2, <1>3 DEF OneExecution

LEMMA StuckStep ==
    ASSUME PaymentsAssumption, IntentsInv, NEW c \in Calls, IntentEffect(c),
           \A d \in Calls \ {c} : calls'[d] = calls[d]
    PROVE  StuckExplained'
<1>1. PaymentsInv /\ StuckExplained /\ IntentsTypeOK /\ IntentsAssumption
    BY DEF IntentsInv, PaymentsInv, PaymentsTypeOK, PaymentsAssumption
<1> SUFFICES ASSUME NEW i \in Intents, intents'[i] # NoRow, intents'[i].status = "in_progress"
             PROVE  \E d \in Calls : /\ calls'[d] # NoCall /\ calls'[d].intent = i
                                     /\ calls'[d].started
                                     /\ calls'[d].awaits \in Waiting \cup {"refused", "left"}
    BY DEF StuckExplained
<1>2. CASE Begins(c) /\ i = calls'[c].intent
    BY <1>1, <1>2 DEF Begins, IntentsAssumption
<1>3. CASE Finalizes(c) /\ i = calls[c].intent
    <2>1. PICK status \in Outcome : finalizeConsumerIntent(i, status)
        BY <1>3 DEF Finalizes
    <2>2. intents'[i].status = status
        BY <1>1, <2>1, FinalizedRow
    <2> QED
        BY <2>1, <2>2 DEF Outcome
<1>4. CASE ~(Begins(c) /\ i = calls'[c].intent) /\ ~(Finalizes(c) /\ i = calls[c].intent)
    <2>1. intents'[i] = intents[i]
        BY <1>1, <1>4, EffectRows
    <2>2. PICK d \in Calls : /\ calls[d] # NoCall /\ calls[d].intent = i /\ calls[d].started
                             /\ calls[d].awaits \in Waiting \cup {"refused", "left"}
        BY <1>1, <2>1 DEF StuckExplained
    <2>3. CASE d # c
        BY <2>2, <2>3
    <2>4. CASE d = c
        <3>1. calls'[c] # NoCall /\ calls'[c].intent = i
            BY <2>2, <2>4 DEF IntentEffect, SameIntent
        <3>2. Keeps(c)
            BY <1>4, <2>2, <2>4, <3>1 DEF IntentEffect
        <3> QED
            BY <2>2, <2>4, <3>1, <3>2 DEF Keeps
    <2> QED
        BY <2>3, <2>4
<1> QED
    BY <1>2, <1>3, <1>4

\* A call that was served stays as it is.
LEMMA ServedStays ==
    ASSUME PaymentsInv, MoneyEffect, NEW d \in Calls, waits(d, "served") \/ waits(d, "bought"),
           calls'[d] = calls[d]
    PROVE  /\ (waits(d, "served") \/ waits(d, "bought"))'
           /\ calls'[d].intent = calls[d].intent
           /\ calls'[d].request \in backedRequests'
BY LedgerGrows DEF PaymentsInv, PaymentsTypeOK, X402TypeOK, CallHonest, PaidFor, waits

LEMMA CompletedStep ==
    ASSUME PaymentsAssumption, IntentsInv, MoneyEffect, NEW c \in Calls, IntentEffect(c),
           \A d \in Calls \ {c} : calls'[d] = calls[d]
    PROVE  CompletedServed'
<1>1. PaymentsInv /\ CompletedServed /\ IntentsTypeOK /\ IntentsAssumption
    BY DEF IntentsInv, PaymentsInv, PaymentsTypeOK, PaymentsAssumption
<1> SUFFICES ASSUME NEW i \in Intents, intents'[i] # NoRow, intents'[i].status = "completed"
             PROVE  \E d \in Calls : /\ (waits(d, "served") \/ waits(d, "bought"))'
                                     /\ calls'[d].intent = i
                                     /\ calls'[d].request \in backedRequests'
    BY DEF CompletedServed
<1>2. CASE Begins(c) /\ i = calls'[c].intent
    <2>1. intents'[i].status = "in_progress"
        BY <1>1, <1>2, BegunRow DEF Begins
    <2> QED
        BY <2>1
<1>3. CASE Finalizes(c) /\ i = calls[c].intent
    <2>1. PICK status \in Outcome :
            /\ finalizeConsumerIntent(i, status)
            /\ status = "completed" => /\ calls'[c].awaits \in {"served", "bought"}
                                      /\ calls'[c].request \in backedRequests'
        BY <1>3 DEF Finalizes
    <2>2. intents'[i].status = status
        BY <1>1, <2>1, FinalizedRow
    <2>3. calls'[c] # NoCall /\ calls'[c].intent = i
        BY <1>3 DEF Finalizes, inFlight, IntentEffect, SameIntent
    <2> QED
        BY <2>1, <2>2, <2>3 DEF waits
<1>4. CASE ~(Begins(c) /\ i = calls'[c].intent) /\ ~(Finalizes(c) /\ i = calls[c].intent)
    <2>1. intents'[i] = intents[i]
        BY <1>1, <1>4, EffectRows
    <2>2. PICK d \in Calls : (waits(d, "served") \/ waits(d, "bought")) /\ calls[d].intent = i
        BY <1>1, <2>1 DEF CompletedServed
    <2>3. d # c
        BY <2>2 DEF IntentEffect, SameIntent, waits, inFlight, Waiting
    <2> QED
        BY <1>1, <2>2, <2>3, ServedStays
<1> QED
    BY <1>2, <1>3, <1>4

-----------------------------------------------------------------------------
\* The whole step

\* Who does not take part in a step still speaks the truth after it.
LEMMA OthersHonest ==
    ASSUME PaymentsInv, MoneyEffect
    PROVE  /\ \A t \in Tasks : tasks'[t] = tasks[t] => TaskHonest(t)'
           /\ \A c \in Calls : calls'[c] = calls[c] => CallHonest(c)'
           /\ delivered' = delivered => \A q \in delivered' : PaidFor(q)'
<1>1. X402TypeOK /\ issued \subseteq RequestIds
    BY DEF PaymentsInv, PaymentsTypeOK, X402TypeOK
<1>2. ASSUME NEW t \in Tasks, tasks'[t] = tasks[t]
      PROVE  TaskHonest(t)'
    BY <1>1, <1>2, LedgerGrows DEF PaymentsInv, TaskHonest, RowHonest
<1>3. ASSUME NEW c \in Calls, calls'[c] = calls[c]
      PROVE  CallHonest(c)'
    BY <1>1, <1>3, LedgerGrows DEF PaymentsInv, CallHonest, inFlight, waits, RowHonest, PaidFor
<1> QED
    BY <1>2, <1>3, HonestTableLasts

\* The parts of a step put together.
LEMMA InvFromParts ==
    ASSUME PaymentsAssumption, PaymentsInv, MoneyEffect, TableGood, IntentsTypeOK',
           tasks' \in [Tasks -> Task \cup {NoTask}], delivered' \subseteq RequestIds,
           \A q \in delivered' : PaidFor(q)',
           \A t \in Tasks : TaskHonest(t)',
           calls' \in [Calls -> Call \cup Past \cup {NoCall}],
           \A c \in Calls : CallHonest(c)'
    PROVE  PaymentsInv'
<1>1. X402TypeOK' /\ Bounded'
    BY MoneyTyped DEF PaymentsAssumption, PaymentsInv, PaymentsTypeOK, X402TypeOK, TableGood
<1>2. TasksTypeOK' /\ CallsTypeOK'
    BY DEF TasksTypeOK, CallsTypeOK
<1>3. TableHonest'
    BY DEF TableGood, TableHonest
<1> QED
    BY <1>1, <1>2, <1>3 DEF PaymentsInv, PaymentsTypeOK

LEMMA TaskStepInv ==
    ASSUME PaymentsAssumption, PaymentsInv, NEW t \in Tasks, TaskStep(t)
    PROVE  PaymentsInv'
<1>1. MoneyEffect /\ TaskGood(t)
    BY TaskMoney, TaskStepGood
<1>2. UNCHANGED <<calls, intentVars, authorityVars>>
    BY DEF TaskStep, callVars
<1>3. IntentsTypeOK' /\ calls' \in [Calls -> Call \cup Past \cup {NoCall}]
    BY <1>2 DEF intentVars, authorityVars, PaymentsInv, PaymentsTypeOK, IntentsTypeOK, CallsTypeOK
<1>4. \A c \in Calls : CallHonest(c)'
    BY <1>1, <1>2, OthersHonest
<1>5. \A s \in Tasks : TaskHonest(s)'
    BY <1>1, OthersHonest DEF TaskGood
<1>6. TableGood /\ \A q \in delivered' : PaidFor(q)'
    BY <1>1 DEF TaskGood, TableGood, TableHonest
<1> QED
    BY <1>1, <1>3, <1>4, <1>5, <1>6, InvFromParts DEF TaskGood

LEMMA CallStepInv ==
    ASSUME PaymentsAssumption, PaymentsInv, NEW c \in Calls, CallStep(c)
    PROVE  PaymentsInv'
<1>1. MoneyEffect /\ TableGood /\ CallGood(c) /\ IntentEffect(c)
    BY CallMoney, CallStepGood, CallEffect
<1>2. UNCHANGED <<tasks, delivered, authorityVars>>
    BY DEF CallStep, taskVars
<1>3. IntentsTypeOK'
    BY <1>1, <1>2, EffectRows DEF authorityVars, PaymentsInv, PaymentsTypeOK, IntentsTypeOK
<1>4. tasks' \in [Tasks -> Task \cup {NoTask}] /\ delivered' \subseteq RequestIds
    BY <1>2 DEF PaymentsInv, PaymentsTypeOK, TasksTypeOK
<1>5. (\A t \in Tasks : TaskHonest(t)') /\ \A q \in delivered' : PaidFor(q)'
    BY <1>1, <1>2, OthersHonest
<1>6. \A d \in Calls : CallHonest(d)'
    BY <1>1, OthersHonest DEF CallGood
<1> QED
    BY <1>1, <1>3, <1>4, <1>5, <1>6, InvFromParts DEF CallGood

LEMMA RequestStepInv ==
    ASSUME PaymentsAssumption, PaymentsInv, RequestStep
    PROVE  PaymentsInv'
<1>1. MoneyEffect /\ UNCHANGED <<taskVars, callVars>>
    BY MoneyStep DEF RequestStep, Next
<1>2. TableGood
    <2>1. CASE UNCHANGED table
        BY <1>1, <2>1, TableUnchangedGood
    <2>2. ASSUME NEW cleaned \in SUBSET RequestIds, expireStaleX402PendingRequests(cleaned)
          PROVE  TableGood
        <3>1. table' = [q \in RequestIds |-> IF q \in cleaned THEN "expired" ELSE table[q]]
            BY <2>2 DEF expireStaleX402PendingRequests, writeX402Requests
        <3>2. table \in Table /\ \A q \in cleaned : q \in issued'
            BY <1>1, <2>2, LedgerGrows DEF expireStaleX402PendingRequests, stalePending,
                   PaymentsInv, PaymentsTypeOK, X402TypeOK
        <3>3. table' \in Table
            BY <3>1, <3>2 DEF Table, Status
        <3>4. ASSUME NEW q \in RequestIds
              PROVE  RowHonest(q, table[q])'
            BY <1>1, <3>1, <3>2, HonestTableLasts DEF RowHonest
        <3> QED
            BY <3>3, <3>4 DEF TableGood
    <2> QED
        BY <2>1, <2>2 DEF RequestStep, X402Environment, ttlPasses, userOpMined, userOpDropped, agentPays
<1>3. /\ tasks' \in [Tasks -> Task \cup {NoTask}] /\ delivered' \subseteq RequestIds
      /\ calls' \in [Calls -> Call \cup Past \cup {NoCall}] /\ IntentsTypeOK'
    BY <1>1 DEF taskVars, callVars, intentVars, authorityVars, PaymentsInv, PaymentsTypeOK,
           TasksTypeOK, IntentsTypeOK, CallsTypeOK
<1>4. /\ \A t \in Tasks : TaskHonest(t)'
      /\ \A c \in Calls : CallHonest(c)'
      /\ \A q \in delivered' : PaidFor(q)'
    BY <1>1, OthersHonest DEF taskVars, callVars
<1> QED
    BY <1>1, <1>2, <1>3, <1>4, InvFromParts

\* Rows that only aged.
Aged ==
    /\ forgettable \subseteq forgettable'
    /\ \A i \in Intents :
        /\ intents[i] = NoRow => intents'[i] = NoRow
        /\ intents[i] # NoRow =>
            /\ intents'[i] # NoRow
            /\ intents'[i].status = intents[i].status
            /\ kept(intents[i]) => kept(intents'[i]) \/ i \in forgettable'

LEMMA AgedRows ==
    ASSUME IntentsAssumption, IntentsTypeOK, NEW i \in Intents, retentionPasses(i) \/ crowds(i)
    PROVE  Aged /\ (UNCHANGED authorityVars => IntentsTypeOK')
<1>1. intents \in [Intents -> Row \cup {NoRow}] /\ intents[i] \in Row
    BY DEF IntentsTypeOK, retentionPasses, crowds
<1>2. PICK age \in {"retired", "crowded"} :
        /\ intents' = [intents EXCEPT ![i].age = age]
        /\ age = "retired" => retentionPasses(i)
        /\ age = "crowded" => crowds(i)
    BY DEF retentionPasses, crowds
<1> DEFINE row == [intents[i] EXCEPT !.age = age]
<1>3. row \in Row /\ row # NoRow /\ row.status = intents[i].status /\ row.age = age
    BY <1>1 DEF Row, IntentsAssumption
<1>4. intents' = [intents EXCEPT ![i] = row]
    BY <1>2
<1> HIDE DEF row
<1>5. intents' \in [Intents -> Row \cup {NoRow}] /\ intents'[i] = row
    BY <1>1, <1>3, <1>4
<1>6. forgettable \subseteq forgettable' /\ forgettable' \subseteq Intents
    BY <1>2 DEF retentionPasses, crowds, IntentsTypeOK
<1>7. kept(row) \/ i \in forgettable'
    BY <1>2, <1>3 DEF kept, terminal, retentionPasses, crowds
<1>8. UNCHANGED authorityVars => IntentsTypeOK'
    BY <1>5, <1>6 DEF IntentsTypeOK, authorityVars
<1>9. Aged
    BY <1>1, <1>3, <1>4, <1>5, <1>6, <1>7 DEF Aged
<1> QED
    BY <1>8, <1>9

\* Steps that touch neither requests nor handlers nor the calls.
LEMMA QuietInv ==
    ASSUME PaymentsAssumption, PaymentsInv, UNCHANGED <<x402Vars, taskVars, calls>>, IntentsTypeOK'
    PROVE  PaymentsInv'
<1>1. MoneyEffect /\ UNCHANGED <<table, tasks, delivered, calls>>
    BY DEF MoneyEffect, x402Vars, taskVars
<1>2. TableGood
    BY <1>1, TableUnchangedGood
<1>3. /\ tasks' \in [Tasks -> Task \cup {NoTask}] /\ delivered' \subseteq RequestIds
      /\ calls' \in [Calls -> Call \cup Past \cup {NoCall}]
    BY <1>1 DEF PaymentsInv, PaymentsTypeOK, TasksTypeOK, CallsTypeOK
<1>4. /\ \A t \in Tasks : TaskHonest(t)'
      /\ \A c \in Calls : CallHonest(c)'
      /\ \A q \in delivered' : PaidFor(q)'
    BY <1>1, OthersHonest
<1> QED
    BY <1>1, <1>2, <1>3, <1>4, InvFromParts

\* After a crash every handler is gone, and calls are what they were, or cut off.
LEMMA CrashedCalls ==
    ASSUME PaymentsAssumption, PaymentsInv, Crash
    PROVE  /\ calls' \in [Calls -> Call \cup Past \cup {NoCall}]
           /\ \A c \in Calls :
                \/ calls'[c] = calls[c] /\ ~inFlight(c)
                \/ /\ inFlight(c) /\ calls'[c] # NoCall /\ calls'[c].awaits = "left"
                   /\ calls'[c].intent = calls[c].intent /\ calls'[c].started = calls[c].started
<1>1. calls' = [c \in Calls |-> IF inFlight(c) THEN past(calls[c], "left", NoRequest) ELSE calls[c]]
    BY DEF Crash, callsLost
<1>2. ASSUME NEW c \in Calls, inFlight(c)
      PROVE  past(calls[c], "left", NoRequest) \in Past /\ past(calls[c], "left", NoRequest) # NoCall
    BY <1>2, InFlightCall, PastTyped
       DEF PaymentsInv, PaymentsTypeOK, Call, Ended, PaymentsAssumption, CallsAssumption
<1>3. calls \in [Calls -> Call \cup Past \cup {NoCall}]
    BY DEF PaymentsInv, PaymentsTypeOK, CallsTypeOK
<1>4. calls' \in [Calls -> Call \cup Past \cup {NoCall}]
    BY <1>1, <1>2, <1>3
<1> QED
    BY <1>1, <1>2, <1>4 DEF past

LEMMA CrashInv ==
    ASSUME PaymentsAssumption, PaymentsInv, Crash
    PROVE  PaymentsInv'
<1>1. UNCHANGED <<x402Vars, delivered, intentVars, authorityVars>>
    BY CrashMoney
<1>2. MoneyEffect /\ TableGood
    <2>1. MoneyEffect
        BY <1>1 DEF MoneyEffect, x402Vars
    <2> QED
        BY <1>1, <2>1, TableUnchangedGood DEF x402Vars
<1>3. \A t \in Tasks : tasks'[t] = NoTask
    BY DEF Crash, unguardedServiceFails, tasksLost
<1>4. tasks' \in [Tasks -> Task \cup {NoTask}] /\ \A t \in Tasks : TaskHonest(t)'
    BY <1>3 DEF Crash, unguardedServiceFails, tasksLost, TaskHonest
<1>5. delivered' \subseteq RequestIds /\ IntentsTypeOK' /\ \A q \in delivered' : PaidFor(q)'
    BY <1>1, <1>2, OthersHonest DEF intentVars, authorityVars, PaymentsInv, PaymentsTypeOK,
           TasksTypeOK, IntentsTypeOK
<1>6. ASSUME NEW c \in Calls
      PROVE  CallHonest(c)'
    <2>1. CASE calls'[c] = calls[c]
        BY <1>2, <2>1, OthersHonest
    <2>2. CASE calls'[c].awaits = "left"
        BY <2>2 DEF CallHonest, inFlight, waits, Waiting
    <2> QED
        BY <2>1, <2>2, CrashedCalls
<1> QED
    BY <1>2, <1>4, <1>5, <1>6, CrashedCalls, InvFromParts

-----------------------------------------------------------------------------
\* Every step keeps the intents' part

\* Calls that only were cut off.
CutOff(c) ==
    /\ inFlight(c)
    /\ calls'[c] # NoCall
    /\ calls'[c].awaits = "left"
    /\ calls'[c].intent = calls[c].intent
    /\ calls'[c].started = calls[c].started

LEMMA SameRows ==
    ASSUME UNCHANGED intentVars
    PROVE  Aged
BY DEF Aged, intentVars

LEMMA IdleStep ==
    ASSUME IntentsInv, MoneyEffect, Aged, \A c \in Calls : calls'[c] = calls[c] \/ CutOff(c)
    PROVE  /\ \A c \in Calls : Claimed(c)'
           /\ OneExecution' /\ StuckExplained' /\ CompletedServed'
<1>1. X402TypeOK /\ \A q \in delivered : PaidFor(q)
    BY DEF IntentsInv, PaymentsInv, PaymentsTypeOK, TableHonest
<1>2. ASSUME NEW c \in Calls
      PROVE  Claimed(c)'
    <2>1. calls'[c] # NoCall /\ calls'[c].started =>
              /\ calls[c] # NoCall /\ calls[c].started
              /\ calls'[c].intent = calls[c].intent
        BY DEF CutOff, inFlight
    <2> QED
        BY <2>1 DEF IntentsInv, Claimed, Aged
<1>3. OneExecution'
    <2> SUFFICES ASSUME NEW c \in Calls, NEW d \in Calls, c # d,
                        calls'[c] # NoCall, calls'[d] # NoCall,
                        calls'[c].started, calls'[d].started, calls'[c].intent = calls'[d].intent
                 PROVE  calls'[c].intent \in forgettable'
        BY DEF OneExecution
    <2>1. /\ calls[c] # NoCall /\ calls[c].started
          /\ calls'[c].intent = calls[c].intent
        BY DEF CutOff, inFlight
    <2>2. /\ calls[d] # NoCall /\ calls[d].started
          /\ calls'[d].intent = calls[d].intent
        BY DEF CutOff, inFlight
    <2>3. calls[c].intent \in forgettable
        BY <2>1, <2>2 DEF IntentsInv, OneExecution
    <2> QED
        BY <2>1, <2>3 DEF Aged
<1>4. StuckExplained'
    <2> SUFFICES ASSUME NEW i \in Intents, intents'[i] # NoRow, intents'[i].status = "in_progress"
                 PROVE  \E c \in Calls : /\ calls'[c] # NoCall /\ calls'[c].intent = i
                                         /\ calls'[c].started
                                         /\ calls'[c].awaits \in Waiting \cup {"refused", "left"}
        BY DEF StuckExplained
    <2>1. intents[i] # NoRow /\ intents[i].status = "in_progress"
        BY DEF Aged
    <2>2. PICK c \in Calls : /\ calls[c] # NoCall /\ calls[c].intent = i /\ calls[c].started
                             /\ calls[c].awaits \in Waiting \cup {"refused", "left"}
        BY <2>1 DEF IntentsInv, StuckExplained
    <2>3. CASE calls'[c] = calls[c]
        BY <2>2, <2>3
    <2>4. CASE CutOff(c)
        BY <2>2, <2>4 DEF CutOff
    <2> QED
        BY <2>3, <2>4
<1>5. CompletedServed'
    <2> SUFFICES ASSUME NEW i \in Intents, intents'[i] # NoRow, intents'[i].status = "completed"
                 PROVE  \E c \in Calls : /\ (waits(c, "served") \/ waits(c, "bought"))'
                                         /\ calls'[c].intent = i
                                         /\ calls'[c].request \in backedRequests'
        BY DEF CompletedServed
    <2>1. intents[i] # NoRow /\ intents[i].status = "completed"
        BY DEF Aged
    <2>2. PICK c \in Calls : /\ waits(c, "served") \/ waits(c, "bought")
                             /\ calls[c].intent = i
                             /\ calls[c].request \in backedRequests
        BY <2>1 DEF IntentsInv, CompletedServed
    <2>3. calls'[c] = calls[c]
        BY <2>2 DEF CutOff, inFlight, waits, Waiting
    <2>4. calls[c].request \in RequestIds
        BY <1>1, <2>2 DEF IntentsInv, PaymentsInv, CallHonest, PaidFor, X402TypeOK
    <2> QED
        BY <1>1, <2>2, <2>3, <2>4, LedgerGrows DEF waits
<1> QED
    BY <1>2, <1>3, <1>4, <1>5

LEMMA CallStepIntents ==
    ASSUME PaymentsAssumption, IntentsInv, NEW c \in Calls, CallStep(c)
    PROVE  IntentsInv'
<1>1. PaymentsInv /\ MoneyEffect /\ IntentEffect(c)
    BY CallMoney, CallEffect DEF IntentsInv
<1>2. PaymentsInv'
    BY <1>1, CallStepInv
<1>3. \A d \in Calls \ {c} : calls'[d] = calls[d]
    BY <1>1, CallStepGood DEF CallGood
<1>4. ASSUME NEW d \in Calls
      PROVE  Claimed(d)'
    BY <1>1, <1>3, ClaimedStep
<1>5. OneExecution' /\ StuckExplained' /\ CompletedServed'
    BY <1>1, <1>3, OneExecutionStep, StuckStep, CompletedStep
<1>6. revoked' => authority'.revokedAt
    BY DEF CallStep, authorityVars, IntentsInv
<1> QED
    BY <1>2, <1>4, <1>5, <1>6 DEF IntentsInv

LEMMA TaskStepIntents ==
    ASSUME PaymentsAssumption, IntentsInv, NEW t \in Tasks, TaskStep(t)
    PROVE  IntentsInv'
<1>1. PaymentsInv /\ MoneyEffect
    BY TaskMoney DEF IntentsInv
<1>2. PaymentsInv'
    BY <1>1, TaskStepInv
<1>3. UNCHANGED <<calls, intentVars, authorityVars>>
    BY DEF TaskStep, callVars
<1>4. /\ \A c \in Calls : Claimed(c)'
      /\ OneExecution' /\ StuckExplained' /\ CompletedServed'
    BY <1>1, <1>3, SameRows, IdleStep
<1>5. revoked' => authority'.revokedAt
    BY <1>3 DEF authorityVars, IntentsInv
<1> QED
    BY <1>2, <1>4, <1>5 DEF IntentsInv

LEMMA RequestStepIntents ==
    ASSUME PaymentsAssumption, IntentsInv, RequestStep
    PROVE  IntentsInv'
<1>1. PaymentsInv
    BY DEF IntentsInv
<1>2. MoneyEffect /\ PaymentsInv'
    BY <1>1, MoneyStep, RequestStepInv DEF Next
<1>3. UNCHANGED <<calls, intentVars, authorityVars>>
    BY DEF RequestStep, callVars
<1>4. /\ \A c \in Calls : Claimed(c)'
      /\ OneExecution' /\ StuckExplained' /\ CompletedServed'
    BY <1>2, <1>3, SameRows, IdleStep
<1>5. revoked' => authority'.revokedAt
    BY <1>3 DEF authorityVars, IntentsInv
<1> QED
    BY <1>2, <1>4, <1>5 DEF IntentsInv

\* Only the owner's steps touch the authority; a policy written after a
\* revocation leaves its time where it is.
LEMMA QuietIntents ==
    ASSUME PaymentsAssumption, IntentsInv, AgeStep \/ OwnerStep \/ UNCHANGED vars
    PROVE  IntentsInv'
<1>1. PaymentsInv /\ IntentsTypeOK
    BY DEF IntentsInv, PaymentsInv, PaymentsTypeOK
<1>2. UNCHANGED <<x402Vars, taskVars, calls>>
    BY DEF AgeStep, intentsAge, OwnerStep, vars, callVars
<1>3. Aged /\ IntentsTypeOK' /\ (revoked' => authority'.revokedAt)
    <2>1. CASE AgeStep
        <3>1. PICK i \in Intents : retentionPasses(i) \/ crowds(i)
            BY <2>1 DEF AgeStep, intentsAge
        <3>2. UNCHANGED authorityVars
            BY <2>1 DEF AgeStep
        <3>3. Aged
            BY <1>1, <3>1, AgedRows DEF PaymentsAssumption
        <3>4. IntentsTypeOK'
            BY <1>1, <3>1, <3>2, AgedRows DEF PaymentsAssumption
        <3> QED
            BY <3>2, <3>3, <3>4 DEF authorityVars, IntentsInv
    <2>2. CASE OwnerStep
        <3>1. UNCHANGED intentVars /\ Aged
            BY <2>2, SameRows DEF OwnerStep
        <3>2. AuthorityNext
            BY <2>2 DEF OwnerStep
        <3>3. CASE writeConsumerAuthorityPolicy
            <4>1. revoked' = revoked /\ authority' = [authority EXCEPT !.status = "active"]
                BY <3>3 DEF writeConsumerAuthorityPolicy
            <4>2. authority'.revokedAt = authority.revokedAt
                BY <1>1, <4>1 DEF IntentsTypeOK
            <4>3. revoked' => authority'.revokedAt
                BY <4>1, <4>2, Zenon DEF IntentsInv
            <4>4. IntentsTypeOK'
                BY <1>1, <3>1, <4>1 DEF IntentsTypeOK, intentVars
            <4> QED
                BY <3>1, <4>3, <4>4
        <3>4. CASE revokeConsumerAuthorityPolicy
            BY <1>1, <3>1, <3>4 DEF revokeConsumerAuthorityPolicy, IntentsTypeOK, intentVars
        <3>5. CASE clearSessionAuthorizationState
            BY <1>1, <3>1, <3>5 DEF clearSessionAuthorizationState, IntentsTypeOK, intentVars
        <3> QED
            BY <3>2, <3>3, <3>4, <3>5 DEF AuthorityNext
    <2>3. CASE UNCHANGED vars
        <3>1. UNCHANGED <<intentVars, authorityVars>>
            BY <2>3 DEF vars, callVars
        <3> QED
            BY <1>1, <3>1, SameRows DEF intentVars, authorityVars, IntentsTypeOK, IntentsInv
    <2> QED
        BY <2>1, <2>2, <2>3
<1>4. MoneyEffect
    BY <1>2 DEF MoneyEffect, x402Vars
<1>5. /\ \A c \in Calls : Claimed(c)'
      /\ OneExecution' /\ StuckExplained' /\ CompletedServed'
    BY <1>2, <1>3, <1>4, IdleStep
<1> QED
    BY <1>1, <1>2, <1>3, <1>5, QuietInv DEF IntentsInv

LEMMA CrashIntents ==
    ASSUME PaymentsAssumption, IntentsInv, Crash
    PROVE  IntentsInv'
<1>1. PaymentsInv
    BY DEF IntentsInv
<1>2. UNCHANGED <<x402Vars, intentVars, authorityVars>>
    BY CrashMoney
<1>3. MoneyEffect
    BY <1>2 DEF MoneyEffect, x402Vars
<1>4. \A c \in Calls : calls'[c] = calls[c] \/ CutOff(c)
    BY <1>1, CrashedCalls DEF CutOff
<1>5. /\ \A c \in Calls : Claimed(c)'
      /\ OneExecution' /\ StuckExplained' /\ CompletedServed'
    BY <1>2, <1>3, <1>4, SameRows, IdleStep
<1>6. revoked' => authority'.revokedAt
    BY <1>2 DEF authorityVars, IntentsInv
<1> QED
    BY <1>1, <1>5, <1>6, CrashInv DEF IntentsInv

LEMMA InitIntents ==
    ASSUME PaymentsAssumption, Init
    PROVE  IntentsInv
<1> USE DEF Init, X402Init, TasksInit, IntentsInit, CallsInit
<1>1. PaymentsTypeOK
    <2>1. X402TypeOK
        BY DEF PaymentsAssumption, RequestsAssumption, X402TypeOK, Table, NoTable
    <2>2. TasksTypeOK /\ IntentsTypeOK /\ CallsTypeOK
        BY DEF TasksTypeOK, IntentsTypeOK, CallsTypeOK
    <2> QED
        BY <2>1, <2>2 DEF PaymentsTypeOK
<1>2. Bounded /\ TableHonest
    BY DEF PaymentsAssumption, RequestsAssumption, Bounded, TableHonest, RowHonest, NoTable
<1>3. \A t \in Tasks : TaskHonest(t)
    BY DEF TaskHonest
<1>4. \A c \in Calls : CallHonest(c) /\ Claimed(c)
    BY DEF CallHonest, Claimed, inFlight, waits
<1>5. OneExecution /\ StuckExplained /\ CompletedServed
    BY DEF OneExecution, StuckExplained, CompletedServed
<1> QED
    BY <1>1, <1>2, <1>3, <1>4, <1>5 DEF IntentsInv, PaymentsInv

LEMMA IntentsInvStep ==
    ASSUME PaymentsAssumption, IntentsInv, [Next]_vars
    PROVE  IntentsInv'
<1>1. ASSUME NEW t \in Tasks, TaskStep(t)
      PROVE  IntentsInv'
    BY <1>1, TaskStepIntents
<1>2. ASSUME NEW c \in Calls, CallStep(c)
      PROVE  IntentsInv'
    BY <1>2, CallStepIntents
<1>3. CASE RequestStep
    BY <1>3, RequestStepIntents
<1>4. CASE AgeStep \/ OwnerStep \/ UNCHANGED vars
    BY <1>4, QuietIntents
<1>5. CASE Crash
    BY <1>5, CrashIntents
<1> QED
    BY <1>1, <1>2, <1>3, <1>4, <1>5 DEF Next

LEMMA IntentsInvHolds == PaymentsAssumption => (Spec => []IntentsInv)
<1> SUFFICES ASSUME PaymentsAssumption
             PROVE  Spec => []IntentsInv
    OBVIOUS
<1>1. Init => IntentsInv
    BY InitIntents
<1>2. IntentsInv /\ [Next]_vars => IntentsInv'
    BY IntentsInvStep
<1> QED
    BY <1>1, <1>2, PTL DEF Spec

-----------------------------------------------------------------------------
\* Writes to the table

\* A handler marks a request it finds overdue, adds a fresh one, or writes back
\* its copy of the table with a fresh or a paid request in it.
TaskWrites(t) ==
    \/ table' = table
    \/ \E q \in RequestIds : expired(q) /\ upsertX402RequestRecord(q, "expired")
    \/ \E q \in RequestIds \ issued : upsertX402RequestRecord(q, "pending")
    \/ /\ tasks[t] # NoTask /\ tasks'[t] # tasks[t]
       /\ \/ \E q \in RequestIds \ issued :
                 writeX402Requests([tasks[t].snap EXCEPT ![q] = "pending"])
          \/ \E q \in RequestIds : writeX402Requests([tasks[t].snap EXCEPT ![q] = "paid"])

\* A call opens a row that is not paid, marks one as paid, or writes what it
\* holds, or its failure.
CallWrites(c) ==
    \/ table' = table
    \/ \E q \in RequestIds : upsertX402RequestRecord(q, "paid")
    \/ \E q \in RequestIds : table[q] # "paid" /\ upsertX402RequestRecord(q, "pending")
    \/ /\ inFlight(c) /\ calls'[c] # calls[c] /\ calls[c].copy # "none"
       /\ \E status \in {"failed", calls[c].copy} :
              upsertX402RequestRecord(calls[c].request, status)

LEMMA SettleWrites ==
    ASSUME PaymentsInv, NEW t \in Tasks, tasks[t] # NoTask, tasks[t].request \in RequestIds, settle(t)
    PROVE  TaskWrites(t)
<1>1. tasks'[t] = NoTask
    BY DEF settle, ends, PaymentsInv, PaymentsTypeOK, TasksTypeOK
<1> QED
    BY <1>1 DEF settle, TaskWrites

LEMMA TaskStepWrites ==
    ASSUME PaymentsInv, NEW t \in Tasks, TaskStep(t)
    PROVE  TaskWrites(t)
<1>1. \A stage : at(t, stage) => tasks[t] # NoTask /\ tasks[t].awaits = stage /\ tasks[t] \in Task
    BY TaskInProgress DEF at, PaymentsInv, PaymentsTypeOK
<1>2. \A stage \in Stage \ {"identity"} : at(t, stage) => tasks[t].request \in RequestIds
    BY <1>1 DEF PaymentsInv, PaymentsTypeOK, X402TypeOK, TaskHonest
<1>3. ASSUME NEW q \in RequestIds, NEW service, NEW run, present(t, q, service, run)
      PROVE  TaskWrites(t)
    BY <1>3 DEF present, TaskWrites
<1>4. CASE A2AHandlers(t)
    BY <1>3, <1>4 DEF A2AHandlers, firstLeg, challenge, handleA2AStopOrders, handleA2ABtcPrice,
           handleA2ARiskScore, handleA2AXReader, transferIntent, kolScore, presents,
           createX402Request, x402Vars, TaskWrites
<1>5. CASE WorkflowRuns(t)
    BY <1>5 DEF WorkflowRuns, stopOrderRun, btcPriceRun, riskScoreRun, infoRun,
           hyperliquidOrderRun, challenge, x402Vars, TaskWrites
<1>6. CASE issueRequest(t)
    <2>1. PICK q \in RequestIds :
              /\ createX402Request(q)
              /\ writeX402Requests([tasks[t].snap EXCEPT ![q] = "pending"])
              /\ \/ tasks' = [tasks EXCEPT ![t] = [@ EXCEPT !.awaits = "pay", !.request = q,
                                                            !.snap = NoTable]]
                 \/ ends(t)
        BY <1>6 DEF issueRequest
    <2>2. tasks[t] # NoTask /\ tasks[t].awaits = "identity" /\ tasks[t] \in Task
        BY <1>1, <1>6 DEF issueRequest
    <2>3. tasks \in [Tasks -> Task \cup {NoTask}]
        BY DEF PaymentsInv, PaymentsTypeOK, TasksTypeOK
    <2>4. CASE ends(t)
        BY <2>1, <2>2, <2>3, <2>4 DEF ends, createX402Request, TaskWrites
    <2>5. CASE ~ends(t)
        <3>1. tasks'[t] = [tasks[t] EXCEPT !.awaits = "pay", !.request = q, !.snap = NoTable]
            BY <2>1, <2>3, <2>5
        <3>2. tasks'[t].awaits = "pay"
            BY <2>2, <3>1 DEF Task
        <3> QED
            BY <2>1, <2>2, <3>2 DEF createX402Request, TaskWrites
    <2> QED
        BY <2>4, <2>5
<1>7. CASE proofVerified(t) \/ serviceAnswers(t)
    <2>1. tasks[t] # NoTask /\ tasks[t].request \in RequestIds
        BY <1>1, <1>2, <1>7 DEF proofVerified, serviceAnswers, Stage
    <2> QED
        BY <1>7, <2>1, SettleWrites DEF proofVerified, serviceAnswers, TaskWrites
<1>8. CASE refuseChallenge(t) \/ proofRefused(t) \/ serviceFails(t) \/ recomputeFails(t)
    BY <1>8 DEF refuseChallenge, proofRefused, serviceFails, recomputeFails, x402Vars, TaskWrites
<1>9. CASE \/ sessionPayReads(t) \/ sessionPayRefused(t)
           \/ sessionPaySucceeds(t) \/ sessionPayUncertain(t)
    BY <1>9 DEF sessionPayReads, sessionPayRefused, sessionPaySucceeds, sessionPayUncertain,
           x402Vars, TaskWrites
<1>10. CASE runPresents(t)
    <2>1. tasks[t].request \in RequestIds
        BY <1>2, <1>10 DEF runPresents, Stage
    <2> QED
        BY <1>3, <1>10, <2>1 DEF runPresents, TaskWrites
<1>11. CASE commerceSettles(t)
    <2>1. tasks[t] # NoTask /\ tasks[t].request \in RequestIds
        BY <1>1, <1>2, <1>11 DEF commerceSettles, Stage
    <2>2. tasks'[t] = NoTask
        BY <1>11 DEF commerceSettles, ends, PaymentsInv, PaymentsTypeOK, TasksTypeOK
    <2> QED
        BY <1>11, <2>1, <2>2 DEF commerceSettles, TaskWrites
<1>12. CASE commerceAsks \/ commercePresents(t) \/ commerceRefuses(t)
    BY <1>12, RequestsAssumption DEF RequestsAssumption, commerceAsks, commercePresents,
           commerceRefuses, createX402Request, x402Vars, TaskWrites
<1> QED
    BY <1>4, <1>5, <1>6, <1>7, <1>8, <1>9, <1>10, <1>11, <1>12
       DEF TaskStep, taskProceeds, runProceeds, Commerce

\* A call that held a row and wrote it has moved on.
LEMMA HeldWrites ==
    ASSUME PaymentsInv, NEW c \in Calls, inFlight(c), calls'[c] # calls[c],
           \/ UNCHANGED table
           \/ /\ calls[c].copy # "none"
              /\ \E status \in {"failed", calls[c].copy} :
                     upsertX402RequestRecord(calls[c].request, status)
    PROVE  CallWrites(c)
BY DEF CallWrites

LEMMA MovesOn ==
    ASSUME PaymentsInv, NEW c \in Calls, inFlight(c)
    PROVE  /\ \A how \in Ended : \A q :
                 becomes(c, past(calls[c], how, q)) => calls'[c] # calls[c]
           /\ \A call : call.awaits # calls[c].awaits /\ becomes(c, call) => calls'[c] # calls[c]
<1>1. calls[c].awaits \in Waiting /\ CallsTypeOK
    BY DEF inFlight, PaymentsInv, PaymentsTypeOK
<1>2. ASSUME NEW call, call.awaits # calls[c].awaits, becomes(c, call)
      PROVE  calls'[c] # calls[c]
    BY <1>1, <1>2, BecomesIs
<1>3. ASSUME NEW how \in Ended, NEW q, becomes(c, past(calls[c], how, q))
      PROVE  calls'[c] # calls[c]
    <2>1. past(calls[c], how, q).awaits = how
        BY DEF past
    <2> QED
        BY <1>1, <1>2, <1>3, <2>1 DEF Ended, Waiting
<1> QED
    BY <1>2, <1>3

LEMMA InvokeFailsWrites ==
    ASSUME PaymentsInv, NEW c \in Calls, inFlight(c), invokeFails(c)
    PROVE  CallWrites(c)
<1>1. calls'[c] # calls[c]
    BY MovesOn DEF invokeFails, Ended
<1> QED
    BY <1>1, HeldWrites DEF invokeFails

LEMMA FeedWrites ==
    ASSUME PaymentsInv, NEW c \in Calls, FeedNext(c)
    PROVE  CallWrites(c)
<1>1. \A stage \in Waiting : waits(c, stage) => inFlight(c)
    BY DEF waits, inFlight
<1>2. CASE feedFails(c) \/ invokePayRefused(c)
    BY <1>1, <1>2, InvokeFailsWrites DEF feedFails, invokePayRefused, Waiting
<1>3. CASE invokePayReads(c) \/ invokePayUncertain(c) \/ invokeProofRefused(c)
    <2>1. inFlight(c)
        BY <1>1, <1>3 DEF invokePayReads, invokePayUncertain, invokeProofRefused, Waiting
    <2> QED
        BY <1>3, <2>1, InvokeFailsWrites
           DEF invokePayReads, invokePayUncertain, invokeProofRefused, CallWrites
<1>4. CASE feedForSession(c) \/ invokePaySucceeds(c)
    BY <1>4 DEF feedForSession, invokePaySucceeds, x402Vars, CallWrites
<1>5. CASE invokeProofVerified(c)
    <2>1. inFlight(c) /\ calls[c].awaits = "proof" /\ upsertX402RequestRecord(calls[c].request, "paid")
        BY <1>1, <1>5 DEF invokeProofVerified, waits, Waiting
    <2>2. calls[c].request \in RequestIds \/ calls[c].request = NoRequest
        BY <2>1, InFlightCall DEF Call, PaymentsInv, PaymentsTypeOK
    <2>3. calls[c].request \in RequestIds
        BY <2>1 DEF PaymentsInv, PaymentsTypeOK, X402TypeOK, CallHonest, RowHonest
    <2> QED
        BY <2>1, <2>3 DEF CallWrites
<1>6. CASE noData(c)
    <2>1. inFlight(c) /\ calls[c].copy # "none"
        BY <1>1, <1>6 DEF noData, waits, Waiting, PaymentsInv, CallHonest
    <2>2. calls'[c] # calls[c]
        BY <1>6, <2>1, MovesOn DEF noData, refused, Ended
    <2> QED
        BY <1>6, <2>1, <2>2, HeldWrites DEF noData
<1>7. CASE feedForAgent(c)
    <2>1. inFlight(c) /\ calls[c].copy # "none" /\ calls[c].awaits = "feed" /\ calls[c] \in Call
        BY <1>1, <1>7, InFlightCall
           DEF feedForAgent, waits, Waiting, PaymentsInv, PaymentsTypeOK, CallHonest
    <2>2. upsertX402RequestRecord(calls[c].request, calls[c].copy)
        BY <1>7 DEF feedForAgent
    <2>3. calls'[c] # calls[c]
        <3>1. CASE refused(c)
            BY <2>1, <3>1, MovesOn DEF refused, Ended
        <3>2. CASE becomes(c, past(begun(calls[c]), "refused", NoRequest))
            <4>1. past(begun(calls[c]), "refused", NoRequest).awaits = "refused"
                BY DEF past
            <4> QED
                BY <2>1, <3>2, <4>1, MovesOn
        <3>3. ASSUME NEW stage \in {"trust", "proof"},
                     becomes(c, [begun(calls[c]) EXCEPT !.awaits = stage])
              PROVE  calls'[c] # calls[c]
            <4>1. [begun(calls[c]) EXCEPT !.awaits = stage].awaits = stage
                BY <2>1 DEF begun, Call
            <4> QED
                BY <2>1, <3>3, <4>1, MovesOn
        <3> QED
            BY <1>7, <3>1, <3>2, <3>3 DEF feedForAgent
    <2> QED
        BY <2>1, <2>2, <2>3, HeldWrites
<1> QED
    BY <1>2, <1>3, <1>4, <1>5, <1>6, <1>7 DEF FeedNext

LEMMA AnsweredWrites ==
    ASSUME PaymentsInv, NEW c \in Calls, AnsweredNext(c, delivered)
    PROVE  CallWrites(c)
<1>1. \A stage \in Waiting : waits(c, stage) => inFlight(c)
    BY DEF waits, inFlight
<1>2. CASE unanswered(c)
    BY <1>1, <1>2, InvokeFailsWrites DEF unanswered, Waiting
<1>3. CASE workflowDelivers(c, delivered) \/ workflowFailed(c)
    BY <1>3 DEF workflowDelivers, workflowFailed, x402Vars, CallWrites
<1>4. CASE taskAsksPayment(c) \/ taskDelivers(c, delivered) \/ taskErrs(c)
    <2>1. inFlight(c) /\ calls[c].awaits = "task" /\ calls[c] \in Call
        BY <1>1, <1>4, InFlightCall
           DEF taskAsksPayment, taskDelivers, taskErrs, waits, Waiting, PaymentsInv, PaymentsTypeOK
    <2>2. \/ UNCHANGED table
          \/ calls[c].copy # "none" /\ upsertX402RequestRecord(calls[c].request, calls[c].copy)
        BY <1>4 DEF taskAsksPayment, taskDelivers, taskErrs, writesCopyBack
    <2>3. calls'[c] # calls[c]
        <3>1. CASE refused(c)
            BY <2>1, <3>1, MovesOn DEF refused, Ended
        <3>2. ASSUME NEW status, unlocks(c, status)
              PROVE  calls'[c] # calls[c]
            <4>1. [calls[c] EXCEPT !.awaits = "trust", !.copy = status].awaits = "trust"
                BY <2>1 DEF Call
            <4> QED
                BY <2>1, <3>2, <4>1, MovesOn DEF unlocks
        <3>3. CASE becomes(c, [begun(calls[c]) EXCEPT !.awaits = "workflow"])
            <4>1. [begun(calls[c]) EXCEPT !.awaits = "workflow"].awaits = "workflow"
                BY <2>1 DEF begun, Call
            <4> QED
                BY <2>1, <3>3, <4>1, MovesOn
        <3> QED
            BY <1>4, <3>1, <3>2, <3>3 DEF taskAsksPayment, taskDelivers, taskErrs
    <2> QED
        BY <2>1, <2>2, <2>3, HeldWrites
<1> QED
    BY <1>2, <1>3, <1>4 DEF AnsweredNext

LEMMA CallStepWrites ==
    ASSUME PaymentsInv, NEW c \in Calls, CallStep(c)
    PROVE  CallWrites(c)
<1>1. ASSUME arrive(c)
      PROVE  CallWrites(c)
    <2>1. ASSUME NEW i, NEW supplied, NEW mode, feedCall(c, mode, i, supplied)
          PROVE  CallWrites(c)
        BY <2>1 DEF feedCall, CallWrites
    <2>2. ASSUME NEW i, NEW supplied, taskCall(c, i, supplied) \/ workflowCall(c, i)
          PROVE  CallWrites(c)
        BY <2>2 DEF taskCall, workflowCall, beginsOnArrival, x402Vars, CallWrites
    <2> QED
        BY <1>1, <2>1, <2>2 DEF arrive
<1>2. CASE trustAnswers(c) \/ BuyNext(c)
    BY <1>2 DEF trustAnswers, BuyNext, buy, beginsOnArrival, buyCompletes, buyFails, x402Vars,
           CallWrites
<1> QED
    BY <1>1, <1>2, FeedWrites, AnsweredWrites DEF CallStep

\* A step of neither writes only what is overdue and still pending.
LEMMA OtherWrites ==
    ASSUME PaymentsInv, RequestStep \/ AgeStep \/ OwnerStep \/ Crash \/ UNCHANGED vars
    PROVE  \A q \in RequestIds : table'[q] # table[q] => table[q] = "pending" /\ table'[q] = "expired"
<1>1. CASE AgeStep \/ OwnerStep \/ UNCHANGED vars
    BY <1>1 DEF AgeStep, intentsAge, OwnerStep, vars, x402Vars
<1>2. CASE Crash
    BY <1>2, CrashMoney DEF x402Vars
<1>3. CASE RequestStep
    BY <1>3 DEF RequestStep, X402Environment, expireStaleX402PendingRequests, stalePending,
           writeX402Requests, ttlPasses, userOpMined, userOpDropped, agentPays
<1> QED
    BY <1>1, <1>2, <1>3

\* A row in the table was issued.
LEMMA RowsIssued ==
    ASSUME PaymentsInv, NEW q \in RequestIds, table[q] # "none"
    PROVE  q \in issued
BY DEF PaymentsInv, TableHonest, RowHonest

RowLostBy(q, t) ==
    tasks[t] # NoTask /\ tasks'[t] # tasks[t] /\ tasks[t].snap[q] = "none"

PaidUndoneBy(q) ==
    \/ table'[q] = "expired" /\ q \in overdue
    \/ \E t \in Tasks : /\ tasks[t] # NoTask /\ tasks'[t] # tasks[t]
                        /\ tasks[t].snap[q] # "paid" /\ table'[q] = tasks[t].snap[q]
    \/ \E c \in Calls : /\ inFlight(c) /\ calls'[c] # calls[c]
                        /\ calls[c].request = q /\ table'[q] \in {"failed", calls[c].copy}

LEMMA UpsertedRow ==
    ASSUME PaymentsInv, NEW p, NEW status, upsertX402RequestRecord(p, status), NEW q \in RequestIds
    PROVE  table'[q] = IF p = q THEN status ELSE table[q]
BY DEF upsertX402RequestRecord, writeX402Requests, PaymentsInv, PaymentsTypeOK, X402TypeOK, Table

LEMMA TaskStepRows ==
    ASSUME PaymentsInv, NEW t \in Tasks, TaskStep(t), NEW q \in RequestIds
    PROVE  /\ table[q] # "none" /\ table'[q] = "none" => RowLostBy(q, t)
           /\ table[q] = "paid" /\ table'[q] # "paid" => PaidUndoneBy(q)
<1>1. TaskWrites(t)
    BY TaskStepWrites
<1>2. CASE table' = table
    BY <1>2
<1>3. CASE \E p \in RequestIds : expired(p) /\ upsertX402RequestRecord(p, "expired")
    <2>1. table'[q] = table[q] \/ (q \in overdue /\ table'[q] = "expired")
        BY <1>3, UpsertedRow DEF expired
    <2> QED
        BY <2>1 DEF PaidUndoneBy
<1>4. CASE \E p \in RequestIds \ issued : upsertX402RequestRecord(p, "pending")
    <2>1. table'[q] = table[q] \/ (q \notin issued /\ table'[q] = "pending")
        BY <1>4, UpsertedRow
    <2> QED
        BY <2>1, RowsIssued
<1>5. CASE /\ tasks[t] # NoTask /\ tasks'[t] # tasks[t]
           /\ \/ \E p \in RequestIds \ issued :
                     writeX402Requests([tasks[t].snap EXCEPT ![p] = "pending"])
              \/ \E p \in RequestIds : writeX402Requests([tasks[t].snap EXCEPT ![p] = "paid"])
    <2>1. \/ table'[q] = tasks[t].snap[q]
          \/ q \notin issued /\ table'[q] = "pending"
          \/ table'[q] = "paid"
        <3>1. ASSUME NEW p \in RequestIds, NEW status \in {"pending", "paid"},
                     writeX402Requests([tasks[t].snap EXCEPT ![p] = status])
              PROVE  table'[q] = IF p = q THEN status ELSE tasks[t].snap[q]
            <4>1. tasks[t].snap \in Table
                BY <1>5 DEF PaymentsInv, PaymentsTypeOK, TasksTypeOK, Task
            <4> QED
                BY <3>1, <4>1 DEF writeX402Requests, Table
        <3>2. CASE \E p \in RequestIds \ issued :
                       writeX402Requests([tasks[t].snap EXCEPT ![p] = "pending"])
            BY <3>1, <3>2
        <3>3. CASE \E p \in RequestIds :
                       writeX402Requests([tasks[t].snap EXCEPT ![p] = "paid"])
            BY <3>1, <3>3
        <3> QED
            BY <1>5, <3>2, <3>3
    <2>2. CASE table'[q] = tasks[t].snap[q]
        BY <1>5, <2>2 DEF RowLostBy, PaidUndoneBy
    <2> QED
        BY <2>1, <2>2, RowsIssued
<1> QED
    BY <1>1, <1>2, <1>3, <1>4, <1>5 DEF TaskWrites

LEMMA CallStepRows ==
    ASSUME PaymentsInv, NEW c \in Calls, CallStep(c), NEW q \in RequestIds
    PROVE  /\ table[q] # "none" => table'[q] # "none"
           /\ table[q] = "paid" /\ table'[q] # "paid" => PaidUndoneBy(q)
<1>1. CallWrites(c)
    BY CallStepWrites
<1>2. CASE table' = table
    BY <1>2
<1>3. CASE \E p \in RequestIds : upsertX402RequestRecord(p, "paid")
    BY <1>3, UpsertedRow
<1>4. CASE \E p \in RequestIds : table[p] # "paid" /\ upsertX402RequestRecord(p, "pending")
    BY <1>4, UpsertedRow
<1>5. CASE /\ inFlight(c) /\ calls'[c] # calls[c] /\ calls[c].copy # "none"
           /\ \E status \in {"failed", calls[c].copy} :
                  upsertX402RequestRecord(calls[c].request, status)
    <2>1. \/ table'[q] = table[q]
          \/ calls[c].request = q /\ table'[q] \in {"failed", calls[c].copy}
        BY <1>5, UpsertedRow
    <2> QED
        BY <1>5, <2>1 DEF PaidUndoneBy
<1> QED
    BY <1>1, <1>2, <1>3, <1>4, <1>5 DEF CallWrites

-----------------------------------------------------------------------------
\* The theorems

\* Every variable of the paid part keeps to its type.
THEOREM PaymentsTyped == PaymentsAssumption => (Spec => []PaymentsTypeOK)
<1>1. IntentsInv => PaymentsTypeOK
    BY DEF IntentsInv, PaymentsInv
<1> QED
    BY <1>1, IntentsInvHolds, PTL

\* Handlers and calls say paid, and hand a result out, only for a request whose
\* terms a transfer on the chain agrees with, whatever copies of the table they
\* write.  On the commerce route the amount does not matter, and a payer that is not
\* a session account need not have paid.
THEOREM PaymentsBacked == PaymentsAssumption => (Spec => []PaidBacked)
<1>1. IntentsInv => PaidBacked
    <2> SUFFICES ASSUME PaymentsInv
                 PROVE  PaidBacked
        BY DEF IntentsInv
    <2>1. \A q \in RequestIds : (table[q] = "paid" \/ q \in delivered) => q \in backedRequests
        BY DEF PaymentsInv, TableHonest, RowHonest, PaidFor
    <2>2. \A t \in Tasks, q \in RequestIds :
              tasks[t] # NoTask /\ tasks[t].snap[q] = "paid" => q \in backedRequests
        BY DEF PaymentsInv, TaskHonest, RowHonest
    <2>3. \A c \in Calls : inFlight(c) /\ (calls[c].copy = "paid" \/ calls[c].awaits = "trust") =>
              calls[c].request \in backedRequests
        BY DEF PaymentsInv, CallHonest, RowHonest, PaidFor
    <2> QED
        BY <2>1, <2>2, <2>3 DEF PaidBacked
<1> QED
    BY <1>1, IntentsInvHolds, PTL

\* beginConsumerIntent lets one call per idempotency key in, for as long as
\* compaction was not allowed to drop the key's row.
THEOREM IntentExecutesOnce == PaymentsAssumption => (Spec => []OneExecution)
<1>1. IntentsInv => OneExecution
    BY DEF IntentsInv
<1> QED
    BY <1>1, IntentsInvHolds, PTL

\* An intent that stays in progress was begun by a call that is still at work,
\* or that ended without finalizing it: refused after it began, or cut off.
THEOREM StuckIntentsExplained == PaymentsAssumption => (Spec => []StuckExplained)
<1>1. IntentsInv => StuckExplained
    BY DEF IntentsInv
<1> QED
    BY <1>1, IntentsInvHolds, PTL

\* finalizeConsumerIntent records completed for calls that were served, for a
\* request whose terms a transfer on the chain agrees with.
THEOREM CompletedIntentsServed == PaymentsAssumption => (Spec => []CompletedServed)
<1>1. IntentsInv => CompletedServed
    BY DEF IntentsInv
<1> QED
    BY <1>1, IntentsInvHolds, PTL

\* A handler loses a row only by writing back a copy from before the row.
THEOREM RowsLostOnlyByCopies == PaymentsAssumption => (Spec => RowsLost)
<1>1. ASSUME PaymentsInv, [Next]_vars, NEW q \in RequestIds, table[q] # "none", table'[q] = "none"
      PROVE  \E t \in Tasks : RowLostBy(q, t)
    <2>1. ASSUME NEW t \in Tasks, TaskStep(t)
          PROVE  \E s \in Tasks : RowLostBy(q, s)
        BY <1>1, <2>1, TaskStepRows
    <2> QED
        BY <1>1, <2>1, CallStepRows, OtherWrites DEF Next
<1>2. IntentsInv /\ [Next]_vars =>
          \A q \in RequestIds : table[q] # "none" /\ table'[q] = "none" =>
              \E t \in Tasks : tasks[t] # NoTask /\ tasks'[t] # tasks[t] /\ tasks[t].snap[q] = "none"
    BY <1>1 DEF IntentsInv, RowLostBy
<1> QED
    BY <1>2, IntentsInvHolds, PTL DEF Spec, RowsLost

\* A paid row is undone by a handler that finds it overdue or writes an older
\* copy back, or by a call that holds the row; by nothing else.
THEOREM PaidRowsUndone == PaymentsAssumption => (Spec => PaidUndone)
<1>1. ASSUME PaymentsInv, [Next]_vars, NEW q \in RequestIds, table[q] = "paid", table'[q] # "paid"
      PROVE  PaidUndoneBy(q)
    <2>1. ASSUME NEW t \in Tasks, TaskStep(t)
          PROVE  PaidUndoneBy(q)
        BY <1>1, <2>1, TaskStepRows
    <2> QED
        BY <1>1, <2>1, CallStepRows, OtherWrites DEF Next
<1>2. IntentsInv /\ [Next]_vars =>
          \A q \in RequestIds : table[q] = "paid" /\ table'[q] # "paid" =>
              \/ table'[q] = "expired" /\ q \in overdue
              \/ \E t \in Tasks : /\ tasks[t] # NoTask /\ tasks'[t] # tasks[t]
                                  /\ tasks[t].snap[q] # "paid" /\ table'[q] = tasks[t].snap[q]
              \/ \E c \in Calls : /\ inFlight(c) /\ calls'[c] # calls[c]
                                  /\ calls[c].request = q /\ table'[q] \in {"failed", calls[c].copy}
    BY <1>1 DEF IntentsInv, PaidUndoneBy
<1> QED
    BY <1>2, IntentsInvHolds, PTL DEF Spec, PaidUndone

LEMMA ArrivalAuthorized ==
    ASSUME PaymentsInv, NEW c \in Calls, CallStep(c), calls[c] = NoCall, calls'[c] # NoCall
    PROVE  authorized
<1>1. ~inFlight(c) /\ \A stage : ~waits(c, stage)
    BY DEF inFlight, waits
<1>2. arrive(c) \/ \E i \in Intents \cup {NoIntent} : buy(c, i)
    BY <1>1 DEF CallStep, FeedNext, feedFails, noData, feedForSession, feedForAgent,
           invokePayReads, invokePayRefused, invokePaySucceeds, invokePayUncertain,
           invokeProofVerified, invokeProofRefused, trustAnswers, AnsweredNext, taskAsksPayment,
           taskDelivers, taskErrs, workflowDelivers, workflowFailed, unanswered, BuyNext,
           buyCompletes, buyFails
<1> QED
    BY <1>2 DEF arrive, feedCall, taskCall, workflowCall, buy, beginsOnArrival, admitted

\* validateConsumerAuthority lets no call in from the owner's revocation until
\* the runtime moves to another wallet, whatever policies are written meanwhile.
THEOREM RevokedLetsNoneIn == PaymentsAssumption => (Spec => RevokedAdmitsNone)
<1>1. ASSUME IntentsInv, [Next]_vars, NEW c \in Calls, calls[c] = NoCall, calls'[c] # NoCall
      PROVE  ~revoked
    <2>1. PaymentsInv /\ (revoked => authority.revokedAt)
        BY <1>1 DEF IntentsInv
    <2>2. ASSUME NEW d \in Calls, CallStep(d)
          PROVE  ~revoked
        <3>1. d = c
            BY <1>1, <2>1, <2>2, CallStepGood DEF CallGood
        <3>2. authorized
            BY <1>1, <2>1, <2>2, <3>1, ArrivalAuthorized
        <3> QED
            BY <2>1, <3>2, Zenon DEF authorized
    <2>3. CASE Crash
        BY <1>1, <2>3 DEF Crash, callsLost, inFlight
    <2>4. CASE RequestStep \/ AgeStep \/ OwnerStep \/ UNCHANGED vars \/ \E t \in Tasks : TaskStep(t)
        BY <1>1, <2>4 DEF RequestStep, AgeStep, intentsAge, OwnerStep, TaskStep, vars, callVars
    <2> QED
        BY <1>1, <2>2, <2>3, <2>4 DEF Next
<1>2. IntentsInv /\ [Next]_vars =>
          \A c \in Calls : calls[c] = NoCall /\ calls'[c] # NoCall => ~revoked
    BY <1>1
<1> QED
    BY <1>2, IntentsInvHolds, PTL DEF Spec, RevokedAdmitsNone
=============================================================================
