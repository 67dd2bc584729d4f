--------------------------- MODULE ServiceInvoke ---------------------------
(***************************************************************************)
(* POST /api/services/:serviceId/invoke and the direct buy on top of it.   *)
(*                                                                         *)
(* A call takes one of five ways:                                          *)
(*   "session"   an external feed, paid through /api/session/pay           *)
(*   "agent"     an external feed, paid by the agent that calls            *)
(*   "task"      a task handler is called with the agent's payment         *)
(*   "workflow"  a workflow route is called, which pays by itself          *)
(*   "buy"       a template is bought: another call, made for the caller   *)
(* It holds the row of its request from one await to the next (copy) and   *)
(* writes it back with changes; it begins the intent it was given before   *)
(* money moves and finalizes it with the outcome.  Invocations, workflows  *)
(* and purchases are recorded beside it with the same outcome; only the    *)
(* service guard reads them, whose refusals leave nothing behind.          *)
(***************************************************************************)
EXTENDS X402Requests, ConsumerIntents

CONSTANTS Calls, NoCall

VARIABLE calls      \* calls[c]: the call of slot c, NoCall before it arrives

\* Where a call waits, and how it ends: "bought" is a buy that was served,
\* "refused" was answered without a word to the intent, "left" was cut off by a
\* crash.
Waiting == {"feed", "pay", "userOp", "proof", "trust", "task", "workflow", "invoke"}
Ended == {"served", "bought", "failed", "refused", "left"}
Mode == {"session", "agent", "task", "workflow", "buy"}

\* What the caller supplies: nothing, the id of a request, an id and a proof,
\* or both for a request that has no row.
Supplied == {"nothing", "id", "proof", "unknown"}

\* copy is the status in the row held, "none" while no row is held.
Call == [awaits : Waiting, mode : Mode, intent : Intents \cup {NoIntent},
         supplied : Supplied, request : RequestIds \cup {NoRequest},
         copy : Status \cup {"none"}, started : BOOLEAN]

\* What is remembered of a call: its intent, whether it began it, and what it
\* was served for.
Past == [awaits : Ended, intent : Intents \cup {NoIntent}, started : BOOLEAN,
         request : RequestIds \cup {NoRequest}]

ASSUME CallsAssumption == NoCall \notin Call \cup Past

CallsTypeOK == calls \in [Calls -> Call \cup Past \cup {NoCall}]

CallsInit == calls = [c \in Calls |-> NoCall]

waits(c, stage) == calls[c] # NoCall /\ calls[c].awaits = stage
inFlight(c) == calls[c] # NoCall /\ calls[c].awaits \in Waiting
becomes(c, call) == calls' = [calls EXCEPT ![c] = call]
moves(c, stage) == becomes(c, [calls[c] EXCEPT !.awaits = stage])

past(call, how, q) ==
    [awaits |-> how, intent |-> call.intent, started |-> call.started, request |-> q]

begun(call) == [call EXCEPT !.started = call.intent # NoIntent]

refused(c) == becomes(c, past(calls[c], "refused", NoRequest))

-----------------------------------------------------------------------------
\* How calls end

\* Slip: the error path does not finalize the intent.
slip_invokeFails(c) ==
    /\ IF calls[c].copy = "none" THEN UNCHANGED table
       ELSE upsertX402RequestRecord(calls[c].request, "failed")
    /\ UNCHANGED intentVars
    /\ becomes(c, past(calls[c], "failed", NoRequest))

\* The catch block: the row held is written as failed, whatever it said.
invokeFails(c) ==
    /\ IF calls[c].copy = "none" THEN UNCHANGED table
       ELSE upsertX402RequestRecord(calls[c].request, "failed")
    /\ IF calls[c].started THEN finalizeConsumerIntent(calls[c].intent, "failed")
       ELSE UNCHANGED intentVars
    /\ becomes(c, past(calls[c], "failed", NoRequest))

\* The result is unlocked; the trust signals are published before the answer.
unlocks(c, status) ==
    becomes(c, [calls[c] EXCEPT !.awaits = "trust", !.copy = status])

trustAnswers(c) ==
    /\ waits(c, "trust")
    /\ finalizeConsumerIntent(calls[c].intent, "completed")
    /\ becomes(c, past(calls[c], "served", calls[c].request))
    /\ UNCHANGED x402Vars

-----------------------------------------------------------------------------
\* Arrival

\* The service guard, limits and scopes may refuse too; refusals leave nothing.
admitted == authorized

arriving(mode, i, supplied, q, copy, stage) ==
    [awaits |-> stage, mode |-> mode, intent |-> i, supplied |-> supplied, request |-> q,
     copy |-> copy, started |-> FALSE]

\* A feed takes the row of the id supplied, or a new one.  The row is written
\* back pending unless it is paid: a request that expired or failed reopens.
feedCall(c, mode, i, supplied) ==
    /\ calls[c] = NoCall /\ admitted
    /\ supplied \in (IF mode = "session" THEN {"nothing", "id"} ELSE Supplied)
    /\ \E q \in RequestIds :
        LET status == IF table[q] = "paid" THEN "paid" ELSE "pending"
        IN  /\ IF supplied \in {"id", "proof"}
                 THEN table[q] # "none" /\ UNCHANGED issued
                 ELSE q \notin CommerceIds /\ createX402Request(q)
            /\ upsertX402RequestRecord(q, status)
            /\ becomes(c, arriving(mode, i, supplied, q, status, "feed"))
    /\ UNCHANGED <<overdue, userOps, transfers, intentVars>>

\* A task call reads the row of the id supplied, if there is one.
taskCall(c, i, supplied) ==
    /\ calls[c] = NoCall /\ admitted
    /\ \E q \in RequestIds \cup {NoRequest} :
        /\ IF supplied \in {"id", "proof"} THEN q \in RequestIds /\ table[q] # "none"
           ELSE q = NoRequest
        /\ becomes(c, arriving("task", i, supplied, q,
                               IF q = NoRequest THEN "none" ELSE table[q], "task"))
    /\ UNCHANGED <<x402Vars, intentVars>>

\* These two begin the intent at once: a conflict is answered with a 409.
beginsOnArrival(c, mode, i, stage) ==
    /\ calls[c] = NoCall /\ admitted
    /\ \/ /\ beginConsumerIntent(i)
          /\ becomes(c, begun(arriving(mode, i, "nothing", NoRequest, "none", stage)))
       \/ conflict(i) /\ UNCHANGED calls
    /\ UNCHANGED x402Vars

workflowCall(c, i) == beginsOnArrival(c, "workflow", i, "workflow")

arrive(c) ==
    \E i \in Intents \cup {NoIntent}, supplied \in Supplied :
        \/ \E mode \in {"session", "agent"} : feedCall(c, mode, i, supplied)
        \/ taskCall(c, i, supplied)
        \/ supplied = "nothing" /\ workflowCall(c, i)

-----------------------------------------------------------------------------
\* External feeds

feedFails(c) == waits(c, "feed") /\ invokeFails(c) /\ UNCHANGED moneyVars

\* Nothing to sell (422): the row is written as failed, paid or not.
noData(c) ==
    /\ waits(c, "feed")
    /\ upsertX402RequestRecord(calls[c].request, "failed")
    /\ refused(c)
    /\ UNCHANGED <<moneyVars, intentVars>>

\* The session pays: the intent begins, then the payment.
feedForSession(c) ==
    /\ waits(c, "feed") /\ calls[c].mode = "session"
    /\ \/ /\ beginConsumerIntent(calls[c].intent)
          /\ becomes(c, [begun(calls[c]) EXCEPT !.awaits = "pay"])
       \/ conflict(calls[c].intent) /\ refused(c)
    /\ UNCHANGED x402Vars

\* The agent pays: the row held is written back with a preview of the result.
\* Without a proof it is asked to pay; with one the intent begins.  A proof for
\* a request without a row is a mismatch; a paid row unlocks unverified.
feedForAgent(c) ==
    LET call == calls[c]
    IN  /\ waits(c, "feed") /\ call.mode = "agent"
        /\ upsertX402RequestRecord(call.request, call.copy)
        /\ IF call.supplied = "nothing" \/ (call.supplied = "id" /\ call.copy # "paid")
             THEN refused(c) /\ UNCHANGED intentVars
             ELSE \/ conflict(call.intent) /\ refused(c)
                  \/ /\ beginConsumerIntent(call.intent)
                     /\ becomes(c, IF call.supplied = "unknown"
                                     THEN past(begun(call), "refused", NoRequest)
                                   ELSE [begun(call) EXCEPT !.awaits =
                                            IF call.copy = "paid" THEN "trust" ELSE "proof"])
        /\ UNCHANGED moneyVars

\* /api/session/pay pays only a pending row; a refusal fails the call.
invokePayReads(c) ==
    /\ waits(c, "pay")
    /\ IF payable(calls[c].request)
         THEN moves(c, "userOp") /\ UNCHANGED <<table, intentVars>>
         ELSE invokeFails(c)
    /\ UNCHANGED moneyVars

invokePayRefused(c) == waits(c, "userOp") /\ invokeFails(c) /\ UNCHANGED moneyVars

invokePaySucceeds(c) ==
    /\ waits(c, "userOp") /\ transferMined(calls[c].request)
    /\ moves(c, "proof")
    /\ UNCHANGED <<table, issued, overdue, intentVars>>

\* Timed out, or the failure of the payment hid its outcome: once more, or give up.
invokePayUncertain(c) ==
    /\ waits(c, "userOp") /\ transferUncertain(calls[c].request)
    /\ \/ moves(c, "pay") /\ UNCHANGED <<table, intentVars>>
       \/ invokeFails(c)
    /\ UNCHANGED <<issued, overdue>>

\* The row is written as paid over whatever became of it meanwhile.
invokeProofVerified(c) ==
    /\ waits(c, "proof") /\ onChain(calls[c].request)
    /\ upsertX402RequestRecord(calls[c].request, "paid")
    /\ unlocks(c, "paid")
    /\ UNCHANGED <<moneyVars, intentVars>>

\* The agent gets a 402 and its intent stays in progress; the session's call fails.
invokeProofRefused(c) ==
    /\ waits(c, "proof")
    /\ IF calls[c].mode = "agent"
         THEN refused(c) /\ UNCHANGED <<table, intentVars>>
         ELSE invokeFails(c)
    /\ UNCHANGED moneyVars

FeedNext(c) ==
    \/ feedFails(c) \/ noData(c) \/ feedForSession(c) \/ feedForAgent(c)
    \/ invokePayReads(c) \/ invokePayRefused(c) \/ invokePaySucceeds(c) \/ invokePayUncertain(c)
    \/ invokeProofVerified(c) \/ invokeProofRefused(c)

-----------------------------------------------------------------------------
\* Calls answered by a task handler or a workflow route

\* The row named by the answer is read again and written back at once; only
\* when the answer names none, or its row is gone, the old copy is written.
writesCopyBack(c) ==
    IF calls[c].copy = "none" THEN UNCHANGED table
    ELSE upsertX402RequestRecord(calls[c].request, calls[c].copy)

\* 402, with a new request or the one supplied.
taskAsksPayment(c) ==
    /\ waits(c, "task")
    /\ IF calls[c].request # NoRequest /\ table[calls[c].request] = "none"
         THEN writesCopyBack(c) ELSE UNCHANGED table
    /\ refused(c)
    /\ UNCHANGED <<moneyVars, intentVars>>

\* The intent was never begun; it will be finalized all the same.
taskDelivers(c, delivered) ==
    /\ waits(c, "task") /\ calls[c].supplied = "proof" /\ calls[c].request \in delivered
    /\ IF table[calls[c].request] = "none"
         THEN writesCopyBack(c) /\ unlocks(c, calls[c].copy)
         ELSE UNCHANGED table /\ unlocks(c, table[calls[c].request])
    /\ UNCHANGED <<moneyVars, intentVars>>

\* 400, 403 or 500: the answer names no request, and the workflow route is tried.
taskErrs(c) ==
    /\ waits(c, "task")
    /\ writesCopyBack(c)
    /\ \/ /\ beginConsumerIntent(calls[c].intent)
          /\ becomes(c, [begun(calls[c]) EXCEPT !.awaits = "workflow"])
       \/ conflict(calls[c].intent) /\ refused(c)
    /\ UNCHANGED moneyVars

\* A run that paid and delivered.  Its trust signals are its own affair.
workflowDelivers(c, delivered) ==
    /\ waits(c, "workflow")
    /\ \E q \in delivered :
           becomes(c, past(calls[c], "served", q))
    /\ finalizeConsumerIntent(calls[c].intent, "completed")
    /\ UNCHANGED x402Vars

\* Slip: any answer of the workflow route counts as success.
slip_workflowFailed(c) ==
    /\ waits(c, "workflow")
    /\ becomes(c, past(calls[c], "failed", NoRequest))
    /\ finalizeConsumerIntent(calls[c].intent, "completed")
    /\ UNCHANGED x402Vars

workflowFailed(c) ==
    /\ waits(c, "workflow")
    /\ becomes(c, past(calls[c], "failed", NoRequest))
    /\ finalizeConsumerIntent(calls[c].intent, "failed")
    /\ UNCHANGED x402Vars

\* No answer within the time or the attempts.  What was called goes on.
unanswered(c) ==
    /\ waits(c, "task") \/ waits(c, "workflow")
    /\ invokeFails(c)
    /\ UNCHANGED moneyVars

AnsweredNext(c, delivered) ==
    \/ taskAsksPayment(c) \/ taskDelivers(c, delivered) \/ taskErrs(c)
    \/ workflowDelivers(c, delivered) \/ workflowFailed(c) \/ unanswered(c)

-----------------------------------------------------------------------------
\* Direct buys: the intent is the buy's, the call made for it has none

buy(c, i) == beginsOnArrival(c, "buy", i, "invoke")

\* The call made for it was served; it is tried three times at most.
buyCompletes(c) ==
    /\ waits(c, "invoke")
    /\ \E d \in Calls \ {c} :
        /\ waits(d, "served") /\ calls[d].intent = NoIntent
        /\ becomes(c, past(calls[c], "bought", calls[d].request))
    /\ finalizeConsumerIntent(calls[c].intent, "completed")
    /\ UNCHANGED x402Vars

buyFails(c) ==
    /\ waits(c, "invoke")
    /\ becomes(c, past(calls[c], "failed", NoRequest))
    /\ finalizeConsumerIntent(calls[c].intent, "failed")
    /\ UNCHANGED x402Vars

BuyNext(c) ==
    (\E i \in Intents \cup {NoIntent} : buy(c, i)) \/ buyCompletes(c) \/ buyFails(c)

-----------------------------------------------------------------------------
\* The process and time

callsLost ==
    calls' = [c \in Calls |-> IF inFlight(c) THEN past(calls[c], "left", NoRequest)
                              ELSE calls[c]]

\* No call lasts seven days.
intentsAge ==
    /\ \E i \in Intents :
        \/ crowds(i)
        \/ retentionPasses(i) /\ ~\E c \in Calls : inFlight(c) /\ calls[c].intent = i
    /\ UNCHANGED <<x402Vars, calls>>
=============================================================================
