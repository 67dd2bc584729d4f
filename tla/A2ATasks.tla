------------------------------ MODULE A2ATasks ------------------------------
(***************************************************************************)
(* The paid task handlers: a first call answers 402 with a fresh request,  *)
(* a second one presents the payment and gets the result.  The workflow    *)
(* routes do both in one go and pay through /api/session/pay in between.   *)
(*                                                                         *)
(* Every handler reads the whole table of requests when it starts, keeps   *)
(* that copy across its awaits, and writes the whole copy back: rows that  *)
(* others changed meanwhile are put back, rows they added are lost.        *)
(*                                                                         *)
(* An await of a handler is a stage of its task.  The handlers differ in   *)
(* what they await between the check of the proof and the write:           *)
(*   "none"        nothing: the answer is fixed                            *)
(*   "fetched"     a service; its failure is answered with a 500           *)
(*   "recomputed"  the same, and a request already paid for is computed    *)
(*                 again where its result is missing, and written again    *)
(*   "unguarded"   a service; nothing catches its failure                  *)
(*                                                                         *)
(* The commerce route has two legs of its own on the same table.           *)
(***************************************************************************)
EXTENDS X402Requests

CONSTANTS
    Tasks,      \* slots for calls of the handlers in progress
    NoTask

VARIABLES
    tasks,      \* tasks[t]: the call in progress in slot t, or NoTask
    delivered   \* requests a handler has the result of, ready to answer with

taskVars == <<tasks, delivered>>

Service == {"none", "fetched", "recomputed", "unguarded"}
Stage == {"identity", "proof", "service", "recompute", "pay", "userOp", "present", "commerce"}

\* snap is the copy of the table a handler holds; run: a workflow route called it.
Task == [awaits : Stage, request : RequestIds \cup {NoRequest}, snap : Table,
         service : Service, run : BOOLEAN]

TasksTypeOK ==
    /\ tasks \in [Tasks -> Task \cup {NoTask}]
    /\ delivered \subseteq RequestIds

TasksInit ==
    /\ tasks = [t \in Tasks |-> NoTask]
    /\ delivered = {}

at(t, stage) == tasks[t] # NoTask /\ tasks[t].awaits = stage
goes(t, stage) == tasks' = [tasks EXCEPT ![t].awaits = stage]
ends(t) == tasks' = [tasks EXCEPT ![t] = NoTask]

-----------------------------------------------------------------------------
\* First leg: the challenge

\* The table is read, then the identity is verified.
challenge(t, service, run) ==
    /\ tasks[t] = NoTask
    /\ tasks' = [tasks EXCEPT ![t] = [awaits |-> "identity", request |-> NoRequest,
                                      snap |-> table, service |-> service, run |-> run]]
    /\ UNCHANGED <<x402Vars, delivered>>

\* Identified and within the policy: 402 with a new pending request.
issueRequest(t) ==
    /\ at(t, "identity")
    /\ \E q \in RequestIds \ CommerceIds :
        /\ createX402Request(q)
        /\ writeX402Requests([tasks[t].snap EXCEPT ![q] = "pending"])
        /\ IF tasks[t].run
             THEN tasks' = [tasks EXCEPT ![t] = [@ EXCEPT !.awaits = "pay", !.request = q,
                                                          !.snap = NoTable]]
             ELSE ends(t)
    /\ UNCHANGED <<overdue, userOps, transfers, delivered>>

\* The identity (400) or the policy (403) refuses.
refuseChallenge(t) ==
    /\ at(t, "identity")
    /\ ends(t)
    /\ UNCHANGED <<x402Vars, delivered>>

-----------------------------------------------------------------------------
\* Second leg: the proof

\* What a handler does before its first await, for a request that has a row.
\* Only recomputing handlers hold on to the table for a request already paid.
present(t, q, service, run) ==
    /\ table[q] # "none"
    /\ \/ /\ expired(q)
          /\ upsertX402RequestRecord(q, "expired")
          /\ ends(t)
          /\ UNCHANGED delivered
       \/ /\ ~expired(q) /\ table[q] = "paid"
          /\ delivered' = delivered \cup {q}
          /\ ends(t)
          /\ UNCHANGED table
       \/ /\ ~expired(q) /\ (table[q] # "paid" \/ service = "recomputed")
          /\ tasks' = [tasks EXCEPT ![t] =
                 [awaits |-> IF table[q] = "paid" THEN "recompute" ELSE "proof",
                  request |-> q, snap |-> table, service |-> service, run |-> run]]
          /\ UNCHANGED <<table, delivered>>

\* A result is kept in the copy of the table, and the copy is written.
settle(t) ==
    /\ writeX402Requests([tasks[t].snap EXCEPT ![tasks[t].request] = "paid"])
    /\ delivered' = delivered \cup {tasks[t].request}
    /\ ends(t)

proofVerified(t) ==
    /\ at(t, "proof") /\ onChain(tasks[t].request)
    /\ IF tasks[t].service = "none"
         THEN settle(t)
         ELSE goes(t, "service") /\ UNCHANGED <<table, delivered>>
    /\ UNCHANGED moneyVars

\* The proof names other terms, is not mined, or cannot be read: 402.
proofRefused(t) ==
    /\ at(t, "proof")
    /\ ends(t)
    /\ UNCHANGED <<x402Vars, delivered>>

serviceAnswers(t) ==
    /\ at(t, "service") \/ at(t, "recompute")
    /\ settle(t)
    /\ UNCHANGED moneyVars

\* Paid for, verified, and answered with a 500; nothing is written.
serviceFails(t) ==
    /\ at(t, "service") /\ tasks[t].service # "unguarded"
    /\ ends(t)
    /\ UNCHANGED <<x402Vars, delivered>>

\* The result is missing and stays missing: the answer says it is unlocked.
recomputeFails(t) ==
    /\ at(t, "recompute")
    /\ delivered' = delivered \cup {tasks[t].request}
    /\ ends(t)
    /\ UNCHANGED x402Vars

\* Every call in progress is lost; the table is in a file.
tasksLost == tasks' = [t \in Tasks |-> NoTask] /\ UNCHANGED <<x402Vars, delivered>>

\* An unhandled rejection ends the process.
unguardedServiceFails(t) ==
    /\ at(t, "service") /\ tasks[t].service = "unguarded"
    /\ tasksLost

taskProceeds(t) ==
    \/ issueRequest(t) \/ refuseChallenge(t)
    \/ proofVerified(t) \/ proofRefused(t)
    \/ serviceAnswers(t) \/ serviceFails(t) \/ recomputeFails(t)

-----------------------------------------------------------------------------
\* The commerce route

\* Without a proof: nothing is awaited, and the row carries what the second
\* leg will look for.
commerceAsks ==
    /\ \E q \in CommerceIds : createX402Request(q) /\ upsertX402RequestRecord(q, "pending")
    /\ UNCHANGED <<overdue, userOps, transfers, taskVars>>

\* With a proof.  No row (400), a paid one (answered again, late or not) and a
\* late one (410) leave nothing; any other status goes on, and the table is held.
commercePresents(t) ==
    /\ tasks[t] = NoTask
    /\ \E q \in RequestIds :
        /\ table[q] \notin {"none", "paid"} /\ ~expired(q)
        /\ tasks' = [tasks EXCEPT ![t] = [awaits |-> "commerce", request |-> q, snap |-> table,
                                          service |-> "none", run |-> FALSE]]
    /\ UNCHANGED <<x402Vars, delivered>>

\* Both verifications answer a failure of their own as a refusal, so the
\* transient error that would settle unverified never occurs.  The result goes
\* to the agent; no other route hands it on.
commerceSettles(t) ==
    LET q == tasks[t].request
    IN  /\ at(t, "commerce") /\ q \in CommerceIds
        /\ onChain(q) \/ sessionEvent(q)
        /\ writeX402Requests([tasks[t].snap EXCEPT ![q] = "paid"])
        /\ ends(t)
        /\ UNCHANGED <<moneyVars, delivered>>

\* Not verified (400), or verified for a row of another route (500).
commerceRefuses(t) ==
    /\ at(t, "commerce")
    /\ ends(t)
    /\ UNCHANGED <<x402Vars, delivered>>

Commerce(t) == commerceAsks \/ commercePresents(t) \/ commerceSettles(t) \/ commerceRefuses(t)

-----------------------------------------------------------------------------
\* The handlers, as agents call them

\* The first leg is the same in all of them.
firstLeg(t) == challenge(t, "none", FALSE)

presents(t, service) ==
    /\ tasks[t] = NoTask
    /\ \E q \in RequestIds : present(t, q, service, FALSE)
    /\ UNCHANGED moneyVars

handleA2AStopOrders(t) == presents(t, "none")

handleA2ABtcPrice(t) == presents(t, "fetched")

\* With prebindOnly the payment is settled and nothing is computed.
handleA2ARiskScore(t) == presents(t, "none") \/ presents(t, "recomputed")

handleA2AXReader(t) == presents(t, "none") \/ presents(t, "recomputed")

transferIntent(t) == presents(t, "none")

\* For a request without a row it writes a fresh one at once.
kolScore(t) ==
    \/ presents(t, "none") \/ presents(t, "unguarded")
    \/ /\ tasks[t] = NoTask
       /\ \E q \in RequestIds \ CommerceIds :
              createX402Request(q) /\ upsertX402RequestRecord(q, "pending")
       /\ UNCHANGED <<overdue, userOps, transfers, taskVars>>

A2AHandlers(t) ==
    \/ firstLeg(t)
    \/ handleA2AStopOrders(t) \/ handleA2ABtcPrice(t) \/ handleA2ARiskScore(t)
    \/ handleA2AXReader(t) \/ transferIntent(t) \/ kolScore(t)

-----------------------------------------------------------------------------
\* Workflow runs: challenge, payment and proof in one call

stopOrderRun(t) == challenge(t, "none", TRUE)
btcPriceRun(t) == challenge(t, "fetched", TRUE)
riskScoreRun(t) == challenge(t, "recomputed", TRUE)
infoRun(t) == challenge(t, "recomputed", TRUE)

\* It pays for a transfer intent, and places the order when that is delivered.
hyperliquidOrderRun(t) == challenge(t, "none", TRUE)

WorkflowRuns(t) ==
    \/ stopOrderRun(t) \/ btcPriceRun(t) \/ riskScoreRun(t) \/ infoRun(t)
    \/ hyperliquidOrderRun(t)

\* /api/session/pay reads the request's row; then it is on its way.
sessionPayReads(t) ==
    /\ at(t, "pay")
    /\ IF payable(tasks[t].request) THEN goes(t, "userOp") ELSE ends(t)
    /\ UNCHANGED <<x402Vars, delivered>>

\* Funds, gas or the session's rules are short: nothing is sent, the run fails.
sessionPayRefused(t) ==
    /\ at(t, "userOp")
    /\ ends(t)
    /\ UNCHANGED <<x402Vars, delivered>>

sessionPaySucceeds(t) ==
    /\ at(t, "userOp") /\ transferMined(tasks[t].request)
    /\ goes(t, "present")
    /\ UNCHANGED <<table, issued, overdue, delivered>>

\* No answer: the same payment is posted again, or the run fails.  What was
\* sent may still be mined, and a second payment has a nonce of its own.
sessionPayUncertain(t) ==
    /\ at(t, "userOp") /\ transferUncertain(tasks[t].request)
    /\ goes(t, "pay") \/ ends(t)
    /\ UNCHANGED <<table, issued, overdue, delivered>>

\* The handler is called again with the proof.  A row that is gone fails the run.
runPresents(t) ==
    /\ at(t, "present")
    /\ \/ present(t, tasks[t].request, tasks[t].service, TRUE)
       \/ table[tasks[t].request] = "none" /\ ends(t) /\ UNCHANGED <<table, delivered>>
    /\ UNCHANGED moneyVars

runProceeds(t) ==
    \/ sessionPayReads(t) \/ sessionPayRefused(t)
    \/ sessionPaySucceeds(t) \/ sessionPayUncertain(t) \/ runPresents(t)
=============================================================================
