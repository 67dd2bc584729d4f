# Verification of the KTrace platform backend

TLA+ models of the part of this repository that holds and moves other people's
money: the settlement escrow (`src/backend/contracts/JobEscrowV4.sol`), the
backend's *job lane* that drives it (`src/backend/routes/jobLane/`), the approvals
an owner gives to large fundings, the smart account with session keys that pays
(`src/backend/contracts/KTraceAccountV3SessionExecute.sol`), the x402 requests that
task handlers, workflow runs and service calls work on together, the route that makes
a session payment, the intents and the authority that bound a paying consumer, and the
files and the database mirror all of it is kept in. TLC checks the models on small
instances; TLAPS proves the main results about each of them for every value of the
constants.

## 1. The system

A requester posts a job, funds it, an executor accepts it and submits a result,
a validator approves or rejects it. The tokens sit in a contract in between. All
parties act through ERC-4337 smart accounts ("AA wallets") that the backend
operates with session keys, and each step is also published as an *anchor* in a
registry contract.

| Component | State it keeps | Operations | Hard behaviour | What makes it correct |
|---|---|---|---|---|
| Settlement escrow (`JobEscrowV4.sol`, `TraceAnchorGuard.sol`) | one record per job, the token balance, the guard and its pending change | `lockFunds` `claimJob` `acceptJob` `submitResult` `validate` `expireJob`, five owner transactions | any order of transactions by anybody; one token pool for all jobs; deadlines | payouts follow the records, terms are fixed, no deposit is stuck, a guard change is announced |
| Job lane (`jobMutationRoutes.js`, `sharedJobState.js`) | a JSON/PG row per job, requests in flight | create, fund (sync, async), claim, accept, submit (delivery, service), validate, complete, reject, prepare-funding | handlers await the chain between reading and writing a whole row; timeouts of calls that are mined later; crash between settlement and write | a row never claims more than the contract; one verdict per job; result anchored first |
| Job expiry (`jobExpiryExecutor.js`, `jobExpiryLoop.js`) | none of its own | expire route, watcher tick | races with every handler; must eventually happen | overdue jobs end |
| Escrow calls (`escrowHelpers.js`) | none | lock, claim, accept, submit, validate, expire, prepare | retries, timeouts, lost receipts | outcome reported to the lane |
| Lifecycle anchors (`JobLifecycleAnchorV1/V2.sol`, `onchainAnchors.js`) | append-only registry | publish, `hasAnchor` | owner-only publication, best effort at most call sites | the guard's condition |
| Approvals (`jobApprovalHelpers.js`, `coreIdentityChatRoutes.impl.js`) | approval rows, capped at 2000 | create, approve (funds the job over HTTP), reject, expire on read | decision races with the funding it released | nothing is funded without a granted approval |
| Session accounts (`KTraceAccountV3SessionExecute.sol`) | sessions, rules, spending windows, nonces, permissions | create, revoke, expire, pay, execute | validation and execution are separate; re-created sessions | budgets per window, no replay, revocation |
| x402 requests (`x402WorkflowHelpers.js`, `paymentPolicyHelpers.js`) | one table of requests, written whole | create, verify a proof, mark paid, expire by timer or route | every handler keeps its own copy of the table across awaits; payments whose answer is lost are mined later; one transaction is presented for several requests | paid means that a transfer agrees with the terms |
| Session payments (`sessionPay.js`, `/api/session/pay` in `automationX402Routes.js`, `withSessionUserOpLock`, `gokite-aa-sdk.js`) | the queue per payer, payment records | post with retries and timeouts, queue, submit, wait for the receipt, record | the client gives up while the call goes on; refused, lost, dropped and late user operations; an exception after every failure | nobody pays twice, nor is told paid without a transfer |
| Task handlers, commerce route and workflow runs (`marketAgentServiceRoutes.js`, `automationX402Routes.js`, `workflowRunRoutes.js`, `a2aTaskNetworkRoutes.js`, `a2aCommerceRoutes.js`) | calls in progress | five task handlers, transfer intent, KOL score, commerce invocation, five runs | proof, service and write are separate awaits; one failure ends the process | a result is handed out for a payment; a paid row stays paid |
| Service calls and direct buys (`marketAgentServiceRoutes.js`, `templateRoutes.js`) | calls in progress, the row each holds | invoke over five routes, buy | timeouts and retries of calls that go on working; a catch block that writes what it holds | the intent ends as the call did |
| Consumer authority (`consumerAuthority.js`) | intents, the authority | begin, finalize, compact; write and revoke a policy | conflicts, crashes with an open intent, compaction by age and number | a key executes once; a revocation holds |
| Persistence (`persistence.js`, `persistenceStore.js`, `infraBootstrap.js`) | cache, JSON files, rows in PostgreSQL | read, write, seed, hydrate | upserts land in any order; a start copies rows over files; a file may be cut off | the last answered write of a document survives restarts |
| Market agents, network directory, MCP, CLI, UI | catalogue rows, feeds | HTTP orchestration | mostly I/O | not modelled (section 7) |

How they interact: a lane handler reads a job row, calls the escrow through an AA
wallet (a user operation through the bundler) and awaits it, publishes an anchor,
and writes the row. The watcher loop and the expire route share one executor. The
contract asks the guard, and the guard asks the anchor registry, whether a job is
anchored when a result is submitted. Nothing ever reads the contract's state back
into a row. Service calls reach task handlers and workflow routes over HTTP, and workflow
runs reach the payment route and the task handlers the same way; what joins them is the
table of requests and the chain. Every table is one document of the persistence layer.

`PROJECT.json` lists every component with its status, and every hazard at the line
where it bites.

## 2. The modules

| Module | What it is |
|---|---|
| `EscrowPromise` | abstract specification: each job is a pot fed by a payer and at most one payee, paid out whole, once, to one of the two |
| `JobEscrow` | the contract, its guard, the anchor registry's `hasAnchor` and the token; properties; the refinement mapping to `EscrowPromise` |
| `GuardHistory` | `JobEscrow` with the announcement of a guard that still stands, as a history variable; `GuardNotice` |
| `MCJobEscrow` | instances of `GuardHistory`, under one of two loads |
| `SumTheorems` | lemmas about sums over finite sets (`SumFunctionOnSet`), used by two of the proof modules |
| `JobEscrowProofs` | theorems about `JobEscrow` and `GuardHistory` |
| `JobLane` | the lane and the expiry executor, composed with `JobEscrow` (it EXTENDS it: an escrow call executes that module's transaction) |
| `LaneHistory` | `JobLane` with a note of whether two requests were ever in flight together; `RecordsOnlyAdvance` |
| `JobLaneProofs` | theorems about `JobLane` and `LaneHistory` (EXTENDS `JobEscrowProofs`) |
| `JobApproval` | funding above the approval threshold: the fund route's approval branch and the owner's decisions, around the lane up to acceptance (EXTENDS `JobLane`) |
| `JobApprovalProofs` | theorems about `JobApproval` (EXTENDS `JobLaneProofs`) |
| `MCJobLane` | instances of `LaneHistory` and `JobApproval`, under one of four loads |
| `SessionAccount` | the AA wallet: sessions, spending rules, permissions, authorizations, bundles of user operations |
| `SessionWindows` | `SessionAccount` with the number of payments older than each session, as a history variable; `WindowBudget` |
| `MCSessionAccount` | an instance of `SessionWindows` |
| `SessionAccountProofs` | theorems about `SessionAccount` and `SessionWindows` |
| `X402Requests` | the table of requests, the transfers on the chain, what a proof is verified against, and what happens to all three without a handler |
| `A2ATasks` | the paid task handlers, the commerce route and the workflow runs (EXTENDS `X402Requests`) |
| `ConsumerIntents` | the intents table and the authority |
| `ServiceInvoke` | service calls and direct buys (EXTENDS `X402Requests` and `ConsumerIntents`) |
| `Payments` | the composition of the four above in one process that may crash; its properties |
| `MCPayments` | an instance of `Payments` |
| `PaymentsProofs` | theorems about `Payments` |
| `SessionPay` | one payer's session payments from the inside: clients, calls of the route, the queue, the bundler |
| `MCSessionPay` | an instance |
| `SessionPayProofs` | theorems about `SessionPay` |
| `PersistenceMirror` | cache, files and mirror of every document, through starts and stops |
| `MCPersistenceMirror` | an instance |
| `PersistenceMirrorProofs` | theorems about `PersistenceMirror` |

### JobEscrow

One variable per storage slot that matters (`jobs`, `owner`, `traceAnchorGuard`,
`pendingTraceAnchorGuard`, `guardChangeReadyAt`), plus `balance` (the token),
`now` (`block.timestamp`) and `anchored` (the registry). A transaction is one
action: each `require` is a conjunct, a revert is a step that does not happen, and
the sender is a parameter, so anybody may try anything. `_deadlineReached` is
strict (`>`), `lockFunds` needs a deadline strictly ahead, as in the source.
Result hashes, evidence hashes and events are left out; reentrancy is not modelled
(the token is an ordinary ERC-20 and the contract writes its state before it
pays). A failing transfer reverts.

### JobLane

`records` is the jobs table reduced to the fields that later steps read: the
state, the executor and whether a submit anchor is recorded. `requests` holds, per
slot, one HTTP request in flight: the snapshot it read (`job`), what it awaits
(the provider's service, the submit anchor, the escrow call, its receipt, the closing
anchor) and what it will write. A handler is therefore a chain of actions cut at
its `await`s: `fundJob`, `acceptRoute`, ... run to the first await; `escrowMined`
executes the transaction of `JobEscrow`; `fundOrAcceptSucceeds`,
`submitSucceeds`, `validateSucceeds` continue; `anchorReturns` writes the row from
the snapshot. `escrowFails` is a revert, a timeout or a lost receipt: the call may
be forgotten or left in `late`, from where `lateMined` may still execute it
(`withTimeout` in `escrowHelpers.js` abandons the promise, it does not cancel the user
operation). `Crash` forgets the requests; rows, contract and sent calls stay.

Two consequences of the code that the model keeps:

* the catch blocks of both submit paths read a variable that is declared nowhere
  (`jobMutationRoutes.js` 1412 and 1614). After a *delivered* submit that is an
  unhandled rejection, which ends the process (`deliveryFails`); on the *service* path an
  outer handler catches it and writes back the row read at the start.
* `executeJobExpiry` calls `expireEscrowJob` without a requester, which throws before
  anything is sent, so a funded, accepted or submitted job is never expired by
  the backend. Its only effective branch is the local one.

Assumptions of the model, all stated in the module or here: the escrow contract is
configured (otherwise every escrow call is a no-op and the lane is a local state
machine); funding is below the approval threshold in `JobLane` (`JobApproval` is
the lane above it) and carries no `intentId` (section 6); addresses in requests are the
ones of the record; `complete` and `reject` always answer 409 for a job created through this
API and change nothing; `prepare-funding` writes fields no other step reads.

### JobApproval

`approvals` is each job's own row of the approvals table (one per job: a job that would ask
a second time stops there, and `AskedOnce` says which jobs never would) and `resuming` counts the
approve requests that await the fund request they posted. `awaitApproval` and
`fundApproved` are the two ways the fund route takes above the threshold; the fund
handlers' success and failure are those of `JobLane` conjoined with what they write
into the approval (`fundCompletes`, `fundGivenUp`). `approve`, `reject` and
`maybeExpireApprovalRecord` run without an await, so each is one action: it changes
the approval and the job's record together, whatever is in flight on the job. The
approve handler then posts the fund request, which the model leaves to any
`fundApproved` that follows, and `resumeReturns` is its answer, its failure or its
timeout. An approval that has expired may still be rejected; one that was approved may
be approved again: both as in the source.

The fund route looks up `body.approvalId || job.approvalId` (`jobMutationRoutes.js:613`) and
asks of the row it finds only that it is a job's and what was decided; it never compares
`jobId`. So `fundApproved(s, j, op, k)` funds `j` by the approval of any `k`,
`approvalFoundExpired(j, k)` expires `k`'s approval and `j`'s row, and what the funding writes
at its end, it writes to `j`'s own approval. The history variable `releases` keeps whose approvals released fundings of `j`:
the properties say what holds of every job, and what only of a job that its own approval
released. (A request that names a token must name that of the row; no token
is asked for, so the model has none.)

### SessionAccount

One variable per mapping of the contract, plus `payments` (the emitted
`SessionPaymentExecuted` events, with their time), `bundle` and `executing` (the user
operations the EntryPoint has validated and not yet executed) and `now`. The
EntryPoint validates every operation of a bundle before it executes the first, within
one transaction: `validateUserOp` appends, `executePayment`, `executeWithSession` and
`opReverts` consume, and neither the clock nor the owner moves in between.
`executeTransferWithAuthorizationAndProvider` has no restriction on its caller, so it
is also an action of its own: a relayer's, before or between operations. The owner's
signature validates any operation, so an operation in the bundle need not have passed
the session's rules. `checkSpendingRules` and `consumeSpendingRules` are kept apart
as in the source, where the second evaluates the rules again.

A session that is created under an id used before inherits what the contract does not
clear: nonces, windows, permissions, the expiry (a past one makes the new session
unusable until it is set), and the providers of the rules, to which the new ones are
appended. The model keeps all of it. Used nonces are kept per session, and so is
the promise about them. Signatures are the signer's name; token balances, what a
permitted call does to its target, gas and prefunding are left out (`opReverts`
stands for whatever fails there).

### X402Requests, A2ATasks, ConsumerIntents, ServiceInvoke, Payments

`table` is the file of x402 requests, one status per request; `issued` and `overdue`
are the ids ever made and those past `expiresAt`. The chain knows no requests. It has two counters per
kind of transfer (payer, token and recipient, amount): `transfers` that were mined and `userOps` that were
sent and that nobody follows any more. `terms` is what each request asks for; a request may name no payer.
`onChain` is `verifyProofOnChain`: some successful transfer to the recipient, of the amount, and from the payer if
one is named. Nothing records which transactions were presented, so one transfer does for any number of requests of
equal terms, whether it was made for one of them, for another purpose, or before they were issued
(`agentPays`). `sessionEvent` is `verifySessionPaymentEvent`, the second chance of the commerce route, which does not
compare the amount and looks only at the address that emitted the event. A session account (`Accounts`, whose code is
`SessionAccount`) emits it with a payment; another address named as payer may hold any code, and the model lets its
event be there without one.

`tasks` holds, per slot, a call of a handler: what it awaits, its request, and
`snap`, the copy of the whole table it read at the start. All handlers have the same two
legs (`challenge` and `issueRequest`; `present`, `proofVerified`, `serviceAnswers`); they
differ in what they await between the check of the proof and the write, and each has an
action of its own that says which. A workflow run makes both legs and pays in between
(`sessionPayReads`, `sessionPaySucceeds`, `sessionPayUncertain`). `settle` writes the
copy back with the request marked paid, as the code does: rows that others changed
meanwhile revert, and rows they added are lost. `unguardedServiceFails` is the one await
without a catch, in the KOL score route: it ends the process. The commerce route has two legs
of its own. The first writes its row without an await (`commerceAsks`); the second goes on with any row that is
neither paid nor late, holds its copy of the table over both verifications, and settles only rows that the first
leg made, which are those of `CommerceIds` (`commerceSettles`): only these keep the metadata it looks for at line 213.
Its branch for a transient failure of the verification is not in the model because it is never
reached: both verifications catch what they throw and answer it as a refusal.

`calls` holds the service calls and buys. A call keeps the *row* of its request, not the
table, and writes it back at several points (`copy`); `invokeFails` is the catch block,
which writes that row as failed and finalizes the intent. A call that calls a task
handler or a workflow route only sees its outcome: what it may be told is what the
handlers of `A2ATasks` deliver (`delivered`), or anything else. `past` keeps what the
properties need of a call that ended.

`intents` has a status and an age per key: "retired" is a week since the last change,
"crowded" five thousand rows changed since. `compactConsumerIntentRows` runs inside every
read, a refused one too. `forgettable` is history: keys whose row compaction was once
allowed to drop. `authority` has the two fields `validateConsumerAuthority` looks at; a
policy written after a revocation sets the status and keeps `revokedAt`, which is why the
call is still refused.

Assumptions: an intent's call does not last a week. In two points the model lets more be verified than the code
does, not less: a payment event is taken to exist for every transfer of a session account, also one no session made; and a
session payment may come from any payer, although a call presents the payment it made itself. Inside `/api/session/pay` only the outcomes are modelled (`SessionPay` has
the rest).

### SessionPay

A client (`clients`) is one logical payment, an invocation of `postSessionPayWithRetry`;
each of its posts starts a call of the route (`calls`), which signs an authorization with a nonce
of its own. `abort` is the client's timer or its caller's signal: the client posts again or
fails, and the call goes on. A call passes its checks, takes its place behind the payer's
other calls (`enqueue`, `takeTurn`), reads the wallet's nonce (0 when it cannot), hands the
user operation to the bundler and polls for the receipt. `behind` is the promise chain of
`withSessionUserOpLock`: the gates of all calls that were in line before; `tail` is the map's
entry, which `release` deletes if nobody came after. Escrow calls of the same wallet do not
take the lock (`otherOpMined`).

The route's loop of attempts, its tracking of user operations that were sent, and the
relayer are not in the model because they are never reached: after an attempt that
did not succeed, the condition at `automationX402Routes.js:800` reads
`submittedUserOpHash`, which is declared with `const` inside the `try` block at 787. The
`ReferenceError` leaves the lock and is answered as a 500 whose reason is the exception's
message; the client classifies it as unknown and does not post again (`attemptFails`).
So a payment that was submitted and is mined late is reported as failed, once,
and nothing follows it. That is also why a failed attempt never leads to a second payment.

### PersistenceMirror

A document is whatever its last writer made of it: one of a few opaque contents.
`writeJsonArray` and `writeJsonObject` replace it by the array or object the caller
passes, in the cache and in the file and without an await, however old the copy was that the
caller made it from; the model's writer passes any content. (`modifyJsonArray`, which
would read and write in one step, has no caller.) A write also queues an upsert of the whole
document (`queries`) that is answered, or fails, in any order, because each is started
without waiting for the one before. One failure turns the mirror off (`connected`) until the
next start. Start-up is two passes over the documents, `seedPersistenceFromFilesIfMissing`
and `hydratePersistenceCachesFromDatabase`, with the connection failing in between. A
stop leaves unanswered upserts on the way (`orphans`).

`answered` and `written` remember the last write of each document. `exposed` is a history
variable: the documents to which something happened that may cost that write, each at the
action that does it. There are five such things: a write while another upsert of the document
is on its way, a write while the mirror is off and holds the document (the next start copies the
older row over the file), an upsert that failed, an upsert unanswered when the process
ended, a file that was cut off. That a change is *in* the last write is not promised here: a
caller that writes back an old copy takes out what others wrote in between. Those losses are
the business of the components that hold copies, and `RowsLost` in `Payments` and
`SubmittedOnlySettles` in the lane are about them.

## 3. The runs

| Run | Question | Instance |
|---|---|---|
| `escrow` | do balances follow the records, are terms fixed, is the abstract escrow implemented, whatever the order of transactions? Is a guard in force only ever replaced by one announced long enough before, and is every deposit resolved under any guard? | 2 parties in any role, 4 tokens each, amount 2, stake 1, 4 time steps; 2 jobs, or 1 job with 2 guards and delay 2 |
| `guard_direct` (violation) | the comment of `setTraceAnchorGuard` | 1 job, 2 guards, delay 2 |
| `lane` | may a row, a verdict or a submit run ahead of the contract? Does a row only move forward when requests do not overlap? Is anything locked without a granted approval, and whose, does `completed` mean locked, is the owner asked once? | 1 job, 2 requests at a time, 2 executors, 1 late call, 1 crash; or 1 request at a time, 2 crashes, a guard; or fundings above the threshold, 2 approve requests in flight; or 1 such funding at a time beside a second job's approval |
| `lane_overlap` (violation) | the documented state machine with overlapping requests | 2 requests, no late call, no crash |
| `lane_reanchor` (violation) | the test's "guard retry should not republish anchor" | 1 request at a time |
| `lane_overdue` (violation) | does the watcher expire overdue jobs? | 1 request at a time, fair |
| `approval_reject` (violation) | does a rejection stand? | 1 request, 1 late call, no crash |
| `session` | do budgets hold per window, is every authorization spent at most once, does what was validated have room? | 1 session id, re-created at will, 2 rules, 2 nonces, bundles of 2 operations, times 1 to 3 |
| `payments` | is everything said to be paid paid, does a key execute once, what may undo or lose a row, does a revocation hold? | 2 requests of equal terms with 2 handlers, 2 calls, one of each, or a call and the owner; or 1 of these and 1 of the commerce route with another amount, with 2 handlers; 1 intent, 1 transfer |
| `session_pay` | is a payment made twice, is anybody told paid without a transfer, does the payer's queue let one through at a time, can it get stuck, and does it drain? | 2 clients, 3 posts between them, 2 per client, 2 nonces |
| `session_pay_retry` (violation) | the comment on the client's timeout | 1 client, 2 posts |
| `mirror` | does a document read as it was last written, also after restarts; does the mirror catch up; is nothing read cold behind it? | 2 documents, 3 contents, 3 starts, 3 upserts on their way |

Bounds. Jobs interact only through the token pool, so two jobs show every
interference a payout can have; two parties already play all combinations of the
three roles, coinciding ones included. A guard concerns each job alone, so
`MCJobEscrow` chooses at the start between two jobs without the owner's transactions and one
job among them. The parties are alike and the jobs are alike, so one of each is taken to be first;
that replaces symmetry, which liveness forbids. `MaxTime` is one tick beyond a deadline that
leaves room before, at and after it. In the lane jobs interact only
through approvals that name another job (each row and each contract record is touched only by requests on it), so one
job is enough but for those, and two slots give every pairwise overlap; a third request adds
nothing new in kind, since a handler only ever meets one foreign write between its
read and its own. `MaxLate` and `MaxCrashes` bound faults, `MaxAnchors` the published submit anchors.
`MCJobLane` chooses between four loads; in those of the approvals an approval lives for one tick
of four, so that it may expire before, during and after a funding; only `funding` keeps the first
tick, in which an approval expires while its job has time left. The guard is in the load `serial` alone:
without one nothing reads the anchors but those of results, so the other loads leave the rest out,
and after their one crash they publish no second anchor of a result and await one approve request
at a time (`WithoutGuard`). In the load `lending` a second job is only asked about and decided on, its approval may be
named for the first, requests come one at a time and end with the funding, and nothing crashes. In `session` sessions do not interact (each keeps its own rules,
windows and nonces), so one id is enough; two nonces and two operations per bundle are the least
for a replay and for two payments that each fit and together do not; windows of length
2 and 3, one of them starting at time 2, roll over and open within three time steps;
one rule list has a cap per payment beside a budget per window, the other a rule for one provider only.
In `payments` a handler disturbs a request of another by the copy it holds, so two requests
and two handlers show every pairwise loss; two calls are the least for a key used twice and
for a buy with the call made for it; one transfer is enough, since properties ask
whether there is one, and least of all can two requests have one each: it is presented for both, or for a commerce
request whose amount it does not have. The commerce request is there when two handlers work, without calls, which
never serve one. Payers and recipients are one each (a request that names no payer, and transfers of
other parties, are left to the proof, which holds for any terms). A call's slot is used once, and requests are not reissued: the run ends in states where
nothing is left to do, which is why deadlock is not checked there. In `session_pay` three posts are the least for a client that posts twice beside another
one in the queue; two nonces let one user operation overtake another, and leave one of two with
the same nonce behind. In `mirror` two
documents share one connection, which is all that joins them; three contents, one of them that
of a file cut off, tell the last write from the one before; three lives of
the process are what the longest loss needs (a write, a start
without the database, another write, a start that hydrates); and no more than three upserts,
of this process and earlier ones, are on their way (`MaxUpserts`): two of a document are enough to
change places.
Symmetry is used where executors, slots, calls, random ids or nonces are interchangeable, and only in
runs without liveness.

What the runs show:

* `JobsCoherent`, `BalancesExplained`, `TransfersMatchRecords`, `TermsFixed`,
  `KeepsPromise`: the token ledger of the contract can be rebuilt from the job table
  after any history; no payout draws on another job.
* `RecordsBacked`: the lane's rows may lag behind the contract, never lead it. It
  holds with overlap, late calls and crashes, because a handler only writes a state
  it has seen mined and the contract never goes back.
* `VerdictsSettled`: reputation is recorded once per job and as the contract settled
  it, although the signal is written before the row.
* `SubmitsAnchored`: with `ERC8183_JOB_ANCHOR_REGISTRY` set, no result reaches the contract
  without a confirmed anchor, also through retries and late calls.
* `ApprovalsMatchContract`, `AskedOnce`: above the threshold nothing is locked for
  an owner who was not asked or without a granted approval, and
  `completed` is never claimed before the lock. That the granted approval is the job's own
  is as much as the requests that name it: once a request has named another job's, the job may be
  funded while its own approval is pending, or has expired, and a failing funding puts its own approval back to
  what the request had read, a decision included. Otherwise a failed funding finds the
  decision taken and never asks again.
* `NonceOnce`, `ValidatedExecutes`, `WindowBudget`: the account never pays one
  authorization twice under a session, never counts more into a window than its
  budget although bundles are validated ahead of execution, and never accepts an
  operation for a budget reason that its execution refuses in the same state. (A second
  operation of the bundle may still revert: that is what protects the budget.)
* `RecordsOnlyAdvance` holds as long as no two requests were ever in flight together and
  fails after that: that is the finding of `lane_overlap`. Run `lane` chooses at the start whether
  requests may overlap; one that may says nothing more about order once they have.
* `PaidBacked`, `CompletedServed`: whatever copies are written back, over whatever became
  of the row, and whichever proof is presented for it, `paid` is only ever written, and results are only handed out, for a
  request whose terms a transfer on the chain agrees with; a commerce request may have one of another amount, and needs
  none if its payer is not a session account (section 2). That the
  request has a transfer of its own is not so, and not claimed: one payment unlocks every request of equal terms.
* `PaidUndone`, `RowsLost`: the converse does not hold, and these say exactly when. A
  handler that read the table before another one settled puts the other's row back; the
  catch block of a service call writes a paid row as failed; the mirror of the code's own
  convention (read the whole table, await, write the whole table) loses a row that was
  added meanwhile. `transfers` stays, so the payer's money is gone and its request is not paid.
* `OneExecution`, `StuckExplained`: a key executes once until its row may be compacted;
  an intent that never ends is one of a call that was answered with a 402 or a 409
  after it began, or was cut off by a crash. Nothing finalizes these: retries answer a
  conflict until five thousand other keys were used.
* `PaidTwiceOnlyAbandoned`: failed attempts, bundler timeouts, lost answers, late mining and crashes never make
  a client pay twice; giving up on a call that is at work may, and only that.
* `AnsweredPaidMined`: paid is only ever answered, and recorded, with a transfer. The converse
  does not hold: a transfer that is mined late has neither.
* `OneSender`, `QueueMoves`, `QueueDrains`: the queue lets one call of the payer through at a time although its map
  entry comes and goes, its calls never wait in a circle or for a gate that nobody opens, and the
  exception at every failure still opens it.
* `RevokedAdmitsNone`: a policy written after a revocation says active and lets nobody in.
* `LatestServed`, `MirrorCatchesUp`, `ColdOnlyUnmirrored`: the five conditions of `exposed`
  are all that may cost the last answered write of a document. What an earlier write had, and the
  last one, made from an older copy, has not, is gone with nothing exposed. persistence.js:133 calls the file the one "for crash
  recovery" and the mirror an "async backup"; the start-up of `infraBootstrap.js` copies
  every row over its file, so it is the row that is recovered, and what was written to
  the file while the mirror was off is lost at the next start that reaches the database.

Findings (each is a violation run with its quote in `PROJECT.json`): the immediate
guard setter is open again after a timelocked change to `address(0)`; an asynchronous
fund that fails late overwrites whatever the row has become; a service submit that
fails at the escrow loses its anchor and republishes it; the watcher never expires a
job that has money in escrow; a rejection is overwritten by the funding it came too
late for; the client of a session payment gives up before the route does, posts
again and pays twice.

## 4. Fairness

`MCFairSpec` of the escrow asks for weak fairness of `Tick` (blocks keep coming) and of
`expireJob(j)`: the function takes no particular caller, and the requester has its deposit to gain.
No fairness is asked of executors, validators or the owner. `LaneFairSpec` asks
for `Tick`, for every request in flight to make its next step (Node's event loop
resolves or times out every await of these handlers: `withTimeout`), and for `executeJobExpiry` on each
job, because the watcher scans all rows at an interval (`jobExpiryLoop.js`).
`CallFairness` (session payments) asks that a call of the route ends each of its awaits: requests
to node and bundler have timeouts (`callBundlerRpc`), the wait for a receipt ends after 180 seconds
whatever the bundler does (`waitForUserOperation`), and a promise whose gate is open resolves.
Nothing is asked of clients, the bundler or the chain.
No fairness is asked in the other models: payments and persistence have no step that
the code owes a caller beyond answering, and what never ends there is described by
`StuckExplained` and `MirrorCatchesUp`.

## 5. Proofs

All proofs hold for every set of jobs, parties, amounts, stakes, guards, sessions, rules,
requests, keys, clients, documents and values, and every bound on time, bundles, crashes and
retries, from the named assumptions on the constants, which TLC evaluates in the runs. They ask that the
special values are distinct (`EscrowAssumption`, `LaneAssumption`, `SessionPayAssumption`),
that amounts, delays and bounds are natural numbers, positive where the code makes them so, that there
are finitely many job ids (`BalancesExplained` adds over them) and, for the
lane, that requester, validator and executors are parties.

Three properties look back over a history; `GuardHistory`, `LaneHistory` and `SessionWindows` each add
one history variable to the specification and the theorem is about `HSpec` or
`LaneHSpec`. Two of the variables are a function of the step; that the third takes none away is
`EveryStepRecorded`.

`SumTheorems`. A sum over a set is computed by choosing one member after another, and the library's
induction theorems take an operator, which the provers cannot instantiate. What is needed
is therefore proved as arguments about a minimal counterexample: a nonempty set of subsets of a
finite set has a member with no smaller one in it (`MinimalSubset`), a nonempty set of naturals
a least element (`LeastNatural`). `SumsExist` shows that the function a sum is defined by exists (there is no least size
of sets up to which it does not), `SumsAgree` that it is the same over a smaller set, and `SumRemove`
that any member may be taken out, not only the one CHOOSE takes. `SumChange` (one value changes),
`SumSame` and `SumAdd` follow.

`JobEscrowProofs`:

* `EscrowInvariant`: `Spec => []EscrowInv`, with `EscrowInv == TypeOK /\ JobsCoherent`.
  Neither part is inductive alone: that a balance stays natural needs that payouts
  go to real parties (from coherence), and coherence needs the types.
* `EscrowTyped`, `EscrowCoherent`: its two parts.
* `EscrowTransfers`, `EscrowTerms`: the action properties, step by step from the
  invariant.
* `EscrowKeepsPromise`: every transaction maps to one step of `EscrowPromise` or to a
  stutter, under the mapping `phaseOf`, `payerOf`, `payeeOf`, `potOf`, `walletOf`.

* `EscrowBalances`: `BalancesExplained` for any finite set of jobs. A transaction changes one record
  (`EscrowTransfers`), so by `SumChange` the sum for the contract, and that for each party, moves by what
  the token moves.
* `EscrowCovered`: hence the contract holds what each job is owed, and no payout fails for want of tokens.
* `EscrowGuardNotice`: `GuardNotice` with the invariant `NoticeStands`: a pending change is the announcement
  that still stands, and is ready exactly `GuardDelay` after it. Changes of the owner, repeated
  proposals and cancellations keep it.

The argument has one lemma per transaction and conjunct it can disturb; owner
transactions, the registry and the clock leave the jobs and the tokens alone.

`JobLaneProofs` (`LaneTyped`, `LaneRecordsBacked`, `LaneVerdictsSettled`,
`LaneSubmitsAnchored`, `LaneImplementsEscrow`). A row is written from a snapshot taken
several awaits earlier, so no property is inductive: `LaneInv` adds what each request in
flight and each late call may claim of the contract (`RowHonest` for what a row says,
`Honest` per request by what it awaits, `CallHonest` per late call) and that at most one
request is about to record a verdict (`OneVerdict`). Contract records only grow (`Grows`), so
what was true of them stays true through any step of anybody else (`SaidLasts`,
`HonestLasts`, `CallLasts`); each action then only has to justify its own request and
its own write. `LaneImplementsEscrow` says that every step of the lane is one of `JobEscrow` or
changes nothing there, so the theorems above hold of the composed system.
`LaneRecordsAdvance` proves `RecordsOnlyAdvance`. While no two requests have been in flight together, the one that is
finds its job's record in the state its checks asked for (`InTheirStates`), until it writes; a
crash, a call mined late and a guard do not touch the record. With a second request in
flight the invariant is lost at once, as `lane_overlap` shows.

`JobApprovalProofs` (`ApprovalTyped`, `ApprovalRecordsBacked`, `ApprovalsMatch`, `OwnerAskedOnce`,
`ApprovalImplementsEscrow`). `FundingInvariant` is `LaneInv` with: a record's approval state is one the
approval has or had (`RowDecided`), and a fund request, or a late funding, of a job is
only there when an approval released it and, unless that was another job's, its owner has decided
(`DecidedFirst`, `Released`). That carries `ApprovalsMatchContract` across the
await between the decision and the lock.

`SessionAccountProofs`:

* `SessionTyped`: the types, with a lemma that a window never starts before time
  zero (an integer division and a remainder, for every window length).
* `SessionNonceOnce`: `NonceOnce` is not inductive; the strengthening says that the
  nonce of every payment made is in `usedNonces` of its session, which no operation
  ever shrinks, a re-creation included.
* `SessionValidatedExecutes`: a fact about every well-typed state. The check
  reads the stored window if its start is the current one and zero otherwise, the
  counting reads the window it has just reopened; they agree.
* `SessionWindowBudget`: `WindowBudget` speaks of the payments made, the contract keeps one total
  per rule. `WindowInv` relates the two for every window k of a rule: what k counts is within
  the budget; if the stored total stands for k it is at least what k counts; and if k counts anything,
  the stored total stands for k or a later window that has opened. The last part is what makes a
  total that stands for another window mean an empty one (`CountedPaymentKept`): windows neither overlap
  nor come back (`WindowOrder`, `CurrentWindow`, for every length and start). A session that is created
  again has no history (`NewSessionKept`), whatever totals its predecessor left behind.

`PaymentsProofs`: the types, `PaymentsBacked`, `IntentExecutesOnce`, `StuckIntentsExplained`,
`CompletedIntentsServed`, and the action properties `RowsLostOnlyByCopies`, `PaidRowsUndone`,
`RevokedLetsNoneIn`. `PaymentsInv` says that the table (`TableHonest`), the copy of the table each
handler holds (`TaskHonest`) and the row each call holds (`CallHonest`) call paid only what has a
transfer that agrees with its terms (`backedRequests`, a set that verification implies, `VerifiedBacked`, and that only grows,
`LedgerGrows`); so whichever copy is written last, the table stays
honest. `IntentsInv` adds that a key in progress or completed is claimed by a call, that two
claims need a row that could be dropped, and that a revoked authority keeps its
`revokedAt`. The action properties follow from what each action writes (`TaskWrites`,
`CallWrites`).

`SessionPayProofs` (`SessionPayTyped`, `PaidTwiceExplained`, `AnsweredPaid`, `OneAtATime`,
`QueueNeverStuck`). Whether
a payment is made twice is decided long after the second post, by the bundler. The
invariant therefore speaks of *live* calls, which may still lead to a transfer (at work, at
the bundler, or mined): of two live calls of a client one was abandoned, and a client
that may post again has abandoned all its live calls (`PayingAbandoned`). A failure that may be
posted again comes before anything is sent, so it ends its call's life. For the queue,
`LineOrdered`: of two calls in line one is behind the other, the map's entry is the last, and
whoever is inside has only open gates before it. `QueueNeverStuck` adds `LineChained`: the calls one in line
is behind are done, or in line behind fewer. Of those in line the one behind the fewest (`MinimalSubset`)
can go, for any number of calls.

`PersistenceMirrorProofs` (`MirrorTyped`, `LastWriteServed`, `MirrorComplete`, `MirroredWarm`).
The strengthening follows the last answered write of an unexposed document to wherever the next
start will look: the file, the upsert on its way, the row, and the cache; an upsert left
by an earlier process exposes its document (`OrphansExposed`), and while the mirror is on every
document has been hydrated (`Warm`).

Only model-checked: `EventuallyResolved` and `QueueDrains` (liveness under fairness, which is out
of this prover's reach; their safety halves are proved: `EscrowCovered`, that an expiry never lacks
the tokens it pays out, and `QueueNeverStuck`), and the six violation runs. Every invariant and every action property of a
passing run is a theorem.

## 6. Plan

1. The daily limit: a payment's check of the sum of past records and the record it writes after
   its awaits (`paymentPolicyHelpers.js:229`), over `SessionPay`; a property would need amounts and days.
2. Fundings with an `intentId`, which compose `ConsumerIntents` with `JobLane`.
3. Results kept for agents to pull (`agent001Orchestrator.js`) beside the table of requests.
4. The escrow's read model (`escrowReadModel.js`) as the repair of a record that lags behind
   the contract, if the code grows one that writes.

## 7. Not modelled

* *Payment policies and daily limits*, scopes of the consumer authority: they refuse a call before it
  leaves a trace in the modelled state.
* *Receipts, invocations, purchases, trust artefacts*: written beside the modelled outcome, with
  the same content; catalogues, directory and network commands write rows of their own (the commerce route is in `A2ATasks`).
* *Session preparation*: one sequence of owner transactions; every order of them is in
  `SessionAccount`.
* *Older contracts, other registries, account factories*: superseded, append-only, or
  deployment only.
* *MCP server, CLI, user interface, start-up apart from the persistence layer, market agents,
  feeds*: adapters, presentation and calls to outside services without state of their own to relate.
* Within modelled components: hashes, signatures' bytes, gas, events no property reads,
  notifications, metrics, the 2000-row cap of approvals and their tokens, sessions' approvals (they share the
  table with handlers of their own), `modifyJsonArray` of the persistence layer (nothing calls it).
