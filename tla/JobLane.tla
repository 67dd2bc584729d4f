------------------------------ MODULE JobLane ------------------------------
(***************************************************************************)
(* The job lane of the backend (routes/jobLane) on top of the settlement   *)
(* contract it drives (JobEscrow).                                         *)
(*                                                                         *)
(* The backend keeps a record per job.  A request reads the record, sends  *)
(* an escrow call through the job's AA wallet, waits for it, and writes    *)
(* the whole record back from what it read: every await lets other         *)
(* requests run.  An escrow call that timed out may still be mined, and a  *)
(* crash forgets the requests but neither the records nor their calls.     *)
(*                                                                         *)
(* The escrow contract is configured and requests carry no intentId (see   *)
(* README).  LaneNext is the lane below the approval threshold; funding    *)
(* above it is in JobApproval.                                             *)
(***************************************************************************)
EXTENDS JobEscrow, FiniteSets, Sequences

CONSTANTS
    Requester, Validator,   \* the payer and the validator of the jobs
    Executors,              \* addresses that are named executor, or claim
    Amount, ExecutorStake,  \* escrowAmount, executorStakeAmount
    ExpiresAt,              \* expiresAt, the deadline of every job
    AnchorRequired,         \* ERC8183_JOB_ANCHOR_REGISTRY is set
    Slots,                  \* requests served at the same time
    MaxLate,                \* bound on escrow calls mined after their request gave up
    MaxAnchors,             \* bound on submit anchors per job
    MaxCrashes              \* bound on crashes

ASSUME LaneAssumption ==
    /\ Requester \in Parties /\ Validator \in Parties
    /\ Executors \subseteq Parties
    /\ Amount \in Amounts /\ ExecutorStake \in Stakes
    /\ ExpiresAt \in Deadlines
    /\ AnchorRequired \in BOOLEAN
    /\ MaxLate \in Nat /\ MaxAnchors \in Nat /\ MaxCrashes \in Nat

VARIABLES
    records,    \* the jobs table of the backend
    requests,   \* requests in flight
    late,       \* escrow calls nobody waits for that may still be mined
    verdicts,   \* verdicts[j]: reputation signals recorded for the provider of j
    submitAnchors, \* submitAnchors[j]: confirmed 'submitted' anchors of j
    crashes

laneVars == <<records, requests, late, verdicts, submitAnchors, crashes>>
allVars == <<vars, laneVars>>

Record == [state : {"none", "created", "funding_pending", "funding_failed", "funded",
                    "accepted", "submitted", "completed", "rejected", "expired",
                    "pending_approval", "approval_rejected", "approval_expired"},
           executor : Executors \cup {NoParty},
           submitAnchorTxHash : BOOLEAN,
           approvalState : {"none", "pending", "approved", "completed", "rejected", "expired"}]

NoRecord == [state |-> "none", executor |-> NoParty, submitAnchorTxHash |-> FALSE,
             approvalState |-> "none"]

FundOps == {"fund", "fundAsync"}
SubmitOps == {"submitDelivery", "submitService"}
ValidateOps == {"approve", "reject"}
Ops == FundOps \cup {"claim", "accept"} \cup SubmitOps \cup ValidateOps \cup {"expire"}

\* What a request awaits: the provider's service, the anchor it must have
\* before submitting, its escrow call (sent, or already mined and not yet
\* seen), and the anchor published at the end.
Awaits == {"service", "submitAnchor", "escrow", "mined", "anchor"}

\* job is the record as the request read it; by is the executor it acts for.
Request == [op : Ops, j : JobIds, by : Executors \cup {NoParty},
            awaits : Awaits, job : Record, submitAnchorTxHash : BOOLEAN]
NoRequest == [awaits |-> "nothing"]

Call == [op : Ops, j : JobIds, by : Executors \cup {NoParty}]

\* Only states of the backend's vocabulary are ever written: every write of a
\* record goes through a request's snapshot, whatever that snapshot was.
LaneTypeOK ==
    /\ TypeOK
    /\ records \in [JobIds -> Record]
    /\ requests \in [Slots -> Request \cup {NoRequest}]
    /\ late \subseteq Call
    /\ verdicts \in [JobIds -> Seq({"completed", "rejected"})]
    /\ submitAnchors \in [JobIds -> 0..MaxAnchors]
    /\ crashes \in 0..MaxCrashes

LaneInit ==
    /\ Init
    /\ records = [j \in JobIds |-> NoRecord]
    /\ requests = [s \in Slots |-> NoRequest]
    /\ late = {}
    /\ verdicts = [j \in JobIds |-> <<>>]
    /\ submitAnchors = [j \in JobIds |-> 0]
    /\ crashes = 0

-----------------------------------------------------------------------------
\* Shared helpers

\* A record that was never funded reads as expired once its deadline passed.
materializeJob(j) ==
    IF records[j].state \in {"created", "funding_pending", "pending_approval"} /\ now > ExpiresAt
    THEN [records[j] EXCEPT !.state = "expired"]
    ELSE records[j]

upsertJobRecord(j, job) == records' = [records EXCEPT ![j] = job]

\* A request on j arrives, finds the job in one of the states it serves, and
\* runs to its first await.
arrive(s, op, j, by, states, awaits) ==
    /\ requests[s] = NoRequest
    /\ materializeJob(j).state \in states
    /\ requests' = [requests EXCEPT ![s] =
            [op |-> op, j |-> j, by |-> by, awaits |-> awaits, job |-> materializeJob(j),
             submitAnchorTxHash |-> records[j].submitAnchorTxHash]]

goesOn(s, awaits) == requests' = [requests EXCEPT ![s].awaits = awaits]
responds(s) == requests' = [requests EXCEPT ![s] = NoRequest]

callOf(r) == [op |-> r.op, j |-> r.j, by |-> r.by]

\* The transaction an escrow call of the backend executes.
transaction(c) ==
    \/ /\ c.op \in FundOps
       /\ lockFunds(Requester, c.j, c.by, Validator, Amount, ExpiresAt, ExecutorStake)
    \/ c.op = "claim" /\ claimJob(c.by, c.j)
    \/ c.op = "accept" /\ acceptJob(c.by, c.j)
    \/ c.op \in SubmitOps /\ submitResult(c.by, c.j)
    \/ c.op \in ValidateOps /\ validate(Validator, c.j, c.op = "approve")

\* anchorJobLifecycle where its failure is only logged.
anchorBestEffort(j) == anchored' \in {anchored, anchored \cup {j}}

-----------------------------------------------------------------------------
\* Requests up to their escrow call

\* The fresh jobId is known to nobody before the record is written, so the anchor
\* and the write are one step.
createJob(j, executor) ==
    /\ records[j].state = "none"
    /\ now < ExpiresAt
    /\ anchorBestEffort(j)
    /\ upsertJobRecord(j, [records[j] EXCEPT !.state = "created", !.executor = executor])
    /\ UNCHANGED <<jobs, balance, now, guardVars, requests, late, verdicts, submitAnchors, crashes>>

\* What a funding writes: an approval the job went through is completed by it.
funding(job, state) ==
    [job EXCEPT !.state = state,
                !.approvalState = IF @ = "none" THEN "none" ELSE "completed"]

\* A fund request that needs no approval, or has it, for a job in one of states.
fundFrom(s, j, op, states) ==
    /\ op \in FundOps
    /\ arrive(s, op, j, records[j].executor, states, "escrow")
    /\ IF op = "fundAsync" THEN upsertJobRecord(j, funding(materializeJob(j), "funding_pending"))
                           ELSE UNCHANGED records
    /\ UNCHANGED <<vars, late, verdicts, submitAnchors, crashes>>

Unfunded == {"created", "funding_pending", "funding_failed"}

fundJob(s, j, op) == fundFrom(s, j, op, Unfunded)

claimRoute(s, j, by) ==
    /\ records[j].executor = NoParty
    /\ arrive(s, "claim", j, by, {"funded"}, "escrow")
    /\ UNCHANGED <<vars, records, late, verdicts, submitAnchors, crashes>>

acceptRoute(s, j) ==
    /\ arrive(s, "accept", j, records[j].executor, {"funded"}, "escrow")
    /\ UNCHANGED <<vars, records, late, verdicts, submitAnchors, crashes>>

\* The names with a slip_ prefix are broken variants of the definition that
\* follows them, kept to show that the properties notice.
slip_submitAwaits(anchorTx) == IF AnchorRequired /\ anchorTx THEN "submitAnchor" ELSE "escrow"

\* Where a submit goes before its escrow call.
submitAwaits(anchorTx) == IF AnchorRequired /\ ~anchorTx THEN "submitAnchor" ELSE "escrow"

submitRoute(s, j, op) ==
    /\ arrive(s, op, j, records[j].executor, {"accepted"},
              IF op = "submitService" THEN "service"
              ELSE submitAwaits(records[j].submitAnchorTxHash))
    /\ UNCHANGED <<vars, records, late, verdicts, submitAnchors, crashes>>

\* invokeServiceWithRetry answers, or fails and the job stays accepted.
serviceReturns(s, ok) ==
    LET r == requests[s] IN
    /\ r.awaits = "service"
    /\ IF ok THEN goesOn(s, submitAwaits(r.job.submitAnchorTxHash)) /\ UNCHANGED records
             ELSE responds(s) /\ upsertJobRecord(r.j, r.job)
    /\ UNCHANGED <<vars, late, verdicts, submitAnchors, crashes>>

\* The anchor of the result is confirmed, and recorded before the submit.
submitAnchorConfirmed(s) ==
    LET r == requests[s] IN
    /\ r.awaits = "submitAnchor"
    /\ submitAnchors[r.j] < MaxAnchors
    /\ anchored' = anchored \cup {r.j}
    /\ submitAnchors' = [submitAnchors EXCEPT ![r.j] = @ + 1]
    /\ requests' = [requests EXCEPT ![s].awaits = "escrow", ![s].submitAnchorTxHash = TRUE]
    /\ upsertJobRecord(r.j, [r.job EXCEPT !.submitAnchorTxHash = TRUE])
    /\ UNCHANGED <<jobs, balance, now, guardVars, late, verdicts, crashes>>

\* It is not confirmed (it may have been published all the same).
submitAnchorFails(s) ==
    LET r == requests[s] IN
    /\ r.awaits = "submitAnchor"
    /\ anchorBestEffort(r.j)
    /\ responds(s)
    /\ upsertJobRecord(r.j, r.job)
    /\ UNCHANGED <<jobs, balance, now, guardVars, late, verdicts, submitAnchors, crashes>>

validateRoute(s, j, op) ==
    /\ arrive(s, op, j, records[j].executor, {"submitted"}, "escrow")
    /\ UNCHANGED <<vars, records, late, verdicts, submitAnchors, crashes>>

-----------------------------------------------------------------------------
\* The escrow call and what follows it

escrowMined(s) ==
    /\ requests[s].awaits = "escrow"
    /\ transaction(callOf(requests[s]))
    /\ goesOn(s, "mined")
    /\ UNCHANGED <<records, late, verdicts, submitAnchors, crashes>>

\* A call its request has given up on is mined after all.
lateMined(c) ==
    /\ c \in late
    /\ transaction(c)
    /\ late' = late \ {c}
    /\ UNCHANGED <<records, requests, verdicts, submitAnchors, crashes>>

claimSucceeds(s) ==
    LET r == requests[s] IN
    /\ r.awaits = "mined" /\ r.op = "claim"
    /\ upsertJobRecord(r.j, [r.job EXCEPT !.executor = r.by])
    /\ responds(s)
    /\ UNCHANGED <<vars, late, verdicts, submitAnchors, crashes>>

submitSucceeds(s) ==
    LET r == requests[s] IN
    /\ r.awaits = "mined" /\ r.op \in SubmitOps
    /\ upsertJobRecord(r.j, [r.job EXCEPT !.state = "submitted",
                                          !.submitAnchorTxHash = r.submitAnchorTxHash])
    /\ responds(s)
    /\ UNCHANGED <<vars, late, verdicts, submitAnchors, crashes>>

slip_fundOrAcceptSucceeds(s) ==
    /\ requests[s].awaits \in {"escrow", "mined"}
    /\ requests[s].op \in FundOps \cup {"accept"}
    /\ goesOn(s, "anchor")
    /\ UNCHANGED <<vars, records, late, verdicts, submitAnchors, crashes>>

fundOrAcceptSucceeds(s) ==
    /\ requests[s].awaits = "mined" /\ requests[s].op \in FundOps \cup {"accept"}
    /\ goesOn(s, "anchor")
    /\ UNCHANGED <<vars, records, late, verdicts, submitAnchors, crashes>>

slip_validateSucceeds(s) ==
    LET r == requests[s] IN
    /\ r.awaits \in {"escrow", "mined"} /\ r.op \in ValidateOps
    /\ verdicts' = [verdicts EXCEPT ![r.j] =
                        Append(@, IF r.op = "approve" THEN "completed" ELSE "rejected")]
    /\ goesOn(s, "anchor")
    /\ UNCHANGED <<vars, records, late, submitAnchors, crashes>>

\* appendJobTrustSignals runs between the settlement and its anchor.
validateSucceeds(s) ==
    LET r == requests[s] IN
    /\ r.awaits = "mined" /\ r.op \in ValidateOps
    /\ verdicts' = [verdicts EXCEPT ![r.j] =
                        Append(@, IF r.op = "approve" THEN "completed" ELSE "rejected")]
    /\ goesOn(s, "anchor")
    /\ UNCHANGED <<vars, records, late, submitAnchors, crashes>>

\* The process is gone, and every request with it; calls that were sent may
\* still be mined.
forgetsRequests ==
    LET sent == {callOf(requests[s]) : s \in {t \in Slots : requests[t].awaits = "escrow"}} IN
    /\ requests' = [s \in Slots |-> NoRequest]
    /\ \E lost \in SUBSET sent :
            late' = late \cup lost /\ Cardinality(late') <= MaxLate

slip_escrowFails(s, keep) ==
    LET r == requests[s] IN
    /\ r.awaits \in {"escrow", "mined"} /\ r.op # "submitDelivery"
    /\ keep => r.awaits = "escrow" /\ Cardinality(late) < MaxLate
    /\ late' = IF keep THEN late \cup {callOf(r)} ELSE late
    /\ upsertJobRecord(r.j, IF r.op = "fundAsync" THEN [r.job EXCEPT !.state = "created"]
                                                ELSE r.job)
    /\ responds(s)
    /\ UNCHANGED <<vars, verdicts, submitAnchors, crashes>>

\* The call is given up: it reverted, timed out or lost its receipt.  It may
\* still be mined later unless it was already.  An asynchronous fund records
\* funding_failed; a submit through a service writes back the record it first
\* read; the others only answer.
escrowFails(s, keep) ==
    LET r == requests[s] IN
    /\ r.awaits \in {"escrow", "mined"} /\ r.op # "submitDelivery"
    /\ keep => r.awaits = "escrow" /\ Cardinality(late) < MaxLate
    /\ late' = IF keep THEN late \cup {callOf(r)} ELSE late
    /\ CASE r.op = "fundAsync" ->
                upsertJobRecord(r.j, funding(r.job, "funding_failed"))
         [] r.op = "submitService" -> upsertJobRecord(r.j, r.job)
         [] OTHER -> UNCHANGED records
    /\ responds(s)
    /\ UNCHANGED <<vars, verdicts, submitAnchors, crashes>>

\* A delivered submit reads an undeclared variable in its catch block: the
\* rejection is unhandled and Node stops the process.
deliveryFails(s) ==
    /\ requests[s].awaits \in {"escrow", "mined"} /\ requests[s].op = "submitDelivery"
    /\ forgetsRequests
    /\ UNCHANGED <<vars, records, verdicts, submitAnchors, crashes>>

\* The contract's state names written into the record.
slip_writtenBy(r) ==
    [r.job EXCEPT !.state = CASE r.op \in FundOps -> "Funded"
                              [] r.op = "accept" -> "Accepted"
                              [] r.op = "approve" -> "Completed"
                              [] r.op = "reject" -> "Rejected"
                              [] r.op = "expire" -> "Expired"]

\* The record the last write of a request leaves.
writtenBy(r) ==
    CASE r.op \in FundOps -> funding(r.job, "funded")
      [] r.op = "accept" -> [r.job EXCEPT !.state = "accepted"]
      [] r.op = "approve" -> [r.job EXCEPT !.state = "completed"]
      [] r.op = "reject" -> [r.job EXCEPT !.state = "rejected"]
      [] r.op = "expire" -> [r.job EXCEPT !.state = "expired"]

\* The closing anchor was published or not, and the request writes.
anchorReturns(s) ==
    LET r == requests[s] IN
    /\ r.awaits = "anchor"
    /\ anchorBestEffort(r.j)
    /\ upsertJobRecord(r.j, writtenBy(r))
    /\ responds(s)
    /\ UNCHANGED <<jobs, balance, now, guardVars, late, verdicts, submitAnchors, crashes>>

-----------------------------------------------------------------------------
\* Expiry

\* The expire route and the watcher share executeJobExpiry.  For a funded,
\* accepted or submitted record it calls expireEscrowJob without a requester;
\* that helper throws before it sends anything and the record is left alone.
\* A record not known to be funded is expired after its anchor.
executeJobExpiry(s, j) ==
    /\ requests[s] = NoRequest
    /\ records[j].state \in Unfunded \cup {"pending_approval"}
    /\ ExpiresAt <= now
    /\ requests' = [requests EXCEPT ![s] =
            [op |-> "expire", j |-> j, by |-> records[j].executor, awaits |-> "anchor",
             job |-> records[j], submitAnchorTxHash |-> records[j].submitAnchorTxHash]]
    /\ UNCHANGED <<vars, records, late, verdicts, submitAnchors, crashes>>

\* The anchor of an expiry throws: nothing is written.
expiryAnchorFails(s) ==
    /\ requests[s].awaits = "anchor" /\ requests[s].op = "expire"
    /\ anchorBestEffort(requests[s].j)
    /\ responds(s)
    /\ UNCHANGED <<jobs, balance, now, guardVars, records, late, verdicts, submitAnchors, crashes>>

-----------------------------------------------------------------------------
\* The surroundings

\* The process stops and starts again: requests are gone, their calls are not.
Crash ==
    /\ crashes < MaxCrashes
    /\ crashes' = crashes + 1
    /\ forgetsRequests
    /\ UNCHANGED <<vars, records, verdicts, submitAnchors>>

\* What happens to the contract without the lane: blocks, the owner installing
\* a guard, and anybody expiring an overdue job.
Chain ==
    /\ \/ Tick
       \/ \E j \in JobIds : expireJob(j)
       \/ \E sender \in Parties, guard \in Guards : setTraceAnchorGuard(sender, guard)
    /\ UNCHANGED laneVars

Arrivals(s, j) ==
    \/ \E op \in FundOps : fundJob(s, j, op)
    \/ \E by \in Executors : claimRoute(s, j, by)
    \/ acceptRoute(s, j)
    \/ \E op \in SubmitOps : submitRoute(s, j, op)
    \/ \E op \in ValidateOps : validateRoute(s, j, op)
    \/ executeJobExpiry(s, j)

\* A request in flight makes its next step.
Progress(s) ==
    \/ \E ok \in BOOLEAN : serviceReturns(s, ok)
    \/ submitAnchorConfirmed(s)
    \/ submitAnchorFails(s)
    \/ escrowMined(s)
    \/ claimSucceeds(s)
    \/ submitSucceeds(s)
    \/ fundOrAcceptSucceeds(s)
    \/ validateSucceeds(s)
    \/ \E keep \in BOOLEAN : escrowFails(s, keep)
    \/ deliveryFails(s)
    \/ anchorReturns(s)
    \/ expiryAnchorFails(s)

LaneNext ==
    \/ \E j \in JobIds, executor \in Executors \cup {NoParty} : createJob(j, executor)
    \/ \E s \in Slots, j \in JobIds : Arrivals(s, j)
    \/ \E s \in Slots : Progress(s)
    \/ \E c \in late : lateMined(c)
    \/ Crash
    \/ Chain

LaneSpec == LaneInit /\ [][LaneNext]_allVars

\* The watcher ticks for ever and time passes.
LaneFairness ==
    /\ WF_allVars(Tick /\ UNCHANGED laneVars)
    /\ \A s \in Slots : WF_allVars(Progress(s))
    /\ \A j \in JobIds : WF_allVars(\E s \in Slots : executeJobExpiry(s, j))

LaneFairSpec == LaneSpec /\ LaneFairness

-----------------------------------------------------------------------------
\* Properties

Progressed == {"funded", "accepted", "submitted", "completed", "rejected"}

\* A record never claims a step of the escrow that the contract has not taken,
\* nor an executor other than the contract's: whichever requests overlap, time
\* out, are retried or die, nobody is told of money that is not there.
RecordBacked(rec, job) ==
    /\ rec.state \in Progressed => job.fundedAt > 0
    /\ rec.state \in Progressed \ {"funded"} => job.acceptedAt > 0
    /\ rec.state \in Progressed \ {"funded", "accepted"} => job.submittedAt > 0
    /\ rec.state = "completed" => job.state = "Completed"
    /\ rec.state = "rejected" => job.state = "Rejected"
    /\ rec.executor # NoParty /\ job.fundedAt > 0 => job.executor = rec.executor

RecordsBacked == \A j \in JobIds : RecordBacked(records[j], jobs[j])

\* The provider's reputation moves at most once per job, and only as the
\* contract settled it: signals are recorded while the record still says
\* submitted, so only the escrow call keeps a second validation out.
VerdictsSettled ==
    \A j \in JobIds :
        \/ verdicts[j] = <<>>
        \/ verdicts[j] = <<"completed">> /\ jobs[j].state = "Completed"
        \/ verdicts[j] = <<"rejected">> /\ jobs[j].state = "Rejected"

\* Where the lane must anchor a result first, no submit reaches the contract,
\* late or not, without a confirmed anchor of that result.
SubmitsAnchored ==
    AnchorRequired => \A j \in JobIds : jobs[j].submittedAt > 0 => submitAnchors[j] > 0

\* How far along the lane a state is (used by MCJobLane).
Rank(state) ==
    CASE state = "none" -> 0
      [] state = "created" -> 1
      [] state \in {"funding_pending", "funding_failed", "pending_approval"} -> 2
      [] state = "funded" -> 3
      [] state = "accepted" -> 4
      [] state = "submitted" -> 5
      [] OTHER -> 6

\* ktrace-flows-en.md:147 draws the job's states as OPEN -> ACCEPTED ->
\* SUBMITTED -> SETTLED (or DISPUTED): a submitted job is only ever settled.
SubmittedOnlySettles ==
    [][\A j \in JobIds : records[j].state = "submitted" =>
            records'[j].state \in {"submitted", "completed", "rejected", "expired"}]_allVars

\* scripts/verify-trace-anchor-guard.mjs:147, "guard retry should not republish
\* anchor": a submit tried again reuses the anchor of the first attempt.
SubmitAnchorReused == \A j \in JobIds : submitAnchors[j] <= 1

\* scripts/verify-job-auto-expiry-loop.mjs:61 requires of the watcher that it
\* expires an overdue accepted job whose funds are in escrow: such a job does
\* not stay accepted for ever.
OverdueExpired ==
    \A j \in JobIds :
        records[j].state = "accepted" /\ now > ExpiresAt ~> records[j].state # "accepted"
=============================================================================
