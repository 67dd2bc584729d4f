---------------------------- MODULE JobApproval ----------------------------
(***************************************************************************)
(* Funding above the approval threshold.  The fund route asks the payer's  *)
(* owner first (routes/jobLane/jobApprovalHelpers.js); the owner approves, *)
(* which posts the fund request again, or rejects                          *)
(* (routes/coreIdentityChatRoutes.impl.js).  Approvals are rows of their   *)
(* own: the two handlers change them, and the job's record, at once and    *)
(* whatever requests on the job are in flight.                             *)
(*                                                                         *)
(* A fund request for a waiting job may name any approval of a job: the    *)
(* route looks at what was decided there, and not at whose it is.          *)
(*                                                                         *)
(* The lane is that of JobLane up to acceptance; what follows never looks  *)
(* at an approval.                                                         *)
(***************************************************************************)
EXTENDS JobLane

CONSTANTS
    ApprovalTtl,    \* KTRACE_JOB_APPROVAL_TTL_MS, in ticks
    MaxResumes      \* bound on approve requests awaiting the funding they posted

ASSUME ApprovalAssumption ==
    /\ ApprovalTtl \in Nat \ {0}
    /\ MaxResumes \in Nat

VARIABLES
    approvals,  \* approvals[j]: the approval request of j
    resuming,   \* resuming[j]: approve requests awaiting their fund request
    releases    \* history: releases[j]: whose approvals released a funding of j

approvalVars == <<approvals, resuming, releases>>
fundingVars == <<allVars, approvalVars>>

Approval == [status : {"none", "pending", "approved", "completed", "rejected", "expired"},
             expiresAt : Nat]

ApprovalTypeOK ==
    /\ LaneTypeOK
    /\ approvals \in [JobIds -> Approval]
    /\ resuming \in [JobIds -> 0..MaxResumes]
    /\ releases \in [JobIds -> SUBSET JobIds]

FundingInit ==
    /\ LaneInit
    /\ approvals = [j \in JobIds |-> [status |-> "none", expiresAt |-> 0]]
    /\ resuming = [j \in JobIds |-> 0]
    /\ releases = [j \in JobIds |-> {}]

-----------------------------------------------------------------------------
\* The fund route

overdue(approval) == approval.status = "pending" /\ approval.expiresAt <= now

slip_activeApproval(j) == approvals[j].status = "pending" /\ ~overdue(approvals[j])

\* findActiveJobApproval: a decision taken counts as much as one awaited.
activeApproval(j) ==
    /\ approvals[j].status \in {"pending", "approved", "completed"}
    /\ ~overdue(approvals[j])

setStatus(j, status) == approvals' = [approvals EXCEPT ![j].status = status]

\* A record whose approval is in the given state.
decided(job, state, status) == [job EXCEPT !.state = state, !.approvalState = status]

\* A fund request for j would find nothing to wait for, and create an approval.
asks(j) == materializeJob(j).state \in Unfunded /\ ~activeApproval(j)

\* A fund request that needs an approval finds one, or creates it; the job waits.
\* The model follows one approval per job: a job that asks again stays as it is.
awaitApproval(j) ==
    /\ materializeJob(j).state \in Unfunded
    /\ \/ activeApproval(j) /\ UNCHANGED approvals
       \/ /\ asks(j) /\ approvals[j].status = "none"
          /\ approvals' = [approvals EXCEPT ![j] = [status |-> "pending",
                                                    expiresAt |-> now + ApprovalTtl]]
    /\ upsertJobRecord(j, decided(materializeJob(j), "pending_approval", approvals'[j].status))
    /\ UNCHANGED <<vars, requests, late, verdicts, submitAnchors, crashes, resuming, releases>>

\* A fund request for j names the approval of k, which has expired: j is told so.
approvalFoundExpired(j, k) ==
    /\ materializeJob(j).state = "pending_approval"
    /\ overdue(approvals[k])
    /\ setStatus(k, "expired")
    /\ upsertJobRecord(j, decided(materializeJob(j), "approval_expired", "expired"))
    /\ UNCHANGED <<vars, requests, late, verdicts, submitAnchors, crashes, resuming, releases>>

\* The approval of k lets the funding of j go on.
released(j, k) ==
    /\ releases' = [releases EXCEPT ![j] = @ \cup {k}]
    /\ UNCHANGED <<approvals, resuming>>

slip_fundApproved(s, j, op, k) ==
    /\ ~overdue(approvals[k])
    /\ fundFrom(s, j, op, {"pending_approval"})
    /\ released(j, k)

\* A fund request for j names the approval of k, which was granted.
fundApproved(s, j, op, k) ==
    /\ approvals[k].status \in {"approved", "completed"}
    /\ fundFrom(s, j, op, {"pending_approval"})
    /\ released(j, k)

funds(s) == requests[s] # NoRequest /\ requests[s].op \in FundOps

\* The funding of a job completes the job's own approval, or puts it back to
\* what the request had read, whichever approval released it.
fundCompletes(s) ==
    /\ funds(s)
    /\ anchorReturns(s)
    /\ setStatus(requests[s].j, "completed")
    /\ UNCHANGED <<resuming, releases>>

fundGivenUp(s, keep) ==
    /\ funds(s)
    /\ escrowFails(s, keep)
    /\ setStatus(requests[s].j, requests[s].job.approvalState)
    /\ UNCHANGED <<resuming, releases>>

-----------------------------------------------------------------------------
\* The owner

\* Whoever reads an approval, a list of them included, expires it when due, and
\* the job's record with it.
maybeExpireApprovalRecord(j) ==
    /\ overdue(approvals[j])
    /\ setStatus(j, "expired")
    /\ upsertJobRecord(j, decided(records[j], "approval_expired", "expired"))
    /\ UNCHANGED <<vars, requests, late, verdicts, submitAnchors, crashes, resuming, releases>>

\* Approving again what is approved is allowed, and posts another fund request.
approve(j) ==
    /\ approvals[j].status \in {"pending", "approved"}
    /\ ~overdue(approvals[j])
    /\ resuming[j] < MaxResumes
    /\ setStatus(j, "approved")
    /\ upsertJobRecord(j, decided(records[j], "pending_approval", "approved"))
    /\ resuming' = [resuming EXCEPT ![j] = @ + 1]
    /\ UNCHANGED <<vars, requests, late, verdicts, submitAnchors, crashes, releases>>

slip_resumeReturns(j, answered) ==
    /\ resuming[j] > 0
    /\ resuming' = [resuming EXCEPT ![j] = @ - 1]
    /\ IF answered THEN UNCHANGED approvals ELSE setStatus(j, "failed")
    /\ UNCHANGED <<allVars, releases>>

\* The posted request was answered, or could not be posted or timed out.
resumeReturns(j, answered) ==
    /\ resuming[j] > 0
    /\ resuming' = [resuming EXCEPT ![j] = @ - 1]
    /\ IF answered THEN UNCHANGED approvals ELSE setStatus(j, "approved")
    /\ UNCHANGED <<allVars, releases>>

\* Only a completed approval is refused; an expired one is rejected all the same.
reject(j) ==
    /\ approvals[j].status \in {"pending", "approved", "expired"}
    /\ setStatus(j, "rejected")
    /\ upsertJobRecord(j, decided(records[j], "approval_rejected", "rejected"))
    /\ UNCHANGED <<vars, requests, late, verdicts, submitAnchors, crashes, resuming, releases>>

-----------------------------------------------------------------------------
\* The lane around them

\* Steps of the lane that know nothing of approvals.
LaneStep ==
    \/ \E j \in JobIds, executor \in Executors : createJob(j, executor)
    \/ \E s \in Slots, j \in JobIds : acceptRoute(s, j) \/ executeJobExpiry(s, j)
    \/ \E s \in Slots :
        \/ escrowMined(s)
        \/ fundOrAcceptSucceeds(s)
        \/ ~funds(s) /\ anchorReturns(s)
        \/ expiryAnchorFails(s)
        \/ \E keep \in BOOLEAN : ~funds(s) /\ escrowFails(s, keep)
    \/ \E c \in late : lateMined(c)
    \/ Chain

FundingCrash ==
    /\ Crash
    /\ resuming' = [j \in JobIds |-> 0]
    /\ UNCHANGED <<approvals, releases>>

FundingNext ==
    \/ LaneStep /\ UNCHANGED approvalVars
    \/ \E s \in Slots, j \in JobIds, op \in FundOps, k \in JobIds : fundApproved(s, j, op, k)
    \/ \E s \in Slots : fundCompletes(s) \/ \E keep \in BOOLEAN : fundGivenUp(s, keep)
    \/ \E j \in JobIds :
        \/ awaitApproval(j)
        \/ \E k \in JobIds : approvalFoundExpired(j, k)
        \/ maybeExpireApprovalRecord(j)
        \/ approve(j)
        \/ \E answered \in BOOLEAN : resumeReturns(j, answered)
        \/ reject(j)
    \/ FundingCrash

FundingSpec == FundingInit /\ [][FundingNext]_fundingVars

-----------------------------------------------------------------------------
\* Properties

\* The history of j knows only of the approval j asked for.
OwnApproval(j) == releases[j] \subseteq {j}

\* No token is locked for a job whose owner was never asked, nor without an
\* approval that was granted.  That approval is the job's own unless a request
\* named another: only then are tokens locked while the owner has not answered,
\* or let the request expire.  And an approval says completed only when the
\* tokens of its job are locked.  All this whatever funding, retry, late call or
\* read overlaps with the decision.
ApprovalsMatchContract ==
    \A j \in JobIds :
        /\ jobs[j].fundedAt > 0 => approvals[j].status # "none" /\ releases[j] # {}
        /\ approvals[j].status \in {"pending", "expired"} /\ OwnApproval(j) =>
                jobs[j].fundedAt = 0
        /\ approvals[j].status = "completed" => jobs[j].fundedAt > 0

\* The owner is asked once per job: failed fundings and fundings tried again
\* find the decision that was taken, never put it back to pending and would never
\* ask for another; except for a job that another's approval released, whose own
\* is put back to what the request had read, decided or not.
AskedOnce ==
    [][\A j \in JobIds :
        approvals[j].status # "none" /\ OwnApproval(j)' =>
            /\ ~asks(j)
            /\ approvals'[j] # approvals[j] => approvals'[j].status # "pending"]_fundingVars

\* The approve handler answers an owner who rejected "Approval request has
\* already been rejected." (coreIdentityChatRoutes.impl.js:911): a rejection
\* stands.
RejectionStands ==
    [][\A j \in JobIds :
        approvals[j].status = "rejected" => approvals'[j].status = "rejected"]_fundingVars
=============================================================================
