-------------------------- MODULE JobApprovalProofs --------------------------
(***************************************************************************)
(* Theorems about JobApproval, for any number of jobs, requests, late      *)
(* calls and resumed fundings: no token is locked before the owner has     *)
(* decided, or another's approval was named, and the owner is asked once.  *)
(***************************************************************************)
EXTENDS JobApproval, JobLaneProofs

-----------------------------------------------------------------------------
\* The inductive invariant: nothing that can fund a job is about before its
\* owner has decided, or another's approval released it, and a decision taken
\* is not undecided before that

Asked(j) == approvals[j].status # "none"

\* The owner has decided, as far as the job knows of its own approval only.
Decided(j) ==
    /\ Asked(j)
    /\ OwnApproval(j) => approvals[j].status \in {"approved", "completed", "rejected"}

Released(j) == Decided(j) /\ releases[j] # {}

\* What a record may say of an approval, and one that lets the job be funded.
ReadIn(j, rec) ==
    /\ rec.approvalState \in {"pending", "approved", "completed"}
    /\ rec.approvalState = "completed" => jobs[j].fundedAt > 0

ApprovedIn(j, rec) ==
    /\ ReadIn(j, rec)
    /\ OwnApproval(j) => rec.approvalState # "pending"

\* The states of a row that say something of its approval.
Held == {"none", "created", "funding_pending", "funding_failed", "pending_approval"}

RowDecided(j) ==
    /\ records[j].state \in {"none", "created"} => ~Asked(j)
    /\ records[j].state \in {"funding_pending", "funding_failed"} =>
           /\ Asked(j)
           /\ OwnApproval(j) => approvals[j].status \in {"approved", "completed"}
    /\ records[j].state = "pending_approval" =>
           /\ Asked(j) /\ ReadIn(j, records[j])
           /\ OwnApproval(j) => \/ approvals[j].status \in {"pending", "expired"}
                               \/ /\ approvals[j].status \in {"approved", "completed"}
                                  /\ ApprovedIn(j, records[j])

DecidedFirst(j) ==
    /\ jobs[j].fundedAt > 0 => Released(j)
    /\ resuming[j] > 0 => Decided(j)
    /\ approvals[j].status = "completed" => jobs[j].fundedAt > 0

FundingInv ==
    /\ LaneInv
    /\ ApprovalTypeOK
    /\ \A j \in JobIds : RowDecided(j)
    /\ \A j \in JobIds : DecidedFirst(j)
    /\ \A s \in Slots : funds(s) =>
           Released(requests[s].j) /\ ApprovedIn(requests[s].j, requests[s].job)
    /\ \A c \in late : c.op \in FundOps => Released(c.j)

-----------------------------------------------------------------------------
\* Steps of the lane

\* The funding of a job by a step, seen by its approval.
FundsDecided ==
    \A j \in JobIds :
        /\ jobs[j].fundedAt > 0 => jobs'[j].fundedAt > 0
        /\ jobs'[j].fundedAt > 0 => jobs[j].fundedAt > 0 \/ Released(j)

\* The invariant after a step that changes no approval.
LEMMA LaneParts ==
    ASSUME FundingInv, LaneInv', UNCHANGED approvalVars, FundsDecided,
           \A j \in JobIds : \/ records'[j] = records[j]
                             \/ records'[j].state \notin Held
                             \/ records[j].state = "none" /\ records'[j].state = "created",
           \A s \in Slots : \/ requests'[s] = requests[s]
                            \/ requests'[s] = NoRequest
                            \/ requests'[s].op \notin FundOps
                            \/ /\ funds(s)
                               /\ requests'[s].j = requests[s].j
                               /\ requests'[s].job = requests[s].job,
           \A c \in late' : c \in late \/ (c.op \in FundOps => Released(c.j))
    PROVE  FundingInv'
<1>1. approvals' = approvals /\ resuming' = resuming /\ releases' = releases
    BY DEF approvalVars
<1>2. ApprovalTypeOK'
    BY <1>1 DEF FundingInv, ApprovalTypeOK, LaneInv
<1>3. ASSUME NEW j \in JobIds PROVE RowDecided(j)'
    <2>1. RowDecided(j) /\ (jobs[j].fundedAt > 0 => jobs'[j].fundedAt > 0)
        BY DEF FundingInv, FundsDecided
    <2>2. CASE records'[j] = records[j]
        BY <1>1, <2>1, <2>2 DEF RowDecided, ApprovedIn, ReadIn, Asked, OwnApproval
    <2>3. CASE records'[j].state \notin Held
        BY <2>3 DEF RowDecided, Held
    <2>4. CASE records[j].state = "none" /\ records'[j].state = "created"
        BY <1>1, <2>1, <2>4 DEF RowDecided, Asked
    <2> QED
        BY <2>2, <2>3, <2>4
<1>4. ASSUME NEW j \in JobIds PROVE DecidedFirst(j)'
    BY <1>1 DEF FundingInv, FundsDecided, DecidedFirst, Released, Decided, Asked, OwnApproval
<1>5. ASSUME NEW s \in Slots, funds(s)'
      PROVE  (Released(requests[s].j) /\ ApprovedIn(requests[s].j, requests[s].job))'
    <2>1. funds(s) /\ requests'[s].j = requests[s].j /\ requests'[s].job = requests[s].job
        BY <1>5 DEF funds
    <2>2. requests[s].j \in JobIds
        BY <2>1, InFlight DEF funds, FundingInv, LaneInv, LaneTypeOK, Request
    <2> QED
        BY <1>1, <2>1, <2>2 DEF FundingInv, FundsDecided, Released, Decided, Asked, OwnApproval,
                               ApprovedIn, ReadIn
<1>6. ASSUME NEW c \in late', c.op \in FundOps PROVE Released(c.j)'
    BY <1>1, <1>6 DEF FundingInv, Released, Decided, Asked, OwnApproval
<1> QED
    BY <1>2, <1>3, <1>4, <1>5, <1>6 DEF FundingInv

\* A step that leaves the jobs alone funds nothing.
LEMMA SameFunds == ASSUME UNCHANGED jobs PROVE FundsDecided
BY DEF FundsDecided

\* A request in flight and what it may still send.
LEMMA FundInFlight ==
    ASSUME FundingInv, NEW s \in Slots, requests[s].awaits # "nothing"
    PROVE  /\ requests[s] \in Request /\ requests[s].j \in JobIds /\ Honest(requests[s])
           /\ requests[s].job \in Record /\ SaidOf(requests[s].j, requests[s].job)
           /\ requests[s] # NoRequest
           /\ requests[s].op \in FundOps =>
                  /\ funds(s) /\ Released(requests[s].j)
                  /\ ApprovedIn(requests[s].j, requests[s].job)
<1>1. requests[s] # NoRequest
    BY DEF NoRequest
<1> QED
    BY <1>1, InFlight DEF FundingInv, funds

\* A call that funds a job does so after the decision.
LEMMA CallFundsDecided ==
    ASSUME FundingInv, NEW c \in Call, CallHonest(c), transaction(c),
           c.op \in FundOps => Released(c.j)
    PROVE  FundsDecided
<1>1. TransactionMoves(c) /\ c.j \in JobIds /\ jobs \in [JobIds -> Job]
    BY CallMoves DEF FundingInv, LaneInv, LaneTypeOK, TypeOK, Call
<1>2. ASSUME NEW j \in JobIds, j # c.j PROVE jobs'[j] = jobs[j]
    BY <1>1, <1>2 DEF TransactionMoves
<1>3. jobs[c.j].fundedAt \in Nat
    BY <1>1 DEF Job
<1> QED
    BY <1>1, <1>2, <1>3 DEF FundsDecided, TransactionMoves, JobGrows

\* A new record has no approval.
LEMMA CreateDecided ==
    ASSUME FundingInv, NEW j \in JobIds, NEW executor \in Executors, createJob(j, executor),
           UNCHANGED approvalVars
    PROVE  FundingInv'
<1>1. LaneInv'
    BY CreateKeeps DEF FundingInv
<1>2. /\ UNCHANGED <<jobs, requests, late>> /\ records[j].state = "none"
      /\ records \in [JobIds -> Record]
      /\ records' = [records EXCEPT ![j] = [records[j] EXCEPT !.state = "created",
                                                              !.executor = executor]]
    BY DEF createJob, upsertJobRecord, FundingInv, LaneInv, LaneTypeOK
<1>3. /\ records'[j].state = "created"
      /\ \A k \in JobIds \ {j} : records'[k] = records[k]
    BY <1>2 DEF Record
<1> QED
    BY <1>1, <1>2, <1>3, SameFunds, LaneParts

\* Accept requests and expiries fund nothing.
LEMMA ArrivalDecided ==
    ASSUME FundingInv, NEW s \in Slots, NEW j \in JobIds, UNCHANGED approvalVars,
           acceptRoute(s, j) \/ executeJobExpiry(s, j)
    PROVE  FundingInv'
<1>1. LaneInv'
    BY AcceptKeeps, ExpiryKeeps DEF FundingInv
<1>2. UNCHANGED <<jobs, records, late>>
    BY DEF acceptRoute, executeJobExpiry, vars
<1>3. /\ requests'[s].op \notin FundOps
      /\ \A t \in Slots \ {s} : requests'[t] = requests[t]
    BY DEF acceptRoute, executeJobExpiry, arrive, FundOps, FundingInv, LaneInv, LaneTypeOK
<1> QED
    BY <1>1, <1>2, <1>3, SameFunds, LaneParts

\* A funding mined in time.
LEMMA MinedDecided ==
    ASSUME FundingInv, NEW s \in Slots, escrowMined(s), UNCHANGED approvalVars
    PROVE  FundingInv'
<1> DEFINE r == requests[s]
<1>1. LaneInv'
    BY EscrowMinedKeeps DEF FundingInv
<1>2. /\ r.awaits = "escrow" /\ transaction(callOf(r)) /\ UNCHANGED <<records, late>>
      /\ requests' = [requests EXCEPT ![s].awaits = "mined"]
    BY DEF escrowMined, goesOn
<1>3. /\ r \in Request /\ r.j \in JobIds /\ Honest(r)
      /\ r.op \in FundOps => funds(s) /\ Released(r.j)
    BY <1>2, FundInFlight
<1>4. /\ callOf(r) \in Call /\ CallHonest(callOf(r))
      /\ callOf(r).op = r.op /\ callOf(r).j = r.j
    BY <1>2, <1>3 DEF callOf, Call, Request, CallHonest, Honest, SaidOf
<1>5. FundsDecided
    BY <1>2, <1>3, <1>4, CallFundsDecided
<1>6. /\ requests'[s].j = r.j /\ requests'[s].job = r.job /\ requests'[s].op = r.op
      /\ \A t \in Slots \ {s} : requests'[t] = requests[t]
    BY <1>2, <1>3 DEF FundingInv, LaneInv, LaneTypeOK, Request
<1> QED
    BY <1>1, <1>2, <1>3, <1>5, <1>6, LaneParts

\* A funding mined too late.
LEMMA LateDecided ==
    ASSUME FundingInv, NEW c \in late, lateMined(c), UNCHANGED approvalVars
    PROVE  FundingInv'
<1>1. LaneInv'
    BY LateMinedKeeps DEF FundingInv
<1>2. /\ transaction(c) /\ late' = late \ {c} /\ UNCHANGED <<records, requests>>
    BY DEF lateMined
<1>3. c \in Call /\ CallHonest(c) /\ (c.op \in FundOps => Released(c.j))
    BY DEF FundingInv, LaneInv, LaneTypeOK
<1>4. FundsDecided
    BY <1>2, <1>3, CallFundsDecided
<1> QED
    BY <1>1, <1>2, <1>4, LaneParts

\* A mined funding or acceptance goes on to its anchor.
LEMMA WaitDecided ==
    ASSUME FundingInv, NEW s \in Slots, fundOrAcceptSucceeds(s), UNCHANGED approvalVars
    PROVE  FundingInv'
<1> DEFINE r == requests[s]
<1>1. LaneInv'
    BY FundOrAcceptKeeps DEF FundingInv
<1>2. /\ r.awaits = "mined" /\ UNCHANGED <<jobs, records, late>>
      /\ requests' = [requests EXCEPT ![s].awaits = "anchor"]
    BY DEF fundOrAcceptSucceeds, goesOn, vars
<1>3. /\ r \in Request /\ (r.op \in FundOps => funds(s))
    BY <1>2, FundInFlight
<1>4. /\ requests'[s].j = r.j /\ requests'[s].job = r.job /\ requests'[s].op = r.op
      /\ \A t \in Slots \ {s} : requests'[t] = requests[t]
    BY <1>2, <1>3 DEF FundingInv, LaneInv, LaneTypeOK, Request
<1> QED
    BY <1>1, <1>2, <1>3, <1>4, SameFunds, LaneParts

\* Requests other than fundings write states that say nothing of an approval.
LEMMA OtherWrites ==
    ASSUME NEW r \in Request, Honest(r), r.awaits = "anchor", r.op \notin FundOps
    PROVE  writtenBy(r).state \notin Held
<1>1. r.op \in {"accept", "approve", "reject", "expire"} /\ r.job \in Record
    BY DEF Honest, Request, Ops, ValidateOps
<1> QED
    BY <1>1 DEF writtenBy, Held, Record, FundOps

\* A request that does not fund answers.
LEMMA AnswerDecided ==
    ASSUME FundingInv, NEW s \in Slots, UNCHANGED approvalVars, ~funds(s),
           \/ anchorReturns(s)
           \/ expiryAnchorFails(s)
           \/ \E keep \in BOOLEAN : escrowFails(s, keep)
    PROVE  FundingInv'
<1> DEFINE r == requests[s]
<1>1. LaneInv'
    BY AnchorReturnsKeeps, ExpiryAnchorFailsKeeps, EscrowFailsKeeps DEF FundingInv
<1>2. /\ r.awaits # "nothing" /\ UNCHANGED jobs
      /\ requests' = [requests EXCEPT ![s] = NoRequest]
      /\ late' = late \/ late' = late \cup {callOf(r)}
    BY DEF anchorReturns, expiryAnchorFails, escrowFails, responds, vars
<1>3. /\ r \in Request /\ Honest(r) /\ r.j \in JobIds /\ r.op \notin FundOps
    BY <1>2, FundInFlight
<1>4. \A c \in late' : c \in late \/ (c.op \in FundOps => Released(c.j))
    BY <1>2, <1>3 DEF callOf
<1>5. \A t \in Slots : requests'[t] = requests[t] \/ requests'[t] = NoRequest
    BY <1>2 DEF FundingInv, LaneInv, LaneTypeOK
<1>6. \A j \in JobIds : records'[j] = records[j] \/ records'[j].state \notin Held
    <2>1. CASE records' = records
        BY <2>1
    <2>2. CASE anchorReturns(s)
        <3>1. records' = [records EXCEPT ![r.j] = writtenBy(r)] /\ writtenBy(r).state \notin Held
            BY <1>3, <2>2, OtherWrites DEF anchorReturns, upsertJobRecord
        <3> QED
            BY <1>3, <3>1 DEF FundingInv, LaneInv, LaneTypeOK
    <2>3. CASE records' = [records EXCEPT ![r.j] = r.job] /\ r.op = "submitService"
        <3>1. r.job.state \notin Held
            BY <1>3, <2>3 DEF Honest, FoundIn, SubmitOps, Held
        <3> QED
            BY <1>3, <2>3, <3>1 DEF FundingInv, LaneInv, LaneTypeOK
    <2> QED
        BY <1>3, <2>1, <2>2, <2>3 DEF expiryAnchorFails, escrowFails, upsertJobRecord, FundOps
<1> QED
    BY <1>1, <1>2, <1>4, <1>5, <1>6, SameFunds, LaneParts

\* What happens to the contract without the lane.
LEMMA ChainDecided ==
    ASSUME FundingInv, Chain, UNCHANGED approvalVars
    PROVE  FundingInv'
<1>1. LaneInv' /\ UNCHANGED <<records, requests, late>>
    BY ChainKeeps DEF FundingInv, Chain, laneVars
<1>2. FundsDecided
    BY ChainMoves DEF FundingInv, LaneInv, FundsDecided
<1> QED
    BY <1>1, <1>2, LaneParts

\* Every step that knows nothing of approvals.
LEMMA LaneStepDecided ==
    ASSUME FundingInv, LaneStep, UNCHANGED approvalVars
    PROVE  FundingInv'
<1>1. ASSUME NEW s \in Slots, expiryAnchorFails(s) PROVE FundingInv'
    <2>1. requests[s].op = "expire"
        BY <1>1 DEF expiryAnchorFails
    <2>2. ~funds(s)
        BY <2>1 DEF funds, FundOps
    <2> QED
        BY <1>1, <2>2, AnswerDecided
<1> QED
    BY <1>1, CreateDecided, ArrivalDecided, MinedDecided, LateDecided, WaitDecided, AnswerDecided,
       ChainDecided DEF LaneStep

-----------------------------------------------------------------------------
\* Steps that change approvals

Statuses == {"none", "pending", "approved", "completed", "rejected", "expired"}

\* The status of one approval is set, and no other changes.
LEMMA StatusSet ==
    ASSUME FundingInv, NEW j \in JobIds, NEW status \in Statuses, setStatus(j, status)
    PROVE  /\ approvals' \in [JobIds -> Approval]
           /\ approvals'[j].status = status
           /\ \A k \in JobIds \ {j} : approvals'[k] = approvals[k]
BY DEF FundingInv, ApprovalTypeOK, setStatus, Approval, Statuses

\* A row that was not written, under a status that is the same or still allows
\* what it allowed.
LEMMA RowAfter ==
    ASSUME NEW j \in JobIds, RowDecided(j), UNCHANGED jobs, records'[j] = records[j],
           releases[j] \subseteq releases'[j],
           \/ approvals'[j].status = approvals[j].status
           \/ approvals[j].status = "pending" /\ approvals'[j].status = "expired"
           \/ /\ Decided(j) /\ approvals'[j].status # "none"
              /\ OwnApproval(j)' => approvals'[j].status \in {"approved", "completed"}
    PROVE  RowDecided(j)'
<1>1. OwnApproval(j)' => OwnApproval(j)
    BY DEF OwnApproval
<1>2. \A rec : ReadIn(j, rec)' <=> ReadIn(j, rec)
    BY DEF ReadIn
<1> QED
    BY <1>1, <1>2 DEF RowDecided, Decided, Asked, ApprovedIn

\* A step that keeps approvals and adds to the history keeps decisions.
LEMMA StaysReleased ==
    ASSUME NEW j, Decided(j) => Decided(j)', releases[j] \subseteq releases'[j], Released(j)
    PROVE  Released(j)'
BY DEF Released

\* A funding that may go on still may after a step that leaves the jobs alone.
LEMMA StaysApproved ==
    ASSUME NEW j, NEW rec, UNCHANGED jobs, releases[j] \subseteq releases'[j], ApprovedIn(j, rec)
    PROVE  ApprovedIn(j, rec)'
BY DEF ApprovedIn, ReadIn, OwnApproval

\* The invariant after a step that leaves the jobs alone.
LEMMA DecideParts ==
    ASSUME FundingInv, LaneInv', ApprovalTypeOK', UNCHANGED jobs,
           \A j \in JobIds : releases[j] \subseteq releases'[j],
           \A j \in JobIds : Decided(j) => Decided(j)',
           \A j \in JobIds : RowDecided(j)',
           \A j \in JobIds : resuming'[j] > 0 => resuming[j] > 0 \/ Decided(j)',
           \A j \in JobIds : approvals'[j].status = "completed" =>
               approvals[j].status = "completed" \/ jobs[j].fundedAt > 0,
           \A s \in Slots : \/ requests'[s] = requests[s]
                            \/ requests'[s] = NoRequest
                            \/ /\ Released(requests[s].j)'
                               /\ ApprovedIn(requests[s].j, requests[s].job)',
           \A c \in late' : c \in late \/ (c.op \in FundOps => Released(c.j) /\ c.j \in JobIds)
    PROVE  FundingInv'
<1>1. ASSUME NEW j \in JobIds PROVE DecidedFirst(j)'
    BY StaysReleased DEF FundingInv, DecidedFirst
<1>2. ASSUME NEW s \in Slots, funds(s)'
      PROVE  (Released(requests[s].j) /\ ApprovedIn(requests[s].j, requests[s].job))'
    <2>1. CASE requests'[s] = requests[s]
        <3>1. funds(s) /\ requests[s].j \in JobIds
            BY <1>2, <2>1 DEF funds, FundingInv, LaneInv, LaneTypeOK, Request
        <3>2. Released(requests[s].j) /\ ApprovedIn(requests[s].j, requests[s].job)
            BY <3>1 DEF FundingInv
        <3> DEFINE i == requests[s].j   rec == requests[s].job
        <3>3. i \in JobIds /\ Released(i) /\ ApprovedIn(i, rec)
            BY <3>1, <3>2
        <3>4. requests'[s].j = i /\ requests'[s].job = rec
            BY <2>1
        <3> QED
            BY <3>3, <3>4 DEF Released, Decided, Asked, OwnApproval, ApprovedIn, ReadIn
    <2> QED
        BY <1>2, <2>1 DEF funds
<1>3. ASSUME NEW c \in late', c.op \in FundOps PROVE Released(c.j)'
    <2>1. Released(c.j) /\ c.j \in JobIds
        BY <1>3 DEF FundingInv, LaneInv, LaneTypeOK, Call
    <2> QED
        BY <2>1, StaysReleased
<1> QED
    BY <1>1, <1>2, <1>3 DEF FundingInv

\* The approval and the row of one job change.
LEMMA OneDecision ==
    ASSUME FundingInv, LaneInv', ApprovalTypeOK', UNCHANGED jobs, NEW i \in JobIds,
           \A j \in JobIds : releases[j] \subseteq releases'[j],
           \A j \in JobIds \ {i} : /\ approvals'[j] = approvals[j] /\ records'[j] = records[j]
                                   /\ releases'[j] = releases[j],
           Decided(i) => Decided(i)',
           RowDecided(i)',
           \A j \in JobIds : resuming'[j] > 0 => resuming[j] > 0 \/ Decided(j)',
           approvals'[i].status = "completed" =>
               approvals[i].status = "completed" \/ jobs[i].fundedAt > 0,
           \A s \in Slots : \/ requests'[s] = requests[s]
                            \/ requests'[s] = NoRequest
                            \/ /\ Released(requests[s].j)'
                               /\ ApprovedIn(requests[s].j, requests[s].job)',
           \A c \in late' : c \in late \/ (c.op \in FundOps => Released(c.j) /\ c.j \in JobIds)
    PROVE  FundingInv'
<1>1. \A j \in JobIds : Decided(j) => Decided(j)'
    BY DEF Decided, Asked, OwnApproval
<1>2. \A j \in JobIds : RowDecided(j)'
    <2> SUFFICES ASSUME NEW j \in JobIds PROVE RowDecided(j)'
        OBVIOUS
    <2>1. RowDecided(j)
        BY DEF FundingInv
    <2> QED
        BY <2>1, RowAfter
<1>3. \A j \in JobIds : approvals'[j].status = "completed" =>
               approvals[j].status = "completed" \/ jobs[j].fundedAt > 0
    OBVIOUS
<1> QED
    BY <1>1, <1>2, <1>3, DecideParts

\* A decision writes the job's row and nothing else of the lane.
LEMMA WriteKeeps ==
    ASSUME LaneInv, NEW j \in JobIds, NEW rec \in Record, SaidOf(j, rec),
           records' = [records EXCEPT ![j] = rec],
           UNCHANGED <<vars, requests, late, verdicts, submitAnchors, crashes>>
    PROVE  LaneInv'
<1>1. /\ records' \in [JobIds -> Record]
      /\ \A k \in JobIds : records'[k] = records[k] \/ SaidOf(k, records'[k])
    BY DEF LaneInv, LaneTypeOK
<1>2. requests' \in [Slots -> Request \cup {NoRequest}] /\ crashes' \in 0..MaxCrashes
    BY DEF LaneInv, LaneTypeOK
<1> QED
    BY <1>1, <1>2, Unmoved, SameCalls, QuietStep

\* What a decision writes may be said of the job.
LEMMA DecidedSaid ==
    ASSUME NEW j \in JobIds, NEW rec \in Record, SaidOf(j, rec), NEW status \in Statuses,
           NEW state \in {"pending_approval", "approval_expired", "approval_rejected"}
    PROVE  /\ decided(rec, state, status) \in Record
           /\ SaidOf(j, decided(rec, state, status))
           /\ decided(rec, state, status).state = state
           /\ decided(rec, state, status).approvalState = status
<1>1. /\ decided(rec, state, status) \in Record
      /\ decided(rec, state, status).state = state
      /\ decided(rec, state, status).approvalState = status
      /\ decided(rec, state, status).executor = rec.executor
      /\ decided(rec, state, status).submitAnchorTxHash = rec.submitAnchorTxHash
    BY DEF decided, Record, Statuses
<1>2. state \notin Progressed \cup {"none"}
    BY DEF Progressed
<1> QED
    BY <1>1, <1>2, SaysLess

\* A row of which there is an approval, or any row that is there.
LEMMA RowSaid ==
    ASSUME FundingInv, NEW j \in JobIds, approvals[j].status # "none" \/ records[j].state # "none"
    PROVE  records[j] \in Record /\ SaidOf(j, records[j])
<1>1. records[j] \in Record /\ RowHonest(j) /\ records[j].state # "none"
    BY DEF FundingInv, LaneInv, LaneTypeOK, RowDecided, Asked
<1> QED
    BY <1>1 DEF SaidOf, RowHonest

\* A change of one approval, and the row that tells of it.
LEMMA DecisionKeeps ==
    ASSUME FundingInv, NEW j \in JobIds, NEW rec \in Record, SaidOf(j, rec), NEW status \in Statuses,
           NEW state \in {"pending_approval", "approval_expired", "approval_rejected"},
           approvals' \in [JobIds -> Approval], approvals'[j].status = status,
           \A k \in JobIds \ {j} : approvals'[k] = approvals[k],
           records' = [records EXCEPT ![j] = decided(rec, state, status)],
           Decided(j) => Decided(j)', status # "none", UNCHANGED releases,
           status = "completed" => approvals[j].status = "completed",
           state = "pending_approval" => status \in {"pending", "approved", "completed"},
           resuming' \in [JobIds -> 0..MaxResumes],
           \A k \in JobIds : resuming'[k] > 0 => resuming[k] > 0 \/ Decided(k)',
           UNCHANGED <<vars, requests, late, verdicts, submitAnchors, crashes>>
    PROVE  FundingInv'
<1> DEFINE new == decided(rec, state, status)
<1>1. new \in Record /\ SaidOf(j, new) /\ new.state = state /\ new.approvalState = status
    BY DecidedSaid
<1> HIDE DEF new
<1>2. records' = [records EXCEPT ![j] = new]
    BY DEF new
<1>3. LaneInv'
    BY <1>1, <1>2, WriteKeeps DEF FundingInv
<1>4. ApprovalTypeOK'
    BY <1>3 DEF FundingInv, LaneInv, ApprovalTypeOK
<1>5. records'[j] = new /\ \A k \in JobIds \ {j} : records'[k] = records[k]
    BY <1>2 DEF FundingInv, LaneInv, LaneTypeOK
<1>6. UNCHANGED jobs
    BY DEF vars
<1>7. status = "completed" => jobs[j].fundedAt > 0
    BY DEF FundingInv, DecidedFirst
<1>8. RowDecided(j)'
    BY <1>1, <1>5, <1>6, <1>7 DEF RowDecided, ApprovedIn, ReadIn, Asked
<1> QED
    BY <1>3, <1>4, <1>5, <1>6, <1>7, <1>8, OneDecision

\* A fund request asks when nobody was asked, and waits for what was decided.
LEMMA AwaitFinds ==
    ASSUME FundingInv, NEW j \in JobIds, awaitApproval(j)
    PROVE  \/ /\ approvals' = approvals
              /\ approvals[j].status \in {"pending", "approved", "completed"}
           \/ /\ approvals[j].status = "none"
              /\ approvals' = [approvals EXCEPT ![j] = [status |-> "pending",
                                                        expiresAt |-> now + ApprovalTtl]]
BY DEF awaitApproval, activeApproval

\* A fund request that waits for the owner.
LEMMA AwaitDecided ==
    ASSUME FundingInv, NEW j \in JobIds, awaitApproval(j)
    PROVE  FundingInv'
<1>1. /\ records' = [records EXCEPT ![j] = decided(materializeJob(j), "pending_approval",
                                                   approvals'[j].status)]
      /\ UNCHANGED <<vars, requests, late, verdicts, submitAnchors, crashes, resuming, releases>>
      /\ materializeJob(j).state # "none"
    BY DEF awaitApproval, upsertJobRecord, Unfunded
<1>2. materializeJob(j) \in Record /\ SaidOf(j, materializeJob(j))
    BY <1>1, ReadSaid DEF FundingInv
<1>3. /\ approvals \in [JobIds -> Approval] /\ resuming \in [JobIds -> 0..MaxResumes]
      /\ now \in Nat /\ ApprovalTtl \in Nat
    BY ApprovalAssumption DEF FundingInv, ApprovalTypeOK, LaneTypeOK, TypeOK
<1>4. /\ approvals' \in [JobIds -> Approval]
      /\ \A k \in JobIds \ {j} : approvals'[k] = approvals[k]
      /\ approvals'[j].status \in {"pending", "approved", "completed"}
      /\ Decided(j) => Decided(j)'
      /\ approvals'[j].status = "completed" => approvals[j].status = "completed"
    <2>1. CASE approvals' = approvals /\ approvals[j].status \in {"pending", "approved", "completed"}
        BY <1>1, <1>3, <2>1 DEF Decided, Asked, OwnApproval
    <2>2. CASE /\ approvals[j].status = "none"
               /\ approvals' = [approvals EXCEPT ![j] = [status |-> "pending",
                                                         expiresAt |-> now + ApprovalTtl]]
        <3>1. [status |-> "pending", expiresAt |-> now + ApprovalTtl] \in Approval
            BY <1>3 DEF Approval
        <3>2. /\ approvals' \in [JobIds -> Approval] /\ approvals'[j].status = "pending"
              /\ \A k \in JobIds \ {j} : approvals'[k] = approvals[k]
            BY <1>3, <2>2, <3>1
        <3> QED
            BY <2>2, <3>2 DEF Decided, Asked
    <2> QED
        BY <2>1, <2>2, AwaitFinds
<1>5. PICK status \in Statuses : status = approvals'[j].status
    BY <1>4 DEF Statuses
<1>6. /\ records' = [records EXCEPT ![j] = decided(materializeJob(j), "pending_approval", status)]
      /\ UNCHANGED <<vars, requests, late, verdicts, submitAnchors, crashes, releases>>
      /\ resuming' \in [JobIds -> 0..MaxResumes]
      /\ \A k \in JobIds : resuming'[k] > 0 => resuming[k] > 0
    BY <1>1, <1>3, <1>5
<1>7. /\ status \in {"pending", "approved", "completed"} /\ (Decided(j) => Decided(j)')
      /\ status = "completed" => approvals[j].status = "completed"
    BY <1>4, <1>5
<1> QED
    BY <1>2, <1>4, <1>5, <1>6, <1>7, DecisionKeeps

\* An overdue approval of the job itself expires, by either way it is found.
LEMMA ExpiredDecided ==
    ASSUME FundingInv, NEW j \in JobIds,
           approvalFoundExpired(j, j) \/ maybeExpireApprovalRecord(j)
    PROVE  FundingInv'
<1>1. /\ approvals[j].status = "pending" /\ setStatus(j, "expired")
      /\ UNCHANGED <<vars, requests, late, verdicts, submitAnchors, crashes, resuming, releases>>
    BY DEF approvalFoundExpired, maybeExpireApprovalRecord, overdue
<1>2. /\ approvals' \in [JobIds -> Approval] /\ approvals'[j].status = "expired"
      /\ \A k \in JobIds \ {j} : approvals'[k] = approvals[k]
    BY <1>1, StatusSet DEF Statuses
<1>3. resuming' \in [JobIds -> 0..MaxResumes] /\ (Decided(j) => Decided(j)')
      /\ \A k \in JobIds : resuming'[k] > 0 => resuming[k] > 0
    BY <1>1, <1>2 DEF FundingInv, ApprovalTypeOK, Decided, Asked, OwnApproval
<1>4. \E rec \in Record :
        /\ SaidOf(j, rec)
        /\ records' = [records EXCEPT ![j] = decided(rec, "approval_expired", "expired")]
    <2>1. CASE approvalFoundExpired(j, j)
        BY <2>1, ReadSaid DEF approvalFoundExpired, upsertJobRecord, FundingInv
    <2>2. CASE maybeExpireApprovalRecord(j)
        BY <1>1, <2>2, RowSaid DEF maybeExpireApprovalRecord, upsertJobRecord
    <2> QED
        BY <2>1, <2>2
<1>5. PICK rec \in Record :
        /\ SaidOf(j, rec)
        /\ records' = [records EXCEPT ![j] = decided(rec, "approval_expired", "expired")]
    BY <1>4
<1>6. "expired" \in Statuses
    BY DEF Statuses
<1> QED
    BY <1>1, <1>2, <1>3, <1>5, <1>6, DecisionKeeps

\* A fund request for one job finds the overdue approval of another: the one is
\* written as expired, and the approval of the other is.
LEMMA ForeignExpired ==
    ASSUME FundingInv, NEW j \in JobIds, NEW k \in JobIds, j # k, approvalFoundExpired(j, k)
    PROVE  FundingInv'
<1>1. /\ approvals[k].status = "pending" /\ setStatus(k, "expired")
      /\ records' = [records EXCEPT ![j] = decided(materializeJob(j), "approval_expired", "expired")]
      /\ materializeJob(j).state # "none"
      /\ UNCHANGED <<vars, requests, late, verdicts, submitAnchors, crashes, resuming, releases>>
    BY DEF approvalFoundExpired, overdue, upsertJobRecord
<1>2. /\ approvals' \in [JobIds -> Approval] /\ approvals'[k].status = "expired"
      /\ \A i \in JobIds \ {k} : approvals'[i] = approvals[i]
    BY <1>1, StatusSet DEF Statuses
<1> DEFINE new == decided(materializeJob(j), "approval_expired", "expired")
<1>3. new \in Record /\ SaidOf(j, new) /\ new.state = "approval_expired"
    <2>1. materializeJob(j) \in Record /\ SaidOf(j, materializeJob(j))
        BY <1>1, ReadSaid DEF FundingInv
    <2> QED
        BY <2>1, DecidedSaid DEF Statuses
<1> HIDE DEF new
<1>4. LaneInv'
    BY <1>1, <1>3, WriteKeeps DEF FundingInv, new
<1>5. ApprovalTypeOK'
    BY <1>1, <1>2, <1>4 DEF FundingInv, LaneInv, ApprovalTypeOK
<1>6. records'[j] = new /\ \A i \in JobIds \ {j} : records'[i] = records[i]
    BY <1>1 DEF FundingInv, LaneInv, LaneTypeOK, new
<1>7. UNCHANGED <<jobs, requests, late, resuming, releases>>
    BY <1>1 DEF vars
<1>8. \A i \in JobIds : RowDecided(i)'
    <2> SUFFICES ASSUME NEW i \in JobIds PROVE RowDecided(i)'
        OBVIOUS
    <2>1. CASE i = j
        BY <1>3, <1>6, <2>1 DEF RowDecided
    <2>2. CASE i # j
        <3>1. RowDecided(i) /\ records'[i] = records[i]
            BY <1>6, <2>2 DEF FundingInv
        <3> QED
            BY <1>1, <1>2, <1>7, <3>1, RowAfter
    <2> QED
        BY <2>1, <2>2
<1>9. \A i \in JobIds : Decided(i) => Decided(i)'
    BY <1>1, <1>2, <1>7 DEF Decided, Asked, OwnApproval
<1>10. \A i \in JobIds : approvals'[i].status = "completed" => approvals[i].status = "completed"
    BY <1>2
<1> QED
    BY <1>4, <1>5, <1>7, <1>8, <1>9, <1>10, DecideParts

\* The owner approves.
LEMMA ApproveDecided ==
    ASSUME FundingInv, NEW j \in JobIds, approve(j)
    PROVE  FundingInv'
<1>1. /\ approvals[j].status # "none" /\ setStatus(j, "approved")
      /\ records' = [records EXCEPT ![j] = decided(records[j], "pending_approval", "approved")]
      /\ resuming' = [resuming EXCEPT ![j] = @ + 1] /\ resuming[j] < MaxResumes
      /\ UNCHANGED <<vars, requests, late, verdicts, submitAnchors, crashes, releases>>
    BY DEF approve, upsertJobRecord
<1>2. /\ approvals' \in [JobIds -> Approval] /\ approvals'[j].status = "approved"
      /\ \A k \in JobIds \ {j} : approvals'[k] = approvals[k]
    BY <1>1, StatusSet DEF Statuses
<1>3. /\ resuming' \in [JobIds -> 0..MaxResumes]
      /\ \A k \in JobIds : resuming'[k] > 0 => resuming[k] > 0 \/ Decided(k)'
    <2>1. resuming \in [JobIds -> 0..MaxResumes] /\ MaxResumes \in Nat
        BY ApprovalAssumption DEF FundingInv, ApprovalTypeOK
    <2>2. resuming' \in [JobIds -> 0..MaxResumes]
        BY <1>1, <2>1
    <2>3. Decided(j)' /\ \A k \in JobIds \ {j} : resuming'[k] = resuming[k]
        BY <1>1, <1>2, <2>1 DEF Decided, Asked
    <2> QED
        BY <2>2, <2>3
<1>4. records[j] \in Record /\ SaidOf(j, records[j])
    BY <1>1, RowSaid
<1>5. "approved" \in Statuses /\ (Decided(j) => Decided(j)')
    BY <1>2 DEF Statuses, Decided, Asked
<1> QED
    BY <1>1, <1>2, <1>3, <1>4, <1>5, DecisionKeeps

\* The owner rejects.
LEMMA RejectDecided ==
    ASSUME FundingInv, NEW j \in JobIds, reject(j)
    PROVE  FundingInv'
<1>1. /\ approvals[j].status # "none" /\ setStatus(j, "rejected")
      /\ records' = [records EXCEPT ![j] = decided(records[j], "approval_rejected", "rejected")]
      /\ UNCHANGED <<vars, requests, late, verdicts, submitAnchors, crashes, resuming, releases>>
    BY DEF reject, upsertJobRecord
<1>2. /\ approvals' \in [JobIds -> Approval] /\ approvals'[j].status = "rejected"
      /\ \A k \in JobIds \ {j} : approvals'[k] = approvals[k]
    BY <1>1, StatusSet DEF Statuses
<1>3. /\ resuming' \in [JobIds -> 0..MaxResumes]
      /\ \A k \in JobIds : resuming'[k] > 0 => resuming[k] > 0 \/ Decided(k)'
    BY <1>1 DEF FundingInv, ApprovalTypeOK
<1>4. records[j] \in Record /\ SaidOf(j, records[j])
    BY <1>1, RowSaid
<1>5. "rejected" \in Statuses /\ (Decided(j) => Decided(j)')
    BY <1>2 DEF Statuses, Decided, Asked
<1> QED
    BY <1>1, <1>2, <1>3, <1>4, <1>5, DecisionKeeps

\* A granted funding starts from a row that tells of the grant, or from the
\* grant of another job.
LEMMA GrantedDecided ==
    ASSUME FundingInv, NEW s \in Slots, NEW j \in JobIds, NEW op \in FundOps, NEW k \in JobIds,
           fundApproved(s, j, op, k)
    PROVE  FundingInv'
<1>1. /\ approvals[k].status \in {"approved", "completed"}
      /\ releases' = [releases EXCEPT ![j] = @ \cup {k}]
      /\ approvals' = approvals /\ resuming' = resuming
      /\ fundFrom(s, j, op, {"pending_approval"}) /\ UNCHANGED <<jobs, late>>
    BY DEF fundApproved, released, fundFrom, vars
<1>2. LaneInv'
    BY <1>1, FundKeeps DEF FundingInv
<1>3. /\ records[j] \in Record /\ materializeJob(j) = records[j]
      /\ records[j].state = "pending_approval"
    BY <1>1 DEF fundFrom, arrive, materializeJob, FundingInv, LaneInv, LaneTypeOK, Record
<1>4. /\ releases' \in [JobIds -> SUBSET JobIds] /\ releases'[j] = releases[j] \cup {k}
      /\ \A i \in JobIds \ {j} : releases'[i] = releases[i]
    BY <1>1 DEF FundingInv, ApprovalTypeOK
<1>5. OwnApproval(j)' => OwnApproval(j) /\ approvals[j].status \in {"approved", "completed"}
    BY <1>1, <1>4 DEF OwnApproval
<1>6. RowDecided(j)
    BY DEF FundingInv
<1> PICK rec \in Record : rec = records[j]
    BY <1>3
<1>7. Released(j)' /\ ApprovedIn(j, rec)'
    <2>1. Asked(j)' /\ releases'[j] # {} /\ ReadIn(j, rec)'
        BY <1>1, <1>3, <1>4, <1>6 DEF RowDecided, Asked, ReadIn
    <2>2. OwnApproval(j)' => rec.approvalState # "pending"
        BY <1>3, <1>5, <1>6 DEF RowDecided, ApprovedIn
    <2> QED
        BY <1>1, <1>5, <2>1, <2>2 DEF Released, Decided, ApprovedIn
<1>8. ApprovalTypeOK'
    BY <1>1, <1>2, <1>4 DEF FundingInv, LaneInv, ApprovalTypeOK
<1>9. /\ requests'[s].j = j /\ requests'[s].job = rec
      /\ \A t \in Slots \ {s} : requests'[t] = requests[t]
    BY <1>1, <1>3 DEF fundFrom, arrive, FundingInv, LaneInv, LaneTypeOK
<1>10. Released(requests[s].j)' /\ ApprovedIn(requests[s].j, requests[s].job)'
    BY <1>7, <1>9 DEF Released, Decided, Asked, OwnApproval, ApprovedIn, ReadIn
<1>11. /\ records'[j] = records[j] \/ records'[j].state = "funding_pending"
       /\ \A i \in JobIds \ {j} : records'[i] = records[i]
    <2>1. \/ records' = records
          \/ records' = [records EXCEPT ![j] = funding(materializeJob(j), "funding_pending")]
        BY <1>1 DEF fundFrom, upsertJobRecord
    <2>2. funding(materializeJob(j), "funding_pending").state = "funding_pending"
        BY <1>3 DEF funding, Record
    <2> QED
        BY <2>1, <2>2 DEF FundingInv, LaneInv, LaneTypeOK
<1>12. RowDecided(j)'
    <2>1. CASE records'[j] = records[j]
        BY <1>1, <1>4, <1>6, <2>1, RowAfter
    <2>2. CASE records'[j].state = "funding_pending"
        BY <1>1, <1>3, <1>5, <1>6, <2>2 DEF RowDecided, Asked
    <2> QED
        BY <1>11, <2>1, <2>2
<1>13. (Decided(j) => Decided(j)')
    BY <1>7 DEF Released
<1>14. \A i \in JobIds : releases[i] \subseteq releases'[i]
    BY <1>4
<1> QED
    BY <1>1, <1>2, <1>4, <1>8, <1>9, <1>10, <1>11, <1>12, <1>13, <1>14, OneDecision

\* A funding that completes leaves its approval completed.
LEMMA CompletesDecided ==
    ASSUME FundingInv, NEW s \in Slots, fundCompletes(s)
    PROVE  FundingInv'
<1> DEFINE r == requests[s]
<1>1. /\ r.awaits = "anchor" /\ r.op \in FundOps /\ setStatus(r.j, "completed")
      /\ records' = [records EXCEPT ![r.j] = writtenBy(r)]
      /\ requests' = [requests EXCEPT ![s] = NoRequest]
      /\ UNCHANGED <<jobs, late, resuming, releases>>
    BY DEF fundCompletes, funds, anchorReturns, upsertJobRecord, responds
<1>2. /\ r.j \in JobIds /\ r.job \in Record /\ Released(r.j)
      /\ jobs[r.j].fundedAt > 0
    BY <1>1, FundInFlight DEF Honest, MinedBy
<1> PICK i \in JobIds : i = r.j
    BY <1>2
<1>3. LaneInv'
    BY AnchorReturnsKeeps DEF fundCompletes, FundingInv
<1>4. /\ approvals' \in [JobIds -> Approval] /\ approvals'[i].status = "completed"
      /\ \A k \in JobIds \ {i} : approvals'[k] = approvals[k]
    BY <1>1, <1>2, StatusSet DEF Statuses
<1>5. ApprovalTypeOK'
    BY <1>1, <1>3, <1>4 DEF FundingInv, LaneInv, ApprovalTypeOK
<1>6. /\ records'[i].state = "funded"
      /\ \A k \in JobIds \ {i} : records'[k] = records[k]
    <2>1. writtenBy(r).state = "funded"
        BY <1>1, <1>2 DEF writtenBy, funding, Record, FundOps
    <2> QED
        BY <1>1, <1>2, <2>1 DEF FundingInv, LaneInv, LaneTypeOK
<1>7. RowDecided(i)' /\ Decided(i)'
    BY <1>4, <1>6 DEF RowDecided, Decided, Asked
<1>8. \A t \in Slots : requests'[t] = requests[t] \/ requests'[t] = NoRequest
    BY <1>1 DEF FundingInv, LaneInv, LaneTypeOK
<1> QED
    BY <1>1, <1>2, <1>3, <1>4, <1>5, <1>6, <1>7, <1>8, OneDecision

\* A funding given up on puts the job's approval back to a decision, unless
\* another's released it.
LEMMA GivenUpDecided ==
    ASSUME FundingInv, NEW s \in Slots, NEW keep \in BOOLEAN, fundGivenUp(s, keep)
    PROVE  FundingInv'
<1> DEFINE r == requests[s]
<1>1. /\ r.awaits # "nothing" /\ r.op \in FundOps /\ setStatus(r.j, r.job.approvalState)
      /\ requests' = [requests EXCEPT ![s] = NoRequest]
      /\ late' = late \/ late' = late \cup {callOf(r)}
      /\ UNCHANGED <<jobs, resuming, releases>>
    BY DEF fundGivenUp, funds, escrowFails, responds, vars
<1>2. /\ r.j \in JobIds /\ r.job \in Record /\ Released(r.j) /\ ApprovedIn(r.j, r.job)
    BY <1>1, FundInFlight
<1> PICK i \in JobIds : i = r.j
    BY <1>2
<1>3. LaneInv'
    BY EscrowFailsKeeps DEF fundGivenUp, FundingInv
<1>4. /\ approvals' \in [JobIds -> Approval] /\ approvals'[i].status = r.job.approvalState
      /\ \A k \in JobIds \ {i} : approvals'[k] = approvals[k]
    <2>1. r.job.approvalState \in Statuses
        BY <1>2 DEF ApprovedIn, ReadIn, Statuses
    <2> QED
        BY <1>1, <1>2, <2>1, StatusSet
<1>5. ApprovalTypeOK'
    BY <1>1, <1>3, <1>4 DEF FundingInv, LaneInv, ApprovalTypeOK
<1>6. /\ records'[i] = records[i] \/ records'[i].state = "funding_failed"
      /\ \A k \in JobIds \ {i} : records'[k] = records[k]
    <2>1. \/ records' = records
          \/ records' = [records EXCEPT ![i] = funding(r.job, "funding_failed")]
        BY <1>1 DEF fundGivenUp, escrowFails, upsertJobRecord, FundOps
    <2>2. funding(r.job, "funding_failed").state = "funding_failed"
        BY <1>2 DEF funding, Record
    <2> QED
        BY <1>2, <2>1, <2>2 DEF FundingInv, LaneInv, LaneTypeOK
<1>7. /\ Decided(i) /\ (OwnApproval(i)' <=> OwnApproval(i))
      /\ approvals'[i].status \in {"pending", "approved", "completed"}
      /\ OwnApproval(i) => approvals'[i].status \in {"approved", "completed"}
    BY <1>1, <1>2, <1>4 DEF Released, OwnApproval, ApprovedIn, ReadIn
<1>8. RowDecided(i)' /\ Decided(i)'
    <2>1. CASE records'[i] = records[i]
        <3>1. RowDecided(i)
            BY DEF FundingInv
        <3> QED
            BY <1>1, <1>7, <2>1, <3>1, RowAfter DEF Decided, Asked
    <2>2. CASE records'[i].state = "funding_failed"
        BY <1>7, <2>2 DEF RowDecided, Decided, Asked
    <2> QED
        BY <1>6, <2>1, <2>2
<1>9. \A t \in Slots : requests'[t] = requests[t] \/ requests'[t] = NoRequest
    BY <1>1 DEF FundingInv, LaneInv, LaneTypeOK
<1>10. \A c \in late' : c \in late \/ (c.op \in FundOps => Released(c.j) /\ c.j \in JobIds)
    BY <1>1, <1>2 DEF callOf
<1>11. approvals'[i].status = "completed" => jobs[i].fundedAt > 0
    BY <1>2, <1>4 DEF ApprovedIn, ReadIn
<1> QED
    BY <1>1, <1>2, <1>3, <1>4, <1>5, <1>6, <1>7, <1>8, <1>9, <1>10, <1>11, OneDecision

\* An approve request is answered, or puts its approval back to approved.
LEMMA ResumeDecided ==
    ASSUME FundingInv, NEW j \in JobIds, NEW answered \in BOOLEAN, resumeReturns(j, answered)
    PROVE  FundingInv'
<1>1. /\ resuming[j] > 0 /\ resuming' = [resuming EXCEPT ![j] = @ - 1] /\ UNCHANGED allVars
      /\ UNCHANGED <<jobs, records, requests, late>>
      /\ releases' = releases /\ (approvals' = approvals \/ setStatus(j, "approved"))
    BY DEF resumeReturns, allVars, vars, laneVars
<1>2. LaneInv'
    BY <1>1, StutterKeeps DEF FundingInv
<1>3. Decided(j) /\ RowDecided(j) /\ resuming \in [JobIds -> 0..MaxResumes]
    BY <1>1 DEF FundingInv, DecidedFirst, ApprovalTypeOK
<1>4. /\ approvals' \in [JobIds -> Approval]
      /\ approvals'[j].status = approvals[j].status \/ approvals'[j].status = "approved"
      /\ \A k \in JobIds \ {j} : approvals'[k] = approvals[k]
    <2>1. CASE approvals' = approvals
        BY <2>1 DEF FundingInv, ApprovalTypeOK
    <2>2. CASE setStatus(j, "approved")
        BY <2>2, StatusSet DEF Statuses
    <2> QED
        BY <1>1, <2>1, <2>2
<1>5. /\ resuming' \in [JobIds -> 0..MaxResumes]
      /\ \A k \in JobIds : resuming'[k] > 0 => resuming[k] > 0
    <2>1. MaxResumes \in Nat
        BY ApprovalAssumption
    <2> QED
        BY <1>1, <1>3, <2>1
<1>6. ApprovalTypeOK'
    BY <1>1, <1>2, <1>4, <1>5 DEF FundingInv, LaneInv, ApprovalTypeOK
<1>7. RowDecided(j)'
    BY <1>1, <1>3, <1>4, RowAfter
<1>8. Decided(j)'
    BY <1>1, <1>3, <1>4 DEF Decided, Asked, OwnApproval
<1> QED
    BY <1>1, <1>2, <1>4, <1>5, <1>6, <1>7, <1>8, OneDecision

\* A crash leaves approvals and rows as they are.
LEMMA CrashDecided ==
    ASSUME FundingInv, FundingCrash
    PROVE  FundingInv'
<1>1. /\ Crash /\ UNCHANGED <<approvals, releases>> /\ resuming' = [j \in JobIds |-> 0]
      /\ UNCHANGED <<jobs, records>> /\ forgetsRequests
    BY DEF FundingCrash, Crash, vars
<1>2. LaneInv'
    BY <1>1, CrashKeeps DEF FundingInv
<1>3. /\ ApprovalTypeOK'
      /\ \A j \in JobIds : ~(resuming'[j] > 0)
    BY <1>1, <1>2, ApprovalAssumption DEF FundingInv, LaneInv, ApprovalTypeOK
<1>4. \A j \in JobIds : RowDecided(j)'
    <2> SUFFICES ASSUME NEW j \in JobIds PROVE RowDecided(j)'
        OBVIOUS
    <2>1. RowDecided(j)
        BY DEF FundingInv
    <2> QED
        BY <1>1, <2>1, RowAfter
<1>5. \A s \in Slots : requests'[s] = NoRequest
    BY <1>1 DEF forgetsRequests
<1>6. \A c \in late' : c \in late \/ (c.op \in FundOps => Released(c.j) /\ c.j \in JobIds)
    <2>1. \A s \in Slots : requests[s].awaits = "escrow" /\ callOf(requests[s]).op \in FundOps =>
              Released(callOf(requests[s]).j) /\ callOf(requests[s]).j \in JobIds
        BY FundInFlight DEF callOf
    <2> QED
        BY <1>1, <2>1 DEF forgetsRequests
<1>7. \A j \in JobIds : (Decided(j) => Decided(j)')
    BY <1>1 DEF Decided, Asked, OwnApproval
<1> QED
    BY <1>1, <1>2, <1>3, <1>4, <1>5, <1>6, <1>7, DecideParts

-----------------------------------------------------------------------------
\* The theorems

\* A step that changes nothing.
LEMMA FundingStutter ==
    ASSUME FundingInv, UNCHANGED fundingVars
    PROVE  FundingInv'
<1>1. UNCHANGED allVars /\ UNCHANGED approvalVars /\ UNCHANGED <<jobs, records, requests, late>>
    BY DEF fundingVars, allVars, vars, laneVars
<1>2. LaneInv'
    BY <1>1, StutterKeeps DEF FundingInv
<1> QED
    BY <1>1, <1>2, SameFunds, LaneParts

\* Every step keeps the decisions first.
LEMMA FundingStepKeeps ==
    ASSUME FundingInv, [FundingNext]_fundingVars
    PROVE  FundingInv'
BY LaneStepDecided, GrantedDecided, CompletesDecided, GivenUpDecided, AwaitDecided, ExpiredDecided,
   ForeignExpired, ApproveDecided, ResumeDecided, RejectDecided, CrashDecided, FundingStutter DEF FundingNext

\* Nobody was asked at the start.
LEMMA FundingInitDecided == FundingInit => FundingInv
<1> SUFFICES ASSUME FundingInit PROVE FundingInv
    OBVIOUS
<1>1. LaneInv /\ LaneInit
    BY LaneInitHonest DEF FundingInit
<1>2. ApprovalTypeOK
    <2>1. /\ [status |-> "none", expiresAt |-> 0] \in Approval /\ MaxResumes \in Nat
          /\ approvals = [j \in JobIds |-> [status |-> "none", expiresAt |-> 0]]
          /\ resuming = [j \in JobIds |-> 0] /\ releases = [j \in JobIds |-> {}]
        BY ApprovalAssumption DEF FundingInit, Approval
    <2>2. /\ approvals \in [JobIds -> Approval] /\ resuming \in [JobIds -> 0..MaxResumes]
          /\ releases \in [JobIds -> SUBSET JobIds]
        BY <2>1
    <2> QED
        BY <1>1, <2>2 DEF LaneInv, ApprovalTypeOK
<1>3. ASSUME NEW j \in JobIds
      PROVE  /\ records[j].state = "none" /\ approvals[j].status = "none" /\ resuming[j] = 0
             /\ jobs[j].fundedAt = 0
    BY <1>1 DEF FundingInit, LaneInit, Init, NoRecord, NoJob
<1>4. ASSUME NEW j \in JobIds PROVE RowDecided(j) /\ DecidedFirst(j)
    <2>1. RowDecided(j)
        BY <1>3 DEF RowDecided, Asked
    <2>2. DecidedFirst(j)
        BY <1>3 DEF DecidedFirst
    <2> QED
        BY <2>1, <2>2
<1>5. late = {} /\ \A s \in Slots : ~funds(s)
    BY <1>1 DEF LaneInit, funds
<1> QED
    BY <1>1, <1>2, <1>4, <1>5 DEF FundingInv

\* No funding is about before its decision, in every state of the lane with
\* approvals.
THEOREM FundingInvariant == FundingSpec => []FundingInv
<1>1. FundingInv /\ [FundingNext]_fundingVars => FundingInv'
    BY FundingStepKeeps
<1> QED
    BY <1>1, FundingInitDecided, PTL DEF FundingSpec

\* ApprovalTypeOK in every reachable state: the approvals and the lane's tables
\* hold only the states of their vocabularies.
THEOREM ApprovalTyped == FundingSpec => []ApprovalTypeOK
BY FundingInvariant, PTL DEF FundingInv

\* RecordsBacked in every reachable state: records above the threshold, too,
\* claim no step of the escrow that was not taken.
THEOREM ApprovalRecordsBacked == FundingSpec => []RecordsBacked
<1>1. FundingInv => RecordsBacked
    BY DEF FundingInv, LaneInv, RowHonest, RecordsBacked
<1> QED
    BY <1>1, FundingInvariant, PTL

\* ApprovalsMatchContract in every reachable state: no token is locked before
\* the owner was asked and an approval was granted, the job's own unless a request
\* named another, and an approval is completed only by locked tokens.
THEOREM ApprovalsMatch == FundingSpec => []ApprovalsMatchContract
<1>1. FundingInv => ApprovalsMatchContract
    <2> SUFFICES ASSUME FundingInv, NEW j \in JobIds
                 PROVE  /\ jobs[j].fundedAt > 0 => approvals[j].status # "none" /\ releases[j] # {}
                        /\ approvals[j].status \in {"pending", "expired"} /\ OwnApproval(j) =>
                               jobs[j].fundedAt = 0
                        /\ approvals[j].status = "completed" => jobs[j].fundedAt > 0
        BY DEF ApprovalsMatchContract
    <2>1. jobs[j].fundedAt \in Nat
        BY DEF FundingInv, LaneInv, LaneTypeOK, TypeOK, Job
    <2> QED
        BY <2>1 DEF FundingInv, DecidedFirst, Released, Decided, Asked
<1> QED
    BY <1>1, FundingInvariant, PTL

\* What released a funding is never forgotten.
LEMMA HistoryGrows ==
    ASSUME FundingInv, FundingNext, NEW j \in JobIds
    PROVE  releases[j] \subseteq releases'[j]
<1>1. CASE UNCHANGED releases
    BY <1>1
<1>2. ASSUME NEW s \in Slots, NEW i \in JobIds, NEW op \in FundOps, NEW k \in JobIds,
             fundApproved(s, i, op, k)
      PROVE  releases[j] \subseteq releases'[j]
    BY <1>2 DEF fundApproved, released, FundingInv, ApprovalTypeOK
<1> QED
    BY <1>1, <1>2
    DEF FundingNext, approvalVars, fundCompletes, fundGivenUp, awaitApproval, approvalFoundExpired,
        maybeExpireApprovalRecord, approve, resumeReturns, reject, FundingCrash

\* AskedOnce: as long as only the job's own approval released it, a job for which
\* its owner was once asked is never pending anew, and would not ask again.
THEOREM OwnerAskedOnce == FundingSpec => AskedOnce
<1> DEFINE Still ==
        \A j \in JobIds : approvals[j].status # "none" /\ OwnApproval(j) => ~asks(j)
           Once ==
        \A j \in JobIds :
            approvals[j].status # "none" /\ OwnApproval(j)' =>
                (approvals'[j] # approvals[j] => approvals'[j].status # "pending")
<1>0. ASSUME FundingInv PROVE Still
    <2> SUFFICES ASSUME NEW j \in JobIds, approvals[j].status # "none", OwnApproval(j), asks(j)
                 PROVE  FALSE
        OBVIOUS
    <2>1. records[j].state \in Unfunded
        BY <1>0 DEF asks, materializeJob, Unfunded, FundingInv, LaneInv, LaneTypeOK, Record
    <2>2. approvals[j].status \in {"approved", "completed"}
        BY <1>0, <2>1 DEF FundingInv, RowDecided, Unfunded, Asked
    <2> QED
        BY <2>2 DEF asks, activeApproval, overdue
<1>1. ASSUME FundingInv, FundingNext PROVE Once
    <2>1. CASE UNCHANGED approvals
        BY <2>1
    <2>2. ASSUME NEW i \in JobIds, NEW status \in Statuses \ {"pending"}, setStatus(i, status)
          PROVE  Once
        BY <1>1, <2>2, StatusSet
    <2>3. ASSUME NEW i \in JobIds, awaitApproval(i) PROVE Once
        BY <1>1, <2>3, AwaitFinds DEF FundingInv, ApprovalTypeOK
    <2>4. ASSUME NEW s \in Slots, fundCompletes(s) \/ (\E keep \in BOOLEAN : fundGivenUp(s, keep))
          PROVE  Once
        <3>1. requests[s].awaits # "nothing" /\ requests[s].op \in FundOps
            BY <2>4 DEF fundCompletes, fundGivenUp, funds, anchorReturns, escrowFails
        <3>2. requests[s].j \in JobIds /\ ApprovedIn(requests[s].j, requests[s].job)
            BY <1>1, <3>1, FundInFlight
        <3> PICK i \in JobIds : i = requests[s].j
            BY <3>2
        <3>3. PICK status \in Statuses :
                  /\ releases' = releases /\ setStatus(i, status)
                  /\ OwnApproval(i) => status # "pending"
            BY <2>4, <3>2 DEF fundCompletes, fundGivenUp, ApprovedIn, ReadIn, Statuses
        <3>4. CASE status # "pending"
            BY <2>2, <3>3, <3>4
        <3>5. CASE ~OwnApproval(i)
            <4>1. ~OwnApproval(i)'
                BY <3>3, <3>5 DEF OwnApproval
            <4> QED
                BY <1>1, <3>3, <4>1, StatusSet
        <3> QED
            BY <3>3, <3>4, <3>5
    <2>5. ASSUME NEW i \in JobIds,
                 \/ (\E j \in JobIds : approvalFoundExpired(j, i)) \/ maybeExpireApprovalRecord(i) \/ approve(i)
                 \/ (\E answered \in BOOLEAN : resumeReturns(i, answered)) \/ reject(i)
          PROVE  Once
        <3>1. \/ UNCHANGED approvals \/ setStatus(i, "expired") \/ setStatus(i, "approved")
              \/ setStatus(i, "rejected")
            BY <2>5 DEF approvalFoundExpired, maybeExpireApprovalRecord, approve, resumeReturns,
                        reject
        <3> QED
            BY <2>1, <2>2, <3>1 DEF Statuses
    <2>6. CASE FundingCrash \/ UNCHANGED approvalVars
        BY <2>1, <2>6 DEF FundingCrash, approvalVars
    <2> QED
        BY <1>1, <2>1, <2>3, <2>4, <2>5, <2>6 DEF FundingNext, fundApproved, released
<1>2. FundingInv /\ [FundingNext]_fundingVars =>
        [\A j \in JobIds :
            approvals[j].status # "none" /\ OwnApproval(j)' =>
                /\ ~asks(j)
                /\ approvals'[j] # approvals[j] => approvals'[j].status # "pending"]_fundingVars
    <2>1. ASSUME FundingInv, FundingNext, NEW j \in JobIds PROVE OwnApproval(j)' => OwnApproval(j)
        BY <2>1, HistoryGrows DEF OwnApproval
    <2> QED
        BY <1>0, <1>1, <2>1
<1> QED
    BY <1>2, FundingInvariant, PTL DEF FundingSpec, AskedOnce

\* Every step of the lane with approvals is a step of the contract, or none.
LEMMA FundingStepIsStep ==
    ASSUME FundingInv, [FundingNext]_fundingVars
    PROVE  [Next]_vars
<1>1. CASE UNCHANGED vars
    BY <1>1
<1>2. ASSUME NEW s \in Slots, Progress(s) PROVE [Next]_vars
    BY <1>2, ProgressIsStep DEF FundingInv
<1>3. CASE LaneStep
    <2>1. ASSUME NEW j \in JobIds, NEW executor, createJob(j, executor) PROVE [Next]_vars
        BY <2>1, AnchorIsStep DEF createJob
    <2>2. ASSUME NEW s \in Slots, NEW j \in JobIds, acceptRoute(s, j) \/ executeJobExpiry(s, j)
          PROVE  UNCHANGED vars
        BY <2>2 DEF acceptRoute, executeJobExpiry
    <2>3. ASSUME NEW c \in late, lateMined(c) PROVE [Next]_vars
        BY <2>3, CallIsStep DEF lateMined, FundingInv, LaneInv, LaneTypeOK, CallHonest
    <2> QED
        BY <1>1, <1>2, <1>3, <2>1, <2>2, <2>3, ChainIsStep DEF LaneStep, Progress
<1>4. ASSUME NEW s \in Slots, fundCompletes(s) \/ (\E keep \in BOOLEAN : fundGivenUp(s, keep))
      PROVE  [Next]_vars
    BY <1>2, <1>4 DEF fundCompletes, fundGivenUp, Progress
<1>5. CASE UNCHANGED fundingVars
    BY <1>1, <1>5 DEF fundingVars, allVars
<1> QED
    BY <1>1, <1>3, <1>4, <1>5
    DEF FundingNext, fundApproved, fundFrom, awaitApproval, approvalFoundExpired,
        maybeExpireApprovalRecord, approve, resumeReturns, reject, FundingCrash, Crash, allVars

\* Approvals leave the contract's own guarantees alone.
THEOREM ApprovalImplementsEscrow == FundingSpec => Spec
<1>1. FundingInv /\ [FundingNext]_fundingVars => [Next]_vars
    BY FundingStepIsStep
<1>2. FundingInit => Init
    BY DEF FundingInit, LaneInit
<1> QED
    BY <1>1, <1>2, FundingInvariant, PTL DEF FundingSpec, Spec
=============================================================================
