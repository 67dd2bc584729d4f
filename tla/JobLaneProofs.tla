---------------------------- MODULE JobLaneProofs ----------------------------
(***************************************************************************)
(* Theorems about JobLane, for any number of jobs, executors, requests and *)
(* late calls: the lane only ever does to the contract what the contract   *)
(* allows, its records never run ahead, a verdict is recorded once, and a  *)
(* submit has its anchor.                                                  *)
(***************************************************************************)
EXTENDS LaneHistory, JobEscrowProofs

-----------------------------------------------------------------------------
\* The inductive invariant: what rows, requests and calls may say of a job

\* What a row, or a request's copy of one, may say of j.  Until j is funded
\* everybody names the executor it was created with.
SaidOf(j, rec) ==
    /\ rec.state # "none" /\ records[j].state # "none"
    /\ RecordBacked(rec, jobs[j])
    /\ jobs[j].fundedAt = 0 => rec.executor = records[j].executor
    /\ rec.submitAnchorTxHash => submitAnchors[j] > 0

\* A funding names the record's executor for as long as it can succeed.
CallHonest(c) ==
    /\ records[c.j].state # "none"
    /\ c.op \in FundOps /\ jobs[c.j].fundedAt = 0 => c.by = records[c.j].executor
    /\ c.op = "claim" => c.by \in Executors
    /\ AnchorRequired /\ c.op \in SubmitOps => submitAnchors[c.j] > 0

\* What a request knows once its call was mined.
MinedBy(c, job) ==
    /\ c.op \in FundOps => job.fundedAt > 0
    /\ c.op = "claim" => job.fundedAt > 0 /\ job.executor = c.by
    /\ c.op = "accept" => job.acceptedAt > 0
    /\ c.op \in SubmitOps => job.submittedAt > 0
    /\ c.op = "approve" => job.state = "Completed"
    /\ c.op = "reject" => job.state = "Rejected"

\* The state a request found its job in.
FoundIn(op, state) ==
    /\ op \in {"claim", "accept"} => state = "funded"
    /\ op \in SubmitOps => state = "accepted"
    /\ op \in ValidateOps => state = "submitted"

Honest(r) ==
    /\ SaidOf(r.j, r.job)
    /\ FoundIn(r.op, r.job.state)
    /\ r.submitAnchorTxHash => submitAnchors[r.j] > 0
    /\ r.op \in FundOps /\ jobs[r.j].fundedAt = 0 => r.by = records[r.j].executor
    /\ r.op = "claim" => r.by \in Executors
    /\ r.awaits = "escrow" /\ AnchorRequired /\ r.op \in SubmitOps => submitAnchors[r.j] > 0
    /\ r.awaits \in {"mined", "anchor"} => MinedBy(r, jobs[r.j])
    /\ r.awaits = "anchor" => r.op \notin {"claim"} \cup SubmitOps

RowHonest(j) ==
    /\ RecordBacked(records[j], jobs[j])
    /\ records[j].state = "none" => jobs[j].fundedAt = 0
    /\ records[j].submitAnchorTxHash => submitAnchors[j] > 0

\* A validation that was mined and has not yet recorded its verdict.
Validated(s, j) ==
    /\ requests[s].awaits = "mined"
    /\ requests[s].op \in ValidateOps
    /\ requests[s].j = j

OneVerdict ==
    \A s \in Slots, j \in JobIds : Validated(s, j) =>
        /\ verdicts[j] = <<>>
        /\ \A t \in Slots \ {s} : ~Validated(t, j)

LaneInv ==
    /\ LaneTypeOK
    /\ JobsCoherent
    /\ \A j \in JobIds : RowHonest(j)
    /\ \A s \in Slots : requests[s] # NoRequest => Honest(requests[s])
    /\ \A c \in late : CallHonest(c)
    /\ SubmitsAnchored
    /\ VerdictsSettled
    /\ OneVerdict

-----------------------------------------------------------------------------
\* How the contract moves

\* A job never goes back, and its executor stays once it is funded.
JobGrows(old, new) ==
    /\ old.fundedAt > 0 => new.fundedAt > 0
    /\ old.acceptedAt > 0 => new.acceptedAt > 0
    /\ old.submittedAt > 0 => new.submittedAt > 0
    /\ old.state \in {"Completed", "Rejected"} => new.state = old.state
    /\ old.fundedAt > 0 /\ old.executor # NoParty => new.executor = old.executor

\* What TypeOK and JobsCoherent say of one job.
LEMMA CoherentJob ==
    ASSUME LaneTypeOK, JobsCoherent, NEW j \in JobIds
    PROVE  /\ jobs[j] \in Job
           /\ jobs[j].state = "None" => jobs[j].fundedAt = 0
           /\ jobs[j].state # "None" => jobs[j].fundedAt > 0
           /\ jobs[j].state \in {"Accepted", "Submitted"} =>
                  jobs[j].executor \in Parties /\ jobs[j].acceptedAt > 0
           /\ EscrowInv /\ now \in Nat /\ now > 0
<1>1. jobs[j] \in Job /\ JobCoherent(jobs[j]) /\ EscrowInv /\ now \in Nat /\ now > 0
    BY DEF LaneTypeOK, TypeOK, JobsCoherent, EscrowInv
<1> QED
    BY <1>1 DEF JobCoherent, NoJob, Job

\* The transaction of a call is one of the contract's, by a party, on the
\* call's job.
LEMMA TransactionIsStep ==
    ASSUME LaneTypeOK, JobsCoherent, NEW c \in Call, transaction(c),
           c.op = "claim" => c.by \in Executors
    PROVE  JobStep(c.j)
<1>1. c.j \in JobIds /\ c.by \in Executors \cup {NoParty} /\ Executors \subseteq Parties
    BY LaneAssumption DEF Call
<1>2. CASE lockFunds(Requester, c.j, c.by, Validator, Amount, ExpiresAt, ExecutorStake)
    <2>1. c.by \in Parties \cup {NoParty}
        BY <1>1
    <2> QED
        BY <1>2, <2>1, LaneAssumption DEF JobStep
<1>3. CASE c.op = "claim" /\ claimJob(c.by, c.j)
    BY <1>1, <1>3 DEF JobStep
<1>4. CASE acceptJob(c.by, c.j)
    <2>1. c.by \in Parties
        BY <1>1, <1>4 DEF acceptJob
    <2> QED
        BY <1>4, <2>1 DEF JobStep
<1>5. CASE submitResult(c.by, c.j)
    <2>1. c.by \in Parties
        BY <1>1, <1>5, CoherentJob DEF submitResult
    <2> QED
        BY <1>5, <2>1 DEF JobStep
<1>6. CASE validate(Validator, c.j, c.op = "approve")
    BY <1>6, LaneAssumption DEF JobStep
<1> QED
    BY <1>2, <1>3, <1>4, <1>5, <1>6 DEF transaction

\* The transaction of a call, seen from the jobs.
TransactionMoves(c) ==
    /\ \A k \in JobIds \ {c.j} : jobs'[k] = jobs[k]
    /\ JobGrows(jobs[c.j], jobs'[c.j])
    /\ MinedBy(c, jobs'[c.j])
    /\ jobs[c.j].fundedAt = 0 /\ jobs'[c.j].fundedAt > 0 =>
           c.op \in FundOps /\ jobs'[c.j].executor = c.by
    /\ jobs'[c.j].submittedAt > 0 => jobs[c.j].submittedAt > 0 \/ c.op \in SubmitOps
    /\ c.op \in ValidateOps => jobs[c.j].state = "Submitted"

\* A transaction that leaves the executor alone, except where it is named.
LEMMA JobTableStep ==
    ASSUME jobs \in [JobIds -> Job], NEW j \in JobIds, NEW job, jobs' = [jobs EXCEPT ![j] = job]
    PROVE  jobs'[j] = job /\ \A k \in JobIds \ {j} : jobs'[k] = jobs[k]
OBVIOUS

\* lockFunds, seen from the jobs: it names the executor it was given.
LEMMA LockMoves ==
    ASSUME LaneTypeOK, JobsCoherent, NEW c \in Call, c.op \in FundOps,
           lockFunds(Requester, c.j, c.by, Validator, Amount, ExpiresAt, ExecutorStake)
    PROVE  TransactionMoves(c)
<1> DEFINE job == [state |-> "Funded",
             requester |-> Requester, executor |-> c.by, validator |-> Validator,
             amount |-> Amount, executorStakeAmount |-> ExecutorStake, deadlineAt |-> ExpiresAt,
             fundedAt |-> now, acceptedAt |-> 0, submittedAt |-> 0, resolvedAt |-> 0]
<1>1. c.j \in JobIds /\ jobs \in [JobIds -> Job]
    BY DEF Call, LaneTypeOK, TypeOK
<1>2. jobs[c.j] = NoJob /\ now > 0
    BY <1>1, CoherentJob DEF JobsCoherent, JobCoherent, lockFunds
<1>3. jobs'[c.j] = job /\ \A k \in JobIds \ {c.j} : jobs'[k] = jobs[k]
    BY <1>1, JobTableStep DEF lockFunds
<1> QED
    BY <1>2, <1>3 DEF TransactionMoves, JobGrows, MinedBy, NoJob, FundOps, SubmitOps, ValidateOps

\* claimJob names an executor where there was none.
LEMMA ClaimMoves ==
    ASSUME LaneTypeOK, JobsCoherent, NEW c \in Call, c.op = "claim", claimJob(c.by, c.j)
    PROVE  TransactionMoves(c)
<1> DEFINE job == [jobs[c.j] EXCEPT !.executor = c.by]
<1>1. c.j \in JobIds /\ jobs \in [JobIds -> Job] /\ jobs[c.j] \in Job
    BY DEF Call, LaneTypeOK, TypeOK
<1>2. jobs[c.j].fundedAt > 0 /\ jobs[c.j].executor = NoParty
    BY <1>1, CoherentJob DEF claimJob
<1>3. jobs' = [jobs EXCEPT ![c.j] = job]
    BY DEF claimJob
<1>4. jobs'[c.j] = job /\ \A k \in JobIds \ {c.j} : jobs'[k] = jobs[k]
    BY <1>1, <1>3, JobTableStep
<1> QED
    BY <1>1, <1>2, <1>4 DEF TransactionMoves, JobGrows, MinedBy, Job, FundOps, SubmitOps, ValidateOps

\* acceptJob stamps a funded job.
LEMMA AcceptMoves ==
    ASSUME LaneTypeOK, JobsCoherent, NEW c \in Call, c.op = "accept", acceptJob(c.by, c.j)
    PROVE  TransactionMoves(c)
<1> DEFINE job == [jobs[c.j] EXCEPT !.state = "Accepted", !.acceptedAt = now]
<1>1. c.j \in JobIds /\ jobs \in [JobIds -> Job] /\ jobs[c.j] \in Job
    BY DEF Call, LaneTypeOK, TypeOK
<1>2. jobs[c.j].fundedAt > 0 /\ jobs[c.j].state = "Funded" /\ now > 0
    BY <1>1, CoherentJob DEF acceptJob
<1>3. jobs' = [jobs EXCEPT ![c.j] = job]
    BY DEF acceptJob
<1>4. jobs'[c.j] = job /\ \A k \in JobIds \ {c.j} : jobs'[k] = jobs[k]
    BY <1>1, <1>3, JobTableStep
<1> QED
    BY <1>1, <1>2, <1>4 DEF TransactionMoves, JobGrows, MinedBy, Job, FundOps, SubmitOps, ValidateOps

\* submitResult stamps an accepted job.
LEMMA SubmitMoves ==
    ASSUME LaneTypeOK, JobsCoherent, NEW c \in Call, c.op \in SubmitOps, submitResult(c.by, c.j)
    PROVE  TransactionMoves(c)
<1> DEFINE job == [jobs[c.j] EXCEPT !.state = "Submitted", !.submittedAt = now]
<1>1. c.j \in JobIds /\ jobs \in [JobIds -> Job] /\ jobs[c.j] \in Job
    BY DEF Call, LaneTypeOK, TypeOK
<1>2. jobs[c.j].fundedAt > 0 /\ jobs[c.j].state = "Accepted" /\ now > 0
    BY <1>1, CoherentJob DEF submitResult
<1>3. jobs' = [jobs EXCEPT ![c.j] = job]
    BY DEF submitResult
<1>4. jobs'[c.j] = job /\ \A k \in JobIds \ {c.j} : jobs'[k] = jobs[k]
    BY <1>1, <1>3, JobTableStep
<1> QED
    BY <1>1, <1>2, <1>4 DEF TransactionMoves, JobGrows, MinedBy, Job, FundOps, SubmitOps, ValidateOps

\* validate settles a submitted job.
LEMMA ValidateMoves ==
    ASSUME LaneTypeOK, JobsCoherent, NEW c \in Call, c.op \in ValidateOps,
           validate(Validator, c.j, c.op = "approve")
    PROVE  TransactionMoves(c)
<1> DEFINE job == [jobs[c.j] EXCEPT !.state = IF c.op = "approve" THEN "Completed" ELSE "Rejected",
                                    !.resolvedAt = now]
<1>1. c.j \in JobIds /\ jobs \in [JobIds -> Job] /\ jobs[c.j] \in Job
    BY DEF Call, LaneTypeOK, TypeOK
<1>2. jobs[c.j].fundedAt > 0 /\ jobs[c.j].state = "Submitted"
    BY <1>1, CoherentJob DEF validate
<1>3. jobs' = [jobs EXCEPT ![c.j] = job]
    BY DEF validate
<1>4. jobs'[c.j] = job /\ \A k \in JobIds \ {c.j} : jobs'[k] = jobs[k]
    BY <1>1, <1>3, JobTableStep
<1> QED
    BY <1>1, <1>2, <1>4 DEF TransactionMoves, JobGrows, MinedBy, Job, FundOps, SubmitOps, ValidateOps

\* Whatever the call, its transaction moves only its own job, and forward.
LEMMA CallMoves ==
    ASSUME LaneTypeOK, JobsCoherent, NEW c \in Call, transaction(c)
    PROVE  TransactionMoves(c)
BY LockMoves, ClaimMoves, AcceptMoves, SubmitMoves, ValidateMoves DEF transaction

\* What happens to the contract without the lane names no executor and submits
\* nothing.
LEMMA ChainMoves ==
    ASSUME LaneTypeOK, JobsCoherent, Chain
    PROVE  \A j \in JobIds :
             /\ JobGrows(jobs[j], jobs'[j])
             /\ jobs'[j].fundedAt = jobs[j].fundedAt
             /\ jobs'[j].submittedAt = jobs[j].submittedAt
<1>1. CASE jobs' = jobs
    BY <1>1 DEF JobGrows
<1>2. ASSUME NEW j \in JobIds, expireJob(j)
      PROVE  \A k \in JobIds :
               /\ JobGrows(jobs[k], jobs'[k])
               /\ jobs'[k].fundedAt = jobs[k].fundedAt
               /\ jobs'[k].submittedAt = jobs[k].submittedAt
    <2> DEFINE job == [jobs[j] EXCEPT !.state = "Expired", !.resolvedAt = now]
    <2>1. jobs \in [JobIds -> Job] /\ jobs[j] \in Job
        BY DEF LaneTypeOK, TypeOK
    <2>2. jobs[j].state \in ActiveStates /\ jobs' = [jobs EXCEPT ![j] = job]
        BY <1>2 DEF expireJob
    <2>3. jobs'[j] = job /\ \A k \in JobIds \ {j} : jobs'[k] = jobs[k]
        BY <2>1, <2>2, JobTableStep
    <2>4. /\ job.fundedAt = jobs[j].fundedAt /\ job.acceptedAt = jobs[j].acceptedAt
          /\ job.submittedAt = jobs[j].submittedAt /\ job.executor = jobs[j].executor
        BY <2>1 DEF Job
    <2> QED
        BY <2>2, <2>3, <2>4 DEF JobGrows, ActiveStates
<1> QED
    BY <1>1, <1>2 DEF Chain, Tick, setTraceAnchorGuard

-----------------------------------------------------------------------------
\* The lane's steps are the contract's

\* A best-effort anchor is an anchor, or nothing.
LEMMA AnchorIsStep ==
    ASSUME NEW j \in JobIds, anchorBestEffort(j), UNCHANGED <<jobs, balance, now, guardVars>>
    PROVE  [Next]_vars
<1>1. CASE anchored' = anchored
    BY <1>1 DEF vars
<1>2. CASE anchored' = anchored \cup {j}
    BY <1>2 DEF Next, publishJobLifecycleAnchor
<1> QED
    BY <1>1, <1>2 DEF anchorBestEffort

\* The transaction of a call is a step of the contract.
LEMMA CallIsStep ==
    ASSUME LaneTypeOK, JobsCoherent, NEW c \in Call, transaction(c),
           c.op = "claim" => c.by \in Executors
    PROVE  [Next]_vars
<1>1. JobStep(c.j) /\ c.j \in JobIds
    BY TransactionIsStep DEF Call
<1> QED
    BY <1>1 DEF Next

\* What happens without the lane is a step of the contract.
LEMMA ChainIsStep == Chain => [Next]_vars
<1>1. ASSUME NEW j \in JobIds, expireJob(j) PROVE Next
    BY <1>1 DEF Next, JobStep
<1>2. ASSUME NEW sender \in Parties, NEW guard \in Guards, setTraceAnchorGuard(sender, guard)
      PROVE  Next
    BY <1>2 DEF Next, OwnerStep
<1> QED
    BY <1>1, <1>2 DEF Chain, Next

-----------------------------------------------------------------------------
\* What was said stays true

SaidAfter(j, rec) ==
    /\ rec.state # "none" /\ records'[j].state # "none"
    /\ RecordBacked(rec, jobs'[j])
    /\ jobs'[j].fundedAt = 0 => rec.executor = records'[j].executor
    /\ rec.submitAnchorTxHash => submitAnchors'[j] > 0

CallHonestAfter(c) ==
    /\ records'[c.j].state # "none"
    /\ c.op \in FundOps /\ jobs'[c.j].fundedAt = 0 => c.by = records'[c.j].executor
    /\ c.op = "claim" => c.by \in Executors
    /\ AnchorRequired /\ c.op \in SubmitOps => submitAnchors'[c.j] > 0

HonestAfter(r) ==
    /\ SaidAfter(r.j, r.job)
    /\ FoundIn(r.op, r.job.state)
    /\ r.submitAnchorTxHash => submitAnchors'[r.j] > 0
    /\ r.op \in FundOps /\ jobs'[r.j].fundedAt = 0 => r.by = records'[r.j].executor
    /\ r.op = "claim" => r.by \in Executors
    /\ r.awaits = "escrow" /\ AnchorRequired /\ r.op \in SubmitOps => submitAnchors'[r.j] > 0
    /\ r.awaits \in {"mined", "anchor"} => MinedBy(r, jobs'[r.j])
    /\ r.awaits = "anchor" => r.op \notin {"claim"} \cup SubmitOps

\* What every step of the lane does to the things that are spoken of.
Grows ==
    \A j \in JobIds :
        /\ JobGrows(jobs[j], jobs'[j])
        /\ submitAnchors[j] > 0 => submitAnchors'[j] > 0
        /\ records[j].state # "none" => records'[j].state # "none"
        /\ records[j].state # "none" /\ jobs'[j].fundedAt = 0 =>
               records'[j].executor = records[j].executor
        /\ jobs[j].fundedAt = 0 /\ jobs'[j].fundedAt > 0 =>
               records[j].state # "none" /\ jobs'[j].executor = records[j].executor
        /\ AnchorRequired /\ jobs'[j].submittedAt > 0 =>
               jobs[j].submittedAt > 0 \/ submitAnchors[j] > 0

\* Time stamps are numbers, before and after a step.
LEMMA JobTimes ==
    ASSUME LaneTypeOK, LaneTypeOK', NEW j \in JobIds
    PROVE  /\ jobs[j] \in Job /\ jobs'[j] \in Job
           /\ jobs[j].fundedAt \in Nat /\ jobs'[j].fundedAt \in Nat
           /\ jobs[j].acceptedAt \in Nat /\ jobs[j].submittedAt \in Nat
BY DEF LaneTypeOK, TypeOK, Job

\* What may be said of a job may be said of it after any step.
LEMMA SaidLasts ==
    ASSUME LaneTypeOK, LaneTypeOK', Grows, NEW j \in JobIds, NEW rec, SaidOf(j, rec)
    PROVE  SaidAfter(j, rec)
<1>1. jobs[j].fundedAt \in Nat /\ jobs'[j].fundedAt \in Nat
    BY JobTimes
<1>2. RecordBacked(rec, jobs'[j])
    <2>1. CASE jobs[j].fundedAt = 0
        BY <1>1, <2>1 DEF Grows, JobGrows, SaidOf, RecordBacked
    <2>2. CASE jobs[j].fundedAt > 0
        BY <2>2 DEF Grows, JobGrows, SaidOf, RecordBacked
    <2> QED
        BY <1>1, <2>1, <2>2
<1>3. jobs'[j].fundedAt = 0 => jobs[j].fundedAt = 0
    BY <1>1 DEF Grows, JobGrows
<1> QED
    BY <1>2, <1>3 DEF SaidAfter, SaidOf, Grows

\* A request that stays stays honest.
LEMMA HonestLasts ==
    ASSUME LaneTypeOK, LaneTypeOK', Grows, NEW r \in Request, Honest(r)
    PROVE  HonestAfter(r)
<1>1. r.j \in JobIds /\ SaidAfter(r.j, r.job)
    BY SaidLasts DEF Request, Honest
<1>2. jobs[r.j].fundedAt \in Nat /\ jobs'[r.j].fundedAt \in Nat
    BY <1>1, JobTimes
<1>3. jobs'[r.j].fundedAt = 0 => jobs[r.j].fundedAt = 0
    BY <1>1, <1>2 DEF Grows, JobGrows
<1>4. MinedBy(r, jobs[r.j]) /\ (r.op = "claim" => r.by \in Executors) => MinedBy(r, jobs'[r.j])
    BY <1>1, LaneAssumption, EscrowAssumption DEF Grows, JobGrows, MinedBy
<1> QED
    BY <1>1, <1>3, <1>4 DEF Honest, HonestAfter, SaidOf, Grows

\* So does a call nobody waits for.
LEMMA CallLasts ==
    ASSUME LaneTypeOK, LaneTypeOK', Grows, NEW c \in Call, CallHonest(c)
    PROVE  CallHonestAfter(c)
<1>1. c.j \in JobIds
    BY DEF Call
<1>2. jobs'[c.j].fundedAt = 0 => jobs[c.j].fundedAt = 0
    BY <1>1, JobTimes DEF Grows, JobGrows
<1> QED
    BY <1>1, <1>2 DEF CallHonest, CallHonestAfter, Grows

\* So does a row, unless it is written with what may be said.
LEMMA RowLasts ==
    ASSUME LaneTypeOK, LaneTypeOK', Grows, NEW j \in JobIds, RowHonest(j),
           records'[j] = records[j] \/ SaidAfter(j, records'[j])
    PROVE  RowHonest(j)'
<1>1. CASE SaidAfter(j, records'[j])
    BY <1>1 DEF SaidAfter, RowHonest
<1>2. CASE records'[j] = records[j] /\ records[j].state # "none"
    <2>1. SaidOf(j, records[j])
        BY <1>2 DEF SaidOf, RowHonest
    <2>2. SaidAfter(j, records[j])
        BY <2>1, SaidLasts
    <2> QED
        BY <1>2, <2>2 DEF SaidAfter, RowHonest
<1>3. CASE records'[j] = records[j] /\ records[j].state = "none"
    <2>1. jobs'[j].fundedAt = 0
        BY <1>3, JobTimes DEF Grows, RowHonest
    <2> QED
        BY <1>3, <2>1 DEF RowHonest, RecordBacked, Grows, Progressed
<1> QED
    BY <1>1, <1>2, <1>3

\* No step that leaves the verdicts alone and sees no validation mined can
\* upset them.
LEMMA VerdictsLast ==
    ASSUME LaneInv, LaneTypeOK', Grows, verdicts' = verdicts,
           \A s \in Slots : requests'[s] = requests[s] \/ requests'[s].awaits # "mined"
    PROVE  VerdictsSettled' /\ OneVerdict'
<1>1. VerdictsSettled'
    BY DEF LaneInv, VerdictsSettled, Grows, JobGrows
<1>2. \A s \in Slots, j \in JobIds : Validated(s, j)' => Validated(s, j)
    BY DEF Validated
<1>3. OneVerdict'
    BY <1>2 DEF OneVerdict, LaneInv
<1> QED
    BY <1>1, <1>3

\* The invariant after a step, from what the step wrote and sent.
LEMMA FromParts ==
    ASSUME LaneInv, LaneTypeOK', JobsCoherent', Grows,
           \A j \in JobIds : records'[j] = records[j] \/ SaidAfter(j, records'[j]),
           \A s \in Slots : \/ requests'[s] = requests[s]
                            \/ requests'[s] = NoRequest
                            \/ HonestAfter(requests'[s]),
           \A c \in late' : c \in late \/ CallHonestAfter(c),
           VerdictsSettled', OneVerdict'
    PROVE  LaneInv'
<1>1. \A j \in JobIds : RowHonest(j)'
    BY RowLasts DEF LaneInv
<1>2. ASSUME NEW s \in Slots, requests'[s] # NoRequest PROVE Honest(requests[s])'
    <2>1. CASE requests'[s] = requests[s]
        <3>1. requests[s] \in Request /\ Honest(requests[s])
            BY <1>2, <2>1 DEF LaneInv, LaneTypeOK
        <3>2. HonestAfter(requests[s])
            BY <3>1, HonestLasts DEF LaneInv
        <3> QED
            BY <2>1, <3>2 DEF HonestAfter, Honest, SaidAfter, SaidOf
    <2>2. CASE HonestAfter(requests'[s])
        BY <2>2 DEF HonestAfter, Honest, SaidAfter, SaidOf
    <2> QED
        BY <1>2, <2>1, <2>2
<1>3. ASSUME NEW c \in late' PROVE CallHonest(c)'
    <2>1. CallHonestAfter(c)
        BY <1>3, CallLasts DEF LaneInv, LaneTypeOK
    <2> QED
        BY <2>1 DEF CallHonestAfter, CallHonest
<1>4. SubmitsAnchored'
    BY DEF LaneInv, SubmitsAnchored, Grows
<1> QED
    BY <1>1, <1>2, <1>3, <1>4 DEF LaneInv

-----------------------------------------------------------------------------
\* Steps that leave the jobs alone

\* What may be written or sent, while the jobs stay as they are, is what may
\* be said of them.
LEMMA QuietStep ==
    ASSUME LaneInv,
           UNCHANGED <<jobs, balance, now, guardVars, verdicts, submitAnchors>>,
           anchored' \in SUBSET JobIds, crashes' \in 0..MaxCrashes,
           records' \in [JobIds -> Record],
           requests' \in [Slots -> Request \cup {NoRequest}],
           late' \subseteq Call,
           \A j \in JobIds : records'[j] = records[j] \/ SaidOf(j, records'[j]),
           \A s \in Slots : \/ requests'[s] = requests[s]
                            \/ requests'[s] = NoRequest
                            \/ Honest(requests'[s]) /\ requests'[s].awaits # "mined",
           \A c \in late' : c \in late \/ CallHonest(c)
    PROVE  LaneInv'
<1>1. LaneTypeOK' /\ JobsCoherent'
    <2>1. TypeOK' /\ JobsCoherent'
        BY DEF LaneInv, LaneTypeOK, TypeOK, guardVars, JobsCoherent, JobCoherent
    <2> QED
        BY <2>1 DEF LaneInv, LaneTypeOK
<1>2. Grows
    BY DEF Grows, JobGrows, SaidOf
<1>3. \A j \in JobIds : records'[j] = records[j] \/ SaidAfter(j, records'[j])
    BY <1>1, <1>2, SaidLasts DEF LaneInv
<1>4. ASSUME NEW s \in Slots
      PROVE  \/ requests'[s] = requests[s]
             \/ requests'[s] = NoRequest
             \/ HonestAfter(requests'[s])
    <2>1. requests'[s] \in Request \/ requests'[s] = NoRequest
        OBVIOUS
    <2> QED
        BY <1>1, <1>2, <2>1, HonestLasts DEF LaneInv
<1>5. \A c \in late' : c \in late \/ CallHonestAfter(c)
    BY <1>1, <1>2, CallLasts DEF LaneInv
<1>6. VerdictsSettled' /\ OneVerdict'
    <2>1. \A s \in Slots : requests'[s] = requests[s] \/ requests'[s].awaits # "mined"
        BY DEF NoRequest
    <2> QED
        BY <1>1, <1>2, <2>1, VerdictsLast
<1> QED
    BY <1>1, <1>2, <1>3, <1>4, <1>5, <1>6, FromParts

\* One request moves on, and one row is written.
LEMMA RequestStep ==
    ASSUME LaneInv, NEW s \in Slots, NEW j \in JobIds, NEW q, NEW rec \in Record,
           UNCHANGED <<jobs, balance, now, guardVars, verdicts, submitAnchors, crashes>>,
           anchored' \in SUBSET JobIds,
           q = NoRequest \/ (q \in Request /\ Honest(q) /\ q.awaits # "mined"),
           requests' = [requests EXCEPT ![s] = q],
           \/ records' = records
           \/ records' = [records EXCEPT ![j] = rec] /\ SaidOf(j, rec),
           late' \subseteq Call,
           \A c \in late' : c \in late \/ CallHonest(c)
    PROVE  LaneInv'
<1>1. /\ records \in [JobIds -> Record] /\ crashes' \in 0..MaxCrashes
      /\ requests \in [Slots -> Request \cup {NoRequest}]
    BY DEF LaneInv, LaneTypeOK
<1>2. /\ records' \in [JobIds -> Record]
      /\ \A k \in JobIds : records'[k] = records[k] \/ SaidOf(k, records'[k])
    BY <1>1
<1>3. /\ requests' \in [Slots -> Request \cup {NoRequest}]
      /\ \A t \in Slots : \/ requests'[t] = requests[t]
                          \/ requests'[t] = NoRequest
                          \/ Honest(requests'[t]) /\ requests'[t].awaits # "mined"
    BY <1>1
<1> QED
    BY <1>1, <1>2, <1>3, QuietStep

\* A request that awaits something is one, and honest.
LEMMA InFlight ==
    ASSUME LaneInv, NEW s \in Slots, requests[s].awaits # "nothing"
    PROVE  /\ requests[s] \in Request /\ Honest(requests[s])
           /\ requests[s].j \in JobIds /\ requests[s].job \in Record
           /\ SaidOf(requests[s].j, requests[s].job)
           /\ requests[s].by \in Executors \cup {NoParty}
<1>1. requests[s] \in Request /\ Honest(requests[s])
    BY DEF LaneInv, LaneTypeOK, NoRequest
<1> QED
    BY <1>1 DEF Request, Honest

\* A best-effort anchor keeps the set of anchored jobs one of jobs.
LEMMA AnchoredTyped ==
    ASSUME LaneInv, NEW j \in JobIds, anchorBestEffort(j)
    PROVE  anchored' \in SUBSET JobIds
BY DEF LaneInv, LaneTypeOK, TypeOK, anchorBestEffort

\* A row as a request reads it.
LEMMA ReadSaid ==
    ASSUME LaneInv, NEW j \in JobIds, materializeJob(j).state # "none"
    PROVE  /\ materializeJob(j) \in Record
           /\ SaidOf(j, materializeJob(j))
           /\ records[j] \in Record /\ records[j].state # "none"
           /\ materializeJob(j).executor = records[j].executor
<1>1. records[j] \in Record /\ RowHonest(j)
    BY DEF LaneInv, LaneTypeOK
<1>2. [records[j] EXCEPT !.state = "expired"] \in Record
    BY <1>1 DEF Record
<1> QED
    BY <1>1, <1>2 DEF materializeJob, SaidOf, RowHonest, RecordBacked, Progressed, Record

\* A record that claims no more than another may be said where that one may.
LEMMA SaysLess ==
    ASSUME NEW j \in JobIds, NEW rec \in Record, NEW new \in Record, SaidOf(j, rec),
           new.executor = rec.executor, new.submitAnchorTxHash = rec.submitAnchorTxHash,
           new.state \notin Progressed \cup {"none"}
    PROVE  SaidOf(j, new)
BY DEF SaidOf, RecordBacked, Progressed

\* A request that arrives says what the row says.
LEMMA ArriveKeeps ==
    ASSUME LaneInv, NEW s \in Slots, NEW op \in Ops, NEW j \in JobIds,
           NEW by \in Executors \cup {NoParty}, NEW states, NEW awaits \in Awaits \ {"mined", "anchor"},
           NEW rec \in Record,
           arrive(s, op, j, by, states, awaits),
           "none" \notin states,
           \A state \in states : FoundIn(op, state),
           op \in FundOps => by = records[j].executor,
           op = "claim" => by \in Executors,
           awaits = "escrow" /\ AnchorRequired /\ op \in SubmitOps => submitAnchors[j] > 0,
           \/ records' = records
           \/ records' = [records EXCEPT ![j] = rec] /\ SaidOf(j, rec),
           UNCHANGED <<vars, late, verdicts, submitAnchors, crashes>>
    PROVE  LaneInv'
<1> DEFINE q == [op |-> op, j |-> j, by |-> by, awaits |-> awaits, job |-> materializeJob(j),
                 submitAnchorTxHash |-> records[j].submitAnchorTxHash]
<1>1. requests' = [requests EXCEPT ![s] = q] /\ materializeJob(j).state \in states
    BY DEF arrive
<1>2. /\ materializeJob(j) \in Record /\ SaidOf(j, materializeJob(j))
      /\ records[j] \in Record /\ RowHonest(j)
    BY <1>1, ReadSaid DEF LaneInv
<1>3. q \in Request
    BY <1>2 DEF Request, Record
<1>4. Honest(q) /\ q.awaits # "mined"
    BY <1>1, <1>2 DEF Honest, RowHonest
<1>5. anchored' \in SUBSET JobIds /\ late' \subseteq Call
    BY DEF vars, LaneInv, LaneTypeOK, TypeOK
<1> HIDE DEF q
<1> QED
    BY <1>1, <1>3, <1>4, <1>5, RequestStep DEF vars

\* Fund requests, for a job in any state but none.
LEMMA FundKeeps ==
    ASSUME LaneInv, NEW s \in Slots, NEW j \in JobIds, NEW op, NEW states,
           "none" \notin states, fundFrom(s, j, op, states)
    PROVE  LaneInv'
<1> DEFINE rec == funding(materializeJob(j), "funding_pending")
<1>1. op \in FundOps /\ op \in Ops /\ arrive(s, op, j, records[j].executor, states, "escrow")
    BY DEF fundFrom, FundOps, Ops
<1>2. materializeJob(j) \in Record /\ SaidOf(j, materializeJob(j)) /\ records[j] \in Record
    BY <1>1, ReadSaid DEF arrive
<1>3. rec \in Record /\ SaidOf(j, rec)
    <2>1. /\ rec \in Record /\ rec.executor = materializeJob(j).executor
          /\ rec.submitAnchorTxHash = materializeJob(j).submitAnchorTxHash
          /\ rec.state \notin Progressed \cup {"none"}
        BY <1>2 DEF Record, funding, Progressed
    <2> QED
        BY <1>2, <2>1, SaysLess
<1>4. records' = records \/ records' = [records EXCEPT ![j] = rec]
    BY DEF fundFrom, upsertJobRecord
<1>5. records[j].executor \in Executors \cup {NoParty}
    BY <1>2 DEF Record
<1>6. /\ \A state \in states : FoundIn(op, state)
      /\ "escrow" \in Awaits \ {"mined", "anchor"} /\ op # "claim" /\ op \notin SubmitOps
    BY <1>1 DEF FoundIn, FundOps, SubmitOps, ValidateOps, Awaits
<1>7. UNCHANGED <<vars, late, verdicts, submitAnchors, crashes>>
    BY DEF fundFrom
<1> HIDE DEF rec
<1> QED
    BY <1>1, <1>3, <1>4, <1>5, <1>6, <1>7, ArriveKeeps

\* Claim requests.
LEMMA ClaimKeeps ==
    ASSUME LaneInv, NEW s \in Slots, NEW j \in JobIds, NEW by \in Executors, claimRoute(s, j, by)
    PROVE  LaneInv'
<1>1. /\ arrive(s, "claim", j, by, {"funded"}, "escrow") /\ records' = records
      /\ UNCHANGED <<vars, late, verdicts, submitAnchors, crashes>>
    BY DEF claimRoute
<1>2. NoRecord \in Record /\ "claim" \in Ops /\ "escrow" \in Awaits \ {"mined", "anchor"}
    BY DEF NoRecord, Record, Ops, Awaits
<1>3. FoundIn("claim", "funded") /\ "claim" \notin FundOps \cup SubmitOps
    BY DEF FoundIn, FundOps, SubmitOps, ValidateOps
<1> QED
    BY <1>1, <1>2, <1>3, ArriveKeeps

\* Accept requests.
LEMMA AcceptKeeps ==
    ASSUME LaneInv, NEW s \in Slots, NEW j \in JobIds, acceptRoute(s, j)
    PROVE  LaneInv'
<1>1. /\ arrive(s, "accept", j, records[j].executor, {"funded"}, "escrow") /\ records' = records
      /\ UNCHANGED <<vars, late, verdicts, submitAnchors, crashes>>
    BY DEF acceptRoute
<1>2. NoRecord \in Record /\ "accept" \in Ops /\ "escrow" \in Awaits \ {"mined", "anchor"}
    BY DEF NoRecord, Record, Ops, Awaits
<1>3. FoundIn("accept", "funded") /\ "accept" \notin FundOps \cup SubmitOps
    BY DEF FoundIn, FundOps, SubmitOps, ValidateOps
<1>4. records[j].executor \in Executors \cup {NoParty}
    BY DEF LaneInv, LaneTypeOK, Record
<1> QED
    BY <1>1, <1>2, <1>3, <1>4, ArriveKeeps

\* Submit requests: they go to their escrow call only over a recorded anchor.
LEMMA SubmitKeeps ==
    ASSUME LaneInv, NEW s \in Slots, NEW j \in JobIds, NEW op \in SubmitOps, submitRoute(s, j, op)
    PROVE  LaneInv'
<1> DEFINE awaits == IF op = "submitService" THEN "service"
                     ELSE submitAwaits(records[j].submitAnchorTxHash)
<1>1. /\ arrive(s, op, j, records[j].executor, {"accepted"}, awaits) /\ records' = records
      /\ UNCHANGED <<vars, late, verdicts, submitAnchors, crashes>>
    BY DEF submitRoute
<1>2. NoRecord \in Record /\ op \in Ops /\ awaits \in Awaits \ {"mined", "anchor"}
    BY DEF NoRecord, Record, Ops, Awaits, SubmitOps, submitAwaits
<1>3. (\A state \in {"accepted"} : FoundIn(op, state)) /\ "none" \notin {"accepted"} /\ op \notin FundOps \cup {"claim"}
    BY DEF FoundIn, FundOps, SubmitOps, ValidateOps
<1>4. records[j].executor \in Executors \cup {NoParty}
    BY DEF LaneInv, LaneTypeOK, Record
<1>5. awaits = "escrow" /\ AnchorRequired /\ op \in SubmitOps => submitAnchors[j] > 0
    BY DEF submitAwaits, LaneInv, RowHonest
<1> HIDE DEF awaits
<1> QED
    BY <1>1, <1>2, <1>3, <1>4, <1>5, ArriveKeeps

\* Validation requests.
LEMMA ValidateKeeps ==
    ASSUME LaneInv, NEW s \in Slots, NEW j \in JobIds, NEW op \in ValidateOps,
           validateRoute(s, j, op)
    PROVE  LaneInv'
<1>1. /\ arrive(s, op, j, records[j].executor, {"submitted"}, "escrow") /\ records' = records
      /\ UNCHANGED <<vars, late, verdicts, submitAnchors, crashes>>
    BY DEF validateRoute
<1>2. NoRecord \in Record /\ op \in Ops /\ "escrow" \in Awaits \ {"mined", "anchor"}
    BY DEF NoRecord, Record, Ops, Awaits, ValidateOps
<1>3. FoundIn(op, "submitted") /\ op \notin FundOps \cup SubmitOps \cup {"claim"}
    BY DEF FoundIn, FundOps, SubmitOps, ValidateOps
<1>4. records[j].executor \in Executors \cup {NoParty}
    BY DEF LaneInv, LaneTypeOK, Record
<1> QED
    BY <1>1, <1>2, <1>3, <1>4, ArriveKeeps

\* The expiry of a record that is not known to be funded.
LEMMA ExpiryKeeps ==
    ASSUME LaneInv, NEW s \in Slots, NEW j \in JobIds, executeJobExpiry(s, j)
    PROVE  LaneInv'
<1> DEFINE q == [op |-> "expire", j |-> j, by |-> records[j].executor, awaits |-> "anchor",
                 job |-> records[j], submitAnchorTxHash |-> records[j].submitAnchorTxHash]
<1>1. /\ records[j] \in Record /\ RowHonest(j)
      /\ records[j].state # "none" /\ requests' = [requests EXCEPT ![s] = q]
    BY DEF LaneInv, LaneTypeOK, executeJobExpiry, Unfunded
<1>2. q \in Request
    BY <1>1 DEF Request, Record, Ops, Awaits
<1>3. Honest(q) /\ q.awaits # "mined"
    BY <1>1 DEF Honest, SaidOf, RowHonest, FoundIn, MinedBy, FundOps, SubmitOps, ValidateOps
<1>4. /\ UNCHANGED <<jobs, balance, now, guardVars, verdicts, submitAnchors, crashes, records>>
      /\ anchored' \in SUBSET JobIds /\ late' \subseteq Call /\ late' = late
    BY DEF executeJobExpiry, vars, LaneInv, LaneTypeOK, TypeOK
<1> HIDE DEF q
<1> QED
    BY <1>1, <1>2, <1>3, <1>4, RequestStep

-----------------------------------------------------------------------------
\* Requests in flight

\* A request that goes on to its next await stays honest.
LEMMA GoesOn ==
    ASSUME LaneInv, NEW s \in Slots, NEW awaits \in Awaits \ {"mined"},
           requests[s].awaits # "nothing", goesOn(s, awaits),
           awaits = "escrow" /\ AnchorRequired => submitAnchors[requests[s].j] > 0,
           awaits = "anchor" => /\ requests[s].awaits = "mined"
                                /\ requests[s].op \notin {"claim"} \cup SubmitOps,
           UNCHANGED <<vars, records, late, verdicts, submitAnchors, crashes>>
    PROVE  LaneInv'
<1> DEFINE q == [requests[s] EXCEPT !.awaits = awaits]
<1>1. requests[s] \in Request /\ Honest(requests[s]) /\ requests[s].j \in JobIds
    BY InFlight
<1>2. q \in Request /\ requests' = [requests EXCEPT ![s] = q]
    BY <1>1 DEF Request, goesOn
<1>3. Honest(q) /\ q.awaits # "mined"
    BY <1>1 DEF Honest, Request, MinedBy
<1>4. /\ anchored' \in SUBSET JobIds /\ late' \subseteq Call
      /\ NoRecord \in Record
    BY DEF vars, LaneInv, LaneTypeOK, TypeOK, NoRecord, Record
<1> HIDE DEF q
<1> QED
    BY <1>1, <1>2, <1>3, <1>4, RequestStep DEF vars

\* A request that answers leaves a row that may be said.
LEMMA Responds ==
    ASSUME LaneInv, NEW s \in Slots, NEW rec \in Record,
           requests[s].awaits # "nothing", responds(s),
           \/ records' = records
           \/ records' = [records EXCEPT ![requests[s].j] = rec] /\ SaidOf(requests[s].j, rec),
           UNCHANGED <<jobs, balance, now, guardVars, verdicts, submitAnchors, crashes>>,
           anchored' \in SUBSET JobIds,
           late' \subseteq Call,
           \A c \in late' : c \in late \/ CallHonest(c)
    PROVE  LaneInv'
<1>1. requests[s].j \in JobIds /\ requests' = [requests EXCEPT ![s] = NoRequest]
    BY InFlight DEF responds
<1> QED
    BY <1>1, RequestStep

\* What a step that leaves the contract alone leaves alone.
LEMMA Unmoved ==
    ASSUME LaneInv, UNCHANGED vars
    PROVE  UNCHANGED <<jobs, balance, now, guardVars>> /\ anchored' \in SUBSET JobIds
BY DEF vars, LaneInv, LaneTypeOK, TypeOK

\* A step that sends nothing leaves honest calls.
LEMMA SameCalls ==
    ASSUME LaneInv, late' = late
    PROVE  late' \subseteq Call /\ \A c \in late' : c \in late \/ CallHonest(c)
BY DEF LaneInv, LaneTypeOK

\* The provider's service returns, or fails.
LEMMA ServiceKeeps ==
    ASSUME LaneInv, NEW s \in Slots, NEW ok \in BOOLEAN, serviceReturns(s, ok)
    PROVE  LaneInv'
<1> DEFINE awaits == submitAwaits(requests[s].job.submitAnchorTxHash)
<1>1. /\ requests[s].awaits # "nothing"
      /\ UNCHANGED <<vars, late, verdicts, submitAnchors, crashes>>
    BY DEF serviceReturns
<1>2. CASE goesOn(s, awaits) /\ UNCHANGED records
    <2>1. awaits \in Awaits \ {"mined", "anchor"}
        BY DEF submitAwaits, Awaits
    <2>2. awaits = "escrow" /\ AnchorRequired => submitAnchors[requests[s].j] > 0
        BY <1>1, InFlight DEF submitAwaits, SaidOf
    <2> HIDE DEF awaits
    <2> QED
        BY <1>1, <1>2, <2>1, <2>2, GoesOn
<1>3. CASE responds(s) /\ upsertJobRecord(requests[s].j, requests[s].job)
    <2>1. records' = [records EXCEPT ![requests[s].j] = requests[s].job]
        BY <1>3 DEF upsertJobRecord
    <2> QED
        BY <1>1, <1>3, <2>1, InFlight, Unmoved, SameCalls, Responds
<1> QED
    BY <1>2, <1>3 DEF serviceReturns

\* The anchor of a submit fails: the row read is written back.
LEMMA SubmitAnchorFailsKeeps ==
    ASSUME LaneInv, NEW s \in Slots, submitAnchorFails(s)
    PROVE  LaneInv'
<1>1. /\ requests[s].awaits # "nothing" /\ responds(s)
      /\ records' = [records EXCEPT ![requests[s].j] = requests[s].job]
      /\ UNCHANGED <<jobs, balance, now, guardVars, late, verdicts, submitAnchors, crashes>>
      /\ anchorBestEffort(requests[s].j)
    BY DEF submitAnchorFails, upsertJobRecord
<1> QED
    BY <1>1, InFlight, AnchoredTyped, SameCalls, Responds

\* A mined claim writes the executor the contract has.
LEMMA ClaimSucceedsKeeps ==
    ASSUME LaneInv, NEW s \in Slots, claimSucceeds(s)
    PROVE  LaneInv'
<1> DEFINE r == requests[s]
           rec == [r.job EXCEPT !.executor = r.by]
<1>1. /\ r.awaits = "mined" /\ r.op = "claim" /\ responds(s)
      /\ records' = [records EXCEPT ![r.j] = rec]
      /\ UNCHANGED <<vars, late, verdicts, submitAnchors, crashes>>
    BY DEF claimSucceeds, upsertJobRecord
<1>2. /\ r.job \in Record /\ r.by \in Executors /\ r.j \in JobIds /\ SaidOf(r.j, r.job)
      /\ r.job.state = "funded"
      /\ jobs[r.j].fundedAt > 0 /\ jobs[r.j].executor = r.by
    BY <1>1, InFlight DEF Honest, MinedBy, FoundIn
<1>3. rec \in Record /\ SaidOf(r.j, rec)
    BY <1>2 DEF Record, SaidOf, RecordBacked, Progressed
<1> HIDE DEF rec
<1> QED
    BY <1>1, <1>3, Unmoved, SameCalls, Responds

\* A mined submit writes submitted.
LEMMA SubmitSucceedsKeeps ==
    ASSUME LaneInv, NEW s \in Slots, submitSucceeds(s)
    PROVE  LaneInv'
<1> DEFINE r == requests[s]
           rec == [r.job EXCEPT !.state = "submitted", !.submitAnchorTxHash = r.submitAnchorTxHash]
<1>1. /\ r.awaits = "mined" /\ r.op \in SubmitOps /\ responds(s)
      /\ records' = [records EXCEPT ![r.j] = rec]
      /\ UNCHANGED <<vars, late, verdicts, submitAnchors, crashes>>
    BY DEF submitSucceeds, upsertJobRecord
<1>2. /\ r \in Request /\ r.job \in Record /\ r.j \in JobIds /\ SaidOf(r.j, r.job)
      /\ r.job.state = "accepted"
      /\ jobs[r.j].submittedAt > 0
      /\ r.submitAnchorTxHash => submitAnchors[r.j] > 0
    BY <1>1, InFlight DEF Honest, MinedBy, FoundIn
<1>3. rec \in Record /\ SaidOf(r.j, rec)
    BY <1>2 DEF Request, Record, SaidOf, RecordBacked, Progressed
<1> HIDE DEF rec
<1> QED
    BY <1>1, <1>3, Unmoved, SameCalls, Responds

\* A mined funding or acceptance goes on to its anchor.
LEMMA FundOrAcceptKeeps ==
    ASSUME LaneInv, NEW s \in Slots, fundOrAcceptSucceeds(s)
    PROVE  LaneInv'
<1>1. /\ requests[s].awaits = "mined" /\ goesOn(s, "anchor")
      /\ requests[s].op \notin {"claim"} \cup SubmitOps
      /\ "anchor" \in Awaits \ {"mined"}
      /\ UNCHANGED <<vars, records, late, verdicts, submitAnchors, crashes>>
    BY DEF fundOrAcceptSucceeds, FundOps, SubmitOps, Awaits
<1> QED
    BY <1>1, GoesOn

\* A call given up on may still be mined, and is as honest as its request.
LEMMA EscrowFailsKeeps ==
    ASSUME LaneInv, NEW s \in Slots, NEW keep \in BOOLEAN, escrowFails(s, keep)
    PROVE  LaneInv'
<1> DEFINE r == requests[s]
           rec == funding(r.job, "funding_failed")
<1>1. /\ r.awaits # "nothing" /\ responds(s)
      /\ UNCHANGED <<vars, verdicts, submitAnchors, crashes>>
      /\ late' = late \/ (r.awaits = "escrow" /\ late' = late \cup {callOf(r)})
    BY DEF escrowFails
<1>2. r \in Request /\ Honest(r) /\ r.job \in Record /\ SaidOf(r.j, r.job) /\ r.j \in JobIds
    BY <1>1, InFlight
<1>3. late' \subseteq Call /\ \A c \in late' : c \in late \/ CallHonest(c)
    <2>1. callOf(r) \in Call
        BY <1>2 DEF callOf, Call, Request
    <2>2. r.awaits = "escrow" => CallHonest(callOf(r))
        BY <1>2 DEF callOf, CallHonest, Honest, SaidOf
    <2> QED
        BY <1>1, <2>1, <2>2, SameCalls DEF LaneInv, LaneTypeOK
<1>4. rec \in Record /\ SaidOf(r.j, rec)
    <2>1. /\ rec \in Record /\ rec.executor = r.job.executor
          /\ rec.submitAnchorTxHash = r.job.submitAnchorTxHash
          /\ rec.state \notin Progressed \cup {"none"}
        BY <1>2 DEF Record, funding, Progressed
    <2> QED
        BY <1>2, <2>1, SaysLess
<1>5. CASE records' = [records EXCEPT ![r.j] = rec]
    <2> HIDE DEF rec
    <2> QED
        BY <1>1, <1>3, <1>4, <1>5, Unmoved, Responds
<1>6. CASE records' = [records EXCEPT ![r.j] = r.job] \/ records' = records
    BY <1>1, <1>2, <1>3, <1>6, Unmoved, Responds
<1> QED
    BY <1>5, <1>6 DEF escrowFails, upsertJobRecord

\* The last write of a request says what its call did.
LEMMA WrittenSaid ==
    ASSUME NEW r \in Request, Honest(r), r.awaits = "anchor"
    PROVE  writtenBy(r) \in Record /\ SaidOf(r.j, writtenBy(r))
<1>1. /\ r.job \in Record /\ SaidOf(r.j, r.job) /\ r.j \in JobIds
      /\ FoundIn(r.op, r.job.state) /\ MinedBy(r, jobs[r.j])
      /\ r.op \in FundOps \cup {"accept", "approve", "reject", "expire"}
    BY DEF Honest, Request, Ops, ValidateOps
<1>2. CASE r.op \in FundOps
    <2>1. writtenBy(r) = funding(r.job, "funded")
        BY <1>2 DEF writtenBy, FundOps
    <2> DEFINE rec == funding(r.job, "funded")
    <2>2. /\ rec \in Record /\ rec.executor = r.job.executor
          /\ rec.submitAnchorTxHash = r.job.submitAnchorTxHash
          /\ rec.state = "funded"
        <3>1. r.job \in Record
            BY <1>1
        <3> QED
            BY <3>1 DEF Record, funding
    <2> HIDE DEF rec
    <2>3. jobs[r.j].fundedAt > 0
        BY <1>1, <1>2 DEF MinedBy
    <2>4. SaidOf(r.j, rec)
        BY <1>1, <2>2, <2>3 DEF SaidOf, RecordBacked, Progressed
    <2> QED
        BY <2>1, <2>2, <2>4 DEF rec
<1>3. CASE r.op = "accept"
    <2>1. writtenBy(r) = [r.job EXCEPT !.state = "accepted"]
        BY <1>3 DEF writtenBy, FundOps
    <2> QED
        BY <1>1, <1>3, <2>1 DEF Record, SaidOf, RecordBacked, Progressed, MinedBy, FoundIn
<1>4. CASE r.op = "approve"
    <2>1. writtenBy(r) = [r.job EXCEPT !.state = "completed"]
        BY <1>4 DEF writtenBy, FundOps
    <2> QED
        BY <1>1, <1>4, <2>1 DEF Record, SaidOf, RecordBacked, Progressed, MinedBy, FoundIn, ValidateOps
<1>5. CASE r.op = "reject"
    <2>1. writtenBy(r) = [r.job EXCEPT !.state = "rejected"]
        BY <1>5 DEF writtenBy, FundOps
    <2> QED
        BY <1>1, <1>5, <2>1 DEF Record, SaidOf, RecordBacked, Progressed, MinedBy, FoundIn, ValidateOps
<1>6. CASE r.op = "expire"
    <2>1. writtenBy(r) = [r.job EXCEPT !.state = "expired"]
        BY <1>6 DEF writtenBy, FundOps
    <2> QED
        BY <1>1, <1>6, <2>1 DEF Record, SaidOf, RecordBacked, Progressed
<1> QED
    BY <1>1, <1>2, <1>3, <1>4, <1>5, <1>6

\* The last write of a request.
LEMMA AnchorReturnsKeeps ==
    ASSUME LaneInv, NEW s \in Slots, anchorReturns(s)
    PROVE  LaneInv'
<1>1. /\ requests[s].awaits = "anchor" /\ responds(s)
      /\ records' = [records EXCEPT ![requests[s].j] = writtenBy(requests[s])]
      /\ UNCHANGED <<jobs, balance, now, guardVars, late, verdicts, submitAnchors, crashes>>
      /\ anchorBestEffort(requests[s].j)
    BY DEF anchorReturns, upsertJobRecord
<1> QED
    BY <1>1, WrittenSaid, InFlight, AnchoredTyped, SameCalls, Responds

\* An expiry whose anchor fails writes nothing.
LEMMA ExpiryAnchorFailsKeeps ==
    ASSUME LaneInv, NEW s \in Slots, expiryAnchorFails(s)
    PROVE  LaneInv'
<1>1. /\ requests[s].awaits = "anchor" /\ responds(s) /\ records' = records
      /\ UNCHANGED <<jobs, balance, now, guardVars, late, verdicts, submitAnchors, crashes>>
      /\ anchorBestEffort(requests[s].j)
    BY DEF expiryAnchorFails
<1> QED
    BY <1>1, InFlight, AnchoredTyped, SameCalls, Responds

\* A crash forgets the requests; the calls it leaves behind are theirs.
LEMMA ForgetKeeps ==
    ASSUME LaneInv, forgetsRequests, crashes' \in 0..MaxCrashes,
           UNCHANGED <<vars, records, verdicts, submitAnchors>>
    PROVE  LaneInv'
<1> DEFINE sent == {callOf(requests[s]) : s \in {t \in Slots : requests[t].awaits = "escrow"}}
<1>1. \A c \in sent : c \in Call /\ CallHonest(c)
    <2> SUFFICES ASSUME NEW s \in Slots, requests[s].awaits = "escrow"
                 PROVE  callOf(requests[s]) \in Call /\ CallHonest(callOf(requests[s]))
        OBVIOUS
    <2>1. requests[s] \in Request /\ Honest(requests[s])
        BY InFlight
    <2> QED
        BY <2>1 DEF callOf, Call, Request, CallHonest, Honest, SaidOf
<1>2. /\ late' \subseteq Call
      /\ \A c \in late' : c \in late \/ CallHonest(c)
    BY <1>1 DEF forgetsRequests, LaneInv, LaneTypeOK
<1>3. requests' = [s \in Slots |-> NoRequest]
    BY DEF forgetsRequests
<1>4. /\ requests' \in [Slots -> Request \cup {NoRequest}] /\ records' \in [JobIds -> Record]
      /\ \A s \in Slots : requests'[s] = NoRequest
      /\ anchored' \in SUBSET JobIds
    BY <1>3 DEF LaneInv, LaneTypeOK, TypeOK, vars
<1> QED
    BY <1>2, <1>4, QuietStep DEF vars

-----------------------------------------------------------------------------
\* Steps that move the jobs, the anchors or the verdicts

\* A new record is known to no request and to no call.
LEMMA CreateKeeps ==
    ASSUME LaneInv, NEW j \in JobIds, NEW executor \in Executors \cup {NoParty},
           createJob(j, executor)
    PROVE  LaneInv'
<1> DEFINE rec == [records[j] EXCEPT !.state = "created", !.executor = executor]
<1>1. /\ records \in [JobIds -> Record] /\ records[j] \in Record
      /\ records[j].state = "none" /\ RowHonest(j) /\ jobs[j].fundedAt = 0
      /\ records' = [records EXCEPT ![j] = rec]
    BY DEF LaneInv, LaneTypeOK, createJob, upsertJobRecord, RowHonest
<1>2. rec \in Record /\ rec.state = "created" /\ rec.submitAnchorTxHash = records[j].submitAnchorTxHash
    BY <1>1 DEF Record
<1>3. UNCHANGED <<jobs, balance, now, guardVars, requests, late, verdicts, submitAnchors, crashes>>
    BY DEF createJob
<1>4. LaneTypeOK' /\ JobsCoherent'
    <2>1. anchored' \in SUBSET JobIds
        BY AnchoredTyped DEF createJob
    <2>2. TypeOK' /\ JobsCoherent'
        BY <1>3, <2>1 DEF LaneInv, LaneTypeOK, TypeOK, guardVars, JobsCoherent, JobCoherent
    <2>3. records' \in [JobIds -> Record]
        BY <1>1, <1>2
    <2> QED
        BY <1>3, <2>2, <2>3 DEF LaneInv, LaneTypeOK
<1>5. records'[j] = rec /\ \A k \in JobIds \ {j} : records'[k] = records[k]
    BY <1>1
<1>6. Grows
    BY <1>1, <1>3, <1>5 DEF Grows, JobGrows
<1>7. SaidAfter(j, records'[j])
    BY <1>1, <1>2, <1>3, <1>5 DEF SaidAfter, RecordBacked, Progressed, RowHonest
<1>8. VerdictsSettled' /\ OneVerdict'
    BY <1>3, <1>4, <1>6, VerdictsLast
<1> QED
    BY <1>3, <1>4, <1>5, <1>6, <1>7, <1>8, FromParts

\* A confirmed anchor is recorded before the submit is sent.
LEMMA SubmitAnchorKeeps ==
    ASSUME LaneInv, NEW s \in Slots, submitAnchorConfirmed(s)
    PROVE  LaneInv'
<1> DEFINE r == requests[s]
           rec == [r.job EXCEPT !.submitAnchorTxHash = TRUE]
           q == [r EXCEPT !.awaits = "escrow", !.submitAnchorTxHash = TRUE]
<1>1. /\ r.awaits = "submitAnchor" /\ submitAnchors[r.j] < MaxAnchors
      /\ anchored' = anchored \cup {r.j}
      /\ submitAnchors' = [submitAnchors EXCEPT ![r.j] = @ + 1]
      /\ records' = [records EXCEPT ![r.j] = rec]
      /\ UNCHANGED <<jobs, balance, now, guardVars, late, verdicts, crashes>>
    BY DEF submitAnchorConfirmed, upsertJobRecord
<1>2. r \in Request /\ Honest(r) /\ r.job \in Record /\ SaidOf(r.j, r.job) /\ r.j \in JobIds
    BY <1>1, InFlight
<1>3. requests' = [requests EXCEPT ![s] = q]
    BY <1>2 DEF submitAnchorConfirmed, Request
<1>4. rec \in Record /\ rec.state = r.job.state /\ rec.executor = r.job.executor
    BY <1>2 DEF Record
<1>5. /\ q \in Request /\ q.j = r.j /\ q.job = r.job /\ q.op = r.op /\ q.by = r.by
      /\ q.awaits = "escrow"
    BY <1>2 DEF Request, Awaits
<1> HIDE DEF rec, q
<1>6. /\ submitAnchors \in [JobIds -> 0..MaxAnchors] /\ submitAnchors' \in [JobIds -> 0..MaxAnchors]
      /\ submitAnchors'[r.j] > 0
      /\ \A k \in JobIds \ {r.j} : submitAnchors'[k] = submitAnchors[k]
    <2>1. submitAnchors \in [JobIds -> 0..MaxAnchors] /\ MaxAnchors \in Nat
        BY LaneAssumption DEF LaneInv, LaneTypeOK
    <2> QED
        BY <1>1, <1>2, <2>1
<1>7. LaneTypeOK' /\ JobsCoherent'
    <2>1. TypeOK' /\ JobsCoherent'
        BY <1>1, <1>2 DEF LaneInv, LaneTypeOK, TypeOK, guardVars, JobsCoherent, JobCoherent
    <2>2. /\ records' \in [JobIds -> Record] /\ late' \subseteq Call
          /\ requests' \in [Slots -> Request \cup {NoRequest}]
        BY <1>1, <1>3, <1>4, <1>5 DEF LaneInv, LaneTypeOK
    <2>3. verdicts' \in [JobIds -> Seq({"completed", "rejected"})] /\ crashes' \in 0..MaxCrashes
        BY <1>1 DEF LaneInv, LaneTypeOK
    <2> QED
        BY <1>6, <2>1, <2>2, <2>3 DEF LaneTypeOK
<1>8. records'[r.j] = rec /\ \A k \in JobIds \ {r.j} : records'[k] = records[k]
    BY <1>1, <1>2 DEF LaneInv, LaneTypeOK
<1>9. requests'[s] = q /\ \A t \in Slots \ {s} : requests'[t] = requests[t]
    BY <1>3 DEF LaneInv, LaneTypeOK
<1>10. Grows
    BY <1>1, <1>2, <1>4, <1>6, <1>8 DEF Grows, JobGrows, SaidOf
<1>11. SaidAfter(r.j, r.job)
    BY <1>2, <1>7, <1>10, SaidLasts DEF LaneInv
<1>12. SaidAfter(r.j, rec)
    BY <1>4, <1>6, <1>11 DEF SaidAfter, RecordBacked
<1>13. HonestAfter(q)
    <2>1. q.op \in FundOps /\ jobs'[r.j].fundedAt = 0 => q.by = records'[r.j].executor
        BY <1>1, <1>2, <1>4, <1>5, <1>8 DEF Honest, SaidOf
    <2> QED
        BY <1>2, <1>5, <1>6, <1>11, <2>1 DEF HonestAfter, Honest
<1>14. VerdictsSettled' /\ OneVerdict'
    <2>1. \A t \in Slots : requests'[t] = requests[t] \/ requests'[t].awaits # "mined"
        BY <1>5, <1>9
    <2> QED
        BY <1>1, <1>7, <1>10, <2>1, VerdictsLast
<1> QED
    BY <1>1, <1>7, <1>8, <1>9, <1>10, <1>12, <1>13, <1>14, FromParts

\* What a call that was sent does to the contract, when it is mined.
LEMMA CallGrows ==
    ASSUME LaneInv, NEW c \in Call, CallHonest(c), transaction(c),
           UNCHANGED <<records, submitAnchors>>
    PROVE  /\ Grows /\ TypeOK' /\ JobsCoherent' /\ MinedBy(c, jobs'[c.j])
           /\ c.op \in ValidateOps => jobs[c.j].state = "Submitted"
<1>1. TransactionMoves(c) /\ c.j \in JobIds
    BY CallMoves DEF LaneInv, Call
<1>2. [Next]_vars
    BY CallIsStep DEF LaneInv, CallHonest
<1>3. TypeOK' /\ JobsCoherent'
    BY <1>2, EscrowStep DEF LaneInv, LaneTypeOK, EscrowInv
<1>4. ASSUME NEW j \in JobIds, j # c.j PROVE jobs'[j] = jobs[j]
    BY <1>1, <1>4 DEF TransactionMoves
<1>5. jobs[c.j].fundedAt \in Nat /\ jobs[c.j] \in Job
    BY <1>1 DEF LaneInv, LaneTypeOK, TypeOK, Job
<1>6. Grows
    BY <1>1, <1>4, <1>5 DEF Grows, TransactionMoves, CallHonest, JobGrows
<1> QED
    BY <1>1, <1>3, <1>6 DEF TransactionMoves

\* A call mined in time; a validation finds its job without a verdict.
LEMMA EscrowMinedKeeps ==
    ASSUME LaneInv, NEW s \in Slots, escrowMined(s)
    PROVE  LaneInv'
<1> DEFINE r == requests[s]
           c == callOf(r)
           q == [r EXCEPT !.awaits = "mined"]
<1>1. /\ r.awaits = "escrow" /\ transaction(c)
      /\ UNCHANGED <<records, late, verdicts, submitAnchors, crashes>>
    BY DEF escrowMined
<1>2. r \in Request /\ Honest(r) /\ r.j \in JobIds /\ SaidOf(r.j, r.job)
    BY <1>1, InFlight
<1>3. c \in Call /\ CallHonest(c) /\ c.j = r.j /\ c.op = r.op /\ c.by = r.by
    BY <1>1, <1>2 DEF callOf, Call, Request, CallHonest, Honest, SaidOf
<1>4. requests' = [requests EXCEPT ![s] = q]
    BY <1>2 DEF escrowMined, goesOn, Request
<1>5. /\ q \in Request /\ q.j = r.j /\ q.job = r.job /\ q.op = r.op /\ q.by = r.by
      /\ q.awaits = "mined" /\ q.submitAnchorTxHash = r.submitAnchorTxHash
    BY <1>2 DEF Request, Awaits
<1> HIDE DEF c, q
<1>6. /\ Grows /\ TypeOK' /\ JobsCoherent' /\ MinedBy(c, jobs'[r.j])
      /\ r.op \in ValidateOps => jobs[r.j].state = "Submitted"
    BY <1>1, <1>3, CallGrows
<1>7. LaneTypeOK'
    BY <1>1, <1>4, <1>5, <1>6 DEF LaneInv, LaneTypeOK
<1>8. requests'[s] = q /\ \A t \in Slots \ {s} : requests'[t] = requests[t]
    BY <1>4 DEF LaneInv, LaneTypeOK
<1>9. HonestAfter(q)
    <2>1. HonestAfter(r)
        BY <1>2, <1>6, <1>7, HonestLasts DEF LaneInv
    <2>2. MinedBy(q, jobs'[r.j])
        BY <1>3, <1>5, <1>6 DEF MinedBy
    <2> QED
        BY <1>5, <2>1, <2>2 DEF HonestAfter
<1>10. VerdictsSettled'
    BY <1>1, <1>6 DEF LaneInv, VerdictsSettled, Grows, JobGrows
<1>11. ASSUME NEW t \in Slots, NEW j \in JobIds, Validated(t, j)'
       PROVE  verdicts'[j] = <<>> /\ \A u \in Slots \ {t} : ~Validated(u, j)'
    <2>1. CASE r.op \in ValidateOps /\ j = r.j
        <3>1. \A u \in Slots : ~Validated(u, j)
            <4> SUFFICES ASSUME NEW u \in Slots, Validated(u, j) PROVE FALSE
                OBVIOUS
            <4>1. MinedBy(requests[u], jobs[j]) /\ requests[u].op \in ValidateOps
                BY InFlight DEF Validated, Honest
            <4> QED
                BY <1>6, <2>1, <4>1 DEF MinedBy, ValidateOps
        <3>2. verdicts[j] = <<>>
            BY <1>6, <2>1 DEF LaneInv, VerdictsSettled
        <3> QED
            BY <1>1, <1>8, <1>11, <3>1, <3>2 DEF Validated
    <2>2. CASE ~(r.op \in ValidateOps /\ j = r.j)
        <3>1. ~Validated(s, j)' /\ ~Validated(s, j)
            BY <1>1, <1>5, <1>8, <2>2 DEF Validated
        <3>2. Validated(t, j)
            BY <1>8, <1>11, <3>1 DEF Validated
        <3>3. verdicts[j] = <<>> /\ \A u \in Slots \ {t} : ~Validated(u, j)
            BY <3>2 DEF LaneInv, OneVerdict
        <3> QED
            BY <1>1, <1>8, <3>1, <3>3 DEF Validated
    <2> QED
        BY <2>1, <2>2
<1>12. OneVerdict'
    BY <1>11 DEF OneVerdict
<1> QED
    BY <1>1, <1>6, <1>7, <1>8, <1>9, <1>10, <1>12, FromParts

\* A call mined too late.
LEMMA LateMinedKeeps ==
    ASSUME LaneInv, NEW c \in late, lateMined(c)
    PROVE  LaneInv'
<1>1. /\ transaction(c) /\ late' = late \ {c}
      /\ UNCHANGED <<records, requests, verdicts, submitAnchors, crashes>>
    BY DEF lateMined
<1>2. c \in Call /\ CallHonest(c)
    BY DEF LaneInv, LaneTypeOK
<1>3. Grows /\ TypeOK' /\ JobsCoherent'
    BY <1>1, <1>2, CallGrows
<1>4. LaneTypeOK'
    BY <1>1, <1>3 DEF LaneInv, LaneTypeOK
<1>5. VerdictsSettled' /\ OneVerdict'
    BY <1>1, <1>3, <1>4, VerdictsLast
<1> QED
    BY <1>1, <1>3, <1>4, <1>5, FromParts

\* The verdict of a mined validation is the job's first.
LEMMA ValidateSucceedsKeeps ==
    ASSUME LaneInv, NEW s \in Slots, validateSucceeds(s)
    PROVE  LaneInv'
<1> DEFINE r == requests[s]
           q == [r EXCEPT !.awaits = "anchor"]
           outcome == IF r.op = "approve" THEN "completed" ELSE "rejected"
<1>1. /\ r.awaits = "mined" /\ r.op \in ValidateOps
      /\ verdicts' = [verdicts EXCEPT ![r.j] = Append(@, outcome)]
      /\ UNCHANGED <<vars, records, late, submitAnchors, crashes>>
    BY DEF validateSucceeds
<1>2. r \in Request /\ Honest(r) /\ r.j \in JobIds /\ MinedBy(r, jobs[r.j])
    BY <1>1, InFlight DEF Honest
<1>3. requests' = [requests EXCEPT ![s] = q]
    BY <1>2 DEF validateSucceeds, goesOn, Request
<1>4. /\ q \in Request /\ q.j = r.j /\ q.job = r.job /\ q.op = r.op /\ q.by = r.by
      /\ q.awaits = "anchor" /\ q.submitAnchorTxHash = r.submitAnchorTxHash
    BY <1>2 DEF Request, Awaits
<1>5. requests'[s] = q /\ \A t \in Slots \ {s} : requests'[t] = requests[t]
    BY <1>3 DEF LaneInv, LaneTypeOK
<1>6. verdicts[r.j] = <<>> /\ \A t \in Slots \ {s} : ~Validated(t, r.j)
    BY <1>1, <1>2 DEF LaneInv, OneVerdict, Validated
<1>7. /\ verdicts'[r.j] = <<outcome>>
      /\ \A j \in JobIds \ {r.j} : verdicts'[j] = verdicts[j]
      /\ verdicts' \in [JobIds -> Seq({"completed", "rejected"})]
    <2>1. Append(<<>>, outcome) = <<outcome>> /\ outcome \in {"completed", "rejected"}
        OBVIOUS
    <2>2. verdicts \in [JobIds -> Seq({"completed", "rejected"})]
        BY DEF LaneInv, LaneTypeOK
    <2>3. <<outcome>> \in Seq({"completed", "rejected"})
        BY <2>1
    <2> HIDE DEF outcome
    <2>4. verdicts' = [verdicts EXCEPT ![r.j] = <<outcome>>]
        BY <1>1, <1>6, <2>1
    <2> QED
        BY <1>2, <2>2, <2>3, <2>4
<1>8. jobs' = jobs /\ TypeOK' /\ JobsCoherent'
    BY <1>1 DEF LaneInv, LaneTypeOK, TypeOK, vars, guardVars, JobsCoherent, JobCoherent
<1>9. LaneTypeOK'
    BY <1>1, <1>3, <1>4, <1>7, <1>8 DEF LaneInv, LaneTypeOK
<1>10. Grows
    BY <1>1, <1>8 DEF Grows, JobGrows
<1>11. HonestAfter(q)
    <2>1. HonestAfter(r)
        BY <1>2, <1>9, <1>10, HonestLasts DEF LaneInv
    <2>2. MinedBy(q, jobs'[r.j]) /\ q.op \notin {"claim"} \cup SubmitOps
        BY <1>1, <1>2, <1>4, <1>8 DEF MinedBy, ValidateOps, SubmitOps
    <2> QED
        BY <1>4, <2>1, <2>2 DEF HonestAfter
<1>12. VerdictsSettled'
    <2>1. \/ verdicts'[r.j] = <<"completed">> /\ jobs'[r.j].state = "Completed"
          \/ verdicts'[r.j] = <<"rejected">> /\ jobs'[r.j].state = "Rejected"
        BY <1>1, <1>2, <1>7, <1>8 DEF MinedBy, ValidateOps
    <2> QED
        BY <1>7, <1>8, <2>1 DEF LaneInv, VerdictsSettled
<1>13. OneVerdict'
    <2>1. \A t \in Slots, j \in JobIds : Validated(t, j)' => Validated(t, j) /\ j # r.j
        <3> SUFFICES ASSUME NEW t \in Slots, NEW j \in JobIds, Validated(t, j)'
                     PROVE  Validated(t, j) /\ j # r.j
            OBVIOUS
        <3>1. t # s
            BY <1>4, <1>5 DEF Validated
        <3>2. Validated(t, j)
            BY <1>5, <3>1 DEF Validated
        <3> QED
            BY <1>6, <3>1, <3>2
    <2> QED
        BY <1>7, <2>1 DEF LaneInv, OneVerdict
<1> HIDE DEF q, outcome
<1> QED
    BY <1>1, <1>5, <1>8, <1>9, <1>10, <1>11, <1>12, <1>13, FromParts

\* What happens to the contract without the lane.
LEMMA ChainKeeps ==
    ASSUME LaneInv, Chain
    PROVE  LaneInv'
<1>1. UNCHANGED <<records, requests, late, verdicts, submitAnchors, crashes>>
    BY DEF Chain, laneVars
<1>2. TypeOK' /\ JobsCoherent'
    BY ChainIsStep, EscrowStep DEF LaneInv, LaneTypeOK, EscrowInv
<1>3. LaneTypeOK'
    BY <1>1, <1>2 DEF LaneInv, LaneTypeOK
<1>4. Grows
    BY <1>1, ChainMoves DEF LaneInv, Grows
<1>5. VerdictsSettled' /\ OneVerdict'
    BY <1>1, <1>3, <1>4, VerdictsLast
<1> QED
    BY <1>1, <1>2, <1>3, <1>4, <1>5, FromParts

-----------------------------------------------------------------------------
\* The theorems

\* A step that changes nothing.
LEMMA StutterKeeps ==
    ASSUME LaneInv, UNCHANGED allVars
    PROVE  LaneInv'
<1>1. /\ UNCHANGED vars
      /\ UNCHANGED <<records, requests, late, verdicts, submitAnchors, crashes>>
    BY DEF allVars, laneVars
<1>2. records' \in [JobIds -> Record] /\ requests' \in [Slots -> Request \cup {NoRequest}]
      /\ crashes' \in 0..MaxCrashes
    BY <1>1 DEF LaneInv, LaneTypeOK
<1> QED
    BY <1>1, <1>2, Unmoved, SameCalls, QuietStep

\* Every request that arrives.
LEMMA ArrivalsKeep ==
    ASSUME LaneInv, NEW s \in Slots, NEW j \in JobIds, Arrivals(s, j)
    PROVE  LaneInv'
<1>1. ASSUME NEW op, fundJob(s, j, op) PROVE LaneInv'
    <2>1. fundFrom(s, j, op, Unfunded) /\ "none" \notin Unfunded
        BY <1>1 DEF fundJob, Unfunded
    <2> QED
        BY <2>1, FundKeeps
<1> QED
    BY <1>1, ClaimKeeps, AcceptKeeps, SubmitKeeps, ValidateKeeps, ExpiryKeeps DEF Arrivals

\* A crash.
LEMMA CrashKeeps ==
    ASSUME LaneInv, Crash
    PROVE  LaneInv'
<1>1. crashes' \in 0..MaxCrashes
    BY LaneAssumption DEF Crash, LaneInv, LaneTypeOK
<1> QED
    BY <1>1, ForgetKeeps DEF Crash

\* The crash of a delivered submit that failed.
LEMMA DeliveryFailsKeeps ==
    ASSUME LaneInv, NEW s \in Slots, deliveryFails(s)
    PROVE  LaneInv'
<1>1. crashes' \in 0..MaxCrashes
    BY DEF deliveryFails, LaneInv, LaneTypeOK
<1> QED
    BY <1>1, ForgetKeeps DEF deliveryFails

\* Every step of a request in flight.
LEMMA ProgressKeeps ==
    ASSUME LaneInv, NEW s \in Slots, Progress(s)
    PROVE  LaneInv'
BY ServiceKeeps, SubmitAnchorKeeps, SubmitAnchorFailsKeeps, EscrowMinedKeeps, ClaimSucceedsKeeps,
   SubmitSucceedsKeeps, FundOrAcceptKeeps, ValidateSucceedsKeeps, EscrowFailsKeeps,
   DeliveryFailsKeeps, AnchorReturnsKeeps, ExpiryAnchorFailsKeeps DEF Progress

\* Every step of the lane keeps what its rows, requests and calls say true.
LEMMA LaneStepKeeps ==
    ASSUME LaneInv, [LaneNext]_allVars
    PROVE  LaneInv'
BY CreateKeeps, ArrivalsKeep, ProgressKeeps, LateMinedKeeps, CrashKeeps, ChainKeeps, StutterKeeps
   DEF LaneNext

\* A step of a request in flight is at most one transaction, or one anchor.
LEMMA ProgressIsStep ==
    ASSUME LaneInv, NEW s \in Slots, Progress(s)
    PROVE  [Next]_vars
<1>1. CASE UNCHANGED vars
    BY <1>1
<1>2. CASE requests[s].awaits # "nothing" /\ anchorBestEffort(requests[s].j)
           /\ UNCHANGED <<jobs, balance, now, guardVars>>
    BY <1>2, InFlight, AnchorIsStep
<1>3. CASE escrowMined(s)
    <2>1. requests[s] \in Request /\ Honest(requests[s]) /\ transaction(callOf(requests[s]))
        BY <1>3, InFlight DEF escrowMined
    <2>2. /\ callOf(requests[s]) \in Call
          /\ callOf(requests[s]).op = "claim" => callOf(requests[s]).by \in Executors
        BY <2>1 DEF callOf, Call, Request, Honest
    <2> QED
        BY <2>1, <2>2, CallIsStep DEF LaneInv
<1>4. CASE submitAnchorConfirmed(s)
    BY <1>2, <1>4 DEF submitAnchorConfirmed, anchorBestEffort
<1>5. CASE submitAnchorFails(s)
    BY <1>2, <1>5 DEF submitAnchorFails
<1>6. CASE anchorReturns(s)
    BY <1>2, <1>6 DEF anchorReturns
<1>7. CASE expiryAnchorFails(s)
    BY <1>2, <1>7 DEF expiryAnchorFails
<1> QED
    BY <1>1, <1>3, <1>4, <1>5, <1>6, <1>7
    DEF Progress, serviceReturns, claimSucceeds, submitSucceeds, fundOrAcceptSucceeds,
        validateSucceeds, escrowFails, deliveryFails

\* Every step of the lane is a step of the contract, or none.
LEMMA LaneStepIsStep ==
    ASSUME LaneInv, [LaneNext]_allVars
    PROVE  [Next]_vars
<1>1. ASSUME NEW j \in JobIds, NEW executor, createJob(j, executor) PROVE [Next]_vars
    BY <1>1, AnchorIsStep DEF createJob
<1>2. ASSUME NEW s \in Slots, NEW j \in JobIds, Arrivals(s, j) PROVE UNCHANGED vars
    BY <1>2 DEF Arrivals, fundJob, fundFrom, claimRoute, acceptRoute, submitRoute, validateRoute,
                executeJobExpiry
<1>3. ASSUME NEW c \in late, lateMined(c) PROVE [Next]_vars
    BY <1>3, CallIsStep DEF lateMined, LaneInv, LaneTypeOK, CallHonest
<1>4. CASE Crash
    BY <1>4 DEF Crash
<1>5. CASE UNCHANGED allVars
    BY <1>5 DEF allVars
<1> QED
    BY <1>1, <1>2, <1>3, <1>4, <1>5, ProgressIsStep, ChainIsStep DEF LaneNext

\* Nothing is said at the start.
LEMMA LaneInitHonest == LaneInit => LaneInv
<1> SUFFICES ASSUME LaneInit PROVE LaneInv
    OBVIOUS
<1>1. TypeOK /\ JobsCoherent
    BY EscrowAssumption, BlankTyped
    DEF LaneInit, Init, TypeOK, Accounts, JobsCoherent, JobCoherent, NoJob, ActiveStates
<1>2. NoRecord \in Record /\ <<>> \in Seq({"completed", "rejected"})
    BY DEF NoRecord, Record
<1>3. LaneTypeOK
    BY <1>1, <1>2, LaneAssumption DEF LaneInit, LaneTypeOK
<1>4. \A j \in JobIds : jobs[j] = NoJob /\ records[j] = NoRecord
    BY DEF LaneInit, Init
<1>5. ASSUME NEW j \in JobIds PROVE RowHonest(j)
    <2>1. /\ records[j].state = "none" /\ records[j].executor = NoParty /\ jobs[j].fundedAt = 0
          /\ ~records[j].submitAnchorTxHash
        BY <1>4 DEF NoRecord, NoJob
    <2> QED
        BY <2>1 DEF RowHonest, RecordBacked, Progressed
<1>6. \A s \in Slots : requests[s] = NoRequest
    BY DEF LaneInit
<1>7. OneVerdict
    BY <1>6 DEF OneVerdict, Validated, NoRequest
<1> QED
    BY <1>1, <1>3, <1>4, <1>5, <1>6, <1>7
    DEF LaneInit, LaneInv, SubmitsAnchored, VerdictsSettled, NoJob

\* What rows, requests and calls say of the contract is true in every state of
\* the lane.
THEOREM LaneInvariant == LaneSpec => []LaneInv
<1>1. LaneInv /\ [LaneNext]_allVars => LaneInv'
    BY LaneStepKeeps
<1> QED
    BY <1>1, LaneInitHonest, PTL DEF LaneSpec

\* LaneTypeOK in every reachable state: the backend's tables hold only states
\* of its vocabulary, and the contract's storage keeps its types under the lane.
THEOREM LaneTyped == LaneSpec => []LaneTypeOK
BY LaneInvariant, PTL DEF LaneInv

\* RecordsBacked in every reachable state: no record ever claims a step of the
\* escrow, or an executor, that the contract does not have.
THEOREM LaneRecordsBacked == LaneSpec => []RecordsBacked
<1>1. LaneInv => RecordsBacked
    BY DEF LaneInv, RowHonest, RecordsBacked
<1> QED
    BY <1>1, LaneInvariant, PTL

\* VerdictsSettled in every reachable state: a job moves its provider's
\* reputation at most once, and as the contract settled it.
THEOREM LaneVerdictsSettled == LaneSpec => []VerdictsSettled
BY LaneInvariant, PTL DEF LaneInv

\* SubmitsAnchored in every reachable state: where the lane must anchor first,
\* no submit reaches the contract without its anchor.
THEOREM LaneSubmitsAnchored == LaneSpec => []SubmitsAnchored
BY LaneInvariant, PTL DEF LaneInv

\* The lane drives the contract, and does nothing to it the contract would not
\* let anybody do: whatever is proved of the contract holds under the lane.
THEOREM LaneImplementsEscrow == LaneSpec => Spec
<1>1. LaneInv /\ [LaneNext]_allVars => [Next]_vars
    BY LaneStepIsStep
<1>2. LaneInit => Init
    BY DEF LaneInit
<1> QED
    BY <1>1, <1>2, LaneInvariant, PTL DEF LaneSpec, Spec

-----------------------------------------------------------------------------
\* Requests that never overlap

\* The states of the job a request serves.
Serves(op) ==
    CASE op \in FundOps -> Unfunded
      [] op \in {"claim", "accept"} -> {"funded"}
      [] op \in SubmitOps -> {"accepted"}
      [] op \in ValidateOps -> {"submitted"}
      [] op = "expire" -> Unfunded \cup {"pending_approval"}

LEMMA ServedStates ==
    /\ \A op \in FundOps : Serves(op) = Unfunded
    /\ Serves("claim") = {"funded"} /\ Serves("accept") = {"funded"}
    /\ \A op \in SubmitOps : Serves(op) = {"accepted"}
    /\ \A op \in ValidateOps : Serves(op) = {"submitted"}
    /\ Serves("expire") = Unfunded \cup {"pending_approval"}
BY DEF Serves, FundOps, SubmitOps, ValidateOps

\* The request's copy of the record and the record itself are in a state the
\* request serves, and only a submit awaits a service or an anchor first.
InItsState(r, state) ==
    /\ r.job.state \in Serves(r.op) /\ state \in Serves(r.op)
    /\ r.awaits \in {"service", "submitAnchor"} => r.op \in SubmitOps

InTheirStates ==
    \A s \in Slots : requests[s] # NoRequest => InItsState(requests[s], records[requests[s].j].state)

\* A write of a record that moves it forward, or leaves it at its end.
Forward(from, to) ==
    /\ Rank(to) >= Rank(from)
    /\ Rank(from) = 6 => to = from

RowsForward == \A j \in JobIds : Forward(records[j].state, records'[j].state)

LEMMA ForwardSame == \A state : Forward(state, state)
<1>1. \A state : Rank(state) \in 0..6
    BY DEF Rank
<1> QED
    BY <1>1 DEF Forward

\* The moves forward a request makes.
LEMMA ForwardMoves ==
    /\ Forward("none", "created")
    /\ \A state \in Unfunded : Forward(state, "funding_pending") /\ Forward(state, "funding_failed")
                               /\ Forward(state, "funded")
    /\ \A state \in Unfunded \cup {"pending_approval"} : Forward(state, "expired")
    /\ Forward("funded", "accepted") /\ Forward("accepted", "submitted")
    /\ Forward("submitted", "completed") /\ Forward("submitted", "rejected")
BY DEF Forward, Rank, Unfunded

\* A step in which no record changes its state and no request its job.
LEMMA QuietAdvances ==
    ASSUME InTheirStates,
           \A j \in JobIds : records'[j].state = records[j].state,
           \A s \in Slots : requests[s] # NoRequest => requests[s].j \in JobIds,
           \A s \in Slots :
               \/ requests'[s] = NoRequest
               \/ /\ requests[s] # NoRequest
                  /\ requests'[s].op = requests[s].op /\ requests'[s].j = requests[s].j
                  /\ requests'[s].job = requests[s].job
                  /\ requests'[s].awaits \in {"service", "submitAnchor"} =>
                         requests[s].op \in SubmitOps
    PROVE  InTheirStates' /\ RowsForward
BY ForwardSame DEF InTheirStates, InItsState, RowsForward

\* The write of the only request in flight.
LEMMA WriteAdvances ==
    ASSUME LaneTypeOK, Alone, NEW s \in Slots, requests[s] # NoRequest, responds(s),
           NEW rec, upsertJobRecord(requests[s].j, rec),
           Forward(records[requests[s].j].state, rec.state)
    PROVE  InTheirStates' /\ RowsForward
<1>1. records \in [JobIds -> Record] /\ requests \in [Slots -> Request \cup {NoRequest}]
    BY DEF LaneTypeOK
<1>2. \A t \in Slots : requests'[t] = NoRequest
    BY <1>1 DEF Alone, responds
<1>3. \A j \in JobIds : records'[j] = IF j = requests[s].j THEN rec ELSE records[j]
    BY <1>1 DEF upsertJobRecord
<1> QED
    BY <1>2, <1>3, ForwardSame DEF InTheirStates, RowsForward

\* A request that arrives alone has read the record as it is.
LEMMA ArrivalAdvances ==
    ASSUME LaneTypeOK, Alone', NEW s \in Slots, NEW j \in JobIds, NEW new,
           requests' = [requests EXCEPT ![s] = new], new # NoRequest, new.j = j,
           \A k \in JobIds \ {j} : records'[k].state = records[k].state,
           Forward(records[j].state, records'[j].state),
           InItsState(new, records'[j].state)
    PROVE  InTheirStates' /\ RowsForward
<1>1. requests' \in [Slots -> Request \cup {NoRequest} \cup {new}] /\ requests'[s] = new
    BY DEF LaneTypeOK
<1>2. \A t \in Slots \ {s} : requests'[t] = NoRequest
    BY <1>1 DEF Alone
<1> QED
    BY <1>1, <1>2, ForwardSame DEF InTheirStates, RowsForward

\* A request that finds its job in a state other than expired reads the record.
LEMMA ReadsRecord ==
    ASSUME NEW j \in JobIds, materializeJob(j).state # "expired"
    PROVE  materializeJob(j) = records[j]
<1>1. CASE records[j].state \in {"created", "funding_pending", "pending_approval"}
           /\ now > ExpiresAt
    <2>1. materializeJob(j) = [records[j] EXCEPT !.state = "expired"]
        BY <1>1 DEF materializeJob
    <2>2. "state" \in DOMAIN records[j] => materializeJob(j).state = "expired"
        BY <2>1
    <2>3. "state" \notin DOMAIN records[j] => materializeJob(j) = records[j]
        BY <2>1
    <2> QED
        BY <2>2, <2>3
<1>2. CASE ~(records[j].state \in {"created", "funding_pending", "pending_approval"}
             /\ now > ExpiresAt)
    BY <1>2 DEF materializeJob
<1> QED
    BY <1>1, <1>2

\* Arrivals that leave the record alone.
LEMMA ArriveAdvances ==
    ASSUME LaneTypeOK, Alone', NEW s \in Slots, NEW j \in JobIds, NEW op, NEW by, NEW awaits,
           awaits \in {"service", "submitAnchor"} => op \in SubmitOps,
           arrive(s, op, j, by, Serves(op), awaits), "expired" \notin Serves(op),
           awaits # "nothing", UNCHANGED records
    PROVE  InTheirStates' /\ RowsForward
<1> DEFINE new == [op |-> op, j |-> j, by |-> by, awaits |-> awaits, job |-> materializeJob(j),
                   submitAnchorTxHash |-> records[j].submitAnchorTxHash]
<1>1. requests' = [requests EXCEPT ![s] = new] /\ materializeJob(j).state \in Serves(op)
    BY DEF arrive
<1>2. materializeJob(j) = records[j]
    BY <1>1, ReadsRecord
<1>3. new # NoRequest /\ new.j = j /\ InItsState(new, records[j].state)
    BY <1>1, <1>2 DEF NoRequest, InItsState
<1> HIDE DEF new
<1> QED
    BY <1>1, <1>3, ForwardSame, ArrivalAdvances

LEMMA ArrivalsAdvance ==
    ASSUME LaneInv, Alone', NEW s \in Slots, NEW j \in JobIds, Arrivals(s, j)
    PROVE  InTheirStates' /\ RowsForward
<1>1. LaneTypeOK
    BY DEF LaneInv
<1>2. ASSUME NEW op \in FundOps, fundJob(s, j, op)
      PROVE  InTheirStates' /\ RowsForward
    <2> DEFINE new == [op |-> op, j |-> j, by |-> records[j].executor, awaits |-> "escrow",
                       job |-> materializeJob(j),
                       submitAnchorTxHash |-> records[j].submitAnchorTxHash]
               rec == funding(materializeJob(j), "funding_pending")
    <2>1. /\ requests' = [requests EXCEPT ![s] = new]
          /\ materializeJob(j).state \in Unfunded
          /\ records' = records \/ records' = [records EXCEPT ![j] = rec]
        BY <1>2 DEF fundJob, fundFrom, arrive, upsertJobRecord
    <2>2. materializeJob(j) = records[j] /\ records[j] \in Record
        BY <1>1, <2>1, ReadsRecord DEF Unfunded, LaneTypeOK
    <2>3. rec.state = "funding_pending"
        BY <2>2 DEF funding, Record
    <2>4. Serves(op) = Unfunded /\ "funding_pending" \in Unfunded
        BY ServedStates DEF Unfunded
    <2> HIDE DEF rec
    <2>5. /\ \A k \in JobIds \ {j} : records'[k].state = records[k].state
          /\ records'[j].state \in {records[j].state, "funding_pending"}
        BY <1>1, <2>1, <2>3 DEF LaneTypeOK
    <2>6. Forward(records[j].state, records'[j].state) /\ records'[j].state \in Unfunded
        BY <2>1, <2>2, <2>4, <2>5, ForwardSame, ForwardMoves
    <2>7. new # NoRequest /\ new.j = j /\ InItsState(new, records'[j].state)
        BY <2>1, <2>4, <2>6 DEF NoRequest, InItsState
    <2> HIDE DEF new
    <2> QED
        BY <1>1, <2>1, <2>5, <2>6, <2>7, ArrivalAdvances
<1>3. ASSUME NEW by \in Executors, claimRoute(s, j, by)
      PROVE  InTheirStates' /\ RowsForward
    <2>1. Serves("claim") = {"funded"}
        BY ServedStates
    <2> QED
        BY <1>1, <1>3, <2>1, ArriveAdvances DEF claimRoute
<1>4. CASE acceptRoute(s, j)
    <2>1. Serves("accept") = {"funded"}
        BY ServedStates
    <2> QED
        BY <1>1, <1>4, <2>1, ArriveAdvances DEF acceptRoute
<1>5. ASSUME NEW op \in SubmitOps, submitRoute(s, j, op)
      PROVE  InTheirStates' /\ RowsForward
    <2>1. Serves(op) = {"accepted"}
        BY ServedStates
    <2> DEFINE awaits == IF op = "submitService" THEN "service"
                         ELSE submitAwaits(records[j].submitAnchorTxHash)
    <2>2. awaits # "nothing"
        BY DEF submitAwaits
    <2>3. arrive(s, op, j, records[j].executor, Serves(op), awaits) /\ UNCHANGED records
        BY <1>5, <2>1 DEF submitRoute
    <2> HIDE DEF awaits
    <2> QED
        BY <1>1, <2>1, <2>2, <2>3, ArriveAdvances
<1>6. ASSUME NEW op \in ValidateOps, validateRoute(s, j, op)
      PROVE  InTheirStates' /\ RowsForward
    <2>1. Serves(op) = {"submitted"}
        BY ServedStates
    <2> QED
        BY <1>1, <1>6, <2>1, ArriveAdvances DEF validateRoute
<1>7. CASE executeJobExpiry(s, j)
    <2> DEFINE new == [op |-> "expire", j |-> j, by |-> records[j].executor, awaits |-> "anchor",
                       job |-> records[j], submitAnchorTxHash |-> records[j].submitAnchorTxHash]
    <2>1. /\ requests' = [requests EXCEPT ![s] = new] /\ records' = records
          /\ records[j].state \in Unfunded \cup {"pending_approval"}
        BY <1>7 DEF executeJobExpiry
    <2>2. Serves("expire") = Unfunded \cup {"pending_approval"}
        BY ServedStates
    <2>3. new # NoRequest /\ new.j = j /\ InItsState(new, records[j].state)
        BY <2>1, <2>2 DEF NoRequest, InItsState
    <2> HIDE DEF new
    <2> QED
        BY <1>1, <2>1, <2>3, ForwardSame, ArrivalAdvances
<1> QED
    BY <1>2, <1>3, <1>4, <1>5, <1>6, <1>7 DEF Arrivals

\* The state a request that writes has read, and the one the record is in.
LEMMA AsRead ==
    ASSUME LaneInv, InTheirStates, NEW s \in Slots, requests[s].awaits # "nothing"
    PROVE  /\ requests[s] # NoRequest /\ requests[s].j \in JobIds
           /\ requests[s].job \in Record /\ requests[s].op \in Ops
           /\ requests[s].job.state \in Serves(requests[s].op)
           /\ records[requests[s].j].state \in Serves(requests[s].op)
           /\ requests[s].op \in SubmitOps =>
                requests[s].job.state = "accepted" /\ records[requests[s].j].state = "accepted"
<1>1. requests[s] # NoRequest /\ requests[s] \in Request
    BY InFlight DEF NoRequest
<1>2. InItsState(requests[s], records[requests[s].j].state)
    BY <1>1 DEF InTheirStates
<1> QED
    BY <1>1, <1>2, ServedStates DEF InItsState, Request

\* Steps of a request that write nothing, or its anchor only.
LEMMA GoesOnAdvances ==
    ASSUME LaneInv, InTheirStates, NEW s \in Slots, requests[s].awaits # "nothing",
           NEW r, requests' = [requests EXCEPT ![s] = r],
           r.op = requests[s].op, r.j = requests[s].j, r.job = requests[s].job,
           r.awaits \in {"service", "submitAnchor"} => r.op \in SubmitOps,
           \A j \in JobIds : records'[j].state = records[j].state
    PROVE  InTheirStates' /\ RowsForward
<1>1. /\ requests \in [Slots -> Request \cup {NoRequest}]
      /\ \A t \in Slots : requests[t] # NoRequest =>
            /\ requests[t].j \in JobIds
            /\ requests[t].awaits \in {"service", "submitAnchor"} => requests[t].op \in SubmitOps
      /\ requests[s] # NoRequest
    BY AsRead DEF LaneInv, LaneTypeOK, Request, InTheirStates, InItsState
<1>2. \A t \in Slots : requests'[t] = IF t = s THEN r ELSE requests[t]
    BY <1>1
<1> QED
    BY <1>1, <1>2, QuietAdvances

\* Steps that only end requests, or leave them all alone.
LEMMA EndsAdvances ==
    ASSUME LaneInv, InTheirStates, UNCHANGED records,
           \A s \in Slots : requests'[s] \in {NoRequest, requests[s]}
    PROVE  InTheirStates' /\ RowsForward
<1>1. \A t \in Slots : requests[t] # NoRequest =>
            /\ requests[t].j \in JobIds
            /\ requests[t].awaits \in {"service", "submitAnchor"} => requests[t].op \in SubmitOps
    BY DEF LaneInv, LaneTypeOK, Request, InTheirStates, InItsState
<1> QED
    BY <1>1, QuietAdvances

LEMMA RespondsAdvances ==
    ASSUME LaneInv, InTheirStates, NEW s \in Slots, responds(s), UNCHANGED records
    PROVE  InTheirStates' /\ RowsForward
<1>1. \A t \in Slots : requests'[t] \in {NoRequest, requests[t]}
    BY DEF LaneInv, LaneTypeOK, responds
<1> QED
    BY <1>1, EndsAdvances

LEMMA ForgetAdvances ==
    ASSUME LaneInv, InTheirStates, forgetsRequests, UNCHANGED records
    PROVE  InTheirStates' /\ RowsForward
<1>1. \A t \in Slots : requests'[t] \in {NoRequest, requests[t]}
    BY DEF forgetsRequests
<1> QED
    BY <1>1, EndsAdvances

\* The closing write of a request: one state further.
LEMMA WrittenForward ==
    ASSUME NEW r, r.op \in FundOps \cup {"accept"} \cup ValidateOps \cup {"expire"}, r.job \in Record,
           NEW state \in Serves(r.op)
    PROVE  Forward(state, writtenBy(r).state)
<1>1. CASE r.op \in FundOps
    <2>1. writtenBy(r) = funding(r.job, "funded")
        BY <1>1 DEF writtenBy, FundOps, ValidateOps
    <2>2. writtenBy(r).state = "funded"
        BY <2>1 DEF funding, Record
    <2> QED
        BY <1>1, <2>2, ServedStates, ForwardMoves
<1>2. CASE r.op = "accept"
    <2>1. writtenBy(r).state = "accepted"
        BY <1>2 DEF writtenBy, FundOps, Record
    <2> QED
        BY <1>2, <2>1, ServedStates, ForwardMoves
<1>3. CASE r.op \in ValidateOps
    <2>1. writtenBy(r).state \in {"completed", "rejected"}
        BY <1>3 DEF writtenBy, FundOps, ValidateOps, Record
    <2> QED
        BY <1>3, <2>1, ServedStates, ForwardMoves
<1>4. CASE r.op = "expire"
    <2>1. writtenBy(r).state = "expired"
        BY <1>4 DEF writtenBy, FundOps, ValidateOps, Record
    <2> QED
        BY <1>4, <2>1, ServedStates, ForwardMoves
<1> QED
    BY <1>1, <1>2, <1>3, <1>4

\* A request alone in flight moves its record forward, whatever its next step.
LEMMA ProgressAdvances ==
    ASSUME LaneInv, Alone, InTheirStates, NEW s \in Slots, Progress(s)
    PROVE  InTheirStates' /\ RowsForward
<1> DEFINE r == requests[s]
<1>1. requests \in [Slots -> Request \cup {NoRequest}] /\ LaneTypeOK
    BY DEF LaneInv, LaneTypeOK
<1>2. ASSUME r.awaits # "nothing"
      PROVE  /\ r # NoRequest /\ r.j \in JobIds /\ r.job \in Record
             /\ records[r.j].state \in Serves(r.op)
             /\ r.op \in SubmitOps => r.job.state = "accepted" /\ records[r.j].state = "accepted"
             /\ r.awaits \in {"service", "submitAnchor"} => r.op \in SubmitOps
    BY <1>2, AsRead DEF InTheirStates, InItsState
<1>3. ASSUME NEW awaits, goesOn(s, awaits), r.awaits # "nothing",
             awaits \in {"service", "submitAnchor"} => r.op \in SubmitOps,
             UNCHANGED records
      PROVE  InTheirStates' /\ RowsForward
    <2> DEFINE q == [r EXCEPT !.awaits = awaits]
    <2>1. r \in Request
        BY <1>1, <1>2, <1>3
    <2>2. requests' = [requests EXCEPT ![s] = q]
        BY <1>3 DEF goesOn
    <2>3. q.op = r.op /\ q.j = r.j /\ q.job = r.job /\ q.awaits = awaits
        BY <2>1 DEF Request
    <2> HIDE DEF q
    <2> QED
        BY <1>3, <2>2, <2>3, GoesOnAdvances
<1>4. ASSUME NEW rec, r.awaits # "nothing", responds(s), upsertJobRecord(r.j, rec),
             Forward(records[r.j].state, rec.state)
      PROVE  InTheirStates' /\ RowsForward
    BY <1>1, <1>2, <1>4, WriteAdvances
<1>5. ASSUME NEW ok \in BOOLEAN, serviceReturns(s, ok)
      PROVE  InTheirStates' /\ RowsForward
    <2>1. r.awaits = "service"
        BY <1>5 DEF serviceReturns
    <2>2. CASE ok
        BY <1>2, <1>3, <1>5, <2>1, <2>2 DEF serviceReturns
    <2>3. CASE ~ok
        <3>1. responds(s) /\ upsertJobRecord(r.j, r.job)
            BY <1>5, <2>3 DEF serviceReturns
        <3>2. Forward(records[r.j].state, r.job.state)
            BY <1>2, <2>1, ForwardSame
        <3> HIDE DEF r
        <3> QED
            BY <1>4, <2>1, <3>1, <3>2
    <2> QED
        BY <2>2, <2>3
<1>6. CASE submitAnchorConfirmed(s)
    <2> DEFINE q == [r EXCEPT !.awaits = "escrow", !.submitAnchorTxHash = TRUE]
    <2>1. r.awaits = "submitAnchor"
        BY <1>6 DEF submitAnchorConfirmed
    <2>2. r \in Request
        BY <1>1, <1>2, <2>1
    <2>3. requests' = [requests EXCEPT ![s] = q]
        BY <1>6 DEF submitAnchorConfirmed
    <2>4. q.op = r.op /\ q.j = r.j /\ q.job = r.job /\ q.awaits = "escrow"
        BY <2>2 DEF Request
    <2>5. \A j \in JobIds : records'[j].state = records[j].state
        BY <1>1, <1>2, <1>6, <2>1 DEF submitAnchorConfirmed, upsertJobRecord, LaneTypeOK, Record
    <2> HIDE DEF q
    <2> QED
        BY <2>1, <2>3, <2>4, <2>5, GoesOnAdvances
<1>7. CASE submitAnchorFails(s)
    <2>1. r.awaits = "submitAnchor" /\ responds(s) /\ upsertJobRecord(r.j, r.job)
        BY <1>7 DEF submitAnchorFails
    <2>2. Forward(records[r.j].state, r.job.state)
        BY <1>2, <2>1, ForwardSame
    <2> HIDE DEF r
    <2> QED
        BY <1>4, <2>1, <2>2
<1>8. CASE escrowMined(s)
    BY <1>3, <1>8 DEF escrowMined
<1>9. CASE claimSucceeds(s)
    <2> DEFINE rec == [r.job EXCEPT !.executor = r.by]
    <2>1. /\ r.awaits = "mined" /\ r.op = "claim" /\ responds(s)
          /\ upsertJobRecord(r.j, rec)
        BY <1>9 DEF claimSucceeds
    <2>2. r.job \in Record /\ r.job.state = "funded" /\ records[r.j].state = "funded"
        BY <2>1, AsRead, ServedStates
    <2>3. rec.state = "funded"
        BY <2>2 DEF Record
    <2>4. Forward(records[r.j].state, rec.state)
        BY <2>2, <2>3, ForwardSame
    <2> HIDE DEF r, rec
    <2> QED
        BY <1>4, <2>1, <2>4
<1>10. CASE submitSucceeds(s)
    <2> DEFINE rec == [r.job EXCEPT !.state = "submitted",
                                    !.submitAnchorTxHash = r.submitAnchorTxHash]
    <2>1. /\ r.awaits = "mined" /\ r.op \in SubmitOps /\ responds(s)
          /\ upsertJobRecord(r.j, rec)
        BY <1>10 DEF submitSucceeds
    <2>2. rec.state = "submitted"
        BY <1>2, <2>1 DEF Record
    <2>3. Forward(records[r.j].state, rec.state)
        BY <1>2, <2>1, <2>2, ForwardMoves
    <2> HIDE DEF r, rec
    <2> QED
        BY <1>4, <2>1, <2>3
<1>11. CASE fundOrAcceptSucceeds(s)
    BY <1>3, <1>11 DEF fundOrAcceptSucceeds
<1>12. CASE validateSucceeds(s)
    BY <1>3, <1>12 DEF validateSucceeds
<1>13. ASSUME NEW keep \in BOOLEAN, escrowFails(s, keep)
       PROVE  InTheirStates' /\ RowsForward
    <2>1. r.awaits # "nothing" /\ responds(s)
        BY <1>13 DEF escrowFails
    <2>2. CASE r.op = "fundAsync"
        <3> DEFINE rec == funding(r.job, "funding_failed")
        <3>1. upsertJobRecord(r.j, rec)
            BY <1>13, <2>2 DEF escrowFails
        <3>2. rec.state = "funding_failed"
            BY <1>2, <2>1 DEF funding, Record
        <3>3. Forward(records[r.j].state, rec.state)
            BY <1>2, <2>1, <2>2, <3>2, ServedStates, ForwardMoves DEF FundOps
        <3> HIDE DEF r, rec
        <3> QED
            BY <1>4, <2>1, <3>1, <3>3
    <2>3. CASE r.op = "submitService"
        <3>1. upsertJobRecord(r.j, r.job)
            BY <1>13, <2>3 DEF escrowFails
        <3>2. Forward(records[r.j].state, r.job.state)
            BY <1>2, <2>1, <2>3, ForwardSame DEF SubmitOps
        <3> HIDE DEF r
        <3> QED
            BY <1>4, <2>1, <3>1, <3>2
    <2>4. CASE r.op \notin {"fundAsync", "submitService"}
        <3>1. UNCHANGED records
            BY <1>13, <2>4 DEF escrowFails
        <3> QED
            BY <2>1, <3>1, RespondsAdvances
    <2> QED
        BY <2>2, <2>3, <2>4
<1>14. CASE deliveryFails(s)
    BY <1>14, ForgetAdvances DEF deliveryFails
<1>15. CASE anchorReturns(s)
    <2>1. r.awaits = "anchor" /\ responds(s) /\ upsertJobRecord(r.j, writtenBy(r))
        BY <1>15 DEF anchorReturns
    <2>2. r.op \in FundOps \cup {"accept"} \cup ValidateOps \cup {"expire"}
        <3>1. r.op \notin {"claim"} \cup SubmitOps /\ r.op \in Ops
            BY <2>1, InFlight, AsRead DEF Honest
        <3> QED
            BY <3>1 DEF Ops
    <2>3. Forward(records[r.j].state, writtenBy(r).state)
        BY <1>2, <2>1, <2>2, WrittenForward
    <2> HIDE DEF r
    <2> QED
        BY <1>4, <2>1, <2>3
<1>16. CASE expiryAnchorFails(s)
    BY <1>16, RespondsAdvances DEF expiryAnchorFails
<1> HIDE DEF r
<1> QED
    BY <1>5, <1>6, <1>7, <1>8, <1>9, <1>10, <1>11, <1>12, <1>13, <1>14, <1>15, <1>16 DEF Progress

\* A step of the lane in which no two requests overlap.
LEMMA LaneAdvances ==
    ASSUME LaneInv, Alone, Alone', InTheirStates, [LaneNext]_allVars
    PROVE  InTheirStates' /\ RowsForward
<1>1. ASSUME NEW j \in JobIds, NEW executor \in Executors \cup {NoParty}, createJob(j, executor)
      PROVE  InTheirStates' /\ RowsForward
    <2> DEFINE rec == [records[j] EXCEPT !.state = "created", !.executor = executor]
    <2>1. /\ records[j].state = "none" /\ requests' = requests
          /\ records' = [records EXCEPT ![j] = rec]
        BY <1>1 DEF createJob, upsertJobRecord
    <2>2. records \in [JobIds -> Record] /\ rec.state = "created"
        BY DEF LaneInv, LaneTypeOK, Record
    <2> HIDE DEF rec
    <2>3. \A k \in JobIds : records'[k].state = IF k = j THEN "created" ELSE records[k].state
        BY <2>1, <2>2
    <2>4. RowsForward
        BY <2>1, <2>3, ForwardMoves, ForwardSame DEF RowsForward
    <2>5. ASSUME NEW t \in Slots, requests[t] # NoRequest
          PROVE  requests[t].j \in JobIds \ {j}
        <3>1. requests[t].j \in JobIds /\ requests[t].op \in Ops
            BY <2>5 DEF LaneInv, LaneTypeOK, Request
        <3>2. records[requests[t].j].state \in Serves(requests[t].op)
            BY <2>5 DEF InTheirStates, InItsState
        <3>3. "none" \notin Serves(requests[t].op)
            BY <3>1, ServedStates DEF Ops, Unfunded
        <3> QED
            BY <2>1, <3>1, <3>2, <3>3
    <2>6. InTheirStates'
        BY <2>1, <2>3, <2>5 DEF InTheirStates, InItsState
    <2> QED
        BY <2>4, <2>6
<1>2. ASSUME NEW c \in late, lateMined(c)
      PROVE  InTheirStates' /\ RowsForward
    BY <1>2, EndsAdvances DEF lateMined
<1>3. CASE Crash
    BY <1>3, ForgetAdvances DEF Crash
<1>4. CASE Chain \/ UNCHANGED allVars
    BY <1>4, EndsAdvances DEF Chain, laneVars, allVars
<1> QED
    BY <1>1, <1>2, <1>3, <1>4, ArrivalsAdvance, ProgressAdvances DEF LaneNext

\* While no two requests overlap, a record only moves forward and a terminal one
\* stays: through crashes, calls that time out and are mined later, and
\* transactions others send to the contract, for any number of jobs.
THEOREM LaneRecordsAdvance == LaneHSpec => RecordsOnlyAdvance
<1> DEFINE Undisturbed == ~overlapped => Alone /\ InTheirStates
           Advance == ~overlapped' => RowsForward
<1>1. LaneHInit => LaneInit /\ Undisturbed
    BY DEF LaneHInit, LaneInit, Alone, InTheirStates
<1>2. [LaneHNext]_laneHistoryVars => [LaneNext]_allVars
    BY DEF LaneHNext, laneHistoryVars
<1>3. LaneInv /\ Undisturbed /\ [LaneHNext]_laneHistoryVars => Undisturbed' /\ Advance
    <2> SUFFICES ASSUME LaneInv, Undisturbed, [LaneHNext]_laneHistoryVars, ~overlapped'
                 PROVE  Alone' /\ InTheirStates' /\ RowsForward
        OBVIOUS
    <2>1. ~overlapped
        BY DEF LaneHNext, laneHistoryVars
    <2>2. Alone /\ InTheirStates
        BY <2>1
    <2>3. Alone'
        <3>1. CASE LaneHNext
            BY <3>1 DEF LaneHNext
        <3>2. CASE UNCHANGED laneHistoryVars
            BY <2>2, <3>2 DEF laneHistoryVars, allVars, laneVars, Alone
        <3> QED
            BY <3>1, <3>2
    <2> HIDE DEF Undisturbed
    <2> QED
        BY <1>2, <2>2, <2>3, LaneAdvances
<1> HIDE DEF Undisturbed, Advance
<1>4. LaneHSpec => []LaneInv
    BY <1>1, <1>2, LaneInvariant, PTL DEF LaneHSpec, LaneSpec
<1>5. LaneHSpec => [][Advance]_laneHistoryVars
    BY <1>1, <1>3, <1>4, PTL DEF LaneHSpec
<1> QED
    BY <1>5 DEF RecordsOnlyAdvance, Advance, RowsForward, Forward
=============================================================================
