--------------------------- MODULE JobEscrowProofs ---------------------------
(***************************************************************************)
(* What the escrow contract guarantees for every set of jobs, parties,     *)
(* amounts, stakes and guards, and without a bound on time.                *)
(***************************************************************************)
EXTENDS GuardHistory, SumTheorems

\* A transfer the sender can cover keeps every balance a natural number.
LEMMA TransferTyped ==
    ASSUME balance \in [Accounts -> Nat], NEW from \in Accounts, NEW to \in Accounts,
           NEW amount \in Nat, safeTransfer(from, to, amount)
    PROVE  balance' \in [Accounts -> Nat]
BY DEF safeTransfer

\* An untouched entry of the job table is a job.
LEMMA BlankTyped == NoJob \in Job
BY DEF NoJob, Job

\* Replacing one job by a well-typed one keeps the table well typed.
LEMMA JobTableTyped ==
    ASSUME jobs \in [JobIds -> Job], NEW j \in JobIds, NEW job \in Job,
           jobs' = [jobs EXCEPT ![j] = job]
    PROVE  jobs' \in [JobIds -> Job]
OBVIOUS

\* The inductive invariant of the contract: types, and coherent records.
EscrowInv == TypeOK /\ JobsCoherent

\* What JobsCoherent says of the parties a payout may go to.
LEMMA PayableParties ==
    ASSUME EscrowInv, NEW j \in JobIds
    PROVE  /\ jobs[j].state # "None" => jobs[j].requester \in Parties
           /\ jobs[j].state = "Submitted" => jobs[j].executor \in Parties
BY DEF EscrowInv, TypeOK, JobsCoherent, JobCoherent, Job

\* lockFunds keeps the types: the new record is a job, the deposit is covered.
LEMMA LockTyped ==
    ASSUME TypeOK, NEW j \in JobIds,
           NEW sender \in Parties, NEW executor \in Parties \cup {NoParty},
           NEW validator \in Parties, NEW amount \in Amounts, NEW stake \in Stakes,
           NEW deadlineAt \in Deadlines,
           lockFunds(sender, j, executor, validator, amount, deadlineAt, stake)
    PROVE  TypeOK'
<1> DEFINE job ==
       [state |-> "Funded",
        requester |-> sender, executor |-> executor, validator |-> validator,
        amount |-> amount, executorStakeAmount |-> stake, deadlineAt |-> deadlineAt,
        fundedAt |-> now, acceptedAt |-> 0, submittedAt |-> 0, resolvedAt |-> 0]
<1>1. job \in Job
  BY EscrowAssumption DEF TypeOK, Deadlines, Job, ActiveStates
<1>2. jobs' \in [JobIds -> Job]
  <2>1. jobs' = [jobs EXCEPT ![j] = job]
    BY DEF lockFunds
  <2> HIDE DEF job
  <2> QED BY <1>1, <2>1, JobTableTyped DEF TypeOK
<1>3. balance' \in [Accounts -> Nat]
  BY TransferTyped, EscrowAssumption DEF lockFunds, TypeOK, Accounts
<1> QED BY <1>2, <1>3 DEF lockFunds, TypeOK, guardVars

\* The records that the transactions after the funding write.
LEMMA JobMoves ==
    ASSUME NEW old \in Job, NEW t \in Nat
    PROVE  /\ [old EXCEPT !.state = "Accepted", !.acceptedAt = t] \in Job
           /\ [old EXCEPT !.state = "Submitted", !.submittedAt = t] \in Job
           /\ \A s \in FinalStates : [old EXCEPT !.state = s, !.resolvedAt = t] \in Job
           /\ {"Completed", "Rejected", "Expired"} \subseteq FinalStates
<1>1. [old EXCEPT !.state = "Accepted", !.acceptedAt = t] \in Job
  BY DEF Job, ActiveStates
<1>2. [old EXCEPT !.state = "Submitted", !.submittedAt = t] \in Job
  BY DEF Job, ActiveStates
<1>3. \A s \in FinalStates : [old EXCEPT !.state = s, !.resolvedAt = t] \in Job
  BY DEF Job
<1> QED BY <1>1, <1>2, <1>3 DEF FinalStates

\* acceptJob keeps the types: the stake it takes is covered.
LEMMA AcceptTyped ==
    ASSUME TypeOK, NEW j \in JobIds, NEW sender \in Parties, acceptJob(sender, j)
    PROVE  TypeOK'
<1>1. jobs[j].executorStakeAmount \in Nat
  BY DEF TypeOK, Job
<1>2. balance' \in [Accounts -> Nat]
  BY <1>1, TransferTyped DEF acceptJob, TypeOK, Accounts
<1>3. jobs' \in [JobIds -> Job]
  <2> DEFINE job == [jobs[j] EXCEPT !.state = "Accepted", !.acceptedAt = now]
  <2>1. job \in Job
    BY JobMoves DEF TypeOK
  <2>2. jobs' = [jobs EXCEPT ![j] = job]
    BY DEF acceptJob
  <2> HIDE DEF job
  <2> QED BY <2>1, <2>2, JobTableTyped DEF TypeOK
<1> QED BY <1>2, <1>3 DEF acceptJob, TypeOK, guardVars

\* validate keeps the types: it pays a party, out of a covered pot.
LEMMA ValidateTyped ==
    ASSUME EscrowInv, NEW j \in JobIds, NEW sender \in Parties, NEW approved \in BOOLEAN,
           validate(sender, j, approved)
    PROVE  TypeOK'
<1> DEFINE recipient == IF approved THEN jobs[j].executor ELSE jobs[j].requester
           payout == jobs[j].amount + jobs[j].executorStakeAmount
<1>1. payout \in Nat
  BY DEF EscrowInv, TypeOK, Job
<1>2. recipient \in Parties
  BY PayableParties DEF validate
<1>3. balance' \in [Accounts -> Nat]
  <2>1. safeTransfer(Escrow, recipient, payout)
    BY DEF validate
  <2> HIDE DEF recipient, payout
  <2> QED BY <1>1, <1>2, <2>1, TransferTyped DEF EscrowInv, TypeOK, Accounts
<1>4. jobs' \in [JobIds -> Job]
  <2> DEFINE job == [jobs[j] EXCEPT !.state = IF approved THEN "Completed" ELSE "Rejected",
                                    !.resolvedAt = now]
  <2>1. job \in Job
    BY JobMoves DEF EscrowInv, TypeOK
  <2>2. jobs' = [jobs EXCEPT ![j] = job]
    BY DEF validate
  <2> HIDE DEF job
  <2> QED BY <2>1, <2>2, JobTableTyped DEF EscrowInv, TypeOK
<1> QED BY <1>3, <1>4 DEF EscrowInv, validate, TypeOK, guardVars

\* expireJob keeps the types: it pays the requester, out of a covered pot.
LEMMA ExpireTyped ==
    ASSUME EscrowInv, NEW j \in JobIds, expireJob(j)
    PROVE  TypeOK'
<1> DEFINE slashed == IF jobs[j].state = "Funded" THEN 0 ELSE jobs[j].executorStakeAmount
           payout == jobs[j].amount + slashed
<1>1. payout \in Nat
  BY DEF EscrowInv, TypeOK, Job
<1>2. jobs[j].requester \in Parties
  BY PayableParties DEF expireJob, ActiveStates
<1>3. balance' \in [Accounts -> Nat]
  <2>1. safeTransfer(Escrow, jobs[j].requester, payout)
    BY DEF expireJob
  <2> HIDE DEF payout
  <2> QED BY <1>1, <1>2, <2>1, TransferTyped DEF EscrowInv, TypeOK, Accounts
<1>4. jobs' \in [JobIds -> Job]
  <2> DEFINE job == [jobs[j] EXCEPT !.state = "Expired", !.resolvedAt = now]
  <2>1. job \in Job
    BY JobMoves DEF EscrowInv, TypeOK
  <2>2. jobs' = [jobs EXCEPT ![j] = job]
    BY DEF expireJob
  <2> HIDE DEF job
  <2> QED BY <2>1, <2>2, JobTableTyped DEF EscrowInv, TypeOK
<1> QED BY <1>3, <1>4 DEF EscrowInv, expireJob, TypeOK, guardVars

\* Claiming and submitting move no token.
LEMMA ClaimSubmitTyped ==
    ASSUME TypeOK, NEW j \in JobIds, NEW sender \in Parties,
           claimJob(sender, j) \/ submitResult(sender, j)
    PROVE  TypeOK'
<1>1. CASE claimJob(sender, j)
  BY <1>1 DEF TypeOK, claimJob, Job, guardVars
<1>2. CASE submitResult(sender, j)
  <2> DEFINE job == [jobs[j] EXCEPT !.state = "Submitted", !.submittedAt = now]
  <2>1. job \in Job
    BY JobMoves DEF TypeOK
  <2>2. jobs' = [jobs EXCEPT ![j] = job]
    BY <1>2 DEF submitResult
  <2>3. jobs' \in [JobIds -> Job]
    <3> HIDE DEF job
    <3> QED BY <2>1, <2>2, JobTableTyped DEF TypeOK
  <2> QED BY <1>2, <2>3 DEF submitResult, TypeOK, guardVars
<1> QED BY <1>1, <1>2

\* The steps that are not transactions on a job.
OtherStep ==
    \/ \E sender \in Parties : OwnerStep(sender)
    \/ \E j \in JobIds : publishJobLifecycleAnchor(j)
    \/ Tick
    \/ UNCHANGED vars

\* The steps that are not transactions on a job keep the types.
LEMMA OtherStepTyped ==
    ASSUME TypeOK, OtherStep
    PROVE  TypeOK'
BY EscrowAssumption DEF OtherStep, TypeOK, OwnerStep, transferOwnership, proposeTraceAnchorGuard,
   setTraceAnchorGuard, executeTraceAnchorGuardChange, cancelTraceAnchorGuardChange,
   publishJobLifecycleAnchor, Tick, vars, guardVars

\* Coherence of one record survives the passing of time.
LEMMA CoherentLater ==
    ASSUME NEW job \in Job, now \in Nat, now' \in Nat, now <= now', JobCoherent(job)
    PROVE  JobCoherent(job)'
BY DEF JobCoherent, Job

\* To keep the table coherent, a step on j need only leave j coherent.
LEMMA CoherentTable ==
    ASSUME EscrowInv, now' = now, NEW j \in JobIds, NEW job \in Job,
           jobs' = [jobs EXCEPT ![j] = job], JobCoherent(job)
    PROVE  JobsCoherent'
<1>1. \A k \in JobIds : jobs'[k] \in Job /\ JobCoherent(jobs'[k])
  BY DEF EscrowInv, TypeOK, JobsCoherent
<1>2. now \in Nat
  BY DEF EscrowInv, TypeOK
<1> QED BY <1>1, <1>2 DEF JobsCoherent, JobCoherent

\* lockFunds leaves a coherent record, dated before its deadline.
LEMMA LockCoherent ==
    ASSUME EscrowInv, NEW j \in JobIds,
           NEW sender \in Parties, NEW executor \in Parties \cup {NoParty},
           NEW validator \in Parties, NEW amount \in Amounts, NEW stake \in Stakes,
           NEW deadlineAt \in Deadlines,
           lockFunds(sender, j, executor, validator, amount, deadlineAt, stake)
    PROVE  JobsCoherent'
<1> DEFINE job ==
       [state |-> "Funded",
        requester |-> sender, executor |-> executor, validator |-> validator,
        amount |-> amount, executorStakeAmount |-> stake, deadlineAt |-> deadlineAt,
        fundedAt |-> now, acceptedAt |-> 0, submittedAt |-> 0, resolvedAt |-> 0]
<1>1. amount \in Nat \ {0} /\ stake \in Nat /\ deadlineAt \in Nat /\ now \in Nat \ {0}
  BY EscrowAssumption DEF EscrowInv, TypeOK, Deadlines
<1>2. job \in Job
  BY <1>1 DEF Job, ActiveStates
<1>3. JobCoherent(job)
  BY <1>1 DEF JobCoherent, ActiveStates, lockFunds
<1>4. jobs' = [jobs EXCEPT ![j] = job] /\ now' = now
  BY DEF lockFunds
<1> HIDE DEF job
<1> QED BY <1>2, <1>3, <1>4, CoherentTable

\* claimJob leaves a coherent record: nothing was staked yet.
LEMMA ClaimCoherent ==
    ASSUME EscrowInv, NEW j \in JobIds, NEW sender \in Parties, claimJob(sender, j)
    PROVE  JobsCoherent'
<1> DEFINE job == [jobs[j] EXCEPT !.executor = sender]
<1>1. jobs[j] \in Job /\ JobCoherent(jobs[j])
  BY DEF EscrowInv, TypeOK, JobsCoherent
<1>2. job \in Job
  BY <1>1 DEF Job
<1>3. JobCoherent(job)
  BY <1>1 DEF JobCoherent, Job, ActiveStates, claimJob
<1>4. jobs' = [jobs EXCEPT ![j] = job] /\ now' = now
  BY DEF claimJob
<1> HIDE DEF job
<1> QED BY <1>2, <1>3, <1>4, CoherentTable

\* acceptJob leaves a coherent record: a named executor, by the deadline.
LEMMA AcceptCoherent ==
    ASSUME EscrowInv, NEW j \in JobIds, NEW sender \in Parties, acceptJob(sender, j)
    PROVE  JobsCoherent'
<1> DEFINE job == [jobs[j] EXCEPT !.state = "Accepted", !.acceptedAt = now]
<1>1. jobs[j] \in Job /\ JobCoherent(jobs[j]) /\ now \in Nat \ {0}
  BY DEF EscrowInv, TypeOK, JobsCoherent
<1>2. job \in Job
  BY <1>1 DEF Job, ActiveStates
<1>3. JobCoherent(job)
  BY <1>1 DEF JobCoherent, Job, ActiveStates, acceptJob, deadlineReached
<1>4. jobs' = [jobs EXCEPT ![j] = job] /\ now' = now
  BY DEF acceptJob
<1> HIDE DEF job
<1> QED BY <1>2, <1>3, <1>4, CoherentTable

\* submitResult leaves a coherent record: after acceptance, by the deadline.
LEMMA SubmitCoherent ==
    ASSUME EscrowInv, NEW j \in JobIds, NEW sender \in Parties, submitResult(sender, j)
    PROVE  JobsCoherent'
<1> DEFINE job == [jobs[j] EXCEPT !.state = "Submitted", !.submittedAt = now]
<1>1. jobs[j] \in Job /\ JobCoherent(jobs[j]) /\ now \in Nat \ {0}
  BY DEF EscrowInv, TypeOK, JobsCoherent
<1>2. job \in Job
  BY <1>1 DEF Job, ActiveStates
<1>3. JobCoherent(job)
  BY <1>1 DEF JobCoherent, Job, ActiveStates, submitResult, deadlineReached
<1>4. jobs' = [jobs EXCEPT ![j] = job] /\ now' = now
  BY DEF submitResult
<1> HIDE DEF job
<1> QED BY <1>2, <1>3, <1>4, CoherentTable

\* validate leaves a coherent record: resolved after submission, by the deadline.
LEMMA ValidateCoherent ==
    ASSUME EscrowInv, NEW j \in JobIds, NEW sender \in Parties, NEW approved \in BOOLEAN,
           validate(sender, j, approved)
    PROVE  JobsCoherent'
<1> DEFINE job == [jobs[j] EXCEPT !.state = IF approved THEN "Completed" ELSE "Rejected",
                                  !.resolvedAt = now]
<1>1. jobs[j] \in Job /\ JobCoherent(jobs[j]) /\ now \in Nat \ {0}
  BY DEF EscrowInv, TypeOK, JobsCoherent
<1>2. job \in Job
  BY <1>1 DEF Job, FinalStates
<1>3. JobCoherent(job)
  BY <1>1 DEF JobCoherent, Job, ActiveStates, validate, deadlineReached
<1>4. jobs' = [jobs EXCEPT ![j] = job] /\ now' = now
  BY DEF validate
<1> HIDE DEF job
<1> QED BY <1>2, <1>3, <1>4, CoherentTable

\* expireJob leaves a coherent record: resolved after the deadline.
LEMMA ExpireCoherent ==
    ASSUME EscrowInv, NEW j \in JobIds, expireJob(j)
    PROVE  JobsCoherent'
<1> DEFINE job == [jobs[j] EXCEPT !.state = "Expired", !.resolvedAt = now]
<1>1. jobs[j] \in Job /\ JobCoherent(jobs[j]) /\ now \in Nat \ {0}
  BY DEF EscrowInv, TypeOK, JobsCoherent
<1>2. job \in Job
  BY <1>1 DEF Job, FinalStates
<1>3. JobCoherent(job)
  BY <1>1 DEF JobCoherent, Job, ActiveStates, expireJob, deadlineReached
<1>4. jobs' = [jobs EXCEPT ![j] = job] /\ now' = now
  BY DEF expireJob
<1> HIDE DEF job
<1> QED BY <1>2, <1>3, <1>4, CoherentTable

\* The other steps change no record, and time only grows.
LEMMA OtherStepCoherent ==
    ASSUME EscrowInv, OtherStep
    PROVE  JobsCoherent'
<1>1. /\ jobs' = jobs
      /\ now \in Nat /\ now' \in Nat /\ now <= now'
  BY DEF OtherStep, EscrowInv, TypeOK, OwnerStep, transferOwnership, proposeTraceAnchorGuard,
     setTraceAnchorGuard, executeTraceAnchorGuardChange, cancelTraceAnchorGuardChange,
     publishJobLifecycleAnchor, Tick, vars, guardVars
<1>2. \A k \in JobIds : jobs[k] \in Job /\ JobCoherent(jobs[k])
  BY DEF EscrowInv, TypeOK, JobsCoherent
<1> QED BY <1>1, <1>2, CoherentLater DEF JobsCoherent

\* A step is a transaction on one job or one of the other steps.
LEMMA NextSplit == [Next]_vars => (\E j \in JobIds : JobStep(j)) \/ OtherStep
BY DEF Next, OtherStep

\* A step of the contract keeps the types and the coherence of every job's record.
LEMMA EscrowStep ==
    ASSUME EscrowInv, [Next]_vars
    PROVE  EscrowInv'
<1> USE DEF EscrowInv
<1>1. ASSUME NEW j \in JobIds, JobStep(j) PROVE EscrowInv'
  BY <1>1, LockTyped, ClaimSubmitTyped, AcceptTyped, ValidateTyped, ExpireTyped,
     LockCoherent, ClaimCoherent, AcceptCoherent, SubmitCoherent, ValidateCoherent,
     ExpireCoherent DEF JobStep
<1>2. CASE OtherStep
  BY <1>2, OtherStepTyped, OtherStepCoherent
<1> QED BY <1>1, <1>2, NextSplit

\* The types and the coherence of every job's record are an inductive invariant.
THEOREM EscrowInvariant == Spec => []EscrowInv
<1>1. Init => EscrowInv
  BY EscrowAssumption, BlankTyped
  DEF Init, EscrowInv, TypeOK, Accounts, JobsCoherent, JobCoherent, NoJob, ActiveStates
<1>2. EscrowInv /\ [Next]_vars => EscrowInv'
  BY EscrowStep
<1> QED BY <1>1, <1>2, PTL DEF Spec

\* TypeOK in every reachable state: no balance goes below zero, no record is ill formed.
THEOREM EscrowTyped == Spec => []TypeOK
BY EscrowInvariant, PTL DEF EscrowInv

\* JobsCoherent in every reachable state: each job's time stamps, executor and
\* state tell one story, whatever transactions were sent.
THEOREM EscrowCoherent == Spec => []JobsCoherent
BY EscrowInvariant, PTL DEF EscrowInv

-----------------------------------------------------------------------------
\* Where tokens go

\* A transfer from a to b moves the amount between these two accounts only.
LEMMA TransferMoves ==
    ASSUME balance \in [Accounts -> Nat], NEW from \in Accounts, NEW to \in Accounts,
           from # to, NEW amount \in Nat, safeTransfer(from, to, amount)
    PROVE  /\ balance'[from] - balance[from] = -amount
           /\ balance'[to] - balance[to] = amount
           /\ \A a \in Accounts \ {from, to} : balance'[a] = balance[a]
BY DEF safeTransfer

\* The step on j changes only j's record, and every account by what it says.
Matches(j) ==
    /\ \A k \in JobIds \ {j} : jobs'[k] = jobs[k]
    /\ balance'[Escrow] - balance[Escrow] = Obligation(jobs'[j]) - Obligation(jobs[j])
    /\ \A p \in Parties :
         balance'[p] - balance[p] = Position(jobs'[j], p) - Position(jobs[j], p)

\* expireJob moves what the record says: the pot, to the requester.
LEMMA ExpireMatches ==
    ASSUME EscrowInv, NEW j \in JobIds, expireJob(j)
    PROVE  Matches(j)
<1> DEFINE old == jobs[j]
           new == [old EXCEPT !.state = "Expired", !.resolvedAt = now]
           slashed == IF old.state = "Funded" THEN 0 ELSE old.executorStakeAmount
           payout == old.amount + slashed
<1>1. old \in Job /\ JobCoherent(old)
  BY DEF EscrowInv, TypeOK, JobsCoherent
<1>2. old.state \in ActiveStates /\ old.requester \in Parties /\ payout \in Nat
  BY <1>1, PayableParties DEF expireJob, ActiveStates, Job
<1>3. jobs'[j] = new /\ \A k \in JobIds \ {j} : jobs'[k] = jobs[k]
  BY DEF expireJob, EscrowInv, TypeOK
<1>4. /\ balance'[Escrow] - balance[Escrow] = -payout
      /\ balance'[old.requester] - balance[old.requester] = payout
      /\ \A a \in Accounts \ {Escrow, old.requester} : balance'[a] = balance[a]
  <2>1. safeTransfer(Escrow, old.requester, payout)
    BY DEF expireJob
  <2> HIDE DEF payout
  <2> QED BY <1>2, <2>1, TransferMoves, EscrowAssumption DEF EscrowInv, TypeOK, Accounts
<1>5. Obligation(old) = payout /\ Obligation(new) = 0
  BY <1>1, <1>2 DEF Obligation, ActiveStates, Job
<1>6. StakePaid(old) = slashed /\ StakePaid(new) = slashed
  BY <1>1, <1>2 DEF StakePaid, ActiveStates, Job, JobCoherent
<1>7. ASSUME NEW p \in Parties
      PROVE  Position(new, p) - Position(old, p) = IF p = old.requester THEN payout ELSE 0
  BY <1>1, <1>2, <1>6
  DEF Position, RequesterPosition, ExecutorPosition, ActiveStates, Job
<1>8. ASSUME NEW p \in Parties
      PROVE  balance'[p] - balance[p] = IF p = old.requester THEN payout ELSE 0
  BY <1>4, EscrowAssumption DEF EscrowInv, TypeOK, Accounts
<1> HIDE DEF old, new, payout
<1> QED BY <1>2, <1>3, <1>4, <1>5, <1>7, <1>8 DEF Matches, old

\* validate moves what the record says: the whole pot, to the executor of an
\* approved job and to the requester of a rejected one.
LEMMA ValidateMatches ==
    ASSUME EscrowInv, NEW j \in JobIds, NEW sender \in Parties, NEW approved \in BOOLEAN,
           validate(sender, j, approved)
    PROVE  Matches(j)
<1> DEFINE old == jobs[j]
           new == [old EXCEPT !.state = IF approved THEN "Completed" ELSE "Rejected",
                              !.resolvedAt = now]
           recipient == IF approved THEN old.executor ELSE old.requester
           payout == old.amount + old.executorStakeAmount
<1>1. old \in Job /\ JobCoherent(old)
  BY DEF EscrowInv, TypeOK, JobsCoherent
<1>2. old.state = "Submitted" /\ recipient \in Parties /\ payout \in Nat
  BY <1>1, PayableParties DEF validate, Job
<1>3. jobs'[j] = new /\ \A k \in JobIds \ {j} : jobs'[k] = jobs[k]
  BY DEF validate, EscrowInv, TypeOK
<1>4. /\ balance'[Escrow] - balance[Escrow] = -payout
      /\ balance'[recipient] - balance[recipient] = payout
      /\ \A a \in Accounts \ {Escrow, recipient} : balance'[a] = balance[a]
  <2>1. safeTransfer(Escrow, recipient, payout)
    BY DEF validate
  <2> HIDE DEF payout, recipient
  <2> QED BY <1>2, <2>1, TransferMoves, EscrowAssumption DEF EscrowInv, TypeOK, Accounts
<1>5. Obligation(old) = payout /\ Obligation(new) = 0
  BY <1>1, <1>2 DEF Obligation, Job
<1>6. StakePaid(old) = old.executorStakeAmount /\ StakePaid(new) = old.executorStakeAmount
  BY <1>1, <1>2 DEF StakePaid, Job, JobCoherent
<1>7. ASSUME NEW p \in Parties
      PROVE  Position(new, p) - Position(old, p) = IF p = recipient THEN payout ELSE 0
  BY <1>1, <1>2, <1>6
  DEF Position, RequesterPosition, ExecutorPosition, ActiveStates, Job
<1>8. ASSUME NEW p \in Parties
      PROVE  balance'[p] - balance[p] = IF p = recipient THEN payout ELSE 0
  BY <1>4, EscrowAssumption DEF EscrowInv, TypeOK, Accounts
<1> HIDE DEF old, new, payout, recipient
<1> QED BY <1>2, <1>3, <1>4, <1>5, <1>7, <1>8 DEF Matches, old

\* acceptJob moves what the record says: the stake, from the executor.
LEMMA AcceptMatches ==
    ASSUME EscrowInv, NEW j \in JobIds, NEW sender \in Parties, acceptJob(sender, j)
    PROVE  Matches(j)
<1> DEFINE old == jobs[j]
           new == [old EXCEPT !.state = "Accepted", !.acceptedAt = now]
           stake == old.executorStakeAmount
<1>1. old \in Job /\ JobCoherent(old) /\ now \in Nat \ {0}
  BY DEF EscrowInv, TypeOK, JobsCoherent
<1>2. old.state = "Funded" /\ old.executor = sender /\ stake \in Nat
  BY <1>1 DEF acceptJob, Job
<1>3. jobs'[j] = new /\ \A k \in JobIds \ {j} : jobs'[k] = jobs[k]
  BY DEF acceptJob, EscrowInv, TypeOK
<1>4. /\ balance'[sender] - balance[sender] = -stake
      /\ balance'[Escrow] - balance[Escrow] = stake
      /\ \A a \in Accounts \ {Escrow, sender} : balance'[a] = balance[a]
  <2>1. safeTransfer(sender, Escrow, stake)
    BY DEF acceptJob
  <2> HIDE DEF stake
  <2> QED BY <1>2, <2>1, TransferMoves, EscrowAssumption DEF EscrowInv, TypeOK, Accounts
<1>5. Obligation(old) = old.amount /\ Obligation(new) = old.amount + stake
  BY <1>1, <1>2 DEF Obligation, Job
<1>6. StakePaid(old) = 0 /\ StakePaid(new) = stake
  BY <1>1, <1>2 DEF StakePaid, Job, JobCoherent
<1>7. ASSUME NEW p \in Parties
      PROVE  Position(new, p) - Position(old, p) = IF p = sender THEN -stake ELSE 0
  BY <1>1, <1>2, <1>6
  DEF Position, RequesterPosition, ExecutorPosition, ActiveStates, Job
<1>8. ASSUME NEW p \in Parties
      PROVE  balance'[p] - balance[p] = IF p = sender THEN -stake ELSE 0
  BY <1>4, EscrowAssumption DEF EscrowInv, TypeOK, Accounts
<1>9. old.amount \in Nat
  BY <1>1 DEF Job
<1> HIDE DEF old, new, stake
<1> QED BY <1>2, <1>3, <1>4, <1>5, <1>7, <1>8, <1>9 DEF Matches, old

\* lockFunds moves what the record says: the amount, from the requester.
LEMMA LockMatches ==
    ASSUME EscrowInv, NEW j \in JobIds,
           NEW sender \in Parties, NEW executor \in Parties \cup {NoParty},
           NEW validator \in Parties, NEW amount \in Amounts, NEW stake \in Stakes,
           NEW deadlineAt \in Deadlines,
           lockFunds(sender, j, executor, validator, amount, deadlineAt, stake)
    PROVE  Matches(j)
<1> DEFINE old == jobs[j]
           new == [state |-> "Funded",
                   requester |-> sender, executor |-> executor, validator |-> validator,
                   amount |-> amount, executorStakeAmount |-> stake,
                   deadlineAt |-> deadlineAt,
                   fundedAt |-> now, acceptedAt |-> 0, submittedAt |-> 0, resolvedAt |-> 0]
<1>1. old = NoJob
  BY DEF EscrowInv, JobsCoherent, JobCoherent, lockFunds
<1>2. amount \in Nat /\ stake \in Nat
  BY EscrowAssumption
<1>3. jobs'[j] = new /\ \A k \in JobIds \ {j} : jobs'[k] = jobs[k]
  BY DEF lockFunds, EscrowInv, TypeOK
<1>4. /\ balance'[sender] - balance[sender] = -amount
      /\ balance'[Escrow] - balance[Escrow] = amount
      /\ \A a \in Accounts \ {Escrow, sender} : balance'[a] = balance[a]
  BY <1>2, TransferMoves, EscrowAssumption DEF lockFunds, EscrowInv, TypeOK, Accounts
<1>5. Obligation(old) = 0 /\ Obligation(new) = amount
  BY <1>1 DEF Obligation, NoJob
<1>6. ASSUME NEW p \in Parties
      PROVE  Position(old, p) = 0 /\ Position(new, p) = IF p = sender THEN -amount ELSE 0
  BY <1>1, <1>2
  DEF Position, RequesterPosition, ExecutorPosition, StakePaid, ActiveStates, NoJob
<1>7. ASSUME NEW p \in Parties
      PROVE  balance'[p] - balance[p] = IF p = sender THEN -amount ELSE 0
  BY <1>4, EscrowAssumption DEF EscrowInv, TypeOK, Accounts
<1> HIDE DEF old, new
<1> QED BY <1>2, <1>3, <1>4, <1>5, <1>6, <1>7 DEF Matches, old

\* Claiming names an executor that has staked nothing yet; submitting pays nobody.
LEMMA ClaimMatches ==
    ASSUME EscrowInv, NEW j \in JobIds, NEW sender \in Parties, claimJob(sender, j)
    PROVE  Matches(j)
<1> DEFINE old == jobs[j]
           new == [old EXCEPT !.executor = sender]
<1>1. old \in Job /\ JobCoherent(old) /\ old.state = "Funded" /\ old.executor = NoParty
  BY DEF EscrowInv, TypeOK, JobsCoherent, claimJob
<1>2. jobs'[j] = new /\ balance' = balance /\ \A k \in JobIds \ {j} : jobs'[k] = jobs[k]
  BY DEF claimJob, EscrowInv, TypeOK
<1>3. /\ Obligation(new) = old.amount /\ Obligation(old) = old.amount
      /\ old.amount \in Nat
  BY <1>1 DEF Obligation, Job
<1>4. ASSUME NEW p \in Parties
      PROVE  Position(new, p) - Position(old, p) = 0
  BY <1>1, EscrowAssumption
  DEF Position, RequesterPosition, ExecutorPosition, StakePaid, JobCoherent, ActiveStates, Job
<1>5. \A a \in Accounts : balance'[a] - balance[a] = 0
  BY <1>2 DEF EscrowInv, TypeOK
<1> HIDE DEF old, new
<1> QED BY <1>2, <1>3, <1>4, <1>5 DEF Matches, old, Accounts

\* submitResult moves nothing, and its record says so.
LEMMA SubmitMatches ==
    ASSUME EscrowInv, NEW j \in JobIds, NEW sender \in Parties, submitResult(sender, j)
    PROVE  Matches(j)
<1> DEFINE old == jobs[j]
           new == [old EXCEPT !.state = "Submitted", !.submittedAt = now]
<1>1. old \in Job /\ JobCoherent(old) /\ old.state = "Accepted"
  BY DEF EscrowInv, TypeOK, JobsCoherent, submitResult
<1>2. jobs'[j] = new /\ balance' = balance /\ \A k \in JobIds \ {j} : jobs'[k] = jobs[k]
  BY DEF submitResult, EscrowInv, TypeOK
<1>3. /\ Obligation(new) = old.amount + old.executorStakeAmount
      /\ Obligation(old) = old.amount + old.executorStakeAmount
      /\ old.amount + old.executorStakeAmount \in Nat
  BY <1>1 DEF Obligation, Job
<1>4. ASSUME NEW p \in Parties
      PROVE  Position(new, p) - Position(old, p) = 0
  BY <1>1
  DEF Position, RequesterPosition, ExecutorPosition, StakePaid, JobCoherent, ActiveStates, Job
<1>5. \A a \in Accounts : balance'[a] - balance[a] = 0
  BY <1>2 DEF EscrowInv, TypeOK
<1> HIDE DEF old, new
<1> QED BY <1>2, <1>3, <1>4, <1>5 DEF Matches, old, Accounts

\* Every transaction on a job moves what that job's record says.
LEMMA JobStepMatches ==
    ASSUME EscrowInv, NEW j \in JobIds, JobStep(j)
    PROVE  Matches(j)
BY LockMatches, ClaimMatches, AcceptMatches, SubmitMatches, ValidateMatches, ExpireMatches
DEF JobStep

\* The other steps change no record and move no token.
LEMMA OtherStepKeeps == OtherStep => UNCHANGED <<jobs, balance>>
BY DEF OtherStep, OwnerStep, transferOwnership, proposeTraceAnchorGuard,
   setTraceAnchorGuard, executeTraceAnchorGuardChange, cancelTraceAnchorGuardChange,
   publishJobLifecycleAnchor, Tick, vars, guardVars

\* Tokens move for one job at a time, and each account by what its record says.
THEOREM EscrowTransfers == Spec => TransfersMatchRecords
<1> DEFINE ByTheRecords ==
      /\ jobs' = jobs => balance' = balance
      /\ \A j \in JobIds :
           jobs'[j] # jobs[j] =>
             /\ \A k \in JobIds \ {j} : jobs'[k] = jobs[k]
             /\ balance'[Escrow] - balance[Escrow] = Obligation(jobs'[j]) - Obligation(jobs[j])
             /\ \A p \in Parties :
                  balance'[p] - balance[p] = Position(jobs'[j], p) - Position(jobs[j], p)
<1>1. EscrowInv /\ EscrowInv' /\ [Next]_vars => [ByTheRecords]_vars
  <2> SUFFICES ASSUME EscrowInv, EscrowInv', [Next]_vars PROVE ByTheRecords
    OBVIOUS
  <2>1. ASSUME NEW j \in JobIds, jobs'[j] # jobs[j]
        PROVE  Matches(j)
    <3>1. PICK i \in JobIds : JobStep(i)
      BY <2>1, NextSplit, OtherStepKeeps
    <3>2. Matches(i)
      BY <3>1, JobStepMatches
    <3>3. i = j
      BY <2>1, <3>2 DEF Matches
    <3> QED BY <3>2, <3>3
  <2>2. ASSUME jobs' = jobs
        PROVE  balance' = balance
    <3>1. CASE OtherStep
      BY <3>1, OtherStepKeeps
    <3>2. ASSUME NEW i \in JobIds, JobStep(i) PROVE balance' = balance
      <4>1. Matches(i)
        BY <3>2, JobStepMatches
      <4>2. Obligation(jobs[i]) \in Int /\ \A p \in Parties : Position(jobs[i], p) \in Int
        <5>1. jobs[i] \in Job
          BY DEF EscrowInv, TypeOK
        <5> QED BY <5>1 DEF Obligation, Position, RequesterPosition, ExecutorPosition,
                         StakePaid, Job, ActiveStates
      <4>3. balance \in [Accounts -> Nat] /\ balance' \in [Accounts -> Nat]
        BY DEF EscrowInv, TypeOK
      <4>4. \A a \in Accounts : balance'[a] = balance[a]
        BY <2>2, <4>1, <4>2, <4>3 DEF Matches, Accounts
      <4> QED BY <4>3, <4>4
    <3> QED BY <3>1, <3>2, NextSplit
  <2> QED BY <2>1, <2>2 DEF Matches
<1> HIDE DEF ByTheRecords
<1>2. Spec => [][ByTheRecords]_vars
  BY <1>1, EscrowInvariant, PTL DEF Spec
<1> QED BY <1>2 DEF TransfersMatchRecords, ByTheRecords

\* A record's obligation and positions are integers, a blank record's are zero.
LEMMA LedgerTyped ==
    ASSUME NEW job \in Job
    PROVE  Obligation(job) \in Nat /\ \A p \in Parties : Position(job, p) \in Int
BY DEF Obligation, Position, RequesterPosition, ExecutorPosition, StakePaid, Job, ActiveStates

LEMMA BlankLedger ==
    /\ Obligation(NoJob) = 0
    /\ \A p \in Parties : Position(NoJob, p) = 0
<1>1. Obligation(NoJob) = 0
  BY DEF Obligation, NoJob
<1>2. ASSUME NEW p \in Parties
      PROVE  Position(NoJob, p) = 0
  BY DEF Position, RequesterPosition, ExecutorPosition, StakePaid, NoJob, ActiveStates
<1> QED BY <1>1, <1>2

\* Initially nothing is owed and nobody has a position.
LEMMA LedgerInit == Init => BalancesExplained
<1> SUFFICES ASSUME Init PROVE BalancesExplained
  OBVIOUS
<1>1. IsFiniteSet(JobIds)
  BY EscrowAssumption
<1>2. \A j \in JobIds : owedFor[j] = 0
  BY BlankLedger DEF Init, owedFor
<1>3. SumFunctionOnSet(owedFor, JobIds) = 0
  BY <1>1, <1>2, SumZero
<1>4. ASSUME NEW p \in Parties
      PROVE  SumFunctionOnSet(positionsOf(p), JobIds) = 0
  <2>1. \A j \in JobIds : positionsOf(p)[j] = 0
    BY BlankLedger DEF Init, positionsOf
  <2> QED BY <1>1, <2>1, SumZero
<1>5. balance[Escrow] = 0 /\ \A p \in Parties : balance[p] = InitialBalance
  BY EscrowAssumption DEF Init, Accounts
<1> QED BY <1>3, <1>4, <1>5, EscrowAssumption DEF BalancesExplained

\* A step that is matched by one record keeps the ledger explained: in each sum
\* one term changes, by what the account does.
LEMMA LedgerStep ==
    ASSUME EscrowInv, EscrowInv', BalancesExplained, NEW j \in JobIds, Matches(j)
    PROVE  BalancesExplained'
<1>1. IsFiniteSet(JobIds)
  BY EscrowAssumption
<1>2. \A k \in JobIds : jobs[k] \in Job /\ jobs'[k] \in Job
  BY DEF EscrowInv, TypeOK
<1>3. balance'[Escrow] = SumFunctionOnSet(owedFor', JobIds)
  <2> DEFINE f == owedFor
             g == owedFor'
  <2>1. \A k \in JobIds : f[k] = Obligation(jobs[k]) /\ g[k] = Obligation(jobs'[k])
    BY DEF owedFor
  <2>2. \A k \in JobIds : f[k] \in Int /\ g[k] \in Int
    BY <1>2, <2>1, LedgerTyped
  <2>3. \A k \in JobIds \ {j} : g[k] = f[k]
    BY <2>1 DEF Matches
  <2>4. balance[Escrow] = SumFunctionOnSet(f, JobIds)
    BY DEF BalancesExplained
  <2>5. balance'[Escrow] - balance[Escrow] = g[j] - f[j]
    BY <2>1 DEF Matches
  <2>6. balance[Escrow] \in Int /\ balance'[Escrow] \in Int
    BY DEF EscrowInv, TypeOK, Accounts
  <2> HIDE DEF f, g
  <2>7. SumFunctionOnSet(g, JobIds) - SumFunctionOnSet(f, JobIds) = g[j] - f[j]
    BY <1>1, <2>2, <2>3, SumChange
  <2>8. SumFunctionOnSet(g, JobIds) \in Int /\ SumFunctionOnSet(f, JobIds) \in Int
    BY <1>1, <2>2, SumInt
  <2>9. f[j] \in Int /\ g[j] \in Int
    BY <2>2
  <2>10. balance'[Escrow] = SumFunctionOnSet(g, JobIds)
    BY <2>4, <2>5, <2>6, <2>7, <2>8, <2>9
  <2> QED BY <2>10 DEF g
<1>4. ASSUME NEW p \in Parties
      PROVE  balance'[p] = InitialBalance + SumFunctionOnSet(positionsOf(p)', JobIds)
  <2> DEFINE f == positionsOf(p)
             g == positionsOf(p)'
  <2>1. \A k \in JobIds : f[k] = Position(jobs[k], p) /\ g[k] = Position(jobs'[k], p)
    BY DEF positionsOf
  <2>2. \A k \in JobIds : f[k] \in Int /\ g[k] \in Int
    BY <1>2, <2>1, LedgerTyped
  <2>3. \A k \in JobIds \ {j} : g[k] = f[k]
    BY <2>1 DEF Matches
  <2>4. balance[p] = InitialBalance + SumFunctionOnSet(f, JobIds)
    BY DEF BalancesExplained
  <2>5. balance'[p] - balance[p] = g[j] - f[j]
    BY <2>1 DEF Matches
  <2>6. balance[p] \in Int /\ balance'[p] \in Int /\ InitialBalance \in Int
    BY EscrowAssumption DEF EscrowInv, TypeOK, Accounts
  <2> HIDE DEF f, g
  <2>7. SumFunctionOnSet(g, JobIds) - SumFunctionOnSet(f, JobIds) = g[j] - f[j]
    BY <1>1, <2>2, <2>3, SumChange
  <2>8. SumFunctionOnSet(g, JobIds) \in Int /\ SumFunctionOnSet(f, JobIds) \in Int
    BY <1>1, <2>2, SumInt
  <2>9. balance'[p] = InitialBalance + SumFunctionOnSet(g, JobIds)
    BY <2>2, <2>4, <2>5, <2>6, <2>7, <2>8
  <2> QED BY <2>9 DEF g
<1> QED BY <1>3, <1>4 DEF BalancesExplained

\* The token ledger can be rebuilt from the job table, for any number of jobs
\* and parties: the contract holds what all jobs together still have to pay out.
THEOREM EscrowBalances == Spec => []BalancesExplained
<1>1. EscrowInv /\ EscrowInv' /\ BalancesExplained /\ [Next]_vars => BalancesExplained'
  <2> SUFFICES ASSUME EscrowInv, EscrowInv', BalancesExplained, [Next]_vars
               PROVE  BalancesExplained'
    OBVIOUS
  <2>1. ASSUME NEW j \in JobIds, JobStep(j) PROVE BalancesExplained'
    BY <2>1, JobStepMatches, LedgerStep
  <2>2. CASE OtherStep
    BY <2>2, OtherStepKeeps DEF BalancesExplained, owedFor, positionsOf
  <2> QED BY <2>1, <2>2, NextSplit
<1> QED BY <1>1, LedgerInit, EscrowInvariant, PTL DEF Spec

\* What the contract owes for any one job is in its account.
PayoutsCovered == \A j \in JobIds : balance[Escrow] >= Obligation(jobs[j])

\* Every active job's pot lies in the contract, however many other jobs were
\* locked, paid and expired before: neither validate nor expireJob can revert
\* because the contract ran out of tokens.
THEOREM EscrowCovered == Spec => []PayoutsCovered
<1>1. EscrowInv /\ BalancesExplained => PayoutsCovered
  <2> SUFFICES ASSUME EscrowInv, BalancesExplained, NEW j \in JobIds
               PROVE  balance[Escrow] >= Obligation(jobs[j])
    BY DEF PayoutsCovered
  <2> DEFINE f == owedFor
  <2>1. \A k \in JobIds : f[k] = Obligation(jobs[k]) /\ jobs[k] \in Job
    BY DEF owedFor, EscrowInv, TypeOK
  <2>2. \A k \in JobIds : f[k] \in Nat
    BY <2>1, LedgerTyped
  <2>3. IsFiniteSet(JobIds) /\ IsFiniteSet(JobIds \ {j})
    BY EscrowAssumption, FS_RemoveElement
  <2>4. balance[Escrow] = SumFunctionOnSet(f, JobIds)
    BY DEF BalancesExplained
  <2> HIDE DEF f
  <2>5. SumFunctionOnSet(f, JobIds) = f[j] + SumFunctionOnSet(f, JobIds \ {j})
    BY <2>2, <2>3, SumRemove
  <2>6. SumFunctionOnSet(f, JobIds \ {j}) \in Nat
    BY <2>2, <2>3, SumNat
  <2> QED BY <2>1, <2>2, <2>4, <2>5, <2>6
<1> QED BY <1>1, EscrowBalances, EscrowInvariant, PTL

\* The terms of a job never change, its executor is named once, its end is final.
THEOREM EscrowTerms == Spec => TermsFixed
<1> DEFINE Fixed ==
      \A j \in JobIds : jobs[j].state # "None" =>
        /\ \A f \in {"requester", "validator", "amount", "executorStakeAmount",
                      "deadlineAt", "fundedAt"} : jobs'[j][f] = jobs[j][f]
        /\ jobs[j].executor # NoParty => jobs'[j].executor = jobs[j].executor
        /\ jobs[j].state \in FinalStates => jobs'[j] = jobs[j]
<1>1. EscrowInv /\ [Next]_vars => [Fixed]_vars
  <2> SUFFICES ASSUME EscrowInv, [Next]_vars PROVE Fixed
    OBVIOUS
  <2>1. CASE OtherStep
    BY <2>1, OtherStepKeeps
  <2>2. ASSUME NEW i \in JobIds, JobStep(i) PROVE Fixed
    <3>1. jobs \in [JobIds -> Job] /\ jobs[i] \in Job
      BY DEF EscrowInv, TypeOK
    <3>2. \A k \in JobIds \ {i} : jobs'[k] = jobs[k]
      BY <2>2, JobStepMatches DEF Matches
    <3>3. jobs[i].state = "None" \/ jobs[i].state \in ActiveStates
      BY <2>2 DEF JobStep, lockFunds, claimJob, acceptJob, submitResult, validate,
                  expireJob, ActiveStates
    <3>4. ASSUME jobs[i].state \in ActiveStates
          PROVE  /\ jobs'[i].requester = jobs[i].requester
                 /\ jobs'[i].validator = jobs[i].validator
                 /\ jobs'[i].amount = jobs[i].amount
                 /\ jobs'[i].executorStakeAmount = jobs[i].executorStakeAmount
                 /\ jobs'[i].deadlineAt = jobs[i].deadlineAt
                 /\ jobs'[i].fundedAt = jobs[i].fundedAt
                 /\ jobs[i].executor # NoParty => jobs'[i].executor = jobs[i].executor
      <4>1. ASSUME NEW sender \in Parties, claimJob(sender, i)
            PROVE  jobs'[i] = [jobs[i] EXCEPT !.executor = sender] /\ jobs[i].executor = NoParty
        BY <3>1, <4>1 DEF claimJob
      <4>2. ASSUME NEW sender \in Parties, acceptJob(sender, i)
            PROVE  jobs'[i] = [jobs[i] EXCEPT !.state = "Accepted", !.acceptedAt = now]
        BY <3>1, <4>2 DEF acceptJob
      <4>3. ASSUME NEW sender \in Parties, submitResult(sender, i)
            PROVE  jobs'[i] = [jobs[i] EXCEPT !.state = "Submitted", !.submittedAt = now]
        BY <3>1, <4>3 DEF submitResult
      <4>4. ASSUME NEW sender \in Parties, NEW approved \in BOOLEAN,
                   validate(sender, i, approved)
            PROVE  \E state \in FinalStates :
                     jobs'[i] = [jobs[i] EXCEPT !.state = state, !.resolvedAt = now]
        BY <3>1, <4>4 DEF validate, FinalStates
      <4>5. ASSUME expireJob(i)
            PROVE  jobs'[i] = [jobs[i] EXCEPT !.state = "Expired", !.resolvedAt = now]
        BY <3>1, <4>5 DEF expireJob
      <4>6. CASE \E sender \in Parties : claimJob(sender, i)
        BY <3>1, <4>1, <4>6 DEF Job
      <4>7. CASE \E sender \in Parties : acceptJob(sender, i)
        BY <3>1, <4>2, <4>7 DEF Job
      <4>8. CASE \E sender \in Parties : submitResult(sender, i)
        BY <3>1, <4>3, <4>8 DEF Job
      <4>9. CASE \E sender \in Parties, approved \in BOOLEAN : validate(sender, i, approved)
        BY <3>1, <4>4, <4>9 DEF Job
      <4>10. CASE expireJob(i)
        BY <3>1, <4>5, <4>10 DEF Job
      <4> QED BY <2>2, <3>4, <4>6, <4>7, <4>8, <4>9, <4>10 DEF JobStep, lockFunds, ActiveStates
    <3> QED BY <3>2, <3>3, <3>4 DEF ActiveStates, FinalStates
  <2> QED BY <2>1, <2>2, NextSplit
<1> HIDE DEF Fixed
<1>2. Spec => [][Fixed]_vars
  BY <1>1, EscrowInvariant, PTL DEF Spec
<1> QED BY <1>2 DEF TermsFixed, Fixed

-----------------------------------------------------------------------------
\* Notice of a new guard

\* The history variable constrains nothing: there is an announced' for every step
\* of the contract, because a step that moves the time of a pending change
\* proposes one or ends one.
LEMMA EveryStepRecorded ==
    ASSUME Next
    PROVE  proposesGuard \/ endsProposal \/ guardChangeReadyAt' = guardChangeReadyAt
<1>1. ASSUME NEW j \in JobIds, JobStep(j) \/ publishJobLifecycleAnchor(j)
      PROVE  guardChangeReadyAt' = guardChangeReadyAt
  BY <1>1 DEF JobStep, lockFunds, claimJob, acceptJob, submitResult, validate, expireJob,
     publishJobLifecycleAnchor, guardVars
<1>2. ASSUME NEW sender \in Parties, OwnerStep(sender)
      PROVE  proposesGuard \/ endsProposal \/ guardChangeReadyAt' = guardChangeReadyAt
  BY <1>2 DEF OwnerStep, proposesGuard, endsProposal, transferOwnership, setTraceAnchorGuard
<1>3. Tick => guardChangeReadyAt' = guardChangeReadyAt
  BY DEF Tick, guardVars
<1> QED BY <1>1, <1>2, <1>3 DEF Next

\* A change that can be executed is the announcement that still stands, and may
\* be executed when its delay is over.
NoticeStands ==
    /\ announced \in [guard : Guards \cup {NoGuard}, at : Nat]
    /\ guardChangeReadyAt > 0 =>
        /\ announced.at > 0
        /\ announced.guard = pendingTraceAnchorGuard
        /\ guardChangeReadyAt = announced.at + GuardDelay

\* What each way to record a step does to the contract's own fields.
LEMMA NoticeStep ==
    ASSUME TypeOK, NoticeStands, [HNext]_historyVars
    PROVE  NoticeStands'
<1>1. /\ pendingTraceAnchorGuard \in Guards \cup {NoGuard}
      /\ now \in Nat \ {0} /\ guardChangeReadyAt \in Nat /\ GuardDelay \in Nat \ {0}
  BY EscrowAssumption DEF TypeOK
<1>2. CASE /\ proposesGuard
           /\ announced' = [guard |-> pendingTraceAnchorGuard', at |-> now]
  BY <1>1, <1>2 DEF proposesGuard, proposeTraceAnchorGuard, NoticeStands
<1>3. CASE endsProposal /\ announced' = Nothing
  <2>1. guardChangeReadyAt' = 0
    BY <1>3 DEF endsProposal, executeTraceAnchorGuardChange, cancelTraceAnchorGuardChange
  <2> QED BY <1>3, <2>1 DEF NoticeStands, Nothing
<1>4. CASE UNCHANGED <<announced, guardChangeReadyAt, pendingTraceAnchorGuard>>
  BY <1>4 DEF NoticeStands
<1>5. CASE /\ Next /\ ~proposesGuard
           /\ UNCHANGED <<announced, guardChangeReadyAt>>
  <2>1. UNCHANGED pendingTraceAnchorGuard
    <3>1. ASSUME NEW sender \in Parties, OwnerStep(sender)
          PROVE  UNCHANGED pendingTraceAnchorGuard
      BY <1>1, <1>5, <3>1 DEF OwnerStep, proposesGuard, transferOwnership, setTraceAnchorGuard,
         executeTraceAnchorGuardChange, cancelTraceAnchorGuardChange
    <3>2. ASSUME NEW j \in JobIds, JobStep(j) \/ publishJobLifecycleAnchor(j)
          PROVE  UNCHANGED pendingTraceAnchorGuard
      BY <3>2 DEF JobStep, lockFunds, claimJob, acceptJob, submitResult, validate, expireJob,
         publishJobLifecycleAnchor, guardVars
    <3>3. CASE Tick
      BY <3>3 DEF Tick, guardVars
    <3> QED BY <1>5, <3>1, <3>2, <3>3 DEF Next
  <2> QED BY <1>4, <1>5, <2>1
<1> QED BY <1>2, <1>3, <1>4, <1>5 DEF HNext, historyVars, vars, guardVars

\* Only setTraceAnchorGuard and executeTraceAnchorGuardChange change the guard,
\* the former only where there is none.
LEMMA GuardReplaced ==
    ASSUME TypeOK, [Next]_vars, traceAnchorGuard # NoGuard, traceAnchorGuard' # traceAnchorGuard
    PROVE  \E sender \in Parties : executeTraceAnchorGuardChange(sender)
<1>1. ASSUME NEW j \in JobIds, JobStep(j) \/ publishJobLifecycleAnchor(j)
      PROVE  FALSE
  BY <1>1 DEF JobStep, lockFunds, claimJob, acceptJob, submitResult, validate, expireJob,
     publishJobLifecycleAnchor, guardVars
<1>2. ASSUME NEW sender \in Parties, OwnerStep(sender)
      PROVE  executeTraceAnchorGuardChange(sender)
  BY <1>2 DEF OwnerStep, transferOwnership, proposeTraceAnchorGuard, setTraceAnchorGuard,
     cancelTraceAnchorGuardChange
<1>3. CASE Tick \/ UNCHANGED vars
  BY <1>3 DEF Tick, vars, guardVars
<1> QED BY <1>1, <1>2, <1>3 DEF Next

\* A guard in force is only replaced by one that was announced, not withdrawn
\* since, and announced GUARD_CHANGE_DELAY before: whatever the owner, or
\* several owners in turn, propose, cancel, execute or set directly.
THEOREM EscrowGuardNotice == HSpec => GuardNotice
<1> DEFINE Noticed ==
      traceAnchorGuard # NoGuard /\ traceAnchorGuard' # traceAnchorGuard =>
        /\ announced.at > 0
        /\ announced.guard = traceAnchorGuard'
        /\ now - announced.at >= GuardDelay
<1>1. HInit => Init /\ NoticeStands
  BY DEF HInit, Init, Nothing, NoticeStands
<1>2. [HNext]_historyVars => [Next]_vars
  BY DEF HNext, historyVars
<1>3. EscrowInv => TypeOK
  BY DEF EscrowInv
<1>4. TypeOK /\ NoticeStands /\ [HNext]_historyVars => NoticeStands'
  BY NoticeStep
<1>5. TypeOK /\ NoticeStands /\ [Next]_vars => Noticed
  <2> SUFFICES ASSUME TypeOK, NoticeStands, [Next]_vars,
                      traceAnchorGuard # NoGuard, traceAnchorGuard' # traceAnchorGuard
               PROVE  /\ announced.at > 0
                      /\ announced.guard = traceAnchorGuard'
                      /\ now - announced.at >= GuardDelay
    OBVIOUS
  <2>1. PICK sender \in Parties : executeTraceAnchorGuardChange(sender)
    BY GuardReplaced
  <2>2. /\ guardChangeReadyAt > 0 /\ now >= guardChangeReadyAt
        /\ traceAnchorGuard' = pendingTraceAnchorGuard
    BY <2>1 DEF executeTraceAnchorGuardChange
  <2>3. announced.at \in Nat /\ now \in Nat /\ GuardDelay \in Nat
    BY EscrowAssumption DEF NoticeStands, TypeOK
  <2> QED BY <2>2, <2>3 DEF NoticeStands
<1> HIDE DEF Noticed
<1>6. HSpec => []EscrowInv
  BY <1>1, <1>2, EscrowInvariant, PTL DEF HSpec, Spec
<1>7. HSpec => []NoticeStands
  BY <1>1, <1>3, <1>4, <1>6, PTL DEF HSpec
<1>8. HSpec => [][Noticed]_historyVars
  BY <1>2, <1>3, <1>5, <1>6, <1>7, PTL DEF HSpec
<1> QED BY <1>8 DEF GuardNotice, Noticed

-----------------------------------------------------------------------------
\* The contract implements the abstract escrow

\* Initially the abstract escrow holds nothing.
LEMMA RefineInit == Init => Promise!Init
<1> SUFFICES ASSUME Init PROVE Promise!Init
  OBVIOUS
<1>1. \A j \in JobIds : jobs[j] = NoJob
  BY DEF Init
<1>2. Phase(NoJob) = "absent" /\ Obligation(NoJob) = 0
      /\ NoJob.requester = NoParty /\ NoJob.executor = NoParty
  BY DEF Phase, Obligation, NoJob, ActiveStates
<1>3. phaseOf = [j \in JobIds |-> "absent"] /\ potOf = [j \in JobIds |-> 0]
  BY <1>1, <1>2 DEF phaseOf, potOf
<1>4. payerOf = [j \in JobIds |-> NoParty] /\ payeeOf = [j \in JobIds |-> NoParty]
  BY <1>1, <1>2 DEF payerOf, payeeOf
<1>5. walletOf \in [Parties -> Nat]
  BY EscrowAssumption DEF Init, walletOf, Accounts
<1> QED BY <1>3, <1>4, <1>5 DEF Promise!Init

\* What a step on j looks like through the refinement mapping.
LEMMA MappedStep ==
    ASSUME EscrowInv, NEW j \in JobIds, NEW job \in Job,
           jobs' = [jobs EXCEPT ![j] = job]
    PROVE  /\ phaseOf' = [phaseOf EXCEPT ![j] = Phase(job)]
           /\ payerOf' = [payerOf EXCEPT ![j] = job.requester]
           /\ payeeOf' = [payeeOf EXCEPT ![j] = job.executor]
           /\ potOf' = [potOf EXCEPT ![j] = Obligation(job)]
           /\ phaseOf[j] = Phase(jobs[j])
           /\ payerOf[j] = jobs[j].requester
           /\ payeeOf[j] = jobs[j].executor
           /\ potOf[j] = Obligation(jobs[j])
<1> jobs \in [JobIds -> Job]
  BY DEF EscrowInv, TypeOK
<1>1. \A k \in JobIds : jobs'[k] = IF k = j THEN job ELSE jobs[k]
  OBVIOUS
<1>2. phaseOf' = [phaseOf EXCEPT ![j] = Phase(job)]
  BY <1>1 DEF phaseOf
<1>3. payerOf' = [payerOf EXCEPT ![j] = job.requester]
  BY <1>1 DEF payerOf
<1>4. payeeOf' = [payeeOf EXCEPT ![j] = job.executor]
  BY <1>1 DEF payeeOf
<1>5. potOf' = [potOf EXCEPT ![j] = Obligation(job)]
  BY <1>1 DEF potOf
<1> QED BY <1>2, <1>3, <1>4, <1>5 DEF phaseOf, payerOf, payeeOf, potOf

\* What a step on j that keeps a field looks like: the mapped field stays.
LEMMA MappedSame ==
    ASSUME NEW j \in JobIds
    PROVE  /\ [phaseOf EXCEPT ![j] = phaseOf[j]] = phaseOf
           /\ [payerOf EXCEPT ![j] = payerOf[j]] = payerOf
           /\ [payeeOf EXCEPT ![j] = payeeOf[j]] = payeeOf
           /\ [potOf EXCEPT ![j] = potOf[j]] = potOf
BY DEF phaseOf, payerOf, payeeOf, potOf

\* What a transfer between p and the contract looks like in p's wallet.
LEMMA MappedTransfer ==
    ASSUME EscrowInv, NEW p \in Parties, NEW amount \in Nat
    PROVE  /\ walletOf[p] \in Nat
           /\ safeTransfer(p, Escrow, amount) =>
                /\ amount <= walletOf[p]
                /\ walletOf' = [walletOf EXCEPT ![p] = walletOf[p] - amount]
           /\ safeTransfer(Escrow, p, amount) =>
                walletOf' = [walletOf EXCEPT ![p] = walletOf[p] + amount]
BY EscrowAssumption DEF EscrowInv, TypeOK, Accounts, safeTransfer, walletOf

\* lockFunds opens a pot.
LEMMA LockRefines ==
    ASSUME EscrowInv, NEW j \in JobIds,
           NEW sender \in Parties, NEW executor \in Parties \cup {NoParty},
           NEW validator \in Parties, NEW amount \in Amounts, NEW stake \in Stakes,
           NEW deadlineAt \in Deadlines,
           lockFunds(sender, j, executor, validator, amount, deadlineAt, stake), TypeOK'
    PROVE  Promise!Open(j, sender, executor)
<1> DEFINE job ==
       [state |-> "Funded",
        requester |-> sender, executor |-> executor, validator |-> validator,
        amount |-> amount, executorStakeAmount |-> stake, deadlineAt |-> deadlineAt,
        fundedAt |-> now, acceptedAt |-> 0, submittedAt |-> 0, resolvedAt |-> 0]
<1>1. jobs' = [jobs EXCEPT ![j] = job]
  BY DEF lockFunds
<1>2. job \in Job
  BY <1>1 DEF EscrowInv, TypeOK
<1>3. /\ Phase(jobs[j]) = "absent" /\ Phase(job) = "held"
      /\ job.requester = sender /\ job.executor = executor /\ Obligation(job) = amount
  BY DEF lockFunds, Phase, Obligation, ActiveStates
<1>4. amount \in Nat /\ amount > 0
  BY EscrowAssumption
<1>5. /\ amount \in 1..walletOf[sender]
      /\ walletOf' = [walletOf EXCEPT ![sender] = walletOf[sender] - amount]
  BY <1>4, MappedTransfer DEF lockFunds
<1> HIDE DEF job
<1>6. /\ phaseOf' = [phaseOf EXCEPT ![j] = Phase(job)]
      /\ payerOf' = [payerOf EXCEPT ![j] = job.requester]
      /\ payeeOf' = [payeeOf EXCEPT ![j] = job.executor]
      /\ potOf' = [potOf EXCEPT ![j] = Obligation(job)]
      /\ phaseOf[j] = Phase(jobs[j])
  BY <1>1, <1>2, MappedStep
<1> QED BY <1>3, <1>5, <1>6 DEF Promise!Open

\* claimJob names the payee of a pot.
LEMMA ClaimRefines ==
    ASSUME EscrowInv, NEW j \in JobIds, NEW sender \in Parties, claimJob(sender, j)
    PROVE  Promise!Name(j, sender)
<1> DEFINE old == jobs[j]
           job == [old EXCEPT !.executor = sender]
<1>1. jobs' = [jobs EXCEPT ![j] = job] /\ balance' = balance
  BY DEF claimJob
<1>2. job \in Job /\ old \in Job
  BY DEF EscrowInv, TypeOK, Job
<1>3. /\ Phase(old) = "held" /\ Phase(job) = "held" /\ old.executor = NoParty
      /\ job.requester = old.requester /\ job.executor = sender
      /\ Obligation(job) = Obligation(old)
  BY <1>2 DEF claimJob, Phase, Obligation, ActiveStates, Job
<1>4. walletOf' = walletOf
  BY <1>1 DEF walletOf
<1> HIDE DEF job
<1>5. /\ phaseOf' = [phaseOf EXCEPT ![j] = Phase(job)]
      /\ payerOf' = [payerOf EXCEPT ![j] = job.requester]
      /\ payeeOf' = [payeeOf EXCEPT ![j] = job.executor]
      /\ potOf' = [potOf EXCEPT ![j] = Obligation(job)]
      /\ phaseOf[j] = Phase(old) /\ payerOf[j] = old.requester
      /\ payeeOf[j] = old.executor /\ potOf[j] = Obligation(old)
  BY <1>1, <1>2, MappedStep
<1> QED BY <1>3, <1>4, <1>5, MappedSame DEF Promise!Name

\* acceptJob adds the payee's stake to the pot.
LEMMA AcceptRefines ==
    ASSUME EscrowInv, NEW j \in JobIds, NEW sender \in Parties, acceptJob(sender, j)
    PROVE  Promise!Stake(j, sender)
<1> DEFINE old == jobs[j]
           job == [old EXCEPT !.state = "Accepted", !.acceptedAt = now]
           stake == old.executorStakeAmount
<1>1. jobs' = [jobs EXCEPT ![j] = job]
  BY DEF acceptJob
<1>2. job \in Job /\ old \in Job /\ stake \in Nat /\ balance[sender] \in Nat
  <2>1. old \in Job
    BY DEF EscrowInv, TypeOK
  <2>2. job \in Job
    BY <2>1, JobMoves DEF EscrowInv, TypeOK
  <2>3. stake \in Nat
    BY <2>1 DEF Job
  <2>4. balance[sender] \in Nat
    BY DEF EscrowInv, TypeOK, Accounts
  <2> QED BY <2>1, <2>2, <2>3, <2>4
<1>3. /\ Phase(old) = "held" /\ Phase(job) = "held" /\ old.executor = sender
      /\ job.requester = old.requester /\ job.executor = old.executor
      /\ Obligation(job) = Obligation(old) + stake
  BY <1>2 DEF acceptJob, Phase, Obligation, ActiveStates, Job
<1>4. /\ stake \in 0..walletOf[sender]
      /\ walletOf' = [walletOf EXCEPT ![sender] = walletOf[sender] - stake]
  BY <1>2, MappedTransfer DEF acceptJob
<1> HIDE DEF job, stake
<1>5. /\ phaseOf' = [phaseOf EXCEPT ![j] = Phase(job)]
      /\ payerOf' = [payerOf EXCEPT ![j] = job.requester]
      /\ payeeOf' = [payeeOf EXCEPT ![j] = job.executor]
      /\ potOf' = [potOf EXCEPT ![j] = Obligation(job)]
      /\ phaseOf[j] = Phase(old) /\ payerOf[j] = old.requester
      /\ payeeOf[j] = old.executor /\ potOf[j] = Obligation(old)
  BY <1>1, <1>2, MappedStep
<1> QED BY <1>3, <1>4, <1>5, MappedSame DEF Promise!Stake

\* Handing in a result changes nothing the abstract escrow speaks of.
LEMMA SubmitRefines ==
    ASSUME EscrowInv, NEW j \in JobIds, NEW sender \in Parties, submitResult(sender, j)
    PROVE  UNCHANGED Promise!vars
<1> DEFINE old == jobs[j]
           job == [old EXCEPT !.state = "Submitted", !.submittedAt = now]
<1>1. jobs' = [jobs EXCEPT ![j] = job] /\ balance' = balance
  BY DEF submitResult
<1>2. job \in Job /\ old \in Job
  BY DEF EscrowInv, TypeOK, Job, ActiveStates
<1>3. /\ Phase(job) = Phase(old)
      /\ job.requester = old.requester /\ job.executor = old.executor
      /\ Obligation(job) = Obligation(old)
  BY <1>2 DEF submitResult, Phase, Obligation, ActiveStates, Job
<1>4. walletOf' = walletOf
  BY <1>1 DEF walletOf
<1> HIDE DEF job
<1>5. /\ phaseOf' = [phaseOf EXCEPT ![j] = Phase(job)]
      /\ payerOf' = [payerOf EXCEPT ![j] = job.requester]
      /\ payeeOf' = [payeeOf EXCEPT ![j] = job.executor]
      /\ potOf' = [potOf EXCEPT ![j] = Obligation(job)]
      /\ phaseOf[j] = Phase(old) /\ payerOf[j] = old.requester
      /\ payeeOf[j] = old.executor /\ potOf[j] = Obligation(old)
  BY <1>1, <1>2, MappedStep
<1> QED BY <1>3, <1>4, <1>5, MappedSame DEF Promise!vars

\* validate settles a pot, for its payee or its payer.
LEMMA ValidateRefines ==
    ASSUME EscrowInv, NEW j \in JobIds, NEW sender \in Parties, NEW approved \in BOOLEAN,
           validate(sender, j, approved)
    PROVE  LET recipient == IF approved THEN jobs[j].executor ELSE jobs[j].requester
           IN  recipient \in Parties /\ Promise!Settle(j, recipient)
<1> DEFINE old == jobs[j]
           job == [old EXCEPT !.state = IF approved THEN "Completed" ELSE "Rejected",
                              !.resolvedAt = now]
           recipient == IF approved THEN old.executor ELSE old.requester
           payout == old.amount + old.executorStakeAmount
<1>1. jobs' = [jobs EXCEPT ![j] = job]
  BY DEF validate
<1>2. job \in Job /\ old \in Job /\ payout \in Nat /\ recipient \in Parties
  <2>1. old \in Job
    BY DEF EscrowInv, TypeOK
  <2>2. recipient \in Parties
    BY PayableParties DEF validate
  <2>3. job \in Job
    BY <2>1, JobMoves DEF EscrowInv, TypeOK
  <2>4. payout \in Nat
    BY <2>1 DEF Job
  <2> QED BY <2>1, <2>2, <2>3, <2>4
<1>3. /\ Phase(old) = "held" /\ Phase(job) = "paid"
      /\ job.requester = old.requester /\ job.executor = old.executor
      /\ Obligation(job) = 0 /\ Obligation(old) = payout
      /\ recipient \in {old.requester, old.executor}
  BY <1>2 DEF validate, Phase, Obligation, ActiveStates, FinalStates, Job
<1>4. walletOf' = [walletOf EXCEPT ![recipient] = walletOf[recipient] + payout]
  <2>1. safeTransfer(Escrow, recipient, payout)
    BY DEF validate
  <2> HIDE DEF recipient, payout
  <2> QED BY <1>2, <2>1, MappedTransfer
<1> HIDE DEF job, recipient, payout
<1>5. /\ phaseOf' = [phaseOf EXCEPT ![j] = Phase(job)]
      /\ payerOf' = [payerOf EXCEPT ![j] = job.requester]
      /\ payeeOf' = [payeeOf EXCEPT ![j] = job.executor]
      /\ potOf' = [potOf EXCEPT ![j] = Obligation(job)]
      /\ phaseOf[j] = Phase(old) /\ payerOf[j] = old.requester
      /\ payeeOf[j] = old.executor /\ potOf[j] = Obligation(old)
  BY <1>1, <1>2, MappedStep
<1>6. recipient \in Parties /\ Promise!Settle(j, recipient)
  BY <1>2, <1>3, <1>4, <1>5, MappedSame DEF Promise!Settle
<1> QED BY <1>6 DEF recipient

\* expireJob settles a pot for its payer.
LEMMA ExpireRefines ==
    ASSUME EscrowInv, NEW j \in JobIds, expireJob(j)
    PROVE  jobs[j].requester \in Parties /\ Promise!Settle(j, jobs[j].requester)
<1> DEFINE old == jobs[j]
           job == [old EXCEPT !.state = "Expired", !.resolvedAt = now]
           slashed == IF old.state = "Funded" THEN 0 ELSE old.executorStakeAmount
           payout == old.amount + slashed
<1>1. jobs' = [jobs EXCEPT ![j] = job]
  BY DEF expireJob
<1>2. job \in Job /\ old \in Job /\ payout \in Nat /\ old.requester \in Parties
  <2>1. old \in Job
    BY DEF EscrowInv, TypeOK
  <2>2. old.requester \in Parties
    BY PayableParties DEF expireJob, ActiveStates
  <2>3. job \in Job
    BY <2>1, JobMoves DEF EscrowInv, TypeOK
  <2>4. payout \in Nat
    BY <2>1 DEF Job
  <2> QED BY <2>1, <2>2, <2>3, <2>4
<1>3. /\ Phase(old) = "held" /\ Phase(job) = "paid"
      /\ job.requester = old.requester /\ job.executor = old.executor
      /\ Obligation(job) = 0 /\ Obligation(old) = payout
  BY <1>2 DEF expireJob, Phase, Obligation, ActiveStates, FinalStates, Job
<1>4. walletOf' = [walletOf EXCEPT ![old.requester] = walletOf[old.requester] + payout]
  <2>1. safeTransfer(Escrow, old.requester, payout)
    BY DEF expireJob
  <2> HIDE DEF payout
  <2> QED BY <1>2, <2>1, MappedTransfer
<1> HIDE DEF job, payout
<1>5. /\ phaseOf' = [phaseOf EXCEPT ![j] = Phase(job)]
      /\ payerOf' = [payerOf EXCEPT ![j] = job.requester]
      /\ payeeOf' = [payeeOf EXCEPT ![j] = job.executor]
      /\ potOf' = [potOf EXCEPT ![j] = Obligation(job)]
      /\ phaseOf[j] = Phase(old) /\ payerOf[j] = old.requester
      /\ payeeOf[j] = old.executor /\ potOf[j] = Obligation(old)
  BY <1>1, <1>2, MappedStep
<1> QED BY <1>2, <1>3, <1>4, <1>5, MappedSame DEF Promise!Settle

\* The contract implements the abstract escrow: every pot it takes is paid out
\* whole, once, to the job's requester or its executor.
THEOREM EscrowKeepsPromise == Spec => KeepsPromise
<1>1. EscrowInv /\ TypeOK' /\ [Next]_vars => [Promise!Next]_(Promise!vars)
  <2> SUFFICES ASSUME EscrowInv, TypeOK', [Next]_vars
               PROVE  Promise!Next \/ UNCHANGED Promise!vars
    OBVIOUS
  <2>1. ASSUME NEW j \in JobIds, JobStep(j)
        PROVE  Promise!Next \/ UNCHANGED Promise!vars
    BY <2>1, LockRefines, ClaimRefines, AcceptRefines, SubmitRefines, ValidateRefines,
       ExpireRefines DEF JobStep, Promise!Next
  <2>2. CASE OtherStep
    BY <2>2, OtherStepKeeps DEF Promise!vars, phaseOf, payerOf, payeeOf, potOf, walletOf
  <2> QED BY <2>1, <2>2, NextSplit
<1>2. EscrowInv => TypeOK
  BY DEF EscrowInv
<1> QED BY <1>1, <1>2, RefineInit, EscrowInvariant, PTL DEF Spec, KeepsPromise, Promise!Spec
=============================================================================
