----------------------------- MODULE JobEscrow -----------------------------
(***************************************************************************)
(* The settlement contract of the job lane, contracts/JobEscrowV4.sol,     *)
(* with the trace-anchor guard it consults (contracts/TraceAnchorGuard.sol *)
(* over contracts/JobLifecycleAnchorV2.sol) and the ERC-20 token it moves. *)
(*                                                                         *)
(* A transaction is one step: a require() is a conjunct of the action, and *)
(* a reverted transaction is a step that does not happen.  Anybody may     *)
(* send any transaction; the caller is the action's first argument.        *)
(***************************************************************************)
EXTENDS Integers, FiniteSets, Functions

CONSTANTS
    JobIds,         \* job identifiers
    Parties,        \* addresses that send transactions
    NoParty,        \* address(0) where an executor is expected
    Escrow,         \* the contract's own address at the token
    Amounts,        \* escrow amounts requesters choose from
    Stakes,         \* executor stakes requesters choose from
    InitialBalance, \* tokens each party starts with
    Guards,         \* guard contracts that may be installed
    NoGuard,        \* address(0) where a guard is expected
    GuardDelay,     \* GUARD_CHANGE_DELAY
    MaxTime         \* bound on block.timestamp

\* The keys of the contract's mapping are 32 bytes: there are finitely many.
ASSUME EscrowAssumption ==
    /\ IsFiniteSet(JobIds)
    /\ NoParty \notin Parties
    /\ Escrow \notin Parties
    /\ Amounts \subseteq Nat \ {0}
    /\ Stakes \subseteq Nat
    /\ InitialBalance \in Nat
    /\ NoGuard \notin Guards
    /\ GuardDelay \in Nat \ {0}
    /\ MaxTime \in Nat

VARIABLES
    jobs,       \* the mapping jobs
    balance,    \* balanceOf of the settlement token
    now,        \* block.timestamp
    anchored,   \* jobs for which the registry's hasAnchor is true
    owner,
    traceAnchorGuard,
    pendingTraceAnchorGuard,
    guardChangeReadyAt

guardVars == <<owner, traceAnchorGuard, pendingTraceAnchorGuard, guardChangeReadyAt>>
vars == <<jobs, balance, now, anchored, guardVars>>

Accounts == Parties \cup {Escrow}

\* A deadline the bounded clock can still pass.
Deadlines == 1..(MaxTime - 1)

ActiveStates == {"Funded", "Accepted", "Submitted"}
FinalStates == {"Completed", "Rejected", "Expired"}

\* The struct Job, with its time stamps (0 is unset, as in the contract).
Job == [state : {"None"} \cup ActiveStates \cup FinalStates,
        requester : Parties \cup {NoParty},
        executor : Parties \cup {NoParty},
        validator : Parties \cup {NoParty},
        amount : Nat,
        executorStakeAmount : Nat,
        deadlineAt : Nat,
        fundedAt : Nat, acceptedAt : Nat, submittedAt : Nat, resolvedAt : Nat]

NoJob == [state |-> "None",
          requester |-> NoParty, executor |-> NoParty, validator |-> NoParty,
          amount |-> 0, executorStakeAmount |-> 0, deadlineAt |-> 0,
          fundedAt |-> 0, acceptedAt |-> 0, submittedAt |-> 0, resolvedAt |-> 0]

\* The types of the contract's storage; no balance and no payout goes below zero.
TypeOK ==
    /\ jobs \in [JobIds -> Job]
    /\ balance \in [Accounts -> Nat]
    /\ now \in Nat \ {0}
    /\ anchored \in SUBSET JobIds
    /\ owner \in Parties
    /\ traceAnchorGuard \in Guards \cup {NoGuard}
    /\ pendingTraceAnchorGuard \in Guards \cup {NoGuard}
    /\ guardChangeReadyAt \in Nat

Init ==
    /\ jobs = [j \in JobIds |-> NoJob]
    /\ balance = [a \in Accounts |-> IF a = Escrow THEN 0 ELSE InitialBalance]
    /\ now = 1
    /\ anchored = {}
    /\ owner \in Parties
    /\ traceAnchorGuard = NoGuard
    /\ pendingTraceAnchorGuard = NoGuard
    /\ guardChangeReadyAt = 0

-----------------------------------------------------------------------------
\* Job transactions

\* The names with a slip_ prefix are broken variants of the definition that
\* follows them, kept to show that the properties notice.
slip_deadlineReached(job) == job.deadlineAt > 0 /\ now >= job.deadlineAt

deadlineReached(job) == job.deadlineAt > 0 /\ now > job.deadlineAt

slip_safeTransfer(from, to, amount) ==
    balance' = [balance EXCEPT ![from] = @ - amount, ![to] = @ + amount]

\* The token: a transfer the sender cannot cover reverts.  Allowances are
\* granted by the sender in the same batch and are not modelled.
safeTransfer(from, to, amount) ==
    /\ balance[from] >= amount
    /\ balance' = [balance EXCEPT ![from] = @ - amount, ![to] = @ + amount]

lockFunds(sender, j, executor, validator, amount, deadlineAt, stake) ==
    /\ deadlineAt > now
    /\ jobs[j].state = "None"
    /\ safeTransfer(sender, Escrow, amount)
    /\ jobs' = [jobs EXCEPT ![j] =
            [state |-> "Funded",
             requester |-> sender, executor |-> executor, validator |-> validator,
             amount |-> amount, executorStakeAmount |-> stake, deadlineAt |-> deadlineAt,
             fundedAt |-> now, acceptedAt |-> 0, submittedAt |-> 0, resolvedAt |-> 0]]
    /\ UNCHANGED <<now, anchored, guardVars>>

slip_claimJob(sender, j) ==
    /\ jobs[j].state = "Funded"
    /\ ~deadlineReached(jobs[j])
    /\ jobs' = [jobs EXCEPT ![j].executor = sender]
    /\ UNCHANGED <<balance, now, anchored, guardVars>>

claimJob(sender, j) ==
    /\ jobs[j].state = "Funded"
    /\ jobs[j].executor = NoParty
    /\ ~deadlineReached(jobs[j])
    /\ jobs' = [jobs EXCEPT ![j].executor = sender]
    /\ UNCHANGED <<balance, now, anchored, guardVars>>

acceptJob(sender, j) ==
    /\ jobs[j].state = "Funded"
    /\ jobs[j].executor # NoParty
    /\ jobs[j].executor = sender
    /\ ~deadlineReached(jobs[j])
    /\ safeTransfer(sender, Escrow, jobs[j].executorStakeAmount)
    /\ jobs' = [jobs EXCEPT ![j].state = "Accepted", ![j].acceptedAt = now]
    /\ UNCHANGED <<now, anchored, guardVars>>

\* TraceAnchorGuard.assertAnchorExists, the registry behind every guard.
assertAnchorExists(j) == j \in anchored

submitResult(sender, j) ==
    /\ jobs[j].state = "Accepted"
    /\ jobs[j].executor = sender
    /\ ~deadlineReached(jobs[j])
    /\ traceAnchorGuard # NoGuard => assertAnchorExists(j)
    /\ jobs' = [jobs EXCEPT ![j].state = "Submitted", ![j].submittedAt = now]
    /\ UNCHANGED <<balance, now, anchored, guardVars>>

slip_validate(sender, j, approved) ==
    /\ jobs[j].state = "Submitted"
    /\ jobs[j].validator = sender
    /\ ~deadlineReached(jobs[j])
    /\ safeTransfer(Escrow, IF approved THEN jobs[j].executor ELSE jobs[j].requester,
                    jobs[j].amount)
    /\ jobs' = [jobs EXCEPT ![j].state = IF approved THEN "Completed" ELSE "Rejected",
                            ![j].resolvedAt = now]
    /\ UNCHANGED <<now, anchored, guardVars>>

validate(sender, j, approved) ==
    LET recipient == IF approved THEN jobs[j].executor ELSE jobs[j].requester
        payout == jobs[j].amount + jobs[j].executorStakeAmount
    IN  /\ jobs[j].state = "Submitted"
        /\ jobs[j].validator = sender
        /\ ~deadlineReached(jobs[j])
        /\ safeTransfer(Escrow, recipient, payout)
        /\ jobs' = [jobs EXCEPT ![j].state = IF approved THEN "Completed" ELSE "Rejected",
                                ![j].resolvedAt = now]
        /\ UNCHANGED <<now, anchored, guardVars>>

slip_expireJob_slash(j) ==
    /\ jobs[j].state \in ActiveStates
    /\ deadlineReached(jobs[j])
    /\ safeTransfer(Escrow, jobs[j].requester,
                    jobs[j].amount + jobs[j].executorStakeAmount)
    /\ jobs' = [jobs EXCEPT ![j].state = "Expired", ![j].resolvedAt = now]
    /\ UNCHANGED <<now, anchored, guardVars>>

slip_expireJob_again(j) ==
    /\ jobs[j].state # "None"
    /\ deadlineReached(jobs[j])
    /\ safeTransfer(Escrow, jobs[j].requester, jobs[j].amount)
    /\ jobs' = [jobs EXCEPT ![j].state = "Expired", ![j].resolvedAt = now]
    /\ UNCHANGED <<now, anchored, guardVars>>

slip_expireJob_accepted(j) ==
    /\ jobs[j].state = "Accepted"
    /\ deadlineReached(jobs[j])
    /\ safeTransfer(Escrow, jobs[j].requester,
                    jobs[j].amount + jobs[j].executorStakeAmount)
    /\ jobs' = [jobs EXCEPT ![j].state = "Expired", ![j].resolvedAt = now]
    /\ UNCHANGED <<now, anchored, guardVars>>

expireJob(j) ==
    LET slashedStake == IF jobs[j].state = "Funded" THEN 0
                        ELSE jobs[j].executorStakeAmount
    IN  /\ jobs[j].state \in ActiveStates
        /\ deadlineReached(jobs[j])
        /\ safeTransfer(Escrow, jobs[j].requester, jobs[j].amount + slashedStake)
        /\ jobs' = [jobs EXCEPT ![j].state = "Expired", ![j].resolvedAt = now]
        /\ UNCHANGED <<now, anchored, guardVars>>

-----------------------------------------------------------------------------
\* The owner's transactions

transferOwnership(sender, newOwner) ==
    /\ sender = owner
    /\ owner' = newOwner
    /\ UNCHANGED <<jobs, balance, now, anchored,
                   traceAnchorGuard, pendingTraceAnchorGuard, guardChangeReadyAt>>

proposeTraceAnchorGuard(sender, guard) ==
    /\ sender = owner
    /\ pendingTraceAnchorGuard' = guard
    /\ guardChangeReadyAt' = now + GuardDelay
    /\ UNCHANGED <<jobs, balance, now, anchored, owner, traceAnchorGuard>>

slip_executeTraceAnchorGuardChange(sender) ==
    /\ sender = owner
    /\ guardChangeReadyAt > 0
    /\ now >= guardChangeReadyAt
    /\ traceAnchorGuard' = pendingTraceAnchorGuard
    /\ pendingTraceAnchorGuard' = NoGuard
    /\ UNCHANGED <<jobs, balance, now, anchored, owner, guardChangeReadyAt>>

executeTraceAnchorGuardChange(sender) ==
    /\ sender = owner
    /\ guardChangeReadyAt > 0
    /\ now >= guardChangeReadyAt
    /\ traceAnchorGuard' = pendingTraceAnchorGuard
    /\ pendingTraceAnchorGuard' = NoGuard
    /\ guardChangeReadyAt' = 0
    /\ UNCHANGED <<jobs, balance, now, anchored, owner>>

cancelTraceAnchorGuardChange(sender) ==
    /\ sender = owner
    /\ guardChangeReadyAt > 0
    /\ pendingTraceAnchorGuard' = NoGuard
    /\ guardChangeReadyAt' = 0
    /\ UNCHANGED <<jobs, balance, now, anchored, owner, traceAnchorGuard>>

setTraceAnchorGuard(sender, guard) ==
    /\ sender = owner
    /\ traceAnchorGuard = NoGuard
    /\ traceAnchorGuard' = guard
    /\ UNCHANGED <<jobs, balance, now, anchored, owner,
                   pendingTraceAnchorGuard, guardChangeReadyAt>>

-----------------------------------------------------------------------------
\* The environment

\* The registry's owner publishes a lifecycle anchor of any type for j.
publishJobLifecycleAnchor(j) ==
    /\ anchored' = anchored \cup {j}
    /\ UNCHANGED <<jobs, balance, now, guardVars>>

\* A block with a later time stamp.
Tick ==
    /\ now < MaxTime
    /\ now' = now + 1
    /\ UNCHANGED <<jobs, balance, anchored, guardVars>>

JobStep(j) ==
    \/ \E sender \in Parties :
        \/ \E executor \in Parties \cup {NoParty}, validator \in Parties,
              amount \in Amounts, stake \in Stakes, deadlineAt \in Deadlines :
                lockFunds(sender, j, executor, validator, amount, deadlineAt, stake)
        \/ claimJob(sender, j)
        \/ acceptJob(sender, j)
        \/ submitResult(sender, j)
        \/ \E approved \in BOOLEAN : validate(sender, j, approved)
    \/ expireJob(j)

OwnerStep(sender) ==
    \/ \E newOwner \in Parties : transferOwnership(sender, newOwner)
    \/ \E guard \in Guards \cup {NoGuard} :
        \/ proposeTraceAnchorGuard(sender, guard)
        \/ setTraceAnchorGuard(sender, guard)
    \/ executeTraceAnchorGuardChange(sender)
    \/ cancelTraceAnchorGuardChange(sender)

Next ==
    \/ \E j \in JobIds : JobStep(j) \/ publishJobLifecycleAnchor(j)
    \/ \E sender \in Parties : OwnerStep(sender)
    \/ Tick

Spec == Init /\ [][Next]_vars

\* Blocks keep coming, and somebody (any address may) expires an overdue job.
FairSpec == Spec /\ WF_vars(Tick) /\ \A j \in JobIds : WF_vars(expireJob(j))

-----------------------------------------------------------------------------
\* Properties

\* What the contract still has to pay out for a job.
Obligation(job) ==
    CASE job.state = "Funded" -> job.amount
      [] job.state \in {"Accepted", "Submitted"} -> job.amount + job.executorStakeAmount
      [] OTHER -> 0

\* The stake of a job that left the executor's wallet when it accepted.
StakePaid(job) == IF job.acceptedAt > 0 THEN job.executorStakeAmount ELSE 0

\* What a job has cost, or brought, a party so far, read off its record alone.
RequesterPosition(job) ==
    CASE job.state \in ActiveStates \cup {"Completed"} -> -job.amount
      [] job.state \in {"Rejected", "Expired"} -> StakePaid(job)
      [] OTHER -> 0

ExecutorPosition(job) ==
    CASE job.state = "Completed" -> job.amount
      [] job.state # "Completed" -> -StakePaid(job)

Position(job, p) ==
    (IF job.requester = p THEN RequesterPosition(job) ELSE 0)
    + (IF job.executor = p THEN ExecutorPosition(job) ELSE 0)

\* A job's record tells a coherent story: its time stamps are in order, every
\* step but expiry was taken by the deadline, expiry after it, a stake was only
\* taken from a named executor, and an untouched job is blank.  The payouts of
\* validate and expireJob read these fields long after they were written.
JobCoherent(job) ==
    /\ job.state = "None" => job = NoJob
    /\ job.state # "None" =>
        /\ job.requester \in Parties
        /\ job.validator \in Parties
        /\ job.amount > 0
        /\ 0 < job.fundedAt /\ job.fundedAt < job.deadlineAt /\ job.fundedAt <= now
    /\ job.acceptedAt > 0 =>
        /\ job.executor \in Parties
        /\ job.fundedAt <= job.acceptedAt
        /\ job.acceptedAt <= job.deadlineAt /\ job.acceptedAt <= now
    /\ job.submittedAt > 0 =>
        /\ 0 < job.acceptedAt /\ job.acceptedAt <= job.submittedAt
        /\ job.submittedAt <= job.deadlineAt /\ job.submittedAt <= now
    /\ job.state = "Funded" => job.acceptedAt = 0
    /\ job.state = "Accepted" => job.acceptedAt > 0 /\ job.submittedAt = 0
    /\ job.state = "Submitted" => job.submittedAt > 0
    /\ job.state \in {"Completed", "Rejected"} =>
        /\ 0 < job.submittedAt /\ job.submittedAt <= job.resolvedAt
        /\ job.resolvedAt <= job.deadlineAt
    /\ job.state = "Expired" => job.deadlineAt < job.resolvedAt
    /\ job.state \in ActiveStates => job.resolvedAt = 0

JobsCoherent == \A j \in JobIds : JobCoherent(jobs[j])

\* The token ledger can be rebuilt from the job table: the contract holds the
\* obligations of all jobs, and each party its initial tokens plus its
\* positions.  So whatever order jobs were locked, claimed, staked, validated
\* and expired in, no job's payout was drawn on another job.
owedFor == [j \in JobIds |-> Obligation(jobs[j])]
positionsOf(p) == [j \in JobIds |-> Position(jobs[j], p)]

BalancesExplained ==
    /\ balance[Escrow] = SumFunctionOnSet(owedFor, JobIds)
    /\ \A p \in Parties :
        balance[p] = InitialBalance + SumFunctionOnSet(positionsOf(p), JobIds)

\* Tokens move for one job at a time, and every account, the contract's
\* included, changes by exactly what that job's record says: no payout can be
\* taken from another job's pot, doubled, or sent to a bystander, and none
\* happens that no record tells of.
TransfersMatchRecords ==
    [][/\ jobs' = jobs => balance' = balance
       /\ \A j \in JobIds :
            jobs'[j] # jobs[j] =>
              /\ \A k \in JobIds \ {j} : jobs'[k] = jobs[k]
              /\ balance'[Escrow] - balance[Escrow] = Obligation(jobs'[j]) - Obligation(jobs[j])
              /\ \A p \in Parties :
                   balance'[p] - balance[p] = Position(jobs'[j], p) - Position(jobs[j], p)]_vars

\* The terms a requester locked are the terms everybody is paid by: they never
\* change, an executor once named stays, and a resolved job is final.
TermsFixed ==
    [][\A j \in JobIds : jobs[j].state # "None" =>
        /\ \A f \in {"requester", "validator", "amount", "executorStakeAmount",
                      "deadlineAt", "fundedAt"} : jobs'[j][f] = jobs[j][f]
        /\ jobs[j].executor # NoParty => jobs'[j].executor = jobs[j].executor
        /\ jobs[j].state \in FinalStates => jobs'[j] = jobs[j]]_vars

\* Locked tokens never stay in the contract: an active job ends.  It depends
\* on every payout being covered, on expireJob needing no particular caller and
\* on each later state keeping the deadline.
EventuallyResolved ==
    \A j \in JobIds : jobs[j].state \in ActiveStates ~> jobs[j].state \in FinalStates

-----------------------------------------------------------------------------
\* The abstract escrow this contract implements

Phase(job) ==
    CASE job.state = "None" -> "absent"
      [] job.state \in ActiveStates -> "held"
      [] OTHER -> "paid"

phaseOf == [j \in JobIds |-> Phase(jobs[j])]
payerOf == [j \in JobIds |-> jobs[j].requester]
payeeOf == [j \in JobIds |-> jobs[j].executor]
potOf == [j \in JobIds |-> Obligation(jobs[j])]
walletOf == [p \in Parties |-> balance[p]]

Promise == INSTANCE EscrowPromise WITH
    phase <- phaseOf, payer <- payerOf, payee <- payeeOf, pot <- potOf, wallet <- walletOf

\* Every transaction of the contract is a step of the abstract escrow, or
\* changes nothing it speaks of: each pot is paid out whole, once, to the
\* job's requester or to its executor.
KeepsPromise == Promise!Spec
=============================================================================
