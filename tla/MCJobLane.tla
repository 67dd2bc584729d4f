----------------------------- MODULE MCJobLane -----------------------------
(***************************************************************************)
(* The lane on small instances, under one of four loads chosen at the     *)
(* start: requests that overlap; one request at a time, which leaves room  *)
(* for one more crash and for the owner of the contract installing a       *)
(* guard; fundings above the threshold (JobApproval); or one such funding  *)
(* at a time, that may name the approval of a second job.  The contract is *)
(* deployed by one given party: who owns it only matters to JobEscrow.     *)
(***************************************************************************)
EXTENDS JobApproval, LaneHistory, TLC

CONSTANTS
    Loads,      \* the loads of a run: among "overlapping", "serial",
                \* "funding", "lending"
    Lenders     \* jobs that are only asked about: others name their approvals

VARIABLE load

MaxCrashesOverlapping == 1

\* The first tick matters to approvals alone: one may expire and be read again
\* before the job is late.
Start == IF load = "funding" THEN 1 ELSE 2

\* A lender only asks for its approval; there is one in one of the loads, where
\* requests come one at a time and end with the funding.  It names the executor
\* of the other job.  Anchors, which funding never reads, and crashes are left out.
LendersOnlyAsk ==
    /\ load # "lending" => \A j \in Lenders : records[j] = NoRecord
    /\ load = "lending" =>
        /\ Alone
        /\ \A s \in Slots : requests[s] # NoRequest =>
                requests[s].op \in FundOps \cup {"expire"} /\ requests[s].j \notin Lenders
        /\ \A j \in JobIds : resuming[j] <= 1
        /\ \A j \in Lenders, k \in JobIds :
                records[j].executor \in {NoParty, records[k].executor}
        /\ crashes = 0

AboveThreshold == load \in {"funding", "lending"}

\* Below the threshold nobody asks for an approval: the job has one that was
\* granted, which nothing looks at.  Above it the owner's decisions rewrite
\* records beside the requests, which counts as overlapping.
MCInit ==
    /\ LaneInit /\ owner = Requester
    /\ load \in Loads
    /\ approvals = [j \in JobIds |->
            [status |-> IF AboveThreshold THEN "none" ELSE "approved", expiresAt |-> 0]]
    /\ resuming = [j \in JobIds |-> 0]
    /\ releases = [j \in JobIds |-> IF AboveThreshold THEN {} ELSE {j}]
    /\ overlapped = AboveThreshold

\* Without a guard nothing reads the anchors but those of results.  After the one
\* crash a result is anchored once, and one approve request at a time is awaited.
WithoutGuard ==
    /\ UNCHANGED guardVars
    /\ anchored' = {j \in JobIds : submitAnchors'[j] > 0}
    /\ crashes' <= MaxCrashesOverlapping
    /\ crashes' > 0 => \A j \in JobIds : submitAnchors'[j] <= 1 /\ resuming'[j] <= 1

MCNext ==
    /\ \/ ~AboveThreshold /\ LaneNext /\ UNCHANGED approvalVars
       \/ AboveThreshold /\ FundingNext
    /\ now < Start => now' = now + 1
    /\ overlapped' = (overlapped \/ ~Alone')
    /\ load = "serial" => ~overlapped'
    /\ load # "serial" => WithoutGuard
    /\ UNCHANGED load
    /\ LendersOnlyAsk'

mcVars == <<fundingVars, overlapped, load>>

MCSpec == MCInit /\ [][MCNext]_mcVars
MCFairSpec == MCSpec /\ LaneFairness

Symmetry == Permutations(Slots) \cup Permutations(Executors)
=============================================================================
