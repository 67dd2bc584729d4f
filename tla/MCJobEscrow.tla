---------------------------- MODULE MCJobEscrow ----------------------------
(***************************************************************************)
(* JobEscrow on small instances, under one of two loads chosen at the      *)
(* start: several jobs over one pool of tokens; or one job among the       *)
(* owner's transactions about the trace-anchor guard.  A second history    *)
(* variable tells whether a guard was ever in force.                       *)
(***************************************************************************)
EXTENDS GuardHistory

CONSTANT Loads      \* the loads of a run: among "jobs", "guards"

VARIABLES
    load,
    everGuarded \* a guard other than address(0) has been in force

mcVars == <<historyVars, load, everGuarded>>

\* Parties and jobs are alike: one of each comes first.
FirstParty == CHOOSE p \in Parties : TRUE
FirstJob == CHOOSE j \in JobIds : TRUE

MCInit ==
    /\ HInit /\ owner = FirstParty
    /\ load \in Loads
    /\ everGuarded = FALSE

Untouched(j) == jobs'[j].state = "None"

MCNext ==
    /\ HNext
    /\ ~Untouched(FirstJob) => jobs'[FirstJob].requester = FirstParty
    /\ load = "jobs" =>
        /\ (\E j \in JobIds : ~Untouched(j)) => ~Untouched(FirstJob)
        /\ UNCHANGED <<anchored, guardVars>>
    /\ load = "guards" => \A j \in JobIds \ {FirstJob} : Untouched(j) /\ j \notin anchored'
    /\ UNCHANGED load
    /\ everGuarded' = (everGuarded \/ traceAnchorGuard' # NoGuard)

MCSpec == MCInit /\ [][MCNext]_mcVars

\* The fairness of JobEscrow.
MCFairSpec == MCSpec /\ WF_vars(Tick) /\ \A j \in JobIds : WF_vars(expireJob(j))

\* The comment on setTraceAnchorGuard, JobEscrowV4.sol:133: "Set guard
\* immediately. Only works before the first guard is set."  Once a guard has
\* been in force, none takes effect without having been announced.
ImmediateOnlyBeforeFirst ==
    [][everGuarded /\ traceAnchorGuard' # traceAnchorGuard => announced.at > 0]_mcVars
=============================================================================
