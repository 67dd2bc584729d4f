---------------------------- MODULE GuardHistory ----------------------------
(***************************************************************************)
(* JobEscrow with the announcement of a trace-anchor guard that is still   *)
(* standing, as an executor who watches the contract's events knows it.    *)
(* The history records, and constrains nothing: the contract's own fields  *)
(* pendingTraceAnchorGuard and guardChangeReadyAt are what is compared     *)
(* with it.                                                                *)
(***************************************************************************)
EXTENDS JobEscrow

VARIABLE announced  \* the guard proposed last and when, at = 0 once withdrawn or used

historyVars == <<vars, announced>>

Nothing == [guard |-> NoGuard, at |-> 0]

proposesGuard ==
    \E sender \in Parties, guard \in Guards \cup {NoGuard} :
        proposeTraceAnchorGuard(sender, guard)

endsProposal ==
    \E sender \in Parties :
        \/ executeTraceAnchorGuardChange(sender)
        \/ cancelTraceAnchorGuardChange(sender)

HInit == Init /\ announced = Nothing

HNext ==
    /\ Next
    /\ \/ /\ proposesGuard
          /\ announced' = [guard |-> pendingTraceAnchorGuard', at |-> now]
       \/ /\ endsProposal
          /\ announced' = Nothing
       \/ /\ guardChangeReadyAt' = guardChangeReadyAt
          /\ ~proposesGuard
          /\ UNCHANGED announced

HSpec == HInit /\ [][HNext]_historyVars

\* A guard in force is only ever replaced by the one announced last, never
\* withdrawn since, and announced at least GUARD_CHANGE_DELAY before: an
\* executor that looks at the contract knows the rule of the next 48 hours.
\* Proposing again, cancelling, and changing the owner must not shorten it.
GuardNotice ==
    [][traceAnchorGuard # NoGuard /\ traceAnchorGuard' # traceAnchorGuard =>
        /\ announced.at > 0
        /\ announced.guard = traceAnchorGuard'
        /\ now - announced.at >= GuardDelay]_historyVars
=============================================================================
