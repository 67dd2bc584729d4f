--------------------------- MODULE SessionWindows ---------------------------
(***************************************************************************)
(* SessionAccount with the number of payments made before each session was *)
(* last created, and the promise a spending rule makes over time.  The     *)
(* account keeps one running total per rule; the history of payments is    *)
(* what the totals are compared with.                                      *)
(***************************************************************************)
EXTENDS SessionAccount, Functions

VARIABLE before     \* before[s]: payments older than the session s

historyVars == <<vars, before>>

HInit == Init /\ before = [s \in SessionIds |-> 0]
HNext ==
    /\ Next
    /\ before' = [s \in SessionIds |->
                    IF ~sessions[s].active /\ sessions'[s].active THEN Len(payments) ELSE before[s]]
HSpec == HInit /\ [][HNext]_historyVars

amounts == [n \in 1..Len(payments) |-> payments[n].value]

\* The payments a rule of s is about.
Governed(s, rule) ==
    {n \in (before[s] + 1)..Len(payments) :
        payments[n].s = s /\ matchesServiceProvider(rule, payments[n].provider)}

\* The k-th window of a rule begins where the one before it ends.
windowOpens(rule, k) == rule.initialWindowStartTime + k * rule.timeWindow

Counted(s, rule, k) ==
    {n \in Governed(s, rule) :
        windowOpens(rule, k) <= payments[n].at /\ payments[n].at < windowOpens(rule, k + 1)}

spentIn(s, rule, k) == SumFunctionOnSet(amounts, Counted(s, rule, k))

\* In every window of every rule of a session, the payments made since the
\* session was created add up to no more than its budget, and none is made before
\* its first window: in whatever order they are presented, alone or in bundles
\* whose operations were all validated before the first one was counted.
WindowBudget ==
    \A s \in SessionIds : \A i \in 1..sessions[s].ruleCount :
        rules[s][i].timeWindow > 0 =>
            /\ \A k \in 0..MaxTime : spentIn(s, rules[s][i], k) <= rules[s][i].budget
            /\ \A n \in Governed(s, rules[s][i]) :
                    rules[s][i].initialWindowStartTime <= payments[n].at
=============================================================================
