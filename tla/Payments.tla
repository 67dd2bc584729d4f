------------------------------ MODULE Payments ------------------------------
(***************************************************************************)
(* The paid part of the server: task handlers, the commerce route,         *)
(* workflow runs and service calls work on one table of x402 requests at   *)
(* the same time, and are lost together when the process stops.  The       *)
(* table, the intents and the authority are kept in files.                 *)
(***************************************************************************)
EXTENDS A2ATasks, ServiceInvoke

callVars == <<calls, intentVars, authorityVars>>
vars == <<x402Vars, taskVars, callVars>>

Init == X402Init /\ TasksInit /\ IntentsInit /\ CallsInit

TaskStep(t) ==
    /\ \/ A2AHandlers(t) \/ taskProceeds(t) \/ Commerce(t)
       \/ WorkflowRuns(t) \/ runProceeds(t)
    /\ UNCHANGED callVars

CallStep(c) ==
    /\ \/ arrive(c) \/ FeedNext(c) \/ trustAnswers(c) \/ AnsweredNext(c, delivered)
       \/ BuyNext(c)
    /\ UNCHANGED <<taskVars, authorityVars>>

RequestStep == X402Environment /\ UNCHANGED <<taskVars, callVars>>

AgeStep == intentsAge /\ UNCHANGED <<taskVars, authorityVars>>

OwnerStep == AuthorityNext /\ UNCHANGED <<x402Vars, taskVars, calls, intentVars>>

\* The process stops, by itself or because nothing caught a failure.
Crash ==
    /\ tasksLost \/ \E t \in Tasks : unguardedServiceFails(t)
    /\ callsLost
    /\ UNCHANGED <<intentVars, authorityVars>>

Next ==
    \/ \E t \in Tasks : TaskStep(t)
    \/ \E c \in Calls : CallStep(c)
    \/ RequestStep \/ AgeStep \/ OwnerStep \/ Crash

Spec == Init /\ [][Next]_vars

-----------------------------------------------------------------------------
\* Properties

\* Every variable keeps to its type.
PaymentsTypeOK == X402TypeOK /\ TasksTypeOK /\ IntentsTypeOK /\ CallsTypeOK

\* Requests for which the chain has a transfer from the payer named, if one
\* is, to the recipient in the token asked for, and of the amount.  The same
\* transfer backs every request it agrees with.  A request of the commerce route
\* may have one of any amount, and needs none if its payer is not a session account.
backedRequests ==
    {q \in RequestIds :
        \/ \E k \in Transfer :
              /\ transfers[k] > 0
              /\ k.to = terms[q].to /\ terms[q].payer \in {NoPayer, k.payer}
              /\ k.amount = terms[q].amount \/ q \in CommerceIds
        \/ q \in CommerceIds /\ terms[q].payer \notin Accounts}

\* Nothing is said to be paid, and nothing is handed out, without a transfer on
\* the chain that agrees with the terms: not in the table, not in a copy of it
\* that a handler will write back, not by a call that unlocks on the strength of
\* the row it holds.  No request is promised a transfer of its own.
PaidBacked ==
    /\ \A q \in RequestIds : (table[q] = "paid" \/ q \in delivered) => q \in backedRequests
    /\ \A t \in Tasks, q \in RequestIds :
           tasks[t] # NoTask /\ tasks[t].snap[q] = "paid" => q \in backedRequests
    /\ \A c \in Calls : inFlight(c) /\ (calls[c].copy = "paid" \/ calls[c].awaits = "trust") =>
           calls[c].request \in backedRequests

\* An intent recorded as completed was: a call with it was served, for a
\* request whose terms a transfer on the chain agrees with.
CompletedServed ==
    \A i \in Intents : intents[i] # NoRow /\ intents[i].status = "completed" =>
        \E c \in Calls : /\ waits(c, "served") \/ waits(c, "bought")
                         /\ calls[c].intent = i
                         /\ calls[c].request \in backedRequests

\* An idempotency key starts one execution, unless its row was dropped in the
\* meantime: a week after it finished, or five thousand intents later.
OneExecution ==
    \A c, d \in Calls :
        /\ c # d /\ calls[c] # NoCall /\ calls[d] # NoCall
        /\ calls[c].started /\ calls[d].started /\ calls[c].intent = calls[d].intent
        => calls[c].intent \in forgettable

\* An intent is stuck in progress only when the call that began it is still
\* at work, was answered with a 402 or a 409 after it began, or was cut off.
StuckExplained ==
    \A i \in Intents : intents[i] # NoRow /\ intents[i].status = "in_progress" =>
        \E c \in Calls : /\ calls[c] # NoCall /\ calls[c].intent = i /\ calls[c].started
                         /\ calls[c].awaits \in Waiting \cup {"refused", "left"}

\* A paid row stops being paid in three ways only: a handler finds it past its
\* time, a handler writes back a copy from before it was paid, or a call that
\* holds the row writes what it holds or that it failed.
PaidUndone ==
    [][\A q \in RequestIds : table[q] = "paid" /\ table'[q] # "paid" =>
          \/ table'[q] = "expired" /\ q \in overdue
          \/ \E t \in Tasks : /\ tasks[t] # NoTask /\ tasks'[t] # tasks[t]
                              /\ tasks[t].snap[q] # "paid" /\ table'[q] = tasks[t].snap[q]
          \/ \E c \in Calls : /\ inFlight(c) /\ calls'[c] # calls[c]
                              /\ calls[c].request = q /\ table'[q] \in {"failed", calls[c].copy}]_vars

\* A row once written is lost only when a handler writes back a copy of the
\* table from before it was there.
RowsLost ==
    [][\A q \in RequestIds : table[q] # "none" /\ table'[q] = "none" =>
          \E t \in Tasks : tasks[t] # NoTask /\ tasks'[t] # tasks[t] /\ tasks[t].snap[q] = "none"]_vars

\* After a revocation no call is let in, whatever policies are written, until
\* the owner has moved to another wallet.
RevokedAdmitsNone ==
    [][\A c \in Calls : calls[c] = NoCall /\ calls'[c] # NoCall => ~revoked]_vars
=============================================================================
