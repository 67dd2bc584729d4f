-------------------------- MODULE ConsumerIntents --------------------------
(***************************************************************************)
(* What keeps a paying consumer in bounds: the table of intents, one row   *)
(* per idempotency key, and the authority its owner may revoke.            *)
(*                                                                         *)
(* Both are read and written without a pause.  Time enters as the age of a *)
(* row: "retired" is more than seven days since it changed, "crowded" is   *)
(* five thousand rows changed since.  Either way compaction may drop it.   *)
(***************************************************************************)
EXTENDS FiniteSets

CONSTANTS
    Intents,    \* idempotency keys
    NoIntent,   \* a call without one
    NoRow

Outcome == {"completed", "failed"}
Row == [status : Outcome \cup {"in_progress"}, age : {"recent", "retired", "crowded"}]

ASSUME IntentsAssumption == NoIntent \notin Intents /\ NoRow \notin Row

VARIABLES
    intents,     \* intents[i]: the row of i, or NoRow
    forgettable, \* history: intents whose row compaction was once allowed to drop
    authority,   \* the authority part of the session runtime
    revoked      \* history: the owner revoked, and has not set up another wallet since

intentVars == <<intents, forgettable>>
authorityVars == <<authority, revoked>>

IntentsTypeOK ==
    /\ intents \in [Intents -> Row \cup {NoRow}]
    /\ forgettable \subseteq Intents
    /\ authority \in [status : {"active", "revoked"}, revokedAt : BOOLEAN]
    /\ revoked \in BOOLEAN

IntentsInit ==
    /\ intents = [i \in Intents |-> NoRow]
    /\ forgettable = {}
    /\ authority = [status |-> "active", revokedAt |-> FALSE]
    /\ revoked = FALSE

-----------------------------------------------------------------------------
\* Intents

terminal(row) == row.status \in Outcome

\* Slip: rows in progress are dropped by age too.
slip_kept(row) == row.age = "recent"

kept(row) == row.age # "crowded" /\ ~(row.age = "retired" /\ terminal(row))

compactConsumerIntentRows(rows) ==
    [i \in Intents |-> IF rows[i] # NoRow /\ kept(rows[i]) THEN rows[i] ELSE NoRow]

\* Even a refused call leaves the rows compacted.
readCompactedConsumerIntents == intents' = compactConsumerIntentRows(intents)

\* The row may be in progress, finished, or another request's: all refuse.
free(i) == i \in Intents => compactConsumerIntentRows(intents)[i] = NoRow

changed(i, status) ==
    intents' = [compactConsumerIntentRows(intents) EXCEPT ![i] =
                   [status |-> status, age |-> "recent"]]

\* A call without an intent id is let through and leaves no row.
beginConsumerIntent(i) ==
    /\ free(i)
    /\ IF i = NoIntent THEN UNCHANGED intents ELSE changed(i, "in_progress")
    /\ UNCHANGED forgettable

conflict(i) == ~free(i) /\ readCompactedConsumerIntents /\ UNCHANGED forgettable

\* A row that compaction dropped does not come back.
finalizeConsumerIntent(i, status) ==
    /\ IF i = NoIntent THEN UNCHANGED intents
       ELSE IF compactConsumerIntentRows(intents)[i] = NoRow THEN readCompactedConsumerIntents
       ELSE changed(i, status)
    /\ UNCHANGED forgettable

retentionPasses(i) ==
    /\ intents[i] # NoRow /\ intents[i].age = "recent"
    /\ intents' = [intents EXCEPT ![i].age = "retired"]
    /\ forgettable' = IF terminal(intents[i]) THEN forgettable \cup {i} ELSE forgettable

\* Five thousand other intents changed since.
crowds(i) ==
    /\ intents[i] # NoRow /\ intents[i].age # "crowded"
    /\ intents' = [intents EXCEPT ![i].age = "crowded"]
    /\ forgettable' = forgettable \cup {i}

-----------------------------------------------------------------------------
\* Authority

authorized == authority.status # "revoked" /\ ~authority.revokedAt

\* Slip: the policy's own zero is taken for the time of the revocation.
slip_writeConsumerAuthorityPolicy ==
    /\ authority' = [status |-> "active", revokedAt |-> FALSE]
    /\ UNCHANGED revoked

\* A new policy is active, but a revokedAt of zero falls back to the one kept.
writeConsumerAuthorityPolicy ==
    /\ authority' = [authority EXCEPT !.status = "active"]
    /\ UNCHANGED revoked

revokeConsumerAuthorityPolicy ==
    /\ authority' = [status |-> "revoked", revokedAt |-> TRUE]
    /\ revoked' = TRUE

\* The runtime moves to another wallet: a new session, a new authority.
clearSessionAuthorizationState ==
    /\ authority' = [status |-> "active", revokedAt |-> FALSE]
    /\ revoked' = FALSE

AuthorityNext ==
    \/ writeConsumerAuthorityPolicy
    \/ revokeConsumerAuthorityPolicy
    \/ clearSessionAuthorizationState
=============================================================================
