---------------------------- MODULE X402Requests ----------------------------
(***************************************************************************)
(* The table of x402 payment requests and what happens to it by itself:    *)
(* requests grow old, a timer expires them, and payments reach the chain.  *)
(*                                                                         *)
(* readX402Requests returns a copy of the whole table and                  *)
(* writeX402Requests replaces the whole table, both without a pause; what  *)
(* happens between a read and a write is up to the modules that extend     *)
(* this one.  A request keeps only its status here.  Whether its           *)
(* expiresAt has passed is the set overdue: it grows at any moment after   *)
(* the request was issued, which also covers debugForceExpire.             *)
(*                                                                         *)
(* The chain knows nothing of requests.  A transfer has a payer, a place   *)
(* it goes to (token and recipient) and an amount, and whoever presents it *)
(* for a request has it compared with the request's terms.                 *)
(***************************************************************************)
EXTENDS Naturals, FiniteSets

CONSTANTS
    RequestIds,     \* random ids, each given to one request
    NoRequest,
    Payers, Destinations, Amounts,
    Accounts,       \* payers that are session accounts
    NoPayer,        \* in the terms of a request: anyone may pay
    CommerceIds,    \* ids given to requests of the commerce route
    terms,          \* terms[q]: what is asked for q, fixed when it is issued
    MaxTransfers    \* bound on transfers of one kind, sent or mined

Transfer == [payer : Payers, to : Destinations, amount : Amounts]
Terms == [payer : Payers \cup {NoPayer}, to : Destinations, amount : Amounts]

ASSUME RequestsAssumption ==
    /\ NoRequest \notin RequestIds
    /\ CommerceIds \subseteq RequestIds
    /\ Accounts \subseteq Payers /\ NoPayer \notin Payers
    /\ terms \in [RequestIds -> Terms]
    /\ MaxTransfers \in Nat

VARIABLES
    table,      \* table[q]: status of the row of q, "none" where there is no row
    issued,     \* ids given out
    overdue,    \* requests whose expiresAt has passed
    userOps,    \* userOps[k]: session payments k sent, and not yet mined
    transfers   \* transfers[k]: transfers k on the chain

moneyVars == <<issued, overdue, userOps, transfers>>
x402Vars == <<table, moneyVars>>

Status == {"pending", "paid", "expired", "failed"}
Table == [RequestIds -> Status \cup {"none"}]
NoTable == [q \in RequestIds |-> "none"]

X402TypeOK ==
    /\ table \in Table
    /\ issued \subseteq RequestIds
    /\ overdue \subseteq issued
    /\ userOps \in [Transfer -> 0..MaxTransfers]
    /\ transfers \in [Transfer -> 0..MaxTransfers]

X402Init ==
    /\ table = NoTable
    /\ issued = {}
    /\ overdue = {}
    /\ userOps = [k \in Transfer |-> 0]
    /\ transfers = [k \in Transfer |-> 0]

-----------------------------------------------------------------------------
\* Reads and writes

\* The id is 16 random bytes and a time: never one seen before.
createX402Request(q) == q \notin issued /\ issued' = issued \cup {q}

writeX402Requests(rows) == table' = rows

upsertX402RequestRecord(q, status) == writeX402Requests([table EXCEPT ![q] = status])

\* The names with a slip_ prefix are broken variants of the definition that
\* follows them, kept to show that the properties notice.
slip_expired(q) == q \in issued   \* seconds against milliseconds

\* Date.now() > reqItem.expiresAt, as every handler tests it.
expired(q) == q \in overdue

\* The pending requests a clean-up finds stale.
stalePending == {q \in RequestIds : table[q] = "pending" /\ q \in overdue}

-----------------------------------------------------------------------------
\* Payments

mayPay(k) == userOps[k] + transfers[k] < MaxTransfers

mined(k) ==
    /\ mayPay(k)
    /\ transfers' = [transfers EXCEPT ![k] = @ + 1]
    /\ UNCHANGED userOps

\* /api/session/pay pays only a pending request, and never writes the table.
payable(q) == table[q] = "pending"

\* What is paid for q, from whichever wallet pays.
paymentsFor(q) == {k \in Transfer : k.to = terms[q].to /\ k.amount = terms[q].amount}

\* The transfer of a session payment succeeded at once.
transferMined(q) == \E k \in paymentsFor(q) : mined(k)

\* A user operation may have been sent that nobody follows any more.
transferUncertain(q) ==
    /\ \/ \E k \in paymentsFor(q) : mayPay(k) /\ userOps' = [userOps EXCEPT ![k] = @ + 1]
       \/ UNCHANGED userOps
    /\ UNCHANGED transfers

\* A request may name no payer.
payerMatches(k, q) == terms[q].payer \in {NoPayer, k.payer}

\* Slip: the amount is not compared.
slip_onChain(q) ==
    \E k \in Transfer : k.to = terms[q].to /\ payerMatches(k, q) /\ transfers[k] > 0

\* What a proof can be verified against: any successful transfer that agrees
\* with the terms.  Nothing remembers which transactions were presented, so
\* one transfer does for every request of equal terms.
onChain(q) == \E k \in paymentsFor(q) : payerMatches(k, q) /\ transfers[k] > 0

\* The second chance of the commerce route: a payment event emitted at the
\* payer's address, whose amount is not compared.  A session account emits one
\* only with a payment; which of its transfers were session payments is not
\* kept.  Of an address with other code nothing is known, nor where none is named.
sessionEvent(q) ==
    \/ terms[q].payer \notin Accounts
    \/ \E k \in Transfer : k.to = terms[q].to /\ k.payer = terms[q].payer /\ transfers[k] > 0

-----------------------------------------------------------------------------
\* Steps nobody asks for

\* Slip: the stale rows are filtered out.
slip_expireStaleX402PendingRequests(cleaned) ==
    /\ cleaned # {} /\ cleaned \subseteq stalePending
    /\ writeX402Requests([q \in RequestIds |-> IF q \in cleaned THEN "none" ELSE table[q]])
    /\ UNCHANGED moneyVars

\* The timer cleans every stale row; the clean-up route may be given a limit.
expireStaleX402PendingRequests(cleaned) ==
    /\ cleaned # {} /\ cleaned \subseteq stalePending
    /\ writeX402Requests([q \in RequestIds |-> IF q \in cleaned THEN "expired" ELSE table[q]])
    /\ UNCHANGED moneyVars

ttlPasses(q) ==
    /\ q \in issued \ overdue
    /\ overdue' = overdue \cup {q}
    /\ UNCHANGED <<table, issued, userOps, transfers>>

\* Slip: the user operation stays pending and is counted again.
slip_userOpMined(k) ==
    /\ userOps[k] > 0
    /\ transfers' = [transfers EXCEPT ![k] = @ + 1]
    /\ UNCHANGED <<table, issued, overdue, userOps>>

userOpMined(k) ==
    /\ userOps[k] > 0
    /\ userOps' = [userOps EXCEPT ![k] = @ - 1]
    /\ transfers' = [transfers EXCEPT ![k] = @ + 1]
    /\ UNCHANGED <<table, issued, overdue>>

userOpDropped(k) ==
    /\ userOps[k] > 0
    /\ userOps' = [userOps EXCEPT ![k] = @ - 1]
    /\ UNCHANGED <<table, issued, overdue, transfers>>

\* Anyone transfers anything with a transaction of their own, for a request
\* or for none.
agentPays(k) == mined(k) /\ UNCHANGED <<table, issued, overdue>>

X402Environment ==
    \/ \E cleaned \in SUBSET RequestIds : expireStaleX402PendingRequests(cleaned)
    \/ \E q \in RequestIds : ttlPasses(q)
    \/ \E k \in Transfer : userOpMined(k) \/ userOpDropped(k) \/ agentPays(k)
=============================================================================
