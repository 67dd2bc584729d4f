--------------------------- MODULE SessionAccount ---------------------------
(***************************************************************************)
(* The AA wallet (contracts/KTraceAccountV3SessionExecute.sol): its owner  *)
(* gives session keys to agents, with spending rules per session and       *)
(* permissions per call; an agent's payment or call is validated by the    *)
(* EntryPoint before a bundle of user operations executes, and checked     *)
(* again when it does.                                                     *)
(*                                                                         *)
(* The owner is an EOA: its transactions never run inside a bundle.  What  *)
(* the account calls may fail.  execute and executeBatch reach other       *)
(* contracts only (the account is not its own owner) and are left out.     *)
(***************************************************************************)
EXTENDS Integers, Sequences, FiniteSets

CONSTANTS
    SessionIds, Owners, Agents, NoAgent,
    Providers,      \* service providers
    Tokens,
    Nonces,         \* nonces of transfer authorizations
    Values,         \* amounts paid, approved or budgeted
    Limits,         \* values of maxAmount
    Validities,     \* pairs of validAfter and validBefore
    Calls,          \* pairs of a target and a selector
    RuleLists,      \* spending rules an owner may give to a session
    MaxRules,       \* bound on their number
    Expiries,       \* values of setSessionExpiry
    MaxOps,         \* bound on user operations in a bundle
    MaxTime         \* bound on block.timestamp

Rule == [timeWindow : Nat, budget : Nat, initialWindowStartTime : Nat,
         targetProviders : SUBSET Providers]

ASSUME SessionAssumption ==
    /\ NoAgent \notin Agents
    /\ Values \subseteq Nat /\ Limits \subseteq Nat /\ Expiries \subseteq Nat
    /\ Validities \subseteq Nat \X Nat
    /\ MaxRules \in Nat /\ MaxOps \in Nat /\ MaxTime \in Nat
    /\ RuleLists \subseteq Seq(Rule)
    /\ \A given \in RuleLists : Len(given) <= MaxRules

VARIABLES
    owner,
    supportedTokens,
    sessions,       \* _sessions
    rules,          \* _sessionRules; a session uses the first ruleCount
    windowSpends,   \* _sessionWindowSpends
    usedNonces,     \* _usedTransferNonces
    permissions,    \* _selectorPermissions
    payments,       \* the SessionPaymentExecuted events
    bundle,         \* user operations validated and not yet executed
    executing,      \* the bundle executes
    now             \* block.timestamp

ownerVars == <<owner, supportedTokens, sessions, rules, permissions>>
spendVars == <<windowSpends, usedNonces, payments>>
bundleVars == <<bundle, executing>>
vars == <<ownerVars, spendVars, bundleVars, now>>

Session == [agent : Agents \cup {NoAgent}, active : BOOLEAN, ruleCount : 0..MaxRules,
            expiresAt : Nat]
NoSession == [agent |-> NoAgent, active |-> FALSE, ruleCount |-> 0, expiresAt |-> 0]
NoRule == [timeWindow |-> 0, budget |-> 0, initialWindowStartTime |-> 0, targetProviders |-> {}]

TransferAuthorization ==
    [signer : Agents, token : Tokens, value : Values, nonce : Nonces, valid : Validities]

PaymentOp == [kind : {"payment"}, s : SessionIds, auth : TransferAuthorization,
              provider : Providers, signer : Agents \cup Owners]
CallOp == [kind : {"call"}, s : SessionIds, call : Calls, amount : Values \cup {0},
           signer : Agents \cup Owners]
UserOps == PaymentOp \cup CallOp

Payment == [s : SessionIds, nonce : Nonces, value : Values, provider : Providers, at : Nat]

SessionTypeOK ==
    /\ owner \in Owners
    /\ supportedTokens \subseteq Tokens
    /\ sessions \in [SessionIds -> Session]
    /\ rules \in [SessionIds -> [1..MaxRules -> Rule]]
    /\ windowSpends \in [SessionIds -> [1..MaxRules -> [windowStart : Nat, spent : Nat]]]
    /\ usedNonces \in [SessionIds -> SUBSET Nonces]
    /\ permissions \in [SessionIds -> [Calls -> [enabled : BOOLEAN, maxAmount : Nat]]]
    /\ payments \in Seq(Payment)
    /\ bundle \in Seq(UserOps)
    /\ executing \in BOOLEAN
    /\ now \in Nat

Init ==
    /\ owner \in Owners
    /\ supportedTokens = {}
    /\ sessions = [s \in SessionIds |-> NoSession]
    /\ rules = [s \in SessionIds |-> [i \in 1..MaxRules |-> NoRule]]
    /\ windowSpends = [s \in SessionIds |-> [i \in 1..MaxRules |-> [windowStart |-> 0, spent |-> 0]]]
    /\ usedNonces = [s \in SessionIds |-> {}]
    /\ permissions = [s \in SessionIds |-> [c \in Calls |-> [enabled |-> FALSE, maxAmount |-> 0]]]
    /\ payments = <<>>
    /\ bundle = <<>>
    /\ executing = FALSE
    /\ now = 1

-----------------------------------------------------------------------------
\* Transactions of the owner

onlyOwner(sender) == sender = owner /\ bundle = <<>>

transferOwnership(sender, newOwner) ==
    /\ onlyOwner(sender)
    /\ owner' = newOwner
    /\ UNCHANGED <<supportedTokens, sessions, rules, permissions, spendVars, bundleVars, now>>

addSupportedToken(sender, token) ==
    /\ onlyOwner(sender)
    /\ supportedTokens' = supportedTokens \cup {token}
    /\ UNCHANGED <<owner, sessions, rules, permissions, spendVars, bundleVars, now>>

\* A provider is added to those an earlier session of the same id left behind.
storedRules(s, given) ==
    [i \in 1..MaxRules |->
        IF i <= Len(given)
        THEN [given[i] EXCEPT !.targetProviders = @ \cup rules[s][i].targetProviders]
        ELSE rules[s][i]]

opened(s, agent, given) ==
    [sessions EXCEPT ![s].agent = agent, ![s].active = TRUE, ![s].ruleCount = Len(given)]

\* The names with a slip_ prefix are broken variants of the definition that
\* follows them, kept to show that the properties notice.
slip_createSession(sender, s, agent, given) ==
    /\ onlyOwner(sender)
    /\ ~sessions[s].active
    /\ sessions' = opened(s, agent, given)
    /\ rules' = [rules EXCEPT ![s] = storedRules(s, given)]
    /\ usedNonces' = [usedNonces EXCEPT ![s] = {}]
    /\ UNCHANGED <<owner, supportedTokens, permissions, windowSpends, payments, bundleVars, now>>

\* The windows, nonces, permissions and expiry of an earlier session stay.
createSession(sender, s, agent, given) ==
    /\ onlyOwner(sender)
    /\ ~sessions[s].active
    /\ sessions' = opened(s, agent, given)
    /\ rules' = [rules EXCEPT ![s] = storedRules(s, given)]
    /\ UNCHANGED <<owner, supportedTokens, permissions, spendVars, bundleVars, now>>

revokeSession(sender, s) ==
    /\ onlyOwner(sender)
    /\ sessions[s].active
    /\ sessions' = [sessions EXCEPT ![s].active = FALSE]
    /\ UNCHANGED <<owner, supportedTokens, rules, permissions, spendVars, bundleVars, now>>

setSessionExpiry(sender, s, expiresAt) ==
    /\ onlyOwner(sender)
    /\ sessions[s].active
    /\ sessions' = [sessions EXCEPT ![s].expiresAt = expiresAt]
    /\ UNCHANGED <<owner, supportedTokens, rules, permissions, spendVars, bundleVars, now>>

setSessionSelectorPermission(sender, s, call, enabled, maxAmount) ==
    /\ onlyOwner(sender)
    /\ sessions[s].active
    /\ permissions' = [permissions EXCEPT ![s][call] =
                            [enabled |-> enabled, maxAmount |-> maxAmount]]
    /\ UNCHANGED <<owner, supportedTokens, sessions, rules, spendVars, bundleVars, now>>

-----------------------------------------------------------------------------
\* Spending rules

sessionExists(s) ==
    /\ sessions[s].active
    /\ sessions[s].expiresAt > 0 => now < sessions[s].expiresAt

matchesServiceProvider(rule, provider) ==
    rule.targetProviders = {} \/ provider \in rule.targetProviders

matchedRules(s, provider) ==
    {i \in 1..sessions[s].ruleCount : matchesServiceProvider(rules[s][i], provider)}

slip_resolveWindowStart(rule) ==
    IF rule.timeWindow = 0 THEN 0 ELSE now - (now % rule.timeWindow)

slip_resolveWindowStart_early(rule) ==
    IF rule.timeWindow = 0 THEN 0
    ELSE rule.initialWindowStartTime
            + ((now - rule.initialWindowStartTime) \div rule.timeWindow) * rule.timeWindow

\* Windows follow one another from the initial start, or from time zero.
resolveWindowStart(rule) ==
    CASE rule.timeWindow = 0 -> 0
      [] rule.timeWindow > 0 /\ rule.initialWindowStartTime = 0 -> now - (now % rule.timeWindow)
      [] OTHER ->
            IF now < rule.initialWindowStartTime THEN 0
            ELSE rule.initialWindowStartTime
                    + ((now - rule.initialWindowStartTime) \div rule.timeWindow) * rule.timeWindow

notYetOpen(rule) == resolveWindowStart(rule) = 0 /\ rule.initialWindowStartTime > now

slip_checkSpendingRules(s, amount, provider) ==
    /\ sessionExists(s) /\ sessions[s].agent # NoAgent
    /\ matchedRules(s, provider) # {}
    /\ \A i \in matchedRules(s, provider) :
            ~notYetOpen(rules[s][i]) /\ amount <= rules[s][i].budget

\* checkSpendingRules, used by the validation and before the payment.
checkSpendingRules(s, amount, provider) ==
    /\ sessionExists(s) /\ sessions[s].agent # NoAgent
    /\ matchedRules(s, provider) # {}
    /\ \A i \in matchedRules(s, provider) :
            LET rule == rules[s][i]
                spend == windowSpends[s][i]
                currentSpent == IF spend.windowStart = resolveWindowStart(rule) THEN spend.spent ELSE 0
            IN IF rule.timeWindow = 0 THEN amount <= rule.budget
               ELSE ~notYetOpen(rule) /\ currentSpent + amount <= rule.budget

\* The window a payment counts into, opened anew when its start has moved.
currentWindow(s, i) ==
    LET start == resolveWindowStart(rules[s][i]) IN
    IF windowSpends[s][i].windowStart = start THEN windowSpends[s][i]
    ELSE [windowStart |-> start, spent |-> 0]

hasRoom(s, amount, provider) ==
    /\ sessions[s].active
    /\ matchedRules(s, provider) # {}
    /\ \A i \in matchedRules(s, provider) :
            IF rules[s][i].timeWindow = 0 THEN amount <= rules[s][i].budget
            ELSE ~notYetOpen(rules[s][i]) /\ currentWindow(s, i).spent + amount <= rules[s][i].budget

\* _consumeSpendingRules evaluates the rules anew, and reverts unless each has room.
consumeSpendingRules(s, amount, provider) ==
    /\ hasRoom(s, amount, provider)
    /\ windowSpends' = [windowSpends EXCEPT ![s] = [i \in 1..MaxRules |->
            IF i \in matchedRules(s, provider) /\ rules[s][i].timeWindow > 0
            THEN [currentWindow(s, i) EXCEPT !.spent = @ + amount]
            ELSE windowSpends[s][i]]]

-----------------------------------------------------------------------------
\* Payments and calls

\* What both the validation and the payment ask of an authorization.
authorizes(s, auth) ==
    /\ sessionExists(s) /\ sessions[s].agent # NoAgent
    /\ auth.token \in supportedTokens
    /\ auth.valid[1] <= now /\ now <= auth.valid[2]
    /\ auth.nonce \notin usedNonces[s]
    /\ auth.signer = sessions[s].agent

\* Whoever presents the agent's authorization, and for whatever provider.
pay(s, auth, provider) ==
    /\ authorizes(s, auth)
    /\ checkSpendingRules(s, auth.value, provider)
    /\ consumeSpendingRules(s, auth.value, provider)
    /\ usedNonces' = [usedNonces EXCEPT ![s] = @ \cup {auth.nonce}]
    /\ payments' = Append(payments, [s |-> s, nonce |-> auth.nonce, value |-> auth.value,
                                     provider |-> provider, at |-> now])

\* Called directly, by a relayer or by an operation of another sender of the
\* bundle.
executeTransferWithAuthorizationAndProvider(s, auth, provider) ==
    /\ pay(s, auth, provider)
    /\ UNCHANGED <<ownerVars, bundleVars, now>>

\* A limit of zero is none; the amount is that of an approve or a setBudget, or
\* the budget of the job a fund names, and zero for any other call.
isSessionGenericAllowed(s, call, amount) ==
    /\ sessionExists(s)
    /\ permissions[s][call].enabled
    /\ permissions[s][call].maxAmount = 0 \/ amount <= permissions[s][call].maxAmount

validSessionOp(op) ==
    /\ sessionExists(op.s)
    /\ op.signer = sessions[op.s].agent
    /\ \/ /\ op.kind = "payment"
          /\ authorizes(op.s, op.auth)
          /\ checkSpendingRules(op.s, op.auth.value, op.provider)
       \/ op.kind = "call" /\ isSessionGenericAllowed(op.s, op.call, op.amount)

\* The EntryPoint validates every operation of a bundle before it executes the
\* first; the owner's signature validates anything.
validateUserOp(op) ==
    /\ ~executing /\ Len(bundle) < MaxOps
    /\ op.signer = owner \/ validSessionOp(op)
    /\ bundle' = Append(bundle, op)
    /\ UNCHANGED <<ownerVars, spendVars, executing, now>>

nextOp ==
    /\ bundle # <<>>
    /\ bundle' = Tail(bundle)
    /\ executing' = (Tail(bundle) # <<>>)
    /\ UNCHANGED <<ownerVars, now>>

executePayment ==
    /\ nextOp
    /\ Head(bundle).kind = "payment"
    /\ pay(Head(bundle).s, Head(bundle).auth, Head(bundle).provider)

executeWithSession ==
    /\ nextOp
    /\ Head(bundle).kind = "call"
    /\ isSessionGenericAllowed(Head(bundle).s, Head(bundle).call, Head(bundle).amount)
    /\ UNCHANGED spendVars

\* The operation reverts: refused by then, or failed by the contract it calls.
opReverts == nextOp /\ UNCHANGED spendVars

Tick ==
    /\ bundle = <<>>
    /\ now < MaxTime
    /\ now' = now + 1
    /\ UNCHANGED <<ownerVars, spendVars, bundleVars>>

OwnerStep(sender) ==
    \/ \E newOwner \in Owners : transferOwnership(sender, newOwner)
    \/ \E token \in Tokens : addSupportedToken(sender, token)
    \/ \E s \in SessionIds :
        \/ \E agent \in Agents, given \in RuleLists : createSession(sender, s, agent, given)
        \/ revokeSession(sender, s)
        \/ \E expiresAt \in Expiries : setSessionExpiry(sender, s, expiresAt)
        \/ \E call \in Calls, enabled \in BOOLEAN, maxAmount \in Limits :
                setSessionSelectorPermission(sender, s, call, enabled, maxAmount)

Next ==
    \/ \E sender \in Owners : OwnerStep(sender)
    \/ \E s \in SessionIds, auth \in TransferAuthorization, provider \in Providers :
            executeTransferWithAuthorizationAndProvider(s, auth, provider)
    \/ \E op \in UserOps : validateUserOp(op)
    \/ executePayment
    \/ executeWithSession
    \/ opReverts
    \/ Tick

Spec == Init /\ [][Next]_vars

-----------------------------------------------------------------------------
\* Properties

\* No authorization is spent twice under a session: not by a relayer and a user
\* operation that carry it both, nor after the session was revoked and created
\* again.
NonceOnce ==
    \A m, n \in 1..Len(payments) :
        payments[m].s = payments[n].s /\ payments[m].nonce = payments[n].nonce => m = n

\* A payment whose validation passed finds room when it counts itself into the
\* windows: the two evaluate the session's rules separately, and the account pays
\* for an operation that was accepted and reverts.
ValidatedExecutes ==
    \A op \in PaymentOp :
        validSessionOp(op) => hasRoom(op.s, op.auth.value, op.provider)
=============================================================================
