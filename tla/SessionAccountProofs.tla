------------------------ MODULE SessionAccountProofs ------------------------
(***************************************************************************)
(* Theorems about SessionAccount, for every set of sessions, agents, rules *)
(* and nonces: type correctness, no authorization spent twice under a      *)
(* session, the agreement of validation and execution, and the budget of   *)
(* every window of every rule.                                             *)
(***************************************************************************)
EXTENDS SessionWindows, SumTheorems, SequenceTheorems, TLAPS

-----------------------------------------------------------------------------
\* Spending windows

LEMMA WindowStartNat ==
    ASSUME now \in Nat, NEW rule \in Rule
    PROVE  resolveWindowStart(rule) \in Nat
<1> DEFINE w == rule.timeWindow
           start == rule.initialWindowStartTime
<1>1. w \in Nat /\ start \in Nat
    BY DEF Rule
<1>2. CASE w = 0
    BY <1>2 DEF resolveWindowStart
<1>3. CASE w > 0 /\ start = 0
    <2>1. now % w \in Int /\ now % w <= now
        BY <1>1, <1>3
    <2> QED
        BY <1>1, <1>3, <2>1 DEF resolveWindowStart
<1>4. CASE w > 0 /\ start > 0 /\ now >= start
    <2>1. now - start \in Nat
        BY <1>1, <1>4
    <2>2. (now - start) \div w \in Nat
        BY <1>1, <1>4, <2>1
    <2>3. \A m, n \in Nat : m * n \in Nat
        OBVIOUS
    <2> HIDE DEF w, start
    <2>4. start + ((now - start) \div w) * w \in Nat
        BY <1>1, <2>2, <2>3
    <2> QED
        BY <1>1, <1>4, <2>4 DEF resolveWindowStart, w, start
<1>5. CASE w > 0 /\ start > 0 /\ ~(now >= start)
    BY <1>1, <1>5 DEF resolveWindowStart
<1> QED
    BY <1>1, <1>2, <1>3, <1>4, <1>5

LEMMA CurrentWindowTyped ==
    ASSUME SessionTypeOK, NEW s \in SessionIds, NEW i \in 1..MaxRules
    PROVE  currentWindow(s, i) \in [windowStart : Nat, spent : Nat]
<1>1. rules[s][i] \in Rule /\ now \in Nat
    BY DEF SessionTypeOK
<1>2. resolveWindowStart(rules[s][i]) \in Nat
    BY <1>1, WindowStartNat
<1>3. windowSpends[s][i] \in [windowStart : Nat, spent : Nat]
    <2>1. windowSpends \in [SessionIds -> [1..MaxRules -> [windowStart : Nat, spent : Nat]]]
        BY DEF SessionTypeOK
    <2>2. windowSpends[s] \in [1..MaxRules -> [windowStart : Nat, spent : Nat]]
        BY <2>1
    <2> QED
        BY <2>2
<1>4. [windowStart |-> resolveWindowStart(rules[s][i]), spent |-> 0] \in [windowStart : Nat, spent : Nat]
    BY <1>2
<1> QED
    BY <1>3, <1>4 DEF currentWindow

\* What a payment writes is well typed.
LEMMA PaymentTyped ==
    ASSUME SessionTypeOK, SessionAssumption,
           NEW s \in SessionIds, NEW auth \in TransferAuthorization, NEW provider \in Providers,
           pay(s, auth, provider)
    PROVE  /\ windowSpends' \in [SessionIds -> [1..MaxRules -> [windowStart : Nat, spent : Nat]]]
           /\ usedNonces' \in [SessionIds -> SUBSET Nonces]
           /\ payments' \in Seq(Payment)
<1>1. auth.value \in Nat /\ auth.value \in Values /\ auth.nonce \in Nonces
    BY DEF TransferAuthorization, SessionAssumption
<1>2. windowSpends' \in [SessionIds -> [1..MaxRules -> [windowStart : Nat, spent : Nat]]]
    <2> DEFINE Spend == [windowStart : Nat, spent : Nat]
               next == [i \in 1..MaxRules |->
                   IF i \in matchedRules(s, provider) /\ rules[s][i].timeWindow > 0
                   THEN [currentWindow(s, i) EXCEPT !.spent = @ + auth.value]
                   ELSE windowSpends[s][i]]
    <2>1. ASSUME NEW i \in 1..MaxRules
          PROVE  [currentWindow(s, i) EXCEPT !.spent = @ + auth.value] \in Spend
        <3>1. currentWindow(s, i) \in Spend
            BY CurrentWindowTyped
        <3> QED
            BY <3>1, <1>1
    <2>2. windowSpends \in [SessionIds -> [1..MaxRules -> Spend]]
        BY DEF SessionTypeOK
    <2>3. next \in [1..MaxRules -> Spend]
        BY <2>1, <2>2
    <2>4. windowSpends' = [windowSpends EXCEPT ![s] = next]
        BY DEF pay, consumeSpendingRules
    <2> HIDE DEF next, Spend
    <2>5. windowSpends' \in [SessionIds -> [1..MaxRules -> Spend]]
        BY <2>2, <2>3, <2>4
    <2> QED
        BY <2>5 DEF Spend
<1>3. usedNonces' \in [SessionIds -> SUBSET Nonces]
    BY <1>1 DEF pay, SessionTypeOK
<1>4. payments' \in Seq(Payment)
    <2>1. [s |-> s, nonce |-> auth.nonce, value |-> auth.value,
           provider |-> provider, at |-> now] \in Payment
        BY <1>1 DEF SessionTypeOK, Payment
    <2> QED
        BY <2>1 DEF pay, SessionTypeOK
<1> QED
    BY <1>2, <1>3, <1>4

\* The operation an execution takes from the bundle.
LEMMA NextOpTyped ==
    ASSUME SessionTypeOK, nextOp
    PROVE  /\ bundle' \in Seq(UserOps) /\ executing' \in BOOLEAN
           /\ Head(bundle) \in UserOps
           /\ Head(bundle).kind = "payment" => Head(bundle) \in PaymentOp
<1>1. bundle \in Seq(UserOps) /\ bundle # <<>>
    BY DEF SessionTypeOK, nextOp
<1>2. Head(bundle) \in UserOps /\ Tail(bundle) \in Seq(UserOps)
    BY <1>1
<1>3. Head(bundle).kind = "payment" => Head(bundle) \in PaymentOp
    BY <1>2 DEF UserOps, CallOp
<1> QED
    BY <1>2, <1>3 DEF nextOp

-----------------------------------------------------------------------------
\* Types

LEMMA OwnerTyped ==
    ASSUME SessionTypeOK, SessionAssumption, NEW sender \in Owners, OwnerStep(sender)
    PROVE  SessionTypeOK'
<1> USE DEF SessionTypeOK, onlyOwner, spendVars, bundleVars
<1>1. CASE \E newOwner \in Owners : transferOwnership(sender, newOwner)
    BY <1>1 DEF transferOwnership
<1>2. CASE \E token \in Tokens : addSupportedToken(sender, token)
    BY <1>2 DEF addSupportedToken
<1>3. ASSUME NEW s \in SessionIds, NEW agent \in Agents, NEW given \in RuleLists,
             createSession(sender, s, agent, given)
      PROVE  SessionTypeOK'
    <2>1. given \in Seq(Rule) /\ Len(given) \in 0..MaxRules
        BY DEF SessionAssumption
    <2>2. sessions' \in [SessionIds -> Session]
        <3> DEFINE new == [sessions[s] EXCEPT !.agent = agent, !.active = TRUE, !.ruleCount = Len(given)]
        <3>1. sessions \in [SessionIds -> Session]
            OBVIOUS
        <3>2. new \in Session
            <4>1. sessions[s] \in Session
                BY <3>1
            <4> QED
                BY <2>1, <4>1 DEF Session
        <3>3. sessions' = [sessions EXCEPT ![s] = new]
            <4>1. sessions' = opened(s, agent, given)
                BY <1>3 DEF createSession
            <4> QED
                BY <3>1, <4>1 DEF opened, Session
        <3> HIDE DEF new
        <3> QED
            BY <3>1, <3>2, <3>3
    <2>3. storedRules(s, given) \in [1..MaxRules -> Rule]
        <3>1. ASSUME NEW i \in 1..MaxRules
              PROVE  (IF i <= Len(given)
                      THEN [given[i] EXCEPT !.targetProviders = @ \cup rules[s][i].targetProviders]
                      ELSE rules[s][i]) \in Rule
            <4>1. rules[s][i] \in Rule
                OBVIOUS
            <4>2. CASE i <= Len(given)
                <5>1. given[i] \in Rule
                    BY <2>1, <4>2
                <5> QED
                    BY <4>1, <4>2, <5>1 DEF Rule
            <4> QED
                BY <4>1, <4>2
        <3> QED
            BY <3>1 DEF storedRules
    <2>4. rules' \in [SessionIds -> [1..MaxRules -> Rule]]
        BY <1>3, <2>3 DEF createSession
    <2> QED
        BY <1>3, <2>2, <2>4 DEF createSession
<1>4. ASSUME NEW s \in SessionIds, revokeSession(sender, s)
      PROVE  SessionTypeOK'
    BY <1>4 DEF revokeSession, Session
<1>5. ASSUME NEW s \in SessionIds, NEW expiresAt \in Expiries,
             setSessionExpiry(sender, s, expiresAt)
      PROVE  SessionTypeOK'
    BY <1>5 DEF setSessionExpiry, Session, SessionAssumption
<1>6. ASSUME NEW s \in SessionIds, NEW call \in Calls, NEW enabled \in BOOLEAN,
             NEW maxAmount \in Limits,
             setSessionSelectorPermission(sender, s, call, enabled, maxAmount)
      PROVE  SessionTypeOK'
    BY <1>6 DEF setSessionSelectorPermission, SessionAssumption
<1> HIDE DEF SessionTypeOK, onlyOwner, spendVars, bundleVars
<1> QED
    BY <1>1, <1>2, <1>3, <1>4, <1>5, <1>6 DEF OwnerStep

LEMMA SessionTypeStep ==
    ASSUME SessionTypeOK, SessionAssumption, [Next]_vars
    PROVE  SessionTypeOK'
<1>1. ASSUME NEW sender \in Owners, OwnerStep(sender)
      PROVE  SessionTypeOK'
    BY <1>1, OwnerTyped
<1>2. ASSUME NEW s \in SessionIds, NEW auth \in TransferAuthorization, NEW provider \in Providers,
             executeTransferWithAuthorizationAndProvider(s, auth, provider)
      PROVE  SessionTypeOK'
    <2>1. pay(s, auth, provider) /\ UNCHANGED <<ownerVars, bundleVars, now>>
        BY <1>2 DEF executeTransferWithAuthorizationAndProvider
    <2> QED
        BY <2>1, PaymentTyped DEF SessionTypeOK, ownerVars, bundleVars
<1>3. ASSUME NEW op \in UserOps, validateUserOp(op)
      PROVE  SessionTypeOK'
    BY <1>3 DEF validateUserOp, SessionTypeOK, ownerVars, spendVars
<1>4. CASE executePayment
    <2>1. nextOp /\ Head(bundle).kind = "payment"
          /\ pay(Head(bundle).s, Head(bundle).auth, Head(bundle).provider)
        BY <1>4 DEF executePayment
    <2>2. Head(bundle) \in PaymentOp /\ bundle' \in Seq(UserOps) /\ executing' \in BOOLEAN
        BY <2>1, NextOpTyped
    <2>3. /\ Head(bundle).s \in SessionIds /\ Head(bundle).auth \in TransferAuthorization
          /\ Head(bundle).provider \in Providers
        BY <2>2 DEF PaymentOp
    <2>4. UNCHANGED <<ownerVars, now>>
        BY <2>1 DEF nextOp
    <2> QED
        BY <2>1, <2>2, <2>3, <2>4, PaymentTyped DEF SessionTypeOK, ownerVars
<1>5. CASE executeWithSession \/ opReverts
    <2>1. nextOp /\ UNCHANGED spendVars
        BY <1>5 DEF executeWithSession, opReverts
    <2>2. bundle' \in Seq(UserOps) /\ executing' \in BOOLEAN
        BY <2>1, NextOpTyped
    <2> QED
        BY <2>1, <2>2 DEF nextOp, SessionTypeOK, ownerVars, spendVars
<1>6. CASE Tick
    BY <1>6 DEF Tick, SessionTypeOK, ownerVars, spendVars, bundleVars
<1>7. CASE UNCHANGED vars
    BY <1>7 DEF vars, SessionTypeOK, ownerVars, spendVars, bundleVars
<1> QED
    BY <1>1, <1>2, <1>3, <1>4, <1>5, <1>6, <1>7 DEF Next

LEMMA SessionTypeInit ==
    ASSUME SessionAssumption, Init
    PROVE  SessionTypeOK
<1>1. sessions \in [SessionIds -> Session]
    BY DEF Init, SessionAssumption, Session, NoSession
<1>2. rules \in [SessionIds -> [1..MaxRules -> Rule]]
    BY DEF Init, Rule, NoRule
<1>3. windowSpends \in [SessionIds -> [1..MaxRules -> [windowStart : Nat, spent : Nat]]]
    BY DEF Init
<1>4. /\ usedNonces \in [SessionIds -> SUBSET Nonces]
      /\ permissions \in [SessionIds -> [Calls -> [enabled : BOOLEAN, maxAmount : Nat]]]
    BY DEF Init
<1>5. payments \in Seq(Payment) /\ bundle \in Seq(UserOps)
    BY DEF Init
<1> QED
    BY <1>1, <1>2, <1>3, <1>4, <1>5 DEF Init, SessionTypeOK

\* SessionTypeOK is an invariant of the account: in particular no window starts
\* before time zero, whatever rules the owner gave.
THEOREM SessionTyped == Spec => []SessionTypeOK
<1>1. Init => SessionTypeOK
    BY SessionTypeInit, SessionAssumption
<1>2. SessionTypeOK /\ [Next]_vars => SessionTypeOK'
    BY SessionTypeStep, SessionAssumption
<1> QED
    BY <1>1, <1>2, PTL DEF Spec

-----------------------------------------------------------------------------
\* Authorizations

\* Every payment has used its nonce: what keeps the next one from using it.
NoncesUsed == \A n \in 1..Len(payments) : payments[n].nonce \in usedNonces[payments[n].s]

NonceInv == SessionTypeOK /\ NonceOnce /\ NoncesUsed

LEMMA PaymentKeepsNonces ==
    ASSUME NonceInv, NEW s \in SessionIds, NEW auth \in TransferAuthorization,
           NEW provider \in Providers, pay(s, auth, provider)
    PROVE  NonceOnce' /\ NoncesUsed'
<1> DEFINE e == [s |-> s, nonce |-> auth.nonce, value |-> auth.value,
                 provider |-> provider, at |-> now]
<1>1. payments \in Seq(Payment) /\ usedNonces \in [SessionIds -> SUBSET Nonces]
    BY DEF NonceInv, SessionTypeOK
<1>2. /\ payments' = Append(payments, e)
      /\ usedNonces' = [usedNonces EXCEPT ![s] = @ \cup {auth.nonce}]
      /\ auth.nonce \notin usedNonces[s]
    BY DEF pay, authorizes
<1>3. /\ Len(payments') = Len(payments) + 1 /\ Len(payments) \in Nat
      /\ \A n \in 1..Len(payments) : payments'[n] = payments[n]
      /\ payments'[Len(payments) + 1] = e
    <2> HIDE DEF e
    <2> QED
        BY <1>1, <1>2
<1>4. ASSUME NEW n \in 1..Len(payments)
      PROVE  payments[n].s \in SessionIds
    <2>1. payments[n] \in Payment
        BY <1>1
    <2> QED
        BY <2>1 DEF Payment
<1>5. NoncesUsed'
    <2>1. ASSUME NEW n \in 1..Len(payments)
          PROVE  payments'[n].nonce \in usedNonces'[payments'[n].s]
        <3>1. payments'[n] = payments[n] /\ payments[n].nonce \in usedNonces[payments[n].s]
            BY <1>3 DEF NonceInv, NoncesUsed
        <3>2. usedNonces[payments[n].s] \subseteq usedNonces'[payments[n].s]
            BY <1>1, <1>2, <1>4
        <3> QED
            BY <3>1, <3>2
    <2>2. e.nonce \in usedNonces'[e.s]
        BY <1>1, <1>2
    <2> QED
        BY <1>3, <2>1, <2>2 DEF NoncesUsed
<1>6. NonceOnce'
    <2>1. ASSUME NEW n \in 1..Len(payments), payments[n].s = e.s
          PROVE  payments[n].nonce # e.nonce
        BY <1>2, <2>1 DEF NonceInv, NoncesUsed
    <2>2. \A m, n \in 1..Len(payments) :
            payments[m].s = payments[n].s /\ payments[m].nonce = payments[n].nonce => m = n
        BY DEF NonceInv, NonceOnce
    <2>3. ASSUME NEW m \in 1..Len(payments'), NEW n \in 1..Len(payments'),
                 payments'[m].s = payments'[n].s, payments'[m].nonce = payments'[n].nonce
          PROVE  m = n
        <3>1. CASE m \in 1..Len(payments) /\ n \in 1..Len(payments)
            BY <1>3, <2>2, <2>3, <3>1
        <3>2. CASE m = Len(payments) + 1 /\ n \in 1..Len(payments)
            <4>1. payments'[m] = e /\ payments'[n] = payments[n]
                BY <1>3, <3>2
            <4> QED
                BY <2>1, <2>3, <3>2, <4>1
        <3>3. CASE n = Len(payments) + 1 /\ m \in 1..Len(payments)
            <4>1. payments'[n] = e /\ payments'[m] = payments[m]
                BY <1>3, <3>3
            <4> QED
                BY <2>1, <2>3, <3>3, <4>1
        <3> QED
            BY <1>3, <3>1, <3>2, <3>3
    <2> QED
        BY <2>3 DEF NonceOnce
<1> QED
    BY <1>5, <1>6

LEMMA NonceStep ==
    ASSUME NonceInv, [Next]_vars
    PROVE  NonceOnce' /\ NoncesUsed'
<1>1. ASSUME UNCHANGED <<payments, usedNonces>>
      PROVE  NonceOnce' /\ NoncesUsed'
    BY <1>1 DEF NonceInv, NonceOnce, NoncesUsed
<1>2. ASSUME NEW sender \in Owners, OwnerStep(sender)
      PROVE  UNCHANGED <<payments, usedNonces>>
    BY <1>2 DEF OwnerStep, transferOwnership, addSupportedToken, createSession, revokeSession,
                setSessionExpiry, setSessionSelectorPermission, spendVars
<1>3. ASSUME NEW s \in SessionIds, NEW auth \in TransferAuthorization, NEW provider \in Providers,
             executeTransferWithAuthorizationAndProvider(s, auth, provider)
      PROVE  NonceOnce' /\ NoncesUsed'
    BY <1>3, PaymentKeepsNonces DEF executeTransferWithAuthorizationAndProvider
<1>4. CASE executePayment
    <2>1. nextOp /\ Head(bundle).kind = "payment"
          /\ pay(Head(bundle).s, Head(bundle).auth, Head(bundle).provider)
        BY <1>4 DEF executePayment
    <2>2. Head(bundle) \in PaymentOp
        BY <2>1, NextOpTyped DEF NonceInv
    <2>3. /\ Head(bundle).s \in SessionIds /\ Head(bundle).auth \in TransferAuthorization
          /\ Head(bundle).provider \in Providers
        BY <2>2 DEF PaymentOp
    <2> QED
        BY <2>1, <2>3, PaymentKeepsNonces
<1>5. CASE \/ \E op \in UserOps : validateUserOp(op)
           \/ executeWithSession
           \/ opReverts
           \/ Tick
           \/ UNCHANGED vars
    <2>1. UNCHANGED <<payments, usedNonces>>
        BY <1>5 DEF validateUserOp, executeWithSession, opReverts, Tick, vars, spendVars
    <2> QED
        BY <1>1, <2>1
<1> QED
    BY <1>1, <1>2, <1>3, <1>4, <1>5 DEF Next

\* No authorization is spent twice under a session, by a relayer or by a user
\* operation, before or after the session is created again.
THEOREM SessionNonceOnce == Spec => []NonceOnce
<1>1. Init => NonceInv
    <2>1. Init => SessionTypeOK
        BY SessionTypeInit, SessionAssumption
    <2>2. Init => NonceOnce /\ NoncesUsed
        BY DEF Init, NonceOnce, NoncesUsed
    <2> QED
        BY <2>1, <2>2 DEF NonceInv
<1>2. NonceInv /\ [Next]_vars => NonceInv'
    BY SessionTypeStep, NonceStep, SessionAssumption DEF NonceInv
<1>3. NonceInv => NonceOnce
    BY DEF NonceInv
<1> QED
    BY <1>1, <1>2, <1>3, PTL DEF Spec

-----------------------------------------------------------------------------
\* Validation and execution

LEMMA CheckFindsRoom ==
    ASSUME NEW s, NEW amount, NEW provider, checkSpendingRules(s, amount, provider)
    PROVE  hasRoom(s, amount, provider)
<1>1. ASSUME NEW i \in matchedRules(s, provider)
      PROVE  IF rules[s][i].timeWindow = 0 THEN amount <= rules[s][i].budget
             ELSE ~notYetOpen(rules[s][i]) /\ currentWindow(s, i).spent + amount <= rules[s][i].budget
    <2>1. CASE rules[s][i].timeWindow = 0
        BY <1>1, <2>1 DEF checkSpendingRules
    <2>2. CASE rules[s][i].timeWindow # 0
        <3>1. currentWindow(s, i).spent =
                IF windowSpends[s][i].windowStart = resolveWindowStart(rules[s][i])
                THEN windowSpends[s][i].spent ELSE 0
            BY DEF currentWindow
        <3> QED
            BY <1>1, <2>2, <3>1 DEF checkSpendingRules
    <2> QED
        BY <2>1, <2>2
<1> QED
    BY <1>1 DEF checkSpendingRules, hasRoom, sessionExists

\* A payment that was validated finds room in every window it counts into.
THEOREM SessionValidatedExecutes == Spec => []ValidatedExecutes
<1>1. ValidatedExecutes
    <2>1. ASSUME NEW op \in PaymentOp, validSessionOp(op)
          PROVE  hasRoom(op.s, op.auth.value, op.provider)
        <3>1. op.kind # "call"
            BY DEF PaymentOp
        <3>2. checkSpendingRules(op.s, op.auth.value, op.provider)
            BY <2>1, <3>1 DEF validSessionOp
        <3> QED
            BY <3>2, CheckFindsRoom
    <2> QED
        BY <2>1 DEF ValidatedExecutes
<1> QED
    BY <1>1, PTL

-----------------------------------------------------------------------------
\* Windows of a rule

\* More windows take more time.
LEMMA LaterWindow ==
    ASSUME NEW w \in Nat, NEW a \in Nat, NEW b \in Nat, a <= b
    PROVE  a * w <= b * w
<1>1. PICK d \in Nat : b = a + d
    <2>1. b - a \in Nat /\ b = a + (b - a)
        OBVIOUS
    <2> QED
        BY <2>1
<1>2. (a + d) * w = a * w + d * w
    OBVIOUS
<1>3. a * w \in Nat /\ d * w \in Nat
    OBVIOUS
<1> QED
    BY <1>1, <1>2, <1>3

\* Windows follow one another: a later window opens later, and one that opens
\* before another ends is no later than it.
LEMMA WindowOrder ==
    ASSUME NEW rule \in Rule, NEW a \in Nat, NEW b \in Nat
    PROVE  /\ windowOpens(rule, a) \in Nat
           /\ a <= b => windowOpens(rule, a) <= windowOpens(rule, b)
           /\ windowOpens(rule, a) < windowOpens(rule, b + 1) => a <= b
<1> DEFINE w == rule.timeWindow
           start == rule.initialWindowStartTime
<1>1. w \in Nat /\ start \in Nat
    BY DEF Rule
<1> HIDE DEF w, start
<1>2. a * w \in Nat /\ b * w \in Nat /\ (b + 1) * w \in Nat
    BY <1>1
<1>3. a <= b => a * w <= b * w
    BY <1>1, LaterWindow
<1>4. ~(a <= b) => (b + 1) * w <= a * w
    <2>1. ~(a <= b) => b + 1 <= a
        OBVIOUS
    <2> QED
        BY <1>1, <2>1, LaterWindow
<1>5. /\ windowOpens(rule, a) = start + a * w
      /\ windowOpens(rule, b) = start + b * w
      /\ windowOpens(rule, b + 1) = start + (b + 1) * w
    BY DEF windowOpens, w, start
<1> QED
    BY <1>1, <1>2, <1>3, <1>4, <1>5

LEMMA Division ==
    ASSUME NEW t \in Nat, NEW w \in Nat, w > 0
    PROVE  /\ t \div w \in Nat
           /\ (t \div w) * w <= t /\ t < (t \div w + 1) * w
           /\ t - (t % w) = (t \div w) * w
<1>1. t \div w \in Nat
    OBVIOUS
<1>2. t = w * (t \div w) + (t % w) /\ t % w \in 0..(w - 1)
    OBVIOUS
<1>3. (t \div w + 1) * w = (t \div w) * w + w
    BY <1>1
<1>4. w * (t \div w) = (t \div w) * w
    BY <1>1
<1>5. (t \div w) * w \in Nat
    BY <1>1
<1> QED
    BY <1>1, <1>2, <1>3, <1>4, <1>5

\* From its first window on, a rule's current window is the one that now is in.
LEMMA CurrentWindow ==
    ASSUME now \in Nat, NEW rule \in Rule, rule.timeWindow > 0, ~notYetOpen(rule)
    PROVE  /\ rule.initialWindowStartTime <= now
           /\ \E k \in Nat :
                /\ resolveWindowStart(rule) = windowOpens(rule, k)
                /\ windowOpens(rule, k) <= now /\ now < windowOpens(rule, k + 1)
<1> DEFINE w == rule.timeWindow
           start == rule.initialWindowStartTime
           t == now - start
<1>1. w \in Nat /\ start \in Nat /\ w > 0
    BY DEF Rule
<1>2. start <= now
    <2>1. ~(start <= now) => start > 0 /\ now < start
        BY <1>1
    <2>2. ~(start <= now) => resolveWindowStart(rule) = 0
        BY <1>1, <2>1 DEF resolveWindowStart
    <2> QED
        BY <1>1, <2>2 DEF notYetOpen
<1>3. t \in Nat /\ now = start + t
    BY <1>1, <1>2
<1>4. resolveWindowStart(rule) = start + (t \div w) * w
    <2>1. CASE start = 0
        <3>1. resolveWindowStart(rule) = now - (now % w)
            BY <1>1, <2>1 DEF resolveWindowStart
        <3>2. t = now
            BY <1>1, <2>1
        <3> HIDE DEF w, t
        <3>3. now - (now % w) = (t \div w) * w /\ t \div w \in Nat
            BY <1>1, <3>2, Division
        <3>4. (t \div w) * w \in Nat
            BY <1>1, <3>3
        <3> QED
            BY <2>1, <3>1, <3>3, <3>4
    <2>2. CASE start # 0
        BY <1>1, <1>2, <2>2 DEF resolveWindowStart
    <2> QED
        BY <2>1, <2>2
<1>5. /\ windowOpens(rule, t \div w) = start + (t \div w) * w
      /\ windowOpens(rule, t \div w + 1) = start + (t \div w + 1) * w
    BY DEF windowOpens
<1> HIDE DEF w, start, t
<1>6. /\ t \div w \in Nat
      /\ (t \div w) * w <= t /\ t < (t \div w + 1) * w
    BY <1>1, <1>3, Division
<1>7. (t \div w) * w \in Nat /\ (t \div w + 1) * w \in Nat
    BY <1>1, <1>6
<1>8. /\ windowOpens(rule, t \div w) <= now
      /\ now < windowOpens(rule, t \div w + 1)
    BY <1>1, <1>3, <1>5, <1>6, <1>7
<1>9. start <= now /\ resolveWindowStart(rule) = windowOpens(rule, t \div w)
    BY <1>2, <1>4, <1>5
<1> QED
    BY <1>6, <1>8, <1>9 DEF start

\* Windows are not empty, and no two open at the same time.
LEMMA WindowsOpen ==
    ASSUME NEW rule \in Rule, rule.timeWindow > 0, NEW a \in Nat, NEW b \in Nat
    PROVE  /\ windowOpens(rule, a) < windowOpens(rule, a + 1)
           /\ windowOpens(rule, a) = windowOpens(rule, b) => a = b
<1>1. ASSUME NEW k \in Nat
      PROVE  windowOpens(rule, k) < windowOpens(rule, k + 1)
    <2> DEFINE w == rule.timeWindow
               start == rule.initialWindowStartTime
    <2>1. w \in Nat /\ start \in Nat /\ w > 0
        BY DEF Rule
    <2>2. windowOpens(rule, k) = start + k * w /\ windowOpens(rule, k + 1) = start + (k + 1) * w
        BY DEF windowOpens
    <2> HIDE DEF w, start
    <2>3. (k + 1) * w = k * w + w /\ k * w \in Nat
        BY <2>1
    <2> QED
        BY <2>1, <2>2, <2>3
<1>2. /\ windowOpens(rule, a) < windowOpens(rule, b + 1) => a <= b
      /\ windowOpens(rule, b) < windowOpens(rule, a + 1) => b <= a
    BY WindowOrder
<1>3. windowOpens(rule, a) < windowOpens(rule, a + 1) /\ windowOpens(rule, b) < windowOpens(rule, b + 1)
    BY <1>1
<1> QED
    BY <1>2, <1>3

-----------------------------------------------------------------------------
\* What a window counts

\* A window counts finitely many payments, and natural amounts.
LEMMA CountedTyped ==
    ASSUME payments \in Seq(Payment), SessionAssumption, before \in [SessionIds -> Nat],
           NEW s \in SessionIds, NEW rule, NEW k
    PROVE  /\ Counted(s, rule, k) \subseteq 1..Len(payments)
           /\ IsFiniteSet(Counted(s, rule, k))
           /\ \A n \in Counted(s, rule, k) : amounts[n] \in Nat
           /\ spentIn(s, rule, k) \in Nat
<1>1. Counted(s, rule, k) \subseteq 1..Len(payments)
    <2>1. before[s] \in Nat /\ Len(payments) \in Nat
        OBVIOUS
    <2> QED
        BY <2>1 DEF Counted, Governed
<1>2. IsFiniteSet(Counted(s, rule, k))
    <2>1. IsFiniteSet(1..Len(payments))
        BY FS_Interval
    <2> QED
        BY <1>1, <2>1, FS_Subset
<1>3. \A n \in Counted(s, rule, k) : amounts[n] \in Nat
    <2>1. ASSUME NEW n \in 1..Len(payments)
          PROVE  amounts[n] \in Nat
        <3>1. payments[n] \in Payment /\ amounts[n] = payments[n].value
            BY DEF amounts
        <3>2. payments[n].value \in Values
            BY <3>1 DEF Payment
        <3> QED
            BY <3>1, <3>2 DEF SessionAssumption
    <2> QED
        BY <1>1, <2>1
<1> QED
    BY <1>1, <1>2, <1>3, SumNat DEF spentIn

\* A window that counts no payment has spent nothing.
LEMMA NothingCounted ==
    ASSUME NEW s, NEW rule, NEW k, Counted(s, rule, k) = {}
    PROVE  spentIn(s, rule, k) = 0
BY SumEmpty DEF spentIn

\* A payment appended to the list counts into the window it is made in, of the
\* rules it matches.
CountsInto(e, s, rule, k) ==
    /\ e.s = s /\ matchesServiceProvider(rule, e.provider)
    /\ windowOpens(rule, k) <= e.at /\ e.at < windowOpens(rule, k + 1)

\* What appending a payment leaves and adds.
LEMMA Appended ==
    ASSUME payments \in Seq(Payment), NEW e, payments' = Append(payments, e)
    PROVE  /\ Len(payments) \in Nat /\ Len(payments') = Len(payments) + 1
           /\ \A n \in 1..Len(payments) : payments'[n] = payments[n]
           /\ payments'[Len(payments) + 1] = e
OBVIOUS

\* A payment appended joins those a rule is about if the rule matches it.
LEMMA GovernedGrows ==
    ASSUME payments \in Seq(Payment), before \in [SessionIds -> Nat], UNCHANGED before,
           NEW s \in SessionIds, before[s] <= Len(payments),
           NEW rule, NEW e \in Payment, payments' = Append(payments, e)
    PROVE  Governed(s, rule)' =
              Governed(s, rule) \cup
              (IF e.s = s /\ matchesServiceProvider(rule, e.provider) THEN {Len(payments) + 1} ELSE {})
<1> DEFINE N == Len(payments)
           P(p) == p.s = s /\ matchesServiceProvider(rule, p.provider)
<1>1. /\ N \in Nat /\ Len(payments') = N + 1 /\ payments'[N + 1] = e
      /\ \A n \in 1..N : payments'[n] = payments[n]
    BY Appended
<1>2. Governed(s, rule)' = {n \in (before[s] + 1)..(N + 1) : P(payments'[n])}
    BY <1>1 DEF Governed, matchesServiceProvider
<1>3. Governed(s, rule) = {n \in (before[s] + 1)..N : P(payments[n])}
    BY DEF Governed
<1> HIDE DEF P
<1>4. before[s] \in Nat /\ before[s] <= N
    OBVIOUS
<1> HIDE DEF N
<1>5. (before[s] + 1)..(N + 1) = ((before[s] + 1)..N) \cup {N + 1} /\ (before[s] + 1)..N \subseteq 1..N
    BY <1>1, <1>4
<1>6. Governed(s, rule)' = Governed(s, rule) \cup (IF P(e) THEN {N + 1} ELSE {})
    BY <1>1, <1>2, <1>3, <1>5
<1> QED
    BY <1>6 DEF N, P

\* It joins those a window counts if it is made in the window.
LEMMA CountedGrows ==
    ASSUME payments \in Seq(Payment), before \in [SessionIds -> Nat], UNCHANGED before,
           NEW s \in SessionIds, before[s] <= Len(payments),
           NEW rule, NEW k, NEW e \in Payment, payments' = Append(payments, e)
    PROVE  Counted(s, rule, k)' =
              Counted(s, rule, k) \cup
              (IF CountsInto(e, s, rule, k) THEN {Len(payments) + 1} ELSE {})
<1> DEFINE In(p) == windowOpens(rule, k) <= p.at /\ p.at < windowOpens(rule, k + 1)
           G == Governed(s, rule)
           H == Governed(s, rule)'
           N == Len(payments)
           Q == e.s = s /\ matchesServiceProvider(rule, e.provider)
<1>1. /\ N \in Nat /\ payments'[N + 1] = e
      /\ \A n \in 1..N : payments'[n] = payments[n]
    BY Appended
<1>2. H = G \cup (IF Q THEN {N + 1} ELSE {})
    BY GovernedGrows
<1>3. G \subseteq 1..N
    <2>1. before[s] \in Nat
        OBVIOUS
    <2> QED
        BY <1>1, <2>1 DEF Governed
<1>4. Counted(s, rule, k)' = {n \in H : In(payments'[n])}
    BY DEF Counted, windowOpens
<1>5. Counted(s, rule, k) = {n \in G : In(payments[n])}
    BY DEF Counted
<1>6. CountsInto(e, s, rule, k) <=> Q /\ In(e)
    BY DEF CountsInto
<1> HIDE DEF In, G, H, N, Q
<1>7. {n \in H : In(payments'[n])} =
        {n \in G : In(payments[n])} \cup (IF Q /\ In(e) THEN {N + 1} ELSE {})
    BY <1>1, <1>2, <1>3
<1>8. Counted(s, rule, k)' =
        Counted(s, rule, k) \cup (IF CountsInto(e, s, rule, k) THEN {N + 1} ELSE {})
    BY <1>4, <1>5, <1>6, <1>7
<1> QED
    BY <1>8 DEF N

\* It adds its value to what such a window has spent, and to no other.
LEMMA SpentGrows ==
    ASSUME payments \in Seq(Payment), before \in [SessionIds -> Nat], UNCHANGED before,
           NEW s \in SessionIds, before[s] <= Len(payments),
           NEW rule, NEW k, NEW e \in Payment, payments' = Append(payments, e)
    PROVE  spentIn(s, rule, k)' =
              spentIn(s, rule, k) + (IF CountsInto(e, s, rule, k) THEN e.value ELSE 0)
<1> DEFINE f == amounts
           g == amounts'
           S == Counted(s, rule, k)
           T == Counted(s, rule, k)'
           N == Len(payments)
<1>1. /\ N \in Nat /\ Len(payments') = N + 1 /\ payments'[N + 1] = e
      /\ \A n \in 1..N : payments'[n] = payments[n]
    BY Appended
<1>2. /\ S \subseteq 1..N /\ IsFiniteSet(S) /\ \A n \in S : f[n] \in Nat
      /\ spentIn(s, rule, k) \in Nat
    BY CountedTyped, SessionAssumption
<1>3. T = S \cup (IF CountsInto(e, s, rule, k) THEN {N + 1} ELSE {})
    BY CountedGrows
<1>4. \A n \in 1..N : f[n] = payments[n].value
    BY DEF amounts
<1>5. \A n \in 1..(N + 1) : g[n] = payments'[n].value
    BY <1>1 DEF amounts
<1>6. e.value \in Nat
    BY SessionAssumption DEF Payment
<1>7. spentIn(s, rule, k) = SumFunctionOnSet(f, S) /\ spentIn(s, rule, k)' = SumFunctionOnSet(g, T)
    BY DEF spentIn
<1> HIDE DEF f, g, S, T, N
<1>8. \A n \in S : f[n] = g[n]
    BY <1>1, <1>2, <1>4, <1>5
<1>9. SumFunctionOnSet(f, S) = SumFunctionOnSet(g, S)
    BY <1>2, <1>8, SumSame
<1>10. N + 1 \notin S /\ g[N + 1] = e.value /\ \A n \in S \cup {N + 1} : g[n] \in Int
    BY <1>1, <1>2, <1>5, <1>6, <1>8
<1>11. SumFunctionOnSet(g, S \cup {N + 1}) = g[N + 1] + SumFunctionOnSet(g, S)
    BY <1>2, <1>10, SumAdd
<1>12. CASE CountsInto(e, s, rule, k)
    BY <1>2, <1>3, <1>6, <1>7, <1>9, <1>10, <1>11, <1>12
<1>13. CASE ~CountsInto(e, s, rule, k)
    BY <1>2, <1>3, <1>7, <1>9, <1>13
<1> QED
    BY <1>12, <1>13

-----------------------------------------------------------------------------
\* The budget of every window

\* What the stored total of a rule says of its history: no window is overspent;
\* the stored total, where it stands for a window, is at least what that window
\* counts; and it stands for the last window that counts anything.
WindowKept(s, rule, stored, k) ==
    /\ spentIn(s, rule, k) <= rule.budget
    /\ stored.windowStart = windowOpens(rule, k) => spentIn(s, rule, k) <= stored.spent
    /\ Counted(s, rule, k) # {} =>
          \E m \in Nat : /\ k <= m
                         /\ stored.windowStart = windowOpens(rule, m)
                         /\ windowOpens(rule, m) <= now

RuleKept(s, rule, stored) ==
    /\ \A k \in Nat : WindowKept(s, rule, stored, k)
    /\ \A n \in Governed(s, rule) : rule.initialWindowStartTime <= payments[n].at

RulesKept ==
    \A s \in SessionIds : \A i \in 1..sessions[s].ruleCount :
        rules[s][i].timeWindow > 0 => RuleKept(s, rules[s][i], windowSpends[s][i])

WindowInv ==
    /\ SessionTypeOK
    /\ before \in [SessionIds -> Nat]
    /\ \A s \in SessionIds : before[s] <= Len(payments)
    /\ \A n \in 1..Len(payments) : payments[n].at <= now
    /\ RulesKept

\* What WindowInv says of one rule in use.
LEMMA RuleInUse ==
    ASSUME WindowInv, NEW s \in SessionIds, NEW i \in 1..sessions[s].ruleCount
    PROVE  /\ i \in 1..MaxRules /\ rules[s][i] \in Rule
           /\ windowSpends[s][i] \in [windowStart : Nat, spent : Nat]
           /\ rules[s][i].timeWindow > 0 => RuleKept(s, rules[s][i], windowSpends[s][i])
<1>1. sessions[s] \in Session /\ MaxRules \in Nat
    BY SessionAssumption DEF WindowInv, SessionTypeOK
<1>2. i \in 1..MaxRules
    BY <1>1 DEF Session
<1>3. SessionTypeOK /\ RulesKept
    BY DEF WindowInv
<1>4. rules[s] \in [1..MaxRules -> Rule]
    BY <1>3 DEF SessionTypeOK
<1>5. windowSpends[s] \in [1..MaxRules -> [windowStart : Nat, spent : Nat]]
    BY <1>3 DEF SessionTypeOK
<1>6. rules[s][i] \in Rule
    BY <1>2, <1>4
<1>7. windowSpends[s][i] \in [windowStart : Nat, spent : Nat]
    BY <1>2, <1>5
<1> QED
    BY <1>2, <1>3, <1>6, <1>7 DEF RulesKept

\* A session that is created has no history: its windows count nothing.
LEMMA NewSessionKept ==
    ASSUME NEW s \in SessionIds, NEW rule \in Rule, NEW stored \in [windowStart : Nat, spent : Nat],
           payments' \in Seq(Payment), before'[s] = Len(payments')
    PROVE  RuleKept(s, rule, stored)'
<1>1. Governed(s, rule)' = {}
    <2>1. Len(payments') \in Nat
        OBVIOUS
    <2>2. (before'[s] + 1)..Len(payments') = {}
        BY <2>1
    <2> QED
        BY <2>2 DEF Governed
<1>2. ASSUME NEW k \in Nat
      PROVE  Counted(s, rule, k)' = {} /\ spentIn(s, rule, k)' = 0
    <2>1. Counted(s, rule, k)' = {}
        BY <1>1 DEF Counted
    <2> QED
        BY <2>1, SumEmpty DEF spentIn
<1>3. rule.budget \in Nat /\ stored.spent \in Nat
    BY DEF Rule
<1> QED
    BY <1>1, <1>2, <1>3 DEF RuleKept, WindowKept

\* Time passes, and everything else about a rule stays.
LEMMA LaterKept ==
    ASSUME NEW s \in SessionIds, NEW rule \in Rule, NEW stored \in [windowStart : Nat, spent : Nat],
           RuleKept(s, rule, stored), now \in Nat, now' \in Nat, now <= now',
           payments' = payments, before'[s] = before[s]
    PROVE  RuleKept(s, rule, stored)'
<1>1. Governed(s, rule)' = Governed(s, rule)
    BY DEF Governed, matchesServiceProvider
<1>2. ASSUME NEW k \in Nat
      PROVE  Counted(s, rule, k)' = Counted(s, rule, k) /\ spentIn(s, rule, k)' = spentIn(s, rule, k)
    BY <1>1 DEF Counted, spentIn, amounts, windowOpens
<1>3. ASSUME NEW k \in Nat
      PROVE  WindowKept(s, rule, stored, k)'
    <2>1. WindowKept(s, rule, stored, k)
        BY DEF RuleKept
    <2>2. ASSUME NEW m \in Nat
          PROVE  windowOpens(rule, m) \in Nat /\ windowOpens(rule, m)' = windowOpens(rule, m)
        BY WindowOrder DEF windowOpens
    <2>3. /\ spentIn(s, rule, k)' <= rule.budget
          /\ stored.windowStart = windowOpens(rule, k)' => spentIn(s, rule, k)' <= stored.spent
        BY <1>2, <2>1, <2>2 DEF WindowKept
    <2>4. Counted(s, rule, k)' # {} =>
            \E m \in Nat : /\ k <= m
                           /\ stored.windowStart = windowOpens(rule, m)'
                           /\ windowOpens(rule, m)' <= now'
        <3>1. SUFFICES ASSUME Counted(s, rule, k)' # {}
                       PROVE  \E m \in Nat : /\ k <= m
                                             /\ stored.windowStart = windowOpens(rule, m)'
                                             /\ windowOpens(rule, m)' <= now'
            OBVIOUS
        <3>2. PICK m \in Nat : /\ k <= m /\ stored.windowStart = windowOpens(rule, m)
                               /\ windowOpens(rule, m) <= now
            BY <1>2, <2>1, <3>1 DEF WindowKept
        <3>3. windowOpens(rule, m)' <= now' /\ stored.windowStart = windowOpens(rule, m)'
            BY <2>2, <3>2
        <3> QED
            BY <3>2, <3>3
    <2> QED
        BY <2>3, <2>4 DEF WindowKept
<1> QED
    BY <1>1, <1>3 DEF RuleKept

\* A payment that a rule does not count leaves its windows alone.
LEMMA OtherPaymentKept ==
    ASSUME payments \in Seq(Payment), before \in [SessionIds -> Nat], UNCHANGED <<before, now>>,
           NEW s \in SessionIds, before[s] <= Len(payments),
           NEW rule \in Rule, NEW stored \in [windowStart : Nat, spent : Nat],
           RuleKept(s, rule, stored),
           NEW e \in Payment, payments' = Append(payments, e),
           ~(e.s = s /\ matchesServiceProvider(rule, e.provider))
    PROVE  RuleKept(s, rule, stored)'
<1>1. Governed(s, rule)' = Governed(s, rule)
    BY GovernedGrows
<1>2. ASSUME NEW k \in Nat
      PROVE  Counted(s, rule, k)' = Counted(s, rule, k) /\ spentIn(s, rule, k)' = spentIn(s, rule, k)
    <2>1. ~CountsInto(e, s, rule, k)
        BY DEF CountsInto
    <2>2. spentIn(s, rule, k) \in Nat
        BY CountedTyped, SessionAssumption
    <2>3. Counted(s, rule, k)' = Counted(s, rule, k)
        <3>1. Counted(s, rule, k)' =
                Counted(s, rule, k) \cup (IF CountsInto(e, s, rule, k) THEN {Len(payments) + 1} ELSE {})
            BY CountedGrows
        <3> QED
            BY <2>1, <3>1
    <2>4. spentIn(s, rule, k)' = spentIn(s, rule, k) + (IF CountsInto(e, s, rule, k) THEN e.value ELSE 0)
        BY SpentGrows
    <2> QED
        BY <2>1, <2>2, <2>3, <2>4
<1>3. ASSUME NEW k \in Nat
      PROVE  WindowKept(s, rule, stored, k)'
    BY <1>2 DEF RuleKept, WindowKept, windowOpens
<1>4. ASSUME NEW n \in Governed(s, rule)
      PROVE  payments'[n] = payments[n]
    <2>1. n \in 1..Len(payments)
        <3>1. before[s] \in Nat /\ Len(payments) \in Nat
            OBVIOUS
        <3> QED
            BY <3>1 DEF Governed
    <2> QED
        BY <2>1, Appended
<1> QED
    BY <1>1, <1>3, <1>4 DEF RuleKept

\* A payment a rule counts found room in its current window, which is the only
\* one it adds to.
LEMMA CountedPaymentKept ==
    ASSUME payments \in Seq(Payment), before \in [SessionIds -> Nat], UNCHANGED <<before, now>>,
           now \in Nat, \A n \in 1..Len(payments) : payments[n].at <= now,
           NEW s \in SessionIds, before[s] <= Len(payments),
           NEW rule \in Rule, rule.timeWindow > 0, ~notYetOpen(rule),
           NEW stored \in [windowStart : Nat, spent : Nat], RuleKept(s, rule, stored),
           NEW e \in Payment, payments' = Append(payments, e), e.at = now,
           e.s = s, matchesServiceProvider(rule, e.provider),
           NEW room \in Nat,
           room = IF stored.windowStart = resolveWindowStart(rule) THEN stored.spent ELSE 0,
           room + e.value <= rule.budget,
           NEW next \in [windowStart : Nat, spent : Nat],
           next.windowStart = resolveWindowStart(rule), next.spent = room + e.value
    PROVE  RuleKept(s, rule, next)'
<1>1. PICK c \in Nat : /\ resolveWindowStart(rule) = windowOpens(rule, c)
                       /\ windowOpens(rule, c) <= now /\ now < windowOpens(rule, c + 1)
    BY CurrentWindow
<1>2. rule.initialWindowStartTime <= now
    BY CurrentWindow
<1>3. /\ e.value \in Nat /\ rule.budget \in Nat /\ rule.initialWindowStartTime \in Nat
      /\ stored.spent \in Nat
    <2>1. e.value \in Values
        BY DEF Payment
    <2> QED
        BY <2>1, SessionAssumption DEF Rule
<1>4. ASSUME NEW k \in Nat
      PROVE  /\ windowOpens(rule, k) \in Nat /\ spentIn(s, rule, k) \in Nat
             /\ windowOpens(rule, k)' = windowOpens(rule, k)
    BY WindowOrder, CountedTyped, SessionAssumption DEF windowOpens
<1>5. windowOpens(rule, c) \in Nat /\ windowOpens(rule, c + 1) \in Nat
    <2>1. c + 1 \in Nat
        OBVIOUS
    <2> QED
        BY <1>4, <2>1
<1>6. \A n \in Governed(s, rule) : n \in 1..Len(payments) /\ payments'[n] = payments[n]
    <2>1. before[s] \in Nat /\ Len(payments) \in Nat
        OBVIOUS
    <2>2. \A n \in Governed(s, rule) : n \in 1..Len(payments)
        BY <2>1 DEF Governed
    <2> QED
        BY <2>2, Appended
<1>7. ASSUME NEW k \in Nat, Counted(s, rule, k) # {}
      PROVE  k <= c
    <2>1. PICK n \in Governed(s, rule) : windowOpens(rule, k) <= payments[n].at
        BY <1>7 DEF Counted
    <2>2. n \in 1..Len(payments) /\ payments[n] \in Payment
        BY <1>6
    <2>3. payments[n].at <= now /\ payments[n].at \in Nat
        BY <2>2 DEF Payment
    <2>4. windowOpens(rule, k) \in Nat
        BY <1>4
    <2>5. windowOpens(rule, k) < windowOpens(rule, c + 1)
        <3>1. now \in Nat /\ now < windowOpens(rule, c + 1)
            BY <1>1
        <3>2. windowOpens(rule, k) <= now
            BY <2>1, <2>3, <2>4, <3>1
        <3> QED
            BY <1>5, <2>4, <3>1, <3>2
    <2> QED
        BY <2>5, WindowOrder
<1>8. spentIn(s, rule, c) <= room
    <2>1. CASE stored.windowStart = windowOpens(rule, c)
        <3>1. WindowKept(s, rule, stored, c)
            BY DEF RuleKept
        <3> QED
            BY <1>1, <2>1, <3>1 DEF WindowKept
    <2>2. CASE stored.windowStart # windowOpens(rule, c)
        <3>1. Counted(s, rule, c) = {}
            <4>1. SUFFICES ASSUME Counted(s, rule, c) # {} PROVE FALSE
                OBVIOUS
            <4>2. PICK m \in Nat : /\ c <= m /\ stored.windowStart = windowOpens(rule, m)
                                   /\ windowOpens(rule, m) <= now
                BY <4>1 DEF RuleKept, WindowKept
            <4>3. windowOpens(rule, m) \in Nat
                BY <1>4, <4>2
            <4>4. windowOpens(rule, m) < windowOpens(rule, c + 1)
                BY <1>1, <1>5, <4>2, <4>3
            <4>5. m <= c
                BY <4>4, WindowOrder
            <4>6. m = c
                BY <4>2, <4>5
            <4> QED
                BY <2>2, <4>2, <4>6
        <3>2. spentIn(s, rule, c) = 0
            BY <3>1, NothingCounted
        <3> QED
            BY <3>2
    <2> QED
        BY <2>1, <2>2
<1>9. ASSUME NEW k \in Nat
      PROVE  CountsInto(e, s, rule, k) <=> k = c
    <2>1. CountsInto(e, s, rule, k) <=>
            windowOpens(rule, k) <= now /\ now < windowOpens(rule, k + 1)
        BY DEF CountsInto
    <2>2. ASSUME windowOpens(rule, k) <= now, now < windowOpens(rule, k + 1)
          PROVE  k = c
        <3>1. k + 1 \in Nat
            OBVIOUS
        <3>2. windowOpens(rule, k) \in Nat /\ windowOpens(rule, k + 1) \in Nat
            BY <1>4, <3>1
        <3>3. windowOpens(rule, k) < windowOpens(rule, c + 1)
              /\ windowOpens(rule, c) < windowOpens(rule, k + 1)
            BY <1>1, <1>5, <2>2, <3>2
        <3>4. k <= c /\ c <= k
            BY <3>3, WindowOrder
        <3> QED
            BY <3>4
    <2> QED
        BY <1>1, <2>1, <2>2
<1>10. ASSUME NEW k \in Nat
      PROVE  WindowKept(s, rule, next, k)'
    <2>1. /\ spentIn(s, rule, k)' = spentIn(s, rule, k) + (IF k = c THEN e.value ELSE 0)
          /\ Counted(s, rule, k)' # {} => k = c \/ Counted(s, rule, k) # {}
        <3>1. CountsInto(e, s, rule, k) <=> k = c
            BY <1>9
        <3>2. spentIn(s, rule, k)' = spentIn(s, rule, k) + (IF CountsInto(e, s, rule, k) THEN e.value ELSE 0)
            BY SpentGrows
        <3>3. Counted(s, rule, k)' =
                Counted(s, rule, k) \cup (IF CountsInto(e, s, rule, k) THEN {Len(payments) + 1} ELSE {})
            BY CountedGrows
        <3> QED
            BY <3>1, <3>2, <3>3
    <2>2. spentIn(s, rule, k) <= rule.budget
        BY DEF RuleKept, WindowKept
    <2>3. spentIn(s, rule, k)' <= rule.budget
        <3>1. spentIn(s, rule, k) \in Nat /\ spentIn(s, rule, c) \in Nat
            BY <1>4
        <3>2. CASE k = c
            <4>1. spentIn(s, rule, k)' = spentIn(s, rule, c) + e.value
                BY <2>1, <3>2
            <4>2. \A p, q, v, b \in Nat : p <= q /\ q + v <= b => p + v <= b
                OBVIOUS
            <4>3. spentIn(s, rule, c) + e.value <= rule.budget
                BY <1>3, <1>8, <3>1, <4>2
            <4> QED
                BY <4>1, <4>3
        <3>3. CASE k # c
            BY <1>3, <2>1, <2>2, <3>1, <3>3
        <3> QED
            BY <3>2, <3>3
    <2>4. next.windowStart = windowOpens(rule, k) => k = c
        BY <1>1, WindowsOpen
    <2>5. next.windowStart = windowOpens(rule, k)' => spentIn(s, rule, k)' <= next.spent
        <3>1. spentIn(s, rule, c) \in Nat /\ windowOpens(rule, k)' = windowOpens(rule, k)
            BY <1>4
        <3>2. k = c => spentIn(s, rule, k)' = spentIn(s, rule, c) + e.value
            BY <2>1
        <3> QED
            BY <1>3, <1>8, <2>4, <3>1, <3>2
    <2>6. Counted(s, rule, k)' # {} => k <= c
        BY <1>7, <2>1
    <2>7. next.windowStart = windowOpens(rule, c)' /\ windowOpens(rule, c)' <= now'
        BY <1>1, <1>4
    <2> QED
        BY <2>3, <2>5, <2>6, <2>7 DEF WindowKept
<1>11. ASSUME NEW n \in Governed(s, rule)'
       PROVE  rule.initialWindowStartTime <= payments'[n].at
    <2>1. n \in Governed(s, rule) \/ n = Len(payments) + 1
        BY GovernedGrows
    <2>2. CASE n \in Governed(s, rule)
        BY <1>6, <2>2 DEF RuleKept
    <2>3. CASE n = Len(payments) + 1
        BY <1>2, <2>3, Appended
    <2> QED
        BY <2>1, <2>2, <2>3
<1> QED
    BY <1>10, <1>11 DEF RuleKept

-----------------------------------------------------------------------------
\* The steps of the account

\* A payment keeps the budget of every rule: of the rules it counts into, because
\* it found room in their current windows, and of all others, because it does not
\* count into them.
LEMMA PaymentKeepsWindows ==
    ASSUME WindowInv, NEW s \in SessionIds, NEW auth \in TransferAuthorization,
           NEW provider \in Providers, pay(s, auth, provider),
           UNCHANGED <<sessions, rules, now, before>>
    PROVE  /\ \A u \in SessionIds : before'[u] <= Len(payments')
           /\ \A n \in 1..Len(payments') : payments'[n].at <= now'
           /\ RulesKept'
<1>1. PICK e \in Payment :
        /\ e.s = s /\ e.value = auth.value /\ e.provider = provider /\ e.at = now
        /\ payments' = Append(payments, e)
    <2> DEFINE e == [s |-> s, nonce |-> auth.nonce, value |-> auth.value,
                     provider |-> provider, at |-> now]
    <2>1. e \in Payment
        BY DEF WindowInv, SessionTypeOK, Payment, TransferAuthorization
    <2>2. payments' = Append(payments, e)
        BY DEF pay
    <2> QED
        BY <2>1, <2>2
<1>2. /\ payments \in Seq(Payment) /\ before \in [SessionIds -> Nat] /\ now \in Nat
      /\ \A u \in SessionIds : before[u] <= Len(payments)
      /\ \A n \in 1..Len(payments) : payments[n].at <= now
    BY DEF WindowInv, SessionTypeOK
<1>3. /\ Len(payments) \in Nat /\ Len(payments') = Len(payments) + 1
      /\ \A n \in 1..Len(payments) : payments'[n] = payments[n]
      /\ payments'[Len(payments) + 1] = e
    BY <1>1, <1>2, Appended
<1>4. \A u \in SessionIds : before'[u] <= Len(payments')
    BY <1>2, <1>3
<1>5. \A n \in 1..Len(payments') : payments'[n].at <= now'
    BY <1>1, <1>2, <1>3
<1>6. ASSUME NEW u \in SessionIds, NEW i \in 1..sessions[u].ruleCount, rules[u][i].timeWindow > 0
      PROVE  RuleKept(u, rules[u][i], windowSpends[u][i])'
    <2>1. /\ i \in 1..MaxRules /\ rules[u][i] \in Rule
          /\ windowSpends[u][i] \in [windowStart : Nat, spent : Nat]
          /\ RuleKept(u, rules[u][i], windowSpends[u][i])
        BY <1>6, RuleInUse
    <2>2. PICK rule \in Rule : rule = rules[u][i] /\ rule = rules'[u][i]
        BY <2>1
    <2>3. PICK stored \in [windowStart : Nat, spent : Nat] : stored = windowSpends[u][i]
        BY <2>1
    <2>4. windowSpends' \in [SessionIds -> [1..MaxRules -> [windowStart : Nat, spent : Nat]]]
        BY PaymentTyped, SessionAssumption DEF WindowInv
    <2>5. PICK next \in [windowStart : Nat, spent : Nat] : next = windowSpends'[u][i]
        BY <2>1, <2>4
    <2>6. windowSpends \in [SessionIds -> [1..MaxRules -> [windowStart : Nat, spent : Nat]]]
        BY DEF WindowInv, SessionTypeOK
    <2>7. RuleKept(u, rule, stored)
        BY <2>1, <2>2, <2>3
    <2>8. i \in matchedRules(u, provider) <=> matchesServiceProvider(rule, provider)
        BY <1>6, <2>2 DEF matchedRules
    <2>9. CASE u = s /\ matchesServiceProvider(rule, provider)
        <3> DEFINE room == IF stored.windowStart = resolveWindowStart(rule) THEN stored.spent ELSE 0
        <3>1. i \in matchedRules(s, provider)
            BY <2>8, <2>9
        <3>2. ~notYetOpen(rule) /\ currentWindow(s, i).spent + auth.value <= rule.budget
            BY <1>6, <2>2, <2>9, <3>1 DEF pay, consumeSpendingRules, hasRoom
        <3>3. currentWindow(s, i).windowStart = resolveWindowStart(rule)
              /\ currentWindow(s, i).spent = room
            BY <2>2, <2>3, <2>9 DEF currentWindow
        <3>4. windowSpends'[s][i] = [currentWindow(s, i) EXCEPT !.spent = @ + auth.value]
            BY <1>6, <2>1, <2>2, <2>6, <2>9, <3>1 DEF pay, consumeSpendingRules
        <3>5. currentWindow(s, i) \in [windowStart : Nat, spent : Nat]
            BY <2>1, CurrentWindowTyped DEF WindowInv
        <3>6. next.windowStart = resolveWindowStart(rule) /\ next.spent = room + e.value
            BY <1>1, <2>5, <2>9, <3>3, <3>4, <3>5
        <3>7. room \in Nat
            BY <3>3, <3>5
        <3>8. room + e.value <= rule.budget
            BY <1>1, <3>2, <3>3
        <3>9. rule.timeWindow > 0
            BY <1>6, <2>2
        <3>10. e.s = u /\ matchesServiceProvider(rule, e.provider)
            BY <1>1, <2>9
        <3>11. PICK r \in Nat : r = room
            BY <3>7
        <3>12. RuleKept(u, rule, next)'
            BY <1>1, <1>2, <2>7, <3>2, <3>6, <3>8, <3>9, <3>10, <3>11, CountedPaymentKept
        <3> QED
            BY <2>2, <2>5, <3>12
    <2>10. CASE ~(u = s /\ matchesServiceProvider(rule, provider))
        <3>1. next = stored
            <4>1. CASE u # s
                BY <2>1, <2>3, <2>5, <2>6, <4>1 DEF pay, consumeSpendingRules
            <4>2. CASE u = s
                <5>1. i \notin matchedRules(s, provider)
                    BY <2>8, <2>10, <4>2
                <5> QED
                    BY <2>1, <2>3, <2>5, <2>6, <4>2, <5>1 DEF pay, consumeSpendingRules
            <4> QED
                BY <4>1, <4>2
        <3>2. ~(e.s = u /\ matchesServiceProvider(rule, e.provider))
            BY <1>1, <2>10
        <3>3. RuleKept(u, rule, stored)'
            BY <1>1, <1>2, <2>7, <3>2, OtherPaymentKept
        <3> QED
            BY <2>2, <2>5, <3>1, <3>3
    <2> QED
        BY <2>9, <2>10
<1>7. RulesKept'
    BY <1>6 DEF RulesKept
<1> QED
    BY <1>4, <1>5, <1>7

\* Nothing else touches the windows of a session in use.
LEMMA OtherStepKeepsWindows ==
    ASSUME WindowInv, payments' = payments, now' \in Nat, now <= now',
           SessionTypeOK', before' \in [SessionIds -> Nat],
           \A u \in SessionIds :
               \/ before'[u] = Len(payments)
               \/ /\ before'[u] = before[u]
                  /\ sessions'[u].ruleCount = sessions[u].ruleCount
                  /\ rules'[u] = rules[u] /\ windowSpends'[u] = windowSpends[u]
    PROVE  WindowInv'
<1>1. /\ payments \in Seq(Payment) /\ now \in Nat
      /\ \A u \in SessionIds : before[u] <= Len(payments)
      /\ \A n \in 1..Len(payments) : payments[n].at <= now
    BY DEF WindowInv, SessionTypeOK
<1>2. \A u \in SessionIds : before'[u] <= Len(payments')
    <2>1. Len(payments) \in Nat
        BY <1>1
    <2> QED
        BY <1>1, <2>1
<1>3. ASSUME NEW n \in 1..Len(payments')
      PROVE  payments'[n].at <= now'
    <2>1. payments[n] \in Payment /\ payments[n].at <= now
        BY <1>1, <1>3
    <2>2. payments[n].at \in Nat
        BY <2>1 DEF Payment
    <2> QED
        BY <1>1, <2>1, <2>2
<1>4. ASSUME NEW u \in SessionIds, NEW i \in 1..sessions'[u].ruleCount, rules'[u][i].timeWindow > 0
      PROVE  RuleKept(u, rules[u][i], windowSpends[u][i])'
    <2>1. i \in 1..MaxRules
        <3>1. sessions'[u] \in Session /\ MaxRules \in Nat
            BY SessionAssumption DEF SessionTypeOK
        <3> QED
            BY <1>4, <3>1 DEF Session
    <2>2. PICK rule \in Rule : rule = rules'[u][i]
        BY <2>1 DEF SessionTypeOK
    <2>3. PICK next \in [windowStart : Nat, spent : Nat] : next = windowSpends'[u][i]
        BY <2>1 DEF SessionTypeOK
    <2>4. CASE before'[u] = Len(payments)
        <3>1. RuleKept(u, rule, next)'
            BY <1>1, <2>4, NewSessionKept
        <3> QED
            BY <2>2, <2>3, <3>1
    <2>5. CASE before'[u] # Len(payments)
        <3>1. /\ before'[u] = before[u] /\ i \in 1..sessions[u].ruleCount
              /\ rule = rules[u][i] /\ next = windowSpends[u][i] /\ rule.timeWindow > 0
            BY <1>4, <2>2, <2>3, <2>5
        <3>2. RuleKept(u, rule, next)
            BY <3>1, RuleInUse
        <3>3. RuleKept(u, rule, next)'
            BY <1>1, <3>1, <3>2, LaterKept
        <3> QED
            BY <2>2, <2>3, <3>3
    <2> QED
        BY <2>4, <2>5
<1>5. RulesKept'
    BY <1>4 DEF RulesKept
<1> QED
    BY <1>2, <1>3, <1>5 DEF WindowInv

\* Only the creation of a session moves where its history begins.
LEMMA HistoryStays ==
    ASSUME WindowInv, HNext, \A u \in SessionIds : sessions'[u].active => sessions[u].active
    PROVE  before' = before
BY DEF HNext, WindowInv

\* The owner moves the windows of a session only by creating it.
LEMMA OwnerKeepsWindows ==
    ASSUME WindowInv, SessionTypeOK', HNext, before' \in [SessionIds -> Nat],
           NEW sender \in Owners, OwnerStep(sender)
    PROVE  WindowInv'
<1>1. payments' = payments /\ windowSpends' = windowSpends /\ now' = now
    BY DEF OwnerStep, transferOwnership, addSupportedToken, createSession, revokeSession,
           setSessionExpiry, setSessionSelectorPermission, spendVars
<1>2. now \in Nat /\ sessions \in [SessionIds -> Session] /\ rules \in [SessionIds -> [1..MaxRules -> Rule]]
    BY DEF WindowInv, SessionTypeOK
<1>3. ASSUME NEW u \in SessionIds
      PROVE  \/ before'[u] = Len(payments)
             \/ /\ before'[u] = before[u]
                /\ sessions'[u].ruleCount = sessions[u].ruleCount
                /\ rules'[u] = rules[u] /\ windowSpends'[u] = windowSpends[u]
    <2>1. before'[u] = IF ~sessions[u].active /\ sessions'[u].active THEN Len(payments) ELSE before[u]
        BY DEF HNext
    <2>2. ASSUME NEW s \in SessionIds, NEW agent \in Agents, NEW given \in RuleLists,
                 createSession(sender, s, agent, given)
          PROVE  \/ ~sessions[u].active /\ sessions'[u].active
                 \/ sessions'[u] = sessions[u] /\ rules'[u] = rules[u]
        BY <1>2, <2>2 DEF createSession, opened, Session
    <2>3. ASSUME NEW s \in SessionIds, revokeSession(sender, s)
          PROVE  sessions'[u].ruleCount = sessions[u].ruleCount /\ rules'[u] = rules[u]
        BY <1>2, <2>3 DEF revokeSession, Session
    <2>4. ASSUME NEW s \in SessionIds, NEW expiresAt \in Expiries, setSessionExpiry(sender, s, expiresAt)
          PROVE  sessions'[u].ruleCount = sessions[u].ruleCount /\ rules'[u] = rules[u]
        BY <1>2, <2>4 DEF setSessionExpiry, Session
    <2>5. CASE \/ \E newOwner \in Owners : transferOwnership(sender, newOwner)
               \/ \E token \in Tokens : addSupportedToken(sender, token)
               \/ \E s \in SessionIds, call \in Calls, enabled \in BOOLEAN, maxAmount \in Limits :
                    setSessionSelectorPermission(sender, s, call, enabled, maxAmount)
        BY <1>1, <2>1, <2>5 DEF transferOwnership, addSupportedToken, setSessionSelectorPermission
    <2> QED
        BY <1>1, <2>1, <2>2, <2>3, <2>4, <2>5 DEF OwnerStep
<1> QED
    BY <1>1, <1>2, <1>3, OtherStepKeepsWindows

\* Every step of the account keeps the invariant of the windows.
LEMMA WindowStep ==
    ASSUME WindowInv, [HNext]_historyVars
    PROVE  WindowInv'
<1>1. SessionTypeOK'
    BY SessionTypeStep, SessionAssumption DEF WindowInv, HNext, historyVars
<1>2. before' \in [SessionIds -> Nat]
    <2>1. before \in [SessionIds -> Nat] /\ Len(payments) \in Nat
        BY DEF WindowInv, SessionTypeOK
    <2> QED
        BY <2>1 DEF HNext, historyVars
<1>3. now \in Nat
    BY DEF WindowInv, SessionTypeOK
<1>4. ASSUME HNext, NEW s \in SessionIds, NEW auth \in TransferAuthorization,
             NEW provider \in Providers, pay(s, auth, provider), UNCHANGED <<ownerVars, now>>
      PROVE  WindowInv'
    <2>1. UNCHANGED <<sessions, rules, now>>
        BY <1>4 DEF ownerVars
    <2>2. before' = before
        BY <1>4, <2>1, HistoryStays
    <2> QED
        BY <1>1, <1>2, <1>4, <2>1, <2>2, PaymentKeepsWindows DEF WindowInv
<1>5. ASSUME NEW sender \in Owners, OwnerStep(sender), HNext
      PROVE  WindowInv'
    BY <1>1, <1>2, <1>5, OwnerKeepsWindows
<1>6. ASSUME NEW s \in SessionIds, NEW auth \in TransferAuthorization, NEW provider \in Providers,
             executeTransferWithAuthorizationAndProvider(s, auth, provider), HNext
      PROVE  WindowInv'
    BY <1>4, <1>6 DEF executeTransferWithAuthorizationAndProvider
<1>7. CASE executePayment /\ HNext
    <2>1. nextOp /\ Head(bundle).kind = "payment"
          /\ pay(Head(bundle).s, Head(bundle).auth, Head(bundle).provider)
        BY <1>7 DEF executePayment
    <2>2. Head(bundle) \in PaymentOp
        BY <2>1, NextOpTyped DEF WindowInv
    <2>3. /\ Head(bundle).s \in SessionIds /\ Head(bundle).auth \in TransferAuthorization
          /\ Head(bundle).provider \in Providers
        BY <2>2 DEF PaymentOp
    <2>4. UNCHANGED <<ownerVars, now>>
        BY <2>1 DEF nextOp
    <2> QED
        BY <1>4, <1>7, <2>1, <2>3, <2>4
<1>8. CASE /\ \/ \E op \in UserOps : validateUserOp(op)
              \/ executeWithSession
              \/ opReverts
              \/ Tick
           /\ HNext
    <2>1. UNCHANGED <<sessions, rules, windowSpends, payments>> /\ (now' = now \/ now' = now + 1)
        BY <1>8 DEF validateUserOp, executeWithSession, opReverts, nextOp, Tick, ownerVars, spendVars
    <2>2. before' = before
        BY <1>8, <2>1, HistoryStays
    <2>3. now' \in Nat /\ now <= now'
        BY <1>3, <2>1
    <2> QED
        BY <1>1, <1>2, <2>1, <2>2, <2>3, OtherStepKeepsWindows
<1>9. CASE UNCHANGED historyVars
    <2>1. UNCHANGED <<sessions, rules, windowSpends, payments, now, before>>
        BY <1>9 DEF historyVars, vars, ownerVars, spendVars
    <2> QED
        BY <1>1, <1>2, <1>3, <2>1, OtherStepKeepsWindows
<1> QED
    BY <1>5, <1>6, <1>7, <1>8, <1>9 DEF HNext, Next

\* In no window of any rule do the payments made under a session exceed the
\* budget, and none is made before the first window opens, for every set of
\* sessions and rules and however long the account lives.
THEOREM SessionWindowBudget == HSpec => []WindowBudget
<1>1. HInit => WindowInv
    <2>1. SUFFICES ASSUME HInit PROVE WindowInv
        OBVIOUS
    <2>2. SessionTypeOK
        BY <2>1, SessionTypeInit, SessionAssumption DEF HInit
    <2>3. payments = <<>> /\ before = [s \in SessionIds |-> 0]
        BY <2>1 DEF HInit, Init
    <2>4. \A s \in SessionIds : sessions[s].ruleCount = 0
        BY <2>1 DEF HInit, Init, NoSession
    <2>5. RulesKept
        BY <2>4 DEF RulesKept
    <2> QED
        BY <2>2, <2>3, <2>5 DEF WindowInv
<1>2. WindowInv /\ [HNext]_historyVars => WindowInv'
    BY WindowStep
<1>3. WindowInv => WindowBudget
    <2>1. ASSUME WindowInv, NEW s \in SessionIds, NEW i \in 1..sessions[s].ruleCount,
                 rules[s][i].timeWindow > 0
          PROVE  /\ \A k \in 0..MaxTime : spentIn(s, rules[s][i], k) <= rules[s][i].budget
                 /\ \A n \in Governed(s, rules[s][i]) :
                        rules[s][i].initialWindowStartTime <= payments[n].at
        <3>1. RuleKept(s, rules[s][i], windowSpends[s][i])
            BY <2>1, RuleInUse
        <3> QED
            BY <3>1 DEF RuleKept, WindowKept
    <2> QED
        BY <2>1 DEF WindowBudget
<1> QED
    BY <1>1, <1>2, <1>3, PTL DEF HSpec
=============================================================================
