--------------------------- MODULE EscrowPromise ---------------------------
(***************************************************************************)
(* What the job escrow promises to the people who put tokens into it,      *)
(* without saying how: each job is a pot fed by a payer and, at most, one  *)
(* payee; the pot is handed over whole, once, to one of those two, and     *)
(* nothing else ever moves a token.                                        *)
(*                                                                         *)
(* JobEscrow implements this specification (JobEscrow!Promise).            *)
(***************************************************************************)
EXTENDS Integers

CONSTANTS
    JobIds,     \* the jobs
    Parties,    \* the token holders
    NoParty     \* nobody

VARIABLES
    phase,      \* phase[j]: no pot yet, pot held, or pot paid out
    payer,      \* payer[j]: who opened the pot of j
    payee,      \* payee[j]: who may earn it, NoParty until someone is named
    pot,        \* pot[j]: tokens held for j
    wallet      \* wallet[p]: tokens p holds itself

vars == <<phase, payer, payee, pot, wallet>>

Init ==
    /\ phase = [j \in JobIds |-> "absent"]
    /\ payer = [j \in JobIds |-> NoParty]
    /\ payee = [j \in JobIds |-> NoParty]
    /\ pot = [j \in JobIds |-> 0]
    /\ wallet \in [Parties -> Nat]

\* p opens the pot of j with some of its own tokens, for q or for nobody yet.
Open(j, p, q) ==
    /\ phase[j] = "absent"
    /\ \E amount \in 1..wallet[p] :
        /\ pot' = [pot EXCEPT ![j] = amount]
        /\ wallet' = [wallet EXCEPT ![p] = @ - amount]
    /\ phase' = [phase EXCEPT ![j] = "held"]
    /\ payer' = [payer EXCEPT ![j] = p]
    /\ payee' = [payee EXCEPT ![j] = q]

\* A pot that is for nobody yet gets its payee, for good.
Name(j, q) ==
    /\ phase[j] = "held"
    /\ payee[j] = NoParty
    /\ payee' = [payee EXCEPT ![j] = q]
    /\ UNCHANGED <<phase, payer, pot, wallet>>

\* The payee adds tokens of its own.
Stake(j, q) ==
    /\ phase[j] = "held"
    /\ payee[j] = q
    /\ \E amount \in 0..wallet[q] :
        /\ pot' = [pot EXCEPT ![j] = @ + amount]
        /\ wallet' = [wallet EXCEPT ![q] = @ - amount]
    /\ UNCHANGED <<phase, payer, payee>>

\* The whole pot goes to the payer or to the payee.
Settle(j, p) ==
    /\ phase[j] = "held"
    /\ p \in {payer[j], payee[j]}
    /\ wallet' = [wallet EXCEPT ![p] = @ + pot[j]]
    /\ pot' = [pot EXCEPT ![j] = 0]
    /\ phase' = [phase EXCEPT ![j] = "paid"]
    /\ UNCHANGED <<payer, payee>>

Next ==
    \E j \in JobIds :
        \/ \E p \in Parties, q \in Parties \cup {NoParty} : Open(j, p, q)
        \/ \E q \in Parties : Name(j, q) \/ Stake(j, q) \/ Settle(j, q)

Spec == Init /\ [][Next]_vars
=============================================================================
