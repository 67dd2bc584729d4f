----------------------------- MODULE MCPayments -----------------------------
(* Payments under four loads, chosen at the start: two handlers at once, two *)
(* service calls at once, one of each, and one call while the owner revokes. *)
(* The requests of a behaviour are two of equal terms, or, for two handlers, *)
(* one of these and one of the commerce route with another amount.           *)
EXTENDS Payments, TLC

CONSTANTS payer, destination, small, large

VARIABLE load

TermsOfIds == [q \in RequestIds |->
    [payer |-> payer, to |-> destination, amount |-> IF q \in CommerceIds THEN large ELSE small]]

Work ==
    {[tasks |-> Tasks, calls |-> {}, owner |-> FALSE], [tasks |-> {}, calls |-> Calls, owner |-> FALSE]}
    \cup {[tasks |-> {t}, calls |-> {c}, owner |-> FALSE] : t \in Tasks, c \in Calls}
    \cup {[tasks |-> {}, calls |-> {c}, owner |-> TRUE] : c \in Calls}

\* Calls never serve a request of the commerce route.
Others == RequestIds \ CommerceIds
Pairs(work) ==
    {Others} \cup {ids \in { CommerceIds \cup {q} : q \in Others } : work.calls = {}}

\* One transfer, sent or mined, of what is asked in this behaviour.
TransfersWithin(ids) ==
    /\ \A k \in Transfer : transfers[k] > 0 => \E q \in ids : k \in paymentsFor(q)
    /\ \A k, l \in Transfer : k # l => userOps[k] + transfers[k] = 0 \/ userOps[l] + transfers[l] = 0

MCInit == Init /\ \E work \in Work : \E ids \in Pairs(work) : load = [work |-> work, ids |-> ids]
MCNext ==
    /\ \/ \E t \in load.work.tasks : TaskStep(t)
       \/ \E c \in load.work.calls : CallStep(c)
       \/ RequestStep \/ AgeStep \/ Crash
       \/ load.work.owner /\ OwnerStep
    /\ UNCHANGED load
    /\ issued' \subseteq load.ids
    /\ TransfersWithin(load.ids)'
MCSpec == MCInit /\ [][MCNext]_<<vars, load>>

\* Random ids have no order, and one slot is like another.
Symmetry == Permutations(Others) \cup Permutations(Tasks) \cup Permutations(Calls)
=============================================================================
