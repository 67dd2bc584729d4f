-------------------------- MODULE MCSessionAccount --------------------------
(***************************************************************************)
(* SessionAccount, with its history of payments, on small instances.       *)
(***************************************************************************)
EXTENDS SessionWindows, TLC

CONSTANTS p1, p2

SingleAndDaily(single, daily, start) ==
    << [timeWindow |-> 0, budget |-> single, initialWindowStartTime |-> 0,
        targetProviders |-> {}],
       [timeWindow |-> 2, budget |-> daily, initialWindowStartTime |-> start,
        targetProviders |-> {}] >>

OneProvider ==
    << [timeWindow |-> 2, budget |-> 2, initialWindowStartTime |-> 0, targetProviders |-> {p1}],
       [timeWindow |-> 3, budget |-> 3, initialWindowStartTime |-> 2, targetProviders |-> {}] >>

MCRuleLists == {SingleAndDaily(1, 1, 1), OneProvider}
MCValidities == {<<0, 3>>}

NonceSymmetry == Permutations(Nonces)
=============================================================================
