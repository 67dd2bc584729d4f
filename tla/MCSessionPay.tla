---------------------------- MODULE MCSessionPay ----------------------------
(***************************************************************************)
(* SessionPay on a small instance.  Ids of calls are given out in order,   *)
(* and the same client posts first: neither carries a meaning.             *)
(***************************************************************************)
EXTENDS SessionPay

Used == {c \in Calls : calls[c].stage # "unused"}

First == CHOOSE x \in Clients : TRUE

MCNext ==
    /\ Next
    /\ \A c \in Used' : 1..c \subseteq Used' /\ (c = 1 => calls'[c].by = First)

MCSpec == Init /\ [][MCNext]_vars
MCFairSpec == MCSpec /\ CallFairness
=============================================================================
