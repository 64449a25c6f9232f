----------------------------- MODULE MCBroadcast -----------------------------
(* TLC instances of BroadcastGuard.                                         *)
EXTENDS BroadcastGuard, TLC

Symmetry ==
    UNION {Permutations(S) : S \in {T \in {Request, Key, Instance} : \E x, y \in T : x # y}}
=============================================================================
