------------------------------ MODULE MCProvider ------------------------------
(* TLC instances of ProviderCircuit.                                        *)
EXTENDS ProviderCircuit, TLC

Symmetry == Permutations(Worker)
=============================================================================
