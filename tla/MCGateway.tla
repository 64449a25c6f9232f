------------------------------ MODULE MCGateway ------------------------------
(* GatewayRead on a small instance: its goroutines are interchangeable. *)
EXTENDS GatewayRead, TLC

Symmetry == Permutations(Worker)
=============================================================================
