------------------------------ MODULE MCTransfer ------------------------------
(* TLC instances of TransferLedger.                                         *)
EXTENDS TransferLedger, TLC

Symmetry == Permutations(Tx) \cup Permutations(Check)
=============================================================================
