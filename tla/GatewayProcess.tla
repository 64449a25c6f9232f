--------------------------- MODULE GatewayProcess ---------------------------
(***************************************************************************)
(* What the parts of one Gateway process share: its goroutines and its     *)
(* clock (clock.go).                                                       *)
(***************************************************************************)
EXTENDS Naturals

CONSTANTS
    Worker,     \* the goroutines, each serving one request at a time
    MaxTime     \* bound on the clock, in ticks

ASSUME ProcessConstants == MaxTime \in Nat

VARIABLE now

\* Time passes.
Advance == now < MaxTime /\ now' = now + 1
=============================================================================
