-------------------------- MODULE MCCircuitBreaker --------------------------
(***************************************************************************)
(* Instances of CircuitBreaker for TLC.  RPCs are interchangeable, but     *)
(* symmetry is left off: one run checks a liveness property.               *)
(***************************************************************************)
EXTENDS CircuitBreaker
=============================================================================
