-------------------------- MODULE MCSimulationLoop --------------------------
(* Instances of SimulationLoop for TLC: up to three named ranks. *)
EXTENDS SimulationLoop

CONSTANTS r0, r1, r2
=============================================================================
