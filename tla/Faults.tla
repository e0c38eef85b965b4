------------------------------- MODULE Faults -------------------------------
(***************************************************************************)
(* The environment's failures: an I/O error, a failed or timed-out native  *)
(* command, a process crash or a power loss.  They are counted so that a   *)
(* behaviour has finitely many of them; MaxFaults is arbitrary.            *)
(***************************************************************************)
EXTENDS Naturals

CONSTANT MaxFaults      \* bound: failures of the environment in a behaviour

ASSUME MaxFaultsAssumption == MaxFaults \in Nat

VARIABLE faults         \* failures so far

\* One failure of the environment happens in this step.
Fault ==
    /\ faults < MaxFaults
    /\ faults' = faults + 1

NoFault == UNCHANGED faults
=============================================================================
