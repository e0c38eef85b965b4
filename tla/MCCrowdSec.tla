---------------------------- MODULE MCCrowdSec ----------------------------
(* Instances of the CrowdSec runtime for TLC. *)
EXTENDS CrowdSec, TLC

Symmetry == Permutations(Ban) \cup Permutations(Key)
=============================================================================
