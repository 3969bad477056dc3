---------------------------- MODULE MCLifecycle -----------------------------
(* Instances of Lifecycle for TLC.                                         *)
EXTENDS Refinement, TLC

CONSTANTS j1, j2, g1

OneDeviceEach == [j \in Jobs |-> 1]
Symmetry == Permutations(Jobs)
=============================================================================
