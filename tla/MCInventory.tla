---------------------------- MODULE MCInventory ----------------------------
(* Instances of Inventory for TLC.                                         *)
EXTENDS Inventory, TLC

CONSTANTS d1, d2, p1

OneEach == [j \in Jobs |-> 1]
Symmetry == Permutations(Devices)
=============================================================================
