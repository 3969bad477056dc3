------------------------------ MODULE MCQueue -------------------------------
(* Instances of Queue for TLC.                                             *)
EXTENDS Queue, TLC

CONSTANTS array, g1, g2, c1, c2, c3

R(cpus, mem, gpus) == [cpus |-> cpus, mem |-> mem, gpus |-> gpus]
Host(cpus, mem, set) == [cpus |-> cpus, mem |-> mem, set |-> set]

(* Subjobs 1 and 2 of an array that runs them one by one, a job 3 that     *)
(* wants more, and a daemon that may be restarted on a smaller budget.     *)
SubjobsFirst == [j \in Jobs |-> IF j <= 2 THEN array ELSE NoArray]
OneByOne == [p \in Arrays \union {NoArray} |-> IF p = NoArray THEN 0 ELSE 1]
NoDeps == [j \in Jobs |-> {}]
MixedWishes == [j \in Jobs |-> IF j <= 2 THEN {R(1, 2, 1)} ELSE {R(1, 1, 0), R(2, 1, 1)}]
LargeOrSmall == {Host(3, 3, {c1, c2, c3}), Host(2, 2, {c1, c2})}

(* Job 3 wants the whole host, job 4 waits for the array of 1 and 2.      *)
AnyNumber == [p \in Arrays \union {NoArray} |-> 0]
LastAfterArray == [j \in Jobs |-> IF j = 4 THEN {array} ELSE {}]
OneWantsAll == [j \in Jobs |-> IF j = 3 THEN {R(2, 2, 0)} ELSE {R(1, 1, 0)}]
OneHost == {Host(2, 2, {c1, c2})}

AllDevices == {Devices}
AnyDevices == SUBSET Devices

(* Devices are alike, and so are the CPUs every host has.                  *)
Symmetry == Permutations(Devices) \union Permutations({c1, c2})
=============================================================================
