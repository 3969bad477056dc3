----------------------------- MODULE Refinement -----------------------------
(***************************************************************************)
(* Daemon, runners and workloads keep the contract: what Contract.tla says *)
(* of a job is read off the database, for the devices, the intents and the *)
(* outcome, and off the processes, for the execution.                      *)
(***************************************************************************)
EXTENDS Lifecycle

Busy(j) == state[j] \in Active

C == INSTANCE Contract WITH
        status <- [j \in Jobs |-> IF Busy(j) THEN "busy"
                                  ELSE IF state[j] \in Outcomes THEN "ended" ELSE "waiting"],
        held <- [j \in Jobs |-> IF Busy(j) THEN devices[j] ELSE {}],
        asked <- [j \in Jobs |-> IF Busy(j) THEN intent[j].kind ELSE "none"],
        executing <- {j \in Jobs : \E n \in 1..MaxAttempts : Executing(<<j, n>>)},
        ran <- {j \in Jobs : Busy(j) /\ \E n \in 1..MaxAttempts :
                                            current[j] = n /\ Executed(<<j, n>>)}

(* Every behaviour of daemon and runners, through crashes of the daemon    *)
(* and reboots, is one the contract allows (the whole of internal/daemon's *)
(* reconcile, dispatch and launch with internal/executor).                 *)
ContractKept == C!Spec

(* With runners that are killed the same is true of every step but those   *)
(* taken while a script executes whose runner is dead: the daemon finds    *)
(* such a script only by its started.json, which may not be its own.       *)
Unsupervised == \E a \in Attempts : Executing(a) /\ runner[a] = "dead"
ContractKeptSupervised == C!Init /\ [][Unsupervised \/ C!Next]_C!vars
=============================================================================
