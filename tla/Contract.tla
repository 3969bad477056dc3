------------------------------ MODULE Contract ------------------------------
(***************************************************************************)
(* What the system promises of its jobs, without daemon, runners, files    *)
(* and crashes: a job is executed only while it holds its devices, nobody  *)
(* else holds them meanwhile, it gives them up only when its script is     *)
(* over, it is executed a second time only when that was asked for, and    *)
(* it is never executed again once its deletion was accepted.              *)
(* Refinement.tla shows how Lifecycle.tla keeps it.                        *)
(***************************************************************************)
EXTENDS Integers, FiniteSets

CONSTANTS
    Jobs,
    GPUs,
    Need          \* Need[j]: devices job j requests

VARIABLES
    status,       \* status[j]: "waiting", "busy" or "ended"
    held,         \* held[j]: the devices of j
    asked,        \* asked[j]: what was accepted of a busy job: cancel or rerun
    executing,    \* jobs whose script is executing
    ran           \* busy jobs whose script has been executing

vars == <<status, held, asked, executing, ran>>

TypeOK ==
    /\ status \in [Jobs -> {"waiting", "busy", "ended"}]
    /\ held \in [Jobs -> SUBSET GPUs]
    /\ asked \in [Jobs -> {"none", "cancel", "rerun"}]
    /\ executing \subseteq ran /\ ran \subseteq Jobs

Init ==
    /\ status = [j \in Jobs |-> "waiting"]
    /\ held = [j \in Jobs |-> {}]
    /\ asked = [j \in Jobs |-> "none"]
    /\ executing = {} /\ ran = {}

Free == GPUs \ UNION {held[j] : j \in Jobs}

Reserve(j, g) ==
    /\ status[j] = "waiting" /\ g \subseteq Free /\ Cardinality(g) = Need[j]
    /\ status' = [status EXCEPT ![j] = "busy"]
    /\ held' = [held EXCEPT ![j] = g]
    /\ UNCHANGED <<asked, executing, ran>>

Start(j) ==
    /\ status[j] = "busy" /\ j \notin ran
    /\ executing' = executing \union {j}
    /\ ran' = ran \union {j}
    /\ UNCHANGED <<status, held, asked>>

(* Several scripts end at once when the host goes down.                    *)
End(ended) ==
    /\ ended \subseteq executing
    /\ executing' = executing \ ended
    /\ UNCHANGED <<status, held, asked, ran>>

(* A deletion replaces a rerun, nothing replaces a deletion.               *)
Accept(j, kind) ==
    /\ status[j] = "busy"
    /\ asked[j] = "none" \/ (asked[j] = "rerun" /\ kind = "cancel")
    /\ asked' = [asked EXCEPT ![j] = kind]
    /\ UNCHANGED <<status, held, executing, ran>>

GiveUp(j, next) ==
    /\ status[j] = "busy" /\ j \notin executing
    /\ status' = [status EXCEPT ![j] = next]
    /\ held' = [held EXCEPT ![j] = {}]
    /\ asked' = [asked EXCEPT ![j] = "none"]
    /\ ran' = ran \ {j}
    /\ UNCHANGED executing

(* Back into the queue: after a rerun, or because the script has not been  *)
(* executed yet.                                                           *)
Requeue(j) ==
    /\ asked[j] # "cancel"
    /\ j \in ran => asked[j] = "rerun"
    /\ GiveUp(j, "waiting")

Settle(j) == GiveUp(j, "ended")

(* A waiting job is deleted.                                               *)
Delete(j) ==
    /\ status[j] = "waiting"
    /\ status' = [status EXCEPT ![j] = "ended"]
    /\ UNCHANGED <<held, asked, executing, ran>>

Next ==
    \/ \E j \in Jobs :
          \/ \E g \in SUBSET GPUs : Reserve(j, g)
          \/ Start(j)
          \/ \E kind \in {"cancel", "rerun"} : Accept(j, kind)
          \/ Requeue(j) \/ Settle(j) \/ Delete(j)
    \/ \E ended \in SUBSET executing : End(ended)

Spec == Init /\ [][Next]_vars

-----------------------------------------------------------------------------
(* Scripts that execute at the same time have their devices for themselves, *)
(* as many as they asked for.                                              *)
DevicesExclusive ==
    \A j \in executing :
        /\ Cardinality(held[j]) = Need[j]
        /\ \A k \in executing : k # j => held[j] \intersect held[k] = {}
=============================================================================
