----------------------------- MODULE Scheduler ------------------------------
(***************************************************************************)
(* The admission pass (internal/scheduler): what Decide makes of the job   *)
(* records, the capacity and the usable devices, one job of the line per   *)
(* step.  CPUs and memory are amounts, devices and CPU numbers are sets;   *)
(* which of the free ones a job gets does not matter.  A waiting job's     *)
(* reason is shown to users only and left out.                             *)
(***************************************************************************)
EXTENDS Integers, Sequences, FiniteSets, FiniteSetsExt, Functions

CONSTANTS
    Jobs,         \* ordinary jobs and subjobs: their IDs
    NoJob,
    Arrays,       \* array parents
    NoArray,      \* the ParentID of an ordinary job
    Parent,       \* Parent[j]: the array j belongs to, or NoArray
    Limit,        \* Limit[p]: at most so many subjobs of p at once, 0 for any number
    Deps,         \* Deps[j]: the jobs and arrays that must complete before j starts
    Devices,      \* all devices
    Protection,   \* reservation_after is not 0
    Affinity      \* CPUs are assigned one by one

ASSUME JobsAssumption == Jobs \subseteq Nat /\ IsFiniteSet(Jobs) /\ NoJob \notin Jobs
ASSUME ArraysAssumption ==
    /\ NoArray \notin Arrays /\ Arrays \intersect Jobs = {}
    /\ Parent \in [Jobs -> Arrays \union {NoArray}]
    /\ Limit \in [Arrays \union {NoArray} -> Nat] /\ Limit[NoArray] = 0
    /\ Deps \in [Jobs -> SUBSET (Jobs \union Arrays)]
ASSUME DevicesAssumption == IsFiniteSet(Devices)
ASSUME SwitchesAssumption == Protection \in BOOLEAN /\ Affinity \in BOOLEAN

VARIABLES
    state,        \* state[j]: job state, "none" before the submission
    before,       \* the line, jobs that have not ended by QueuedAt and then ID: pairs
    aged,         \* jobs of the line queued for reservation_after or longer
    request,      \* request[j]: what the job asks for
    devices,      \* devices[j]: GPUs of the job record
    cpuset,       \* cpuset[j]: CPUSet of the job record
    capacity,     \* what the configuration of the running daemon offers
    pass          \* the pass: what is left, what was decided, who is to be considered

Waiting == {"QUEUED", "HELD"}
Terminal == {"COMPLETED", "FAILED", "CANCELLED", "TIMEOUT"}

(* Mutant: a job that is being terminated counts no more.                  *)
ActiveUnlessExiting == {"STARTING", "RUNNING"}

Active == {"STARTING", "RUNNING", "EXITING"}

ActiveJobs == {j \in Jobs : state[j] \in Active}
Children(p) == {j \in Jobs : Parent[j] = p /\ state[j] # "none"}

CPUsOf(S) == SumFunctionOnSet([j \in Jobs |-> request[j].cpus], S)
MemoryOf(S) == SumFunctionOnSet([j \in Jobs |-> request[j].mem], S)
RunningOf(p) == Cardinality({j \in ActiveJobs : Parent[j] = p})

-----------------------------------------------------------------------------
(* Dependencies                                                            *)

(* Mutant: a failed subjob makes an array fail that is still running.      *)
AggregateFailingFirst(p) ==
    LET some(s) == \E j \in Children(p) : state[j] = s
    IN IF some("FAILED") THEN "FAILED"
       ELSE IF some("RUNNING") \/ some("STARTING") THEN "RUNNING"
       ELSE IF some("EXITING") THEN "EXITING"
       ELSE IF some("QUEUED") THEN "QUEUED"
       ELSE IF some("HELD") THEN "HELD"
       ELSE IF some("TIMEOUT") THEN "TIMEOUT"
       ELSE IF some("CANCELLED") THEN "CANCELLED"
       ELSE "COMPLETED"

(* Mutant: subjobs that wait do not count.                                 *)
AggregateOfStarted(p) ==
    LET some(s) == \E j \in Children(p) : state[j] = s
    IN IF some("RUNNING") \/ some("STARTING") THEN "RUNNING"
       ELSE IF some("EXITING") THEN "EXITING"
       ELSE IF some("FAILED") THEN "FAILED"
       ELSE IF some("TIMEOUT") THEN "TIMEOUT"
       ELSE IF some("CANCELLED") THEN "CANCELLED"
       ELSE "COMPLETED"

Aggregate(p) ==
    LET some(s) == \E j \in Children(p) : state[j] = s
    IN IF some("RUNNING") \/ some("STARTING") THEN "RUNNING"
       ELSE IF some("EXITING") THEN "EXITING"
       ELSE IF some("QUEUED") THEN "QUEUED"
       ELSE IF some("HELD") THEN "HELD"
       ELSE IF some("FAILED") THEN "FAILED"
       ELSE IF some("TIMEOUT") THEN "TIMEOUT"
       ELSE IF some("CANCELLED") THEN "CANCELLED"
       ELSE "COMPLETED"

StateOf(d) == IF d \in Arrays THEN Aggregate(d) ELSE state[d]

(* Mutant: what became of a dependency is asked for its own record only.   *)
DependencyFailedByRecord(j) ==
    \E d \in Deps[j] \ Arrays : StateOf(d) \in Terminal \ {"COMPLETED"}

DependencyFailed(j) == \E d \in Deps[j] : StateOf(d) \in Terminal \ {"COMPLETED"}

DependencyMet(j) == \A d \in Deps[j] : StateOf(d) = "COMPLETED"

-----------------------------------------------------------------------------
(* The pass over the line                                                  *)

(* What active jobs leave; all of them keep their reservations.            *)
Begin(usable) ==
    [todo |-> {j \in Jobs : state[j] \in Waiting},
     usable |-> usable,
     cpus |-> capacity.cpus - CPUsOf(ActiveJobs),
     mem |-> capacity.mem - MemoryOf(ActiveJobs),
     gpus |-> usable \ UNION {devices[j] : j \in ActiveJobs},
     set |-> capacity.set \ UNION {cpuset[j] : j \in ActiveJobs},
     running |-> [p \in Arrays \union {NoArray} |-> RunningOf(p)],
     protected |-> NoJob, start |-> <<>>, failed |-> {}]

Idle == [todo |-> {}, usable |-> {}, cpus |-> 0, mem |-> 0, gpus |-> {}, set |-> {},
         running |-> [p \in Arrays \union {NoArray} |-> 0],
         protected |-> NoJob, start |-> <<>>, failed |-> {}]

(* Jobs are considered in the order of the line.                           *)
First(j) == j \in pass.todo /\ \A k \in pass.todo \ {j} : <<j, k>> \in before
Without(j) == [pass EXCEPT !.todo = @ \ {j}]

Eligible(j) ==
    /\ state[j] = "QUEUED"
    /\ DependencyMet(j)
    /\ Limit[Parent[j]] > 0 => pass.running[Parent[j]] < Limit[Parent[j]]

(* Mutant: a job is protected however short it has waited.                 *)
ProtectAtOnce(j) == Protection

(* A job that has waited long enough and that could run on an idle host.   *)
MayProtect(j) ==
    /\ Protection /\ j \in aged
    /\ request[j].cpus <= capacity.cpus
    /\ request[j].mem <= capacity.mem
    /\ request[j].gpus <= Cardinality(pass.usable)

(* The first eligible job that may be protected is, until it gets its      *)
(* reservation.                                                            *)
Protected(j) == IF pass.protected = NoJob /\ MayProtect(j) THEN j ELSE pass.protected

(* What others may take of "free" when "want" is kept for the protected    *)
(* job; an overdrawn account stays overdrawn.                              *)
Spare(free, want) == free - Min({Max({0, free}), want})

(* Mutant: only devices are kept for the protected job.                    *)
FitsBesideDevices(j) ==
    LET kept == IF Protected(j) \in {NoJob, j} THEN 0 ELSE request[Protected(j)].gpus
    IN /\ request[j].cpus <= pass.cpus
       /\ request[j].mem <= pass.mem
       /\ request[j].gpus <= Spare(Cardinality(pass.gpus), kept)
       /\ Affinity => request[j].cpus <= Cardinality(pass.set)

Fits(j) ==
    LET kept == IF Protected(j) \in {NoJob, j} THEN [cpus |-> 0, mem |-> 0, gpus |-> 0]
                ELSE request[Protected(j)]
    IN /\ request[j].cpus <= Spare(pass.cpus, kept.cpus)
       /\ request[j].mem <= Spare(pass.mem, kept.mem)
       /\ request[j].gpus <= Spare(Cardinality(pass.gpus), kept.gpus)
       /\ Affinity => request[j].cpus <= Cardinality(pass.set)

Picks(n, S) == {s \in SUBSET S : Cardinality(s) = n}

Fails(j) ==
    /\ DependencyFailed(j)
    /\ pass' = [Without(j) EXCEPT !.failed = @ \union {j}]

(* It is held, or waits for a dependency or for its array.                 *)
Waits(j) ==
    /\ ~DependencyFailed(j) /\ ~Eligible(j)
    /\ pass' = Without(j)

(* It waits for resources.                                                 *)
Lacks(j) ==
    /\ ~DependencyFailed(j) /\ Eligible(j) /\ ~Fits(j)
    /\ pass' = [Without(j) EXCEPT !.protected = Protected(j)]

(* Mutant: the memory of an allocation is not counted.                     *)
MemoryUncounted(j) == pass.mem

MemoryAfter(j) == pass.mem - request[j].mem

(* Mutant: the CPUs of an allocation stay on the list.                     *)
SetUnchanged(c) == pass.set

SetAfter(c) == pass.set \ c

(* What is left when j gets g and c.                                       *)
Taken(j, g, c) ==
    [Without(j) EXCEPT !.cpus = @ - request[j].cpus,
                       !.mem = MemoryAfter(j),
                       !.gpus = @ \ g,
                       !.set = SetAfter(c),
                       !.running[Parent[j]] = @ + 1,
                       !.protected = IF Protected(j) = j THEN NoJob ELSE Protected(j),
                       !.start = Append(@, [job |-> j, gpus |-> g, cpus |-> c])]

Allocates(j) ==
    /\ ~DependencyFailed(j) /\ Eligible(j) /\ Fits(j)
    /\ \E g \in Picks(request[j].gpus, pass.gpus) :
          \E c \in Picks(IF Affinity THEN request[j].cpus ELSE 0, pass.set) :
             pass' = Taken(j, g, c)

Considered(j) == First(j) /\ (Fails(j) \/ Waits(j) \/ Lacks(j) \/ Allocates(j))
=============================================================================
