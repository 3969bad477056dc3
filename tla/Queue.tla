-------------------------------- MODULE Queue --------------------------------
(***************************************************************************)
(* The queue at work: jobs and arrays are submitted, held, altered,        *)
(* deleted; the loop (schedule in internal/daemon) makes a plan and        *)
(* carries it out reservation by reservation (Reserve in internal/store);  *)
(* attempts end in their own time.  What becomes of an attempt is the      *)
(* subject of Lifecycle, and only its effect on the record is kept here.   *)
(***************************************************************************)
EXTENDS Scheduler

CONSTANTS
    Wishes,       \* Wishes[j]: requests that may be submitted or altered for j
    Capacities,   \* capacities the daemon may be started with
    Views,        \* sets of devices that may be found usable
    AvoidForeign, \* gpu.foreign_policy = "avoid"
    Requests,     \* the requests clients make
    Ends,         \* how attempts may end: outcomes, and "rerun"
    MaxCrashes    \* bound: crashes of the daemon

ASSUME WishesAssumption ==
    \A j \in Jobs : Wishes[j] \subseteq [cpus : Nat \ {0}, mem : Nat \ {0}, gpus : Nat]
ASSUME CapacitiesAssumption ==
    \A c \in Capacities : /\ c.cpus \in Nat /\ c.mem \in Nat
                         /\ IsFiniteSet(c.set) /\ c.cpus <= Cardinality(c.set)
ASSUME ViewsAssumption == Views \subseteq SUBSET Devices /\ Views # {}
ASSUME BoundAssumption == MaxCrashes \in Nat /\ AvoidForeign \in BOOLEAN

VARIABLES
    fresh,        \* freshGPU: no device was given away since the last probe
    pc,           \* where the loop is
    tried,        \* jobs with AttemptCount > 0
    crashes       \* crashes so far

records == <<state, before, aged, request, tried>>
held == <<devices, cpuset>>
loop == <<pc, pass>>
vars == <<records, held, loop, capacity, fresh, crashes>>

Line == {j \in Jobs : state[j] \in Waiting \union Active}

(* The members of S are no longer in the line.                             *)
Leave(S) ==
    /\ before' = before \intersect ((Jobs \ S) \X (Jobs \ S))
    /\ aged' = aged \ S

Nothing == [cpus |-> 0, mem |-> 0, gpus |-> 0]

InOrder ==
    /\ \A j, k \in Line : j # k => (<<j, k>> \in before <=> <<k, j>> \notin before)
    /\ \A j, k, l \in Line : <<j, k>> \in before /\ <<k, l>> \in before => <<j, l>> \in before

TypeOK ==
    /\ state \in [Jobs -> Waiting \union Active \union Terminal \union {"none"}]
    /\ before \subseteq Line \X Line /\ InOrder
    /\ aged \subseteq Line
    /\ request \in [Jobs -> [cpus : Nat, mem : Nat, gpus : Nat]]
    /\ \A j \in Jobs : request[j] \in Wishes[j] \union {Nothing}
    /\ devices \in [Jobs -> SUBSET Devices]
    /\ capacity \in Capacities
    /\ cpuset \in [Jobs -> SUBSET UNION {c.set : c \in Capacities}]
    /\ \A j \in Jobs \ ActiveJobs : devices[j] = {} /\ cpuset[j] = {}
    /\ fresh \in BOOLEAN
    /\ pc \in {"down", "wait", "plan"} /\ (pc # "plan" => pass = Idle)
    /\ pass.todo \union pass.failed \union {a.job : a \in Range(pass.start)} \subseteq Line
    /\ tried \subseteq Jobs
    /\ crashes \in 0..MaxCrashes

(* Nothing has been submitted; the daemon is about to be started.          *)
Init ==
    /\ state = [j \in Jobs |-> "none"]
    /\ before = {} /\ aged = {} /\ tried = {}
    /\ request = [j \in Jobs |-> Nothing]
    /\ devices = [j \in Jobs |-> {}] /\ cpuset = [j \in Jobs |-> {}]
    /\ capacity \in Capacities
    /\ fresh = FALSE
    /\ pc = "down" /\ pass = Idle
    /\ crashes = 0

-----------------------------------------------------------------------------
(* Requests.  Each accepted one makes the inventory stale.                 *)

Ask(kind) == kind \in Requests /\ pc = "wait" /\ fresh' = FALSE

(* An array parent stands for its children, any other job for itself.      *)
Target(t) == IF t \in Arrays THEN Children(t) ELSE {t}

(* validateCapacity.  The number of devices is not checked as long as the  *)
(* inventory is unknown.                                                   *)
Admissible(r) == r.cpus <= capacity.cpus /\ r.mem <= capacity.mem

(* A job, or an array with all its children, in the order of their IDs;    *)
(* what it depends on exists.                                              *)
Submit(S) ==
    /\ Ask("qsub")
    /\ \A j \in S : state[j] = "none"
    /\ \A j \in S : \A d \in Deps[j] : IF d \in Arrays THEN Children(d) # {} ELSE state[d] # "none"
    /\ \E r \in {w \in UNION {Wishes[j] : j \in S} : Admissible(w)} :
          /\ \A j \in S : r \in Wishes[j]
          /\ request' = [j \in Jobs |-> IF j \in S THEN r ELSE request[j]]
    /\ state' = [j \in Jobs |-> IF j \in S THEN "QUEUED" ELSE state[j]]
    /\ before' = before \union (Line \X S) \union {p \in S \X S : p[1] < p[2]}
    /\ tried' = tried \ S
    /\ UNCHANGED <<aged, held, loop, capacity, crashes>>

(* A job that is not waiting is refused, a child of an array passed over.  *)
Hold(t, kind, to) ==
    /\ Ask(kind)
    /\ LET S == Target(t)
       IN /\ S # {} /\ (t \in Jobs => state[t] \in Waiting)
          /\ state' = [j \in Jobs |-> IF j \in S /\ state[j] \in Waiting THEN to ELSE state[j]]
    /\ UNCHANGED <<before, aged, request, tried, held, loop, capacity, crashes>>

(* A waiting job ends at once, an active one is told to.  Only a job that   *)
(* has ended by itself is refused.                                         *)
Delete(t) ==
    /\ Ask("qdel")
    /\ LET S == Target(t)
       IN /\ S # {} /\ (t \in Jobs => state[t] \in Waiting \union Active \union {"CANCELLED"})
          /\ state' = [j \in Jobs |-> IF j \in S /\ state[j] \in Waiting THEN "CANCELLED"
                                      ELSE IF j \in S /\ state[j] \in Active THEN "EXITING"
                                      ELSE state[j]]
    /\ Leave({j \in Target(t) : state[j] \in Waiting})
    /\ UNCHANGED <<request, tried, held, loop, capacity, crashes>>

(* An array is altered as a whole, before any of it has started.           *)
Alter(t, r) ==
    /\ Ask("qalter")
    /\ Admissible(r)
    /\ LET S == Target(t)
       IN /\ S # {} /\ \A j \in S : state[j] \in Waiting /\ r \in Wishes[j]
          /\ t \in Arrays => S \intersect tried = {}
          /\ request' = [j \in Jobs |-> IF j \in S THEN r ELSE request[j]]
    /\ UNCHANGED <<state, before, aged, tried, held, loop, capacity, crashes>>

Request ==
    \/ \E j \in Jobs : Submit(IF Parent[j] = NoArray THEN {j}
                              ELSE {k \in Jobs : Parent[k] = Parent[j]})
    \/ \E t \in Jobs \union Arrays :
          \/ Hold(t, "qhold", "HELD") \/ Hold(t, "qrls", "QUEUED")
          \/ Delete(t)
          \/ \E r \in UNION {Wishes[j] : j \in Jobs} : Alter(t, r)

-----------------------------------------------------------------------------
(* What reconciliation makes of attempts                                   *)

Free(j) ==
    /\ devices' = [devices EXCEPT ![j] = {}]
    /\ cpuset' = [cpuset EXCEPT ![j] = {}]

Runs(j) ==
    /\ pc = "wait" /\ state[j] = "STARTING"
    /\ state' = [state EXCEPT ![j] = "RUNNING"]
    /\ UNCHANGED <<before, aged, request, tried, held, loop, capacity, fresh, crashes>>

Settle(j, outcome) ==
    /\ pc = "wait" /\ state[j] \in Active
    /\ state' = [state EXCEPT ![j] = outcome]
    /\ Leave({j}) /\ Free(j)
    /\ fresh' = FALSE
    /\ UNCHANGED <<request, tried, loop, capacity, crashes>>

(* A rerun, from the request to the end of the attempt: the job goes to the *)
(* end of the line.                                                        *)
Requeue(j) ==
    /\ pc = "wait" /\ state[j] = "RUNNING"
    /\ state' = [state EXCEPT ![j] = "QUEUED"]
    /\ before' = (before \ ({j} \X Jobs)) \union ((Line \ {j}) \X {j})
    /\ aged' = aged \ {j}
    /\ Free(j)
    /\ fresh' = FALSE
    /\ UNCHANGED <<request, tried, loop, capacity, crashes>>

(* An interrupted launch keeps its place.                                  *)
Interrupted(j) ==
    /\ pc = "wait" /\ state[j] = "STARTING"
    /\ state' = [state EXCEPT ![j] = "QUEUED"]
    /\ Free(j)
    /\ UNCHANGED <<before, aged, request, tried, loop, capacity, fresh, crashes>>

AttemptEnds(j) ==
    \/ \E outcome \in Ends \intersect Terminal : Settle(j, outcome)
    \/ "rerun" \in Ends /\ Requeue(j)

Reconciled == \E j \in Jobs : Runs(j) \/ AttemptEnds(j) \/ Interrupted(j)

-----------------------------------------------------------------------------
(* The loop                                                                *)

StartUp ==
    /\ pc = "down" /\ pc' = "wait"
    /\ capacity' \in Capacities
    /\ fresh' = FALSE
    /\ UNCHANGED <<records, held, pass, crashes>>

(* Processes on the devices are looked at anew for every plan; before the  *)
(* first inventory no device is usable.                                    *)
BeginPass ==
    /\ pc = "wait" /\ pc' = "plan"
    /\ \E usable \in Views : pass' = Begin(usable)
    /\ UNCHANGED <<records, held, capacity, crashes>>

Tick == BeginPass /\ UNCHANGED fresh

ProbeArrives == BeginPass /\ fresh' = TRUE

(* The oldest job not yet counted as waiting for long becomes so.          *)
TimePasses ==
    /\ Protection /\ pc = "wait"
    /\ \E j \in Line \ aged :
          /\ \A k \in Line \ aged : <<k, j>> \notin before
          /\ aged' = aged \union {j}
    /\ UNCHANGED <<state, before, request, tried, held, loop, capacity, fresh, crashes>>

Consider ==
    /\ pc = "plan"
    /\ \E j \in Jobs : Considered(j)
    /\ UNCHANGED <<records, held, pc, capacity, fresh, crashes>>

Planned == pc = "plan" /\ pass.todo = {}

FailDependent(j) ==
    /\ Planned /\ j \in pass.failed
    /\ pass' = [pass EXCEPT !.failed = @ \ {j}]
    /\ state' = [state EXCEPT ![j] = "FAILED"]
    /\ Leave({j})
    /\ UNCHANGED <<request, tried, held, pc, capacity, fresh, crashes>>

Executing == Planned /\ pass.failed = {} /\ pass.start # <<>>
Stale(allocation) == allocation.gpus # {} /\ AvoidForeign /\ ~fresh

Skip ==
    /\ Executing /\ Stale(Head(pass.start))
    /\ pass' = [pass EXCEPT !.start = Tail(@)]
    /\ UNCHANGED <<records, held, pc, capacity, fresh, crashes>>

(* What Reserve asks of an allocation, of the records as they are now.     *)
Admitted(allocation) ==
    LET j == allocation.job
    IN /\ state[j] = "QUEUED"
       /\ Cardinality(allocation.gpus) = request[j].gpus
       /\ request[j].cpus <= capacity.cpus - CPUsOf(ActiveJobs)
       /\ request[j].mem <= capacity.mem - MemoryOf(ActiveJobs)
       /\ Limit[Parent[j]] > 0 => RunningOf(Parent[j]) < Limit[Parent[j]]
       /\ \A k \in ActiveJobs : devices[k] \intersect allocation.gpus = {}

(* The reservation and the launch that follows it, which may fail.  One    *)
(* that is refused ends the daemon.                                        *)
Reserve(launched) ==
    LET allocation == Head(pass.start)
        j == allocation.job
    IN /\ Executing /\ ~Stale(allocation)
       /\ IF Admitted(allocation)
          THEN /\ pass' = [pass EXCEPT !.start = Tail(@)]
               /\ fresh' = (fresh /\ launched /\ allocation.gpus = {})
               /\ tried' = tried \union {j}
               /\ IF launched
                  THEN /\ state' = [state EXCEPT ![j] = "STARTING"]
                       /\ devices' = [devices EXCEPT ![j] = allocation.gpus]
                       /\ cpuset' = [cpuset EXCEPT ![j] = allocation.cpus]
                       /\ UNCHANGED <<before, aged>>
                  ELSE /\ state' = [state EXCEPT ![j] = "FAILED"]
                       /\ Leave({j}) /\ UNCHANGED held
               /\ UNCHANGED <<request, pc, capacity, crashes>>
          ELSE pc' = "down" /\ pass' = Idle /\ UNCHANGED <<records, held, capacity, fresh, crashes>>

PlanDone ==
    /\ Planned /\ pass.failed = {} /\ pass.start = <<>>
    /\ pc' = "wait" /\ pass' = Idle
    /\ UNCHANGED <<records, held, capacity, fresh, crashes>>

DaemonDies ==
    /\ crashes < MaxCrashes /\ crashes' = crashes + 1
    /\ pc # "down" /\ pc' = "down"
    /\ pass' = Idle
    /\ UNCHANGED <<records, held, capacity, fresh>>

Execute ==
    \/ \E j \in Jobs : FailDependent(j)
    \/ Skip
    \/ Reserve(TRUE) \/ ("FAILED" \in Ends /\ Reserve(FALSE))
    \/ PlanDone

Loop == StartUp \/ Tick \/ Consider \/ Execute

Next == Request \/ Reconciled \/ Loop \/ ProbeArrives \/ TimePasses \/ DaemonDies

Spec == Init /\ [][Next]_vars

-----------------------------------------------------------------------------
(* Fairness.  The loop has a ticker, the inventory worker another one; time *)
(* passes.  That attempts end, if only for a rerun, is a premise: a job    *)
(* without a walltime may run for ever, and nobody gets what it holds.     *)
FairSpec ==
    /\ Spec
    /\ WF_vars(Loop) /\ SF_vars(ProbeArrives) /\ SF_vars(TimePasses)
    /\ \A j \in Jobs : SF_vars(AttemptEnds(j))

-----------------------------------------------------------------------------
(* Safety                                                                  *)

(* Every reservation of a plan is accepted, whatever the ones before it    *)
(* came to: Decide and Reserve agree on capacity, array limits and devices *)
(* (a refusal ends the daemon).                                            *)
PlanAdmitted == Executing /\ ~Stale(Head(pass.start)) => Admitted(Head(pass.start))

(* With affinity no CPU is given to two jobs.  The store does not check    *)
(* it: the plan alone must see to it (Decide).                             *)
CPUsExclusive ==
    \A j, k \in ActiveJobs : j # k => cpuset[j] \intersect cpuset[k] = {}

(* A job is active only after all it depends on completed, an array when   *)
(* every subjob has (Decide, Aggregate).                                   *)
Members(d) == IF d \in Arrays THEN {k \in Jobs : Parent[k] = d} ELSE {d}
DependenciesRespected ==
    \A j \in ActiveJobs : \A d \in Deps[j] : \A k \in Members(d) : state[k] = "COMPLETED"

(* A waiting job fails only when something it depends on has ended for     *)
(* good, an array with all its subjobs, and not well (Decide, schedule).   *)
FailedOnlyByDependency ==
    [][\A j \in Jobs :
          state[j] \in Waiting /\ state'[j] = "FAILED" /\ j \notin tried' =>
             \E d \in Deps[j] :
                /\ \A k \in Members(d) : state[k] \in Terminal
                /\ \E k \in Members(d) : state[k] # "COMPLETED"]_vars

(* A reservation never takes more than the host has, nor a subjob more     *)
(* than its array's limit; what is being terminated still counts.          *)
Engaged == {j \in Jobs : state[j] \notin Waiting \union Terminal \union {"none"}}
WithinLimits ==
    [][\A j \in Engaged' \ Engaged :
          /\ CPUsOf(Engaged)' <= capacity'.cpus
          /\ MemoryOf(Engaged)' <= capacity'.mem
          /\ Limit[Parent[j]] > 0 =>
                Cardinality({k \in Engaged' : Parent[k] = Parent[j]}) <= Limit[Parent[j]]]_vars

(* A plan is work-conserving: a job that could start and would fit beside  *)
(* what the plan starts waits only for a job that has waited for long.     *)
PlanComplete == pc = "plan" /\ pc' = "plan" /\ pass.todo # {} /\ pass'.todo = {}
WorkConserving ==
    [][PlanComplete =>
          LET start == Range(pass'.start)
              busy == {a.job : a \in start} \union ActiveJobs
              gpus == pass.usable \ UNION ({devices[j] : j \in ActiveJobs} \union {a.gpus : a \in start})
              CouldStart(j) ==
                  /\ state[j] = "QUEUED" /\ j \notin busy /\ DependencyMet(j)
                  /\ Limit[Parent[j]] > 0 =>
                        Cardinality({k \in busy : Parent[k] = Parent[j]}) < Limit[Parent[j]]
                  /\ request[j].cpus <= capacity.cpus - CPUsOf(busy)
                  /\ request[j].mem <= capacity.mem - MemoryOf(busy)
                  /\ request[j].gpus <= Cardinality(gpus)
          IN \A j \in Jobs : CouldStart(j) =>
                \E k \in aged : state[k] = "QUEUED" /\ k \notin busy /\ k # j]_vars

-----------------------------------------------------------------------------
(* Liveness                                                                *)

Feasible(j) ==
    /\ request[j].cpus <= capacity.cpus
    /\ request[j].mem <= capacity.mem
    /\ \A usable \in Views : request[j].gpus <= Cardinality(usable)

(* A job that could run on an idle host does not wait for ever, whatever   *)
(* is submitted after it: smaller jobs cannot starve it (Decide).          *)
NoStarvation ==
    \A j \in {k \in Jobs : Deps[k] = {}} :
        state[j] = "QUEUED" /\ Feasible(j) ~> state[j] # "QUEUED"

(* A waiting job whose dependency can no longer be met ends (Decide).      *)
DependentsResolved ==
    \A j \in {k \in Jobs : Deps[k] # {}} :
        /\ state[j] \in Waiting
        /\ \E d \in Deps[j] :
              /\ \A k \in Members(d) : state[k] \in Terminal
              /\ \E k \in Members(d) : state[k] # "COMPLETED"
        ~> state[j] \notin Waiting
=============================================================================
