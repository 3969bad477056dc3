----------------------------- MODULE Lifecycle ------------------------------
(***************************************************************************)
(* The life of jobs and their execution attempts: daemon, runners and      *)
(* workloads together, and what may happen to them - the daemon dies       *)
(* between any two steps, a runner is killed, the host reboots.            *)
(***************************************************************************)
EXTENDS Daemon

CONSTANTS
    MaxFaults,    \* bound: faults of a behaviour
    Faults        \* the kinds of fault that occur

ASSUME FaultsAssumption ==
    /\ MaxFaults \in Nat
    /\ Faults \subseteq {"daemon", "runner", "reboot"}

VARIABLE faults   \* faults so far

vars == <<fileVars, runnerVars, daemonVars, faults>>

TypeOK == DirTypeOK /\ RunnerTypeOK /\ DaemonTypeOK /\ faults \in 0..MaxFaults

Init == DirInit /\ RunnerInit /\ DaemonInit /\ faults = 0

-----------------------------------------------------------------------------
Fault(kind) == kind \in Faults /\ faults < MaxFaults /\ faults' = faults + 1

(* The loop's memory is lost; the lock, the socket and the database        *)
(* connection go with the process, and what it was killing it kills no     *)
(* more.                                                                   *)
LoopLost ==
    /\ pc' = "down" /\ after' = "wait" /\ todo' = {} /\ job' = NoJob /\ seen' = NothingSeen
    /\ stopping' = [a \in Attempts |-> stopping[a] /\ RunnerAlive(a)']

(* A crash, a kill, or a database or file error: every one ends the daemon.*)
DaemonDies ==
    /\ Fault("daemon") /\ pc # "down"
    /\ UNCHANGED <<fileVars, runner, outcome, cause, due, workload, jobVars, attemptVars, askVars>>
    /\ LoopLost

(* The runner is killed, or ends on an error without a result.  A workload *)
(* still behind the gate reads its end and exits; one past it lives on.    *)
RunnerDies(a) ==
    /\ Fault("runner") /\ RunnerAlive(a)
    /\ Goto(a, "dead")
    /\ workload' = [workload EXCEPT ![a] = IF @ = "gated" THEN "aborted" ELSE @]
    /\ outcome' = [outcome EXCEPT ![a] = "none"]
    /\ cause' = [cause EXCEPT ![a] = "none"]
    /\ stopping' = [stopping EXCEPT ![a] = FALSE]
    /\ UNCHANGED <<fileVars, due, daemonVars>>

(* All processes end; database and published files stay.                   *)
Reboot ==
    /\ Fault("reboot")
    /\ runner' = [a \in Attempts |-> IF RunnerAlive(a) THEN "dead" ELSE runner[a]]
    /\ workload' = [a \in Attempts |-> IF workload[a] = "gated" THEN "aborted"
                                       ELSE IF Executing(a) THEN "gone" ELSE workload[a]]
    /\ outcome' = [a \in Attempts |-> "none"]
    /\ cause' = [a \in Attempts |-> "none"]
    /\ LoopLost
    /\ UNCHANGED <<fileVars, due, jobVars, attemptVars, askVars>>

RunnerSide(a) == RunnerStep(a) \/ WorkloadStep(a) \/ WalltimePasses(a)

Next ==
    \/ (StartUp \/ Request \/ DaemonStep) /\ UNCHANGED faults
    \/ \E a \in Attempts : RunnerSide(a) /\ UNCHANGED <<daemonVars, faults>>
    \/ DaemonDies
    \/ \E a \in Attempts : RunnerDies(a)
    \/ Reboot

Spec == Init /\ [][Next]_vars

-----------------------------------------------------------------------------
(* Fairness.  A runner that is scheduled goes on; a group that gets SIGKILL *)
(* ends; the loop goes on while the daemon is up, with a tick if nothing   *)
(* else wakes it.  The daemon comes up again: systemd restarts it, or the  *)
(* next client starts it.  Nothing makes a client ask, a script end, the   *)
(* walltime pass or a fault happen.                                        *)

RunnerFairness ==
    \A a \in Attempts :
        /\ WF_vars(RunnerStep(a) /\ UNCHANGED <<daemonVars, faults>>)
        /\ WF_vars(SignalledExits(a) /\ UNCHANGED <<daemonVars, faults>>)

DaemonFairness ==
    /\ WF_vars(StartUp /\ UNCHANGED faults)
    /\ WF_vars(DaemonStep /\ UNCHANGED faults)

(* Runners and the kernel go on; the daemon may never be seen again, unless *)
(* a property has DaemonFairness as its premise.                           *)
UnattendedSpec == Spec /\ RunnerFairness

-----------------------------------------------------------------------------
(* Safety                                                                  *)

(* Attempt a is the current one of an active job: its devices are held.    *)
Holds(a) == state[a[1]] \in Active /\ current[a[1]] = a[2]

(* A script never executes without its reservation: devices are released   *)
(* only after the managed execution is gone (finish, reconcile).           *)
ReleasedOnlyWhenGone == \A a \in Attempts : Executing(a) => Holds(a)

(* The same when runners may be lost: it holds as long as the runner       *)
(* lives, and what the daemon records as LostRunner is really gone         *)
(* (reconcile's branch for a runner that is not alive).                    *)
ReleasedOnlyWhenGoneOrUnseen ==
    \A a \in Attempts :
        Executing(a) => Holds(a) \/ (runner[a] = "dead" /\ saved[a] # "LostRunner")

(* A script executes a second time only after an accepted qrerun: neither  *)
(* recovery nor an interrupted launch ever repeats it.                     *)
NoSilentReexecution ==
    \A a \in Attempts : Executed(a) /\ a[2] < count[a[1]] => a \in rerunAsked

(* An attempt executes only on a committed authorization, published to it  *)
(* in authorize.json, and with its identity durable in started.json.       *)
ExecutedImpliesAuthorized ==
    \A a \in Attempts : Executed(a) => authorized[a] /\ granted[a] /\ started[a]

(* A runner whose attempt was given up has been told so, or has its result *)
(* out: it cannot poll for an authorization that never comes (the comment  *)
(* at reconcile's write of control.json).                                  *)
SupersededRunnerRevoked ==
    \A a \in Attempts :
        RunnerAlive(a) /\ ~Holds(a) => control[a].kind # "none" \/ Stamped(a)

(* The allocations table and the job records name the same devices, so no  *)
(* plan made from the records conflicts in the table (Decide, Reserve).    *)
RowsMatchJobs ==
    rows = UNION {devices[j] \X {<<j, current[j]>>} : j \in {k \in Jobs : state[k] \in Active}}

-----------------------------------------------------------------------------
(* What a step may never do                                                *)

(* Once a deletion of an active job is accepted the job is never queued    *)
(* again and no attempt of it is newly authorized, whatever crashes before *)
(* the runner has heard of it (reconcile, finish).                         *)
CancelSticks ==
    [][\A j \in Jobs : intent[j].kind = "cancel" =>
          /\ state'[j] \notin {"QUEUED", "HELD", "STARTING", "RUNNING"}
          /\ \A a \in Attempts : a[1] = j => authorized'[a] = authorized[a]]_vars

(* A deletion that was accepted before the walltime had passed and before  *)
(* the result got its EndedAt decides what becomes of the job, whatever    *)
(* its runner has seen of it and has published; and no job is timed out    *)
(* whose script was not executing at the end of its walltime (finish).     *)
DeletionDecides ==
    [][\A j \in Jobs :
          LET a == <<j, current[j]>>
              inTime == intent[j].kind = "cancel" /\ ~intent[j].past /\ ~late[j]
          IN state[j] \in Active /\ state'[j] \notin Active =>
                /\ inTime => state'[j] = "CANCELLED"
                /\ state'[j] = "TIMEOUT" => due[a] /\ Executed(a)]_vars

-----------------------------------------------------------------------------
(* Liveness                                                                *)

(* No job is stuck between reservation and outcome: what is starting or    *)
(* exiting runs, ends, or is queued again.                                 *)
NoJobStuck ==
    DaemonFairness =>
        \A j \in Jobs : state[j] \in {"STARTING", "EXITING"} ~> state[j] \notin {"STARTING", "EXITING"}

(* An attempt whose script has ended is settled and its devices are freed, *)
(* with or without a result.                                               *)
EndedAttemptSettled ==
    DaemonFairness => \A a \in Attempts : workload[a] = "gone" ~> ~Holds(a)

(* A runner of a given-up attempt ends, and needs no daemon for it.        *)
SupersededRunnerEnds ==
    \A a \in Attempts : RunnerAlive(a) /\ ~Holds(a) ~> ~RunnerAlive(a)

(* The walltime is enforced while the daemon is down: a script past it is  *)
(* ended by its runner, if that lives.                                     *)
WalltimeEnforced ==
    \A a \in Attempts : Executing(a) /\ due[a] ~> ~Executing(a) \/ runner[a] = "dead"

-----------------------------------------------------------------------------
(* What the documents say and the code does not do                         *)

(* "records their actual results, including completion while the daemon    *)
(* was down": an attempt with a published result never ends LostRunner or  *)
(* UnknownExecution.                                                       *)
PublishedResultKept == \A a \in Attempts : result[a] # "none" => saved[a] \notin MadeUp

(* CancelledByUser: only a job whose deletion was accepted is CANCELLED.   *)
CancelledByUser == \A j \in Jobs : state[j] = "CANCELLED" => j \in deleted

=============================================================================
