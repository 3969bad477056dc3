------------------------------- MODULE Hooks --------------------------------
(***************************************************************************)
(* Completion hooks (internal/daemon/hooks_linux.go): after an attempt has *)
(* its result in the database the daemon claims its hook, and only then    *)
(* spawns a supervisor for it.  The supervisor is the runner of Runner.tla *)
(* working in the attempt's hook directory, with the hook as its command   *)
(* and hook_timeout as its walltime; nobody writes a control file there.   *)
(* Here the file variables are those of the hook directories.              *)
(***************************************************************************)
EXTENDS Runner

CONSTANTS
    NoAttempt,
    MaxFaults     \* bound: crashes of the daemon and of supervisors

ASSUME NoAttemptAssumption == NoAttempt \notin Attempts
ASSUME MaxFaultsAssumption == MaxFaults \in Nat

VARIABLES
    completed,    \* attempts with a Result in their row
    hookState,    \* hookState[a]: HookState of the row
    events,       \* events[a]: CompletionHook events recorded
    enabled,      \* the running daemon has a completion_hook
    pc,           \* where the daemon is in reconcileHooks
    cur,          \* the attempt whose hook is being launched
    todo,         \* completed attempts the pass has still to look at
    runs,         \* history: how often the hook of an attempt was executed
    faults

daemonVars == <<completed, hookState, events, enabled, pc, cur, todo>>
vars == <<fileVars, runnerVars, daemonVars, runs, faults>>

Recorded == Outcomes \union {"LaunchFailed"}

TypeOK ==
    /\ DirTypeOK /\ RunnerTypeOK
    /\ completed \subseteq Attempts
    /\ hookState \in [Attempts -> Recorded \union {"", "claimed"}]
    /\ events \in [Attempts -> 0..1]
    /\ enabled \in BOOLEAN
    /\ pc \in {"down", "idle", "scan", "authorize", "claim", "spawn"}
    /\ cur \in Attempts \union {NoAttempt}
    /\ todo \subseteq completed
    /\ runs \in [Attempts -> Nat]
    /\ faults \in 0..MaxFaults

Init ==
    /\ DirInit /\ RunnerInit
    /\ completed = {} /\ hookState = [a \in Attempts |-> ""]
    /\ events = [a \in Attempts |-> 0]
    /\ enabled = FALSE /\ pc = "down" /\ cur = NoAttempt /\ todo = {}
    /\ runs = [a \in Attempts |-> 0]
    /\ faults = 0

-----------------------------------------------------------------------------
(* The pass over completed attempts                                        *)

(* A start reads the configuration, which may have got or lost its hook.   *)
StartUp ==
    /\ pc = "down"
    /\ pc' = "idle" /\ enabled' \in BOOLEAN
    /\ UNCHANGED <<fileVars, runnerVars, completed, hookState, events, cur, todo>>

(* finish: the result is committed, together with the release.             *)
AttemptEnds(a) ==
    /\ pc = "idle" /\ a \notin completed
    /\ completed' = completed \union {a}
    /\ UNCHANGED <<fileVars, runnerVars, hookState, events, enabled, pc, cur, todo>>

BeginPass ==
    /\ pc = "idle" /\ enabled
    /\ pc' = "scan" /\ todo' = completed
    /\ UNCHANGED <<fileVars, runnerVars, completed, hookState, events, enabled, cur>>

PassDone ==
    /\ pc = "scan" /\ todo = {}
    /\ pc' = "idle"
    /\ UNCHANGED <<fileVars, runnerVars, completed, hookState, events, enabled, cur, todo>>

(* Mutant: the event is left to a transaction that a crash may prevent.    *)
RecordStateOnly(a, what) ==
    /\ hookState' = [hookState EXCEPT ![a] = what]
    /\ UNCHANGED events

(* HookState and event are saved in one transaction.                       *)
Record(a, what) ==
    /\ hookState' = [hookState EXCEPT ![a] = what]
    /\ events' = [events EXCEPT ![a] = @ + 1]

(* Mutant: results are collected of the hooks launched in this pass only.  *)
AwaitedNow(a) == hookState[a] = "claimed" /\ cur = a

Awaited(a) == hookState[a] = "claimed"

(* A claimed hook: its supervisor has published a result.                  *)
Collect(a) ==
    /\ pc = "scan" /\ a \in todo /\ Awaited(a) /\ result[a] # "none"
    /\ Record(a, result[a])
    /\ todo' = todo \ {a}
    /\ UNCHANGED <<fileVars, runnerVars, completed, enabled, pc, cur>>

PassOver(a) ==
    /\ pc = "scan" /\ a \in todo /\ hookState[a] # ""
    /\ ~(Awaited(a) /\ result[a] # "none")
    /\ todo' = todo \ {a}
    /\ UNCHANGED <<fileVars, runnerVars, completed, hookState, events, enabled, pc, cur>>

(* Directory and specification of the supervisor.                          *)
Prepare(a) ==
    /\ pc = "scan" /\ a \in todo /\ hookState[a] = ""
    /\ dir' = [dir EXCEPT ![a] = TRUE]
    /\ cur' = a /\ pc' = "authorize"
    /\ UNCHANGED <<ready, control, granted, started, result, runnerVars,
                   completed, hookState, events, enabled, todo>>

Authorize ==
    /\ pc = "authorize"
    /\ granted' = [granted EXCEPT ![cur] = TRUE]
    /\ pc' = "claim"
    /\ UNCHANGED <<dir, ready, control, started, result, runnerVars,
                   completed, hookState, events, enabled, cur, todo>>

(* Mutant: the claim is saved by whoever looks for a result later.         *)
ClaimLater(a) == hookState[a]

ClaimAs(a) == "claimed"

Claim ==
    /\ pc = "claim"
    /\ hookState' = [hookState EXCEPT ![cur] = ClaimAs(cur)]
    /\ pc' = "spawn"
    /\ UNCHANGED <<fileVars, runnerVars, completed, events, enabled, cur, todo>>

Handled == cur' = NoAttempt /\ pc' = "scan" /\ todo' = todo \ {cur}

(* A supervisor; beside one that lives it would end at the lock.           *)
Spawn ==
    /\ pc = "spawn"
    /\ runner' = [runner EXCEPT ![cur] = IF RunnerAlive(cur) THEN @ ELSE "boot"]
    /\ Handled
    /\ UNCHANGED <<fileVars, outcome, cause, stopping, due, workload,
                   completed, hookState, events, enabled>>

SpawnFailed == Record(cur, "LaunchFailed")

SpawnFails ==
    /\ pc = "spawn"
    /\ SpawnFailed
    /\ Handled
    /\ UNCHANGED <<fileVars, runnerVars, completed, enabled>>

Hook(a) == Collect(a) \/ PassOver(a) \/ Prepare(a)
Launch == Authorize \/ Claim \/ Spawn \/ SpawnFails
DaemonStep == BeginPass \/ PassDone \/ (\E a \in Attempts : Hook(a)) \/ Launch

-----------------------------------------------------------------------------
(* Faults, and the whole                                                   *)

DaemonDies ==
    /\ pc # "down" /\ faults < MaxFaults /\ faults' = faults + 1
    /\ pc' = "down" /\ cur' = NoAttempt /\ todo' = {} /\ enabled' = FALSE
    /\ UNCHANGED <<fileVars, runnerVars, completed, hookState, events, runs>>

RunnerDies(a) ==
    /\ RunnerAlive(a) /\ faults < MaxFaults /\ faults' = faults + 1
    /\ Goto(a, "dead")
    /\ workload' = [workload EXCEPT ![a] = IF @ = "gated" THEN "aborted" ELSE @]
    /\ outcome' = [outcome EXCEPT ![a] = "none"]
    /\ cause' = [cause EXCEPT ![a] = "none"]
    /\ stopping' = [stopping EXCEPT ![a] = FALSE]
    /\ UNCHANGED <<fileVars, due, daemonVars, runs>>

(* The gate opens: the hook is executed.                                   *)
Counted(a) ==
    runs' = [runs EXCEPT ![a] = IF workload[a] = "gated" /\ workload'[a] = "running"
                                THEN @ + 1 ELSE @]

Supervise(a) ==
    (RunnerStep(a) \/ WorkloadStep(a) \/ WalltimePasses(a)) /\ Counted(a)

Next ==
    \/ (StartUp \/ DaemonStep) /\ UNCHANGED <<runs, faults>>
    \/ \E a \in Attempts : AttemptEnds(a) /\ UNCHANGED <<runs, faults>>
    \/ \E a \in Attempts : Supervise(a) /\ UNCHANGED <<daemonVars, faults>>
    \/ DaemonDies
    \/ \E a \in Attempts : RunnerDies(a)

Spec == Init /\ [][Next]_vars

(* As for attempts: supervisors and the clock go on by themselves, and what *)
(* is signalled ends; that the loop goes on and is started again is the    *)
(* premise of what speaks of the daemon.                                   *)
RunnerFairness ==
    \A a \in Attempts :
        /\ WF_vars(RunnerStep(a) /\ Counted(a) /\ UNCHANGED <<daemonVars, faults>>)
        /\ WF_vars(WalltimePasses(a) /\ Counted(a) /\ UNCHANGED <<daemonVars, faults>>)
        /\ WF_vars(SignalledExits(a) /\ Counted(a) /\ UNCHANGED <<daemonVars, faults>>)

DaemonFairness ==
    /\ WF_vars(StartUp /\ UNCHANGED <<runs, faults>>)
    /\ WF_vars(DaemonStep /\ UNCHANGED <<runs, faults>>)

UnattendedSpec == Spec /\ RunnerFairness

-----------------------------------------------------------------------------
(* Properties                                                              *)

(* "Hooks run once at most for each completed execution attempt", wherever *)
(* daemon and supervisor are interrupted (claim before spawn), and never   *)
(* when the hook is recorded as not launched.                              *)
HookAtMostOnce ==
    \A a \in Attempts :
        /\ runs[a] <= IF hookState[a] = "LaunchFailed" THEN 0 ELSE 1
        /\ runs[a] = 1 => a \in completed

(* What is recorded of a hook is what its supervisor published, once; and  *)
(* a claimed hook that is not recorded is still under way, or something    *)
(* was interrupted: the claim alone loses nothing.                         *)
RecordTrue ==
    \A a \in Attempts :
        /\ hookState[a] \in Outcomes => hookState[a] = result[a]
        /\ events[a] = IF hookState[a] \in Recorded THEN 1 ELSE 0
        /\ hookState[a] = "claimed" /\ faults = 0 =>
              RunnerAlive(a) \/ result[a] # "none" \/ (pc = "spawn" /\ cur = a)

(* A supervisor ends, by the hook's time limit if by nothing else and with *)
(* no daemon to tell it.  While a hook is configured, and if the daemon    *)
(* comes back, every completed attempt gets its claim, those that ended    *)
(* before it was configured too; and a published result is recorded, if it *)
(* was published while the daemon was down too.                            *)
HooksHandled ==
    /\ \A a \in Attempts : RunnerAlive(a) ~> ~RunnerAlive(a)
    /\ DaemonFairness /\ <>[]enabled =>
          \A a \in Attempts :
              /\ a \in completed ~> hookState[a] # ""
              /\ result[a] # "none" ~> hookState[a] = result[a]
=============================================================================
