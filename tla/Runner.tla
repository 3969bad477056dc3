------------------------------- MODULE Runner -------------------------------
(***************************************************************************)
(* The detached runner of an attempt and the workload process group it     *)
(* supervises (internal/executor).  A runner never talks to the database:  *)
(* it reads control.json and authorize.json and publishes runner.json,     *)
(* started.json and result.json.  It lives on when the daemon dies.        *)
(*                                                                         *)
(* Every read or write of a file is a step of its own, so a daemon step    *)
(* may fall between any two of them.                                       *)
(***************************************************************************)
EXTENDS AttemptDir

VARIABLES
    runner,       \* runner[a]: where the runner process of a is
    outcome,      \* outcome[a]: the result a live runner is about to publish
    cause,        \* cause[a]: why a live runner is stopping its workload
    stopping,     \* stopping[a]: the group is being signalled, TERM then KILL
    due,          \* due[a]: the walltime of a has passed since its start
    workload      \* workload[a]: the gated workload process and its group

runnerVars == <<runner, outcome, cause, stopping, due, workload>>

Places == {"none", "boot", "control", "auth", "setup", "record", "gate", "watch",
           "stamp", "publish", "notify", "exited", "dead"}
Causes == {"none", "cancel", "rerun", "timeout"}

(* gated: started, blocked on the start gate; running: the script runs;    *)
(* leftover: its main process is done, descendants are not; aborted: the   *)
(* gate closed before the start token; gone: the whole group has ended.    *)
Groups == {"none", "gated", "running", "leftover", "aborted", "gone"}

RunnerTypeOK ==
    /\ runner \in [Attempts -> Places]
    /\ outcome \in [Attempts -> Outcomes \union {"none"}]
    /\ cause \in [Attempts -> Causes]
    /\ stopping \in [Attempts -> BOOLEAN]
    /\ due \in [Attempts -> BOOLEAN]
    /\ workload \in [Attempts -> Groups]

RunnerInit ==
    /\ runner = [a \in Attempts |-> "none"]
    /\ outcome = [a \in Attempts |-> "none"]
    /\ cause = [a \in Attempts |-> "none"]
    /\ stopping = [a \in Attempts |-> FALSE]
    /\ due = [a \in Attempts |-> FALSE]
    /\ workload = [a \in Attempts |-> "none"]

(* A live runner process: what Alive finds for its identity.               *)
RunnerAlive(a) == runner[a] \notin {"none", "exited", "dead"}

(* Members of the workload's process group or cgroup are left.             *)
GroupAlive(a) == workload[a] \in {"gated", "running", "leftover"}

(* The script of the attempt is executing, or something it started.        *)
Executing(a) == workload[a] \in {"running", "leftover"}

(* The script of the attempt was let through the start gate.               *)
Executed(a) == workload[a] \in {"running", "leftover", "gone"}

(* The result has got its EndedAt.                                         *)
Stamped(a) == runner[a] \in {"publish", "notify", "exited"} \/ result[a] # "none"

Goto(a, place) == runner' = [runner EXCEPT ![a] = place]

-----------------------------------------------------------------------------
(* Up to the authorization                                                 *)

(* Take the lifetime lock, check for a result, publish the identity.       *)
Boot(a) ==
    /\ runner[a] = "boot"
    /\ IF result[a] # "none"
       THEN Goto(a, "exited") /\ UNCHANGED ready
       ELSE Goto(a, "control") /\ ready' = [ready EXCEPT ![a] = TRUE]
    /\ UNCHANGED <<dir, control, granted, started, result,
                   outcome, cause, stopping, due, workload>>

(* The polling loop looks at control.json first ...                        *)
PollControl(a) ==
    /\ runner[a] = "control"
    /\ IF control[a].kind # "none"
       THEN Goto(a, "stamp") /\ outcome' = [outcome EXCEPT ![a] = "CANCELLED"]
       ELSE Goto(a, "auth") /\ UNCHANGED outcome
    /\ UNCHANGED <<fileVars, cause, stopping, due, workload>>

(* ... and only then at authorize.json.                                    *)
PollAuthorization(a) ==
    /\ runner[a] = "auth"
    /\ Goto(a, IF granted[a] THEN "setup" ELSE "control")
    /\ UNCHANGED <<fileVars, outcome, cause, stopping, due, workload>>

-----------------------------------------------------------------------------
(* The gated start                                                         *)

(* Output files, node files and pipe; then the workload process is started,*)
(* blocked on the gate.                                                    *)
StartGated(a) ==
    /\ runner[a] = "setup"
    /\ Goto(a, "record")
    /\ workload' = [workload EXCEPT ![a] = "gated"]
    /\ UNCHANGED <<fileVars, outcome, cause, stopping, due>>

(* An error before the start time is taken: the runner kills the gated     *)
(* process, if there is one, and publishes FAILED.                         *)
SetupFails(a) ==
    /\ runner[a] \in {"setup", "record"}
    /\ Goto(a, "stamp")
    /\ outcome' = [outcome EXCEPT ![a] = "FAILED"]
    /\ workload' = [workload EXCEPT ![a] = IF runner[a] = "record" THEN "aborted" ELSE @]
    /\ UNCHANGED <<fileVars, cause, stopping, due>>

(* The workload's identity is durable before the script may run.           *)
RecordStart(a) ==
    /\ runner[a] = "record"
    /\ Goto(a, "gate")
    /\ started' = [started EXCEPT ![a] = TRUE]
    /\ UNCHANGED <<dir, ready, control, granted, result,
                   outcome, cause, stopping, due, workload>>

OpenGate(a) ==
    /\ runner[a] = "gate"
    /\ Goto(a, "watch")
    /\ workload' = [workload EXCEPT ![a] = "running"]
    /\ UNCHANGED <<fileVars, outcome, cause, stopping, due>>

-----------------------------------------------------------------------------
(* Supervision                                                             *)

MainDone(a) == workload[a] \in {"leftover", "gone"}

(* The first accepted cause stays, but a cancel replaces a rerun.          *)
AcceptedCause(a) ==
    IF \/ cause[a] = "none" /\ control[a].kind # "none"
       \/ cause[a] = "rerun" /\ control[a].kind = "cancel"
    THEN control[a].kind
    ELSE cause[a]

(* The walltime counts when nothing was accepted before, or when what was  *)
(* accepted came after it and the group has not been signalled yet.        *)
TimesOut(a) ==
    /\ due[a]
    /\ ~MainDone(a)
    /\ \/ AcceptedCause(a) = "none"
       \/ control[a].kind # "none" /\ control[a].past /\ ~stopping[a]

TickCause(a) == IF TimesOut(a) THEN "timeout" ELSE AcceptedCause(a)

(* The result of an ended group: the exit status, unless a cause overrides *)
(* it.                                                                     *)
ResultsOf(why) ==
    {out \in Outcomes : /\ why = "none" => out \in {"COMPLETED", "FAILED"}
                        /\ why \in {"cancel", "rerun"} => out = "CANCELLED"
                        /\ why = "timeout" => out = "TIMEOUT"}

(* Mutant: the result does not wait for the rest of the group.             *)
TickMainOnly(a) ==
    /\ runner[a] = "watch"
    /\ IF MainDone(a)
       THEN /\ Goto(a, "stamp")
            /\ \E out \in ResultsOf(TickCause(a)) : outcome' = [outcome EXCEPT ![a] = out]
            /\ cause' = [cause EXCEPT ![a] = "none"]
            /\ stopping' = [stopping EXCEPT ![a] = FALSE]
       ELSE /\ cause' = [cause EXCEPT ![a] = TickCause(a)]
            /\ stopping' = [stopping EXCEPT ![a] = @ \/ TickCause(a) # "none"]
            /\ UNCHANGED <<runner, outcome>>
    /\ UNCHANGED <<fileVars, due, workload>>

(* Mutant: the walltime is noted as the cause, but nothing is signalled.   *)
TickUnsignalled(a) ==
    /\ runner[a] = "watch"
    /\ IF workload[a] = "gone"
       THEN /\ Goto(a, "stamp")
            /\ \E out \in ResultsOf(TickCause(a)) : outcome' = [outcome EXCEPT ![a] = out]
            /\ cause' = [cause EXCEPT ![a] = "none"]
            /\ stopping' = [stopping EXCEPT ![a] = FALSE]
       ELSE /\ cause' = [cause EXCEPT ![a] = TickCause(a)]
            /\ stopping' = [stopping EXCEPT ![a] = @ \/ MainDone(a) \/ control[a].kind # "none"]
            /\ UNCHANGED <<runner, outcome>>
    /\ UNCHANGED <<fileVars, due, workload>>

(* One round of the supervision loop: control, walltime, signals, and the  *)
(* end of the loop when main process and group are gone.                   *)
Tick(a) ==
    /\ runner[a] = "watch"
    /\ IF workload[a] = "gone"
       THEN /\ Goto(a, "stamp")
            /\ \E out \in ResultsOf(TickCause(a)) : outcome' = [outcome EXCEPT ![a] = out]
            /\ cause' = [cause EXCEPT ![a] = "none"]
            /\ stopping' = [stopping EXCEPT ![a] = FALSE]
       ELSE /\ cause' = [cause EXCEPT ![a] = TickCause(a)]
            /\ stopping' = [stopping EXCEPT ![a] = @ \/ MainDone(a) \/ TickCause(a) # "none"]
            /\ UNCHANGED <<runner, outcome>>
    /\ UNCHANGED <<fileVars, due, workload>>

-----------------------------------------------------------------------------
(* The result: EndedAt is taken, the file written, the daemon woken (for   *)
(* at most 200ms), and the process ends.                                   *)

Stamp(a) ==
    /\ runner[a] = "stamp"
    /\ Goto(a, "publish")
    /\ UNCHANGED <<fileVars, outcome, cause, stopping, due, workload>>

Publish(a) ==
    /\ runner[a] = "publish"
    /\ Goto(a, "notify")
    /\ result' = [result EXCEPT ![a] = outcome[a]]
    /\ UNCHANGED <<dir, ready, control, granted, started,
                   outcome, cause, stopping, due, workload>>

Notify(a) ==
    /\ runner[a] = "notify"
    /\ Goto(a, "exited")
    /\ outcome' = [outcome EXCEPT ![a] = "none"]
    /\ UNCHANGED <<fileVars, cause, stopping, due, workload>>

RunnerStep(a) ==
    \/ Boot(a) \/ PollControl(a) \/ PollAuthorization(a)
    \/ StartGated(a) \/ SetupFails(a) \/ RecordStart(a) \/ OpenGate(a)
    \/ Tick(a) \/ Stamp(a) \/ Publish(a) \/ Notify(a)

-----------------------------------------------------------------------------
(* The workload, and time                                                  *)

(* The main process ends by itself or by a signal, with or without         *)
(* descendants left in its group or cgroup.                                *)
MainExits(a) ==
    /\ workload[a] = "running"
    /\ \E left \in {"leftover", "gone"} : workload' = [workload EXCEPT ![a] = left]
    /\ UNCHANGED <<fileVars, runner, outcome, cause, stopping, due>>

LeftoverExits(a) ==
    /\ workload[a] = "leftover"
    /\ workload' = [workload EXCEPT ![a] = "gone"]
    /\ UNCHANGED <<fileVars, runner, outcome, cause, stopping, due>>

(* A signalled group ends: after the grace period the signal is SIGKILL.   *)
SignalledExits(a) == stopping[a] /\ (MainExits(a) \/ LeftoverExits(a))

WorkloadStep(a) == MainExits(a) \/ LeftoverExits(a)

(* The clock passes StartedAt plus the walltime; the start time is taken   *)
(* just before started.json is written.                                    *)
WalltimePasses(a) ==
    /\ started[a] /\ ~due[a] /\ workload[a] # "gone"
    /\ due' = [due EXCEPT ![a] = TRUE]
    /\ UNCHANGED <<fileVars, runner, outcome, cause, stopping, workload>>
=============================================================================
