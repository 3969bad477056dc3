------------------------------- MODULE Daemon -------------------------------
(***************************************************************************)
(* The daemon's owner loop over its database: reconciliation of active     *)
(* attempts, control requests, reservation and launch (internal/daemon,    *)
(* internal/store).  One goroutine does all of it.  A database transaction *)
(* is one step; so is every file read, every file write and every look at  *)
(* a process.  What the loop has read of the current attempt is kept in    *)
(* "seen" and may be stale when it is used.                                *)
(***************************************************************************)
EXTENDS Runner

CONSTANTS
    GPUs,         \* the usable devices
    Need,         \* Need[j]: devices job j requests
    NoJob,        \* no job in hand
    Requests      \* the control requests clients make

ASSUME NeedAssumption == Need \in [Jobs -> Nat]
ASSUME NoJobAssumption == NoJob \notin Jobs
ASSUME RequestsAssumption == Requests \subseteq {"qdel", "qrerun", "qhold", "qrls"}

VARIABLES
    \* The database: the rows of jobs, allocations and attempts.
    state,        \* state[j]: job state
    count,        \* count[j]: AttemptCount
    current,      \* current[j]: AttemptID, 0 when it is empty
    intent,       \* intent[j]: Control, and whether ControlAt is past the walltime
    late,         \* late[j]: ControlAt is after the EndedAt of the attempt's result
    devices,      \* devices[j]: GPUs of the job record
    rows,         \* the allocations table: pairs <<device, attempt>>
    authorized,   \* authorized[a]: Authorized of the attempt row
    known,        \* known[a]: the attempt row holds the runner's identity
    saved,        \* saved[a]: Result of the attempt row
    \* The loop.
    pc,           \* where the loop is
    after,        \* where it goes when reconciliation is through
    todo,         \* active jobs this reconciliation has not come to
    job,          \* the job in hand
    seen,         \* what was read of its attempt's files
    \* History, for the properties only.
    rerunAsked,   \* attempts for which a rerun was accepted
    deleted       \* jobs whose deletion was accepted

tableVars == <<devices, rows>>
jobVars == <<state, count, current, intent, late, tableVars>>
attemptVars == <<authorized, known, saved>>
loopVars == <<pc, after, todo, job, seen>>
askVars == <<rerunAsked, deleted>>
daemonVars == <<jobVars, attemptVars, loopVars, askVars>>

Active == {"STARTING", "RUNNING", "EXITING"}
States == Active \union Outcomes \union {"QUEUED", "HELD"}

Points == {"down", "pass", "started", "result", "collect", "alive",
           "direct", "grant", "mark", "revoke", "abandon", "reap", "kill",
           "wait", "dispatch", "publish", "schedule", "mkdir", "spawn", "save"}
NothingSeen == [ready |-> FALSE, runner |-> FALSE, started |-> FALSE]

DaemonTypeOK ==
    /\ state \in [Jobs -> States]
    /\ count \in [Jobs -> 0..MaxAttempts]
    /\ current \in [Jobs -> 0..MaxAttempts]
    /\ intent \in [Jobs -> Controls]
    /\ late \in [Jobs -> BOOLEAN]
    /\ devices \in [Jobs -> SUBSET GPUs]
    /\ rows \in SUBSET (GPUs \X Attempts)
    /\ authorized \in [Attempts -> BOOLEAN]
    /\ known \in [Attempts -> BOOLEAN]
    /\ saved \in [Attempts -> Outcomes \union MadeUp \union {"none"}]
    /\ pc \in Points
    /\ after \in {"wait", "dispatch", "schedule"}
    /\ todo \in SUBSET Jobs
    /\ job \in Jobs \union {NoJob}
    /\ seen \in [ready : BOOLEAN, runner : BOOLEAN, started : BOOLEAN]
    /\ rerunAsked \in SUBSET Attempts
    /\ deleted \in SUBSET Jobs

(* Jobs have been submitted; the daemon is about to be started.            *)
DaemonInit ==
    /\ state = [j \in Jobs |-> "QUEUED"]
    /\ count = [j \in Jobs |-> 0]
    /\ current = [j \in Jobs |-> 0]
    /\ intent = [j \in Jobs |-> NoControl]
    /\ late = [j \in Jobs |-> FALSE]
    /\ devices = [j \in Jobs |-> {}]
    /\ rows = {}
    /\ authorized = [a \in Attempts |-> FALSE]
    /\ known = [a \in Attempts |-> FALSE]
    /\ saved = [a \in Attempts |-> "none"]
    /\ pc = "down" /\ after = "wait" /\ todo = {}
    /\ job = NoJob /\ seen = NothingSeen
    /\ rerunAsked = {} /\ deleted = {}

-----------------------------------------------------------------------------
(* The attempt in hand, and steps of the loop                              *)

it == <<job, current[job]>>

(* The loop goes on with the job in hand, or drops it.                     *)
Continue(point) == pc' = point /\ UNCHANGED <<after, todo, job, seen>>
Leave(point) ==
    /\ pc' = point /\ job' = NoJob /\ seen' = NothingSeen
    /\ UNCHANGED <<after, todo>>

(* A reconciliation begins with the list of active jobs.                   *)
Pass(next) ==
    /\ pc' = "pass" /\ after' = next /\ job' = NoJob
    /\ todo' = {j \in Jobs : state'[j] \in Active}
    /\ UNCHANGED seen

(* A step that touches neither tables nor files.                           *)
OnlyLoop == UNCHANGED <<fileVars, runnerVars, jobVars, attemptVars, askVars>>

WriteControl(a, ctl) ==
    /\ control' = [control EXCEPT ![a] = ctl]
    /\ UNCHANGED <<ready, granted, started, result>>

(* DELETE FROM allocations WHERE attempt_id = a.                           *)
Release(a) == rows' = {r \in rows : r[2] # a}

(* Mutant: descendants of the main process are not looked for.             *)
WorkloadGoneMainOnly == seen.started => workload[it] # "running"

(* workloadGone, asked with the launch metadata the loop has read: without *)
(* it there is no group to look for.                                       *)
WorkloadGone == seen.started => ~GroupAlive(it)

(* Mutant: the reason of a lost runner ends up as the job's state.         *)
SettledUnmapped(j, out, published) ==
    IF \/ intent[j].kind = "none"
       \/ published /\ late[j]
       \/ out = "TIMEOUT" /\ intent[j].past
    THEN out
    ELSE IF intent[j].kind = "rerun" THEN "QUEUED" ELSE "CANCELLED"

(* Mutant: a timeout stands, whenever the control was accepted.            *)
SettledTimeoutFirst(j, out, published) ==
    LET ignored == \/ published /\ late[j]
                   \/ out = "TIMEOUT"
    IN IF intent[j].kind = "none" \/ ignored
       THEN IF out \in MadeUp THEN "FAILED" ELSE out
       ELSE IF intent[j].kind = "rerun" THEN "QUEUED" ELSE "CANCELLED"

(* What becomes of a job whose attempt ended with "out".  A control        *)
(* accepted after the result was stamped is ignored; so is one that came   *)
(* after the walltime when the attempt timed out.                          *)
Settled(j, out, published) ==
    LET ignored == \/ published /\ late[j]
                   \/ out = "TIMEOUT" /\ intent[j].past
    IN IF intent[j].kind = "none" \/ ignored
       THEN IF out \in MadeUp THEN "FAILED" ELSE out
       ELSE IF intent[j].kind = "rerun" THEN "QUEUED" ELSE "CANCELLED"

(* finish: result, release and job record commit together.                 *)
Finish(out, published) ==
    LET settled == Settled(job, out, published)
    IN /\ state' = [state EXCEPT ![job] = settled]
       /\ saved' = [saved EXCEPT ![it] = IF settled = "CANCELLED" THEN settled ELSE out]
       /\ known' = [known EXCEPT ![it] = @ \/ seen.runner]
       /\ Release(it)
       /\ devices' = [devices EXCEPT ![job] = {}]
       /\ intent' = [intent EXCEPT ![job] = NoControl]
       /\ UNCHANGED <<fileVars, runnerVars, count, current, late, authorized, askVars>>

-----------------------------------------------------------------------------
(* Start-up, and the events of the loop                                    *)

(* The state-directory lock is taken, then everything is reconciled before *)
(* the socket accepts requests.                                            *)
StartUp == pc = "down" /\ OnlyLoop /\ Pass("wait")

(* A tick, a wake-up of a runner, or new inventory.                        *)
Wake == pc = "wait" /\ OnlyLoop /\ Pass("schedule")

(* A client's request is taken from the queue.                             *)
Request == pc = "wait" /\ OnlyLoop /\ Pass("dispatch")

-----------------------------------------------------------------------------
(* Reconciliation                                                          *)

PassDone ==
    /\ pc = "pass" /\ todo = {}
    /\ Leave(after)
    /\ OnlyLoop

(* runner.json is adopted when the process it names is alive.              *)
ReadRunner(j) ==
    LET a == <<j, current[j]>>
    IN /\ pc = "pass" /\ j \in todo
       /\ pc' = "started" /\ job' = j /\ todo' = todo \ {j}
       /\ seen' = [ready |-> ready[a],
                   runner |-> known[a] \/ (ready[a] /\ RunnerAlive(a)),
                   started |-> FALSE]
       /\ UNCHANGED after
       /\ OnlyLoop

ReadStarted ==
    /\ pc = "started"
    /\ pc' = "result" /\ seen' = [seen EXCEPT !.started = started[it]]
    /\ UNCHANGED <<after, todo, job>>
    /\ OnlyLoop

ReadResult ==
    /\ pc = "result"
    /\ Continue(IF result[it] = "none" THEN "alive" ELSE "collect")
    /\ OnlyLoop

(* A published result is taken once the workload is gone.                  *)
Collect ==
    /\ pc = "collect"
    /\ Leave("pass")
    /\ IF WorkloadGone THEN Finish(result[it], TRUE) ELSE OnlyLoop

(* Mutant: only the missing started.json makes a launch interrupted.       *)
CheckAliveUnstarted ==
    /\ pc = "alive"
    /\ Continue(IF seen.runner /\ RunnerAlive(it) THEN "direct"
                ELSE IF ~seen.started THEN "revoke" ELSE "reap")
    /\ OnlyLoop

(* Mutant: an identity on record passes for a live process.                *)
CheckAliveByRecord ==
    /\ pc = "alive"
    /\ Continue(IF seen.runner THEN "direct"
                ELSE IF ~authorized[it] /\ ~seen.started THEN "revoke" ELSE "reap")
    /\ OnlyLoop

CheckAlive ==
    /\ pc = "alive"
    /\ Continue(IF seen.runner /\ RunnerAlive(it) THEN "direct"
                ELSE IF ~authorized[it] /\ ~seen.started THEN "revoke" ELSE "reap")
    /\ OnlyLoop

(* Mutant: a control is not published again after a crash.                 *)
RepublishNothing ==
    /\ pc = "direct" /\ intent[job].kind # "none"
    /\ Continue("grant")
    /\ UNCHANGED <<fileVars, runnerVars, jobVars, attemptVars, askVars>>

(* A live runner is told the pending control; only without one may it be   *)
(* authorized.                                                             *)
Republish ==
    /\ pc = "direct" /\ intent[job].kind # "none"
    /\ Continue("grant")
    /\ WriteControl(it, intent[job])
    /\ dir' = [dir EXCEPT ![it] = TRUE]
    /\ UNCHANGED <<runnerVars, jobVars, attemptVars, askVars>>

Authorize ==
    /\ pc = "direct" /\ intent[job].kind = "none"
    /\ Continue("grant")
    /\ IF ~authorized[it] /\ seen.ready
       THEN /\ authorized' = [authorized EXCEPT ![it] = TRUE]
            /\ known' = [known EXCEPT ![it] = TRUE]
            /\ UNCHANGED saved
       ELSE UNCHANGED attemptVars
    /\ UNCHANGED <<fileVars, runnerVars, jobVars, askVars>>

(* Mutant: the authorization file does not wait for the commit.            *)
GrantUncommitted ==
    /\ pc = "grant"
    /\ Continue("mark")
    /\ granted' = [granted EXCEPT ![it] = TRUE]
    /\ UNCHANGED <<dir, ready, control, started, result>>
    /\ UNCHANGED <<runnerVars, jobVars, attemptVars, askVars>>

(* The durable authorization is published if it has not been.              *)
Grant ==
    /\ pc = "grant"
    /\ Continue("mark")
    /\ granted' = [granted EXCEPT ![it] = @ \/ authorized[it]]
    /\ UNCHANGED <<dir, ready, control, started, result>>
    /\ UNCHANGED <<runnerVars, jobVars, attemptVars, askVars>>

(* A job whose workload has started is RUNNING, and the adopted identity of *)
(* its runner is saved with it.                                            *)
Mark ==
    /\ pc = "mark"
    /\ Leave("pass")
    /\ IF seen.started /\ state[job] = "STARTING"
       THEN /\ state' = [state EXCEPT ![job] = "RUNNING"]
            /\ known' = [known EXCEPT ![it] = @ \/ seen.runner]
       ELSE UNCHANGED <<state, known>>
    /\ UNCHANGED <<fileVars, runnerVars, count, current, intent, late, tableVars,
                   authorized, saved, askVars>>

(* Mutant: a late runner is not told.                                      *)
RevokeSilently ==
    /\ pc = "revoke"
    /\ Continue("abandon")
    /\ UNCHANGED <<fileVars, runnerVars, jobVars, attemptVars, askVars>>

(* A launch that was interrupted: a runner that comes up late must see a   *)
(* cancellation before the reservation is released.                        *)
Revoke ==
    /\ pc = "revoke"
    /\ Continue("abandon")
    /\ IF dir[it]
       THEN WriteControl(it, [kind |-> "cancel", past |-> FALSE]) /\ UNCHANGED dir
       ELSE UNCHANGED fileVars
    /\ UNCHANGED <<runnerVars, jobVars, attemptVars, askVars>>

(* Mutant: the allocation rows outlive the requeue.                        *)
RequeueUnreleased ==
    /\ state' = [state EXCEPT ![job] = "QUEUED"]
    /\ devices' = [devices EXCEPT ![job] = {}]
    /\ current' = [current EXCEPT ![job] = 0]
    /\ UNCHANGED <<fileVars, runnerVars, count, intent, late, rows, attemptVars, askVars>>

Requeue ==
    /\ state' = [state EXCEPT ![job] = "QUEUED"]
    /\ devices' = [devices EXCEPT ![job] = {}]
    /\ current' = [current EXCEPT ![job] = 0]
    /\ Release(it)
    /\ UNCHANGED <<fileVars, runnerVars, count, intent, late, attemptVars, askVars>>

(* Mutant: an interrupted launch is requeued, cancelled or not.            *)
AbandonAlways == pc = "abandon" /\ Leave("pass") /\ Requeue

Abandon ==
    /\ pc = "abandon"
    /\ Leave("pass")
    /\ IF intent[job].kind = "cancel" THEN Finish("CANCELLED", FALSE) ELSE Requeue

(* The runner is lost.  A workload that is left is terminated first.       *)
Reap ==
    /\ pc = "reap"
    /\ IF WorkloadGone
       THEN /\ Leave("pass")
            /\ Finish(IF seen.started THEN "LostRunner" ELSE "UnknownExecution", FALSE)
       ELSE /\ Continue("kill")
            /\ state' = [state EXCEPT ![job] = "EXITING"]
            /\ UNCHANGED <<fileVars, runnerVars, count, current, intent, late, tableVars,
                           attemptVars, askVars>>

KillGroup ==
    /\ pc = "kill"
    /\ Leave("pass")
    /\ stopping' = [stopping EXCEPT ![it] = TRUE]
    /\ UNCHANGED <<fileVars, runner, outcome, cause, due, workload>>
    /\ UNCHANGED <<jobVars, attemptVars, askVars>>

Reconcile ==
    \/ PassDone \/ (\E j \in Jobs : ReadRunner(j))
    \/ ReadStarted \/ ReadResult \/ Collect \/ CheckAlive
    \/ Republish \/ Authorize \/ Grant \/ Mark
    \/ Revoke \/ Abandon \/ Reap \/ KillGroup

-----------------------------------------------------------------------------
(* Control requests: one transaction, then publication to the runner.      *)

(* After a request: reconcile again, then schedule.                        *)
Answered == Pass("schedule")

(* ControlAt is now.                                                       *)
Intend(j, kind) ==
    LET a == <<j, current[j]>>
    IN /\ state' = [state EXCEPT ![j] = "EXITING"]
       /\ intent' = [intent EXCEPT ![j] = [kind |-> kind, past |-> due[a]]]
       /\ late' = [late EXCEPT ![j] = Stamped(a)]
       /\ pc' = "publish" /\ job' = j
       /\ UNCHANGED <<count, current, tableVars, after, todo, seen>>

DeleteWaiting(j) ==
    /\ pc = "dispatch" /\ state[j] \in {"QUEUED", "HELD"}
    /\ state' = [state EXCEPT ![j] = "CANCELLED"]
    /\ deleted' = deleted \union {j}
    /\ Answered
    /\ UNCHANGED <<fileVars, runnerVars, count, current, intent, late, tableVars,
                   attemptVars, rerunAsked>>

(* A deletion replaces a pending rerun.                                    *)
DeleteActive(j) ==
    /\ pc = "dispatch"
    /\ \/ state[j] \in {"STARTING", "RUNNING"}
       \/ state[j] = "EXITING" /\ intent[j].kind = "rerun"
    /\ Intend(j, "cancel")
    /\ deleted' = deleted \union {j}
    /\ UNCHANGED <<fileVars, runnerVars, attemptVars, rerunAsked>>

(* A cancelled job keeps its intent, which is published again; a job that  *)
(* exits for another reason is left alone.                                 *)
DeleteAgain(j) ==
    /\ pc = "dispatch" /\ state[j] = "EXITING" /\ intent[j].kind # "rerun"
    /\ deleted' = deleted \union {j}
    /\ UNCHANGED <<fileVars, runnerVars, jobVars, attemptVars, rerunAsked>>
    /\ IF intent[j].kind = "cancel"
       THEN pc' = "publish" /\ job' = j /\ UNCHANGED <<after, todo, seen>>
       ELSE Answered

Rerun(j) ==
    /\ pc = "dispatch" /\ state[j] = "RUNNING"
    /\ Intend(j, "rerun")
    /\ rerunAsked' = rerunAsked \union {<<j, current[j]>>}
    /\ UNCHANGED <<fileVars, runnerVars, attemptVars, deleted>>

HoldOrRelease(j, to) ==
    /\ pc = "dispatch" /\ state[j] \in {"QUEUED", "HELD"}
    /\ state' = [state EXCEPT ![j] = to]
    /\ Answered
    /\ UNCHANGED <<fileVars, runnerVars, count, current, intent, late, tableVars,
                   attemptVars, askVars>>

(* Any request that is refused, or only asks.                              *)
Refuse == pc = "dispatch" /\ OnlyLoop /\ Answered

PublishControl ==
    /\ pc = "publish"
    /\ WriteControl(it, intent[job])
    /\ dir' = [dir EXCEPT ![it] = TRUE]
    /\ UNCHANGED <<runnerVars, jobVars, attemptVars, askVars>>
    /\ Answered

Dispatch ==
    \/ Refuse
    \/ PublishControl
    \/ \E j \in Jobs :
          \/ "qdel" \in Requests /\ (DeleteWaiting(j) \/ DeleteActive(j) \/ DeleteAgain(j))
          \/ "qrerun" \in Requests /\ Rerun(j)
          \/ "qhold" \in Requests /\ HoldOrRelease(j, "HELD")
          \/ "qrls" \in Requests /\ HoldOrRelease(j, "QUEUED")

-----------------------------------------------------------------------------
(* Scheduling and launch                                                   *)

(* The plan takes devices that no active job record names.                 *)
FreeGPUs == GPUs \ UNION {devices[j] : j \in {k \in Jobs : state[k] \in Active}}
Plans(j) == {g \in SUBSET FreeGPUs : Cardinality(g) = Need[j]}

ScheduleDone == pc = "schedule" /\ Leave("wait") /\ OnlyLoop

(* The job of the plan, STARTING, and its allocation rows commit together; *)
(* a device that has a row already fails the transaction and the daemon    *)
(* with it.                                                                *)
Conflict(g) == \E r \in rows : r[1] \in g

Reserve(j, g) ==
    LET a == <<j, count[j] + 1>>
    IN /\ pc = "schedule" /\ state[j] = "QUEUED" /\ count[j] < MaxAttempts
       /\ IF Conflict(g)
          THEN Leave("down") /\ OnlyLoop
          ELSE /\ state' = [state EXCEPT ![j] = "STARTING"]
               /\ count' = [count EXCEPT ![j] = a[2]]
               /\ current' = [current EXCEPT ![j] = a[2]]
               /\ intent' = [intent EXCEPT ![j] = NoControl]
               /\ late' = [late EXCEPT ![j] = FALSE]
               /\ devices' = [devices EXCEPT ![j] = g]
               /\ rows' = rows \union (g \X {a})
               /\ pc' = "mkdir" /\ job' = j
               /\ UNCHANGED <<after, todo, seen, fileVars, runnerVars, attemptVars, askVars>>

(* The attempt directory with spec.json in it.                             *)
MakeDir ==
    /\ pc = "mkdir"
    /\ Continue("spawn")
    /\ dir' = [dir EXCEPT ![it] = TRUE]
    /\ UNCHANGED <<ready, control, granted, started, result>>
    /\ UNCHANGED <<runnerVars, jobVars, attemptVars, askVars>>

Spawn ==
    /\ pc = "spawn"
    /\ Continue("save")
    /\ runner' = [runner EXCEPT ![it] = "boot"]
    /\ UNCHANGED <<outcome, cause, stopping, due, workload>>
    /\ UNCHANGED <<fileVars, jobVars, attemptVars, askVars>>

SaveRunner ==
    /\ pc = "save"
    /\ Leave("schedule")
    /\ known' = [known EXCEPT ![it] = TRUE]
    /\ UNCHANGED <<fileVars, runnerVars, jobVars, authorized, saved, askVars>>

LaunchFails ==
    /\ pc \in {"mkdir", "spawn"}
    /\ Leave("schedule")
    /\ Finish("FAILED", FALSE)

Schedule ==
    \/ ScheduleDone
    \/ \E j \in Jobs : \E g \in Plans(j) : Reserve(j, g)
    \/ MakeDir \/ Spawn \/ SaveRunner \/ LaunchFails

DaemonStep == Wake \/ Reconcile \/ Dispatch \/ Schedule
=============================================================================
