-------------------------- MODULE RefinementProofs --------------------------
(***************************************************************************)
(* Theorems about the contract of a job: every step of daemon, runners and *)
(* workloads, and every fault, is a step of Contract.tla or none, for any  *)
(* number of jobs, attempts, devices and faults.  And about what decides   *)
(* how a job ends, which the contract leaves open.                         *)
(***************************************************************************)
EXTENDS Refinement, LifecycleProofs

-----------------------------------------------------------------------------
(* A runner that has not opened its gate has not executed anything.        *)
BeforeGate == {"none", "boot", "control", "auth", "setup", "record", "gate"}
GateInv == \A a \in Attempts : runner[a] \in BeforeGate => ~Executed(a)

(* At first there is no workload.                                          *)
LEMMA GateInvInit == Init => GateInv
BY DEF Init, RunnerInit, GateInv, Executed

(* Only the gate lets a script through: every other step leaves what has   *)
(* been executed as it is, and starts nothing.                             *)
Started(a) == OpenGate(a) /\ UNCHANGED daemonVars
NothingStarts == \A a \in Attempts : /\ Executed(a)' <=> Executed(a)
                                     /\ Executing(a)' => Executing(a)

LEMMA StepOnExecution ==
    ASSUME TypeInv, GateInv, [Next]_vars
    PROVE  (\E a \in Attempts : Started(a)) \/ NothingStarts
<1>1. /\ workload \in [Attempts -> Groups]
      /\ \A a \in Attempts : runner[a] \in {"setup", "record"} => ~Executed(a)
  BY DEF TypeInv, TypeOK, RunnerTypeOK, GateInv, BeforeGate
<1>2. ASSUME UNCHANGED workload PROVE NothingStarts
  BY <1>2 DEF NothingStarts, Executed, Executing
<1>3. CASE StartUp \/ Request \/ DaemonStep
  BY <1>2, <1>3, DaemonKeepsExecution DEF Authorize, Grant, Spawn, runnerVars
<1>4. ASSUME NEW b \in Attempts, RunnerSide(b), UNCHANGED daemonVars
      PROVE  Started(b) \/ NothingStarts
  <2>1. CASE OpenGate(b)
    BY <1>4, <2>1 DEF Started
  <2>2. CASE StartGated(b) \/ SetupFails(b) \/ MainExits(b) \/ LeftoverExits(b)
    BY <1>1, <2>2 DEF StartGated, SetupFails, MainExits, LeftoverExits, NothingStarts, Executed, Executing
  <2>3. CASE Boot(b) \/ PollControl(b) \/ PollAuthorization(b) \/ RecordStart(b) \/ Tick(b) \/ Stamp(b)
             \/ Publish(b) \/ Notify(b) \/ WalltimePasses(b)
    BY <1>2, <2>3 DEF Boot, PollControl, PollAuthorization, RecordStart, Tick, Stamp, Publish, Notify, WalltimePasses
  <2> QED
    BY <1>4, <2>1, <2>2, <2>3 DEF RunnerSide, RunnerStep, WorkloadStep
<1>5. CASE DaemonDies \/ Reboot \/ (\E b \in Attempts : RunnerDies(b)) \/ UNCHANGED vars
  BY <1>1, <1>2, <1>5 DEF DaemonDies, Reboot, RunnerDies, NothingStarts, Executed, Executing, vars, runnerVars
<1> QED
  BY <1>3, <1>4, <1>5 DEF Next

(* No step breaks GateInv: a runner before its gate was there already, or  *)
(* is a new one.                                                           *)
LEMMA GateInvNext == TypeInv /\ SpawnInv /\ GateInv /\ [Next]_vars => GateInv'
<1> SUFFICES ASSUME TypeInv, SpawnInv, GateInv, [Next]_vars PROVE GateInv'
  OBVIOUS
<1>1. runner \in [Attempts -> Places]
  BY DEF TypeInv, TypeOK, RunnerTypeOK
<1>2. ASSUME NEW a \in Attempts, Started(a) PROVE GateInv'
  BY <1>1, <1>2 DEF Started, OpenGate, Goto, GateInv, BeforeGate, Executed
<1>3. CASE NothingStarts
  <2> SUFFICES ASSUME NEW a \in Attempts, runner'[a] \in BeforeGate PROVE ~Executed(a)
    BY <1>3 DEF GateInv, NothingStarts
  <2>1. CASE runner[a] \in BeforeGate
    BY <2>1 DEF GateInv
  <2>2. CASE UNCHANGED runner
    BY <2>1, <2>2
  <2>3. CASE Spawn
    <3>1. it \in Attempts /\ runner[it] = "none"
      BY <2>3, ItIsAttempt DEF Spawn, InHand, SpawnInv, NotYetSpawned
    <3> QED
      BY <1>1, <2>1, <2>3, <3>1 DEF Spawn, BeforeGate
  <2>4. CASE StartUp \/ Request \/ DaemonStep
    BY <2>2, <2>3, <2>4, DaemonKeepsExecution DEF Authorize, Grant, runnerVars
  <2>5. ASSUME NEW b \in Attempts, RunnerStep(b) PROVE runner[a] \in BeforeGate
    BY <1>1, <2>5 DEF RunnerStep, Boot, PollControl, PollAuthorization, StartGated, SetupFails,
       RecordStart, OpenGate, Tick, Stamp, Publish, Notify, Goto, BeforeGate
  <2>6. ASSUME NEW b \in Attempts, WorkloadStep(b) \/ WalltimePasses(b) PROVE UNCHANGED runner
    BY <2>6 DEF WorkloadStep, MainExits, LeftoverExits, WalltimePasses
  <2>7. CASE DaemonDies \/ Reboot \/ (\E b \in Attempts : RunnerDies(b)) \/ UNCHANGED vars
    BY <1>1, <2>1, <2>2, <2>7 DEF DaemonDies, Reboot, RunnerDies, Goto, BeforeGate, vars, runnerVars
  <2> QED
    BY <2>1, <2>2, <2>4, <2>5, <2>6, <2>7 DEF Next, RunnerSide
<1> QED
  BY <1>2, <1>3, StepOnExecution

-----------------------------------------------------------------------------
(* A timeout is what has happened: whoever supervises a script has let it  *)
(* through, and where a runner's cause, its outcome or its result says     *)
(* that the time was up, it was, and the script had been executing.        *)
Overdue(a) == due[a] /\ Executed(a)
TimeoutInv ==
    \A a \in Attempts :
        /\ runner[a] = "watch" => Executed(a)
        /\ cause[a] = "timeout" \/ outcome[a] = "TIMEOUT" \/ result[a] = "TIMEOUT" => Overdue(a)

(* At first nothing has happened.                                          *)
LEMMA TimeoutInvInit == Init => TimeoutInv
BY DEF Init, DirInit, RunnerInit, TimeoutInv

(* The daemon touches neither what a runner finds nor what it publishes.   *)
LEMMA DaemonOnOutcome ==
    ASSUME StartUp \/ Request \/ DaemonStep
    PROVE  UNCHANGED <<outcome, cause, due, result>>
<1> USE DEF OnlyLoop, WriteControl, fileVars, runnerVars
<1>1. CASE StartUp \/ Request \/ Wake
  BY <1>1 DEF StartUp, Request, Wake
<1>2. CASE Reconcile
  <2>1. CASE PassDone \/ (\E j \in Jobs : ReadRunner(j)) \/ ReadStarted \/ ReadResult \/ CheckAlive
    BY <2>1 DEF PassDone, ReadRunner, ReadStarted, ReadResult, CheckAlive
  <2>2. CASE Collect \/ Abandon \/ Reap
    BY <2>2 DEF Collect, Abandon, Reap, Finish, Requeue
  <2>3. CASE Republish \/ Authorize \/ Grant \/ Mark \/ Revoke \/ KillGroup
    BY <2>3 DEF Republish, Authorize, Grant, Mark, Revoke, KillGroup
  <2> QED
    BY <1>2, <2>1, <2>2, <2>3 DEF Reconcile
<1>3. CASE Dispatch
  BY <1>3 DEF Dispatch, Refuse, PublishControl, DeleteWaiting, DeleteActive, DeleteAgain, Rerun, HoldOrRelease
<1>4. CASE Schedule
  BY <1>4 DEF Schedule, ScheduleDone, Reserve, MakeDir, Spawn, SaveRunner, LaunchFails, Finish
<1> QED
  BY <1>1, <1>2, <1>3, <1>4 DEF DaemonStep

(* What is overdue stays it.                                               *)
LEMMA OverdueStays ==
    ASSUME TypeInv, GateInv, [Next]_vars, NEW a \in Attempts, Overdue(a)
    PROVE  Overdue(a)'
<1>1. due \in [Attempts -> BOOLEAN] /\ workload \in [Attempts -> Groups]
  BY DEF TypeInv, TypeOK, RunnerTypeOK
<1>2. Executed(a)'
  BY <1>1, StepOnExecution DEF Started, OpenGate, NothingStarts, Overdue, Executed
<1>3. due'[a]
  <2>1. CASE UNCHANGED due
    BY <2>1 DEF Overdue
  <2>2. ASSUME NEW b \in Attempts, RunnerSide(b) PROVE due'[a]
    <3>1. CASE WalltimePasses(b)
      BY <1>1, <3>1 DEF WalltimePasses, Overdue
    <3>2. CASE RunnerStep(b) \/ WorkloadStep(b)
      BY <2>1, <3>2 DEF RunnerStep, WorkloadStep, Boot, PollControl, PollAuthorization, StartGated, SetupFails,
         RecordStart, OpenGate, Tick, Stamp, Publish, Notify, MainExits, LeftoverExits
    <3> QED
      BY <2>2, <3>1, <3>2 DEF RunnerSide
  <2>3. CASE DaemonDies \/ Reboot \/ (\E b \in Attempts : RunnerDies(b)) \/ UNCHANGED vars
    BY <2>1, <2>3 DEF DaemonDies, Reboot, RunnerDies, vars, runnerVars
  <2> QED
    BY <2>1, <2>2, <2>3, DaemonOnOutcome DEF Next
<1> QED
  BY <1>2, <1>3 DEF Overdue

(* What a round of supervision notes and publishes (execute).              *)
LEMMA TickTimesOut ==
    ASSUME TypeInv, TimeoutInv, NEW a \in Attempts, Tick(a)
    PROVE  (cause'[a] = "timeout" \/ outcome'[a] = "TIMEOUT" => Overdue(a))
<1>1. /\ cause \in [Attempts -> Causes] /\ outcome \in [Attempts -> Outcomes \union {"none"}]
      /\ control[a].kind \in {"none", "cancel", "rerun"}
  BY DEF TypeInv, TypeOK, RunnerTypeOK, DirTypeOK, Controls, Kinds
<1>2. Executed(a)
  BY DEF Tick, TimeoutInv
<1>3. TickCause(a) = "timeout" => Overdue(a)
  BY <1>1, <1>2 DEF TickCause, TimesOut, AcceptedCause, TimeoutInv, Overdue
<1>4. TickCause(a) \in Causes
  BY <1>1 DEF TickCause, AcceptedCause, Causes
<1>5. "TIMEOUT" \in ResultsOf(TickCause(a)) => TickCause(a) = "timeout"
  BY <1>4 DEF ResultsOf, Causes
<1>6. CASE workload[a] = "gone"
  BY <1>1, <1>3, <1>5, <1>6 DEF Tick
<1>7. CASE workload[a] # "gone"
  BY <1>1, <1>3, <1>7 DEF Tick, TimeoutInv
<1> QED
  BY <1>6, <1>7

(* No step breaks TimeoutInv: only a round of supervision finds a timeout, *)
(* and what a runner publishes is what it found.                           *)
LEMMA TimeoutInvNext == TypeInv /\ SpawnInv /\ GateInv /\ TimeoutInv /\ [Next]_vars => TimeoutInv'
<1> SUFFICES ASSUME TypeInv, SpawnInv, GateInv, TimeoutInv, [Next]_vars, NEW a \in Attempts
             PROVE  /\ runner'[a] = "watch" => Executed(a)'
                    /\ cause'[a] = "timeout" \/ outcome'[a] = "TIMEOUT" \/ result'[a] = "TIMEOUT"
                          => Overdue(a)
  BY OverdueStays DEF TimeoutInv
<1>1. /\ runner \in [Attempts -> Places] /\ workload \in [Attempts -> Groups]
      /\ cause \in [Attempts -> Causes] /\ outcome \in [Attempts -> Outcomes \union {"none"}]
      /\ result \in [Attempts -> Outcomes \union {"none"}]
  BY DEF TypeInv, TypeOK, RunnerTypeOK, DirTypeOK
<1>2. /\ runner[a] = "watch" => Executed(a)
      /\ cause[a] = "timeout" \/ outcome[a] = "TIMEOUT" \/ result[a] = "TIMEOUT" => Overdue(a)
  BY DEF TimeoutInv
<1>3. Executed(a) => Executed(a)'
  BY <1>1, StepOnExecution DEF Started, OpenGate, NothingStarts, Executed
<1>4. runner'[a] = "watch" => Executed(a)'
  <2>1. CASE runner'[a] = "watch" /\ runner[a] # "watch"
    <3>1. CASE Spawn
      BY <1>1, <2>1, <3>1 DEF Spawn
    <3>2. CASE StartUp \/ Request \/ DaemonStep
      BY <2>1, <3>1, <3>2, DaemonKeepsExecution DEF Authorize, Grant, runnerVars
    <3>3. ASSUME NEW b \in Attempts, RunnerSide(b) PROVE OpenGate(a)
      BY <1>1, <2>1, <3>3 DEF RunnerSide, RunnerStep, WorkloadStep, Boot, PollControl, PollAuthorization,
         StartGated, SetupFails, RecordStart, OpenGate, Tick, Stamp, Publish, Notify, MainExits,
         LeftoverExits, WalltimePasses, Goto
    <3>4. CASE DaemonDies \/ Reboot \/ (\E b \in Attempts : RunnerDies(b)) \/ UNCHANGED vars
      BY <1>1, <2>1, <3>4 DEF DaemonDies, Reboot, RunnerDies, Goto, vars, runnerVars
    <3>5. CASE OpenGate(a)
      BY <1>1, <3>5 DEF OpenGate, Executed
    <3> QED
      BY <3>2, <3>3, <3>4, <3>5 DEF Next
  <2> QED
    BY <1>2, <1>3, <2>1
<1>5. cause'[a] = "timeout" \/ outcome'[a] = "TIMEOUT" \/ result'[a] = "TIMEOUT" => Overdue(a)
  <2>1. CASE UNCHANGED <<cause, outcome, result>>
    BY <1>2, <2>1
  <2>2. CASE StartUp \/ Request \/ DaemonStep
    BY <2>1, <2>2, DaemonOnOutcome
  <2>3. ASSUME NEW b \in Attempts, RunnerSide(b)
        PROVE  cause'[a] = "timeout" \/ outcome'[a] = "TIMEOUT" \/ result'[a] = "TIMEOUT" => Overdue(a)
    <3>1. CASE Tick(b) /\ a = b
      BY <1>2, <3>1, TickTimesOut DEF Tick, fileVars
    <3>2. CASE Tick(b) /\ a # b
      BY <1>1, <1>2, <3>2 DEF Tick, fileVars
    <3>3. CASE PollControl(b) \/ SetupFails(b) \/ Publish(b) \/ Notify(b)
      BY <1>1, <1>2, <3>3 DEF PollControl, SetupFails, Publish, Notify, fileVars
    <3>4. CASE Boot(b) \/ PollAuthorization(b) \/ StartGated(b) \/ RecordStart(b) \/ OpenGate(b) \/ Stamp(b)
               \/ MainExits(b) \/ LeftoverExits(b) \/ WalltimePasses(b)
      BY <2>1, <3>4 DEF Boot, PollAuthorization, StartGated, RecordStart, OpenGate, Stamp, MainExits,
         LeftoverExits, WalltimePasses, fileVars
    <3> QED
      BY <2>3, <3>1, <3>2, <3>3, <3>4 DEF RunnerSide, RunnerStep, WorkloadStep
  <2>4. CASE DaemonDies \/ Reboot \/ (\E b \in Attempts : RunnerDies(b)) \/ UNCHANGED vars
    BY <1>1, <1>2, <2>4 DEF DaemonDies, Reboot, RunnerDies, vars, fileVars, runnerVars
  <2> QED
    BY <2>2, <2>3, <2>4 DEF Next
<1> QED
  BY <1>4, <1>5

(* What finish makes of a deletion in time, and of a timeout.              *)
LEMMA SettledDecides ==
    ASSUME NEW j, NEW out \in Outcomes \union MadeUp, NEW published
    PROVE  /\ intent[j].kind = "cancel" /\ ~intent[j].past /\ ~late[j]
                 => Settled(j, out, published) = "CANCELLED"
           /\ Settled(j, out, published) = "TIMEOUT" => out = "TIMEOUT"
BY DEF Settled, Outcomes, MadeUp

(* A deletion that came in time decides the outcome, and only a script     *)
(* that executed is timed out: the run "progress" checks it for one        *)
(* attempt and two faults.                                                 *)
THEOREM DeletionInTimeDecides == Spec => DeletionDecides
<1> DEFINE inTime(j) == intent[j].kind = "cancel" /\ ~intent[j].past /\ ~late[j]
           Decides == \A j \in Jobs :
               state[j] \in Active /\ state'[j] \notin Active =>
                  /\ inTime(j) => state'[j] = "CANCELLED"
                  /\ state'[j] = "TIMEOUT" => due[<<j, current[j]>>] /\ Executed(<<j, current[j]>>)
<1>1. ASSUME TypeInv, TimeoutInv, [Next]_vars, NEW j \in Jobs, state[j] \in Active, state'[j] \notin Active
      PROVE  /\ inTime(j) => state'[j] = "CANCELLED"
             /\ state'[j] = "TIMEOUT" => due[<<j, current[j]>>] /\ Executed(<<j, current[j]>>)
  <2>1. state \in [Jobs -> States]
    BY <1>1 DEF TypeInv, TypeOK, DaemonTypeOK
  <2>2. CASE Ended
    <3>1. pc \in InHand
      BY <1>1, <2>2, EndedFinishes
    <3>2. job \in Jobs /\ it \in Attempts
      BY <1>1, <3>1, ItIsAttempt
    <3>3. PICK out \in Outcomes \union MadeUp, published \in BOOLEAN :
             /\ Finish(out, published)
             /\ out = "TIMEOUT" => result[it] = "TIMEOUT"
      <4>1. CASE pc = "collect" /\ Finish(result[it], TRUE)
        BY <1>1, <3>1, <3>2, <4>1 DEF TypeInv, TypeOK, LoopInv, ResultKnown, DirTypeOK
      <4>2. ASSUME NEW out \in {"CANCELLED", "FAILED", "LostRunner", "UnknownExecution"}, Finish(out, FALSE)
            PROVE  \E o \in Outcomes \union MadeUp, published \in BOOLEAN :
                      Finish(o, published) /\ (o = "TIMEOUT" => result[it] = "TIMEOUT")
        <5>1. out \in Outcomes \union MadeUp /\ out # "TIMEOUT"
          BY DEF Outcomes, MadeUp
        <5> QED
          BY <4>2, <5>1
      <4>3. CASE pc = "reap" /\ Finish(IF seen.started THEN "LostRunner" ELSE "UnknownExecution", FALSE)
        BY <4>2, <4>3
      <4> QED
        BY <2>2, <4>1, <4>2, <4>3 DEF Ended
    <3>4. state' = [state EXCEPT ![job] = Settled(job, out, published)]
      BY <3>3 DEF Finish
    <3>5. j = job /\ state'[j] = Settled(job, out, published)
      BY <1>1, <2>1, <3>2, <3>4
    <3>6. out = "TIMEOUT" => Overdue(it)
      BY <1>1, <3>2, <3>3 DEF TimeoutInv
    <3> QED
      BY <3>5, <3>6, SettledDecides DEF Overdue, it
  <2>3. CASE Requeued
    <3>1. intent[job].kind # "cancel" /\ state' = [state EXCEPT ![job] = "QUEUED"]
      BY <2>3 DEF Requeued, Requeue
    <3> QED
      BY <1>1, <2>1, <3>1
  <2>4. CASE Reserved
    BY <1>1, <2>1, <2>4 DEF Reserved, Reserve, Active
  <2>5. CASE Kept
    BY <1>1, <2>5 DEF Kept
  <2> QED
    BY <1>1, <2>2, <2>3, <2>4, <2>5, StepOnRecords DEF RecordsStep
<1>2. TypeInv /\ TimeoutInv /\ [Next]_vars => [Decides]_vars
  BY <1>1
<1>3. TypeInv /\ SpawnInv /\ GateInv /\ TimeoutInv /\ [Next]_vars => SpawnInv' /\ GateInv' /\ TimeoutInv'
  BY SpawnInvNext, GateInvNext, TimeoutInvNext
<1>4. Init => SpawnInv /\ GateInv /\ TimeoutInv
  BY SpawnInvInit, GateInvInit, TimeoutInvInit
<1> HIDE DEF Decides
<1>5. Spec => [][Decides]_vars
  BY <1>2, <1>3, <1>4, TypesHold, PTL DEF Spec
<1> QED
  BY <1>5 DEF DeletionDecides, Decides

-----------------------------------------------------------------------------
(* A busy job of which something was asked is exiting.                     *)
AskedExits == \A j \in Jobs : Busy(j) /\ intent[j].kind # "none" => state[j] = "EXITING"

(* At first nothing is asked.                                              *)
LEMMA AskedExitsInit == Init => AskedExits
BY DEF Init, DaemonInit, AskedExits, NoControl

(* An intent comes with EXITING, which is left only by giving up the       *)
(* attempt; the next reservation starts without one (control, reserve).    *)
LEMMA AskedExitsNext == TypeInv /\ AskedExits /\ [Next]_vars => AskedExits'
<1> SUFFICES ASSUME TypeInv, AskedExits, [Next]_vars PROVE AskedExits'
  OBVIOUS
<1>1. state \in [Jobs -> States] /\ intent \in [Jobs -> Controls]
  BY DEF TypeInv, TypeOK, DaemonTypeOK
<1>2. CASE Kept
  BY <1>2 DEF Kept, AskedExits, Busy
<1>3. CASE Ended
  <2>1. PICK out \in Outcomes \union MadeUp, published \in BOOLEAN : Finish(out, published)
    BY <1>3, EndedFinishes
  <2>2. /\ state' = [state EXCEPT ![job] = Settled(job, out, published)]
        /\ intent' = [intent EXCEPT ![job] = NoControl]
    BY <2>1 DEF Finish
  <2> QED
    BY <1>1, <2>2 DEF AskedExits, NoControl, Busy
<1>4. CASE Requeued
  BY <1>1, <1>4 DEF Requeued, Requeue, AskedExits, Busy, Active
<1>5. CASE Reserved
  BY <1>1, <1>5 DEF Reserved, Reserve, AskedExits, NoControl, Busy
<1> QED
  BY <1>2, <1>3, <1>4, <1>5, StepOnRecords DEF RecordsStep

-----------------------------------------------------------------------------
(* What a step that keeps the reservations does to the records: nothing    *)
(* the contract tells apart, or a request is accepted.                     *)
Alike ==
    /\ UNCHANGED <<current, devices>>
    /\ \A j \in Jobs : /\ Busy(j)' <=> Busy(j)
                       /\ state'[j] \in Outcomes <=> state[j] \in Outcomes
                       /\ Busy(j) => intent'[j].kind = intent[j].kind
Asked(j, kind) ==
    /\ Busy(j) /\ Busy(j)'
    /\ intent[j].kind = "none" \/ (intent[j].kind = "rerun" /\ kind = "cancel")
    /\ intent'[j].kind = kind
    /\ \A k \in Jobs \ {j} : state'[k] = state[k] /\ intent'[k] = intent[k]
    /\ UNCHANGED <<current, devices>>
Deleted(j) ==
    /\ state[j] \in {"QUEUED", "HELD"}
    /\ state' = [state EXCEPT ![j] = "CANCELLED"]
    /\ UNCHANGED <<current, devices, intent>>

ContractStep ==
    \/ Alike \/ Ended \/ Requeued \/ Reserved
    \/ \E j \in Jobs : Deleted(j) \/ Asked(j, "cancel") \/ Asked(j, "rerun")

LEMMA DispatchOnContract ==
    ASSUME TypeInv, AskedExits, Dispatch
    PROVE  ContractStep
<1> USE DEF Answered, Pass, OnlyLoop, jobVars, tableVars
<1>1. state \in [Jobs -> States] /\ intent \in [Jobs -> Controls]
  BY DEF TypeInv, TypeOK, DaemonTypeOK
<1>2. CASE UNCHANGED <<state, current, devices, intent>>
  BY <1>2 DEF Alike, Busy, ContractStep
<1>3. CASE Refuse \/ PublishControl \/ (\E j \in Jobs : DeleteAgain(j))
  BY <1>2, <1>3 DEF Refuse, PublishControl, DeleteAgain
<1>4. ASSUME NEW j \in Jobs, DeleteWaiting(j)
      PROVE  Deleted(j)
  BY <1>4 DEF DeleteWaiting, Deleted
<1>5. ASSUME NEW j \in Jobs, DeleteActive(j)
      PROVE  Asked(j, "cancel")
  BY <1>1, <1>5 DEF DeleteActive, Intend, Asked, AskedExits, Busy, Active
<1>6. ASSUME NEW j \in Jobs, Rerun(j)
      PROVE  Asked(j, "rerun")
  BY <1>1, <1>6 DEF Rerun, Intend, Asked, AskedExits, Busy, Active
<1>7. ASSUME NEW j \in Jobs, NEW to \in {"QUEUED", "HELD"}, HoldOrRelease(j, to)
      PROVE  Alike
  BY <1>1, <1>7 DEF HoldOrRelease, Alike, Busy, Active, Outcomes
<1> QED
  BY <1>3, <1>4, <1>5, <1>6, <1>7 DEF Dispatch, ContractStep

(* Every step is one of these.                                             *)
LEMMA StepOnContract ==
    ASSUME TypeInv, AskedExits, [Next]_vars
    PROVE  ContractStep
<1> USE DEF OnlyLoop, jobVars, tableVars, ContractStep
<1>1. state \in [Jobs -> States]
  BY DEF TypeInv, TypeOK, DaemonTypeOK
<1>2. CASE UNCHANGED <<state, current, devices, intent>>
  BY <1>2 DEF Alike, Busy
<1>3. CASE StartUp \/ Request \/ Wake \/ UNCHANGED vars
  BY <1>2, <1>3 DEF StartUp, Request, Wake, vars, daemonVars
<1>4. CASE (\E a \in Attempts : RunnerSide(a) /\ UNCHANGED <<daemonVars, faults>>)
           \/ DaemonDies \/ Reboot \/ (\E a \in Attempts : RunnerDies(a))
  BY <1>2, <1>4 DEF DaemonDies, Reboot, RunnerDies, daemonVars
<1>5. CASE Dispatch
  BY <1>5, DispatchOnContract
<1>6. CASE Reconcile
  <2>1. CASE PassDone \/ (\E j \in Jobs : ReadRunner(j)) \/ ReadStarted \/ ReadResult \/ CheckAlive
             \/ Republish \/ Authorize \/ Grant \/ Revoke \/ KillGroup
    BY <1>2, <2>1 DEF PassDone, ReadRunner, ReadStarted, ReadResult, CheckAlive, Republish, Authorize,
       Grant, Revoke, KillGroup
  <2>2. CASE Mark
    <3>1. UNCHANGED <<current, devices, intent>>
      BY <2>2 DEF Mark
    <3>2. UNCHANGED state \/ (state[job] = "STARTING" /\ state' = [state EXCEPT ![job] = "RUNNING"])
      BY <2>2 DEF Mark
    <3> QED
      BY <1>1, <3>1, <3>2 DEF Alike, Busy, Active, Outcomes
  <2>3. CASE Collect
    BY <1>2, <2>3 DEF Collect, Ended
  <2>4. CASE Abandon
    BY <2>4 DEF Abandon, Ended, Requeued
  <2>5. CASE Reap
    <3>1. CASE WorkloadGone
      BY <2>5, <3>1 DEF Reap, Ended
    <3>2. CASE ~WorkloadGone
      <4>1. job \in Jobs /\ Busy(job)
        BY <2>5, ItIsAttempt DEF Reap, InHand, Passing, Busy
      <4>2. state' = [state EXCEPT ![job] = "EXITING"] /\ UNCHANGED <<current, devices, intent>>
        BY <2>5, <3>2 DEF Reap
      <4> QED
        BY <1>1, <4>1, <4>2 DEF Alike, Busy, Active, Outcomes
    <3> QED
      BY <3>1, <3>2
  <2> QED
    BY <1>6, <2>1, <2>2, <2>3, <2>4, <2>5 DEF Reconcile
<1>7. CASE Schedule
  <2>1. CASE ScheduleDone \/ MakeDir \/ Spawn \/ SaveRunner
    BY <1>2, <2>1 DEF ScheduleDone, MakeDir, Spawn, SaveRunner
  <2>2. CASE LaunchFails
    BY <2>2 DEF LaunchFails, Ended
  <2>3. ASSUME NEW j \in Jobs, NEW g \in Plans(j), Reserve(j, g)
        PROVE  ContractStep
    <3>1. CASE Conflict(g)
      BY <1>2, <2>3, <3>1 DEF Reserve
    <3>2. CASE ~Conflict(g)
      BY <2>3, <3>2 DEF Reserved
    <3> QED
      BY <3>1, <3>2
  <2> QED
    BY <1>7, <2>1, <2>2, <2>3 DEF Schedule
<1> QED
  BY <1>3, <1>4, <1>5, <1>6, <1>7 DEF Next, DaemonStep

(* A step is one of the daemon, which leaves the workloads alone, or       *)
(* leaves the records alone.                                               *)
LEMMA OneSide ==
    ASSUME [Next]_vars
    PROVE  UNCHANGED workload \/ UNCHANGED <<state, current, devices, intent>>
<1>1. CASE StartUp \/ Request \/ DaemonStep
  BY <1>1, DaemonKeepsExecution DEF Authorize, Grant, Spawn, runnerVars
<1>2. CASE (\E a \in Attempts : RunnerSide(a) /\ UNCHANGED <<daemonVars, faults>>)
           \/ DaemonDies \/ Reboot \/ (\E a \in Attempts : RunnerDies(a)) \/ UNCHANGED vars
  BY <1>2 DEF DaemonDies, Reboot, RunnerDies, vars, daemonVars, jobVars, tableVars
<1> QED
  BY <1>1, <1>2 DEF Next

-----------------------------------------------------------------------------
(* The refinement.                                                         *)
RefInv == /\ TypeInv /\ GrantInv /\ RepeatInv /\ SpawnInv /\ AdoptInv /\ PlaceInv /\ HoldInv
          /\ ReleasedOnlyWhenGoneOrUnseen /\ GateInv /\ AskedExits

(* Whoever executes or has executed, as the contract sees it.              *)
NowExecuting(j) == \E n \in 1..MaxAttempts : Executing(<<j, n>>)
HasRun(j) == Busy(j) /\ \E n \in 1..MaxAttempts : current[j] = n /\ Executed(<<j, n>>)

(* With every script supervised what executes is the attempt in force.     *)
LEMMA ExecutingInForce ==
    ASSUME RefInv, ~Unsupervised, NEW j \in Jobs
    PROVE  /\ NowExecuting(j) => HasRun(j) /\ Executing(<<j, current[j]>>)
           /\ HasRun(j) => authorized[<<j, current[j]>>]
<1>1. ASSUME NEW n \in 1..MaxAttempts, Executing(<<j, n>>)
      PROVE  Busy(j) /\ current[j] = n /\ Executed(<<j, n>>)
  <2>1. <<j, n>> \in Attempts
    BY DEF Attempts
  <2>2. Holds(<<j, n>>)
    BY <1>1, <2>1 DEF RefInv, ReleasedOnlyWhenGoneOrUnseen, Unsupervised
  <2> QED
    BY <1>1, <2>2 DEF Holds, Busy, Executing, Executed
<1>2. ASSUME NEW n \in 1..MaxAttempts, Executed(<<j, n>>)
      PROVE  authorized[<<j, n>>]
  <2>1. <<j, n>> \in Attempts
    BY DEF Attempts
  <2> QED
    BY <1>2, <2>1 DEF RefInv, GrantInv, Executed
<1> QED
  BY <1>1, <1>2 DEF NowExecuting, HasRun

(* What the contract says is so at first.                                  *)
LEMMA ContractInit == Init => C!Init
<1> SUFFICES ASSUME Init PROVE C!Init
  OBVIOUS
<1>1. \A j \in Jobs : ~Busy(j) /\ state[j] \notin Outcomes
  BY DEF Init, DaemonInit, Busy, Active, Outcomes
<1>2. \A j \in Jobs, n \in 1..MaxAttempts : ~Executing(<<j, n>>)
  BY DEF Init, RunnerInit, Executing, Attempts
<1> QED
  BY <1>1, <1>2 DEF C!Init

(* A step that the contract does not tell from none, or that ends scripts. *)
LEMMA AlikeKeepsContract ==
    ASSUME Alike, NothingStarts
    PROVE  C!Next \/ UNCHANGED C!vars
<1> DEFINE over == {j \in Jobs : NowExecuting(j) /\ ~NowExecuting(j)'}
           exe == {j \in Jobs : NowExecuting(j)}
<1>1. \A j \in Jobs : NowExecuting(j)' => NowExecuting(j)
  BY DEF NothingStarts, NowExecuting, Attempts
<1>2. \A j \in Jobs : HasRun(j)' <=> HasRun(j)
  BY DEF NothingStarts, HasRun, Alike, Attempts
<1>3. /\ \A j \in Jobs : Busy(j)' <=> Busy(j)
      /\ \A j \in Jobs : state'[j] \in Outcomes <=> state[j] \in Outcomes
      /\ \A j \in Jobs : Busy(j) => intent'[j].kind = intent[j].kind
      /\ UNCHANGED devices
  BY DEF Alike
<1>4. exe' = exe \ over /\ over \in SUBSET exe
  BY <1>1
<1>5. C!End(over)
  BY <1>2, <1>3, <1>4 DEF C!End, NowExecuting, HasRun
<1> QED
  BY <1>4, <1>5 DEF C!Next, NowExecuting

(* A client's request that is accepted.                                    *)
LEMMA AskedIsAccepted ==
    ASSUME UNCHANGED workload, NEW j \in Jobs, NEW kind \in {"cancel", "rerun"}, Asked(j, kind),
           intent \in [Jobs -> Controls]
    PROVE  C!Next
<1> DEFINE asks == [k \in Jobs |-> IF Busy(k) THEN intent[k].kind ELSE "none"]
<1>1. /\ \A k \in Jobs : (Busy(k)' <=> Busy(k)) /\ (HasRun(k)' <=> HasRun(k))
      /\ \A k \in Jobs : NowExecuting(k)' <=> NowExecuting(k)
      /\ \A k \in Jobs : Busy(k) \/ (state'[k] \in Outcomes <=> state[k] \in Outcomes)
      /\ UNCHANGED devices
  BY DEF Asked, Busy, HasRun, NowExecuting, Executed, Executing
<1>2. asks' = [asks EXCEPT ![j] = kind]
  BY <1>1 DEF Asked
<1>3. asks[j] = "none" \/ (asks[j] = "rerun" /\ kind = "cancel")
  BY DEF Asked
<1>4. C!Accept(j, kind)
  BY <1>1, <1>2, <1>3 DEF C!Accept, Asked, NowExecuting, HasRun
<1> QED
  BY <1>4 DEF C!Next

(* A waiting job is deleted.                                               *)
LEMMA DeletedIsDelete ==
    ASSUME UNCHANGED workload, NEW j \in Jobs, Deleted(j), state \in [Jobs -> States]
    PROVE  C!Next
<1>1. /\ \A k \in Jobs : (Busy(k)' <=> Busy(k)) /\ (HasRun(k)' <=> HasRun(k))
      /\ \A k \in Jobs : NowExecuting(k)' <=> NowExecuting(k)
      /\ \A k \in Jobs \ {j} : state'[k] = state[k]
      /\ ~Busy(j) /\ state[j] \notin Outcomes /\ state'[j] \in Outcomes
      /\ UNCHANGED <<devices, intent>>
  BY DEF Deleted, Busy, HasRun, NowExecuting, Executed, Executing, Active, Outcomes
<1>2. C!Delete(j)
  BY <1>1 DEF C!Delete, NowExecuting, HasRun
<1> QED
  BY <1>2 DEF C!Next

(* A reservation takes devices that are free for the contract too, and     *)
(* nothing of a new attempt has been executed.                             *)
LEMMA ReservedIsReserve ==
    ASSUME RefInv, UNCHANGED workload, Reserved
    PROVE  C!Next
<1>1. PICK j \in Jobs : \E g \in Plans(j) : Reserve(j, g) /\ ~Conflict(g)
  BY DEF Reserved
<1>2. PICK g \in Plans(j) : Reserve(j, g) /\ ~Conflict(g)
  BY <1>1
<1>3. /\ state \in [Jobs -> States] /\ intent \in [Jobs -> Controls] /\ devices \in [Jobs -> SUBSET GPUs]
      /\ current \in [Jobs -> 0..MaxAttempts] /\ count \in [Jobs -> 0..MaxAttempts]
  BY DEF RefInv, TypeInv, TypeOK, DaemonTypeOK
<1>4. /\ state[j] = "QUEUED" /\ state' = [state EXCEPT ![j] = "STARTING"]
      /\ current' = [current EXCEPT ![j] = count[j] + 1]
      /\ intent' = [intent EXCEPT ![j] = NoControl]
      /\ devices' = [devices EXCEPT ![j] = g]
  BY <1>2 DEF Reserve
<1>5. /\ \A k \in Jobs \ {j} : /\ (Busy(k)' <=> Busy(k)) /\ state'[k] = state[k]
                               /\ intent'[k] = intent[k] /\ devices'[k] = devices[k]
                               /\ HasRun(k)' <=> HasRun(k)
      /\ ~Busy(j) /\ Busy(j)' /\ state[j] \notin Outcomes /\ ~HasRun(j)
      /\ devices'[j] = g /\ intent'[j].kind = "none"
  BY <1>3, <1>4 DEF Busy, HasRun, Executed, Active, Outcomes, NoControl
<1>6. ~HasRun(j)'
  <2> SUFFICES ASSUME NEW n \in 1..MaxAttempts, current'[j] = n, Executed(<<j, n>>)'
               PROVE  FALSE
    BY DEF HasRun
  <2>1. n = count[j] + 1 /\ <<j, n>> \in Attempts /\ Executed(<<j, n>>)
    BY <1>3, <1>4 DEF Attempts, Executed
  <2>2. n <= count[j]
    BY <2>1 DEF RefInv, GrantInv, RepeatInv, AuthorizedOnce, Executed
  <2> QED
    BY <1>3, <2>1, <2>2
<1>7. g \in SUBSET GPUs /\ Cardinality(g) = Need[j]
      /\ g \subseteq GPUs \ UNION {devices[k] : k \in {i \in Jobs : Busy(i)}}
  BY <1>2 DEF Plans, FreeGPUs, Busy
<1>8. g \subseteq C!Free
  BY <1>7 DEF C!Free
<1>9. \A k \in Jobs : NowExecuting(k)' <=> NowExecuting(k)
  BY DEF NowExecuting, Executing
<1>10. C!Reserve(j, g)
  <2> DEFINE status == [k \in Jobs |-> IF Busy(k) THEN "busy"
                                      ELSE IF state[k] \in Outcomes THEN "ended" ELSE "waiting"]
             held == [k \in Jobs |-> IF Busy(k) THEN devices[k] ELSE {}]
             asked == [k \in Jobs |-> IF Busy(k) THEN intent[k].kind ELSE "none"]
             executing == {k \in Jobs : NowExecuting(k)}
             ran == {k \in Jobs : HasRun(k)}
  <2>1. status[j] = "waiting" /\ status' = [status EXCEPT ![j] = "busy"]
    BY <1>5
  <2>2. held' = [held EXCEPT ![j] = g]
    BY <1>5
  <2>3. UNCHANGED asked
    BY <1>5
  <2>4. UNCHANGED <<executing, ran>>
    BY <1>5, <1>6, <1>9
  <2>5. C!Cardinality(g) = Need[j]
    BY <1>7, Zenon DEF Cardinality, C!Cardinality
  <2> QED
    BY <1>8, <2>1, <2>2, <2>3, <2>4, <2>5 DEF C!Reserve, NowExecuting, HasRun
<1> QED
  BY <1>7, <1>10 DEF C!Next

(* What is given up does not execute.                                      *)
LEMMA GivenUpIsOver ==
    ASSUME RefInv, ~Unsupervised, [Next]_vars, UNCHANGED workload, Ended \/ Requeued
    PROVE  job \in Jobs /\ Busy(job) /\ (state'[job] \notin Active => ~NowExecuting(job))
<1>1. job \in Jobs /\ Busy(job) /\ it \in Attempts /\ UNCHANGED runner
  <2>1. CASE Ended
    BY <2>1, EndedFinishes, ItIsAttempt DEF RefInv, Finish, runnerVars, Busy
  <2>2. CASE Requeued
    BY <2>2, ItIsAttempt DEF RefInv, Requeued, Requeue, InHand, Passing, runnerVars, Busy
  <2> QED
    BY <2>1, <2>2
<1>2. ReleasedOnlyWhenGoneOrUnseen'
  BY ReleasedNext DEF RefInv
<1>3. ASSUME state'[job] \notin Active, NowExecuting(job) PROVE FALSE
  <2>1. Executing(it)
    BY <1>1, <1>3, ExecutingInForce DEF it
  <2>2. PICK a \in Attempts : a = it
    BY <1>1
  <2>3. Executing(a) /\ Executing(a)' /\ a[1] = job
    BY <2>1, <2>2 DEF Executing, it
  <2>4. Holds(a)' \/ runner[a] = "dead"
    BY <1>1, <1>2, <2>3 DEF ReleasedOnlyWhenGoneOrUnseen
  <2> QED
    BY <1>3, <2>3, <2>4 DEF Unsupervised, Holds
<1> QED
  BY <1>1, <1>3

(* What is given up, and what the contract sees of it.                     *)
GivenUp(j, next) ==
    /\ Busy(j) /\ ~Busy(j)' /\ ~NowExecuting(j)
    /\ state'[j] \in Outcomes <=> next = "ended"
    /\ \A k \in Jobs \ {j} : UNCHANGED <<state[k], current[k], devices[k], intent[k]>>

LEMMA GivenUpIsGiveUp ==
    ASSUME UNCHANGED workload, NEW j \in Jobs, NEW next \in {"waiting", "ended"}, GivenUp(j, next)
    PROVE  C!GiveUp(j, next)
<1> DEFINE status == [k \in Jobs |-> IF Busy(k) THEN "busy"
                                    ELSE IF state[k] \in Outcomes THEN "ended" ELSE "waiting"]
           held == [k \in Jobs |-> IF Busy(k) THEN devices[k] ELSE {}]
           asked == [k \in Jobs |-> IF Busy(k) THEN intent[k].kind ELSE "none"]
           executing == {k \in Jobs : NowExecuting(k)}
           ran == {k \in Jobs : HasRun(k)}
<1>1. /\ \A k \in Jobs \ {j} : /\ Busy(k)' <=> Busy(k)
                               /\ HasRun(k)' <=> HasRun(k)
                               /\ UNCHANGED <<state[k], devices[k], intent[k]>>
      /\ \A k \in Jobs : NowExecuting(k)' <=> NowExecuting(k)
      /\ ~HasRun(j)' /\ Busy(j) /\ ~Busy(j)' /\ ~NowExecuting(j)
      /\ state'[j] \in Outcomes <=> next = "ended"
  BY DEF GivenUp, Busy, HasRun, NowExecuting, Executed, Executing
<1>2. status[j] = "busy" /\ status' = [status EXCEPT ![j] = next]
  BY <1>1
<1>3. held' = [held EXCEPT ![j] = {}] /\ asked' = [asked EXCEPT ![j] = "none"]
  BY <1>1
<1>4. j \notin executing /\ UNCHANGED executing /\ ran' = ran \ {j}
  BY <1>1
<1> QED
  BY <1>2, <1>3, <1>4 DEF C!GiveUp, NowExecuting, HasRun

(* The end of an attempt settles its job, or queues it again as asked.     *)
LEMMA EndedIsGivenUp ==
    ASSUME RefInv, ~Unsupervised, [Next]_vars, UNCHANGED workload, Ended
    PROVE  C!Next
<1>1. PICK out \in Outcomes \union MadeUp, published \in BOOLEAN : Finish(out, published)
  BY EndedFinishes DEF RefInv
<1> DEFINE s == Settled(job, out, published)
<1>2. /\ state \in [Jobs -> States] /\ intent \in [Jobs -> Controls] /\ devices \in [Jobs -> SUBSET GPUs]
      /\ job \in Jobs /\ Busy(job)
  BY GivenUpIsOver DEF RefInv, TypeInv, TypeOK, DaemonTypeOK
<1>3. /\ s \in Outcomes \union {"QUEUED"}
      /\ s = "QUEUED" => intent[job].kind = "rerun"
  BY SettledState DEF Settled, Outcomes, MadeUp
<1>4. /\ state' = [state EXCEPT ![job] = s] /\ UNCHANGED current
      /\ devices' = [devices EXCEPT ![job] = {}]
      /\ intent' = [intent EXCEPT ![job] = NoControl]
  BY <1>1 DEF Finish
<1> HIDE DEF s
<1>5. state'[job] = s /\ s \notin Active /\ ~NowExecuting(job)
  BY <1>2, <1>3, <1>4, GivenUpIsOver DEF Active, Outcomes
<1>6. PICK j \in Jobs : j = job
  BY <1>2
<1>7. GivenUp(j, IF s = "QUEUED" THEN "waiting" ELSE "ended")
  BY <1>2, <1>3, <1>4, <1>5, <1>6 DEF GivenUp, Busy, Outcomes
<1>8. CASE s = "QUEUED"
  <2>1. C!GiveUp(j, "waiting")
    BY <1>7, <1>8, GivenUpIsGiveUp
  <2>2. C!Requeue(j)
    BY <1>2, <1>3, <1>6, <1>8, <2>1 DEF C!Requeue
  <2> QED
    BY <2>2 DEF C!Next
<1>9. CASE s # "QUEUED"
  <2>1. C!Settle(j)
    BY <1>7, <1>9, GivenUpIsGiveUp DEF C!Settle
  <2> QED
    BY <2>1 DEF C!Next
<1> QED
  BY <1>8, <1>9

(* An interrupted launch is queued again: nothing of it was executed, for  *)
(* it was never authorized.                                                *)
LEMMA RequeuedIsRequeue ==
    ASSUME RefInv, ~Unsupervised, [Next]_vars, UNCHANGED workload, Requeued
    PROVE  C!Next
<1>1. /\ state \in [Jobs -> States] /\ intent \in [Jobs -> Controls] /\ devices \in [Jobs -> SUBSET GPUs]
      /\ job \in Jobs /\ Busy(job)
  BY GivenUpIsOver DEF RefInv, TypeInv, TypeOK, DaemonTypeOK
<1>2. /\ state' = [state EXCEPT ![job] = "QUEUED"] /\ devices' = [devices EXCEPT ![job] = {}]
      /\ UNCHANGED intent /\ \A k \in Jobs \ {job} : current'[k] = current[k]
      /\ intent[job].kind # "cancel"
  <2>1. current \in [Jobs -> 0..MaxAttempts]
    BY DEF RefInv, TypeInv, TypeOK, DaemonTypeOK
  <2> QED
    BY <2>1 DEF Requeued, Requeue
<1>3. state'[job] = "QUEUED" /\ ~NowExecuting(job)
  BY <1>1, <1>2, GivenUpIsOver DEF Active
<1>4. PICK j \in Jobs : j = job
  BY <1>1
<1>5. GivenUp(j, "waiting")
  BY <1>1, <1>2, <1>3, <1>4 DEF GivenUp, Busy, Active, Outcomes
<1>6. ~HasRun(j)
  <2>1. ~authorized[it]
    BY DEF Requeued, RefInv, RepeatInv, GivenUpUnauthorized
  <2> QED
    BY <1>4, <2>1, ExecutingInForce DEF it
<1>7. C!GiveUp(j, "waiting")
  BY <1>5, GivenUpIsGiveUp
<1>8. C!Requeue(j)
  BY <1>1, <1>2, <1>4, <1>6, <1>7 DEF C!Requeue, HasRun
<1> QED
  BY <1>8 DEF C!Next

(* A script that is let through its gate has its reservation, and it is    *)
(* the first time.                                                         *)
LEMMA StartedIsStart ==
    ASSUME RefInv, ~Unsupervised, NEW a \in Attempts, Started(a)
    PROVE  C!Next
<1>1. PICK j \in Jobs, n \in 1..MaxAttempts : a = <<j, n>>
  BY DEF Attempts
<1>2. /\ runner[a] = "gate" /\ workload' = [workload EXCEPT ![a] = "running"]
      /\ UNCHANGED <<state, current, devices, intent>> /\ workload \in [Attempts -> Groups]
  BY DEF Started, OpenGate, daemonVars, jobVars, tableVars, RefInv, TypeInv, TypeOK, RunnerTypeOK
<1>3. Busy(j) /\ current[j] = n
  BY <1>1, <1>2 DEF RefInv, GrantInv, HoldInv, Working, Holds, Busy
<1>4. ~HasRun(j)
  BY <1>1, <1>2, <1>3 DEF RefInv, GateInv, BeforeGate, HasRun
<1>5. \A k \in Jobs, m \in 1..MaxAttempts :
         /\ Executed(<<k, m>>)' <=> Executed(<<k, m>>) \/ (k = j /\ m = n)
         /\ Executing(<<k, m>>)' <=> Executing(<<k, m>>) \/ (k = j /\ m = n)
  BY <1>1, <1>2 DEF Executed, Executing, Attempts
<1>6. \A k \in Jobs : (NowExecuting(k)' <=> NowExecuting(k) \/ k = j) /\ (Busy(k)' <=> Busy(k))
  BY <1>2, <1>5 DEF NowExecuting, Busy
<1>7. \A k \in Jobs : HasRun(k)' <=> HasRun(k) \/ k = j
  BY <1>2, <1>3, <1>5, <1>6 DEF HasRun
<1>8. C!Start(j)
  BY <1>2, <1>3, <1>4, <1>6, <1>7 DEF C!Start, NowExecuting, HasRun
<1> QED
  BY <1>8 DEF C!Next

(* Every step of a supervised system is one of the contract's, or none.    *)
LEMMA StepKeepsContract ==
    ASSUME RefInv, ~Unsupervised, [Next]_vars
    PROVE  C!Next \/ UNCHANGED C!vars
<1>1. state \in [Jobs -> States] /\ intent \in [Jobs -> Controls] /\ TypeInv /\ GateInv /\ AskedExits
  BY DEF RefInv, TypeInv, TypeOK, DaemonTypeOK
<1>2. ASSUME NEW a \in Attempts, Started(a) PROVE C!Next
  BY <1>2, StartedIsStart
<1>3. CASE Alike /\ NothingStarts
  BY <1>3, AlikeKeepsContract
<1>4. CASE UNCHANGED <<state, current, devices, intent>>
  <2>1. Alike
    BY <1>4 DEF Alike, Busy
  <2> QED
    BY <1>1, <1>2, <1>3, <2>1, StepOnExecution
<1>5. CASE UNCHANGED workload
  <2>1. NothingStarts
    BY <1>5 DEF NothingStarts, Executed, Executing
  <2> QED
    BY <1>1, <1>3, <1>5, <2>1, StepOnContract, EndedIsGivenUp, RequeuedIsRequeue, ReservedIsReserve,
       DeletedIsDelete, AskedIsAccepted DEF ContractStep
<1> QED
  BY <1>4, <1>5, OneSide

(* The invariants the refinement rests on.                                 *)
LEMMA RefInvHolds == Spec => []RefInv
<1>1. Init => RefInv
  BY TypeInvInit, GrantInvInit, RepeatInvInit, SpawnInvInit, AdoptInvInit, PlaceAndHoldInit, GateInvInit,
     AskedExitsInit DEF RefInv
<1>2. RefInv /\ [Next]_vars => RefInv'
  BY TypeInvNext, GrantInvNext, RepeatInvNext, SpawnInvNext, AdoptInvNext, PlaceInvNext, HoldInvNext,
     ReleasedNext, GateInvNext, AskedExitsNext DEF RefInv
<1> QED
  BY <1>1, <1>2, PTL DEF Spec

(* Daemon, runners and workloads keep the contract of a job in every step  *)
(* that does not fall while a script runs whose runner is dead: the run    *)
(* "recovery" checks it for one job and two attempts.                      *)
THEOREM SupervisedSystemKeepsContract == Spec => ContractKeptSupervised
<1>1. RefInv /\ [Next]_vars => [Unsupervised \/ C!Next]_(C!vars)
  BY StepKeepsContract
<1>2. Init => C!Init
  BY ContractInit
<1>3. Spec => C!Init /\ [][Unsupervised \/ C!Next]_(C!vars)
  BY <1>1, <1>2, RefInvHolds, PTL DEF Spec
<1> QED
  BY <1>3 DEF ContractKeptSupervised

-----------------------------------------------------------------------------
(* Unless a runner is killed, one that is dead has gone down with its host, *)
(* and so has its script.                                                  *)
Supervised == \A a \in Attempts : runner[a] = "dead" => ~Executing(a)

LEMMA SupervisedNext ==
    ASSUME "runner" \notin Faults, TypeInv, GrantInv, Supervised, [Next]_vars
    PROVE  Supervised'
<1> SUFFICES ASSUME NEW a \in Attempts, runner'[a] = "dead", Executing(a)' PROVE FALSE
  BY DEF Supervised
<1>1. runner \in [Attempts -> Places] /\ workload \in [Attempts -> Groups]
  BY DEF TypeInv, TypeOK, RunnerTypeOK
<1>2. CASE Reboot
  BY <1>1, <1>2 DEF Reboot, Executing
<1>3. CASE ~Reboot
  <2>1. runner[a] = "dead"
    <3>1. CASE UNCHANGED runner
      BY <3>1
    <3>2. CASE StartUp \/ Request \/ DaemonStep
      BY <1>1, <3>1, <3>2, DaemonKeepsExecution DEF Authorize, Grant, Spawn, runnerVars
    <3>3. ASSUME NEW b \in Attempts, RunnerStep(b) PROVE runner[a] = "dead"
      BY <1>1, <3>3 DEF RunnerStep, Boot, PollControl, PollAuthorization, StartGated, SetupFails,
         RecordStart, OpenGate, Tick, Stamp, Publish, Notify, Goto
    <3>4. ASSUME NEW b \in Attempts, WorkloadStep(b) \/ WalltimePasses(b) PROVE UNCHANGED runner
      BY <3>4 DEF WorkloadStep, MainExits, LeftoverExits, WalltimePasses
    <3>5. CASE DaemonDies \/ UNCHANGED vars
      BY <3>1, <3>5 DEF DaemonDies, vars, runnerVars
    <3>6. ~ \E b \in Attempts : RunnerDies(b)
      BY DEF RunnerDies, Fault
    <3> QED
      BY <1>3, <3>1, <3>2, <3>3, <3>4, <3>5, <3>6 DEF Next, RunnerSide
  <2>2. Executing(a)
    BY <2>1, OnlyTheGateExecutes DEF OpenGate
  <2> QED
    BY <2>1, <2>2 DEF Supervised
<1> QED
  BY <1>2, <1>3

LEMMA SupervisedHolds == ASSUME "runner" \notin Faults PROVE Spec => []Supervised
<1>1. Init => Supervised
  BY DEF Init, RunnerInit, Supervised, Executing
<1>2. RefInv /\ Supervised /\ [Next]_vars => Supervised'
  BY SupervisedNext DEF RefInv
<1> QED
  BY <1>1, <1>2, RefInvHolds, PTL DEF Spec

(* Without that fault devices are released only after the script is over.  *)
THEOREM ReleaseIsLast == ASSUME "runner" \notin Faults PROVE Spec => []ReleasedOnlyWhenGone
<1>1. Supervised /\ ReleasedOnlyWhenGoneOrUnseen => ReleasedOnlyWhenGone
  BY DEF Supervised, ReleasedOnlyWhenGoneOrUnseen, ReleasedOnlyWhenGone
<1> QED
  BY <1>1, SupervisedHolds, ReleaseIsSafe, PTL

(* Without that fault the contract is kept in every step: the run          *)
(* "contention" checks it for two jobs.                                    *)
THEOREM SystemKeepsContract == ASSUME "runner" \notin Faults PROVE Spec => ContractKept
<1>1. Supervised => ~Unsupervised
  BY DEF Supervised, Unsupervised
<1>2. RefInv /\ Supervised /\ [Next]_vars => [C!Next]_(C!vars)
  BY <1>1, StepKeepsContract
<1>3. Init => C!Init
  BY ContractInit
<1>4. Spec => C!Spec
  BY <1>2, <1>3, SupervisedHolds, RefInvHolds, PTL DEF Spec, C!Spec
<1> QED
  BY <1>4 DEF ContractKept

-----------------------------------------------------------------------------
(* What the contract is for, of the system itself.  Active jobs share no   *)
(* device, and each has as many as it asked for.                           *)
DeviceInv ==
    \A j \in Jobs : Busy(j) =>
        /\ Cardinality(devices[j]) = Need[j]
        /\ \A k \in Jobs : k # j /\ Busy(k) => devices[j] \intersect devices[k] = {}

LEMMA DeviceInvNext == TypeInv /\ DeviceInv /\ [Next]_vars => DeviceInv'
<1> SUFFICES ASSUME TypeInv, DeviceInv, [Next]_vars PROVE DeviceInv'
  OBVIOUS
<1> USE DEF Busy
<1>1. state \in [Jobs -> States] /\ devices \in [Jobs -> SUBSET GPUs]
  BY DEF TypeInv, TypeOK, DaemonTypeOK
<1>2. ASSUME \A j \in Jobs : Busy(j)' => Busy(j) /\ devices'[j] = devices[j]
      PROVE  DeviceInv'
  BY <1>2 DEF DeviceInv
<1>3. CASE Kept
  BY <1>2, <1>3 DEF Kept
<1>4. CASE Ended
  <2>1. PICK out \in Outcomes \union MadeUp, published \in BOOLEAN : Finish(out, published)
    BY <1>4, EndedFinishes
  <2>2. Settled(job, out, published) \notin Active
    BY SettledState DEF Outcomes, Active
  <2>3. /\ state' = [state EXCEPT ![job] = Settled(job, out, published)]
        /\ devices' = [devices EXCEPT ![job] = {}]
    BY <2>1 DEF Finish
  <2> QED
    BY <1>1, <1>2, <2>2, <2>3
<1>5. CASE Requeued
  BY <1>1, <1>2, <1>5 DEF Requeued, Requeue, Active
<1>6. CASE Reserved
  <2>1. PICK i \in Jobs, g \in SUBSET FreeGPUs : Cardinality(g) = Need[i] /\ Reserve(i, g) /\ ~Conflict(g)
    BY <1>6 DEF Reserved, Plans
  <2>2. /\ state' = [state EXCEPT ![i] = "STARTING"]
        /\ devices' = [devices EXCEPT ![i] = g]
    BY <2>1 DEF Reserve
  <2>3. \A k \in Jobs : Busy(k) => g \intersect devices[k] = {}
    BY <2>1 DEF FreeGPUs
  <2>4. \A k \in Jobs : k # i => (Busy(k)' <=> Busy(k)) /\ devices'[k] = devices[k]
    BY <1>1, <2>2
  <2>5. devices'[i] = g
    BY <1>1, <2>2
  <2> QED
    BY <2>1, <2>3, <2>4, <2>5 DEF DeviceInv
<1> QED
  BY <1>3, <1>4, <1>5, <1>6, StepOnRecords DEF RecordsStep

(* Scripts that execute at the same time have their devices for            *)
(* themselves, as many as they asked for, through crashes and reboots.     *)
THEOREM DevicesAreExclusive == ASSUME "runner" \notin Faults PROVE Spec => []C!DevicesExclusive
<1>1. Init => DeviceInv
  BY DEF Init, DaemonInit, DeviceInv, Busy, Active
<1>2. Spec => []DeviceInv
  BY <1>1, DeviceInvNext, TypesHold, PTL DEF Spec
<1>3. DeviceInv /\ ReleasedOnlyWhenGone => C!DevicesExclusive
  <2> SUFFICES ASSUME DeviceInv, ReleasedOnlyWhenGone PROVE C!DevicesExclusive
    OBVIOUS
  <2>1. \A j \in Jobs : NowExecuting(j) => Busy(j)
    BY DEF NowExecuting, ReleasedOnlyWhenGone, Holds, Attempts, Busy
  <2>2. \A j \in Jobs : Busy(j) => /\ Cardinality(devices[j]) = Need[j]
                                  /\ \A k \in Jobs : k # j /\ Busy(k) => devices[j] \intersect devices[k] = {}
    BY DEF DeviceInv
  <2>3. \A j \in Jobs : C!Cardinality(devices[j]) = Cardinality(devices[j])
    BY Zenon DEF Cardinality, C!Cardinality
  <2>4. \A j \in Jobs : Busy(j) => [i \in Jobs |-> IF Busy(i) THEN devices[i] ELSE {}][j] = devices[j]
    OBVIOUS
  <2> QED
    BY <2>1, <2>2, <2>3, <2>4, Zenon DEF C!DevicesExclusive, NowExecuting
<1> QED
  BY <1>2, <1>3, ReleaseIsLast, PTL
=============================================================================
