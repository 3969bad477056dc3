-------------------------- MODULE LifecycleProofs ---------------------------
(***************************************************************************)
(* Theorems about Lifecycle, for every set of jobs and devices, every      *)
(* bound and every combination of faults: the types of its variables; when *)
(* a script may execute at all, and when it may execute again; that the    *)
(* allocations table agrees with the job records, that an accepted         *)
(* deletion sticks, that a runner that is given up has been told; and that *)
(* devices are released only when nothing of the script executes, or when  *)
(* nobody is left to see it.                                               *)
(***************************************************************************)
EXTENDS Lifecycle, TLAPS

-----------------------------------------------------------------------------
(* The loop invariant: a job the loop works on is active, and an active    *)
(* job has a current attempt, the last one reserved.                       *)

(* Points of a reconciliation, after its list of jobs was taken.           *)
Passing == {"pass", "started", "result", "collect", "alive", "direct", "grant",
            "mark", "revoke", "abandon", "reap", "kill"}

(* Points at which a job is in hand.                                       *)
InHand == (Passing \ {"pass"}) \union {"publish", "mkdir", "spawn", "save"}

JobInHand == IF pc \in InHand THEN job \in Jobs /\ state[job] \in Active ELSE job = NoJob
TodoActive ==
    /\ pc \notin Passing => todo = {}
    /\ \A j \in todo : state[j] \in Active /\ j # job
CurrentIsLast ==
    \A j \in Jobs : state[j] \in Active => current[j] = count[j] /\ count[j] > 0
ResultKnown ==
    /\ pc = "collect" => result[it] # "none"
    /\ \A a \in Attempts : runner[a] \in {"stamp", "publish"} => outcome[a] # "none"

LoopInv == JobInHand /\ TodoActive /\ CurrentIsLast /\ ResultKnown
TypeInv == TypeOK /\ LoopInv

(* The empty database and no files: every variable has its type and the    *)
(* loop holds no job (New, Run).                                           *)
LEMMA TypeInvInit == Init => TypeInv
<1> SUFFICES ASSUME Init PROVE TypeInv
  OBVIOUS
<1>1. DirTypeOK
  BY DEF Init, DirInit, DirTypeOK, Controls, NoControl, Kinds
<1>2. RunnerTypeOK
  BY DEF Init, RunnerInit, RunnerTypeOK, Places, Causes, Groups
<1>3. DaemonTypeOK
  BY MaxAttemptsAssumption DEF Init, DaemonInit, DaemonTypeOK, Controls, NoControl, Kinds,
     States, Active, Points, NothingSeen
<1>4. faults \in 0..MaxFaults
  BY FaultsAssumption DEF Init
<1>5. LoopInv
  BY DEF Init, DaemonInit, RunnerInit, LoopInv, JobInHand, TodoActive, CurrentIsLast,
     ResultKnown, InHand, Passing, Active
<1> QED
  BY <1>1, <1>2, <1>3, <1>4, <1>5 DEF TypeInv, TypeOK

(* The attempt in hand is an attempt.                                      *)
LEMMA ItIsAttempt ==
    ASSUME TypeInv, pc \in InHand
    PROVE  job \in Jobs /\ state[job] \in Active /\ it \in Attempts
BY DEF TypeInv, TypeOK, DaemonTypeOK, LoopInv, JobInHand, CurrentIsLast, it, Attempts

(* What a settled job's state is.                                          *)
LEMMA SettledState ==
    ASSUME NEW j, NEW out \in Outcomes \union MadeUp, NEW published
    PROVE  Settled(j, out, published) \in Outcomes \union {"QUEUED"}
BY DEF Settled, Outcomes, MadeUp

-----------------------------------------------------------------------------
(* A step of a runner, a workload or the clock.                            *)
LEMMA RunnerSideKeepsTypes ==
    ASSUME TypeInv, NEW a \in Attempts, RunnerSide(a), UNCHANGED <<daemonVars, faults>>
    PROVE  TypeInv'
<1> USE DEF fileVars, runnerVars, daemonVars, jobVars, tableVars, attemptVars, loopVars, askVars,
            Goto
<1>1. DirTypeOK /\ RunnerTypeOK /\ DaemonTypeOK /\ faults \in 0..MaxFaults
  BY DEF TypeInv, TypeOK
<1>2. JobInHand /\ TodoActive /\ CurrentIsLast /\ ResultKnown
  BY DEF TypeInv, LoopInv
<1>3. DaemonTypeOK' /\ (faults \in 0..MaxFaults)'
  BY <1>1 DEF DaemonTypeOK
<1>4. JobInHand' /\ TodoActive' /\ CurrentIsLast'
  BY <1>2 DEF JobInHand, TodoActive, CurrentIsLast
<1>5. DirTypeOK' /\ RunnerTypeOK' /\ ResultKnown'
  <2> USE DEF it
  <2>1. CASE Boot(a)
    <3>1. /\ runner' \in [Attempts -> Places] /\ ready' \in [Attempts -> BOOLEAN]
          /\ \A b \in Attempts : runner'[b] \in {"stamp", "publish"} => runner'[b] = runner[b]
      BY <2>1, <1>1 DEF Boot, DirTypeOK, RunnerTypeOK, Places
    <3> QED
      BY <3>1, <2>1, <1>1, <1>2 DEF Boot, DirTypeOK, RunnerTypeOK, ResultKnown
  <2>2. CASE PollControl(a)
    BY <2>2, <1>1, <1>2 DEF PollControl, DirTypeOK, RunnerTypeOK, ResultKnown, Places, Outcomes
  <2>3. CASE PollAuthorization(a)
    BY <2>3, <1>1, <1>2 DEF PollAuthorization, DirTypeOK, RunnerTypeOK, ResultKnown, Places
  <2>4. CASE StartGated(a)
    BY <2>4, <1>1, <1>2 DEF StartGated, DirTypeOK, RunnerTypeOK, ResultKnown, Places, Groups
  <2>5. CASE SetupFails(a)
    BY <2>5, <1>1, <1>2 DEF SetupFails, DirTypeOK, RunnerTypeOK, ResultKnown, Places, Groups, Outcomes
  <2>6. CASE RecordStart(a)
    BY <2>6, <1>1, <1>2 DEF RecordStart, DirTypeOK, RunnerTypeOK, ResultKnown, Places
  <2>7. CASE OpenGate(a)
    BY <2>7, <1>1, <1>2 DEF OpenGate, DirTypeOK, RunnerTypeOK, ResultKnown, Places, Groups
  <2>8. CASE Tick(a)
    <3>1. TickCause(a) \in Causes
      BY <1>1 DEF TickCause, AcceptedCause, RunnerTypeOK, DirTypeOK, Controls, Kinds, Causes
    <3>2. ResultsOf(TickCause(a)) \subseteq Outcomes
      BY <3>1 DEF ResultsOf, Outcomes, Causes
    <3>3. Outcomes \subseteq Outcomes \union {"none"} /\ "none" \notin Outcomes
      BY DEF Outcomes
    <3>4. MainDone(a) \in BOOLEAN
      BY DEF MainDone
    <3>5. CASE workload[a] = "gone"
      <4>1. PICK out \in Outcomes : outcome' = [outcome EXCEPT ![a] = out]
        BY <2>8, <3>2, <3>5 DEF Tick
      <4>2. DirTypeOK' /\ RunnerTypeOK'
        BY <2>8, <1>1, <3>5, <4>1 DEF Tick, DirTypeOK, RunnerTypeOK, Places, Causes
      <4>3. ResultKnown'
        BY <2>8, <1>1, <1>2, <3>3, <3>5, <4>1 DEF Tick, RunnerTypeOK, ResultKnown
      <4> QED
        BY <4>2, <4>3
    <3>6. CASE workload[a] # "gone"
      BY <2>8, <1>1, <1>2, <3>1, <3>4, <3>6 DEF Tick, DirTypeOK, RunnerTypeOK, ResultKnown
    <3> QED
      BY <3>5, <3>6
  <2>9. CASE Stamp(a)
    BY <2>9, <1>1, <1>2 DEF Stamp, DirTypeOK, RunnerTypeOK, ResultKnown, Places
  <2>10. CASE Publish(a)
    BY <2>10, <1>1, <1>2 DEF Publish, DirTypeOK, RunnerTypeOK, ResultKnown, Places
  <2>11. CASE Notify(a)
    BY <2>11, <1>1, <1>2 DEF Notify, DirTypeOK, RunnerTypeOK, ResultKnown, Places, Outcomes
  <2>12. CASE WorkloadStep(a)
    BY <2>12, <1>1, <1>2 DEF WorkloadStep, MainExits, LeftoverExits, DirTypeOK, RunnerTypeOK,
       ResultKnown, Groups
  <2>13. CASE WalltimePasses(a)
    BY <2>13, <1>1, <1>2 DEF WalltimePasses, DirTypeOK, RunnerTypeOK, ResultKnown
  <2> QED
    BY <2>1, <2>2, <2>3, <2>4, <2>5, <2>6, <2>7, <2>8, <2>9, <2>10, <2>11, <2>12, <2>13
    DEF RunnerSide, RunnerStep
<1> QED
  BY <1>3, <1>4, <1>5 DEF TypeInv, TypeOK, LoopInv

-----------------------------------------------------------------------------
(* A step that only moves the loop.                                        *)
LEMMA LoopStepKeepsTypes ==
    ASSUME TypeInv, OnlyLoop, UNCHANGED faults,
           \/ StartUp \/ Wake \/ Request \/ PassDone \/ (\E j \in Jobs : ReadRunner(j))
           \/ ReadStarted \/ ReadResult \/ CheckAlive \/ Refuse \/ ScheduleDone
    PROVE  TypeInv'
<1> USE DEF fileVars, runnerVars, jobVars, tableVars, attemptVars, askVars, OnlyLoop,
            Continue, Leave, Answered, Pass
<1>1. /\ DirTypeOK /\ RunnerTypeOK /\ DaemonTypeOK /\ faults \in 0..MaxFaults
      /\ JobInHand /\ TodoActive /\ CurrentIsLast /\ ResultKnown
  BY DEF TypeInv, TypeOK, LoopInv
<1>2. DirTypeOK' /\ RunnerTypeOK' /\ (faults \in 0..MaxFaults)'
  BY <1>1 DEF DirTypeOK, RunnerTypeOK
<1>3. CurrentIsLast'
  BY <1>1 DEF CurrentIsLast
<1>4. \A a \in Attempts : (runner[a] \in {"stamp", "publish"} => outcome[a] # "none")'
  BY <1>1 DEF ResultKnown
<1>5. NothingSeen \in [ready : BOOLEAN, runner : BOOLEAN, started : BOOLEAN]
  BY DEF NothingSeen
<1>6. DaemonTypeOK' /\ JobInHand' /\ TodoActive' /\ ResultKnown'
  <2> SUFFICES /\ pc' \in Points /\ after' \in {"wait", "dispatch", "schedule"}
               /\ todo' \in SUBSET Jobs /\ job' \in Jobs \union {NoJob}
               /\ seen' \in [ready : BOOLEAN, runner : BOOLEAN, started : BOOLEAN]
               /\ JobInHand' /\ TodoActive' /\ (pc = "collect" => result[it] # "none")'
    BY <1>1, <1>4 DEF DaemonTypeOK, ResultKnown
  <2> USE DEF Points, InHand, Passing, JobInHand, TodoActive
  <2>1. CASE StartUp \/ Wake \/ Request \/ Refuse
    BY <2>1, <1>1, NoJobAssumption DEF StartUp, Wake, Request, Refuse, DaemonTypeOK
  <2>3. CASE PassDone \/ ScheduleDone
    BY <2>3, <1>1, <1>5 DEF PassDone, ScheduleDone, DaemonTypeOK
  <2>4. CASE \E j \in Jobs : ReadRunner(j)
    <3> PICK j \in Jobs : ReadRunner(j)
      BY <2>4
    <3>1. <<j, current[j]>> \in Attempts /\ j \in todo /\ state[j] \in Active
      BY <1>1 DEF ReadRunner, DaemonTypeOK, CurrentIsLast, Attempts
    <3>2. seen' \in [ready : BOOLEAN, runner : BOOLEAN, started : BOOLEAN]
      BY <3>1, <1>1 DEF ReadRunner, DaemonTypeOK, DirTypeOK, RunnerAlive
    <3> QED
      BY <3>1, <3>2, <1>1 DEF ReadRunner, DaemonTypeOK
  <2>5. CASE ReadStarted
    <3>1. it \in Attempts
      BY <2>5, ItIsAttempt DEF ReadStarted
    <3> QED
      BY <3>1, <2>5, <1>1 DEF ReadStarted, DaemonTypeOK, DirTypeOK
  <2>6. CASE ReadResult
    BY <2>6, <1>1 DEF ReadResult, DaemonTypeOK, it
  <2>7. CASE CheckAlive
    BY <2>7, <1>1 DEF CheckAlive, DaemonTypeOK
  <2> QED
    BY <2>1, <2>3, <2>4, <2>5, <2>6, <2>7
<1> QED
  BY <1>1, <1>2, <1>3, <1>6 DEF TypeInv, TypeOK, LoopInv

(* The commit that ends an attempt.                                        *)
LEMMA FinishKeepsTypes ==
    ASSUME TypeInv, pc \in InHand, UNCHANGED faults,
           NEW out \in Outcomes \union MadeUp, NEW published \in BOOLEAN,
           Finish(out, published),
           Leave("pass") \/ (pc \notin Passing /\ Leave("schedule"))
    PROVE  TypeInv'
<1> USE DEF fileVars, runnerVars, askVars, Leave, Release
<1>1. /\ DirTypeOK /\ RunnerTypeOK /\ DaemonTypeOK /\ faults \in 0..MaxFaults
      /\ JobInHand /\ TodoActive /\ CurrentIsLast /\ ResultKnown
  BY DEF TypeInv, TypeOK, LoopInv
<1>2. DirTypeOK' /\ RunnerTypeOK' /\ (faults \in 0..MaxFaults)'
  BY <1>1 DEF Finish, DirTypeOK, RunnerTypeOK
<1> DEFINE s == Settled(job, out, published)
<1>3. s \in Outcomes \union {"QUEUED"} /\ s \in States /\ s \notin Active
  BY SettledState DEF States, Active, Outcomes
<1>4. /\ state' = [state EXCEPT ![job] = s]
      /\ saved' = [saved EXCEPT ![it] = IF s = "CANCELLED" THEN s ELSE out]
      /\ known' = [known EXCEPT ![it] = @ \/ seen.runner]
      /\ rows' \subseteq rows
      /\ devices' = [devices EXCEPT ![job] = {}]
      /\ intent' = [intent EXCEPT ![job] = NoControl]
      /\ UNCHANGED <<count, current, late, authorized, rerunAsked, deleted,
                     runner, outcome>>
  BY DEF Finish
<1>5. /\ pc' \in {"pass", "schedule"} /\ job' = NoJob /\ seen' = NothingSeen
      /\ UNCHANGED <<after, todo>>
      /\ pc' = "pass" \/ pc \notin Passing
  OBVIOUS
<1> HIDE DEF s
<1>6. NoControl \in Controls
  BY DEF NoControl, Controls, Kinds
<1>7. DaemonTypeOK'
  <2>1. state' \in [Jobs -> States] /\ intent' \in [Jobs -> Controls]
    BY <1>1, <1>3, <1>4, <1>6 DEF DaemonTypeOK
  <2>2. /\ saved' \in [Attempts -> Outcomes \union MadeUp \union {"none"}]
        /\ known' \in [Attempts -> BOOLEAN]
    BY <1>1, <1>4 DEF DaemonTypeOK, Outcomes
  <2>3. devices' \in [Jobs -> SUBSET GPUs] /\ rows' \in SUBSET (GPUs \X Attempts)
    BY <1>1, <1>4 DEF DaemonTypeOK
  <2>4. /\ pc' \in Points /\ after' \in {"wait", "dispatch", "schedule"}
        /\ todo' \in SUBSET Jobs /\ job' \in Jobs \union {NoJob}
        /\ seen' \in [ready : BOOLEAN, runner : BOOLEAN, started : BOOLEAN]
    <3>1. /\ {"pass", "schedule"} \subseteq Points
          /\ NothingSeen \in [ready : BOOLEAN, runner : BOOLEAN, started : BOOLEAN]
      BY DEF Points, NothingSeen
    <3> QED
      BY <3>1, <1>1, <1>5 DEF DaemonTypeOK
  <2> QED
    BY <2>1, <2>2, <2>3, <2>4, <1>1, <1>4 DEF DaemonTypeOK
<1>8. JobInHand' /\ TodoActive' /\ CurrentIsLast' /\ ResultKnown'
  <2>1. JobInHand' /\ TodoActive'
    BY <1>1, <1>4, <1>5, NoJobAssumption DEF JobInHand, TodoActive, InHand, Passing, DaemonTypeOK
  <2>2. CurrentIsLast'
    BY <1>1, <1>3, <1>4 DEF CurrentIsLast, DaemonTypeOK
  <2>3. ResultKnown'
    BY <1>1, <1>4, <1>5 DEF ResultKnown
  <2> QED
    BY <2>1, <2>2, <2>3
<1> QED
  BY <1>2, <1>7, <1>8 DEF TypeInv, TypeOK, LoopInv

(* Every step of reconciliation that writes.                               *)
LEMMA ReconcileKeepsTypes ==
    ASSUME TypeInv, UNCHANGED faults,
           \/ Collect \/ Republish \/ Authorize \/ Grant \/ Mark
           \/ Revoke \/ Abandon \/ Reap \/ KillGroup
    PROVE  TypeInv'
<1> USE DEF fileVars, runnerVars, jobVars, tableVars, attemptVars, askVars, OnlyLoop, Continue, Leave
<1>1. /\ DirTypeOK /\ RunnerTypeOK /\ DaemonTypeOK /\ faults \in 0..MaxFaults
      /\ JobInHand /\ TodoActive /\ CurrentIsLast /\ ResultKnown
  BY DEF TypeInv, TypeOK, LoopInv
<1>2. pc \in InHand /\ pc \in Passing
  BY DEF InHand, Passing, Collect, Republish, Authorize, Grant, Mark, Revoke, Abandon, Reap, KillGroup
<1>3. job \in Jobs /\ state[job] \in Active /\ it \in Attempts
  BY <1>2, ItIsAttempt
<1>4. /\ {"pass", "grant", "mark", "abandon", "kill"} \subseteq Points
      /\ "pass" \notin InHand /\ {"grant", "mark", "abandon", "kill"} \subseteq InHand
      /\ {"pass", "grant", "mark", "abandon", "kill"} \subseteq Passing \ {"collect"}
  BY DEF Points, InHand, Passing
<1>5. NothingSeen \in [ready : BOOLEAN, runner : BOOLEAN, started : BOOLEAN]
  BY DEF NothingSeen
<1>6. CASE Collect
  <2>1. CASE WorkloadGone
    <3>1. Finish(result[it], TRUE) /\ Leave("pass") /\ result[it] \in Outcomes
      BY <1>6, <2>1, <1>1, <1>3 DEF Collect, ResultKnown, DirTypeOK
    <3> QED
      BY <3>1, <1>2, FinishKeepsTypes
  <2>2. CASE ~WorkloadGone
    BY <2>2, <1>6, <1>1, <1>3, <1>4, <1>5, NoJobAssumption DEF Collect, DirTypeOK, RunnerTypeOK,
       DaemonTypeOK, JobInHand, TodoActive, CurrentIsLast, ResultKnown, TypeInv, TypeOK, LoopInv
  <2> QED
    BY <2>1, <2>2
<1>7. CASE Republish
  BY <1>7, <1>1, <1>2, <1>3, <1>4 DEF Republish, WriteControl, DirTypeOK, RunnerTypeOK,
     DaemonTypeOK, JobInHand, TodoActive, CurrentIsLast, ResultKnown, TypeInv, TypeOK, LoopInv
<1>8. CASE Authorize
  <2>1. authorized' \in [Attempts -> BOOLEAN] /\ known' \in [Attempts -> BOOLEAN] /\ UNCHANGED saved
    BY <1>8, <1>1 DEF Authorize, DaemonTypeOK
  <2> QED
    BY <2>1, <1>8, <1>1, <1>2, <1>3, <1>4 DEF Authorize, DirTypeOK, RunnerTypeOK,
     DaemonTypeOK, JobInHand, TodoActive, CurrentIsLast, ResultKnown, TypeInv, TypeOK, LoopInv
<1>9. CASE Grant
  BY <1>9, <1>1, <1>2, <1>3, <1>4 DEF Grant, DirTypeOK, RunnerTypeOK,
     DaemonTypeOK, JobInHand, TodoActive, CurrentIsLast, ResultKnown, TypeInv, TypeOK, LoopInv
<1>10. CASE Mark
  <2>1. /\ state' \in [Jobs -> States] /\ known' \in [Attempts -> BOOLEAN]
        /\ \A j \in Jobs : state'[j] \in Active <=> state[j] \in Active
    BY <1>10, <1>1, <1>3 DEF Mark, DaemonTypeOK, States, Active
  <2> QED
    BY <2>1, <1>10, <1>1, <1>2, <1>3, <1>4, <1>5, NoJobAssumption DEF Mark, DirTypeOK, RunnerTypeOK,
       DaemonTypeOK, JobInHand, TodoActive, CurrentIsLast, ResultKnown, TypeInv, TypeOK, LoopInv
<1>11. CASE Revoke
  <2>1. [kind |-> "cancel", past |-> FALSE] \in Controls
    BY DEF Controls, Kinds
  <2>2. DirTypeOK'
    BY <2>1, <1>11, <1>1, <1>3 DEF Revoke, WriteControl, DirTypeOK
  <2> QED
    BY <2>2, <1>11, <1>1, <1>2, <1>3, <1>4 DEF Revoke, RunnerTypeOK, DaemonTypeOK, JobInHand,
       TodoActive, CurrentIsLast, ResultKnown, TypeInv, TypeOK, LoopInv
<1>12. CASE Abandon
  <2>1. CASE intent[job].kind = "cancel"
    <3>1. Finish("CANCELLED", FALSE) /\ Leave("pass") /\ "CANCELLED" \in Outcomes
      BY <1>12, <2>1 DEF Abandon, Outcomes
    <3> QED
      BY <3>1, <1>2, FinishKeepsTypes
  <2>2. CASE intent[job].kind # "cancel"
    <3>1. Requeue /\ Leave("pass")
      BY <1>12, <2>2 DEF Abandon
    <3>2. DirTypeOK' /\ RunnerTypeOK' /\ DaemonTypeOK'
      BY <3>1, <1>1, <1>3, <1>4, <1>5, MaxAttemptsAssumption DEF Requeue, Release, DirTypeOK,
         RunnerTypeOK, DaemonTypeOK, States, Active
    <3>3. JobInHand' /\ TodoActive' /\ CurrentIsLast' /\ ResultKnown'
      BY <3>1, <1>1, <1>3, <1>4, NoJobAssumption DEF Requeue, JobInHand, TodoActive, CurrentIsLast,
         ResultKnown, DaemonTypeOK, Active
    <3> QED
      BY <3>2, <3>3, <1>1 DEF TypeInv, TypeOK, LoopInv
  <2> QED
    BY <2>1, <2>2
<1>13. CASE Reap
  <2>1. CASE WorkloadGone
    <3> DEFINE out == IF seen.started THEN "LostRunner" ELSE "UnknownExecution"
    <3>1. Finish(out, FALSE) /\ Leave("pass") /\ out \in MadeUp
      BY <1>13, <2>1 DEF Reap, MadeUp
    <3> QED
      BY <3>1, <1>2, FinishKeepsTypes
  <2>2. CASE ~WorkloadGone
    <3>1. /\ state' \in [Jobs -> States]
          /\ \A j \in Jobs : state'[j] \in Active <=> state[j] \in Active
      BY <1>13, <2>2, <1>1, <1>3 DEF Reap, DaemonTypeOK, States, Active
    <3> QED
      BY <3>1, <2>2, <1>13, <1>1, <1>2, <1>3, <1>4 DEF Reap, DirTypeOK, RunnerTypeOK,
         DaemonTypeOK, JobInHand, TodoActive, CurrentIsLast, ResultKnown, TypeInv, TypeOK, LoopInv
  <2> QED
    BY <2>1, <2>2
<1>14. CASE KillGroup
  BY <1>14, <1>1, <1>2, <1>3, <1>4, <1>5, NoJobAssumption DEF KillGroup, DirTypeOK, RunnerTypeOK,
     DaemonTypeOK, JobInHand, TodoActive, CurrentIsLast, ResultKnown, TypeInv, TypeOK, LoopInv
<1> QED
  BY <1>6, <1>7, <1>8, <1>9, <1>10, <1>11, <1>12, <1>13, <1>14

(* Control requests.                                                       *)
LEMMA DispatchKeepsTypes ==
    ASSUME TypeInv, UNCHANGED faults, Dispatch
    PROVE  TypeInv'
<1> USE DEF fileVars, runnerVars, jobVars, tableVars, attemptVars, askVars, OnlyLoop, Answered, Pass
<1>1. /\ DirTypeOK /\ RunnerTypeOK /\ DaemonTypeOK /\ faults \in 0..MaxFaults
      /\ JobInHand /\ TodoActive /\ CurrentIsLast /\ ResultKnown
  BY DEF TypeInv, TypeOK, LoopInv
<1>2. /\ {"pass", "publish"} \subseteq Points /\ {"pass", "dispatch"} \cap InHand = {}
      /\ "publish" \in InHand /\ "pass" \in Passing /\ {"publish", "dispatch"} \cap Passing = {}
  BY DEF Points, InHand, Passing
<1>3. CASE Refuse
  BY <1>3, LoopStepKeepsTypes DEF Refuse
<1>4. CASE PublishControl
  <2>1. job \in Jobs /\ it \in Attempts
    BY <1>4, <1>2, ItIsAttempt DEF PublishControl
  <2> QED
    BY <2>1, <1>4, <1>1, <1>2, NoJobAssumption DEF PublishControl, WriteControl, DirTypeOK, RunnerTypeOK,
       DaemonTypeOK, JobInHand, TodoActive, CurrentIsLast, ResultKnown, TypeInv, TypeOK, LoopInv
<1>5. ASSUME NEW j \in Jobs, DeleteActive(j) \/ Rerun(j)
      PROVE  TypeInv'
  <2>1. pc = "dispatch" /\ todo = {} /\ state[j] \in Active
    BY <1>1, <1>2, <1>5 DEF DeleteActive, Rerun, TodoActive, Active
  <2>2. <<j, current[j]>> \in Attempts
    BY <1>1, <2>1 DEF CurrentIsLast, DaemonTypeOK, Attempts
  <2>3. PICK kind \in Kinds : Intend(j, kind)
    BY <1>5 DEF DeleteActive, Rerun, Kinds
  <2>4. DirTypeOK' /\ RunnerTypeOK' /\ ResultKnown'
    BY <1>1, <1>5, <2>3 DEF DeleteActive, Rerun, Intend, DirTypeOK, RunnerTypeOK, ResultKnown
  <2>5. [kind |-> kind, past |-> due[<<j, current[j]>>]] \in Controls
    BY <1>1, <2>2 DEF Controls, RunnerTypeOK
  <2>6. Stamped(<<j, current[j]>>) \in BOOLEAN
    BY DEF Stamped
  <2>7. DaemonTypeOK'
    BY <1>1, <1>2, <1>5, <2>1, <2>2, <2>3, <2>5, <2>6 DEF DeleteActive, Rerun, Intend, DaemonTypeOK,
       States, Active
  <2>8. JobInHand' /\ TodoActive' /\ CurrentIsLast'
    BY <1>1, <1>2, <2>1, <2>3 DEF Intend, DaemonTypeOK, JobInHand, TodoActive, CurrentIsLast, Active
  <2> QED
    BY <1>1, <2>4, <2>7, <2>8 DEF TypeInv, TypeOK, LoopInv
<1>6. ASSUME NEW j \in Jobs, DeleteAgain(j)
      PROVE  TypeInv'
  <2>1. pc = "dispatch" /\ todo = {} /\ state[j] \in Active
    BY <1>1, <1>2, <1>6 DEF DeleteAgain, TodoActive, Active
  <2> QED
    BY <1>1, <1>2, <1>6, <2>1, NoJobAssumption DEF DeleteAgain, DirTypeOK, RunnerTypeOK,
       DaemonTypeOK, JobInHand, TodoActive, CurrentIsLast, ResultKnown, TypeInv, TypeOK, LoopInv
<1>7. ASSUME NEW j \in Jobs, NEW to \in {"QUEUED", "HELD"},
             DeleteWaiting(j) \/ HoldOrRelease(j, to)
      PROVE  TypeInv'
  <2>1. /\ pc = "dispatch" /\ todo = {}
        /\ \E s \in States \ Active : state' = [state EXCEPT ![j] = s]
    BY <1>1, <1>2, <1>7 DEF DeleteWaiting, HoldOrRelease, TodoActive, States, Active, Outcomes
  <2>2. DirTypeOK' /\ RunnerTypeOK' /\ ResultKnown'
    BY <1>1, <1>7 DEF DeleteWaiting, HoldOrRelease, DirTypeOK, RunnerTypeOK, ResultKnown
  <2>3. DaemonTypeOK'
    BY <1>1, <1>2, <1>7, <2>1 DEF DeleteWaiting, HoldOrRelease, DaemonTypeOK
  <2>4. JobInHand' /\ TodoActive' /\ CurrentIsLast'
    BY <1>1, <1>2, <1>7, <2>1, NoJobAssumption DEF DeleteWaiting, HoldOrRelease, DaemonTypeOK, JobInHand,
       TodoActive, CurrentIsLast
  <2> QED
    BY <1>1, <2>2, <2>3, <2>4 DEF TypeInv, TypeOK, LoopInv
<1> QED
  BY <1>3, <1>4, <1>5, <1>6, <1>7 DEF Dispatch

(* Reservation and launch.                                                 *)
LEMMA ScheduleKeepsTypes ==
    ASSUME TypeInv, UNCHANGED faults, Schedule
    PROVE  TypeInv'
<1> USE DEF fileVars, runnerVars, jobVars, tableVars, attemptVars, askVars, OnlyLoop, Continue, Leave
<1>1. /\ DirTypeOK /\ RunnerTypeOK /\ DaemonTypeOK /\ faults \in 0..MaxFaults
      /\ JobInHand /\ TodoActive /\ CurrentIsLast /\ ResultKnown
  BY DEF TypeInv, TypeOK, LoopInv
<1>2. /\ {"down", "mkdir", "spawn", "save", "schedule"} \subseteq Points \ Passing
      /\ {"mkdir", "spawn", "save"} \subseteq InHand
      /\ {"down", "schedule"} \cap InHand = {}
  BY DEF Points, InHand, Passing
<1>3. NothingSeen \in [ready : BOOLEAN, runner : BOOLEAN, started : BOOLEAN]
  BY DEF NothingSeen
<1>4. CASE ScheduleDone
  BY <1>4, LoopStepKeepsTypes DEF ScheduleDone
<1>5. ASSUME NEW j \in Jobs, NEW g \in Plans(j), Reserve(j, g)
      PROVE  TypeInv'
  <2> DEFINE a == <<j, count[j] + 1>>
  <2>1. a \in Attempts /\ count[j] + 1 \in 1..MaxAttempts
    BY <1>1, <1>5, MaxAttemptsAssumption DEF Reserve, DaemonTypeOK, Attempts
  <2>2. g \in SUBSET GPUs
    BY DEF Plans, FreeGPUs
  <2>3. pc = "schedule" /\ todo = {} /\ job = NoJob
    BY <1>1, <1>2, <1>5 DEF Reserve, TodoActive, JobInHand
  <2>4. CASE Conflict(g)
    BY <2>3, <2>4, <1>5, <1>1, <1>2, <1>3 DEF Reserve, DirTypeOK, RunnerTypeOK,
       DaemonTypeOK, JobInHand, TodoActive, CurrentIsLast, ResultKnown, TypeInv, TypeOK, LoopInv
  <2>5. CASE ~Conflict(g)
    <3>1. DirTypeOK' /\ RunnerTypeOK' /\ ResultKnown'
      BY <2>5, <1>5, <1>1 DEF Reserve, DirTypeOK, RunnerTypeOK, ResultKnown
    <3>2. NoControl \in Controls /\ "STARTING" \in States
      BY DEF NoControl, Controls, Kinds, States, Active
    <3>3. (rows \union (g \X {a})) \in SUBSET (GPUs \X Attempts)
      BY <2>1, <2>2, <1>1 DEF DaemonTypeOK
    <3>4. DaemonTypeOK'
      <4>1. /\ state' = [state EXCEPT ![j] = "STARTING"]
            /\ count' = [count EXCEPT ![j] = count[j] + 1]
            /\ current' = [current EXCEPT ![j] = count[j] + 1]
            /\ intent' = [intent EXCEPT ![j] = NoControl]
            /\ late' = [late EXCEPT ![j] = FALSE]
            /\ devices' = [devices EXCEPT ![j] = g]
            /\ rows' = rows \union (g \X {a})
            /\ pc' = "mkdir" /\ job' = j
            /\ UNCHANGED <<after, todo, seen, authorized, known, saved, rerunAsked, deleted>>
        BY <2>5, <1>5 DEF Reserve
      <4>2. count[j] + 1 \in 0..MaxAttempts
        BY <2>1, MaxAttemptsAssumption
      <4> HIDE DEF a
      <4>3. /\ state' \in [Jobs -> States] /\ count' \in [Jobs -> 0..MaxAttempts]
            /\ current' \in [Jobs -> 0..MaxAttempts] /\ intent' \in [Jobs -> Controls]
            /\ late' \in [Jobs -> BOOLEAN] /\ devices' \in [Jobs -> SUBSET GPUs]
        BY <4>1, <4>2, <2>2, <3>2, <1>1 DEF DaemonTypeOK
      <4> QED
        BY <4>1, <4>3, <3>3, <1>1, <1>2 DEF DaemonTypeOK
    <3>5. JobInHand' /\ TodoActive' /\ CurrentIsLast'
      BY <2>1, <2>3, <2>5, <1>5, <1>1, <1>2 DEF Reserve, DaemonTypeOK, JobInHand, TodoActive,
         CurrentIsLast, Active
    <3> QED
      BY <3>1, <3>4, <3>5, <1>1 DEF TypeInv, TypeOK, LoopInv
  <2> QED
    BY <2>4, <2>5
<1>6. ASSUME MakeDir \/ Spawn \/ SaveRunner \/ LaunchFails
      PROVE  job \in Jobs /\ state[job] \in Active /\ it \in Attempts /\ pc \in InHand /\ todo = {}
  BY <1>1, <1>2, <1>6, ItIsAttempt DEF MakeDir, Spawn, SaveRunner, LaunchFails, TodoActive
<1>7. CASE MakeDir
  BY <1>7, <1>6, <1>1, <1>2 DEF MakeDir, DirTypeOK, RunnerTypeOK, DaemonTypeOK, JobInHand,
     TodoActive, CurrentIsLast, ResultKnown, TypeInv, TypeOK, LoopInv
<1>8. CASE Spawn
  BY <1>8, <1>6, <1>1, <1>2 DEF Spawn, Places, DirTypeOK, RunnerTypeOK, DaemonTypeOK, JobInHand,
     TodoActive, CurrentIsLast, ResultKnown, TypeInv, TypeOK, LoopInv
<1>9. CASE SaveRunner
  BY <1>9, <1>6, <1>1, <1>2, <1>3 DEF SaveRunner, DirTypeOK, RunnerTypeOK, DaemonTypeOK, JobInHand,
     TodoActive, CurrentIsLast, ResultKnown, TypeInv, TypeOK, LoopInv
<1>10. CASE LaunchFails
  <2>1. Finish("FAILED", FALSE) /\ Leave("schedule") /\ pc \notin Passing /\ "FAILED" \in Outcomes
    BY <1>10, <1>2 DEF LaunchFails, Outcomes
  <2> QED
    BY <2>1, <1>10, <1>6, FinishKeepsTypes
<1> QED
  BY <1>4, <1>5, <1>7, <1>8, <1>9, <1>10 DEF Schedule

(* Faults.                                                                 *)
LEMMA FaultKeepsTypes ==
    ASSUME TypeInv, DaemonDies \/ Reboot \/ (\E a \in Attempts : RunnerDies(a))
    PROVE  TypeInv'
<1> USE DEF fileVars, runnerVars, daemonVars, jobVars, tableVars, attemptVars, loopVars, askVars,
            OnlyLoop, LoopLost
<1>1. /\ DirTypeOK /\ RunnerTypeOK /\ DaemonTypeOK /\ faults \in 0..MaxFaults
      /\ JobInHand /\ TodoActive /\ CurrentIsLast /\ ResultKnown
  BY DEF TypeInv, TypeOK, LoopInv
<1>2. (faults \in 0..MaxFaults)'
  BY <1>1, FaultsAssumption DEF DaemonDies, Reboot, RunnerDies, Fault
<1>3. /\ "down" \in Points /\ "down" \notin InHand /\ "down" # "collect"
      /\ NothingSeen \in [ready : BOOLEAN, runner : BOOLEAN, started : BOOLEAN]
  BY DEF Points, InHand, Passing, NothingSeen
<1>4. CASE DaemonDies
  BY <1>4, <1>1, <1>2, <1>3 DEF DaemonDies, RunnerAlive, DirTypeOK, RunnerTypeOK, DaemonTypeOK, JobInHand,
     TodoActive, CurrentIsLast, ResultKnown, TypeInv, TypeOK, LoopInv
<1>5. ASSUME NEW a \in Attempts, RunnerDies(a)
      PROVE  TypeInv'
  BY <1>5, <1>1, <1>2 DEF RunnerDies, Goto, Places, Groups, Causes, Outcomes, DirTypeOK, RunnerTypeOK, DaemonTypeOK,
     JobInHand, TodoActive, CurrentIsLast, ResultKnown, TypeInv, TypeOK, LoopInv, it
<1>6. CASE Reboot
  BY <1>6, <1>1, <1>2, <1>3 DEF Reboot, RunnerAlive, Executing, Places, Groups, Causes, Outcomes, DirTypeOK, RunnerTypeOK, DaemonTypeOK,
     JobInHand, TodoActive, CurrentIsLast, ResultKnown, TypeInv, TypeOK, LoopInv
<1> QED
  BY <1>4, <1>5, <1>6

(* No step of daemon, runner, workload, clock or fault breaks TypeInv.     *)
LEMMA TypeInvNext == TypeInv /\ [Next]_vars => TypeInv'
<1> SUFFICES ASSUME TypeInv, [Next]_vars PROVE TypeInv'
  OBVIOUS
<1>1. CASE (StartUp \/ Request \/ DaemonStep) /\ UNCHANGED faults
  <2>1. CASE StartUp \/ Wake \/ Request \/ PassDone \/ (\E j \in Jobs : ReadRunner(j))
             \/ ReadStarted \/ ReadResult \/ CheckAlive
    <3>1. OnlyLoop
      BY <2>1 DEF StartUp, Wake, Request, PassDone, ReadRunner, ReadStarted, ReadResult, CheckAlive
    <3> QED
      BY <1>1, <2>1, <3>1, LoopStepKeepsTypes
  <2> QED
    BY <1>1, <2>1, ReconcileKeepsTypes, DispatchKeepsTypes, ScheduleKeepsTypes DEF DaemonStep, Reconcile
<1>2. CASE \E a \in Attempts : RunnerSide(a) /\ UNCHANGED <<daemonVars, faults>>
  BY <1>2, RunnerSideKeepsTypes
<1>3. CASE DaemonDies \/ Reboot \/ (\E a \in Attempts : RunnerDies(a))
  BY <1>3, FaultKeepsTypes
<1>4. CASE UNCHANGED vars
  BY <1>4 DEF vars, fileVars, runnerVars, daemonVars, jobVars, tableVars, attemptVars, loopVars, askVars,
     DirTypeOK, RunnerTypeOK, DaemonTypeOK, JobInHand, TodoActive, CurrentIsLast, ResultKnown,
     TypeInv, TypeOK, LoopInv, it
<1> QED
  BY <1>1, <1>2, <1>3, <1>4 DEF Next

(* In every reachable state every variable has its type, and the loop has  *)
(* only active jobs in hand.                                               *)
THEOREM TypesHold == Spec => []TypeInv
<1> QED
  BY TypeInvInit, TypeInvNext, PTL DEF Spec

(* In every reachable state every variable has its type (the job records,  *)
(* files and tables the code writes).                                      *)
THEOREM TypeCorrectness == Spec => []TypeOK
<1>1. TypeInv => TypeOK
  BY DEF TypeInv
<1> QED
  BY <1>1, TypesHold, PTL

-----------------------------------------------------------------------------
(* What the steps of the daemon leave alone                                *)

USE DEF fileVars, runnerVars, daemonVars, jobVars, tableVars, attemptVars, loopVars, askVars

(* Of the variables an execution depends on, the daemon changes only       *)
(* authorized (Authorize), granted (Grant) and runner (Spawn).             *)
LEMMA DaemonKeepsExecution ==
    ASSUME StartUp \/ Request \/ DaemonStep
    PROVE  Authorize \/ Grant \/ Spawn \/ UNCHANGED <<granted, authorized, started, runner, workload>>
<1> USE DEF OnlyLoop, WriteControl
<1>1. CASE StartUp \/ Request \/ Wake
  BY <1>1 DEF StartUp, Request, Wake
<1>2. CASE Reconcile
  BY <1>2 DEF Reconcile, PassDone, ReadRunner, ReadStarted, ReadResult, Collect, CheckAlive,
     Republish, Mark, Revoke, Abandon, Requeue, Reap, KillGroup, Finish
<1>3. CASE Dispatch
  BY <1>3 DEF Dispatch, Refuse, PublishControl, DeleteWaiting, DeleteActive, DeleteAgain, Rerun,
     HoldOrRelease
<1>4. CASE Schedule
  BY <1>4 DEF Schedule, ScheduleDone, Reserve, MakeDir, SaveRunner, LaunchFails, Finish
<1> QED
  BY <1>1, <1>2, <1>3, <1>4 DEF DaemonStep

-----------------------------------------------------------------------------
(* From the authorization to the script: each stage of the gated start was *)
(* reached through the one before.                                         *)
GrantInv ==
    \A a \in Attempts :
        /\ granted[a] => authorized[a]
        /\ runner[a] \in {"setup", "record", "gate", "watch"} => granted[a]
        /\ workload[a] # "none" => granted[a]
        /\ runner[a] \in {"gate", "watch"} => started[a]
        /\ Executed(a) => started[a]

(* At first nothing is authorized and nothing runs.                        *)
LEMMA GrantInvInit == Init => GrantInv
BY DEF Init, DirInit, RunnerInit, GrantInv, Executed

(* No step breaks GrantInv: the runner goes on only when it has read what  *)
(* the daemon committed before it published it (Authorize, Grant,          *)
(* awaitAuthorization, Workload).                                          *)
LEMMA GrantInvNext == TypeInv /\ GrantInv /\ [Next]_vars => GrantInv'
<1> SUFFICES ASSUME TypeInv, GrantInv, [Next]_vars PROVE GrantInv'
  OBVIOUS
<1> USE DEF Goto
<1>1. DirTypeOK /\ RunnerTypeOK /\ authorized \in [Attempts -> BOOLEAN]
  BY DEF TypeInv, TypeOK, DaemonTypeOK
<1>2. CASE UNCHANGED <<granted, authorized, started, runner, workload>>
  BY <1>2 DEF GrantInv, Executed
<1>3. CASE Authorize
  BY <1>3, <1>1 DEF Authorize, GrantInv, Executed, DirTypeOK, RunnerTypeOK
<1>4. CASE Grant
  <2>1. it \in Attempts
    BY <1>4, ItIsAttempt DEF Grant, InHand, Passing
  <2> QED
    BY <2>1, <1>4, <1>1 DEF Grant, GrantInv, Executed, DirTypeOK, RunnerTypeOK
<1>5. CASE Spawn
  BY <1>5, <1>1 DEF Spawn, GrantInv, Executed, DirTypeOK, RunnerTypeOK
<1>6. ASSUME NEW a \in Attempts, RunnerStep(a), UNCHANGED authorized
      PROVE  GrantInv'
  <2>1. CASE Boot(a) \/ PollControl(a) \/ Stamp(a) \/ Publish(a) \/ Notify(a)
    BY <2>1, <1>1, <1>6 DEF Boot, PollControl, Stamp, Publish, Notify, GrantInv, Executed,
       DirTypeOK, RunnerTypeOK
  <2>2. CASE PollAuthorization(a)
    BY <2>2, <1>1, <1>6 DEF PollAuthorization, GrantInv, Executed, DirTypeOK, RunnerTypeOK
  <2>3. CASE StartGated(a)
    BY <2>3, <1>1, <1>6 DEF StartGated, GrantInv, Executed, DirTypeOK, RunnerTypeOK
  <2>4. CASE SetupFails(a)
    BY <2>4, <1>1, <1>6 DEF SetupFails, GrantInv, Executed, DirTypeOK, RunnerTypeOK
  <2>5. CASE RecordStart(a)
    BY <2>5, <1>1, <1>6 DEF RecordStart, GrantInv, Executed, DirTypeOK, RunnerTypeOK
  <2>6. CASE OpenGate(a)
    BY <2>6, <1>1, <1>6 DEF OpenGate, GrantInv, Executed, DirTypeOK, RunnerTypeOK
  <2>7. CASE Tick(a)
    BY <2>7, <1>1, <1>6 DEF Tick, GrantInv, Executed, DirTypeOK, RunnerTypeOK
  <2> QED
    BY <1>6, <2>1, <2>2, <2>3, <2>4, <2>5, <2>6, <2>7 DEF RunnerStep
<1>7. ASSUME NEW a \in Attempts, WorkloadStep(a), UNCHANGED authorized
      PROVE  GrantInv'
  BY <1>7, <1>1 DEF WorkloadStep, MainExits, LeftoverExits, GrantInv, Executed, DirTypeOK, RunnerTypeOK
<1>8. ASSUME NEW a \in Attempts, WalltimePasses(a), UNCHANGED authorized
      PROVE  GrantInv'
  BY <1>8, <1>2 DEF WalltimePasses
<1>9. CASE DaemonDies
  BY <1>9, <1>2 DEF DaemonDies
<1>10. ASSUME NEW a \in Attempts, RunnerDies(a)
       PROVE  GrantInv'
  BY <1>10, <1>1 DEF RunnerDies, GrantInv, Executed, DirTypeOK, RunnerTypeOK
<1>11. CASE Reboot
  BY <1>11, <1>1 DEF Reboot, GrantInv, Executed, Executing, RunnerAlive, DirTypeOK, RunnerTypeOK
<1>12. CASE UNCHANGED vars
  BY <1>12, <1>2 DEF vars
<1> QED
  BY <1>2, <1>3, <1>4, <1>5, <1>6, <1>7, <1>8, <1>9, <1>10, <1>11, <1>12, DaemonKeepsExecution
  DEF Next, RunnerSide

(* A script executes only on a committed and published authorization, with *)
(* its identity durable: the run "recovery" checks it for two attempts.    *)
THEOREM ExecutionIsAuthorized == Spec => []ExecutedImpliesAuthorized
<1>1. GrantInv => ExecutedImpliesAuthorized
  BY DEF GrantInv, ExecutedImpliesAuthorized, Executed
<1>2. Spec => []GrantInv
  BY GrantInvInit, GrantInvNext, TypesHold, PTL DEF Spec
<1> QED
  BY <1>1, <1>2, PTL

-----------------------------------------------------------------------------
(* An attempt that was authorized is never given up for a requeue; the job *)
(* gets past it only through an accepted rerun.                            *)

Waiting(j) == state[j] \in {"QUEUED", "HELD"}

AuthorizedOnce ==
    \A a \in Attempts : authorized[a] =>
        /\ a[2] <= count[a[1]]
        /\ a[2] < count[a[1]] \/ Waiting(a[1]) => a \in rerunAsked
RerunIsAsked ==
    \A j \in Jobs : intent[j].kind = "rerun" /\ state[j] \in Active => <<j, current[j]>> \in rerunAsked
GivenUpUnauthorized == pc \in {"revoke", "abandon"} => ~authorized[it]

RepeatInv == AuthorizedOnce /\ RerunIsAsked /\ GivenUpUnauthorized

(* At first there is no attempt, so none is authorized.                    *)
LEMMA RepeatInvInit == Init => RepeatInv
BY DEF Init, DaemonInit, RepeatInv, AuthorizedOnce, RerunIsAsked, GivenUpUnauthorized, NoControl

(* The commit that ends an attempt queues its job only for a rerun.        *)
LEMMA FinishKeepsRepeat ==
    ASSUME TypeInv, RepeatInv, pc \in InHand,
           NEW out \in Outcomes \union MadeUp, NEW published, Finish(out, published),
           pc' \notin {"revoke", "abandon"}
    PROVE  RepeatInv'
<1>1. job \in Jobs /\ state[job] \in Active /\ it \in Attempts /\ current[job] = count[job]
  BY ItIsAttempt DEF TypeInv, LoopInv, CurrentIsLast
<1> DEFINE s == Settled(job, out, published)
<1>2. /\ s \in Outcomes \union {"QUEUED"}
      /\ s = "QUEUED" => intent[job].kind = "rerun"
  BY SettledState DEF Settled, Outcomes, MadeUp
<1>3. /\ state' = [state EXCEPT ![job] = s]
      /\ intent' = [intent EXCEPT ![job] = NoControl]
      /\ UNCHANGED <<count, current, authorized, rerunAsked>>
  BY DEF Finish
<1> HIDE DEF s
<1>4. state \in [Jobs -> States] /\ intent \in [Jobs -> Controls] /\ count \in [Jobs -> 0..MaxAttempts]
  BY DEF TypeInv, TypeOK, DaemonTypeOK
<1>5. s = "QUEUED" => it \in rerunAsked
  BY <1>1, <1>2 DEF RepeatInv, RerunIsAsked, it
<1>6. s # "QUEUED" => s \notin {"QUEUED", "HELD"}
  BY <1>2 DEF Outcomes
<1>7. AuthorizedOnce'
  <2> SUFFICES ASSUME NEW a \in Attempts, authorized[a]
               PROVE  /\ a[2] <= count[a[1]]
                      /\ a[2] < count[a[1]] \/ Waiting(a[1])' => a \in rerunAsked
    BY <1>3 DEF AuthorizedOnce, Waiting
  <2>1. /\ a[2] <= count[a[1]]
        /\ a[2] < count[a[1]] \/ Waiting(a[1]) => a \in rerunAsked
    BY DEF RepeatInv, AuthorizedOnce
  <2>2. CASE a[1] = job /\ a[2] = count[job]
    <3>1. a = it
      BY <2>2, <1>1 DEF it, Attempts
    <3> QED
      BY <3>1, <2>1, <2>2, <1>1, <1>3, <1>4, <1>5, <1>6 DEF Waiting
  <2>3. CASE a[1] = job /\ a[2] # count[job]
    <3>1. a[2] \in Nat /\ count[job] \in Nat
      BY <1>1, <1>4, MaxAttemptsAssumption DEF Attempts
    <3> QED
      BY <3>1, <2>1, <2>3
  <2>4. CASE a[1] # job
    BY <2>1, <2>4, <1>3, <1>4 DEF Waiting, Attempts
  <2> QED
    BY <2>2, <2>3, <2>4
<1>8. RerunIsAsked'
  BY <1>1, <1>3, <1>4 DEF RepeatInv, RerunIsAsked, NoControl
<1>9. GivenUpUnauthorized'
  BY DEF GivenUpUnauthorized
<1> QED
  BY <1>7, <1>8, <1>9 DEF RepeatInv

(* A step that moves jobs among the active states only.                    *)
LEMMA ActiveStaysActive ==
    ASSUME RepeatInv, UNCHANGED <<count, current, intent, authorized, rerunAsked>>,
           \A j \in Jobs : state'[j] = state[j] \/ {state[j], state'[j]} \subseteq Active,
           pc' \notin {"revoke", "abandon"}
    PROVE  RepeatInv'
<1>1. \A j \in Jobs : Waiting(j)' => Waiting(j)
  BY DEF Waiting, Active
<1>2. \A a \in Attempts : a[1] \in Jobs
  BY DEF Attempts
<1>3. AuthorizedOnce'
  BY <1>1, <1>2 DEF RepeatInv, AuthorizedOnce
<1>4. RerunIsAsked'
  BY DEF RepeatInv, RerunIsAsked
<1> QED
  BY <1>3, <1>4 DEF RepeatInv, GivenUpUnauthorized

(* No step of reconciliation breaks RepeatInv: Authorize is the only one   *)
(* that authorizes, and it takes the current attempt of an active job.     *)
LEMMA ReconcileKeepsRepeat ==
    ASSUME TypeInv, RepeatInv, Reconcile
    PROVE  RepeatInv'
<1> USE DEF Continue, Leave, OnlyLoop
<1>1. /\ state \in [Jobs -> States] /\ count \in [Jobs -> 0..MaxAttempts]
      /\ authorized \in [Attempts -> BOOLEAN]
      /\ CurrentIsLast /\ ResultKnown /\ DirTypeOK /\ MaxAttempts \in Nat
  BY MaxAttemptsAssumption DEF TypeInv, TypeOK, LoopInv, DaemonTypeOK
<1>2. AuthorizedOnce /\ RerunIsAsked /\ GivenUpUnauthorized
  BY DEF RepeatInv
<1>3. ASSUME pc \in InHand PROVE job \in Jobs /\ state[job] \in Active /\ it \in Attempts
  BY <1>3, ItIsAttempt
<1>4. CASE UNCHANGED <<state, count, current, intent, authorized, rerunAsked>>
           /\ pc' \notin {"revoke", "abandon"}
  BY <1>2, <1>4 DEF RepeatInv, AuthorizedOnce, RerunIsAsked, GivenUpUnauthorized, Waiting
<1>5. CASE PassDone \/ (\E j \in Jobs : ReadRunner(j)) \/ ReadStarted \/ ReadResult
           \/ Republish \/ Grant \/ KillGroup
  <2>1. UNCHANGED <<state, count, current, intent, authorized, rerunAsked>>
    BY <1>5 DEF PassDone, ReadRunner, ReadStarted, ReadResult, Republish, Grant, KillGroup
  <2>2. pc' \notin {"revoke", "abandon"}
    <3>1. after \in {"wait", "dispatch", "schedule"}
      BY DEF TypeInv, TypeOK, DaemonTypeOK
    <3> QED
      BY <3>1, <1>5 DEF PassDone, ReadRunner, ReadStarted, ReadResult, Republish, Grant, KillGroup
  <2> QED
    BY <2>1, <2>2, <1>4
<1>6. CASE CheckAlive
  BY <1>6, <1>2 DEF CheckAlive, RepeatInv, AuthorizedOnce, RerunIsAsked, GivenUpUnauthorized, Waiting, it
<1>7. CASE Revoke
  BY <1>7, <1>2 DEF Revoke, RepeatInv, AuthorizedOnce, RerunIsAsked, GivenUpUnauthorized, Waiting, it
<1>8. CASE Authorize
  <2>1. job \in Jobs /\ state[job] \in Active /\ it \in Attempts /\ current[job] = count[job]
    BY <1>1, <1>3, <1>8 DEF Authorize, InHand, Passing, CurrentIsLast
  <2>2. UNCHANGED <<state, count, current, intent, rerunAsked>> /\ pc' = "grant"
    BY <1>8 DEF Authorize
  <2>3. \A a \in Attempts : authorized'[a] => authorized[a] \/ a = it
    BY <1>8, <1>1, <2>1 DEF Authorize
  <2>4. it[2] = count[it[1]] /\ ~Waiting(it[1])
    BY <2>1 DEF it, Waiting, Active
  <2>5. AuthorizedOnce'
    <3> SUFFICES ASSUME NEW a \in Attempts, authorized'[a]
                 PROVE  /\ a[2] <= count[a[1]]
                        /\ a[2] < count[a[1]] \/ Waiting(a[1]) => a \in rerunAsked
      BY <2>2 DEF AuthorizedOnce, Waiting
    <3>1. CASE a = it
      <4>1. a[2] \in Nat
        BY <1>1 DEF Attempts
      <4> QED
        BY <2>4, <3>1, <4>1
    <3>2. CASE a # it
      BY <2>3, <3>2, <1>2 DEF AuthorizedOnce
    <3> QED
      BY <3>1, <3>2
  <2> QED
    BY <2>2, <2>5, <1>2 DEF RepeatInv, RerunIsAsked, GivenUpUnauthorized
<1>9. CASE Mark
  <2>1. pc' = "pass" /\ UNCHANGED <<count, current, intent, authorized, rerunAsked>>
    BY <1>9 DEF Mark
  <2>2. \A j \in Jobs : state'[j] = state[j] \/ {state[j], state'[j]} \subseteq Active
    BY <1>9, <1>1 DEF Mark, Active
  <2> QED
    BY <2>1, <2>2, <1>2, ActiveStaysActive
<1>10. CASE Collect
  <2>1. CASE ~WorkloadGone
    BY <1>4, <1>10, <2>1 DEF Collect
  <2>2. CASE WorkloadGone
    <3>1. /\ Finish(result[it], TRUE) /\ pc' = "pass" /\ pc \in InHand
          /\ result[it] \in Outcomes
      BY <1>1, <1>3, <1>10, <2>2 DEF Collect, ResultKnown, DirTypeOK, InHand, Passing
    <3> QED
      BY <3>1, FinishKeepsRepeat
  <2> QED
    BY <2>1, <2>2
<1>11. CASE Abandon
  <2>1. pc = "abandon" /\ pc' = "pass" /\ pc \in InHand
    BY <1>11 DEF Abandon, InHand, Passing
  <2>2. CASE intent[job].kind = "cancel"
    BY <1>11, <2>1, <2>2, FinishKeepsRepeat DEF Abandon, Outcomes
  <2>3. CASE intent[job].kind # "cancel"
    <3>1. /\ state' = [state EXCEPT ![job] = "QUEUED"] /\ current' = [current EXCEPT ![job] = 0]
          /\ UNCHANGED <<count, intent, authorized, rerunAsked>>
      BY <1>11, <2>3 DEF Abandon, Requeue
    <3>2. job \in Jobs /\ current[job] = count[job] /\ ~authorized[it]
      BY <1>1, <1>2, <1>3, <2>1 DEF CurrentIsLast, GivenUpUnauthorized
    <3>3. AuthorizedOnce'
      <4> SUFFICES ASSUME NEW a \in Attempts, authorized[a]
                   PROVE  /\ a[2] <= count[a[1]]
                          /\ a[2] < count[a[1]] \/ Waiting(a[1])' => a \in rerunAsked
        BY <3>1 DEF AuthorizedOnce, Waiting
      <4>1. /\ a[2] <= count[a[1]] /\ a[2] \in Nat /\ count[a[1]] \in Nat
            /\ a[2] < count[a[1]] \/ Waiting(a[1]) => a \in rerunAsked
        BY <1>1, <1>2 DEF AuthorizedOnce, Attempts
      <4>2. CASE a[1] = job
        <5>1. a[2] # count[job]
          BY <4>2, <3>2 DEF it, Attempts
        <5> QED
          BY <4>1, <4>2, <5>1
      <4>3. CASE a[1] # job
        BY <4>1, <4>3, <3>1, <1>1 DEF Waiting, Attempts
      <4> QED
        BY <4>2, <4>3
    <3>4. RerunIsAsked'
      BY <3>1, <3>2, <1>1, <1>2 DEF RerunIsAsked, Active
    <3> QED
      BY <3>3, <3>4, <2>1 DEF RepeatInv, GivenUpUnauthorized
  <2> QED
    BY <2>2, <2>3
<1>12. CASE Reap
  <2>1. pc = "reap" /\ pc \in InHand /\ pc' \in {"pass", "kill"}
    BY <1>12 DEF Reap, InHand, Passing
  <2>2. CASE WorkloadGone
    BY <1>12, <2>1, <2>2, FinishKeepsRepeat DEF Reap, MadeUp
  <2>3. CASE ~WorkloadGone
    <3>1. UNCHANGED <<count, current, intent, authorized, rerunAsked>>
      BY <1>12, <2>3 DEF Reap
    <3>2. \A j \in Jobs : state'[j] = state[j] \/ {state[j], state'[j]} \subseteq Active
      BY <1>12, <1>1, <1>3, <2>1, <2>3 DEF Reap, Active
    <3> QED
      BY <2>1, <3>1, <3>2, <1>2, ActiveStaysActive
  <2> QED
    BY <2>2, <2>3
<1> QED
  BY <1>5, <1>6, <1>7, <1>8, <1>9, <1>10, <1>11, <1>12 DEF Reconcile

(* No request breaks RepeatInv: only an accepted qrerun asks for a rerun.  *)
LEMMA DispatchKeepsRepeat ==
    ASSUME TypeInv, RepeatInv, Dispatch
    PROVE  RepeatInv'
<1> USE DEF Answered, Pass, OnlyLoop
<1>1. /\ state \in [Jobs -> States] /\ intent \in [Jobs -> Controls]
      /\ AuthorizedOnce /\ RerunIsAsked /\ CurrentIsLast
  BY DEF TypeInv, TypeOK, LoopInv, DaemonTypeOK, RepeatInv
<1>2. CASE Refuse \/ PublishControl
  BY <1>2, <1>1 DEF Refuse, PublishControl, RepeatInv, AuthorizedOnce, RerunIsAsked,
     GivenUpUnauthorized, Waiting
<1>3. ASSUME NEW j \in Jobs, DeleteActive(j) \/ Rerun(j)
      PROVE  RepeatInv'
  <2>1. /\ state' = [state EXCEPT ![j] = "EXITING"] /\ state[j] \in Active
        /\ pc' = "publish" /\ rerunAsked \subseteq rerunAsked'
        /\ UNCHANGED <<count, current, authorized>>
    BY <1>3 DEF DeleteActive, Rerun, Intend, Active
  <2>2. AuthorizedOnce'
    BY <2>1, <1>1 DEF AuthorizedOnce, Waiting, Attempts
  <2>3. RerunIsAsked'
    <3>1. CASE DeleteActive(j)
      BY <2>1, <3>1, <1>1 DEF RerunIsAsked, DeleteActive, Intend
    <3>2. CASE Rerun(j)
      BY <2>1, <3>2, <1>1 DEF RerunIsAsked, Rerun, Intend
    <3> QED
      BY <1>3, <3>1, <3>2
  <2> QED
    BY <2>1, <2>2, <2>3 DEF RepeatInv, GivenUpUnauthorized
<1>4. ASSUME NEW j \in Jobs, DeleteAgain(j)
      PROVE  RepeatInv'
  BY <1>4, <1>1 DEF DeleteAgain, RepeatInv, AuthorizedOnce, RerunIsAsked, GivenUpUnauthorized, Waiting
<1>5. ASSUME NEW j \in Jobs, NEW to \in {"QUEUED", "HELD"}, DeleteWaiting(j) \/ HoldOrRelease(j, to)
      PROVE  RepeatInv'
  <2>1. /\ Waiting(j) /\ state'[j] \in {"CANCELLED", "QUEUED", "HELD"}
        /\ \A k \in Jobs : k # j => state'[k] = state[k]
        /\ pc' = "pass" /\ UNCHANGED <<count, current, intent, authorized, rerunAsked>>
    BY <1>5, <1>1 DEF DeleteWaiting, HoldOrRelease, Waiting
  <2>2. /\ \A k \in Jobs : Waiting(k)' => Waiting(k)
        /\ \A k \in Jobs : state'[k] \in Active => state[k] \in Active
    BY <2>1 DEF Waiting, Active
  <2>3. AuthorizedOnce'
    BY <2>1, <2>2, <1>1 DEF AuthorizedOnce, Attempts
  <2> QED
    BY <2>1, <2>2, <2>3, <1>1 DEF RepeatInv, RerunIsAsked, GivenUpUnauthorized
<1> QED
  BY <1>2, <1>3, <1>4, <1>5 DEF Dispatch

(* No step of a launch breaks RepeatInv: an attempt that is given up was   *)
(* not authorized.                                                         *)
LEMMA ScheduleKeepsRepeat ==
    ASSUME TypeInv, RepeatInv, Schedule
    PROVE  RepeatInv'
<1> USE DEF Continue, Leave, OnlyLoop
<1>1. /\ state \in [Jobs -> States] /\ intent \in [Jobs -> Controls]
      /\ count \in [Jobs -> 0..MaxAttempts] /\ current \in [Jobs -> 0..MaxAttempts]
      /\ MaxAttempts \in Nat
      /\ AuthorizedOnce /\ RerunIsAsked
  BY MaxAttemptsAssumption DEF TypeInv, TypeOK, DaemonTypeOK, RepeatInv
<1>2. CASE ScheduleDone \/ MakeDir \/ Spawn \/ SaveRunner
  BY <1>2, <1>1 DEF ScheduleDone, MakeDir, Spawn, SaveRunner, RepeatInv, AuthorizedOnce, RerunIsAsked,
     GivenUpUnauthorized, Waiting
<1>3. CASE LaunchFails
  <2>1. Finish("FAILED", FALSE) /\ pc \in InHand /\ pc' = "schedule" /\ "FAILED" \in Outcomes
    BY <1>3 DEF LaunchFails, InHand, Outcomes
  <2> QED
    BY <2>1, FinishKeepsRepeat
<1>4. ASSUME NEW j \in Jobs, NEW g, Reserve(j, g)
      PROVE  RepeatInv'
  <2>1. CASE Conflict(g)
    BY <1>4, <2>1, <1>1 DEF Reserve, RepeatInv, AuthorizedOnce, RerunIsAsked, GivenUpUnauthorized, Waiting
  <2>2. CASE ~Conflict(g)
    <3>1. /\ state[j] = "QUEUED"
          /\ state' = [state EXCEPT ![j] = "STARTING"]
          /\ count' = [count EXCEPT ![j] = count[j] + 1]
          /\ current' = [current EXCEPT ![j] = count[j] + 1]
          /\ intent' = [intent EXCEPT ![j] = NoControl]
          /\ pc' = "mkdir" /\ UNCHANGED <<authorized, rerunAsked>>
      BY <1>4, <2>2 DEF Reserve
    <3>2. AuthorizedOnce'
      <4> SUFFICES ASSUME NEW a \in Attempts, authorized[a]
                   PROVE  /\ a[2] <= count'[a[1]]
                          /\ a[2] < count'[a[1]] \/ Waiting(a[1])' => a \in rerunAsked
        BY <3>1 DEF AuthorizedOnce, Waiting
      <4>1. /\ a[1] \in Jobs /\ a[2] \in Nat /\ count[a[1]] \in Nat /\ a[2] <= count[a[1]]
            /\ a[2] < count[a[1]] \/ Waiting(a[1]) => a \in rerunAsked
        BY <1>1 DEF AuthorizedOnce, Attempts
      <4>2. CASE a[1] = j
        <5>1. Waiting(a[1])
          BY <3>1, <4>2 DEF Waiting
        <5> QED
          BY <5>1, <4>1, <4>2, <3>1, <1>1
      <4>3. CASE a[1] # j
        BY <4>1, <4>3, <3>1, <1>1 DEF Waiting
      <4> QED
        BY <4>2, <4>3
    <3>3. RerunIsAsked'
      BY <3>1, <1>1 DEF RerunIsAsked, NoControl
    <3> QED
      BY <3>1, <3>2, <3>3 DEF RepeatInv, GivenUpUnauthorized
  <2> QED
    BY <2>1, <2>2
<1> QED
  BY <1>2, <1>3, <1>4 DEF Schedule

(* No step at all breaks RepeatInv.                                        *)
LEMMA RepeatInvNext == TypeInv /\ RepeatInv /\ [Next]_vars => RepeatInv'
<1> SUFFICES ASSUME TypeInv, RepeatInv, [Next]_vars PROVE RepeatInv'
  OBVIOUS
<1>1. CASE UNCHANGED <<state, count, current, intent, authorized, rerunAsked>>
           /\ (pc' \notin {"revoke", "abandon"} \/ UNCHANGED <<pc, job>>)
  BY <1>1 DEF RepeatInv, AuthorizedOnce, RerunIsAsked, GivenUpUnauthorized, Waiting, it
<1>2. CASE StartUp \/ Request \/ Wake
  BY <1>1, <1>2 DEF StartUp, Request, Wake, OnlyLoop, Pass
<1>3. CASE \E a \in Attempts : RunnerSide(a) /\ UNCHANGED <<daemonVars, faults>>
  BY <1>1, <1>3
<1>4. CASE DaemonDies \/ Reboot \/ (\E a \in Attempts : RunnerDies(a))
  BY <1>1, <1>4 DEF DaemonDies, Reboot, RunnerDies, LoopLost
<1>5. CASE UNCHANGED vars
  BY <1>1, <1>5 DEF vars
<1> QED
  BY <1>2, <1>3, <1>4, <1>5, ReconcileKeepsRepeat, DispatchKeepsRepeat, ScheduleKeepsRepeat
  DEF Next, DaemonStep

(* A script executes a second time only after an accepted rerun, whatever  *)
(* dies between any two steps: the run "recovery" checks it for two        *)
(* attempts and one fault.                                                 *)
THEOREM NothingIsRepeated == Spec => []NoSilentReexecution
<1>1. TypeInv /\ GrantInv /\ RepeatInv => NoSilentReexecution
  BY DEF GrantInv, RepeatInv, AuthorizedOnce, NoSilentReexecution, Executed
<1>2. Spec => []GrantInv
  BY GrantInvInit, GrantInvNext, TypesHold, PTL DEF Spec
<1>3. Spec => []RepeatInv
  BY RepeatInvInit, RepeatInvNext, TypesHold, PTL DEF Spec
<1> QED
  BY <1>1, <1>2, <1>3, TypesHold, PTL

-----------------------------------------------------------------------------
(* What a step may do to the job records and the allocations table.        *)

(* No reservation is made or given up; only EXITING is entered from an     *)
(* active state with a new intent, and it is not left.                     *)
Kept ==
    /\ UNCHANGED <<current, devices, rows, saved>>
    /\ \A j \in Jobs : state'[j] \in Active <=> state[j] \in Active
    /\ \A j \in Jobs : state[j] = "EXITING" => state'[j] = "EXITING"
    /\ \A j \in Jobs : intent'[j] = intent[j] \/ state'[j] = "EXITING"
Ended ==
    \/ pc = "collect" /\ WorkloadGone /\ Finish(result[it], TRUE)
    \/ pc = "abandon" /\ Finish("CANCELLED", FALSE)
    \/ pc = "reap" /\ WorkloadGone /\ Finish(IF seen.started THEN "LostRunner" ELSE "UnknownExecution", FALSE)
    \/ pc \in {"mkdir", "spawn"} /\ Finish("FAILED", FALSE)
Requeued == pc = "abandon" /\ intent[job].kind # "cancel" /\ Requeue
Reserved == \E j \in Jobs : \E g \in Plans(j) : Reserve(j, g) /\ ~Conflict(g)

RecordsStep == Kept \/ Ended \/ Requeued \/ Reserved

(* An attempt is ended by finish, and with one of its outcomes.            *)
LEMMA EndedFinishes ==
    ASSUME TypeInv, Ended
    PROVE  pc \in InHand /\ \E out \in Outcomes \union MadeUp, published \in BOOLEAN : Finish(out, published)
<1>1. CASE pc = "collect" /\ Finish(result[it], TRUE)
  <2>1. pc \in InHand /\ it \in Attempts
    BY <1>1, ItIsAttempt DEF InHand, Passing
  <2>2. result[it] \in Outcomes
    BY <1>1, <2>1 DEF TypeInv, TypeOK, LoopInv, ResultKnown, DirTypeOK
  <2> QED
    BY <1>1, <2>1, <2>2
<1>2. CASE pc # "collect"
  BY <1>2 DEF Ended, InHand, Passing, Outcomes, MadeUp
<1> QED
  BY <1>1, <1>2 DEF Ended

(* A step of reconciliation keeps the reservations, or ends or requeues    *)
(* the attempt in hand.                                                    *)
LEMMA ReconcileOnRecords ==
    ASSUME TypeInv, Reconcile
    PROVE  RecordsStep
<1> USE DEF Continue, Leave, OnlyLoop, jobVars, tableVars, attemptVars
<1>1. state \in [Jobs -> States]
  BY DEF TypeInv, TypeOK, DaemonTypeOK
<1>2. ASSUME pc \in InHand PROVE job \in Jobs /\ state[job] \in Active /\ it \in Attempts
  BY <1>2, ItIsAttempt
<1>3. CASE UNCHANGED <<state, intent, current, devices, rows, saved>>
  BY <1>3 DEF RecordsStep, Kept
<1>4. CASE PassDone \/ (\E j \in Jobs : ReadRunner(j)) \/ ReadStarted \/ ReadResult \/ CheckAlive
           \/ Republish \/ Authorize \/ Grant \/ Revoke \/ KillGroup
  BY <1>3, <1>4 DEF PassDone, ReadRunner, ReadStarted, ReadResult, CheckAlive, Republish, Authorize,
     Grant, Revoke, KillGroup
<1>5. CASE Mark
  <2>1. UNCHANGED <<intent, current, devices, rows, saved>>
    BY <1>5 DEF Mark
  <2>2. \/ UNCHANGED state
        \/ state[job] = "STARTING" /\ state' = [state EXCEPT ![job] = "RUNNING"]
    BY <1>5 DEF Mark
  <2> QED
    BY <2>1, <2>2, <1>1 DEF RecordsStep, Kept, Active
<1>6. CASE Collect
  <2>1. CASE ~WorkloadGone
    BY <1>3, <1>6, <2>1 DEF Collect
  <2>2. CASE WorkloadGone
    BY <1>6, <2>2 DEF Collect, RecordsStep, Ended
  <2> QED
    BY <2>1, <2>2
<1>7. CASE Abandon
  BY <1>7 DEF Abandon, RecordsStep, Ended, Requeued
<1>8. CASE Reap
  <2>1. pc \in InHand
    BY <1>8 DEF Reap, InHand, Passing
  <2>2. CASE WorkloadGone
    BY <1>8, <2>2 DEF Reap, RecordsStep, Ended
  <2>3. CASE ~WorkloadGone
    BY <1>1, <1>2, <1>8, <2>1, <2>3 DEF Reap, RecordsStep, Kept, Active
  <2> QED
    BY <2>2, <2>3
<1> QED
  BY <1>4, <1>5, <1>6, <1>7, <1>8 DEF Reconcile

(* A request neither makes nor gives up a reservation.                     *)
LEMMA DispatchOnRecords ==
    ASSUME TypeInv, Dispatch
    PROVE  Kept
<1> USE DEF Answered, Pass, OnlyLoop, jobVars, tableVars, attemptVars
<1>1. state \in [Jobs -> States] /\ intent \in [Jobs -> Controls]
  BY DEF TypeInv, TypeOK, DaemonTypeOK
<1>2. CASE Refuse \/ PublishControl
  BY <1>2 DEF Refuse, PublishControl, Kept
<1>3. ASSUME NEW j \in Jobs, DeleteActive(j) \/ Rerun(j)
      PROVE  Kept
  <2>1. /\ state' = [state EXCEPT ![j] = "EXITING"] /\ state[j] \in Active
        /\ \A k \in Jobs : k # j => intent'[k] = intent[k]
        /\ UNCHANGED <<current, devices, rows, saved>>
    BY <1>1, <1>3 DEF DeleteActive, Rerun, Intend, Active
  <2> QED
    BY <2>1, <1>1 DEF Kept, Active
<1>4. ASSUME NEW j \in Jobs, DeleteAgain(j)
      PROVE  Kept
  BY <1>4 DEF DeleteAgain, Kept
<1>5. ASSUME NEW j \in Jobs, NEW to \in {"QUEUED", "HELD"}, DeleteWaiting(j) \/ HoldOrRelease(j, to)
      PROVE  Kept
  BY <1>5, <1>1 DEF DeleteWaiting, HoldOrRelease, Kept, Active
<1> QED
  BY <1>2, <1>3, <1>4, <1>5 DEF Dispatch

(* Every step is of one of the four kinds.                                 *)
LEMMA StepOnRecords ==
    ASSUME TypeInv, [Next]_vars
    PROVE  RecordsStep
<1>1. CASE UNCHANGED <<state, intent, current, devices, rows, saved>>
  BY <1>1 DEF RecordsStep, Kept
<1>2. CASE StartUp \/ Request \/ Wake \/ UNCHANGED vars
  BY <1>1, <1>2 DEF StartUp, Request, Wake, OnlyLoop, jobVars, tableVars, attemptVars, vars, daemonVars
<1>3. CASE \E a \in Attempts : RunnerSide(a) /\ UNCHANGED <<daemonVars, faults>>
  BY <1>1, <1>3 DEF daemonVars, jobVars, tableVars, attemptVars
<1>4. CASE DaemonDies \/ Reboot \/ (\E a \in Attempts : RunnerDies(a))
  BY <1>1, <1>4 DEF DaemonDies, Reboot, RunnerDies, daemonVars, jobVars, tableVars, attemptVars
<1>5. CASE Schedule
  <2>1. CASE ScheduleDone \/ MakeDir \/ Spawn \/ SaveRunner
    BY <1>1, <2>1 DEF ScheduleDone, MakeDir, Spawn, SaveRunner, OnlyLoop, jobVars, tableVars, attemptVars
  <2>2. CASE LaunchFails
    BY <2>2 DEF LaunchFails, RecordsStep, Ended
  <2>3. ASSUME NEW j \in Jobs, NEW g \in Plans(j), Reserve(j, g)
        PROVE  RecordsStep
    <3>1. CASE Conflict(g)
      BY <1>1, <2>3, <3>1 DEF Reserve, OnlyLoop, jobVars, tableVars, attemptVars
    <3>2. CASE ~Conflict(g)
      BY <2>3, <3>2 DEF RecordsStep, Reserved
    <3> QED
      BY <3>1, <3>2
  <2> QED
    BY <1>5, <2>1, <2>2, <2>3 DEF Schedule
<1>6. CASE Dispatch
  BY <1>6, DispatchOnRecords DEF RecordsStep
<1> QED
  BY <1>2, <1>3, <1>4, <1>5, <1>6, ReconcileOnRecords DEF Next, DaemonStep

-----------------------------------------------------------------------------
(* A job whose deletion is pending is exiting.                             *)
CancelExits == \A j \in Jobs : intent[j].kind = "cancel" => state[j] = "EXITING"

(* At first nothing is deleted.                                            *)
LEMMA CancelExitsInit == Init => CancelExits
BY DEF Init, DaemonInit, CancelExits, NoControl

(* The state of a job that is settled under a cancellation.                *)
LEMMA CancelSettled ==
    ASSUME NEW j, NEW out \in Outcomes \union MadeUp, NEW published, intent[j].kind = "cancel"
    PROVE  Settled(j, out, published) \notin {"QUEUED", "HELD", "STARTING", "RUNNING"}
BY DEF Settled, Outcomes, MadeUp

(* An intent ends with the attempt, and a pending deletion is only left by *)
(* the end of the job (finish, reserve, control).                          *)
LEMMA CancelExitsNext ==
    ASSUME TypeInv, CancelExits, [Next]_vars
    PROVE  /\ CancelExits'
           /\ \A j \in Jobs : intent[j].kind = "cancel" =>
                 state'[j] \notin {"QUEUED", "HELD", "STARTING", "RUNNING"}
<1>1. state \in [Jobs -> States] /\ intent \in [Jobs -> Controls]
  BY DEF TypeInv, TypeOK, DaemonTypeOK
<1>2. CASE Kept
  BY <1>2 DEF Kept, CancelExits
<1>3. CASE Ended
  <2>1. PICK out \in Outcomes \union MadeUp, published \in BOOLEAN : Finish(out, published)
    BY <1>3, EndedFinishes
  <2>2. /\ state' = [state EXCEPT ![job] = Settled(job, out, published)]
        /\ intent' = [intent EXCEPT ![job] = NoControl]
    BY <2>1 DEF Finish
  <2>3. intent[job].kind = "cancel" =>
           Settled(job, out, published) \notin {"QUEUED", "HELD", "STARTING", "RUNNING"}
    BY CancelSettled
  <2> QED
    BY <1>1, <2>2, <2>3 DEF CancelExits, NoControl
<1>4. CASE Requeued
  BY <1>1, <1>4 DEF Requeued, Requeue, CancelExits
<1>5. CASE Reserved
  BY <1>1, <1>5 DEF Reserved, Reserve, CancelExits, NoControl
<1> QED
  BY <1>2, <1>3, <1>4, <1>5, StepOnRecords DEF RecordsStep

(* Only an attempt without a pending control is authorized (reconcile).    *)
LEMMA AuthorizesUndirected ==
    ASSUME TypeInv, [Next]_vars, NEW a \in Attempts, intent[a[1]].kind # "none"
    PROVE  authorized'[a] = authorized[a]
<1>1. authorized \in [Attempts -> BOOLEAN]
  BY DEF TypeInv, TypeOK, DaemonTypeOK
<1>2. CASE UNCHANGED authorized
  BY <1>2
<1>3. CASE Authorize
  BY <1>1, <1>3 DEF Authorize, attemptVars, it
<1>4. CASE StartUp \/ Request \/ DaemonStep
  BY <1>2, <1>3, <1>4, DaemonKeepsExecution DEF Grant, Spawn, attemptVars
<1>5. CASE \E b \in Attempts : RunnerSide(b) /\ UNCHANGED <<daemonVars, faults>>
  BY <1>2, <1>5 DEF daemonVars, attemptVars
<1>6. CASE DaemonDies \/ Reboot \/ (\E b \in Attempts : RunnerDies(b)) \/ UNCHANGED vars
  BY <1>2, <1>6 DEF DaemonDies, Reboot, RunnerDies, vars, daemonVars, attemptVars
<1> QED
  BY <1>4, <1>5, <1>6 DEF Next

(* Once a deletion of an active job is accepted, no step queues, starts or *)
(* authorizes it: the run "recovery" checks it for two attempts.           *)
THEOREM DeletionSticks == Spec => CancelSticks
<1> DEFINE Sticks == \A j \in Jobs : intent[j].kind = "cancel" =>
                        /\ state'[j] \notin {"QUEUED", "HELD", "STARTING", "RUNNING"}
                        /\ \A a \in Attempts : a[1] = j => authorized'[a] = authorized[a]
<1>1. TypeInv /\ CancelExits /\ [Next]_vars => CancelExits' /\ Sticks
  BY CancelExitsNext, AuthorizesUndirected
<1>2. TypeInv /\ CancelExits /\ [Next]_vars => CancelExits' /\ [Sticks]_vars
  BY <1>1
<1>3. Spec => [][Sticks]_vars
  BY <1>2, CancelExitsInit, TypesHold, PTL DEF Spec
<1> QED
  BY <1>3 DEF CancelSticks

-----------------------------------------------------------------------------
(* The table, pair by pair: an attempt has rows for the devices of its job *)
(* while it is the current one of an active job.                           *)
RowInv ==
    \A g \in GPUs : \A a \in Attempts : <<g, a>> \in rows <=> Holds(a) /\ g \in devices[a[1]]

(* At first no device is given away.                                       *)
LEMMA RowInvInit == Init => RowInv
BY DEF Init, DaemonInit, RowInv, Holds, Active, Attempts

(* Giving up the attempt in hand removes its rows and no others.           *)
LEMMA ReleaseKeepsRows ==
    ASSUME TypeInv, RowInv, pc \in InHand, Release(it),
           \A j \in Jobs : j # job => UNCHANGED <<state[j], current[j], devices[j]>>,
           state'[job] \notin Active
    PROVE  RowInv'
<1>1. job \in Jobs /\ state[job] \in Active /\ it \in Attempts
  BY ItIsAttempt
<1> SUFFICES ASSUME NEW g \in GPUs, NEW a \in Attempts
             PROVE  <<g, a>> \in rows' <=> Holds(a)' /\ g \in devices'[a[1]]
  BY DEF RowInv
<1>2. <<g, a>> \in rows' <=> <<g, a>> \in rows /\ a # it
  BY DEF Release
<1>3. a[1] \in Jobs
  BY DEF Attempts
<1>4. CASE a[1] = job
  <2>1. Holds(a) => a = it
    BY <1>4 DEF Holds, it, Attempts
  <2> QED
    BY <1>2, <1>4, <2>1 DEF RowInv, Holds
<1>5. CASE a[1] # job
  BY <1>2, <1>3, <1>5 DEF RowInv, Holds, it
<1> QED
  BY <1>4, <1>5

(* Every step keeps table and records together: what it does to the one it *)
(* does to the other in the same commit (Reserve, finish, reconcile).      *)
LEMMA RowInvNext == TypeInv /\ RowInv /\ [Next]_vars => RowInv'
<1> SUFFICES ASSUME TypeInv, RowInv, [Next]_vars PROVE RowInv'
  OBVIOUS
<1>1. /\ state \in [Jobs -> States] /\ current \in [Jobs -> 0..MaxAttempts]
      /\ count \in [Jobs -> 0..MaxAttempts] /\ devices \in [Jobs -> SUBSET GPUs]
  BY DEF TypeInv, TypeOK, DaemonTypeOK
<1>2. ASSUME pc \in InHand PROVE job \in Jobs
  BY <1>2, ItIsAttempt
<1>3. CASE Kept
  BY <1>3 DEF Kept, RowInv, Holds, Attempts
<1>4. CASE Ended
  <2>1. PICK out \in Outcomes \union MadeUp, published \in BOOLEAN : Finish(out, published)
    BY <1>4, EndedFinishes
  <2>2. Settled(job, out, published) \notin Active
    BY SettledState DEF Outcomes, Active
  <2>3. /\ state' = [state EXCEPT ![job] = Settled(job, out, published)]
        /\ devices' = [devices EXCEPT ![job] = {}] /\ UNCHANGED current
        /\ Release(it) /\ pc \in InHand
    BY <1>4, <2>1, EndedFinishes DEF Finish
  <2>4. state'[job] \notin Active
    BY <1>1, <1>2, <2>2, <2>3
  <2>5. \A j \in Jobs : j # job => UNCHANGED <<state[j], current[j], devices[j]>>
    BY <1>1, <2>3
  <2> QED
    BY <2>3, <2>4, <2>5, ReleaseKeepsRows
<1>5. CASE Requeued
  <2>1. pc \in InHand /\ Release(it) /\ state'[job] \notin Active
    BY <1>1, <1>2, <1>5 DEF Requeued, Requeue, Active, InHand, Passing
  <2>2. \A j \in Jobs : j # job => UNCHANGED <<state[j], current[j], devices[j]>>
    BY <1>1, <1>5 DEF Requeued, Requeue
  <2> QED
    BY <2>1, <2>2, ReleaseKeepsRows
<1>6. CASE Reserved
  <2>0. PICK j \in Jobs : \E g \in Plans(j) : Reserve(j, g) /\ ~Conflict(g)
    BY <1>6 DEF Reserved
  <2>1. PICK g \in Plans(j) : Reserve(j, g) /\ ~Conflict(g)
    BY <2>0
  <2> DEFINE new == <<j, count[j] + 1>>
  <2>2. /\ state[j] = "QUEUED" /\ state' = [state EXCEPT ![j] = "STARTING"]
        /\ current' = [current EXCEPT ![j] = count[j] + 1]
        /\ devices' = [devices EXCEPT ![j] = g]
        /\ rows' = rows \union (g \X {new})
    BY <2>1 DEF Reserve
  <2> SUFFICES ASSUME NEW d \in GPUs, NEW a \in Attempts
               PROVE  <<d, a>> \in rows' <=> Holds(a)' /\ d \in devices'[a[1]]
    BY DEF RowInv
  <2>3. <<d, a>> \in rows' <=> <<d, a>> \in rows \/ (d \in g /\ a = new)
    BY <2>2
  <2>4. CASE a[1] = j
    <3>1. <<d, a>> \notin rows
      BY <2>2, <2>4 DEF RowInv, Holds, Active
    <3>2. Holds(a)' <=> a = new
      BY <1>1, <2>2, <2>4 DEF Holds, Active, Attempts
    <3> QED
      BY <1>1, <2>2, <2>3, <2>4, <3>1, <3>2
  <2>5. CASE a[1] # j
    <3>1. a # new /\ a[1] \in Jobs
      BY <2>5 DEF Attempts
    <3>2. (Holds(a)' <=> Holds(a)) /\ devices'[a[1]] = devices[a[1]]
      BY <1>1, <2>2, <2>5, <3>1 DEF Holds
    <3> QED
      BY <2>3, <3>1, <3>2 DEF RowInv
  <2> QED
    BY <2>4, <2>5
<1> QED
  BY <1>3, <1>4, <1>5, <1>6, StepOnRecords DEF RecordsStep

(* The allocations table and the job records name the same devices: the    *)
(* run "contention" checks it for two jobs.                                *)
THEOREM TableMatchesRecords == Spec => []RowsMatchJobs
<1>1. TypeInv /\ RowInv => RowsMatchJobs
  <2> SUFFICES ASSUME TypeInv, RowInv PROVE RowsMatchJobs
    OBVIOUS
  <2>1. /\ rows \subseteq GPUs \X Attempts /\ devices \in [Jobs -> SUBSET GPUs]
        /\ count \in [Jobs -> 0..MaxAttempts] /\ CurrentIsLast
    BY DEF TypeInv, TypeOK, DaemonTypeOK, LoopInv
  <2> DEFINE held(j) == devices[j] \X {<<j, current[j]>>}
             busy == {k \in Jobs : state[k] \in Active}
  <2>2. ASSUME NEW r \in rows PROVE \E j \in busy : r \in held(j)
    <3>1. PICK g \in GPUs, a \in Attempts : r = <<g, a>>
      BY <2>1, <2>2
    <3>2. Holds(a) /\ g \in devices[a[1]]
      BY <2>2, <3>1 DEF RowInv
    <3>3. a[1] \in busy /\ a = <<a[1], current[a[1]]>>
      BY <3>2 DEF Holds, Attempts
    <3> QED
      BY <3>1, <3>2, <3>3
  <2>3. ASSUME NEW j \in busy, NEW r \in held(j) PROVE r \in rows
    <3>1. PICK g \in devices[j] : r = <<g, <<j, current[j]>>>>
      BY <2>3
    <3>2. <<j, current[j]>> \in Attempts /\ g \in GPUs
      BY <2>1, <2>3, <3>1, MaxAttemptsAssumption DEF CurrentIsLast, Attempts
    <3>3. Holds(<<j, current[j]>>)
      BY <2>3 DEF Holds
    <3> QED
      BY <3>1, <3>2, <3>3 DEF RowInv
  <2> QED
    BY <2>2, <2>3 DEF RowsMatchJobs
<1> QED
  BY <1>1, RowInvInit, RowInvNext, TypesHold, PTL DEF Spec
-----------------------------------------------------------------------------
(* How the loop gets to the points at which it relies on what it has read. *)
LEMMA ReachedBy ==
    ASSUME TypeInv, StartUp \/ Request \/ DaemonStep
    PROVE  /\ pc' = "started" => \E j \in Jobs : ReadRunner(j)
           /\ pc' = "result" => ReadStarted
           /\ pc' = "alive" => ReadResult
           /\ pc' = "abandon" => Revoke
           /\ pc' = "reap" => CheckAlive
           /\ pc' = "publish" => \E j \in Jobs : DeleteActive(j) \/ Rerun(j) \/ DeleteAgain(j)
           /\ pc' = "mkdir" => \E j \in Jobs : \E g \in Plans(j) : Reserve(j, g) /\ ~Conflict(g)
           /\ pc' = "spawn" => MakeDir
<1> USE DEF Continue, Leave, Pass, Answered
<1>0. after \in {"wait", "dispatch", "schedule"}
  BY DEF TypeInv, TypeOK, DaemonTypeOK
<1>1. CASE StartUp \/ Request \/ Wake
  BY <1>1 DEF StartUp, Request, Wake
<1>2. CASE Reconcile
  <2>1. CASE PassDone \/ (\E j \in Jobs : ReadRunner(j)) \/ ReadStarted \/ ReadResult
    BY <1>0, <2>1 DEF PassDone, ReadRunner, ReadStarted, ReadResult
  <2>2. CASE CheckAlive
    BY <2>2 DEF CheckAlive
  <2>3. CASE Collect \/ Republish \/ Authorize \/ Grant \/ Mark
    BY <2>3 DEF Collect, Republish, Authorize, Grant, Mark
  <2>4. CASE Revoke \/ Abandon \/ Reap \/ KillGroup
    BY <2>4 DEF Revoke, Abandon, Reap, KillGroup
  <2> QED
    BY <1>2, <2>1, <2>2, <2>3, <2>4 DEF Reconcile
<1>3. CASE Dispatch
  <2>1. CASE Refuse \/ PublishControl
    BY <2>1 DEF Refuse, PublishControl
  <2>2. ASSUME NEW j \in Jobs, NEW to, DeleteWaiting(j) \/ HoldOrRelease(j, to)
        PROVE  pc' = "pass"
    BY <2>2 DEF DeleteWaiting, HoldOrRelease
  <2>3. ASSUME NEW j \in Jobs, DeleteActive(j) \/ Rerun(j) \/ DeleteAgain(j)
        PROVE  pc' \in {"pass", "publish"}
    BY <2>3 DEF DeleteActive, Rerun, DeleteAgain, Intend
  <2> QED
    BY <1>3, <2>1, <2>2, <2>3 DEF Dispatch
<1>4. CASE Schedule
  <2>1. CASE ScheduleDone \/ MakeDir \/ Spawn \/ SaveRunner \/ LaunchFails
    BY <2>1 DEF ScheduleDone, MakeDir, Spawn, SaveRunner, LaunchFails
  <2>2. ASSUME NEW j \in Jobs, NEW g \in Plans(j), Reserve(j, g)
        PROVE  pc' = "down" \/ (pc' = "mkdir" /\ ~Conflict(g))
    BY <2>2 DEF Reserve
  <2> QED
    BY <1>4, <2>1, <2>2 DEF Schedule
<1> QED
  BY <1>1, <1>2, <1>3, <1>4 DEF DaemonStep

(* Of the files and the runner the daemon changes only these.              *)
LEMMA DaemonOnFiles ==
    ASSUME StartUp \/ Request \/ DaemonStep
    PROVE  /\ UNCHANGED result
           /\ Republish \/ PublishControl \/ Revoke \/ UNCHANGED control
           /\ Republish \/ PublishControl \/ MakeDir \/ UNCHANGED dir
<1> USE DEF OnlyLoop, WriteControl, fileVars
<1>1. CASE StartUp \/ Request \/ Wake
  BY <1>1 DEF StartUp, Request, Wake
<1>2. CASE Reconcile
  <2>1. CASE PassDone \/ (\E j \in Jobs : ReadRunner(j)) \/ ReadStarted \/ ReadResult \/ CheckAlive
    BY <2>1 DEF PassDone, ReadRunner, ReadStarted, ReadResult, CheckAlive
  <2>2. CASE Collect \/ Abandon \/ Reap
    BY <2>2 DEF Collect, Abandon, Reap, Finish, Requeue
  <2>3. CASE Republish \/ Authorize \/ Grant \/ Mark \/ Revoke \/ KillGroup
    BY <2>3 DEF Republish, Authorize, Grant, Mark, Revoke, KillGroup
  <2> QED
    BY <1>2, <2>1, <2>2, <2>3 DEF Reconcile
<1>3. CASE Dispatch
  BY <1>3 DEF Dispatch, Refuse, PublishControl, DeleteWaiting, DeleteActive, DeleteAgain, Rerun, HoldOrRelease
<1>4. CASE Schedule
  BY <1>4 DEF Schedule, ScheduleDone, Reserve, MakeDir, Spawn, SaveRunner, LaunchFails, Finish
<1> QED
  BY <1>1, <1>2, <1>3, <1>4 DEF DaemonStep

-----------------------------------------------------------------------------
(* A runner has a directory and an attempt number that was given out; one  *)
(* that was not spawned yet does not run.                                  *)
Spawned == \A a \in Attempts : runner[a] # "none" => dir[a] /\ a[2] <= count[a[1]]
NotYetSpawned ==
    /\ pc \in {"mkdir", "spawn"} => runner[it] = "none"
    /\ pc = "spawn" => dir[it]
SpawnInv == Spawned /\ NotYetSpawned

(* At first there is no runner.                                            *)
LEMMA SpawnInvInit == Init => SpawnInv
BY DEF Init, RunnerInit, DaemonInit, SpawnInv, Spawned, NotYetSpawned

(* Attempt numbers are only given out, and directories stay.               *)
LEMMA CountAndDirGrow ==
    ASSUME TypeInv, [Next]_vars, NEW a \in Attempts
    PROVE  count[a[1]] <= count'[a[1]] /\ (dir[a] => dir'[a])
<1>1. /\ count \in [Jobs -> 0..MaxAttempts] /\ MaxAttempts \in Nat /\ a[1] \in Jobs
      /\ dir \in [Attempts -> BOOLEAN]
  BY MaxAttemptsAssumption DEF TypeInv, TypeOK, DaemonTypeOK, DirTypeOK, Attempts
<1>2. count[a[1]] \in Int
  BY <1>1
<1>3. count[a[1]] <= count'[a[1]]
  <2>1. CASE UNCHANGED count
    BY <1>2, <2>1
  <2>2. ASSUME NEW j \in Jobs, NEW g \in Plans(j), Reserve(j, g)
        PROVE  count[a[1]] <= count'[a[1]]
    BY <1>1, <1>2, <2>2 DEF Reserve, OnlyLoop, jobVars
  <2>3. CASE StartUp \/ Request \/ Wake \/ Reconcile \/ Dispatch
    BY <2>1, <2>3 DEF StartUp, Request, Wake, Reconcile, PassDone, ReadRunner, ReadStarted, ReadResult,
       CheckAlive, Collect, Abandon, Reap, Finish, Requeue, Republish, Authorize, Grant, Mark, Revoke,
       KillGroup, Dispatch, Refuse, PublishControl, DeleteWaiting, DeleteActive, DeleteAgain, Rerun,
       Intend, HoldOrRelease, OnlyLoop, jobVars
  <2>4. CASE ScheduleDone \/ MakeDir \/ Spawn \/ SaveRunner \/ LaunchFails
    BY <2>1, <2>4 DEF ScheduleDone, MakeDir, Spawn, SaveRunner, LaunchFails, Finish, OnlyLoop, jobVars
  <2>5. CASE (\E b \in Attempts : RunnerSide(b) /\ UNCHANGED <<daemonVars, faults>>)
             \/ DaemonDies \/ Reboot \/ (\E b \in Attempts : RunnerDies(b)) \/ UNCHANGED vars
    BY <2>1, <2>5 DEF DaemonDies, Reboot, RunnerDies, vars, daemonVars, jobVars
  <2> QED
    BY <2>2, <2>3, <2>4, <2>5 DEF Next, DaemonStep, Schedule
<1>4. dir[a] => dir'[a]
  <2>1. CASE UNCHANGED dir
    BY <2>1
  <2>2. CASE Republish \/ PublishControl \/ MakeDir
    BY <1>1, <2>2 DEF Republish, PublishControl, MakeDir
  <2>3. CASE \E b \in Attempts : RunnerSide(b)
    BY <2>1, <2>3 DEF RunnerSide, RunnerStep, WorkloadStep, WalltimePasses, Boot, PollControl,
       PollAuthorization, StartGated, SetupFails, RecordStart, OpenGate, Tick, Stamp, Publish, Notify,
       MainExits, LeftoverExits, fileVars
  <2>4. CASE DaemonDies \/ Reboot \/ (\E b \in Attempts : RunnerDies(b)) \/ UNCHANGED vars
    BY <2>1, <2>4 DEF DaemonDies, Reboot, RunnerDies, vars, fileVars
  <2> QED
    BY <2>1, <2>2, <2>3, <2>4, DaemonOnFiles DEF Next
<1> QED
  BY <1>3, <1>4

(* Only Spawn makes a runner, and nothing brings one back.                 *)
LEMMA OnlySpawnRuns ==
    ASSUME TypeInv, [Next]_vars, NEW a \in Attempts
    PROVE  \/ Spawn /\ a = it
           \/ /\ runner'[a] # "none" => runner[a] # "none"
              /\ RunnerAlive(a)' => RunnerAlive(a)
<1>1. runner \in [Attempts -> Places]
  BY DEF TypeInv, TypeOK, RunnerTypeOK
<1>2. CASE UNCHANGED runner
  BY <1>2 DEF RunnerAlive
<1>3. CASE Spawn
  BY <1>1, <1>3 DEF Spawn, RunnerAlive
<1>4. CASE StartUp \/ Request \/ DaemonStep
  BY <1>2, <1>3, <1>4, DaemonKeepsExecution DEF Authorize, Grant, runnerVars
<1>5. ASSUME NEW b \in Attempts, RunnerStep(b)
      PROVE  /\ RunnerAlive(b)
             /\ \A c \in Attempts : c # b => runner'[c] = runner[c]
  BY <1>1, <1>5 DEF RunnerStep, RunnerAlive, Goto, Boot, PollControl, PollAuthorization, StartGated,
     SetupFails, RecordStart, OpenGate, Tick, Stamp, Publish, Notify
<1>6. ASSUME NEW b \in Attempts, RunnerSide(b)
      PROVE  /\ runner'[a] # "none" => runner[a] # "none"
             /\ RunnerAlive(a)' => RunnerAlive(a)
  <2>1. CASE RunnerStep(b)
    BY <1>5, <2>1 DEF RunnerAlive
  <2>2. CASE WorkloadStep(b) \/ WalltimePasses(b)
    BY <1>2, <2>2 DEF WorkloadStep, MainExits, LeftoverExits, WalltimePasses, RunnerAlive
  <2> QED
    BY <1>6, <2>1, <2>2 DEF RunnerSide
<1>7. ASSUME NEW b \in Attempts, RunnerDies(b)
      PROVE  /\ runner'[a] # "none" => runner[a] # "none"
             /\ RunnerAlive(a)' => RunnerAlive(a)
  BY <1>1, <1>7 DEF RunnerDies, RunnerAlive, Goto
<1>8. CASE DaemonDies \/ Reboot \/ UNCHANGED vars
  BY <1>1, <1>8 DEF DaemonDies, Reboot, RunnerAlive, vars, runnerVars
<1> QED
  BY <1>4, <1>6, <1>7, <1>8 DEF Next

(* The loop keeps its job in hand, or goes to a point reached by reading.  *)
LEMMA OutsideTheLoop ==
    ASSUME [Next]_vars
    PROVE  \/ StartUp \/ Request \/ DaemonStep
           \/ pc' = "down"
           \/ UNCHANGED daemonVars
BY DEF Next, DaemonDies, Reboot, RunnerDies, LoopLost, vars

(* No step breaks SpawnInv: an attempt is new when it is reserved, and the *)
(* directory is made before the runner is (Reserve, launch).               *)
LEMMA SpawnInvNext == TypeInv /\ SpawnInv /\ [Next]_vars => SpawnInv'
<1> SUFFICES ASSUME TypeInv, SpawnInv, [Next]_vars PROVE SpawnInv'
  OBVIOUS
<1>1. /\ count \in [Jobs -> 0..MaxAttempts] /\ MaxAttempts \in Nat /\ current \in [Jobs -> 0..MaxAttempts]
      /\ dir \in [Attempts -> BOOLEAN] /\ CurrentIsLast
  BY MaxAttemptsAssumption DEF TypeInv, TypeOK, LoopInv, DaemonTypeOK, DirTypeOK
<1>2. Spawned'
  <2> SUFFICES ASSUME NEW a \in Attempts, runner'[a] # "none"
               PROVE  dir'[a] /\ a[2] <= count'[a[1]]
    BY DEF Spawned
  <2>1. a[1] \in Jobs /\ a[2] \in Int /\ count[a[1]] \in Int
    BY <1>1 DEF Attempts
  <2>2. CASE runner[a] # "none"
    <3>1. dir'[a] /\ a[2] <= count[a[1]] /\ count[a[1]] <= count'[a[1]]
      BY <2>2, CountAndDirGrow DEF SpawnInv, Spawned
    <3>2. count'[a[1]] \in Int
      <4>1. TypeInv'
        BY TypeInvNext
      <4> QED
        BY <1>1, <2>1, <4>1 DEF TypeInv, TypeOK, DaemonTypeOK
    <3> QED
      BY <2>1, <3>1, <3>2
  <2>3. CASE Spawn /\ a = it
    <3>1. dir[it] /\ job \in Jobs /\ state[job] \in Active
      BY <2>3, ItIsAttempt DEF SpawnInv, NotYetSpawned, Spawn, InHand
    <3>2. current[job] = count[job] /\ UNCHANGED <<dir, count>>
      BY <1>1, <2>3, <3>1 DEF CurrentIsLast, Spawn, fileVars, jobVars
    <3> QED
      BY <2>1, <2>3, <3>1, <3>2 DEF it
  <2> QED
    BY <2>2, <2>3, OnlySpawnRuns
<1>3. NotYetSpawned'
  <2>1. CASE StartUp \/ Request \/ DaemonStep
    <3>1. ASSUME pc' = "mkdir" PROVE runner'[it'] = "none"
      <4>1. PICK j \in Jobs : \E g \in Plans(j) : Reserve(j, g) /\ ~Conflict(g)
        BY <2>1, <3>1, ReachedBy
      <4>2. /\ job' = j /\ current' = [current EXCEPT ![j] = count[j] + 1]
            /\ count[j] < MaxAttempts /\ UNCHANGED runner
        BY <4>1 DEF Reserve, runnerVars
      <4>3. it' = <<j, count[j] + 1>> /\ it' \in Attempts
        BY <1>1, <4>2 DEF it, Attempts
      <4>4. runner[it'] = "none"
        BY <1>1, <4>3 DEF SpawnInv, Spawned
      <4> QED
        BY <4>2, <4>4
    <3>2. ASSUME pc' = "spawn" PROVE runner'[it'] = "none" /\ dir'[it']
      <4>1. MakeDir
        BY <2>1, <3>2, ReachedBy
      <4>2. it \in Attempts /\ it' = it
        BY <4>1, ItIsAttempt DEF MakeDir, Continue, InHand, it, jobVars
      <4> QED
        BY <1>1, <4>1, <4>2 DEF MakeDir, SpawnInv, NotYetSpawned, runnerVars
    <3> QED
      BY <3>1, <3>2 DEF NotYetSpawned
  <2>2. CASE pc' = "down"
    BY <2>2 DEF NotYetSpawned
  <2>3. CASE UNCHANGED daemonVars
    <3>1. it' = it /\ pc' = pc
      BY <2>3 DEF it, daemonVars, jobVars, loopVars
    <3>2. ASSUME pc \in {"mkdir", "spawn"} PROVE runner'[it] = "none" /\ (dir[it] => dir'[it])
      <4>1. it \in Attempts /\ runner[it] = "none"
        BY <3>2, ItIsAttempt DEF InHand, SpawnInv, NotYetSpawned
      <4>2. ~Spawn
        BY <3>1, <3>2 DEF Spawn, Continue
      <4> QED
        BY <4>1, <4>2, OnlySpawnRuns, CountAndDirGrow
    <3> QED
      BY <3>1, <3>2 DEF SpawnInv, NotYetSpawned
  <2> QED
    BY <2>1, <2>2, <2>3, OutsideTheLoop
<1> QED
  BY <1>2, <1>3 DEF SpawnInv

-----------------------------------------------------------------------------
(* What the loop has read of an attempt is good enough for what it does:   *)
(* an authorized runner is known, a known runner is looked at, and one     *)
(* that is given up is not there or has been told.                         *)
KnownOfAuthorized == \A a \in Attempts : authorized[a] => known[a]
SeenInTime ==
    /\ pc \in {"started", "result", "alive"} /\ known[it] => seen.runner
    /\ pc \in {"result", "alive"} /\ seen.started => started[it]
GivenUpTold ==
    /\ pc = "abandon" /\ RunnerAlive(it) => control[it].kind # "none"
    /\ pc = "reap" => ~RunnerAlive(it)
Publishing == pc = "publish" => intent[job].kind # "none"
StartedGranted == \A a \in Attempts : started[a] => granted[a]
AdoptInv == KnownOfAuthorized /\ StartedGranted /\ SeenInTime /\ GivenUpTold /\ Publishing

(* At first nothing is authorized and the loop is at no such point.        *)
LEMMA AdoptInvInit == Init => AdoptInv
BY DEF Init, DirInit, DaemonInit, AdoptInv, KnownOfAuthorized, StartedGranted, SeenInTime, GivenUpTold, Publishing

(* A control that was published may be replaced, but stays a control.      *)
LEMMA ControlStays ==
    ASSUME TypeInv, AdoptInv, [Next]_vars, NEW a \in Attempts, control[a].kind # "none"
    PROVE  control'[a].kind # "none"
<1>1. control \in [Attempts -> Controls]
  BY DEF TypeInv, TypeOK, DirTypeOK
<1>2. CASE UNCHANGED control
  BY <1>2
<1>3. CASE Republish \/ PublishControl
  BY <1>1, <1>3 DEF Republish, PublishControl, WriteControl, AdoptInv, Publishing
<1>4. CASE Revoke
  BY <1>1, <1>4 DEF Revoke, WriteControl, fileVars
<1>5. CASE \E b \in Attempts : RunnerSide(b)
  BY <1>2, <1>5 DEF RunnerSide, RunnerStep, WorkloadStep, WalltimePasses, Boot, PollControl,
     PollAuthorization, StartGated, SetupFails, RecordStart, OpenGate, Tick, Stamp, Publish, Notify,
     MainExits, LeftoverExits, fileVars
<1>6. CASE DaemonDies \/ Reboot \/ (\E b \in Attempts : RunnerDies(b)) \/ UNCHANGED vars
  BY <1>2, <1>6 DEF DaemonDies, Reboot, RunnerDies, vars, fileVars
<1> QED
  BY <1>2, <1>3, <1>4, <1>5, <1>6, DaemonOnFiles DEF Next

(* The record of a workload stays.                                         *)
LEMMA StartedStays ==
    ASSUME TypeInv, [Next]_vars, NEW a \in Attempts, started[a]
    PROVE  started'[a]
<1>1. started \in [Attempts -> BOOLEAN]
  BY DEF TypeInv, TypeOK, DirTypeOK
<1>2. CASE UNCHANGED started
  BY <1>2
<1>3. CASE StartUp \/ Request \/ DaemonStep
  BY <1>2, <1>3, DaemonKeepsExecution DEF Authorize, Grant, Spawn, fileVars
<1>4. CASE \E b \in Attempts : RunnerSide(b)
  BY <1>1, <1>2, <1>4 DEF RunnerSide, RunnerStep, WorkloadStep, WalltimePasses, Boot, PollControl,
     PollAuthorization, StartGated, SetupFails, RecordStart, OpenGate, Tick, Stamp, Publish, Notify,
     MainExits, LeftoverExits, fileVars
<1>5. CASE DaemonDies \/ Reboot \/ (\E b \in Attempts : RunnerDies(b)) \/ UNCHANGED vars
  BY <1>2, <1>5 DEF DaemonDies, Reboot, RunnerDies, vars, fileVars
<1> QED
  BY <1>3, <1>4, <1>5 DEF Next

(* What the attempt rows say of a runner is never withdrawn, and every     *)
(* authorization comes with its identity (reconcile, finish, launch).      *)
LEMMA KnownOfAuthorizedNext ==
    ASSUME TypeInv, KnownOfAuthorized, [Next]_vars
    PROVE  KnownOfAuthorized'
<1>1. known \in [Attempts -> BOOLEAN] /\ authorized \in [Attempts -> BOOLEAN]
  BY DEF TypeInv, TypeOK, DaemonTypeOK
<1>2. CASE UNCHANGED <<known, authorized>>
  BY <1>2 DEF KnownOfAuthorized
<1>3. CASE Authorize
  BY <1>1, <1>3 DEF Authorize, KnownOfAuthorized, attemptVars
<1>4. ASSUME NEW out, NEW published, Finish(out, published)
      PROVE  KnownOfAuthorized'
  BY <1>1, <1>4 DEF Finish, KnownOfAuthorized
<1>5. CASE Mark \/ SaveRunner
  BY <1>1, <1>5 DEF Mark, SaveRunner, KnownOfAuthorized
<1>6. CASE Collect \/ Abandon \/ Reap \/ LaunchFails
  BY <1>2, <1>4, <1>6 DEF Collect, Abandon, Reap, LaunchFails, Requeue, OnlyLoop, attemptVars
<1>7. CASE StartUp \/ Request \/ Wake \/ PassDone \/ (\E j \in Jobs : ReadRunner(j)) \/ ReadStarted
           \/ ReadResult \/ CheckAlive \/ Republish \/ Grant \/ Revoke \/ KillGroup
  BY <1>2, <1>7 DEF StartUp, Request, Wake, PassDone, ReadRunner, ReadStarted, ReadResult, CheckAlive,
     Republish, Grant, Revoke, KillGroup, OnlyLoop, attemptVars
<1>8. CASE Dispatch
  BY <1>2, <1>8 DEF Dispatch, Refuse, PublishControl, DeleteWaiting, DeleteActive, DeleteAgain, Rerun,
     HoldOrRelease, OnlyLoop, attemptVars
<1>9. CASE ScheduleDone \/ MakeDir \/ Spawn \/ (\E j \in Jobs : \E g \in Plans(j) : Reserve(j, g))
  BY <1>2, <1>9 DEF ScheduleDone, MakeDir, Spawn, Reserve, OnlyLoop, attemptVars
<1>10. CASE (\E b \in Attempts : RunnerSide(b) /\ UNCHANGED <<daemonVars, faults>>)
            \/ DaemonDies \/ Reboot \/ (\E b \in Attempts : RunnerDies(b)) \/ UNCHANGED vars
  BY <1>2, <1>10 DEF DaemonDies, Reboot, RunnerDies, vars, daemonVars, attemptVars
<1> QED
  BY <1>3, <1>5, <1>6, <1>7, <1>8, <1>9, <1>10 DEF Next, DaemonStep, Reconcile, Schedule

(* A workload is recorded by a runner that was authorized, and that stays  *)
(* so (execute, Workload).                                                 *)
LEMMA StartedGrantedNext ==
    ASSUME TypeInv, GrantInv, StartedGranted, [Next]_vars
    PROVE  StartedGranted'
<1>1. started \in [Attempts -> BOOLEAN] /\ granted \in [Attempts -> BOOLEAN]
  BY DEF TypeInv, TypeOK, DirTypeOK
<1>2. CASE UNCHANGED <<started, granted>>
  BY <1>2 DEF StartedGranted
<1>3. CASE Grant
  BY <1>1, <1>3 DEF Grant, StartedGranted
<1>4. CASE StartUp \/ Request \/ DaemonStep
  BY <1>2, <1>3, <1>4, DaemonKeepsExecution DEF Authorize, Spawn, fileVars
<1>5. ASSUME NEW b \in Attempts, RecordStart(b)
      PROVE  StartedGranted'
  BY <1>1, <1>5 DEF RecordStart, GrantInv, StartedGranted
<1>6. CASE \E b \in Attempts : RunnerSide(b) /\ ~RecordStart(b)
  BY <1>2, <1>6 DEF RunnerSide, RunnerStep, WorkloadStep, WalltimePasses, Boot, PollControl,
     PollAuthorization, StartGated, SetupFails, OpenGate, Tick, Stamp, Publish, Notify,
     MainExits, LeftoverExits, fileVars
<1>7. CASE DaemonDies \/ Reboot \/ (\E b \in Attempts : RunnerDies(b)) \/ UNCHANGED vars
  BY <1>2, <1>7 DEF DaemonDies, Reboot, RunnerDies, vars, fileVars
<1> QED
  BY <1>4, <1>5, <1>6, <1>7 DEF Next

(* No step breaks AdoptInv.                                                *)
LEMMA AdoptInvNext == TypeInv /\ GrantInv /\ SpawnInv /\ AdoptInv /\ [Next]_vars => AdoptInv'
<1> SUFFICES ASSUME TypeInv, GrantInv, SpawnInv, AdoptInv, [Next]_vars PROVE AdoptInv'
  OBVIOUS
<1> USE DEF Continue
<1>1. KnownOfAuthorized /\ StartedGranted /\ SeenInTime /\ GivenUpTold /\ Publishing
  BY DEF AdoptInv
<1>2. KnownOfAuthorized' /\ StartedGranted'
  BY <1>1, KnownOfAuthorizedNext, StartedGrantedNext
<1>3. CASE StartUp \/ Request \/ DaemonStep
  <2>1. ASSUME pc' \in {"started", "result", "alive"}, known'[it'] PROVE seen'.runner
    <3>1. CASE pc' = "started"
      <4>1. PICK j \in Jobs : ReadRunner(j)
        BY <1>3, <3>1, ReachedBy
      <4> QED
        BY <2>1, <4>1 DEF ReadRunner, OnlyLoop, it, jobVars, attemptVars
    <3>2. CASE pc' = "result"
      <4>1. ReadStarted
        BY <1>3, <3>2, ReachedBy
      <4>2. it' = it /\ known' = known /\ seen'.runner = seen.runner /\ pc = "started"
        BY <4>1 DEF ReadStarted, OnlyLoop, it, jobVars, attemptVars, TypeInv, TypeOK, DaemonTypeOK
      <4> QED
        BY <1>1, <2>1, <4>2 DEF SeenInTime
    <3>3. CASE pc' = "alive"
      <4>1. ReadResult
        BY <1>3, <3>3, ReachedBy
      <4>2. it' = it /\ known' = known /\ seen' = seen /\ pc = "result"
        BY <4>1 DEF ReadResult, OnlyLoop, it, jobVars, attemptVars
      <4> QED
        BY <1>1, <2>1, <4>2 DEF SeenInTime
    <3> QED
      BY <2>1, <3>1, <3>2, <3>3
  <2>2. ASSUME pc' \in {"result", "alive"}, seen'.started PROVE started'[it']
    <3>1. CASE pc' = "result"
      <4>1. ReadStarted
        BY <1>3, <3>1, ReachedBy
      <4>2. it' = it /\ started' = started /\ seen'.started = started[it]
        BY <4>1 DEF ReadStarted, OnlyLoop, it, jobVars, fileVars, TypeInv, TypeOK, DaemonTypeOK
      <4> QED
        BY <2>2, <4>2
    <3>2. CASE pc' = "alive"
      <4>1. ReadResult
        BY <1>3, <3>2, ReachedBy
      <4>2. it' = it /\ started' = started /\ seen' = seen /\ pc = "result"
        BY <4>1 DEF ReadResult, OnlyLoop, it, jobVars, fileVars
      <4> QED
        BY <1>1, <2>2, <4>2 DEF SeenInTime
    <3> QED
      BY <2>2, <3>1, <3>2
  <2>3. ASSUME pc' = "abandon", RunnerAlive(it)' PROVE control'[it'].kind # "none"
    <3>1. Revoke
      BY <1>3, <2>3, ReachedBy
    <3>2. it \in Attempts /\ it' = it /\ runner' = runner
      BY <3>1, ItIsAttempt DEF Revoke, InHand, Passing, it, jobVars, runnerVars
    <3>3. dir[it]
      BY <2>3, <3>2 DEF SpawnInv, Spawned, RunnerAlive
    <3>4. control \in [Attempts -> Controls]
      BY DEF TypeInv, TypeOK, DirTypeOK
    <3> QED
      BY <3>1, <3>2, <3>3, <3>4 DEF Revoke, WriteControl
  <2>4. ASSUME pc' = "reap" PROVE ~RunnerAlive(it)'
    <3>1. CheckAlive
      BY <1>3, <2>4, ReachedBy
    <3>2. it \in Attempts /\ it' = it /\ runner' = runner /\ pc = "alive"
      BY <3>1, ItIsAttempt DEF CheckAlive, OnlyLoop, InHand, Passing, it, jobVars, runnerVars
    <3>3. ~(seen.runner /\ RunnerAlive(it)) /\ (authorized[it] \/ seen.started)
      BY <2>4, <3>1 DEF CheckAlive
    <3>4. authorized[it]
      BY <1>1, <3>2, <3>3 DEF SeenInTime, StartedGranted, GrantInv
    <3>5. seen.runner
      BY <1>1, <3>2, <3>4 DEF SeenInTime, KnownOfAuthorized
    <3> QED
      BY <3>2, <3>3, <3>5 DEF RunnerAlive
  <2>5. ASSUME pc' = "publish" PROVE intent'[job'].kind # "none"
    <3>1. PICK j \in Jobs : DeleteActive(j) \/ Rerun(j) \/ DeleteAgain(j)
      BY <1>3, <2>5, ReachedBy
    <3>2. intent \in [Jobs -> Controls]
      BY DEF TypeInv, TypeOK, DaemonTypeOK
    <3> QED
      BY <2>5, <3>1, <3>2 DEF DeleteActive, Rerun, DeleteAgain, Intend, Answered, Pass, jobVars
  <2> QED
    BY <1>2, <2>1, <2>2, <2>3, <2>4, <2>5 DEF AdoptInv, SeenInTime, GivenUpTold, Publishing
<1>4. CASE pc' = "down"
  BY <1>2, <1>4 DEF AdoptInv, SeenInTime, GivenUpTold, Publishing
<1>5. CASE UNCHANGED daemonVars
  <2>1. /\ it' = it /\ pc' = pc /\ job' = job /\ seen' = seen
        /\ known' = known /\ intent' = intent
    BY <1>5 DEF it, daemonVars, jobVars, loopVars, attemptVars
  <2>2. pc \in InHand => it \in Attempts
    BY ItIsAttempt
  <2>3. SeenInTime'
    BY <1>1, <2>1, <2>2, StartedStays DEF SeenInTime, InHand, Passing
  <2>4. ASSUME pc \in {"abandon", "reap"}, RunnerAlive(it)' PROVE it \in Attempts /\ RunnerAlive(it)
    <3>1. ~Spawn /\ it \in Attempts
      BY <2>1, <2>2, <2>4 DEF Spawn, InHand, Passing
    <3>2. \A a \in Attempts : RunnerAlive(a)' => RunnerAlive(a)
      BY <3>1, OnlySpawnRuns
    <3> QED
      BY <2>1, <2>4, <3>1, <3>2 DEF RunnerAlive
  <2>5. GivenUpTold'
    BY <1>1, <2>1, <2>4, ControlStays DEF GivenUpTold
  <2> QED
    BY <1>1, <1>2, <2>1, <2>3, <2>5 DEF AdoptInv, Publishing
<1> QED
  BY <1>3, <1>4, <1>5, OutsideTheLoop

-----------------------------------------------------------------------------
(* An attempt is given up only while the loop has it in hand, by a step    *)
(* that touches no file and no runner.                                     *)
LEMMA GivenUpInHand ==
    ASSUME TypeInv, [Next]_vars, NEW a \in Attempts, Holds(a), ~Holds(a)'
    PROVE  a = it /\ (Ended \/ Requeued) /\ UNCHANGED <<fileVars, runnerVars>>
<1>1. /\ state \in [Jobs -> States] /\ current \in [Jobs -> 0..MaxAttempts] /\ a[1] \in Jobs
  BY DEF TypeInv, TypeOK, DaemonTypeOK, Attempts
<1>2. ~Kept
  BY <1>1 DEF Kept, Holds
<1>3. ASSUME Reserved PROVE FALSE
  BY <1>1, <1>3 DEF Reserved, Reserve, Holds, Active
<1>4. Ended \/ Requeued
  BY <1>2, <1>3, StepOnRecords DEF RecordsStep
<1>5. UNCHANGED <<fileVars, runnerVars>> /\ \A j \in Jobs : j # job => UNCHANGED <<state[j], current[j]>>
  BY <1>1, <1>4, EndedFinishes DEF Finish, Requeued, Requeue
<1>6. a[1] = job /\ a[2] = current[job]
  BY <1>1, <1>5 DEF Holds
<1> QED
  BY <1>4, <1>5, <1>6 DEF it, Attempts

(* The attempt in hand is the one that holds.                              *)
LEMMA InHandHolds ==
    ASSUME TypeInv, pc \in InHand
    PROVE  it \in Attempts /\ Holds(it)
BY ItIsAttempt DEF Holds, it

(* A stamped runner that is alive stays stamped.                           *)
LEMMA StampedStays ==
    ASSUME TypeInv, SpawnInv, [Next]_vars, NEW a \in Attempts, Stamped(a), RunnerAlive(a)'
    PROVE  Stamped(a)'
<1>1. /\ runner \in [Attempts -> Places] /\ result \in [Attempts -> Outcomes \union {"none"}]
      /\ ResultKnown
  BY DEF TypeInv, TypeOK, LoopInv, DirTypeOK, RunnerTypeOK
<1>2. CASE UNCHANGED <<runner, result>>
  BY <1>2 DEF Stamped
<1>3. CASE Spawn
  <2>1. it \in Attempts /\ runner[it] = "none"
    BY <1>3, ItIsAttempt DEF Spawn, InHand, SpawnInv, NotYetSpawned
  <2> QED
    BY <1>1, <1>3, <2>1 DEF Spawn, Stamped, fileVars
<1>4. CASE StartUp \/ Request \/ DaemonStep
  BY <1>2, <1>3, <1>4, DaemonKeepsExecution, DaemonOnFiles DEF Authorize, Grant, runnerVars
<1>5. ASSUME NEW b \in Attempts, Publish(b) \/ Notify(b)
      PROVE  Stamped(a)'
  BY <1>1, <1>5 DEF Publish, Notify, Goto, Stamped, ResultKnown, fileVars
<1>6. ASSUME NEW b \in Attempts,
             Boot(b) \/ PollControl(b) \/ PollAuthorization(b) \/ StartGated(b) \/ SetupFails(b)
             \/ RecordStart(b) \/ OpenGate(b) \/ Tick(b) \/ Stamp(b)
      PROVE  Stamped(a)'
  <2>1. /\ \A c \in Attempts : c # b => runner'[c] = runner[c]
        /\ UNCHANGED result /\ runner[b] \notin {"publish", "notify", "exited"}
    BY <1>1, <1>6 DEF Boot, PollControl, PollAuthorization, StartGated, SetupFails, RecordStart,
       OpenGate, Tick, Stamp, Goto, fileVars
  <2> QED
    BY <2>1 DEF Stamped
<1>7. ASSUME NEW b \in Attempts, WorkloadStep(b) \/ WalltimePasses(b)
      PROVE  Stamped(a)'
  BY <1>2, <1>7 DEF WorkloadStep, MainExits, LeftoverExits, WalltimePasses, fileVars
<1>8. CASE DaemonDies \/ Reboot \/ (\E b \in Attempts : RunnerDies(b)) \/ UNCHANGED vars
  BY <1>1, <1>2, <1>8 DEF DaemonDies, Reboot, RunnerDies, Goto, Stamped, RunnerAlive, vars, fileVars, runnerVars
<1> QED
  BY <1>4, <1>5, <1>6, <1>7, <1>8 DEF Next, RunnerSide, RunnerStep

(* At first there is no runner.                                            *)
LEMMA RevokedInit == Init => SupersededRunnerRevoked
BY DEF Init, RunnerInit, SupersededRunnerRevoked, RunnerAlive

(* No step gives up a live runner that has neither been told nor finished. *)
LEMMA RevokedNext ==
    ASSUME TypeInv, SpawnInv, AdoptInv, SupersededRunnerRevoked, [Next]_vars
    PROVE  SupersededRunnerRevoked'
<1> SUFFICES ASSUME NEW a \in Attempts, RunnerAlive(a)', ~Holds(a)'
             PROVE  control'[a].kind # "none" \/ Stamped(a)'
  BY DEF SupersededRunnerRevoked
<1>1. control[a].kind # "none" => control'[a].kind # "none"
  BY ControlStays
<1>2. Stamped(a) => Stamped(a)'
  BY StampedStays
<1>3. CASE Spawn /\ a = it
  <2>1. Holds(a) /\ UNCHANGED <<state, current>>
    BY <1>3, InHandHolds DEF Spawn, InHand, jobVars
  <2> QED
    BY <2>1 DEF Holds
<1>4. CASE RunnerAlive(a) /\ ~Holds(a)
  BY <1>1, <1>2, <1>4 DEF SupersededRunnerRevoked
<1>5. CASE RunnerAlive(a) /\ Holds(a)
  <2>1. a = it /\ (Ended \/ Requeued)
    BY <1>5, GivenUpInHand
  <2>2. CASE pc = "collect"
    BY <1>2, <2>1, <2>2 DEF TypeInv, LoopInv, ResultKnown, Stamped
  <2>3. CASE pc = "abandon"
    BY <1>1, <1>5, <2>1, <2>3 DEF AdoptInv, GivenUpTold
  <2>4. CASE pc \in {"reap", "mkdir", "spawn"}
    BY <1>5, <2>1, <2>4 DEF AdoptInv, GivenUpTold, SpawnInv, NotYetSpawned, RunnerAlive
  <2> QED
    BY <2>1, <2>2, <2>3, <2>4 DEF Ended, Requeued
<1> QED
  BY <1>3, <1>4, <1>5, OnlySpawnRuns

(* A runner whose attempt was given up has been told so or has its result  *)
(* out: the run "recovery" checks it for two attempts and one fault.       *)
THEOREM GivenUpRunnersAreRevoked == Spec => []SupersededRunnerRevoked
<1> DEFINE Inv == GrantInv /\ SpawnInv /\ AdoptInv /\ SupersededRunnerRevoked
<1>1. Init => Inv
  BY GrantInvInit, SpawnInvInit, AdoptInvInit, RevokedInit
<1>2. TypeInv /\ Inv /\ [Next]_vars => Inv'
  BY GrantInvNext, SpawnInvNext, AdoptInvNext, RevokedNext
<1>3. Inv => SupersededRunnerRevoked
  OBVIOUS
<1> HIDE DEF Inv
<1> QED
  BY <1>1, <1>2, <1>3, TypesHold, PTL DEF Spec

-----------------------------------------------------------------------------
(* What executes has a runner that watches it, or has lost it; a result is *)
(* published only when nothing executes any more; and a runner on its way  *)
(* to the workload, once authorized, has the reservation.                  *)
Working == {"boot", "control", "auth", "setup", "record", "gate", "watch"}

Watched == \A a \in Attempts : Executing(a) => runner[a] \in {"watch", "dead"}
ResultLast ==
    \A a \in Attempts : result[a] # "none" => runner[a] \in {"notify", "exited", "dead"} /\ ~Executing(a)
PlaceInv == Watched /\ ResultLast
HoldInv == \A a \in Attempts : granted[a] /\ runner[a] \in Working => Holds(a)

(* At first there is neither a runner nor a workload.                      *)
LEMMA PlaceAndHoldInit == Init => PlaceInv /\ HoldInv /\ ReleasedOnlyWhenGoneOrUnseen
BY DEF Init, DirInit, RunnerInit, PlaceInv, Watched, ResultLast, HoldInv, ReleasedOnlyWhenGoneOrUnseen, Executing

(* A script starts to execute only when its runner opens the gate.         *)
LEMMA OnlyTheGateExecutes ==
    ASSUME TypeInv, [Next]_vars, NEW a \in Attempts, Executing(a)'
    PROVE  Executing(a) \/ (OpenGate(a) /\ UNCHANGED daemonVars)
<1>1. workload \in [Attempts -> Groups]
  BY DEF TypeInv, TypeOK, RunnerTypeOK
<1>2. CASE UNCHANGED workload
  BY <1>2 DEF Executing
<1>3. CASE StartUp \/ Request \/ DaemonStep
  BY <1>2, <1>3, DaemonKeepsExecution DEF Authorize, Grant, Spawn, runnerVars
<1>4. ASSUME NEW b \in Attempts, OpenGate(b), UNCHANGED daemonVars
      PROVE  Executing(a) \/ (OpenGate(a) /\ UNCHANGED daemonVars)
  BY <1>1, <1>4 DEF OpenGate, Executing
<1>5. ASSUME NEW b \in Attempts, StartGated(b) \/ SetupFails(b) \/ MainExits(b) \/ LeftoverExits(b)
      PROVE  Executing(a)
  BY <1>1, <1>5 DEF StartGated, SetupFails, MainExits, LeftoverExits, Executing
<1>6. ASSUME NEW b \in Attempts,
             Boot(b) \/ PollControl(b) \/ PollAuthorization(b) \/ RecordStart(b) \/ Tick(b) \/ Stamp(b)
             \/ Publish(b) \/ Notify(b) \/ WalltimePasses(b)
      PROVE  UNCHANGED workload
  BY <1>6 DEF Boot, PollControl, PollAuthorization, RecordStart, Tick, Stamp, Publish, Notify, WalltimePasses
<1>7. CASE DaemonDies \/ Reboot \/ (\E b \in Attempts : RunnerDies(b)) \/ UNCHANGED vars
  BY <1>1, <1>2, <1>7 DEF DaemonDies, Reboot, RunnerDies, Executing, vars, runnerVars
<1> QED
  BY <1>2, <1>3, <1>4, <1>5, <1>6, <1>7 DEF Next, RunnerSide, RunnerStep, WorkloadStep

(* No step breaks PlaceInv: the runner leaves the supervision loop only    *)
(* when main process and group are gone (Workload, Run).                   *)
LEMMA PlaceInvNext == TypeInv /\ SpawnInv /\ PlaceInv /\ [Next]_vars => PlaceInv'
<1> SUFFICES ASSUME TypeInv, SpawnInv, PlaceInv, [Next]_vars PROVE PlaceInv'
  OBVIOUS
<1> USE DEF PlaceInv, Watched, ResultLast
<1>1. /\ runner \in [Attempts -> Places] /\ result \in [Attempts -> Outcomes \union {"none"}]
      /\ workload \in [Attempts -> Groups]
  BY DEF TypeInv, TypeOK, DirTypeOK, RunnerTypeOK
<1>2. CASE UNCHANGED <<runner, result, workload>>
  BY <1>2 DEF Executing
<1>3. CASE Spawn
  <2>1. it \in Attempts /\ runner[it] = "none"
    BY <1>3, ItIsAttempt DEF Spawn, InHand, SpawnInv, NotYetSpawned
  <2> QED
    BY <1>1, <1>3, <2>1 DEF Spawn, Executing, fileVars
<1>4. CASE StartUp \/ Request \/ DaemonStep
  BY <1>2, <1>3, <1>4, DaemonKeepsExecution, DaemonOnFiles DEF Authorize, Grant, runnerVars
<1>5. ASSUME NEW b \in Attempts, Boot(b) \/ PollControl(b) \/ PollAuthorization(b) \/ RecordStart(b)
      PROVE  PlaceInv'
  BY <1>1, <1>5 DEF Boot, PollControl, PollAuthorization, RecordStart, Goto, Executing, fileVars
<1>6. ASSUME NEW b \in Attempts, StartGated(b) \/ SetupFails(b) \/ OpenGate(b)
      PROVE  PlaceInv'
  BY <1>1, <1>6 DEF StartGated, SetupFails, OpenGate, Goto, Executing, fileVars
<1>7. ASSUME NEW b \in Attempts, Tick(b) \/ Stamp(b) \/ Publish(b) \/ Notify(b)
      PROVE  PlaceInv'
  BY <1>1, <1>7 DEF Tick, Stamp, Publish, Notify, Goto, Executing, fileVars
<1>8. ASSUME NEW b \in Attempts, WorkloadStep(b) \/ WalltimePasses(b)
      PROVE  PlaceInv'
  BY <1>1, <1>8 DEF WorkloadStep, MainExits, LeftoverExits, WalltimePasses, Executing, fileVars
<1>9. ASSUME NEW b \in Attempts, RunnerDies(b)
      PROVE  PlaceInv'
  BY <1>1, <1>9 DEF RunnerDies, Goto, Executing, fileVars
<1>10. CASE DaemonDies \/ Reboot \/ UNCHANGED vars
  BY <1>1, <1>2, <1>10 DEF DaemonDies, Reboot, Executing, RunnerAlive, vars, fileVars, runnerVars
<1> QED
  BY <1>4, <1>5, <1>6, <1>7, <1>8, <1>9, <1>10 DEF Next, RunnerSide, RunnerStep

(* A runner at work was at work before, or has just been spawned; what     *)
(* authorizes it is published by Grant alone.                              *)
LEMMA AtWorkBefore ==
    ASSUME TypeInv, [Next]_vars, NEW a \in Attempts
    PROVE  /\ runner'[a] \in Working => runner[a] \in Working \/ (Spawn /\ a = it)
           /\ granted'[a] => granted[a] \/ (Grant /\ a = it)
<1>1. runner \in [Attempts -> Places] /\ granted \in [Attempts -> BOOLEAN]
  BY DEF TypeInv, TypeOK, DirTypeOK, RunnerTypeOK
<1>2. CASE UNCHANGED <<runner, granted>>
  BY <1>2
<1>3. CASE Spawn \/ Grant
  BY <1>1, <1>3 DEF Spawn, Grant, fileVars, runnerVars
<1>4. CASE StartUp \/ Request \/ DaemonStep
  BY <1>2, <1>3, <1>4, DaemonKeepsExecution DEF Authorize, fileVars, runnerVars
<1>5. ASSUME NEW b \in Attempts, RunnerStep(b)
      PROVE  UNCHANGED granted /\ (runner'[a] \in Working => runner[a] \in Working)
  BY <1>1, <1>5 DEF RunnerStep, Boot, PollControl, PollAuthorization, StartGated, SetupFails,
     RecordStart, OpenGate, Tick, Stamp, Publish, Notify, Goto, Working, fileVars
<1>6. ASSUME NEW b \in Attempts, WorkloadStep(b) \/ WalltimePasses(b)
      PROVE  UNCHANGED <<runner, granted>>
  BY <1>6 DEF WorkloadStep, MainExits, LeftoverExits, WalltimePasses, fileVars
<1>7. CASE DaemonDies \/ Reboot \/ (\E b \in Attempts : RunnerDies(b)) \/ UNCHANGED vars
  BY <1>1, <1>2, <1>7 DEF DaemonDies, Reboot, RunnerDies, Goto, Working, RunnerAlive, vars, fileVars, runnerVars
<1> QED
  BY <1>2, <1>4, <1>5, <1>6, <1>7 DEF Next, RunnerSide

(* No step breaks HoldInv: an attempt is given up only before it is        *)
(* authorized or after its runner is through (reconcile, finish).          *)
LEMMA HoldInvNext ==
    TypeInv /\ GrantInv /\ RepeatInv /\ SpawnInv /\ AdoptInv /\ PlaceInv /\ HoldInv /\ [Next]_vars => HoldInv'
<1> SUFFICES ASSUME TypeInv, GrantInv, RepeatInv, SpawnInv, AdoptInv, PlaceInv, HoldInv, [Next]_vars,
                    NEW a \in Attempts, granted'[a], runner'[a] \in Working, ~Holds(a)'
             PROVE  FALSE
  BY DEF HoldInv
<1>1. CASE Spawn /\ a = it
  <2>1. Holds(a) /\ UNCHANGED <<state, current>>
    BY <1>1, InHandHolds DEF Spawn, InHand, jobVars
  <2> QED
    BY <2>1 DEF Holds
<1>2. CASE Grant /\ a = it
  <2>1. Holds(a) /\ UNCHANGED <<state, current>>
    BY <1>2, InHandHolds DEF Grant, InHand, Passing, jobVars
  <2> QED
    BY <2>1 DEF Holds
<1>3. CASE granted[a] /\ runner[a] \in Working
  <2>1. a = it /\ (Ended \/ Requeued)
    BY <1>3, GivenUpInHand DEF HoldInv
  <2>2. CASE pc = "collect"
    BY <1>3, <2>1, <2>2 DEF TypeInv, LoopInv, ResultKnown, PlaceInv, ResultLast, Working
  <2>3. CASE pc = "abandon"
    BY <1>3, <2>1, <2>3 DEF RepeatInv, GivenUpUnauthorized, GrantInv
  <2>4. CASE pc = "reap"
    BY <1>3, <2>1, <2>4 DEF AdoptInv, GivenUpTold, RunnerAlive, Working
  <2>5. CASE pc \in {"mkdir", "spawn"}
    BY <1>3, <2>1, <2>5 DEF SpawnInv, NotYetSpawned, Working
  <2> QED
    BY <2>1, <2>2, <2>3, <2>4, <2>5 DEF Ended, Requeued
<1> QED
  BY <1>1, <1>2, <1>3, AtWorkBefore

(* The result of an attempt is written only when it is given up.           *)
LEMMA SavedStays ==
    ASSUME TypeInv, [Next]_vars, NEW a \in Attempts, ~Holds(a)
    PROVE  saved'[a] = saved[a]
<1>1. saved \in [Attempts -> Outcomes \union MadeUp \union {"none"}]
  BY DEF TypeInv, TypeOK, DaemonTypeOK
<1>2. CASE Ended
  <2>1. a # it
    BY <1>2, EndedFinishes, InHandHolds
  <2> QED
    BY <1>1, <1>2, <2>1, EndedFinishes DEF Finish
<1> QED
  BY <1>2, StepOnRecords DEF RecordsStep, Kept, Requeued, Requeue, Reserved, Reserve, attemptVars

(* No step releases the devices of what executes under a runner, or of     *)
(* what it calls LostRunner.                                               *)
LEMMA ReleasedNext ==
    ASSUME TypeInv, GrantInv, RepeatInv, SpawnInv, AdoptInv, PlaceInv, HoldInv,
           ReleasedOnlyWhenGoneOrUnseen, [Next]_vars
    PROVE  ReleasedOnlyWhenGoneOrUnseen'
<1> SUFFICES ASSUME NEW a \in Attempts, Executing(a)', ~Holds(a)'
             PROVE  runner'[a] = "dead" /\ saved'[a] # "LostRunner"
  BY DEF ReleasedOnlyWhenGoneOrUnseen
<1>1. CASE OpenGate(a) /\ UNCHANGED daemonVars
  <2>1. Holds(a)
    BY <1>1 DEF OpenGate, GrantInv, HoldInv, Working
  <2> QED
    BY <1>1, <2>1 DEF Holds, daemonVars, jobVars
<1>2. CASE Executing(a) /\ ~Holds(a)
  <2>1. runner[a] = "dead" /\ saved[a] # "LostRunner" /\ saved'[a] = saved[a]
    BY <1>2, SavedStays DEF ReleasedOnlyWhenGoneOrUnseen
  <2>2. runner'[a] \in {"watch", "dead"}
    BY PlaceInvNext DEF PlaceInv, Watched
  <2>3. ~RunnerAlive(a)'
    <3>1. ~(Spawn /\ a = it)
      BY <1>2, InHandHolds DEF Spawn, InHand
    <3> QED
      BY <2>1, <3>1, OnlySpawnRuns DEF RunnerAlive
  <2> QED
    BY <2>1, <2>2, <2>3 DEF RunnerAlive
<1>3. CASE Executing(a) /\ Holds(a)
  <2>1. a = it /\ (Ended \/ Requeued) /\ runner' = runner
    BY <1>3, GivenUpInHand DEF runnerVars
  <2>2. pc # "collect"
    BY <1>3, <2>1 DEF TypeInv, LoopInv, ResultKnown, PlaceInv, ResultLast
  <2>3. pc # "abandon"
    BY <1>3, <2>1 DEF RepeatInv, GivenUpUnauthorized, GrantInv, Executing
  <2>4. pc \notin {"mkdir", "spawn"}
    BY <1>3, <2>1 DEF SpawnInv, NotYetSpawned, PlaceInv, Watched
  <2>5. pc = "reap" /\ WorkloadGone
        /\ Finish(IF seen.started THEN "LostRunner" ELSE "UnknownExecution", FALSE)
    BY <2>1, <2>2, <2>3, <2>4 DEF Ended, Requeued
  <2>6. runner'[a] = "dead"
    BY <1>3, <2>1, <2>5 DEF AdoptInv, GivenUpTold, PlaceInv, Watched, RunnerAlive
  <2>7. Finish("UnknownExecution", FALSE)
    BY <1>3, <2>1, <2>5 DEF WorkloadGone, GroupAlive, Executing
  <2>8. saved'[a] # "LostRunner"
    BY <2>1, <2>7 DEF Finish, TypeInv, TypeOK, DaemonTypeOK
  <2> QED
    BY <2>6, <2>8
<1> QED
  BY <1>1, <1>2, <1>3, OnlyTheGateExecutes

(* Devices are released only when nothing of the script executes, or when  *)
(* its runner was lost and the daemon does not claim to know: the run      *)
(* "recovery" checks it for two attempts and one fault.                    *)
THEOREM ReleaseIsSafe == Spec => []ReleasedOnlyWhenGoneOrUnseen
<1> DEFINE Inv == /\ GrantInv /\ RepeatInv /\ SpawnInv /\ AdoptInv /\ PlaceInv /\ HoldInv
                  /\ ReleasedOnlyWhenGoneOrUnseen
<1>1. Init => Inv
  BY GrantInvInit, RepeatInvInit, SpawnInvInit, AdoptInvInit, PlaceAndHoldInit
<1>2. TypeInv /\ Inv /\ [Next]_vars => Inv'
  BY GrantInvNext, RepeatInvNext, SpawnInvNext, AdoptInvNext, PlaceInvNext, HoldInvNext, ReleasedNext
<1>3. Inv => ReleasedOnlyWhenGoneOrUnseen
  OBVIOUS
<1> HIDE DEF Inv
<1> QED
  BY <1>1, <1>2, <1>3, TypesHold, PTL DEF Spec
=============================================================================
