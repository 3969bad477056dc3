------------------------------ MODULE HooksProofs -----------------------------
(***************************************************************************)
(* Theorems about Hooks: a hook is executed at most once and what is       *)
(* recorded of it is true, for any number of attempts and any number of    *)
(* crashes of the daemon and of supervisors.                               *)
(***************************************************************************)
EXTENDS Hooks, TLAPS

-----------------------------------------------------------------------------
(* Where the supervisor is and what became of the hook it was started for. *)
NotYet == {"none", "boot", "control", "auth", "setup"}
Placed ==
    \A a \in Attempts :
        /\ runner[a] \in NotYet => workload[a] = "none"
        /\ runner[a] \in {"record", "gate"} => workload[a] = "gated"
        /\ runner[a] \in {"stamp", "publish"} => outcome[a] # "none"
Published ==
    \A a \in Attempts :
        /\ runner[a] \in {"notify", "exited"} => result[a] # "none"
        /\ result[a] # "none" => runner[a] \in {"notify", "exited", "dead"}
CountedOnce == \A a \in Attempts : runs[a] = IF Executed(a) THEN 1 ELSE 0

(* The claim comes before the supervisor, and after the attempt.           *)
ClaimFirst ==
    \A a \in Attempts :
        /\ hookState[a] \in {"", "LaunchFailed"} => runner[a] = "none"
        /\ hookState[a] # "" => a \in completed
InLaunch ==
    /\ pc \in {"authorize", "claim"} => cur \in completed /\ hookState[cur] = ""
    /\ pc = "spawn" => cur \in completed /\ hookState[cur] = "claimed" /\ runner[cur] = "none"

HookInv == TypeOK /\ Placed /\ Published /\ CountedOnce /\ ClaimFirst /\ InLaunch /\ RecordTrue

USE DEF fileVars, runnerVars, daemonVars

(* Nothing has ended, nothing was started.                                 *)
LEMMA HookInvInit == Init => HookInv
<1> SUFFICES ASSUME Init PROVE HookInv
  OBVIOUS
<1>1. DirTypeOK
  BY DEF Init, DirInit, DirTypeOK, Controls, NoControl, Kinds
<1>2. RunnerTypeOK
  BY DEF Init, RunnerInit, RunnerTypeOK, Places, Causes, Groups
<1>3. TypeOK
  <2>1. 0 \in 0..MaxFaults /\ 0 \in 0..1 /\ 0 \in Nat
    BY MaxFaultsAssumption
  <2>2. faults \in 0..MaxFaults /\ events \in [Attempts -> 0..1] /\ runs \in [Attempts -> Nat]
    BY <2>1, Zenon DEF Init
  <2>3. /\ completed \subseteq Attempts /\ todo \subseteq completed
        /\ hookState \in [Attempts -> Recorded \union {"", "claimed"}]
    BY DEF Init
  <2>4. /\ pc \in {"down", "idle", "scan", "authorize", "claim", "spawn"}
        /\ cur \in Attempts \union {NoAttempt} /\ enabled \in BOOLEAN
    BY Zenon DEF Init
  <2> QED
    BY <1>1, <1>2, <2>2, <2>3, <2>4 DEF TypeOK
<1>4. Placed /\ Published /\ CountedOnce
  BY DEF Init, RunnerInit, DirInit, Placed, Published, CountedOnce, NotYet, Executed
<1>5. ClaimFirst /\ InLaunch /\ RecordTrue
  BY DEF Init, RunnerInit, ClaimFirst, InLaunch, RecordTrue, Recorded, Outcomes
<1> QED
  BY <1>3, <1>4, <1>5 DEF HookInv

(* What a step of a supervisor, its hook or the clock may do to a.         *)
Moves(a) ==
    /\ runner'[a] \in NotYet => workload'[a] = "none"
    /\ runner'[a] \in {"record", "gate"} => workload'[a] = "gated"
    /\ runner'[a] \in {"stamp", "publish"} => outcome'[a] # "none"
    /\ runner'[a] \in {"notify", "exited"} => result'[a] # "none"
    /\ result'[a] # "none" => runner'[a] \in {"notify", "exited", "dead"}
    /\ runner'[a] = "none" <=> runner[a] = "none"
    /\ runner'[a] = "dead" => runner[a] = "dead"
    /\ result[a] # "none" => result'[a] = result[a]
    /\ Executed(a) => Executed(a)'
    /\ Executed(a)' /\ ~Executed(a) <=> workload[a] = "gated" /\ workload'[a] = "running"
StaysAt(b) ==
    runner'[b] = runner[b] /\ outcome'[b] = outcome[b] /\ result'[b] = result[b] /\ workload'[b] = workload[b]

LEMMA SupervisorMoves ==
    ASSUME TypeOK, Placed, Published, NEW a \in Attempts,
           RunnerStep(a) \/ WorkloadStep(a) \/ WalltimePasses(a)
    PROVE  DirTypeOK' /\ RunnerTypeOK' /\ Moves(a) /\ \A b \in Attempts \ {a} : StaysAt(b)
<1> USE DEF Goto, StaysAt, Moves, Executed
<1>1. DirTypeOK /\ RunnerTypeOK
  BY DEF TypeOK
<1>2. /\ runner[a] \in NotYet => workload[a] = "none"
      /\ runner[a] \in {"record", "gate"} => workload[a] = "gated"
      /\ runner[a] \in {"stamp", "publish"} => outcome[a] # "none"
      /\ runner[a] \in {"notify", "exited"} => result[a] # "none"
      /\ result[a] # "none" => runner[a] \in {"notify", "exited", "dead"}
  BY DEF Placed, Published
<1> USE DEF NotYet
<1>3. CASE Boot(a)
  BY <1>1, <1>2, <1>3 DEF Boot, DirTypeOK, RunnerTypeOK, Places
<1>4. CASE PollControl(a)
  BY <1>1, <1>2, <1>4 DEF PollControl, DirTypeOK, RunnerTypeOK, Places, Outcomes
<1>5. CASE PollAuthorization(a)
  BY <1>1, <1>2, <1>5 DEF PollAuthorization, DirTypeOK, RunnerTypeOK, Places
<1>6. CASE StartGated(a)
  BY <1>1, <1>2, <1>6 DEF StartGated, DirTypeOK, RunnerTypeOK, Places, Groups
<1>7. CASE SetupFails(a)
  BY <1>1, <1>2, <1>7 DEF SetupFails, DirTypeOK, RunnerTypeOK, Places, Groups, Outcomes
<1>8. CASE RecordStart(a)
  BY <1>1, <1>2, <1>8 DEF RecordStart, DirTypeOK, RunnerTypeOK, Places
<1>9. CASE OpenGate(a)
  BY <1>1, <1>2, <1>9 DEF OpenGate, DirTypeOK, RunnerTypeOK, Places, Groups
<1>10. CASE Tick(a)
  <2>1. TickCause(a) \in Causes
    BY <1>1 DEF TickCause, AcceptedCause, RunnerTypeOK, DirTypeOK, Controls, Kinds, Causes
  <2>2. ResultsOf(TickCause(a)) \subseteq Outcomes
    BY <2>1 DEF ResultsOf, Outcomes, Causes
  <2>3. MainDone(a) \in BOOLEAN /\ "none" \notin Outcomes
    BY DEF MainDone, Outcomes
  <2>4. CASE workload[a] = "gone"
    <3>1. PICK out \in Outcomes : outcome' = [outcome EXCEPT ![a] = out]
      BY <1>10, <2>2, <2>4 DEF Tick
    <3>2. DirTypeOK' /\ RunnerTypeOK'
      BY <1>1, <1>10, <2>4, <3>1 DEF Tick, DirTypeOK, RunnerTypeOK, Places, Causes
    <3>3. Moves(a)
      BY <1>1, <1>2, <1>10, <2>3, <2>4, <3>1 DEF Tick, RunnerTypeOK
    <3>4. \A b \in Attempts \ {a} : StaysAt(b)
      BY <1>1, <1>10, <2>4, <3>1 DEF Tick, RunnerTypeOK
    <3> QED
      BY <3>2, <3>3, <3>4
  <2>5. CASE workload[a] # "gone"
    BY <1>1, <1>2, <1>10, <2>1, <2>3, <2>5 DEF Tick, DirTypeOK, RunnerTypeOK
  <2> QED
    BY <2>4, <2>5
<1>11. CASE Stamp(a)
  BY <1>1, <1>2, <1>11 DEF Stamp, DirTypeOK, RunnerTypeOK, Places
<1>12. CASE Publish(a)
  BY <1>1, <1>2, <1>12 DEF Publish, DirTypeOK, RunnerTypeOK, Places
<1>13. CASE Notify(a)
  BY <1>1, <1>2, <1>13 DEF Notify, DirTypeOK, RunnerTypeOK, Places, Outcomes
<1>14. CASE WorkloadStep(a)
  BY <1>1, <1>2, <1>14 DEF WorkloadStep, MainExits, LeftoverExits, DirTypeOK, RunnerTypeOK, Groups
<1>15. CASE WalltimePasses(a)
  BY <1>1, <1>2, <1>15 DEF WalltimePasses, DirTypeOK, RunnerTypeOK
<1> QED
  BY <1>3, <1>4, <1>5, <1>6, <1>7, <1>8, <1>9, <1>10, <1>11, <1>12, <1>13, <1>14, <1>15 DEF RunnerStep

(* The hook counts as executed when the gate opens, and it opens once.     *)
LEMMA SuperviseKeepsInv ==
    ASSUME HookInv, NEW a \in Attempts, Supervise(a), UNCHANGED <<daemonVars, faults>>
    PROVE  HookInv'
<1>1. TypeOK /\ Placed /\ Published /\ CountedOnce /\ ClaimFirst /\ InLaunch /\ RecordTrue
  BY DEF HookInv
<1>2. DirTypeOK' /\ RunnerTypeOK' /\ Moves(a) /\ \A b \in Attempts \ {a} : StaysAt(b)
  BY <1>1, SupervisorMoves DEF Supervise
<1>3. runs \in [Attempts -> Nat] /\ runs' = [runs EXCEPT ![a] = IF workload[a] = "gated" /\ workload'[a] = "running"
                                                               THEN @ + 1 ELSE @]
  BY <1>1 DEF TypeOK, Supervise, Counted
<1>4. TypeOK'
  <2>1. runs' \in [Attempts -> Nat]
    BY <1>3
  <2> QED
    BY <1>1, <1>2, <2>1 DEF TypeOK
<1>5. Placed' /\ Published'
  BY <1>1, <1>2 DEF Placed, Published, Moves, StaysAt
<1>6. CountedOnce'
  BY <1>1, <1>2, <1>3 DEF CountedOnce, Moves, StaysAt, Executed
<1>7. ClaimFirst' /\ InLaunch'
  BY <1>1, <1>2 DEF ClaimFirst, InLaunch, Moves, StaysAt, TypeOK
<1>8. RecordTrue'
  <2> SUFFICES ASSUME NEW b \in Attempts
               PROVE  /\ hookState[b] \in Outcomes => hookState[b] = result'[b]
                      /\ events[b] = IF hookState[b] \in Recorded THEN 1 ELSE 0
                      /\ hookState[b] = "claimed" /\ faults = 0 =>
                            RunnerAlive(b)' \/ result'[b] # "none" \/ (pc = "spawn" /\ cur = b)
    BY DEF RecordTrue
  <2>1. result[b] # "none" => result'[b] = result[b]
    BY <1>2 DEF Moves, StaysAt
  <2>2. RunnerAlive(b) => RunnerAlive(b)' \/ result'[b] # "none"
    BY <1>2 DEF Moves, StaysAt, RunnerAlive
  <2> QED
    BY <1>1, <2>1, <2>2 DEF RecordTrue, Outcomes
<1> QED
  BY <1>4, <1>5, <1>6, <1>7, <1>8 DEF HookInv

(* A supervisor that dies executes nothing more; its hook may go on.       *)
LEMMA DeathKeepsInv ==
    ASSUME HookInv, NEW a \in Attempts, RunnerDies(a)
    PROVE  HookInv'
<1>1. TypeOK /\ Placed /\ Published /\ CountedOnce /\ ClaimFirst /\ InLaunch /\ RecordTrue
  BY DEF HookInv
<1>2. DirTypeOK /\ RunnerTypeOK /\ faults \in 0..MaxFaults
  BY <1>1 DEF TypeOK
<1>3. /\ runner[a] \notin {"none", "exited", "dead"} /\ runner' = [runner EXCEPT ![a] = "dead"]
      /\ workload' = [workload EXCEPT ![a] = IF @ = "gated" THEN "aborted" ELSE @]
      /\ UNCHANGED <<fileVars, due, daemonVars, runs>>
  BY DEF RunnerDies, RunnerAlive, Goto
<1>4. faults' \in 0..MaxFaults /\ faults' # 0
  BY <1>2, MaxFaultsAssumption DEF RunnerDies
<1>5. DirTypeOK' /\ RunnerTypeOK'
  BY <1>2, <1>3 DEF RunnerDies, DirTypeOK, RunnerTypeOK, Places, Groups, Causes
<1>6. TypeOK'
  BY <1>1, <1>3, <1>4, <1>5 DEF TypeOK
<1>7. Placed' /\ Published' /\ CountedOnce'
  BY <1>1, <1>2, <1>3 DEF RunnerDies, RunnerTypeOK, Placed, Published, CountedOnce, NotYet, Executed
<1>8. ClaimFirst' /\ InLaunch'
  BY <1>1, <1>2, <1>3 DEF RunnerTypeOK, TypeOK, ClaimFirst, InLaunch
<1>9. RecordTrue'
  BY <1>1, <1>3, <1>4 DEF RecordTrue
<1> QED
  BY <1>1, <1>6, <1>7, <1>8, <1>9 DEF HookInv

(* While the daemon alone acts, supervisors stay where they are.           *)
LEMMA DaemonKeepsSupervised ==
    ASSUME HookInv, UNCHANGED <<runnerVars, result, runs>>
    PROVE  Placed' /\ Published' /\ CountedOnce'
BY DEF HookInv, Placed, Published, CountedOnce, Executed

(* What is recorded of one hook says nothing of the others.                *)
LEMMA OnlyRecorded ==
    ASSUME RecordTrue, TypeOK, NEW a \in Attempts, NEW what \in Recorded,
           hookState' = [hookState EXCEPT ![a] = what], events' = [events EXCEPT ![a] = 1],
           what \in Outcomes => what = result[a], pc \in {"spawn" , "scan"}, pc = "spawn" => cur = a,
           UNCHANGED <<result, runner, faults>>
    PROVE  RecordTrue'
<1>1. hookState \in [Attempts -> Recorded \union {"", "claimed"}] /\ events \in [Attempts -> 0..1]
  BY DEF TypeOK
<1> SUFFICES ASSUME NEW b \in Attempts
             PROVE  /\ hookState'[b] \in Outcomes => hookState'[b] = result[b]
                    /\ events'[b] = IF hookState'[b] \in Recorded THEN 1 ELSE 0
                    /\ hookState'[b] = "claimed" /\ faults = 0 =>
                          RunnerAlive(b)' \/ result[b] # "none" \/ (pc' = "spawn" /\ cur' = b)
  BY DEF RecordTrue
<1>2. CASE b = a
  <2>1. hookState'[b] = what /\ events'[b] = 1 /\ what # "claimed"
    BY <1>1, <1>2 DEF Recorded, Outcomes
  <2> QED
    BY <1>2, <2>1
<1>3. CASE b # a
  <2>1. hookState'[b] = hookState[b] /\ events'[b] = events[b]
    BY <1>1, <1>3
  <2>2. RunnerAlive(b)' <=> RunnerAlive(b)
    BY DEF RunnerAlive
  <2> QED
    BY <1>3, <2>1, <2>2 DEF RecordTrue
<1> QED
  BY <1>2, <1>3

(* The daemon: it claims what has ended and was never claimed, starts what *)
(* it has claimed, and records what was published.                         *)
LEMMA DaemonKeepsInv ==
    ASSUME HookInv, UNCHANGED <<runs, faults>>,
           StartUp \/ DaemonStep \/ \E a \in Attempts : AttemptEnds(a)
    PROVE  HookInv'
<1>1. TypeOK /\ Placed /\ Published /\ CountedOnce /\ ClaimFirst /\ InLaunch /\ RecordTrue
  BY DEF HookInv
<1>2. DirTypeOK /\ RunnerTypeOK
  BY <1>1 DEF TypeOK
<1>3. /\ hookState \in [Attempts -> Recorded \union {"", "claimed"}] /\ events \in [Attempts -> 0..1]
      /\ completed \subseteq Attempts /\ todo \subseteq completed
  BY <1>1 DEF TypeOK
<1>4. CASE StartUp
  BY <1>1, <1>2, <1>4, DaemonKeepsSupervised DEF StartUp, HookInv, TypeOK, DirTypeOK, RunnerTypeOK,
     ClaimFirst, InLaunch, RecordTrue, RunnerAlive
<1>5. ASSUME NEW a \in Attempts, AttemptEnds(a) PROVE HookInv'
  BY <1>1, <1>2, <1>5, DaemonKeepsSupervised DEF AttemptEnds, HookInv, TypeOK, DirTypeOK, RunnerTypeOK,
     ClaimFirst, InLaunch, RecordTrue, RunnerAlive
<1>6. CASE BeginPass \/ PassDone
  BY <1>1, <1>2, <1>6, DaemonKeepsSupervised DEF BeginPass, PassDone, HookInv, TypeOK, DirTypeOK, RunnerTypeOK,
     ClaimFirst, InLaunch, RecordTrue, RunnerAlive
<1>7. ASSUME NEW a \in Attempts, Collect(a) PROVE HookInv'
  <2>1. /\ hookState[a] = "claimed" /\ result[a] \in Outcomes
        /\ hookState' = [hookState EXCEPT ![a] = result[a]]
        /\ events' = [events EXCEPT ![a] = @ + 1]
        /\ UNCHANGED <<fileVars, runnerVars, completed, enabled, pc, cur>> /\ pc = "scan"
    BY <1>2, <1>7 DEF Collect, Awaited, Record, DirTypeOK
  <2>a. events[a] = 0
    BY <1>1, <2>1 DEF RecordTrue, Recorded, Outcomes
  <2>2. events' = [events EXCEPT ![a] = 1]
    BY <2>1, <2>a
  <2>3. hookState' \in [Attempts -> Recorded \union {"", "claimed"}] /\ events' \in [Attempts -> 0..1]
    <3>1. hookState' \in [Attempts -> Recorded \union {"", "claimed"}]
      BY <1>3, <2>1 DEF Recorded
    <3>2. 1 \in 0..1
      OBVIOUS
    <3>3. events' \in [Attempts -> 0..1]
      BY <1>3, <2>2, <3>2, Zenon
    <3> QED
      BY <3>1, <3>3
  <2>4. TypeOK'
    BY <1>1, <1>2, <1>7, <2>1, <2>3 DEF TypeOK, DirTypeOK, RunnerTypeOK, Collect
  <2>5. ClaimFirst' /\ InLaunch'
    BY <1>1, <1>3, <2>1 DEF ClaimFirst, InLaunch, Outcomes
  <2>6. RecordTrue'
    BY <1>1, <1>3, <2>1, <2>2, OnlyRecorded DEF RunnerAlive, Recorded
  <2> QED
    BY <2>1, <2>4, <2>5, <2>6, DaemonKeepsSupervised DEF HookInv
<1>8. ASSUME NEW a \in Attempts, PassOver(a) PROVE HookInv'
  BY <1>1, <1>2, <1>8, DaemonKeepsSupervised DEF PassOver, HookInv, TypeOK, DirTypeOK, RunnerTypeOK,
     ClaimFirst, InLaunch, RecordTrue, RunnerAlive
<1>9. ASSUME NEW a \in Attempts, Prepare(a) PROVE HookInv'
  <2>1. DirTypeOK' /\ RunnerTypeOK'
    BY <1>2, <1>9 DEF Prepare, DirTypeOK, RunnerTypeOK
  <2>2. TypeOK'
    BY <1>1, <1>9, <2>1 DEF Prepare, TypeOK
  <2>3. ClaimFirst' /\ InLaunch' /\ RecordTrue'
    BY <1>1, <1>3, <1>9 DEF Prepare, ClaimFirst, InLaunch, RecordTrue, RunnerAlive
  <2> QED
    BY <1>9, <2>2, <2>3, DaemonKeepsSupervised DEF Prepare, HookInv
<1>10. CASE Authorize
  <2>1. DirTypeOK' /\ RunnerTypeOK'
    BY <1>2, <1>10 DEF Authorize, DirTypeOK, RunnerTypeOK
  <2>2. TypeOK'
    BY <1>1, <1>10, <2>1 DEF Authorize, TypeOK
  <2>3. ClaimFirst' /\ InLaunch' /\ RecordTrue'
    BY <1>1, <1>10 DEF Authorize, ClaimFirst, InLaunch, RecordTrue, RunnerAlive
  <2> QED
    BY <1>10, <2>2, <2>3, DaemonKeepsSupervised DEF Authorize, HookInv
<1>11. CASE Claim
  <2>1. /\ cur \in completed /\ cur \in Attempts /\ hookState[cur] = "" /\ runner[cur] = "none"
        /\ hookState' = [hookState EXCEPT ![cur] = "claimed"] /\ pc' = "spawn"
        /\ UNCHANGED <<fileVars, runnerVars, completed, events, enabled, cur, todo>>
    BY <1>1, <1>3, <1>11 DEF Claim, ClaimAs, InLaunch, ClaimFirst
  <2>2. TypeOK'
    BY <1>1, <1>2, <2>1 DEF TypeOK, DirTypeOK, RunnerTypeOK
  <2>3. ClaimFirst' /\ InLaunch'
    BY <1>1, <1>3, <2>1 DEF ClaimFirst, InLaunch
  <2>4. RecordTrue'
    BY <1>1, <1>3, <1>11, <2>1 DEF Claim, RecordTrue, Recorded, Outcomes, RunnerAlive
  <2> QED
    BY <2>1, <2>2, <2>3, <2>4, DaemonKeepsSupervised DEF HookInv
<1>12. CASE Spawn
  <2>1. /\ pc = "spawn" /\ cur \in completed /\ cur \in Attempts /\ hookState[cur] = "claimed" /\ runner[cur] = "none"
    BY <1>1, <1>3, <1>12 DEF Spawn, InLaunch
  <2>2. /\ runner' = [runner EXCEPT ![cur] = "boot"] /\ pc' = "scan" /\ cur' = NoAttempt /\ todo' = todo \ {cur}
        /\ UNCHANGED <<fileVars, outcome, cause, stopping, due, workload, completed, hookState, events, enabled>>
    BY <1>12, <2>1 DEF Spawn, Handled, RunnerAlive
  <2>3. DirTypeOK' /\ RunnerTypeOK'
    BY <1>2, <2>2 DEF DirTypeOK, RunnerTypeOK, Places
  <2>4. TypeOK'
    BY <1>1, <2>2, <2>3 DEF TypeOK
  <2>5. Placed' /\ Published' /\ CountedOnce'
    BY <1>1, <1>2, <2>1, <2>2 DEF RunnerTypeOK, Placed, Published, CountedOnce, NotYet, Executed
  <2>6. ClaimFirst' /\ InLaunch'
    BY <1>1, <1>2, <2>1, <2>2 DEF RunnerTypeOK, ClaimFirst, InLaunch
  <2>7. RecordTrue'
    BY <1>1, <1>2, <2>1, <2>2 DEF RunnerTypeOK, RecordTrue, RunnerAlive
  <2> QED
    BY <2>4, <2>5, <2>6, <2>7 DEF HookInv
<1>13. CASE SpawnFails
  <2>1. /\ pc = "spawn" /\ cur \in completed /\ cur \in Attempts /\ hookState[cur] = "claimed" /\ runner[cur] = "none"
    BY <1>1, <1>3, <1>13 DEF SpawnFails, InLaunch
  <2>2. /\ hookState' = [hookState EXCEPT ![cur] = "LaunchFailed"] /\ events' = [events EXCEPT ![cur] = @ + 1]
        /\ pc' = "scan" /\ cur' = NoAttempt /\ todo' = todo \ {cur}
        /\ UNCHANGED <<fileVars, runnerVars, completed, enabled>>
    BY <1>13 DEF SpawnFails, SpawnFailed, Record, Handled
  <2>a. events[cur] = 0
    BY <1>1, <2>1 DEF RecordTrue, Recorded, Outcomes
  <2>3. events' = [events EXCEPT ![cur] = 1]
    BY <2>2, <2>a
  <2>4. hookState' \in [Attempts -> Recorded \union {"", "claimed"}] /\ events' \in [Attempts -> 0..1]
    <3>1. hookState' \in [Attempts -> Recorded \union {"", "claimed"}]
      BY <1>3, <2>1, <2>2 DEF Recorded
    <3>2. 1 \in 0..1
      OBVIOUS
    <3>3. events' \in [Attempts -> 0..1]
      BY <1>3, <2>3, <3>2, Zenon
    <3> QED
      BY <3>1, <3>3
  <2>5. TypeOK'
    BY <1>1, <1>2, <2>2, <2>4 DEF TypeOK, DirTypeOK, RunnerTypeOK
  <2>6. ClaimFirst' /\ InLaunch'
    BY <1>1, <1>3, <2>1, <2>2 DEF ClaimFirst, InLaunch
  <2>7. RecordTrue'
    BY <1>1, <1>3, <2>1, <2>2, <2>3, OnlyRecorded DEF RunnerAlive, Recorded, Outcomes
  <2> QED
    BY <2>2, <2>5, <2>6, <2>7, DaemonKeepsSupervised DEF HookInv
<1> QED
  BY <1>4, <1>5, <1>6, <1>7, <1>8, <1>9, <1>10, <1>11, <1>12, <1>13 DEF DaemonStep, Hook, Launch

(* Every step keeps the invariant.                                         *)
LEMMA HookInvNext == HookInv /\ [Next]_vars => HookInv'
<1> SUFFICES ASSUME HookInv, [Next]_vars PROVE HookInv'
  OBVIOUS
<1>1. TypeOK /\ Placed /\ Published /\ CountedOnce /\ ClaimFirst /\ InLaunch /\ RecordTrue
  BY DEF HookInv
<1>2. CASE DaemonDies
  <2>1. faults' \in 0..MaxFaults /\ faults' # 0
    <3>1. faults < MaxFaults /\ faults' = faults + 1
      BY <1>2 DEF DaemonDies
    <3>2. faults \in 0..MaxFaults
      BY <1>1 DEF TypeOK
    <3> QED
      BY <3>1, <3>2, MaxFaultsAssumption
  <2>2. TypeOK'
    BY <1>1, <1>2, <2>1 DEF DaemonDies, TypeOK, DirTypeOK, RunnerTypeOK
  <2>3. Placed' /\ Published' /\ CountedOnce'
    BY <1>2, DaemonKeepsSupervised DEF DaemonDies
  <2>4. ClaimFirst' /\ InLaunch' /\ RecordTrue'
    BY <1>1, <1>2, <2>1 DEF DaemonDies, ClaimFirst, InLaunch, RecordTrue
  <2> QED
    BY <2>2, <2>3, <2>4 DEF HookInv
<1>3. CASE UNCHANGED vars
  BY <1>1, <1>3, DaemonKeepsSupervised DEF vars, HookInv, TypeOK, DirTypeOK, RunnerTypeOK, ClaimFirst, InLaunch,
     RecordTrue, RunnerAlive
<1> QED
  BY <1>2, <1>3, DaemonKeepsInv, SuperviseKeepsInv, DeathKeepsInv DEF Next

(* Every variable has its type in every reachable state: a record is one   *)
(* of those hooks_linux.go makes, and the pass is at a point of its own.   *)
THEOREM HooksTyped == Spec => []TypeOK
<1>1. HookInv => TypeOK
  BY DEF HookInv
<1> QED
  BY <1>1, HookInvInit, HookInvNext, PTL DEF Spec

(* "Hooks run once at most for each completed execution attempt", however  *)
(* often daemon and supervisors are interrupted.                           *)
THEOREM HooksRunOnce == Spec => []HookAtMostOnce
<1>1. HookInv => HookAtMostOnce
  <2> SUFFICES ASSUME HookInv, NEW a \in Attempts
               PROVE  /\ runs[a] <= IF hookState[a] = "LaunchFailed" THEN 0 ELSE 1
                      /\ runs[a] = 1 => a \in completed
    BY DEF HookAtMostOnce
  <2>1. runs[a] = IF Executed(a) THEN 1 ELSE 0
    BY DEF HookInv, CountedOnce
  <2>2. Executed(a) => runner[a] # "none"
    BY DEF HookInv, Placed, NotYet, Executed
  <2>3. runner[a] # "none" => hookState[a] # "LaunchFailed" /\ a \in completed
    BY DEF HookInv, ClaimFirst
  <2> QED
    BY <2>1, <2>2, <2>3
<1> QED
  BY <1>1, HookInvInit, HookInvNext, PTL DEF Spec

(* What is recorded of a hook is what its supervisor published, once, and  *)
(* without an interruption a claimed hook is under way.                    *)
THEOREM HookRecordsAreTrue == Spec => []RecordTrue
<1>1. HookInv => RecordTrue
  BY DEF HookInv
<1> QED
  BY <1>1, HookInvInit, HookInvNext, PTL DEF Spec
=============================================================================
