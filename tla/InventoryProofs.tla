--------------------------- MODULE InventoryProofs ---------------------------
(***************************************************************************)
(* Theorems about the inventory: no request for a probe is lost, how old   *)
(* the answer may be that a launch relies on, and that the devices it gets *)
(* were seen to be free, for any number of jobs, devices, processes and    *)
(* failing queries.                                                        *)
(***************************************************************************)
EXTENDS Inventory, TLAPS

LEMMA TypeInit == Init => TypeOK
<1> SUFFICES ASSUME Init PROVE TypeOK
  OBVIOUS
<1>1. Unknown \in Reports
  BY BoundsAssumption DEF Unknown, Reports, NoProcs
<1>2. /\ draft \in Reports /\ inventory \in Reports /\ probes = {}
      /\ last \in [known : BOOLEAN, devices : SUBSET Devices, available : SUBSET Devices]
  BY <1>1 DEF Init
<1>3. /\ procs \in [Devices -> SUBSET Procs] /\ yet \subseteq Procs
      /\ state \in [Jobs -> {"none", "queued", "active", "ended", "done"}]
      /\ held \in [Jobs -> SUBSET Devices]
      /\ pass \in [todo : SUBSET Jobs, free : SUBSET Devices]
      /\ failures \in 0..MaxFailures
  BY BoundsAssumption DEF Init, NoProcs
<1> QED
  BY <1>2, <1>3 DEF Init, TypeOK

(* The history of an inventory is a part of it.                            *)
LEMMA AgedIsReport ==
    ASSUME NEW r \in Reports, NEW launch \in BOOLEAN
    PROVE  Aged(r, launch) \in Reports /\ Aged(r, launch).reset
<1> DEFINE n == IF launch /\ r.launches < MaxLaunches THEN r.launches + 1 ELSE r.launches
<1>1. r.launches \in 0..MaxLaunches /\ n \in 0..MaxLaunches
  BY BoundsAssumption DEF Reports
<1>2. Aged(r, launch) = [r EXCEPT !.reset = TRUE, !.launches = n]
  BY DEF Aged
<1> HIDE DEF n
<1> QED
  BY <1>1, <1>2 DEF Reports

(* What changes of the inventories when freshGPU is reset or not.          *)
LEMMA ResetTypes ==
    ASSUME TypeOK, NEW launch \in BOOLEAN, Reset(launch) \/ (launch = FALSE /\ Untouched)
    PROVE  /\ probe' \in BOOLEAN /\ freshGPU' \in BOOLEAN
           /\ worker' \in {"idle", "devices", "processes", "deliver"}
           /\ draft' \in Reports /\ inventory' \in Reports /\ probes' \subseteq Reports
           /\ \A r, s \in probes' : r = s
           /\ last' \in [known : BOOLEAN, devices : SUBSET Devices, available : SUBSET Devices]
<1>1. /\ draft \in Reports /\ inventory \in Reports /\ probes \subseteq Reports
      /\ \A r, s \in probes : r = s
  BY DEF TypeOK
<1>2. CASE Untouched
  BY <1>2 DEF Untouched, TypeOK
<1>3. CASE Reset(launch)
  <2>1. draft' \in Reports
    BY <1>1, <1>3, AgedIsReport DEF Reset
  <2>2. inventory' \in Reports
    BY <1>1, <1>3 DEF Reset, Reports
  <2>3. probes' = {Aged(r, launch) : r \in probes}
    BY <1>3 DEF Reset
  <2>4. probes' \subseteq Reports /\ \A r, s \in probes' : r = s
    BY <1>1, <2>3, AgedIsReport
  <2> QED
    BY <1>3, <2>1, <2>2, <2>4 DEF Reset, TypeOK
<1> QED
  BY <1>2, <1>3

(* The worker's steps.                                                     *)
LEMMA WorkerTypes ==
    ASSUME TypeOK, TakeRequest \/ RefreshInterval \/ Refresh
    PROVE  TypeOK'
<1> USE DEF worldVars, jobVars, loopVars
<1>1. /\ draft \in Reports /\ inventory \in Reports /\ probes \subseteq Reports
      /\ last \in [known : BOOLEAN, devices : SUBSET Devices, available : SUBSET Devices]
      /\ procs \in [Devices -> SUBSET Procs] /\ failures \in 0..MaxFailures
  BY DEF TypeOK
<1>2. CASE TakeRequest \/ RefreshInterval
  BY <1>2 DEF TakeRequest, RefreshInterval, TypeOK
<1>3. CASE QueryDevices
  <2>1. PICK ok \in BOOLEAN, listed \in SUBSET Devices :
          LET found == Discovered(ok, listed) IN
          /\ IF listed = Devices THEN UNCHANGED failures
             ELSE failures < MaxFailures /\ failures' = failures + 1
          /\ draft' = [Unknown EXCEPT
                         !.known = found.known,
                         !.devices = found.devices \intersect Allowed,
                         !.available = found.available \intersect Allowed,
                         !.listed = listed, !.reset = FALSE]
          /\ worker' = IF Avoid /\ found.devices \intersect Allowed # {}
                       THEN "processes" ELSE "deliver"
    BY <1>3 DEF QueryDevices
  <2> DEFINE found == Discovered(ok, listed)
  <2>2. found \in [known : BOOLEAN, devices : SUBSET Devices, available : SUBSET Devices]
    BY <1>1, DevicesAssumption DEF Discovered, Fallback
  <2>3. draft' = [known |-> found.known, devices |-> found.devices \intersect Allowed,
                  available |-> found.available \intersect Allowed, seen |-> NoProcs, listed |-> listed,
                  truth |-> NoProcs, reset |-> FALSE, launches |-> 0]
    BY <2>1 DEF Unknown
  <2> HIDE DEF found
  <2>4. draft' \in Reports
    BY <2>2, <2>3, BoundsAssumption DEF Reports, NoProcs
  <2>5. failures' \in 0..MaxFailures
    BY <1>1, <2>1, BoundsAssumption
  <2> QED
    BY <1>1, <1>3, <2>1, <2>4, <2>5 DEF QueryDevices, TypeOK
<1>4. CASE QueryProcesses
  <2> DEFINE asked == [draft EXCEPT !.truth = procs, !.reset = FALSE, !.launches = 0]
  <2>1. asked \in Reports
    <3>1. 0 \in 0..MaxLaunches
      BY BoundsAssumption
    <3>2. procs \in [Devices -> SUBSET Procs] /\ draft \in Reports
      BY <1>1
    <3> QED
      BY <3>1, <3>2 DEF Reports
  <2>2. \/ draft' = [asked EXCEPT !.seen = [d \in Devices |-> IF d \in draft.devices THEN procs[d] ELSE {}]]
        \/ draft' = WithoutList(asked)
    BY <1>4 DEF QueryProcesses
  <2>3. failures' \in 0..MaxFailures
    BY <1>1, <1>4, BoundsAssumption DEF QueryProcesses
  <2> HIDE DEF asked
  <2>4. draft' \in Reports
    BY <1>1, <2>1, <2>2 DEF Reports, WithoutList
  <2> QED
    BY <1>1, <1>4, <2>3, <2>4 DEF QueryProcesses, TypeOK
<1>5. CASE Deliver
  <2>1. Unknown \in Reports
    BY BoundsAssumption DEF Unknown, Reports, NoProcs
  <2>2. last' \in [known : BOOLEAN, devices : SUBSET Devices, available : SUBSET Devices]
    BY <1>1, <1>5 DEF Deliver, Reports
  <2> QED
    BY <1>1, <1>5, <2>1, <2>2 DEF Deliver, Send, TypeOK
<1> QED
  BY <1>2, <1>3, <1>4, <1>5 DEF Refresh

(* What the loop and the world do.                                         *)
LEMMA LoopTypes ==
    ASSUME TypeOK, Receive \/ Tick \/ Request \/ Pass \/ World \/ UNCHANGED vars
    PROVE  TypeOK'
<1> USE DEF worldVars, jobVars, loopVars, workerVars
<1>1. CASE Receive \/ Tick \/ Lacks \/ Skip \/ PassDone \/ Schedule
  <2>1. CASE Receive \/ Tick
    BY <1>1, <2>1 DEF Receive, Tick, Goto, TypeOK
  <2>2. CASE Lacks \/ PassDone
    BY <2>2 DEF Lacks, Rest, PassDone, Goto, TypeOK
  <2>3. CASE Skip
    <3>1. PICK g \in Picks : pass' = Rest(g)
      BY <2>3 DEF Skip
    <3> QED
      BY <2>3, <3>1 DEF Skip, Rest, TypeOK
  <2>4. CASE Schedule
    <3>1. Usable \subseteq Devices
      BY DEF Usable, TypeOK, Reports
    <3> QED
      BY <2>4, <3>1 DEF Schedule, Goto, TypeOK
  <2> QED
    BY <1>1, <2>1, <2>2, <2>3, <2>4
<1>2. ASSUME NEW j \in Jobs, Submit(j) \/ Delete(j)
      PROVE  TypeOK'
  <2>1. Reset(FALSE) /\ UNCHANGED <<procs, yet, held, pass, failures>> /\ pc' = "reconcile"
        /\ (state' = [state EXCEPT ![j] = "queued"] \/ state' = [state EXCEPT ![j] = "done"])
    BY <1>2 DEF Submit, Delete, Goto
  <2> QED
    BY <2>1, ResetTypes DEF TypeOK
<1>3. CASE Reconcile
  <2>1. Reset(FALSE) \/ Untouched
    BY <1>3 DEF Reconcile
  <2>2. /\ state' = [j \in Jobs |-> IF j \in Finished THEN "done" ELSE state[j]]
        /\ held' = [j \in Jobs |-> IF j \in Finished THEN {} ELSE held[j]]
        /\ pc' = "schedule" /\ UNCHANGED <<procs, yet, pass, failures>>
    BY <1>3 DEF Reconcile, Goto
  <2> QED
    BY <2>1, <2>2, ResetTypes DEF TypeOK
<1>4. CASE Launch
  <2>1. PICK g \in Picks, ok \in BOOLEAN :
          /\ state' = [state EXCEPT ![First] = IF ok THEN "active" ELSE "done"]
          /\ held' = [held EXCEPT ![First] = IF ok THEN g ELSE {}]
          /\ pass' = Rest(g)
    BY <1>4 DEF Launch
  <2>2. Reset(TRUE) /\ UNCHANGED <<procs, yet, pc, failures>>
    BY <1>4 DEF Launch
  <2>3. g \subseteq Devices
    BY DEF Picks, TypeOK
  <2>4. /\ state' \in [Jobs -> {"none", "queued", "active", "ended", "done"}]
        /\ held' \in [Jobs -> SUBSET Devices]
        /\ pass' \in [todo : SUBSET Jobs, free : SUBSET Devices]
    BY <2>1, <2>3 DEF TypeOK, Rest
  <2> QED
    BY <2>2, <2>4, ResetTypes DEF TypeOK
<1>5. CASE World
  <2>1. ASSUME NEW j \in Jobs, Ends(j) PROVE TypeOK'
    BY <2>1 DEF Ends, TypeOK
  <2>2. ASSUME NEW p \in Procs, Arrives(p) \/ Leaves(p) PROVE TypeOK'
    BY <2>2 DEF Arrives, Leaves, TypeOK
  <2> QED
    BY <1>5, <2>1, <2>2 DEF World
<1>6. CASE UNCHANGED vars
  BY <1>6 DEF vars, TypeOK
<1> QED
  BY <1>1, <1>2, <1>3, <1>4, <1>5, <1>6 DEF Request, Pass

LEMMA TypeNext == TypeOK /\ [Next]_vars => TypeOK'
BY WorkerTypes, LoopTypes DEF Next
-----------------------------------------------------------------------------
(* What is out of date: an answer is newer than those the loop has already *)
(* been sent, so if it precedes a reset they do.                           *)
ResetInOrder ==
    /\ worker = "deliver" /\ draft.reset => inventory.reset /\ \A r \in probes : r.reset
    /\ \A r \in probes : r.reset => inventory.reset
AnswerInv == ResetInOrder /\ EveryResetAnswered

(* Launches that came after the queries: one for each time an inventory    *)
(* has been trusted since, or will be before this one arrives.             *)
Trust == IF freshGPU THEN 1 ELSE 0
Ahead == IF probes = {} THEN 0 ELSE 1
LaunchInv ==
    Avoid => /\ worker = "deliver" => draft.launches + Trust + Ahead <= 2
             /\ \A r \in probes : r.launches + Trust <= 2
             /\ inventory.launches <= 2

LEMMA HistoryInit == Init => AnswerInv /\ LaunchInv
BY DEF Init, Unknown, AnswerInv, ResetInOrder, EveryResetAnswered, LaunchInv

(* A step of the worker.                                                   *)
LEMMA WorkerHistory ==
    ASSUME TypeOK, AnswerInv, LaunchInv, TakeRequest \/ RefreshInterval \/ Refresh
    PROVE  AnswerInv' /\ LaunchInv'
<1> USE DEF AnswerInv, ResetInOrder, EveryResetAnswered, LaunchInv, Trust, Ahead, loopVars
<1>1. /\ draft \in Reports /\ inventory \in Reports /\ probes \subseteq Reports /\ freshGPU \in BOOLEAN
  BY DEF TypeOK
<1>2. CASE TakeRequest \/ RefreshInterval
  BY <1>2 DEF TakeRequest, RefreshInterval
<1>3. CASE QueryDevices \/ QueryProcesses
  <2>1. worker' = "processes" \/ (~draft'.reset /\ draft'.launches = 0)
    <3>1. CASE QueryDevices
      BY <3>1 DEF QueryDevices, Unknown
    <3>2. CASE QueryProcesses
      BY <1>1, <3>2 DEF QueryProcesses, WithoutList, Reports
    <3> QED
      BY <1>3, <3>1, <3>2
  <2>2. worker' \in {"processes", "deliver"} /\ UNCHANGED <<inventory, freshGPU, probes>>
    BY <1>3 DEF QueryDevices, QueryProcesses
  <2>3. worker \in {"devices", "processes"}
    BY <1>3 DEF QueryDevices, QueryProcesses
  <2> QED
    BY <1>1, <2>1, <2>2, <2>3 DEF Reports
<1>4. CASE Deliver
  <2>1. /\ probes = {} /\ probes' = {draft} /\ worker = "deliver" /\ worker' = "idle"
        /\ UNCHANGED <<inventory, freshGPU, probe>>
    BY <1>4 DEF Deliver, Send
  <2> QED
    BY <1>1, <2>1 DEF Reports
<1> QED
  BY <1>2, <1>3, <1>4 DEF Refresh

(* A reset marks every inventory, and asks for another one; a launch makes *)
(* one that precedes it older by one, and ends the trust.                  *)
LEMMA ResetHistory ==
    ASSUME TypeOK, AnswerInv, LaunchInv, NEW launch \in BOOLEAN, Reset(launch),
           launch /\ Avoid => freshGPU
    PROVE  AnswerInv' /\ LaunchInv'
<1>1. /\ draft \in Reports /\ inventory \in Reports /\ probes \subseteq Reports /\ freshGPU \in BOOLEAN
      /\ draft.launches \in Nat /\ inventory.launches \in Nat /\ \A r \in probes : r.launches \in Nat
  BY BoundsAssumption DEF TypeOK, Reports
<1>2. /\ inventory'.reset /\ inventory'.launches = inventory.launches
      /\ probe' /\ ~freshGPU' /\ UNCHANGED worker
  BY <1>1 DEF Reset, Reports
<1>3. ASSUME NEW r \in Reports, r.launches \in Nat
      PROVE  /\ Aged(r, launch).reset /\ Aged(r, launch).launches \in Nat
             /\ Aged(r, launch).launches <= r.launches + (IF launch THEN 1 ELSE 0)
  BY <1>3 DEF Aged, Reports
<1>4. /\ \A r \in probes' : \E q \in probes : r = Aged(q, launch)
      /\ probes' = {} <=> probes = {}
      /\ worker = "deliver" => draft' = Aged(draft, launch)
  BY DEF Reset
<1>5. AnswerInv'
  BY <1>1, <1>2, <1>3, <1>4 DEF AnswerInv, ResetInOrder, EveryResetAnswered
<1>6. ASSUME Avoid PROVE (IF launch THEN 1 ELSE 0) <= Trust
  BY <1>6 DEF Trust
<1>7. LaunchInv'
  <2> SUFFICES ASSUME Avoid PROVE LaunchInv'
    BY DEF LaunchInv
  <2>1. Trust' = 0 /\ Ahead' = Ahead /\ Trust \in Nat /\ Ahead \in Nat
    BY <1>2, <1>4 DEF Trust, Ahead
  <2>2. worker = "deliver" => draft'.launches + Ahead <= 2
    BY <1>1, <1>3, <1>4, <1>6, <2>1 DEF LaunchInv
  <2>3. \A r \in probes' : r.launches \in Nat /\ r.launches <= 2
    BY <1>1, <1>3, <1>4, <1>6, <2>1 DEF LaunchInv
  <2>4. worker = "deliver" => draft'.launches \in Nat
    BY <1>1, <1>3, <1>4
  <2> QED
    BY <1>2, <2>1, <2>2, <2>3, <2>4 DEF LaunchInv
<1> QED
  BY <1>5, <1>7

LEMMA LoopHistory ==
    ASSUME TypeOK, AnswerInv, LaunchInv, Receive \/ Tick \/ Request \/ Pass \/ World \/ UNCHANGED vars
    PROVE  AnswerInv' /\ LaunchInv'
<1>1. CASE UNCHANGED <<workerVars, inventory, freshGPU, probe, probes>>
  BY <1>1 DEF AnswerInv, ResetInOrder, EveryResetAnswered, LaunchInv, Trust, Ahead, workerVars
<1>2. CASE Receive
  <2>1. PICK r \in probes : inventory' = r
    BY <1>2 DEF Receive
  <2>2. /\ probes' = {} /\ freshGPU' /\ UNCHANGED <<worker, draft, probe>>
        /\ \A q \in probes : q = r
    BY <1>2, <2>1 DEF Receive, workerVars, TypeOK
  <2>3. r.launches \in Nat /\ draft.launches \in Nat /\ freshGPU \in BOOLEAN
    BY <2>1, BoundsAssumption DEF TypeOK, Reports
  <2> QED
    BY <2>1, <2>2, <2>3 DEF AnswerInv, ResetInOrder, EveryResetAnswered, LaunchInv, Trust, Ahead
<1>3. CASE Tick \/ Schedule \/ Lacks \/ PassDone \/ World \/ UNCHANGED vars
  BY <1>1, <1>3 DEF Tick, Schedule, Lacks, PassDone, World, Ends, Arrives, Leaves, vars, loopVars, workerVars
<1>4. CASE Skip
  <2>1. probe' /\ UNCHANGED <<workerVars, inventory, freshGPU, probes>>
    BY <1>4 DEF Skip
  <2> QED
    BY <2>1 DEF AnswerInv, ResetInOrder, EveryResetAnswered, LaunchInv, Trust, Ahead, workerVars
<1>5. CASE Request \/ Reconcile
  <2>1. Reset(FALSE) \/ Untouched
    BY <1>5 DEF Request, Submit, Delete, Reconcile
  <2>2. CASE Untouched
    BY <1>1, <2>2 DEF Untouched, workerVars
  <2> QED
    BY <2>1, <2>2, ResetHistory
<1>6. CASE Launch
  <2>1. Reset(TRUE) /\ (Avoid => freshGPU)
    BY <1>6 DEF Launch, Trusted
  <2> QED
    BY <2>1, ResetHistory
<1> QED
  BY <1>2, <1>3, <1>4, <1>5, <1>6 DEF Pass

LEMMA HistoryHolds == Spec => [](TypeOK /\ AnswerInv /\ LaunchInv)
<1>1. TypeOK /\ AnswerInv /\ LaunchInv /\ [Next]_vars => TypeOK' /\ AnswerInv' /\ LaunchInv'
  BY TypeNext, WorkerHistory, LoopHistory DEF Next
<1> QED
  BY <1>1, TypeInit, HistoryInit, PTL DEF Spec

(* No reset of freshGPU is forgotten between the two channels, however     *)
(* requests, resets and deliveries fall: the run "inventory" checks it for *)
(* two jobs.                                                               *)
THEOREM ResetsAreAnswered == Spec => []EveryResetAnswered
<1>1. AnswerInv => EveryResetAnswered
  BY DEF AnswerInv
<1> QED
  BY <1>1, HistoryHolds, PTL

(* A launch relies on queries that precede at most two other launches: one *)
(* that used the inventory before, and one that used what lay in the       *)
(* channel meanwhile (requestProbe, inventoryWorker).                      *)
THEOREM LaunchesAreRecent == Spec => StalenessBounded
<1>1. LaunchInv => [Launching /\ Avoid => inventory.launches <= 2]_vars
  BY DEF LaunchInv
<1>2. Spec => [][Launching /\ Avoid => inventory.launches <= 2]_vars
  BY <1>1, HistoryHolds, PTL
<1> QED
  BY <1>2 DEF StalenessBounded

-----------------------------------------------------------------------------
(* Only devices known to be free                                           *)

(* What an inventory calls available its own query has found, and it lists *)
(* the processes that were there; they are not those still to come.        *)
Listed(r) == Static = {} => r.available \subseteq r.listed
Honest(r) == Listed(r) /\ (Avoid => \A d \in r.available : r.truth[d] \subseteq r.seen[d])
Past(r) == \A d \in Devices : r.truth[d] \intersect yet = {}

(* And what a pass has left was free when the inventory was made, but for  *)
(* processes that have come since.                                         *)
FreeInv ==
    /\ \A d \in Devices : procs[d] \intersect yet = {}
    /\ Past(draft) /\ Past(inventory) /\ \A r \in probes : Past(r)
    /\ worker = "processes" => Listed(draft) /\ draft.available \subseteq draft.devices
    /\ worker = "deliver" => Honest(draft)
    /\ Honest(inventory) /\ \A r \in probes : Honest(r)
    /\ pc = "pass" =>
          /\ pass.free \subseteq inventory.available
          /\ Avoid => \A d \in pass.free : procs[d] \intersect inventory.truth[d] = {}

LEMMA FreeInit == Init => FreeInv
BY DEF Init, FreeInv, Unknown, NoProcs, Past, Honest, Listed

(* A reset leaves an inventory as good as it was.                          *)
LEMMA ResetKeepsFree ==
    ASSUME TypeOK, FreeInv, NEW launch \in BOOLEAN, Reset(launch), UNCHANGED worldVars
    PROVE  /\ UNCHANGED worker
           /\ worker = "deliver" => Honest(draft')
           /\ worker # "deliver" => draft' = draft
           /\ Honest(inventory') /\ \A r \in probes' : Honest(r)
           /\ Past(draft)' /\ Past(inventory)' /\ \A r \in probes' : Past(r)
           /\ inventory'.available = inventory.available /\ inventory'.truth = inventory.truth
<1> USE DEF FreeInv, worldVars
<1>1. /\ draft \in Reports /\ inventory \in Reports /\ probes \subseteq Reports
  BY DEF TypeOK
<1>2. ASSUME NEW r \in Reports, NEW s \in {Aged(r, launch), [r EXCEPT !.reset = TRUE]}
      PROVE  /\ s.available = r.available /\ s.truth = r.truth
             /\ Honest(r) => Honest(s)
  <2>1. s.available = r.available /\ s.truth = r.truth /\ s.listed = r.listed /\ s.seen = r.seen
    BY <1>2 DEF Aged, Reports
  <2> QED
    BY <2>1 DEF Honest, Listed
<1>3. /\ UNCHANGED worker
      /\ inventory' = [inventory EXCEPT !.reset = TRUE]
      /\ draft' = IF worker = "deliver" THEN Aged(draft, launch) ELSE draft
      /\ probes' = {Aged(r, launch) : r \in probes}
  BY DEF Reset
<1>4. Past(draft)'
  BY <1>1, <1>2, <1>3 DEF Past
<1>5. Past(inventory)'
  BY <1>1, <1>2, <1>3 DEF Past
<1>6. ASSUME NEW r \in probes'
      PROVE  Past(r)
  <2>1. PICK q \in probes : r = Aged(q, launch)
    BY <1>3, <1>6
  <2>2. r.truth = q.truth
    BY <1>1, <1>2, <2>1
  <2> QED
    BY <2>2 DEF Past
<1> QED
  BY <1>1, <1>2, <1>3, <1>4, <1>5, <1>6 DEF Past

(* A worker that fails to query makes nothing available, or the devices    *)
(* that are configured.                                                    *)
LEMMA WorkerKeepsFree ==
    ASSUME TypeOK, FreeInv, TakeRequest \/ RefreshInterval \/ Refresh
    PROVE  FreeInv'
<1> USE DEF worldVars, jobVars, loopVars
<1>1. /\ draft \in Reports /\ inventory \in Reports /\ probes \subseteq Reports
      /\ procs \in [Devices -> SUBSET Procs]
      /\ last \in [known : BOOLEAN, devices : SUBSET Devices, available : SUBSET Devices]
  BY DEF TypeOK
<1>2. UNCHANGED <<procs, yet, inventory, pc, pass>>
  BY DEF TakeRequest, RefreshInterval, Refresh, QueryDevices, QueryProcesses, Deliver
<1>3. CASE TakeRequest \/ RefreshInterval
  BY <1>2, <1>3 DEF TakeRequest, RefreshInterval, FreeInv, Past
<1>4. CASE QueryDevices
  <2>1. PICK ok \in BOOLEAN, listed \in SUBSET Devices :
          LET found == Discovered(ok, listed) IN
          /\ draft' = [Unknown EXCEPT
                         !.known = found.known,
                         !.devices = found.devices \intersect Allowed,
                         !.available = found.available \intersect Allowed,
                         !.listed = listed, !.reset = FALSE]
          /\ worker' = IF Avoid /\ found.devices \intersect Allowed # {}
                       THEN "processes" ELSE "deliver"
    BY <1>4 DEF QueryDevices
  <2> DEFINE found == Discovered(ok, listed)
  <2>2. found.available \subseteq found.devices /\ (Static = {} => found.available \subseteq listed)
    <3>1. CASE ok
      BY <3>1 DEF Discovered
    <3>2. CASE ~ok /\ Static # {}
      BY <3>2 DEF Discovered, Fallback
    <3>3. CASE ~ok /\ Static = {}
      BY <1>1, <3>3 DEF Discovered, Fallback
    <3> QED
      BY <3>1, <3>2, <3>3
  <2>3. /\ draft'.devices = found.devices \intersect Allowed
        /\ draft'.available = found.available \intersect Allowed
        /\ draft'.listed = listed /\ draft'.truth = NoProcs
        /\ worker' = "deliver" => ~Avoid \/ found.devices \intersect Allowed = {}
    BY <2>1 DEF Unknown
  <2>4. UNCHANGED probes /\ worker' \in {"processes", "deliver"}
    BY <1>4 DEF QueryDevices
  <2> HIDE DEF found
  <2>5. Listed(draft') /\ draft'.available \subseteq draft'.devices
    BY <2>2, <2>3 DEF Listed
  <2>6. worker' = "deliver" => Honest(draft')
    BY <2>2, <2>3, <2>5 DEF Honest
  <2>7. Past(draft)'
    BY <2>3 DEF Past, NoProcs
  <2> QED
    BY <1>2, <2>4, <2>5, <2>6, <2>7 DEF FreeInv, Past
<1>5. CASE QueryProcesses
  <2> DEFINE asked == [draft EXCEPT !.truth = procs, !.reset = FALSE, !.launches = 0]
             found == [d \in Devices |-> IF d \in draft.devices THEN procs[d] ELSE {}]
  <2>1. draft' = [asked EXCEPT !.seen = found] \/ draft' = WithoutList(asked)
    BY <1>5 DEF QueryProcesses
  <2>2. /\ worker = "processes" /\ worker' = "deliver" /\ UNCHANGED probes
        /\ Listed(draft) /\ draft.available \subseteq draft.devices /\ draft.available \subseteq Devices
    BY <1>1, <1>5 DEF QueryProcesses, FreeInv, Reports
  <2>3. /\ draft'.truth = procs /\ draft'.listed = draft.listed
        /\ \/ draft'.available = draft.available /\ draft'.seen = found
           \/ draft'.available = {}
    BY <1>1, <2>1 DEF WithoutList, Reports
  <2>4. Honest(draft')
    BY <2>2, <2>3 DEF Honest, Listed
  <2>5. Past(draft)'
    BY <1>2, <2>3 DEF Past, FreeInv
  <2> QED
    BY <1>2, <2>2, <2>4, <2>5 DEF FreeInv, Past
<1>6. CASE Deliver
  <2>1. /\ probes' = {draft} /\ worker = "deliver" /\ worker' = "idle" /\ draft' = Unknown
    BY <1>6 DEF Deliver, Send
  <2>2. Past(draft)'
    BY <2>1 DEF Past, Unknown, NoProcs
  <2> QED
    BY <1>2, <2>1, <2>2 DEF FreeInv, Past
<1> QED
  BY <1>3, <1>4, <1>5, <1>6 DEF Refresh

(* While a pass goes on the inventory stays, and who comes now was not in it.*)
LEMMA LoopKeepsFree ==
    ASSUME TypeOK, FreeInv, Receive \/ Tick \/ Request \/ Pass \/ World \/ UNCHANGED vars
    PROVE  FreeInv'
<1> USE DEF worldVars, jobVars, loopVars, workerVars, Goto
<1>1. /\ procs \in [Devices -> SUBSET Procs] /\ inventory \in Reports /\ probes \subseteq Reports
      /\ pc \in {"select", "reconcile", "schedule", "pass"}
  BY DEF TypeOK
<1>2. CASE Receive
  <2>1. PICK r \in probes : inventory' = r
    BY <1>2 DEF Receive
  <2>2. /\ probes' = {} /\ pc' = "reconcile" /\ UNCHANGED <<procs, yet, worker, draft>>
    BY <1>2 DEF Receive
  <2> QED
    BY <2>1, <2>2 DEF FreeInv, Past
<1>3. CASE Tick \/ PassDone \/ UNCHANGED vars
  BY <1>3 DEF Tick, PassDone, vars, FreeInv, Past
<1>4. CASE Request \/ Reconcile
  <2>1. /\ Reset(FALSE) \/ Untouched
        /\ UNCHANGED worldVars /\ pc' # "pass"
    BY <1>4 DEF Request, Submit, Delete, Reconcile
  <2>2. CASE Reset(FALSE)
    <3>1. /\ Honest(inventory') /\ \A r \in probes' : Honest(r)
          /\ Past(draft)' /\ Past(inventory)' /\ \A r \in probes' : Past(r)
          /\ UNCHANGED worker /\ (worker = "deliver" => Honest(draft'))
          /\ (worker # "deliver" => draft' = draft)
      BY <2>1, <2>2, ResetKeepsFree
    <3> QED
      BY <2>1, <3>1 DEF FreeInv, Past
  <2>3. CASE Untouched
    BY <2>1, <2>3 DEF Untouched, FreeInv, Past
  <2> QED
    BY <2>1, <2>2, <2>3
<1>5. CASE Schedule
  <2>1. /\ pass'.free = Usable \ UNION {held[j] : j \in Jobs}
        /\ UNCHANGED <<procs, yet, worker, draft, inventory, probes>>
    BY <1>5 DEF Schedule
  <2>2. pass'.free \subseteq inventory.available
    BY <2>1 DEF Usable
  <2>3. Avoid => \A d \in pass'.free : procs[d] \intersect inventory.truth[d] = {}
    <3>1. \A d \in pass'.free : d \in inventory.available /\ inventory.seen[d] \intersect procs[d] = {}
      BY <2>1 DEF Usable
    <3>2. Avoid => \A d \in inventory.available : inventory.truth[d] \subseteq inventory.seen[d]
      BY DEF FreeInv, Honest
    <3> QED
      BY <3>1, <3>2
  <2> QED
    BY <2>1, <2>2, <2>3 DEF FreeInv, Past
<1>6. CASE Lacks \/ Skip
  <2>1. pc = "pass" /\ pass'.free \subseteq pass.free
        /\ UNCHANGED <<pc, procs, yet, worker, draft, inventory, probes>>
    BY <1>6 DEF Lacks, Skip, Rest
  <2> QED
    BY <2>1 DEF FreeInv, Past
<1>7. CASE Launch
  <2>1. /\ pc = "pass" /\ pass'.free \subseteq pass.free /\ UNCHANGED <<pc, procs, yet>>
        /\ Reset(TRUE) /\ UNCHANGED worldVars
    <3>1. \E g \in Picks : pass' = Rest(g)
      BY <1>7 DEF Launch
    <3>2. pass'.free \subseteq pass.free
      BY <3>1 DEF Rest
    <3> QED
      BY <1>7, <3>2 DEF Launch
  <2>2. /\ UNCHANGED worker
        /\ worker = "deliver" => Honest(draft')
        /\ worker # "deliver" => draft' = draft
        /\ Honest(inventory') /\ \A r \in probes' : Honest(r)
        /\ Past(draft)' /\ Past(inventory)' /\ \A r \in probes' : Past(r)
        /\ inventory'.available = inventory.available /\ inventory'.truth = inventory.truth
    BY <2>1, ResetKeepsFree
  <2>3. /\ pass'.free \subseteq inventory'.available
        /\ Avoid => \A d \in pass'.free : procs[d] \intersect inventory'.truth[d] = {}
    BY <2>1, <2>2 DEF FreeInv
  <2> QED
    BY <2>1, <2>2, <2>3 DEF FreeInv, Past
<1>8. ASSUME NEW j \in Jobs, Ends(j)
      PROVE  FreeInv'
  BY <1>8 DEF Ends, FreeInv, Past
<1>9. ASSUME NEW p \in Procs, Arrives(p) \/ Leaves(p)
      PROVE  FreeInv'
  <2>1. /\ yet' \subseteq yet /\ UNCHANGED <<worker, draft, inventory, probes, pc, pass>>
        /\ \A d \in Devices : procs'[d] \subseteq procs[d] \/ (procs'[d] = procs[d] \union {p} /\ p \in yet /\ p \notin yet')
    <3>1. CASE Arrives(p)
      BY <1>1, <3>1 DEF Arrives
    <3>2. CASE Leaves(p)
      BY <1>1, <3>2 DEF Leaves
    <3> QED
      BY <1>9, <3>1, <3>2
  <2>2. \A r : Past(r) => Past(r)'
    BY <2>1 DEF Past
  <2>3. pass.free \subseteq Devices
    BY DEF TypeOK
  <2>4. pc = "pass" /\ Avoid => \A d \in pass.free : procs'[d] \intersect inventory.truth[d] = {}
    BY <2>1, <2>3 DEF FreeInv, Past
  <2>5. \A d \in Devices : procs'[d] \intersect yet' = {}
    BY <2>1 DEF FreeInv
  <2>6. Past(draft)' /\ Past(inventory)' /\ \A r \in probes' : Past(r)'
    BY <2>1 DEF Past, FreeInv
  <2> QED
    BY <2>1, <2>4, <2>5, <2>6 DEF FreeInv
<1> QED
  BY <1>2, <1>3, <1>4, <1>5, <1>6, <1>7, <1>8, <1>9 DEF Pass, World

(* Whichever queries fail, and whatever foreign processes do meanwhile, no *)
(* job is put on a device that the inventory's own query did not find, nor *)
(* on one with a process that was there when the processes were asked for  *)
(* and still is (Refresh, classifiedInventory).                            *)
THEOREM DevicesAreKnownFree == Spec => KnownFreeOnly
<1> DEFINE Kept == Launching =>
                     /\ Static = {} => Given \subseteq inventory.listed
                     /\ Avoid => \A d \in Given : procs[d] \intersect inventory.truth[d] = {}
<1>1. TypeOK /\ FreeInv /\ [Next]_vars => FreeInv'
  BY WorkerKeepsFree, LoopKeepsFree DEF Next
<1>2. FreeInv => Kept
  BY DEF FreeInv, Honest, Listed, Launching, Given
<1>3. Spec => [](TypeOK /\ FreeInv)
  BY <1>1, TypeInit, FreeInit, TypeNext, PTL DEF Spec
<1> HIDE DEF Kept
<1>4. FreeInv => [Kept]_vars
  BY <1>2
<1>5. Spec => [][Kept]_vars
  BY <1>3, <1>4, PTL
<1> QED
  BY <1>5 DEF KnownFreeOnly, Kept
=============================================================================
