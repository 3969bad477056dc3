----------------------------- MODULE Inventory ------------------------------
(***************************************************************************)
(* The GPU inventory: a worker asks nvidia-smi for devices and for compute *)
(* processes and hands the answer to the loop through a channel, while the *)
(* loop submits, finishes and launches GPU jobs.  Two channels of capacity *)
(* one join them: "probe" carries requests to the worker, "probes" carries *)
(* inventories back.  The loop trusts an inventory while freshGPU is set.  *)
(*                                                                         *)
(* The reservations themselves, CPUs and memory are in Queue.tla; here a   *)
(* job only needs a number of devices.                                     *)
(***************************************************************************)
EXTENDS Integers, FiniteSets

LOCAL INSTANCE FiniteSetsExt

CONSTANTS
    Jobs,         \* GPU jobs; their IDs are their order in the queue
    Need,         \* Need[j]: devices j asks for
    Devices,      \* the devices of the host
    Allowed,      \* those the allow and deny lists let through
    Static,       \* the configured static UUIDs
    Procs,        \* compute processes that are not pbotd's; none comes twice
    Avoid,        \* foreign_process_policy is "avoid"
    MaxFailures,  \* bound: queries that fail or miss a device
    MaxLaunches   \* bound: launches the history of an inventory counts

ASSUME JobsAssumption == Jobs \subseteq Nat
ASSUME DevicesAssumption ==
    /\ Allowed \subseteq Devices /\ Static \subseteq Devices
    /\ Need \in [Jobs -> Nat \ {0}]
ASSUME BoundsAssumption == Avoid \in BOOLEAN /\ MaxFailures \in Nat /\ MaxLaunches \in Nat

VARIABLES
    procs,        \* procs[d]: foreign processes now on device d
    yet,          \* foreign processes still to come
    state,        \* state[j]: "none", "queued", "active", "ended" or "done"
    held,         \* held[j]: devices the job record of j holds
    probe,        \* a request is in the channel to the worker
    worker,       \* where the worker is in Refresh
    draft,        \* the inventory Refresh is making
    last,         \* p.last: what Refresh returned last
    probes,       \* the inventories in the channel to the loop: none or one
    inventory,    \* d.inventory
    freshGPU,     \* d.freshGPU
    pc,           \* where the loop is
    pass,         \* the jobs the pass has still to consider, and the devices left
    failures      \* failed queries so far

worldVars == <<procs, yet>>
jobVars == <<state, held>>
workerVars == <<worker, draft, last>>
loopVars == <<inventory, freshGPU, pc, pass>>
vars == <<worldVars, jobVars, workerVars, loopVars, probe, probes, failures>>

-----------------------------------------------------------------------------
(* Inventories                                                             *)

(* What an inventory says: devices, which of them are available, and the   *)
(* processes listed on each.  History, which the code does not have, for   *)
(* the properties: what its device query listed, what was on the devices   *)
(* when the processes were asked for, whether freshGPU was reset since     *)
(* then, and how many launches were made until the loop had it.            *)
Reports ==
    [known : BOOLEAN, devices : SUBSET Devices, available : SUBSET Devices,
     seen : [Devices -> SUBSET Procs],
     listed : SUBSET Devices, truth : [Devices -> SUBSET Procs],
     reset : BOOLEAN, launches : 0..MaxLaunches]

NoProcs == [d \in Devices |-> {}]
Unknown == [known |-> FALSE, devices |-> {}, available |-> {}, seen |-> NoProcs,
            listed |-> {}, truth |-> NoProcs, reset |-> TRUE, launches |-> 0]

(* History of an inventory under way when freshGPU is reset.              *)
Aged(r, launch) ==
    [r EXCEPT !.reset = TRUE,
              !.launches = IF launch /\ @ < MaxLaunches THEN @ + 1 ELSE @]

(* Mutant: freshGPU is reset, and nobody is asked for a new inventory.     *)
ResetSilently(launch) ==
    /\ freshGPU' = FALSE
    /\ inventory' = [inventory EXCEPT !.reset = TRUE]
    /\ draft' = IF worker = "deliver" THEN Aged(draft, launch) ELSE draft
    /\ probes' = {Aged(r, launch) : r \in probes}
    /\ UNCHANGED <<probe, worker, last>>

(* freshGPU := false and requestProbe.                                     *)
Reset(launch) ==
    /\ freshGPU' = FALSE /\ probe' = TRUE
    /\ inventory' = [inventory EXCEPT !.reset = TRUE]
    /\ draft' = IF worker = "deliver" THEN Aged(draft, launch) ELSE draft
    /\ probes' = {Aged(r, launch) : r \in probes}
    /\ UNCHANGED <<worker, last>>

Untouched == UNCHANGED <<freshGPU, probe, inventory, draft, probes, worker, last>>

-----------------------------------------------------------------------------
(* The worker: Refresh                                                     *)

(* A request or the refresh interval wakes it.                             *)
TakeRequest ==
    /\ worker = "idle" /\ probe
    /\ worker' = "devices" /\ probe' = FALSE
    /\ UNCHANGED <<worldVars, jobVars, loopVars, draft, last, probes, failures>>

RefreshInterval ==
    /\ worker = "idle"
    /\ worker' = "devices"
    /\ UNCHANGED <<worldVars, jobVars, loopVars, probe, draft, last, probes, failures>>

(* Without an answer: the static UUIDs, or what is remembered, unavailable.*)
Fallback ==
    IF Static # {} THEN [known |-> TRUE, devices |-> Static, available |-> Static]
    ELSE [last EXCEPT !.available = {}]

(* Mutant: the devices remembered stay as available as they were.          *)
DiscoveredUnmarked(ok, listed) ==
    IF ok THEN [known |-> TRUE, devices |-> listed, available |-> listed]
    ELSE last

Discovered(ok, listed) ==
    IF ok THEN [known |-> TRUE, devices |-> listed, available |-> listed]
    ELSE Fallback

(* The device query finds all devices or some, or fails.                   *)
QueryDevices ==
    /\ worker = "devices"
    /\ \E ok \in BOOLEAN, listed \in SUBSET Devices :
          LET found == Discovered(ok, listed) IN
          /\ ~ok => listed = {}
          /\ IF listed = Devices THEN UNCHANGED failures
             ELSE failures < MaxFailures /\ failures' = failures + 1
          /\ draft' = [Unknown EXCEPT
                         !.known = found.known,
                         !.devices = found.devices \intersect Allowed,
                         !.available = found.available \intersect Allowed,
                         !.listed = listed, !.reset = FALSE]
          /\ worker' = IF Avoid /\ found.devices \intersect Allowed # {}
                       THEN "processes" ELSE "deliver"
    /\ UNCHANGED <<worldVars, jobVars, loopVars, probe, last, probes>>

WithoutList(r) == [r EXCEPT !.available = {}]

(* The process query, which may fail.                                      *)
QueryProcesses ==
    /\ worker = "processes"
    /\ LET asked == [draft EXCEPT !.truth = procs, !.reset = FALSE, !.launches = 0] IN
       \/ /\ draft' = [asked EXCEPT !.seen = [d \in Devices |->
                          IF d \in draft.devices THEN procs[d] ELSE {}]]
          /\ UNCHANGED failures
       \/ /\ failures < MaxFailures
          /\ draft' = WithoutList(asked)
          /\ failures' = failures + 1
    /\ worker' = "deliver"
    /\ UNCHANGED <<worldVars, jobVars, loopVars, probe, last, probes>>

(* The send blocks while the loop has not taken the one before.            *)
Send(r) == probes = {} /\ probes' = {r}

Deliver ==
    /\ worker = "deliver"
    /\ Send(draft)
    /\ last' = [known |-> draft.known, devices |-> draft.devices, available |-> draft.available]
    /\ worker' = "idle"
    /\ draft' = Unknown
    /\ UNCHANGED <<worldVars, jobVars, loopVars, probe, failures>>

Refresh == QueryDevices \/ QueryProcesses \/ Deliver

-----------------------------------------------------------------------------
(* The loop                                                                *)

Goto(place) == pc' = place

(* Mutant: only the first inventory counts as fresh.                       *)
ReceiveOnce ==
    /\ pc = "select"
    /\ \E r \in probes : inventory' = r
    /\ probes' = {}
    /\ freshGPU' = (freshGPU \/ ~inventory.known)
    /\ Goto("reconcile")
    /\ UNCHANGED <<worldVars, jobVars, workerVars, probe, pass, failures>>

(* d.inventory := what the worker sent; it is fresh from now on.           *)
Receive ==
    /\ pc = "select"
    /\ \E r \in probes : inventory' = r
    /\ probes' = {}
    /\ freshGPU' = TRUE
    /\ Goto("reconcile")
    /\ UNCHANGED <<worldVars, jobVars, workerVars, probe, pass, failures>>

(* The tick of the scheduler, a wake-up, or a request that changes nothing.*)
Tick ==
    /\ pc = "select"
    /\ Goto("reconcile")
    /\ UNCHANGED <<worldVars, jobVars, workerVars, inventory, freshGPU, pass, probe, probes, failures>>

(* validateCapacity: the devices known, busy or not.                       *)
Fitting(j) == inventory.known => Need[j] <= Cardinality(inventory.devices)

Submit(j) ==
    /\ pc = "select" /\ state[j] = "none" /\ Fitting(j)
    /\ state' = [state EXCEPT ![j] = "queued"]
    /\ Reset(FALSE)
    /\ Goto("reconcile")
    /\ UNCHANGED <<worldVars, held, pass, failures>>

(* qdel of a job that waits; the other accepted requests reset as well.    *)
Delete(j) ==
    /\ pc = "select" /\ state[j] = "queued"
    /\ state' = [state EXCEPT ![j] = "done"]
    /\ Reset(FALSE)
    /\ Goto("reconcile")
    /\ UNCHANGED <<worldVars, held, pass, failures>>

Finished == {j \in Jobs : state[j] = "ended"}

(* finish releases what ended jobs held.                                   *)
Reconcile ==
    /\ pc = "reconcile"
    /\ state' = [j \in Jobs |-> IF j \in Finished THEN "done" ELSE state[j]]
    /\ held' = [j \in Jobs |-> IF j \in Finished THEN {} ELSE held[j]]
    /\ IF Finished # {} THEN Reset(FALSE) ELSE Untouched
    /\ Goto("schedule")
    /\ UNCHANGED <<worldVars, pass, failures>>

(* classifiedInventory: a listed process that still exists is foreign.     *)
Usable == {d \in inventory.available : inventory.seen[d] \intersect procs[d] = {}}

Schedule ==
    /\ pc = "schedule"
    /\ pass' = [todo |-> {j \in Jobs : state[j] = "queued"},
                free |-> Usable \ UNION {held[j] : j \in Jobs}]
    /\ Goto("pass")
    /\ UNCHANGED <<worldVars, jobVars, workerVars, inventory, freshGPU, probe, probes, failures>>

First == Min(pass.todo)
Fits == Need[First] <= Cardinality(pass.free)
Picks == {g \in SUBSET pass.free : Cardinality(g) = Need[First]}
Rest(g) == [todo |-> pass.todo \ {First}, free |-> pass.free \ g]

Lacks ==
    /\ pc = "pass" /\ pass.todo # {} /\ ~Fits
    /\ pass' = Rest({})
    /\ UNCHANGED <<worldVars, jobVars, workerVars, inventory, freshGPU, pc, probe, probes, failures>>

Trusted == Avoid => freshGPU

(* The allocation waits for an inventory; its devices stay taken.          *)
Skip ==
    /\ pc = "pass" /\ pass.todo # {} /\ Fits /\ ~Trusted
    /\ probe' = TRUE
    /\ \E g \in Picks : pass' = Rest(g)
    /\ UNCHANGED <<worldVars, jobVars, workerVars, inventory, freshGPU, pc, probes, failures>>

(* Reserve and launch; a launch that fails is finished at once.            *)
Launch ==
    /\ pc = "pass" /\ pass.todo # {} /\ Fits /\ Trusted
    /\ \E g \in Picks, ok \in BOOLEAN :
          /\ state' = [state EXCEPT ![First] = IF ok THEN "active" ELSE "done"]
          /\ held' = [held EXCEPT ![First] = IF ok THEN g ELSE {}]
          /\ pass' = Rest(g)
    /\ Reset(TRUE)
    /\ UNCHANGED <<worldVars, pc, failures>>

PassDone ==
    /\ pc = "pass" /\ pass.todo = {}
    /\ pass' = [todo |-> {}, free |-> {}]
    /\ Goto("select")
    /\ UNCHANGED <<worldVars, jobVars, workerVars, inventory, freshGPU, probe, probes, failures>>

Request == \E j \in Jobs : Submit(j) \/ Delete(j)
Pass == Reconcile \/ Schedule \/ Lacks \/ Skip \/ Launch \/ PassDone

-----------------------------------------------------------------------------
(* What goes on outside                                                    *)

Ends(j) ==
    /\ state[j] = "active"
    /\ state' = [state EXCEPT ![j] = "ended"]
    /\ UNCHANGED <<worldVars, held, workerVars, loopVars, probe, probes, failures>>

Arrives(p) ==
    /\ p \in yet
    /\ yet' = yet \ {p}
    /\ \E d \in Devices : procs' = [procs EXCEPT ![d] = @ \union {p}]
    /\ UNCHANGED <<jobVars, workerVars, loopVars, probe, probes, failures>>

Leaves(p) ==
    /\ \E d \in Devices :
          p \in procs[d] /\ procs' = [procs EXCEPT ![d] = @ \ {p}]
    /\ UNCHANGED <<yet, jobVars, workerVars, loopVars, probe, probes, failures>>

World ==
    \/ \E j \in Jobs : Ends(j)
    \/ \E p \in Procs : Arrives(p) \/ Leaves(p)

Init ==
    /\ procs = NoProcs /\ yet = Procs
    /\ state = [j \in Jobs |-> "none"] /\ held = [j \in Jobs |-> {}]
    /\ probe = TRUE
    /\ worker = "idle" /\ draft = Unknown
    /\ last = [known |-> FALSE, devices |-> {}, available |-> {}]
    /\ probes = {}
    /\ inventory = Unknown /\ freshGPU = FALSE
    /\ pc = "select" /\ pass = [todo |-> {}, free |-> {}]
    /\ failures = 0

Next ==
    \/ TakeRequest \/ RefreshInterval \/ Refresh
    \/ Receive \/ Tick \/ Request \/ Pass
    \/ World

Spec == Init /\ [][Next]_vars

(* Select picks any case that is ready, so what stays ready is picked; the *)
(* rest of the loop, the worker and both tickers go on.  Foreign processes *)
(* leave in the end, and so do jobs; nobody has to ask for anything.       *)
Fairness ==
    /\ SF_vars(Receive) /\ SF_vars(Tick) /\ WF_vars(Pass)
    /\ WF_vars(TakeRequest) /\ WF_vars(RefreshInterval) /\ WF_vars(Refresh)
    /\ \A j \in Jobs : WF_vars(Ends(j))
    /\ \A p \in Procs : WF_vars(Leaves(p))

FairSpec == Spec /\ Fairness

-----------------------------------------------------------------------------
(* Properties                                                              *)

TypeOK ==
    /\ procs \in [Devices -> SUBSET Procs] /\ yet \subseteq Procs
    /\ state \in [Jobs -> {"none", "queued", "active", "ended", "done"}]
    /\ held \in [Jobs -> SUBSET Devices]
    /\ probe \in BOOLEAN /\ freshGPU \in BOOLEAN
    /\ worker \in {"idle", "devices", "processes", "deliver"}
    /\ {draft, inventory} \union probes \subseteq Reports
    /\ \A r, s \in probes : r = s
    /\ last \in [known : BOOLEAN, devices : SUBSET Devices, available : SUBSET Devices]
    /\ pc \in {"select", "reconcile", "schedule", "pass"}
    /\ pass \in [todo : SUBSET Jobs, free : SUBSET Devices]
    /\ failures \in 0..MaxFailures

(* The step reserves devices for a job, and these are they.                *)
Launching == pc = "pass" /\ \E j \in Jobs : state[j] = "queued" /\ state'[j] # "queued"
Given == pass.free \ pass'.free

(* Whatever happened since it was last reset, an inventory that postdates  *)
(* the reset is asked for or under way: no request for a probe is lost     *)
(* between the two channels (requestProbe, inventoryWorker).               *)
EveryResetAnswered ==
    inventory.reset =>
        \/ probe
        \/ worker \in {"devices", "processes"}
        \/ worker = "deliver" /\ ~draft.reset
        \/ \E r \in probes : ~r.reset

(* No job is put on a device that the trusted inventory's own device query *)
(* did not find (without static UUIDs), or that had a foreign process then *)
(* which it still has, whichever query failed: what is unknown is not free *)
(* (Refresh, classifiedInventory).                                         *)
KnownFreeOnly ==
    [][Launching =>
          /\ Static = {} => Given \subseteq inventory.listed
          /\ Avoid => \A d \in Given : procs[d] \intersect inventory.truth[d] = {}]_vars

(* The queries behind a launch precede at most two other launches: one     *)
(* that used the inventory before, one that used what lay in the channel.  *)
StalenessBounded == [][Launching /\ Avoid => inventory.launches <= 2]_vars

(* A job that waits for devices gets them once the queries succeed and     *)
(* foreign processes leave: neither channel blocks the other for ever.     *)
JobsGetDevices == \A j \in Jobs : state[j] = "queued" ~> state[j] # "queued"

=============================================================================
