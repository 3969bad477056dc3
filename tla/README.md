# A TLA+ model of pbotd

pbotd is a single-host batch system: a daemon queues PBS-style jobs in SQLite,
reserves CPUs, memory and GPUs for them, and starts each one through a detached
*runner* process that outlives the daemon. This directory models the parts of it
that are hard to test: what daemon, runners, workloads and clients do to each
other when any of them may be interrupted between any two steps, what the
scheduler makes of a queue that changes from pass to pass, and what is read from
values at the limits of their integers.

    tlc -workers 2 -config MCRecovery.cfg MCLifecycle.tla     # Recovery, Contention, Progress,
                                                              # LostResult, PhantomCancel, StaleStart
    tlc -workers 2 -config MCAdmission.cfg MCQueue.tla        # Admission, Dependencies
    tlc -workers 2 -config MCProbe.cfg MCInventory.tla
    tlc -workers 2 -config MCHooks.cfg MCHooks.tla            # likewise MCService, MCSubmission
    tlapm RefinementProofs.tla                                # and Folding and the others named *Proofs

## The system

| component | source | state | operations |
|---|---|---|---|
| attempt directory | `internal/executor/spec.go`, `internal/fsutil` | `spec.json`, `runner.json`, `control.json`, `authorize.json`, `started.json`, `result.json`, each published whole | written by the daemon (spec, control, authorize) and the runner (the others) |
| runner | `internal/executor/runner_linux.go` | process memory: cause, time of the first signal, start time | publish identity, poll for control or authorization, start the workload behind a gate, record it, open the gate, supervise, publish the result |
| workload | same, `process_linux.go`, `cgroup_linux.go` | a process group or cgroup | wait for the start token, run the script, leave descendants |
| daemon loop | `internal/daemon/daemon_linux.go`, `recovery_linux.go` | one goroutine; memory is rebuilt at start | reconcile, answer a request, reconcile, schedule, launch |
| control requests | `internal/daemon/control_linux.go` | - | qdel, qrerun, qhold, qrls, qalter, on jobs and arrays |
| job store | `internal/store/store.go` | tables jobs, attempts, allocations, events | transactions; `Reserve`, `Release`, `Save`, `SaveAttempt` |
| scheduler | `internal/scheduler/plan.go` | none | `Decide`: order, dependencies, capacity, array limits, protected reservation |
| job model | `internal/model/job.go` | - | states, `Aggregate` of arrays, identifiers |
| submission | `internal/daemon/submission_linux.go`, `cleanOrphans` | job directories | directory and script inside the transaction; removal of orphans |
| hooks | `internal/daemon/hooks_linux.go` | `HookState` of an attempt, a hook directory | claim, spawn, collect |
| GPU inventory | `internal/gpu`, `daemon_linux.go` | last inventory, `freshGPU`, a probe channel | refresh, classification of foreign processes |
| autostart | `internal/cli/platform_linux.go` | `daemon.lock`, the socket | a client that finds no daemon starts one |
| IPC | `internal/ipc` | connections, time limits | request and response over a Unix socket |
| parsers | `internal/pbs`, `internal/resource` | none | options, directives, array ranges, memory, walltime |
| configuration, command line | `internal/config`, `internal/cli` | none | start-up and printing |

How they interact. Daemon and runner share no memory and no connection (but for
a wake-up): they talk through the files of the attempt directory. The daemon
alone uses the database. Clients reach the daemon through the socket, and their
requests are taken one by one by the loop, which reconciles before and after
each. What makes this hard: a reservation becomes an execution in nine steps of
two processes, with a commit or a file between any two; reconcile reads files
and looks at processes one after the other while both change; controls, the
walltime and the end of the script race; and the daemon, a runner or the host
may be lost at any point. The same holds on a smaller scale for hooks, submissions,
the two channels between the loop and the inventory worker, and the lock and
socket over which clients and daemons meet. `PROJECT.json` lists the hazards by
line.

## Modules

    AttemptDir <- Runner <- Daemon <- Lifecycle <- Refinement (-> Contract) <- MCLifecycle
                         <- Hooks <- MCHooks
    Scheduler  <- Queue <- MCQueue
    Inventory  <- MCInventory
    Service    <- MCService
    Submission <- SubmissionParts (-> Options, Units, Arrays) <- MCSubmission

    Lifecycle  <- LifecycleProofs <- RefinementProofs (with Refinement)
    Queue      <- QueueProofs               Inventory  <- InventoryProofs
    Hooks      <- HooksProofs               Service    <- ServiceProofs
    SubmissionParts <- SubmissionProofs (-> Folding)

`A <- B` is an EXTENDS of A by B, `-> A` an INSTANCE of A. The modules of the first line share
the files of the attempt directory, as the processes do; Hooks takes the same
runner to a hook directory. Lifecycle, Queue, Inventory and Submission are views
of one daemon and one database: Lifecycle knows what becomes of an attempt and
lets the scheduler choose any plan; Queue knows how the plan is chosen and keeps
of an attempt only what it does to the job record; Inventory knows where the set
of usable devices comes from, which Queue leaves open; Submission knows what a
row of the job table leaves on disk, and Service how a request comes to the
loop.

**AttemptDir** - the files of an attempt `<<j, n>>`, the n-th attempt of job j;
`n` stands for the freshness of its UUID. A file is absent or complete
(`AtomicWrite` renames). Of a file's content only what somebody decides on is
kept: the kind of a control and whether its time lies after the walltime, the
state of a result.

**Runner** - `Run`, `execute`, `Workload`. Places of the runner are the points
between two effects others can see: each read or write of a file is an action.
`RunnerStep` is the process; `WorkloadStep` the group it started, and
`WalltimePasses` the clock. A gated workload whose gate closes without the
token is `aborted`: it never executes. Process group and cgroup are one group.
The interval between the walltime check and the later signals of one round of
the supervision loop is one action, `Tick`: nothing in it depends on the daemon
but the one read of `control.json` at its start.

**Daemon** - the loop. `pc` is the point it has come to, `job` the job it works
on, `seen` what it has read of that attempt's files in this pass: since
`seen` is kept while runner and workload go on, stale reads happen in the model
as they do in the code. A transaction is one action, as SQLite makes it; so is
each write of a file. `ReadRunner` ... `KillGroup` are the branches of
`reconcile` in their order; `Collect`, `Abandon` and `Reap` contain `finish`.
`todo` holds the active jobs of the pass, taken in any order, which is more
than the code does (by ID). Requests: `DeleteWaiting`, `DeleteActive`,
`DeleteAgain`, `Rerun`, `HoldOrRelease`, `Refuse`, and `PublishControl` as a
step of its own after the commit. `Reserve` is the scheduler's choice and the
store's transaction in one: `Plans` lets the scheduler choose any queued job and
any free devices, so what is checked holds for every order of the queue.
`rerunAsked` and `deleted` are history: no guard reads them.

Instants are not numbers. Where the code compares times, the model keeps
the comparison's result at the moment it is decided: `intent[j].past` (the
control came after the walltime), `late[j]` (after the result's EndedAt).

**Lifecycle** - the composition, the faults, fairness and all properties.
`DaemonDies` may fall between any two steps of the loop and loses its memory;
an I/O or database error ends the daemon as well and is the same action.
`RunnerDies` leaves a running workload behind. `Reboot` ends all processes and
leaves files and database.

**Scheduler** - `Decide` and what it calls. The code is one pure function with a
loop over the sorted jobs; the model walks the same loop one job per step, with
the locals of the function in `pass`: the jobs not yet looked at (`todo`), what is
left of CPUs, memory, devices and CPU numbers, how many subjobs of each array
run, the job under protection, and the plan so far (`start`, `failed`). A job is
failed by a dependency (`Fails`), waits for a hold, a dependency or its array
(`Waits`), lacks resources (`Lacks`) or gets them (`Allocates`).

* The sort by `QueuedAt` and ID is the relation `before`, a total order of the jobs
  that have not ended, kept by the actions that change `QueuedAt`: a submission and a
  rerun put jobs behind all others, by ID if there are several, an interrupted launch
  keeps its place. `First` is the job the loop comes to next.
* `aged` are the jobs that waited `reservation_after` or longer; being older means
  being earlier in the line, so `TimePasses` adds them from the front.
* Jobs, devices and the CPU numbers of a host are finite sets, and a host has a number
  for each CPU it offers (`JobsAssumption`, `DevicesAssumption`, `CapacitiesAssumption`):
  what is counted must be countable.
* CPUs and memory are amounts, which may be overdrawn after a restart on a smaller
  host. Which of the free devices and CPU numbers a job gets is left open: the
  code takes the first ones, and no property depends on it.

**Queue** - everything that feeds and follows a pass. Requests (`Submit`, `Hold`,
`Delete`, `Alter`) act on one job or on all children of an array, as one
transaction each. `Runs`, `Settle`, `Requeue` and `Interrupted` are what
reconciliation makes of an attempt; a rerun is one step from request to requeue.
`Tick` and `ProbeArrives` begin a pass, with any set of `Views` as the devices
found usable. The plan is carried out step by step (`FailDependent`, `Skip`,
`Reserve`, `PlanDone`), and the daemon may die before each. `Reserve` contains the
store's own admission (`Admitted`) and the launch that follows, which may fail.
`fresh` is `freshGPU`: requests, reservations of devices, ended attempts and a
start of the daemon clear it, only a probe sets it.

**Contract** - what the system promises of its jobs, without daemon, runners,
files or crashes: a job is waiting, busy or ended; it executes at most once while
busy, holds its devices from before until after, is repeated only when a rerun
was accepted, and never once its deletion was. **Refinement** reads that state
off Lifecycle's: status, devices and what was asked for off the database, the
execution off the processes. A transaction of the daemon becomes a step of the
contract, so does the opening of a gate and the end of a group; whatever is
written to or read from the attempt directory, and a crash of the daemon, is a
stutter.

**Inventory** - the inventory worker (`Refresh` in two queries, either of which
may fail or miss a device, with its fallbacks to static UUIDs and to what was
known), the channels `probe` and `probes` of capacity one, and the loop around
them: `select`, reconcile, schedule, the pass over the queue that launches GPU
jobs one by one and clears `freshGPU` after each. Foreign processes come and go
meanwhile. An inventory carries history: what was true when its queries were
made, whether `freshGPU` was reset since, and how many launches followed.

**Hooks** - `reconcileHooks`: the pass over completed attempts, the claim, the
spawn, the collection of a published result. The supervisor is the runner of
Runner.tla with the hook as its script and `hook_timeout` as its walltime;
`control` stays absent, so only that limit ends it, and no daemon is needed for that. A start of the daemon may
find a hook configured that was not there before, or none any more.

**Service** - clients, daemons, the flock, the socket path and the connections.
A client calls, tests the lock if nobody answers, lets it go, spawns a daemon,
polls, and calls again. A daemon takes the lock, opens the database, recovers,
removes the socket, listens, takes requests from a queue of `MaxConnections`, and
on its way out runs Run's deferred calls in their order (`Deferred`). A
connection passes from backlog to handler to queue to reply, and is closed under
the client wherever the code closes it. Processes may be stopped, killed or fail,
and clients give up or die, at any step.

**Submission** - row, directory and snapshot of one submission: the transaction
is open while the directory is made and the script written, the rows appear with
the commit, a rollback gives the IDs back, and `cleanOrphans` removes at a start
what no row names.

**Options, Units, Arrays** - what a submission consists of, parsed step by step
as the loops of the code do: directives and arguments, `Merge`, what qsub sends
(`Arguments`) and the daemon parses again, a value that looks like a flag included
(`AsArgument`), `Resolve`; `Export` with all four sources of a variable - what was
submitted, -v, the default PATH and the configured SHELL - in the order in which it
assigns them; memory and walltime with integers that have a width; array ranges with their limits.
**SubmissionParts** puts the four parts side by side, for all values of their constants. They share no state, so in
each behaviour one of them moves and the others stay as they started; that is
not a loss, as no interleaving of theirs exists in the code.

### Bounds

| bound | where | why it is enough |
|---|---|---|
| `MaxAttempts` | `Reserve` (Daemon), attempts with a hook | what an attempt leaves behind matters to the next one only: 2 shows rerun, requeue and supersession; 1 is used where a property speaks of one attempt |
| `MaxFaults` (Lifecycle) | `Fault` | each finding below needs at most two faults; what is proved is proved for every number |
| jobs, devices (Lifecycle) | cfg | attempts of different jobs meet only in devices and in the loop: two jobs and one device make them compete; jobs are symmetric |
| `Requests`, `Faults` | cfg | kinds left out of a run keep it small; every kind is in a passing run |
| jobs, capacity (Queue) | cfg | an array of two with limit 1 and a larger job on a host for two or three: the smallest queue in which a small job may pass a large one and a subjob waits for its sibling; four jobs for a dependency on an array beside a job that wants everything |
| `Wishes`, `Views`, `Capacities` | cfg | two requests per job at most, so that an alteration changes something; every set of devices may be usable; a restart on a smaller or larger host |
| `MaxCrashes` | `DaemonDies` (Queue) | a crash of the loop loses nothing but the pass, so one is enough for its effect on records |
| `MaxFailures` | queries (Inventory) | one failure shows each fallback after each success; a failing query changes nothing that the next one does not overwrite; no device is configured statically in the run, so that `KnownFreeOnly` is about what was found, and the theorems hold for any |
| `MaxLaunches` | history (Inventory) | how far launches are counted; 0 in the run, which does not look at them; `LaunchesAreRecent` is proved for every value |
| `MaxFaults` (Hooks) | `DaemonDies`, `RunnerDies` | two: one before and one after the claim, or one each of daemon and supervisor |
| clients, daemons, `MaxConnections`, `MaxFaults` (Service) | cfg | two of each race for lock and socket and one may outlive the other; two connections are enough for both clients, so the queue's bound is met but no client is turned away |
| `MaxID`, `Subjobs`, `MaxFaults` (Submission) | cfg | six IDs hold an array and its neighbours, IDs given back and handed out again; three faults allow a failure, a failed removal and a crash |
| `Menu`, `MaxArguments` | Options | every kind of argument at least once, three at a time in every split between script and command line |
| `Variables`, `Submitted`, `Baseline`, `Managed`, `Shell`, `DefaultPath` | Options | a variable of each kind: in the baseline, outside of it, set by pbotd itself, and PATH and SHELL, which Export assigns on its own. The submission has no PATH, so the default shows; each value differs from every other, so a value tells its source |
| `MaxInt`, `Amounts` | Units (its `Numbers`) | 14 bits, with the numbers on both sides of every limit that the loop or a factor can reach |
| `MaxMembers`, `MaxIndex`, `MaxSegments`, `Indices` | Arrays | two segments may overlap and pass either limit together |

## What the runs show

| run | bounds | properties |
|---|---|---|
| MCRecovery | 1 job, 2 attempts, 1 fault of any kind, all requests | TypeOK, NoSilentReexecution, ReleasedOnlyWhenGoneOrUnseen, ExecutedImpliesAuthorized, SupersededRunnerRevoked, CancelSticks, ContractKeptSupervised |
| MCContention | 2 jobs, 1 device, deletions, daemon crash or reboot | RowsMatchJobs, ContractKept |
| MCProgress | 1 attempt, 2 faults of any kind, all requests | DeletionDecides, NoJobStuck, EndedAttemptSettled, SupersededRunnerEnds, WalltimeEnforced |
| MCAdmission | 3 jobs, 2 devices, array limit 1, affinity, 2 hosts, 1 crash | PlanAdmitted, CPUsExclusive, WithinLimits, WorkConserving |
| MCDependencies | 4 jobs, an array that is rerun again and again, fairness | DependenciesRespected, FailedOnlyByDependency, DependentsResolved, NoStarvation |
| MCProbe | 2 GPU jobs, 1 device, 1 foreign process, 1 failure, fairness | EveryResetAnswered, KnownFreeOnly, JobsGetDevices |
| MCHooks | 2 attempts, 2 faults, fairness | HookAtMostOnce, RecordTrue, HooksHandled |
| MCService | 2 clients, 2 daemons, 2 faults, fairness | OneDaemon, AtMostOnce, NobodyLeftOut, CommandsEnd, StopsWhenTold |
| MCSubmission | 6 IDs, 3 faults; 3 arguments of 15; 14 bits; 2 segments | SnapshotKept, NeverInTheWay, CommittedKept, ReadAlike, AskedIsGranted, ValuesExact, MembersExact |

Attempts (Lifecycle, Refinement)

* **NoSilentReexecution** - a script executes a second time only after an
  accepted qrerun. **CancelSticks** - after an accepted deletion of an active job no
  step queues it, starts it or authorizes an attempt of it, whatever crashes in
  between. **DeletionDecides** - a deletion that was accepted before the walltime had
  passed and before the result got its EndedAt makes the job CANCELLED, also when
  its runner timed out or completed before it saw the control; and a job ends TIMEOUT
  only when its script executed and its walltime passed.
* **ReleasedOnlyWhenGoneOrUnseen** - devices are released only when nothing of the
  script executes, or when its runner is dead and the record does not claim that
  the script is gone.
* **ExecutedImpliesAuthorized** - authorization committed, published, and the
  workload's identity durable before the script runs.
* **SupersededRunnerRevoked**, **SupersededRunnerEnds** - a runner whose attempt
  was given up has been told, and ends.
* **RowsMatchJobs** - allocations table and job records agree, so a plan is never
  refused by the table.
* **ContractKept**, **ContractKeptSupervised** - the refinement: the whole system
  implements Contract if runners are not killed; if they are, every step does
  but those taken while a script runs whose runner is dead.
* **NoJobStuck**, **EndedAttemptSettled** - if the daemon comes back, every launch
  and every termination comes to an end and the devices are freed.
  **WalltimeEnforced** - a live runner ends a script past its walltime, whether the
  daemon comes back or not.

The queue

* **PlanAdmitted** - every reservation of a plan is accepted by `Reserve`, which
  counts again and on its own; a refusal would end the daemon.
* **WithinLimits**, **CPUsExclusive** - a reservation never overdraws CPUs, memory or
  the array's limit, jobs being terminated included; no CPU number is given twice,
  which nobody but the plan checks. `WithinLimits` is a property of steps:
  after a restart on a smaller host the running jobs may exceed it.
* **WorkConserving** - whoever could start beside the plan, and does not, waits for
  an aged job; **NoStarvation** - that protection is enough: a job that fits the
  idle host starts at last, whatever comes before it again and again. Both say the
  same of opposite mistakes in `Fits`.
* **DependenciesRespected**, **FailedOnlyByDependency**, **DependentsResolved** - a
  job starts only when all it depends on completed, an array with all its
  subjobs; it fails unstarted only when that became impossible, and then it does.

Around the daemon

* **EveryResetAnswered** - whenever `freshGPU` was cleared, an inventory that
  postdates it is asked for or under way; no combination of full channels loses
  it. **JobsGetDevices** - so every queued GPU job gets its device in the end.
  **KnownFreeOnly** - and never one that the trusted inventory did not find, or
  on which it saw, or should have seen, a foreign process that is still there.
* **HookAtMostOnce**, **RecordTrue**, **HooksHandled** - a hook runs once at most; the
  record is what its supervisor published; a supervisor comes to an end by its own
  time limit, with or without a daemon; with a daemon that comes back and has a
  hook configured every completed attempt's is claimed and every published result
  recorded.
* **OneDaemon** - one process at a time is between its look at the lock and the
  close of the database, and one that runs its loop is the one the socket leads
  to. **AtMostOnce** - a command carries out one submission at most although it
  may call twice, and one if it reports success. **NobodyLeftOut** - without
  faults every command succeeds, whichever clients and daemons start together.
  **CommandsEnd**, **StopsWhenTold** - every command ends, and so does a daemon told
  to, whoever waits for it.
* **SnapshotKept**, **CommittedKept** - a row always has its snapshot and no step
  removes what belongs to a committed job, attempt directories of subjobs, which
  no submission made, included. **NeverInTheWay** - a submission meets the
  directory of an earlier one only if a removal failed.
* **ReadAlike** - a command line means the same to qsub and to the daemon: what qsub
  sends is parsed to what qsub had parsed (`SentAsParsed`), and merging two pieces is
  the same as reading one after the other (`MergeIsRereading`). **AskedIsGranted** - the
  devices and the queue of a job are those asked for, from whichever source, and no
  default overrides them (`RequestGranted`); each variable of its environment has the
  value of the source that comes first, which is the command line, the script, the
  submission and the default, in this order, but SHELL, which is always the configured one
  (`EnvironmentGranted`).
  **ValuesExact**, **MembersExact** - what is accepted is exact, what fits is
  accepted.

### Fairness

A runner that can take a step takes it, and a group that is being signalled ends,
because the signal becomes SIGKILL after the grace period: that is all
`UnattendedSpec` assumes, and `WalltimeEnforced` and `SupersededRunnerEnds` are
checked with no more. `NoJobStuck` and `EndedAttemptSettled` have
`DaemonFairness` as their premise: the loop has a ticker, and the daemon is
started again by systemd (`contrib/systemd`) or by the next client (`autostart`).
No request, no exit of a script, no walltime and no fault is ever forced.

In Queue the loop goes on (`WF` of `Loop`), probes arrive and time passes, each again
and again although other steps interrupt it (`SF`). That an attempt ends that
keeps getting the chance to is a premise of `NoStarvation`, not a claim: a job
without a walltime may run for ever. An end may be a rerun, so an array that is
rerun without end competes for ever, and does not win for ever.

In Inventory `select` picks a case that is ready in the end (`SF` of `Receive` and
`Tick`), the worker and the rest of the loop go on. Jobs end and foreign processes
leave: premises of `JobsGetDevices`. In Hooks a hook's time limit passes besides
(`hook_timeout` must be positive); as for attempts the daemon's fairness is a premise
of the part of `HooksHandled` that speaks of the daemon, and supervisors end
without it. In Service every process that can go on does (`WF`, separately for the
daemon's loop and for each handler); nobody starts a daemon out of fairness but
a client that has come to that point.

### Findings

Three runs are expected to fail; each states what a document of the repository
says.

* **MCLostResult** (`PublishedResultKept`): reconcile looks for `result.json` first
  and asks whether the runner is alive later. A runner that publishes and exits
  in between is recorded as lost and its result is never read.
* **MCPhantomCancel** (`CancelledByUser`): two crashes of the daemon around the
  cancellation it writes for a late runner make the job CANCELLED though nobody
  deleted it.
* **MCStaleStart** (`ReleasedOnlyWhenGone`): the same window for `started.json`,
  with a runner that dies: devices are released under a running script.

Four more disagreements were met and have no run of their own:

* `finish` drops a deletion that replaced a rerun just after EndedAt, and the rerun
  with it (`recovery_linux.go:239`), though `pbotd-design-spec.md:135` says that qdel
  during rerun cleanup leaves the job cancelled. `late` in Daemon models it, and
  `CancelSticks` and `DeletionDecides` say what
  remains true.
* An inventory begun before a launch may set `freshGPU` again after it
  (`daemon_linux.go:126`), though `docs/operations.md:68` requires a fresh query
  before a launch. `LaunchesAreRecent` says how old the answer may be: it may
  precede two other launches, never three.
* A client that finds the lock held by a daemon that is stopping only polls
  (`platform_linux.go:75`) and fails after its deadline, with no daemon left,
  though `docs/operations.md:89` says that autostart spawns one when no instance is
  running. `NobodyLeftOut` therefore speaks of behaviours in which nothing stops.
* `-v SHELL=...` is accepted and discarded: `Export` assigns the configured shell last
  (`options.go:236`), though `docs/compatibility.md:32` lets `-v` override selected
  values and rejects assignments to the names pbotd manages only, of which SHELL is
  none. `EnvironmentGranted` excepts it.

## What is proved

Every theorem holds for all values of the constants: any number of jobs, attempts,
devices, clients and daemons, every bound and every combination of faults, from
the assumptions on the constants and the premises named here alone. Unless said otherwise the property is
that of the same name in the runs.

**LifecycleProofs** proves `TypesHold` and from it `TypeCorrectness` (`TypeOK`).
`TypeOK` is not inductive: `Collect` writes what `result[it]` says into the
database, and `it` is an attempt only if the loop holds a job whose attempt
exists. `TypeInv` therefore adds `LoopInv`: the job in hand and the jobs of
`todo` are active (`JobInHand`, `TodoActive`), an active job's attempt is the last
one reserved (`CurrentIsLast`), and a result that is about to be read or
published is there (`ResultKnown`). The proof has a lemma for each group of
actions, one step per action.

What becomes of an execution rests on `TypesHold`:

* `ExecutionIsAuthorized` (`ExecutedImpliesAuthorized`). What the runner knows lags
  behind what the daemon did, so the property is not inductive; `GrantInv` follows
  the chain link by link: granted implies authorized, a runner past the
  authorization was granted, a runner at the gate has recorded the workload, what
  executes is recorded.
* `NothingIsRepeated` (`NoSilentReexecution`), from `GrantInv` and `RepeatInv`:
  `AuthorizedOnce` - a job has gone past an authorized attempt, to the queue or to a
  later attempt, only by an accepted rerun; `RerunIsAsked` - a pending rerun was
  accepted; `GivenUpUnauthorized` - the attempt about to be revoked or abandoned was
  never authorized. `DaemonKeepsExecution` and `ActiveStaysActive` dispose of the
  steps that touch none of it.

For the reservations the steps of the whole system are of four kinds, by what they
do to job records and table (`StepOnRecords`): nothing is reserved or given up, an attempt is finished, it is requeued, or one is reserved. From that follow

* `TableMatchesRecords` (`RowsMatchJobs`), by `RowInv`, the same statement for each
  pair of a device and an attempt;
* `DeletionSticks` (`CancelSticks`), by `CancelExits`: a job with a pending deletion
  is EXITING, and neither `finish` nor a requeue leads from there to the queue;
* `GivenUpRunnersAreRevoked` (`SupersededRunnerRevoked`). `SpawnInv`: a runner has a
  directory, so an attempt without one has no runner to be told. `AdoptInv`: at the
  points between a read and its use, what was read is good enough - an authorized
  runner is known, so its life is really looked at before the attempt counts as
  lost; at `abandon` a live runner has been told;
* `ReleaseIsSafe` (`ReleasedOnlyWhenGoneOrUnseen`). `PlaceInv`: what executes is watched
  or its runner is dead, and a result comes last; `HoldInv`: a runner on its way to
  the workload holds its reservation once authorized. It rests on all the
  invariants above: an attempt is given up with a result (nothing executes), without
  an authorization (nothing ever did), or with a dead runner.

**RefinementProofs** shows that Lifecycle implements Contract, and what decides an
outcome. `RefInv` is all of the
above with two parts more, `GateInv` (a runner that has not opened its gate has not
executed anything) and `AskedExits` (a busy job of which something was asked is
EXITING). Each step maps to one of the contract's, or to none:

* `SupervisedSystemKeepsContract` (`ContractKeptSupervised`), for faults of every
  kind;
* `SystemKeepsContract` (`ContractKept`) and `ReleaseIsLast` (`ReleasedOnlyWhenGone`),
  for every combination of faults without the death of a runner alone
  (`"runner" \notin Faults`): the finding MCStaleStart shows that the premise is
  needed. Then a dead runner has gone down with the host, and its script too
  (`Supervised`);
* `DevicesAreExclusive`, under the same premise: scripts that execute at the same
  time share no device, and each has as many as it asked for. `DeviceInv` says it of
  reservations, `ReleaseIsLast` brings it to executions.

* `DeletionInTimeDecides` (`DeletionDecides`), for faults of every kind, by `TimeoutInv`:
  whoever supervises a script has let it through (with `GateInv`), and where a cause, an
  outcome or a result says that the time was up, it was, and the script had been
  executing (`Overdue`, which stays so). `SettledDecides` is what `finish` makes of it.

**QueueProofs**: one inductive invariant, `IInv` (`QueueInvariant`), gives six of the
queue's properties. It has three parts.

* `TypeInv` and `RecordInv`, of the job records: children of an array exist together,
  what a job depends on exists (so that no array a job waits for is ever empty), no
  job has more CPU numbers than it asked for, and two of the properties themselves.
* `PlanInv`, while there is a plan. `Partition`: a waiting job is yet to be considered,
  to fail, to be started, or passed over. `Budget`, `Quota`, `Apart`: what is left and
  what chosen jobs were given is within what there is, and disjoint. These are
  inequalities on purpose: while the plan is carried out a launch may fail and its
  job leave, so that more is free than the plan knows, never less. `Settled`: what a
  decision was made for stays so, because terminal states are final (`Onward`).
* `Exact`, `PassedOver`, `ProtectedWaits`, while jobs are yet to be considered: nothing
  but `Consider` happens to the records then, so the account is exact, and a job
  that was passed over still lacks something (`Blocked`) or stands back.

From it follow `PlansAreAdmitted` (`PlanAdmitted`) - the plan's account from what was
free at its start and `Reserve`'s from what is active now agree -, `CPUsAreExclusive`
(`CPUsExclusive`), `DependenciesAreRespected` (`DependenciesRespected`), and of steps
`StartsWithinLimits` (`WithinLimits`), `FailuresAreExplained`
(`FailedOnlyByDependency`) and `PlansConserveWork` (`WorkConserving`). `QueueTyped` is
the type invariant. That sums of requests are finite and grow with the set
(`Amounts`) is proved from the fold's definition and the well-foundedness of the
inclusion of finite sets (`LeastSubset`); no induction principle is assumed.

**HooksProofs**: `HooksTyped`, `HooksRunOnce` (`HookAtMostOnce`) and `HookRecordsAreTrue`
(`RecordTrue`) by `HookInv`: where a supervisor is says whether the hook has run and
whether a result is there (`Placed`, `Published`); `CountedOnce` ties the count of
executions to the workload; `ClaimFirst` - without a claim there is no supervisor,
and no claim before the attempt has completed; `InLaunch` - between claim and spawn
the daemon is the only one to know of it, so that a crash there leaves a claim that
nobody spawns again. The runner's lemmas are stated for Hooks apart from the daemon
of Lifecycle, which shares its runner but not its loop.

**ServiceProofs**: `OneDaemonAtATime` (`OneDaemon`) by `LockInv` (whoever is past
`Acquire` and not past `Unlock` is the lock's holder, a client's test too) and
`SocketInv` (an open listener lies on the path and belongs to the holder).
`CarriedOutOnce` (`AtMostOnce`) by `OnceInv`: `ClientInv` counts what was carried out by
how far the client has come, `QueueInv` and `LoopInv` say that a request is in one
queue, at one place, or with one loop, and only before it was carried out.
`NobodyIsLeftOut` (`NobodyLeftOut`) for finitely many clients, no more than
`MaxConnections`, which is what the code's constant of 64 stands for; with more of
them the last ones are turned away, and should be. By `LockHeld` and, as long as there
was no fault, `Calm`: a daemon that has had the lock keeps it and finds the path
empty when it listens; a client that waits has a daemon on its way, or somebody
who will start one; and one that calls again finds a loop.

**InventoryProofs**: `ResetsAreAnswered` (`EveryResetAnswered`) with `ResetInOrder`: an
inventory that was sent later is not older, so that if it precedes a reset, all
before it do. `LaunchesAreRecent` (`StalenessBounded`, which no run checks: a
launch that is late by two takes four jobs and a full channel, too much for a run) by
`LaunchInv`, which counts ahead: an inventory on its way will see one launch for the
inventory that is trusted now and one for what lies in the channel before it.
`DevicesAreKnownFree` (`KnownFreeOnly`) by `FreeInv`: every inventory, drafted, in a
channel or trusted, is `Honest` - what it calls available its own query found and,
under the policy avoid, with all processes that were there seen -, and the processes still to come were not there
when it was made (`Past`), so that what a pass has left only lacks newcomers.

**SubmissionProofs**: `SnapshotsAreKept`, `CommittedAreKept` and `NothingIsInTheWay`, by
`SequenceInv` (IDs are handed out without a gap, those of the open transaction
last), `ParentInv`, and `OrphanInv` (what lies about without a row belongs to the
open submission, or could not be removed). `ValuesAreExact` (`ValuesExact`): the
guard before `seconds*60+n` lets exactly those parts pass whose sum fits
(`PartFits`), and the division before the product of a memory value does the same
(`MemoryFits`), so that nothing is ever wrapped (`WrappedIsExact`), in integers of any
width. `MembersAreExact` (`MembersExact`): the loop of a segment counts out what the
segment names (`MembersAreNamed`), as many as the test before it computes
(`MembersCounted`), so that the test refuses nothing that would have been accepted.

The two properties of Options are about command lines of any length, with any
arguments and finitely many variables (`OptionsAssumption`: the arguments are of the
kind Options describes, and a word or value has an entry at least, as a text that
is split at its commas has): what the loop of Parse computes is a fold.
**Folding** proves what folds of a constant operator `Op` satisfy - one element
more is one more step (`FoldOneMore`), a set that every step keeps (`FoldKeeps`), a
relation of two folds that every step keeps (`FoldRelated`), and that a sequence in two
parts is folded part by part (`FoldConcat`). Each is an induction, by the least
counterexample (`HasLeast`, from the well-foundedness of the naturals); an operator that
is the constant of an instantiated module, and not the parameter of a theorem, is one
the provers can replace. SubmissionProofs instantiates Folding for arguments
(`Reading`), resources, variables, lines and concatenation. `OptionsInv` says no more
than what is written; the argument is in the lemmas.

* `CommandLinesReadAlike` (`ReadAlike`), in two parts. `MergeIsRereading`: two readings
  of the same arguments, one of which had options p before, differ by p merged under
  the other at every argument (`After`, `ReadAfter`), whatever is refused, awaited or
  taken literally. `SentAsParsed`: what has been parsed of a field is such that it can
  be sent (`Valued`: a resource is one entry of its own name that is not of a chunk;
  `Environments`), sent as an argument of its own it is the same text again (`SameText`),
  each field and variable that is sent adds itself to what has been read
  (`FieldIsRead`, `VariableIsRead`), in whichever order (`PiecesAreRead`), and the two
  switches come last.
* `WhatIsAskedIsGranted` (`AskedIsGranted`), value by value: merging prefers the later
  source field by field (`MergeFields`) and keeps the names of variables that pbotd sets
  out of the environment; that PATH and SHELL are not among these, and that PATH is in
  the baseline, is part of `OptionsAssumption`.

### What is only model-checked

* Liveness, which needs fairness and ENABLED: NoJobStuck, EndedAttemptSettled,
  SupersededRunnerEnds, WalltimeEnforced, DependentsResolved, NoStarvation,
  JobsGetDevices, HooksHandled, CommandsEnd, StopsWhenTold.

Every other property of a run that is expected to hold is proved.

## What is not modelled

* Commands that only ask (qstat, nodes, doctor) and all printing; the reason shown
  for a waiting job, and which free device or CPU it gets.
* Configuration: parsing, validation and detection of the host. The scheduler is
  given a capacity that may change from start to start.
* Text: quoting (`tokenize`), `OutputPaths`, `NormalizeID`, nvidia-smi's CSV, framing
  and versions of the IPC, the environment a script is started with. Options works
  on arguments whose values are already entries; Units and Arrays on numbers.
* `RunnerError`, the outcome of an unreadable `control.json`: the daemon only
  publishes well-formed ones, and a file is read whole.
* Exit codes and resource usage in results; schema versions, ownership and modes of
  files.
* Reuse of process IDs: `Alive`, `GroupMembers` and `SignalIdentity` compare boot
  ID and start time, which the model takes as identity. For the same reason a
  process the inventory lists is foreign or not, without a look at its ancestors.
* Submission in Queue is one step, and a request there and in Lifecycle is taken at
  once; how it gets to the loop is Service, whose requests are all submissions. A
  status poll is one step in Service, and the poll's deadline is longer than any
  start of a daemon; nobody is refused for want of a connection.
* When a hook's supervisor is killed what it started is left alone by the code, and
  by the model. A directory whose removal failed stays until the next start
  (`stuck`).
* Unsupported platforms (stubs that refuse to run), installation, examples.

## Plan

1. *(done)* AttemptDir, Runner, Daemon, Lifecycle; Scheduler and Queue; their type
   correctness and safety.
2. *(done)* Contract and the refinement; Inventory, Hooks, Service, Submission;
   Options, Units, Arrays; theorems about the first, third and fourth.
3. *(done)* Theorems about Queue, Hooks, the values, ranges and options of a
   submission, the devices an inventory calls free, and the clients that start
   together.
4. *(left)* Configuration as a module of its own: detection against what is configured,
   and what a host that shrank does to jobs that no longer fit.
