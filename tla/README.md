# A verification project for SEPAL

SEPAL (`src/`) gives its users computing sessions on cloud instances, runs their
processing tasks in containers, and bills what they use. This directory holds
TLA+ models of its core, the TLC configurations that check them, and theorems
TLAPS has checked. The models are read from the code; each definition's lines
are in `PROJECT.json` under `map`.

## 1. The system

SEPAL is some thirty Node.js services around RabbitMQ, MySQL and Redis.

| Component | State it keeps | Operations | What is hard | What makes it correct |
|---|---|---|---|---|
| worker: instance allocation (`modules/worker/src/workerInstance`) | tags at the hosting service, table `instance_claim`, in-memory maps | request, release, sweeps, pool cycle, backfill | three authorities without a common transaction, every call a suspension point | one session per instance; an open session keeps its instance; nothing leaks |
| worker: provisioning | containers on the instance, `provisioningRegistry` | attempt, retry, forget, undeploy, probe | attempts that outlive their session by many minutes | a session is ACTIVE only with its containers; no one else's are touched |
| worker: hosting providers | EC2, or an in-memory fleet | launch, start, stop, tag, terminate, poll | eventual consistency, failures half way | a failed call never leaves an instance nobody accounts for |
| worker: sessions (`workerSession`) | table `worker_session` | request, close, activate, reconcile, missing sweep | verdicts older than the rows they are applied to | PENDING sessions settle, each close happens once |
| worker: session expiry | deadline and notification columns | extend, set, notify, mark, close, tokens | user and sweep race for the same row | nobody loses a session unwarned or inside the grace |
| worker: session apps, usage, locked users | tables, event-fed sets | associate, sample, lock | read-then-write, lost events | usage keeps a session alive, up to a cap |
| task-manager: tasks | table of tasks, containers, one promise queue | submit, dispatch, cancel, collect, reconcile, time out | containers outlive the process, cancel races completion | at most one container per task, terminal states stay, limits hold |
| task-manager: slots | slot columns, in-memory waiters | request, renew, release, reclaim | waiters vanish silently | never more slots than free, none lost |
| task runner (`modules/task`) | process-local | claim slot, run, report | lost replies | keeps its slot while it computes |
| budget | ledger of sessions, spending reports | check, enforce, report | events lost or late | over-budget users are stopped |
| gateway | per-user app sessions, websockets | start, proxy, close | concurrent starts | one sandbox per user and app |
| lib: messageQueue (`lib/js/shared/src/messageQueue.js`) | `#pending`, the connection; the broker's queue | publish, confirm, handle, retry, reconnect | connections cut between the broker's step and its answer, handlers that outlive their channel | nothing published disappears, handlers are repeated only when they must |
| lib: limiters | tokens | acquire, release | - | bounded concurrency |
| user, storage, recipe, message, scene-metadata, user-assets, user-files, gee | MySQL/Redis/files | CRUD and scans | mostly data | - |
| app-launcher, app-manager, r-proxy, terminal, ssh-gateway, email, ceo-gateway, gui, operations | - | I/O | - | - |

The user's browser talks to the gateway; the gateway asks the worker for a
session; the worker elects an instance by a row in `instance_claim`, tags it at
the hosting service, provisions containers on it over Docker's HTTP interface,
and inserts the session's row last. Events inside the worker
(`InstancePendingProvisioning`, `InstanceProvisioned`,
`FailedToProvisionInstance`) connect the parts; events to the other services go
over RabbitMQ. Jobs run every minute in the worker and put right what was left
half done.

## 2. The modules

| Part | Model | Instances | Proofs |
|---|---|---|---|
| what the worker promises of instances and sessions | `Leases` (abstract) | - | - |
| worker: allocation, provisioning, AWS provider, session lifecycle, sweeps | `InstanceAllocation`, refines `Leases` | `MCInstanceAllocation` | `InstanceAllocationTypes`, `InstanceAllocationProofs`, `InstanceAllocationContainers` |
| worker: session expiry | `SessionExpiry` | `MCSessionExpiry` | `SessionExpiryProofs` |
| what the task manager promises of a task | `TaskLifecycle` (abstract) | - | - |
| task-manager: tasks, supervisor, containers | `TaskSupervisor`, refines `TaskLifecycle` | `MCTaskSupervisor` | `TaskSupervisorProofs`, `TaskSupervisorRunner` |
| task-manager and task runner: local processing slots | `ProcessingSlots` | `MCProcessingSlots` | `ProcessingSlotsProofs` |
| what the message queue promises of a message | `Delivery` (abstract) | - | - |
| lib: messageQueue | `TopicQueue`, refines `Delivery` | `MCTopicQueue` | `TopicQueueProofs` |

The worker's parts are one module because none of their properties can be told
from one part alone. Expiry meets allocation only in a row becoming CLOSED, and
slots meet supervision only in when tasks start, are canceled and end, so each
pair is modelled apart, with the other's effect as an action of its own. What
other services hear of sessions and tasks they hear over the message queue; it
is modelled for any messages.

Four runs named `ia_`, the run `se_cycle`, two runs each named `ts_` and `ps_`,
and `tq_delivery` pass. Two, `ia_v_next_session_left_alone` and
`tq_v_failed_before`, show comments the code does not keep (section 8).

What could come next: the budget ledger and the gateway's sandbox sessions.

## 3. Instance allocation

### 3.1 State and actions

| Variable | In the code |
|---|---|
| `tag`, `owner`, `starting`, `host` | the State, SessionId and Starting tags and the running state of an EC2 instance |
| `containers` | the worker containers Docker reports on it, by session |
| `claim` | `instance_claim`, the primary key being the instance |
| `row`, `rowInstance` | `worker_session.state`, `instance_id` |
| `req`, `candidates`, `target` | where `requestSession` is, what it listed, what it has elected |
| `rel` | where `releaseFromSession` is, for each instance and session; its key is that of the `releasing` map, so a second caller joins |
| `registry`, `prov` | `provisioningRegistry` and where `provisionInstance` is |
| `unused`, `reclaim`, `cycle`, `probe`, `misses` | what each sweep has read and has still to act on |
| `phase`, `backfill` | `start()` of the instance component |
| `polled` | started instances the poll has listed and not yet untagged |
| `disturbed` | history: instances on which an attempt that was no longer current removed or created containers, or a container failed by itself |

Every action is the code from one `await` to the next. `requestInstance` is
`ClaimIdle`, `Reserve`, `AwaitHost`, then `ListPooled`, `ClaimPooled`,
`StartPooled`, then `LaunchReserved`, `ClaimLaunched`, `AwaitLaunched`, and
`InsertRow` ends it; the catch blocks are `UndoClaim`. `releaseInstance` is
`GetInstance`, `Undeploy`, `ReleaseClaim`, `TagIdle` and, on an exception,
`TerminateFailed`, `DropFailed`. Each sweep reads in the order the code reads:
rows, listing, claims. A restart (`Crash`) drops everything in memory and leaves
claims, rows, tags and containers.

`Leases` is what all of this amounts to: a session asks, is given a clean
instance that nobody has, opens, uses that instance and no other, and closes or
gives up; the instance is given to another only after its session is over and
what ran on it has been taken down, or it is returned to EC2 for good. There are
no tags, claims, sweeps or restarts in it. The mapping (`Stage`, `Lessee`, `Used`)
reads the lessee from the reservation, so an instance is let when it is tagged,
not when it is claimed, and returned when `TagIdle` has removed the tag; a
session is over when its request has failed or its row is CLOSED. Containers on
an instance in `disturbed` are nobody's.

### 3.2 What the model assumes

* **Time** is not a variable. Two ages are replaced by what they stand for: an
  instance still launching is younger than the five minutes of
  `ReleaseUnusedInstances`; and a claim older than `CLAIM_GRACE_MS` belongs to
  a request that had settled before the sweep began, unless `SlowAllocation`.
* **Listings.** Between the listing of idle instances and the claim of one, an
  instance may be taken, and given up by its taker; `StaleListings` says whether
  a request may be slow enough to meet such an instance with its claim already
  free. With it `SessionKeepsInstance` does not hold, `HeldByOne` does.
* **Failures.** `Failing` names the calls that may fail, `MaxFailures` bounds how
  often. A failed `CreateTags` terminates, as `tagInstance` does.
* **Ten attempts** of provisioning are as many as the scheduler likes;
  `ProvisionExhausted` is the tenth. Since they last minutes, a request is not
  in flight any more by then, and when the attempts failed for want of a key no
  verdict of `reconcilePendingSessions` read before is still waiting.
* A container of a session stands for all of its images'. A stopped EC2 instance
  is one that has no host. Instance types are one.
* Not modelled: the provider's `sweep`, the local provider, the budget check,
  volumes, `CloseTimedOutSessions` other than as `CloseSession`.

### 3.3 Runs

Two sessions on one instance are enough for every conflict about an instance:
the properties relate one instance to the session that has it and the one that
had or will have it. Two instances are used where a request may fall back from
one to another. One failing call and one restart can happen at any step.

| Run | Question | Bounds |
|---|---|---|
| `ia_sweeps` | `SessionKeepsInstance`, `IdleIsClean`, `ContainerIsClaimed`; `LeasesKept`; with both sweeps | 2 sessions, 1 instance, 1 failure, 1 restart |
| `ia_pool_faults` | `TypeOK`, `HeldByOne` with the pool cycle | 2 sessions, 2 instances, any call fails once, stale listings |
| `ia_leaks` | `NoLeak` | 1 session, 2 instances, 1 failure, 1 restart |
| `ia_pending` | `TeardownIsOwn`, `ActivatedIsProvisioned`, `PendingSettles` | 2 sessions, 1 instance, 1 failure (an attempt, a container, the row's insert), 1 restart |

`ActivatedIsProvisioned` excepts an instance in `disturbed`: a container that
fails right after the probe leaves an ACTIVE session without it, which no code
could prevent, and so does an attempt that is no longer current, which is what
`ia_v_next_session_left_alone` shows (section 8). `ContainerIsClaimed` needs
that not both the undeploy of a release and the terminate after it fail: then the
catch of `releaseFromSession` drops the claim while containers are left. One
failure, as in `ia_sweeps`, cannot do that. `LeasesKept` holds all the same,
since such an instance stays reserved.

**Fairness.** `NoLeak` and `PendingSettles` need what the event loop gives: a
handler whose call has returned goes on (`WF` of each request, release and
provisioning attempt), instances boot, the poll and the scheduled jobs run
(`scheduler.js` starts a job again after it ended, whatever it threw). Attempts
that lack a key fail until the tenth, which `reconcilePendingSessions`'s
verdicts interrupt again and again, so `ProvisionExhausted` is strongly fair:
attempts are counted in the code, whatever the sweep does meanwhile. No fairness
makes a user close a session. `PendingSettles` leaves out the failures after
which the code relies on `closeTimedOutSessions`, for instance a terminated
instance whose host no longer answers.

### 3.4 What is proved

`InstanceAllocationTypes` proves `TypeCorrect == Spec => []TypeOK` for all
constants that satisfy `ConstantsAssumption`. `TypeOK` is inductive. The proof
has one lemma for each of its five parts, each with one step for each group of
actions; helper lemmas say what `Retag`, `Terminated`, `StartRelease`,
`RunProvision` and `CloseAndRelease` do to the types. It is not quite
bookkeeping: that a reserved instance names a session needs that every handler
that reserves has one. `InstanceAllocationProofs` proves, under `Calm` (no stale listing, no
allocation slower than the claim grace, and no failure of `getInstance`, of the
poll's untagging or of the claim of a launched instance - without each of which
TLC finds a counterexample),

* `IInvCorrect`: `IInv` is an invariant. `SessionKeepsInstance` alone is not
  inductive: that a claim which a sweep has read as stale is not renewed before
  it is dropped, or that a release under way is of a session which is closed for
  good, is a fact about what every other handler holds in hand. `IInv` is the
  conjunction of seven such facts: what a request holds at each of its steps
  (`RequestInv`), whose an owned instance is (`OwnerInv`), and for the releases,
  the three sweeps and the boot, what is still true of what they have read.
* `SessionKeepsInstanceCorrect`, which follows from it;

and, assuming only that no allocation outlasts the claim grace
(`~SlowAllocation`, without which TLC finds a counterexample),

* `HeldByOneCorrect`: no two open sessions have the same instance, whatever calls
  fail, whenever the worker restarts and however old a listing is. A session may
  then lose its instance, so `IInv` is of no use: a release that cannot read
  the owner terminates whatever it finds, and a launched instance may have no
  claim. What remains true is `Exclusion`, which `ExclusionCorrect` shows
  inductive. Its heart is `ExGrip`: the instance of a session is terminated, for
  good; or it is claimed for the session; or, where the claim of a launched
  instance could not be recorded, no other session, release or sweep has heard of
  it (`Fresh`, `OnlyBy`), which `ExFresh` says of instances not yet launched. From
  the claim follows that whoever is about to take an instance does not take one
  that is had (`ExOne`). The other parts say that what the releases and sweeps
  have in hand is of sessions that are over or of instances that are gone
  (`Past`). As in the proof about containers below, each part is kept because of
  what any step may do to requests, tags, claims, releases and lists (`Moves`). TLC
  checked `Exclusion` on two sessions and one or two instances, with every call
  failing and each sweep in turn, before it was proved.

`InstanceAllocationContainers` goes on from there, under `Calm` as well, for any
number of sessions, instances, failures and restarts. `KInvCorrect` says, on top
of `IInv`, whose containers an instance has and who may still touch them:

* `ContainerInv`: containers are of the session the instance is reserved for,
  which has a row, until its release has undeployed; if they outlast that, it is
  because `undeploy` has failed, and if they outlast the claim, `terminate` too;
* `AttemptInv`: an attempt of a session that may still be served is on that
  session's target, and one that has its key and is still registered is of the
  session that is reserved and claimed for, so that what it removes is its own;
* `PolledInv`: likewise for a provision the poll has yet to ask for;
* `ProbeInv`: a verdict of `reconcilePendingSessions` is some seconds old when
  it is applied. It is applied only where nobody is provisioning, and whoever is
  PENDING there by then has its containers, unless the instance is disturbed;
* `LiveInv`: a claim that `ReclaimStaleClaims` drops with its instance is of one
  nobody has a reservation on; `HostInv` and `FreshInv`: what is gone or was
  never launched has neither host, containers nor rows.

`IInv` and `KInv` were checked by TLC on the instances of the runs before they
were proved. The induction has a layer between the actions and the invariant:
`RowsStep`, `TagsStep` and their like say of every step how it can move rows,
reservations, claims, releases, attempts and containers, and each part of `KInv`
is kept because of those moves, without a look at the actions again. From `KInv`
follow

* `IdleIsCleanCorrect` and `ContainerIsClaimedCorrect`, the latter with the
  hypothesis it needs: fewer than two failures, or not both of undeploy and
  terminate among those that may happen;
* `TeardownIsOwnCorrect`: a release that undeploys is of whoever the instance is
  reserved for, and an attempt with a key that of the session itself;
* `ActivatedIsProvisionedCorrect`: by cases on whether an attempt or a verdict
  activates;
* `LeasesCorrect`, the refinement: each action is one abstract step or none
  (`LeaseStep`). The abstract guards are what has to be proved, and they
  come from the invariants: that an instance `Reserve` tags is clean
  (`ContainerInv`), that a session is not given two (`RequestInv`), that what
  `TagIdle` returns is of a session that is over and has been taken down
  (`ReleaseInv`, `ContainerInv`), that containers are created on the session's
  own (`AttemptInv`).

The induction step goes action by action. What most steps have in common is said
once: a step of a request, of a release, of a row or of the pool leaves the
parts of `IInv` that are not about it alone, because of what it leaves alone of
the state (`RequestMove`, `ReleaseMove`, `RowMove`, `PoolMove`, `SameView`). Each
action is shown to be such a move, and then only the part it is about remains.

## 4. Session expiry

### 4.1 State and actions

`SessionExpiry` is the row of each session in `worker_session` and everything
that writes its deadline or its warning.

| Variable | In the code |
|---|---|
| `state`, `timeout`, `notification`, `notified`, `lastInteraction`, `active` | the columns of the row; `NoTime` is NULL |
| `now` | `NOW()` of the database, in the unit of the settings |
| `mode` | `expiryPolicy.mode` of the running process |
| `sweep`, `waited` | where `expireSessions` is, the expired rows it read, what its own clock said; and the scheduler's fixed delay |
| `links` | the mailed tokens that may still verify, each a session and the time of the warning it was mailed for |
| `closed`, `hushed` | history: who closed a session and when; the last warning of it mailed or dismissed |

An action is one SQL statement with the guards of its WHERE clause:
`ExtendSession` is what `Interact` and `BusyExtend` call, one without and one
with the unattended cap. The sweep is `SweepRead`, `SweepClock` (it takes its
own time only after the read), then one item per session in any order:
`NotifyExpiry`, `CloseExpiredSession`, `RestartExpiryCycle`, `MarkEmailed`,
`LeaveAlone`, or `ItemFails`. Between any two of them users, load, links, other
closes, failures and a restart in another mode may happen.

### 4.2 What the model assumes

* The worker's clock differs from the database's by `Skew` at most, either way
  and anew at each reading; tokens are verified by the worker's.
* A sweep takes at most `Lag`, and the wait for the next as well; at least one
  unit passes between the end of one and the start of the next (a fixed delay
  of a minute; the columns have seconds). That two warnings of a session never
  have the same time rests on it, and `WarningInv` says so.
* A link names one warning, not more: what it is signed with is left out, and
  that it is used once is a consequence, since redeeming it ends the warning or
  the session.
* A failed mail is not modelled: the row says EMAILED from the moment the
  statement changed it, as in the code.
* What a close does to the instance is in `InstanceAllocation`; here it is a
  row becoming CLOSED.

### 4.3 Runs

| Run | Question | Bounds |
|---|---|---|
| `se_cycle` | `TypeOK`, `NotifiedIsExpired`, `GraceIsKept`, `RescueWins`; `MailedOnce`; `AbandonedCloses` | 1 session, events up to time 5, time ends at 22 |

Every statement is about the row of one session and the sweep treats each by
itself, so one session is enough to violate any of the properties; that holds
for any number of sessions is what the theorems say. With a lease and an
extension of 1, a cap and a grace of 2 and a skew of 1, five units hold a whole
cycle - request, activation, expiry, warning, rescue, a second warning - with a
restart or a failure in between. After the last event, load at most carries the
deadline to the cap, one cycle is wasted by load that sets in past the cap, and
two cycles of at most a grace, a skew and two sweeps each end well before 22;
`TimeIsUp` is the stuttering after it.

`AbandonedCloses` needs time to pass (`Tick`), the scheduled job to run
(`SweepRead`, `SweepClock`) and each item of a sweep to be done: weak fairness
of each, which `scheduler.js` gives by arming the next run when one has ended,
however it ended. Users, load, links, failures and restarts are not fair.

### 4.4 What is proved

`SessionExpiryProofs` proves, for any set of sessions and any natural values of
the settings, that `TypeOK` and `IInv` are invariants, and from them
`NotifiedIsExpired`, `GraceIsKept`, `RescueWins` and the action property
`MailedOnce`. None of these is inductive by itself. `IInv` adds

* `LifeInv` - a session is never due before it was last used. It is what makes
  a warning later than the last use: a session that is past its deadline was
  last used before now;
* `WarningInv` - if the sweep may warn a session next, its last warning and its
  last mail are of an earlier time. It is what makes `notified_time` the name of
  a warning, on which the guards of `markEmailed` and of the links rest.

The proof splits `IInv` into what each session promises (`RowInv`, `Spaced`)
and what each link does (`LinksInv`). `OutsideStep`, `SweepStep` and
`RowsKeptStep` reduce a step to the one row it writes; `ExtendInv` is about the
extension, by cases on whether the deadline moves. The only assumption is
`ConstantsAssumption`; that an extension is worth at least a minute is needed,
and the values of cap, skew and grace are not.


## 5. Task supervision

### 5.1 State and actions

| Variable | In the code |
|---|---|
| `state`, `removed`, `created` | the columns of table `task`; "none" is a task not submitted yet |
| `overdue` | tasks whose `progress_time` (ACTIVE) or `update_time` (CANCELING) is older than its timeout |
| `origin` | history: the task this one is a resubmission of |
| `container`, `files` | Docker's view of the task's container; its workspace and the result in it |
| `lateRuns` | starts that timed out in `DockerEngine.#withTimeout` and may still come through |
| `queue`, `pc`, `work` | the promise chain of `ContainerSupervisor`, where the job at its head is and what it holds |
| `watched`, `stopping` | `#watched` (and whether the end of the wait has queued its collect), `#stopping` |
| `phase` | `start()`: the first reconcile, the first dispatch, the timer |
| `cancels`, `resubmits`, `reborn` | users' calls between their reads and their writes |
| `asked` | history: tasks somebody asked to cancel |

Every action is the code between two awaits. The jobs of the queue run one after
the other; in between, users submit, cancel, remove and resubmit, containers
exit, waits and stops settle, starts given up on come through. `#launch` is
`Activate`, `Prepare`, `Run` and, when one of them throws, `MarkFailed`;
`#collect` is `Fetch`, `ReadResult`, `Settle`; `#discard` is `RemoveContainer`
and `WipeWorkspace`; `#reconcile` is `ListContainers`, `ReadRunning`, then one
step for each task read (`ReconcileLost`, `ReconcileRunning`, `ReconcileEnded`)
and for each container without one (`RemoveOrphan`); `#enforceTimeouts` is
`ReadStalled`, `FailStalled`, `ReadCanceling`, `ForceCancel`, with `Kill`.
`work.back` is where a nested call returns to, since `#collect` dispatches in the
middle of a reconcile and the same `#discard` ends a launch, a collect and a
kill. `stopContainer` awaits the queue as it is, which is to be queued behind it.

### 5.2 What the model assumes

* **Time.** A clock runs out (`BecomeOverdue`) whenever `enforceTimeouts` is about
  to read it; earlier makes no difference. A transition and a report start it
  anew, and so does a boot.
* **Failures.** `Failing` names the calls that may fail, `MaxFailures` how often.
  A failed write is one that was not stored, or one that was, with the failure
  put down to the step after it. A failed start may have created the container,
  have started it, or do so later. A failed stop leaves the container as it is.
* **The runner** ends with one of its three results or, killed or broken, with
  none; a container in `Hanging` does neither, nor does it report progress.
* A tick is modelled while at most `MaxQueue` jobs are queued: the timer does not
  wait for the queue, and ticks that pile up repeat each other's work.
* `Cancelable` and `Removable` bound which tasks users cancel, and which they
  remove or resubmit, so that a run can afford the rest.
* A container without a task label is not modelled: `#taskContainers` removes it
  at once and nothing else about it depends on a task.
* A submission repeated under the same id returns the existing task: it is no
  step. A user's list of tasks to remove is one removal for each.

### 5.3 Runs

| Run | Question | Bounds |
|---|---|---|
| `ts_safety` | `TypeOK`, `IInv`, `RerunOnce`; `RunnerLeftAlone`, `LifecycleKept`, `StoppedOnce` | 2 tasks of one user, 2 at most in all and 1 of the user, a start or a kill fails once, one task canceled, removed and resubmitted, 2 resubmissions at once |
| `ts_live` | `LimitsHold`, `CanceledOnRequest`; `CancelEnds`, `PendingStarts`, `NothingIsLeft` | 2 tasks of one user, 1 at most in all, both containers hang, both may be canceled, a removal or stop fails once, 1 restart |

Two tasks are enough for one to be in a job's hand while another changes beside
it. Each limit is the one that binds in one of the runs: the user's in
`ts_safety`, where `CountKept`, a part of `IInv`, is about it too, the global
one in `ts_live`. A restart is in `ts_live`; of the failures each run has those
its properties turn on, a start that comes through late and a kill that does not
in `ts_safety`, a removal and a stop in `ts_live`. The theorems of section 5.4
hold for failures of all eight calls and without the other bounds.

`StoppedOnce` is about calm runs (`failures + crashes = 0`). A stop that failed
is forgotten, which is what lets a reconcile repeat it; and after a restart the
first reconcile stops every CANCELING task's container again, whether its runner
has been sent a SIGTERM already or not, since `#stopping` is in memory only.
`NothingIsLeft` excepts the workspace after a restart: a process that dies between
removing a container and removing the workspace leaves the latter behind for
good, since a reconcile looks for containers and running rows.

What the code says of a cancel and a completion, that "whichever is stored first
wins" (`taskRepository.js:79`), is true of the cancel: it asks for ACTIVE. A
result is written over ACTIVE and CANCELING alike, so a task canceled in its last
moment ends as its runner says; `TaskLifecycle.End` allows that.

**Fairness.** The event loop runs the queue's next step, `start()` and the timer
(`WF` of `Supervise`, `Boot`, `Tick`); a cancel that has read its task goes on;
a container that does not hang exits; a wait and a stop settle, the latter
because Docker kills the container after the grace period. `BecomeOverdue` is
strongly fair: it can happen only where the timeouts are about to be read, again
and again, and a silent container's clock does run out. In `ts_live` every
container hangs, so what ends is ended by the stops and the timeouts alone.

### 5.4 What is proved

`TaskSupervisorProofs` proves, for all constants that satisfy
`ConstantsAssumption`, `TypeOK` inductive, variable group by variable group, then
`IInv` and from it `LimitsHold`,
`CanceledOnRequest`, `RerunOnce` and the refinement `LifecycleKept`, for any
tasks, users, limits, failures and restarts. `IInv` adds to the three

* `CountKept`: what a dispatch has counted is at least what runs. It counts once
  and then keeps count, while rows it counted may end beside it and a launch that
  fails does not count; that no other row starts to run meanwhile is because only
  the job at the head of the queue activates. From `pick` to `launchFailed` it
  says, step by step, which tasks the count includes.
* `ReadsHold`: a job that has read a row as CANCELING finds it CANCELING or
  finished, whatever users did since; an outcome to be stored is one that may be
  stored; a cancel in flight has been asked for.
* `RerunsAreRemoved`: a task run again has been removed, which happens once.

The limits are about cardinalities of sets that differ in one task
(`WithOne`, `OwnedWithOne`, `FewerRunning` and `SameCount` say how one step
changes them). The
refinement goes action by action (`LifecycleStep`): each one's row is written by one
of the abstract actions or not at all, and the abstract guard of `Launch`, that
there is room, is what `CountKept` says at `activate`.

`TaskSupervisorRunner` proves `RunnerLeftAlone`: nothing ends the running
container of an ACTIVE task but the runner itself, although a stop may have been
queued, a listing taken and a set of rows read long before. Rows only move on
(`AgesStep`, by the refinement), so it is enough to know how far the row of each
of those had come when it was taken. `RunnerInv` says it: of what has a container,
a wait or a start that may still come through the task has been launched
(`ContainersStarted`); a stop that is queued or issued is of one being canceled
or ended (`StopsAreAsked`); and so are those the job may kill, remove or find to
be an orphan, while the one it is about to run has no container yet
(`JobMayEnd`). A listed container without a running row is an orphan's only
because containers are listed before rows are read: the other way round, a task
launched in between would lose its container.

`StoppedOnce` rests on one fact more, `SignalRemembered`: as long as no call has
failed and the process has not died, a container that has been sent a SIGTERM is
in `#stopping`, where `Stop` looks before it sends one. A stop that settles has
ended its container, so forgetting it forgets nothing.

The three liveness properties are only model-checked.

## 6. Local processing slots

### 6.1 State and actions

| Variable | In the code |
|---|---|
| `state` | the state of the task's row, ENDED standing for the three finished ones |
| `slot`, `granted` | `slot_time`; and the last time one was set for the task. A grant time names the grant, so it is modelled as a counter of the task's grants |
| `waiters`, `ahead`, `unseen` | `#waiters`; which of them have the earlier `since`, a relation in place of the clock's times; those not seen for 30 s |
| `pc`, `work` | the job at the head of the supervisor's queue, the holders it read, and whether its container still awaits the answer |
| `up`, `aborted` | containers that run; those whose abort signal is set |
| `steps`, `hand`, `released` | `#steps`, `#slot`, `#releasedSlot` of the container's `LocalProcessing` |
| `asking`, `late` | a request is out, or the poll sleeps (`#requestUntilGranted`); requests nobody waits for any more |
| `releases` | releases on their way, from `#release` or repeated in a progress report |

`#requestSlot` is `ReadHolders`, then `RenewSlot` or `JoinLine`, then
`GrantSlot`; `JoinLine` has the whole of `LocalProcessingSlots.request`, which is
synchronous. `#releaseSlot` is one conditional update. A task ends by `End`,
`Discard` and `Forget`, as `#collect` and `#kill` do it, or after a failed kill
by a later `RemoveOrphan`.

### 6.2 What the model assumes

* Requests of one container reach the queue in the order they were sent: one
  given up on is handled before the next or not at all. Overtaken by the next, it
  could be granted a slot whose grant no container knows.
* Grant times of one task are distinct (they are a millisecond clock's, and
  requests of one container are a round trip apart).
* A container begins no more steps after `MaxGrants` grants.
* A release names its task; that its row is still running when the request is
  authenticated is left out, since a release of a task that has ended changes
  nothing that `Forget` would not.
* With one slot, the order of the line by what each user holds is the order of
  arrival; `InTurn` has both.

### 6.3 Runs

| Run | Question | Bounds |
|---|---|---|
| `ps_slots` | `TypeOK`, `SlotsAreEnough`, `ProcessingHolds`, `SlotIsInSight`, `IInv` | 2 tasks, 1 slot, 2 grants, 2 steps at once, 1 answer given up, 1 release lost, 1 failed kill, 1 restart, waiters late at will |
| `ps_live` | `WaiterIsGranted`; `EndedHoldsUntilGone` | 2 tasks, 1 slot, 2 grants, 1 release lost, waiters punctual |

With one slot and two containers, every grant is one that the other had to give
back; two grants are needed for a release of the first to meet the second. The
theorems are for any number.

`SlotsAreEnough` counts containers of running tasks. Those of tasks that have
ended are killed first and forgotten after, which is what the comment at
`containerSupervisor.js:330` says; `EndedHoldsUntilGone` checks it for runs
without a failed kill or a restart, after which a slot of a finished row is not
counted by `slotHolders` while its container still processes.

**Fairness.** The queue is FIFO, so a request or release in it is handled although
others come (`SF` of `ReadHolders`, `ReleaseSlot`, and of what ends a task whose
container is gone); a container's steps end and its polls go on; its heartbeat
repeats the last release; a canceled one is stopped, an aborted one exits; a
waiter that stopped asking is seen as such in the end. `WaiterIsGranted` rests
also on `MaxGrants`: a container whose next request always overtakes its own
release has its slot renewed each time, and nothing in the code stops it.

### 6.4 What is proved

`ProcessingSlotsProofs` proves, for any tasks, slots and faults, that `TypeOK`,
`IInv`, `SlotIsInSight` and `EndedHoldsUntilGone` are invariants, and from `IInv`
`ProcessingHolds` and `SlotsAreEnough`. `IInv` adds to the types it needs (`RowsOK`, `CallsOK`)

* `InHand`: a container that has a slot asks for nothing, no release on its way
  names that slot, and its row has it - which is why a release of an earlier
  grant, late or repeated, clears nothing it has;
* `GrantsGrow`: no grant in a row, a hand or a release is newer than the task's
  last, so that a new one has no release yet;
* `CountKept`: the holders a job has read include all there are until it grants,
  because only jobs of the queue grant, and they are fewer than the slots when it
  does.

`SlotIsInSight` needs besides that a job which answers has a container that waits
for the answer or asks again (`WaitsOn`); the two together are `Sight`.

`EndedHoldsUntilGone` rests on `EndedKept`, which holds while `failures + crashes
= 0`: a task that has ended is the one whose job is at the head of the queue, or
its container is gone and its row holds no slot; so all slots in rows, not only
those of running tasks, are at most `MaxSlots`, and every container that
processes has one of them. It is the counting argument of `CountKept` with the
running tasks' rows replaced by all rows, which is sound at a grant because a job
that grants is not one that ends a task.

`TypeOK` has `LineOK`: the waiters are in a strict order, whoever joins, is
dropped or is granted a slot (`OrderedPart`, `OrderedJoined`); `JoinLine` needs
it too, for the number of those in front of a waiter to be a number.
`WaiterIsGranted` is only model-checked.


## 7. The message queue

### 7.1 State and actions

`TopicQueue` is one service's `TopicPublisher`, the durable queue the broker
keeps for one subscriber, and that subscriber's `TopicSubscriber` in another
service.

| Variable | In the code |
|---|---|
| `published`, `pending` | messages given to `publish`; `#pending` |
| `channel`, `consuming` | whether the publisher has a working `#channel`, and whether the subscriber's is consuming |
| `wire`, `unconfirmed`, `refused` | messages sent and not yet with the broker; confirmations on their way; messages confirmed with an error |
| `place`, `again` | where each copy of a message is; whether it carries `fields.redelivered` |
| `orphans` | handlers that run on after their channel has closed |
| `served`, `dropped`, `lost`, `handled`, `failed` | history: how each message ended, and how often its handler did |

`#enqueue` and `#send` are `Publish`; `up` is `PublisherUp`, which sends all
that is pending anew; the callback of a publish is `Confirmed`, or, with an
error, what `BrokerRefuses` leaves pending. `#handleMessage` is `HandlerSucceeds`
and `HandlerFails`: an acknowledgement, one requeue after a delay, or a drop. A
cut connection takes with it what was on its way, whichever way it went; what
was delivered and not settled comes back as redelivered, while its handler goes
on (`OrphanEnds`).

### 7.2 What the model assumes

* RabbitMQ is external and does what AMQP says. It is not restarted: queues are
  durable and messages persistent, so to the two services a restart of it is a
  cut.
* One queue of one topic. Others get copies of their own.
* A message that is not JSON is left out: it is acknowledged without a handler.
* `MaxCopies` bounds how often the broker gets one message again.
* The order in which a queue hands out messages is left open; nothing is stated
  about it, and a requeue does not keep it.

### 7.3 Runs

| Run | Question | Bounds |
|---|---|---|
| `tq_delivery` | `TypeOK`, `RepeatedByCutsOnly`, `NoneUnaccounted`, `IInv`; `DeliveryKept`, `PublishedIsServed` | 2 messages, 2 copies of each, 1 cut, 2 failures, 1 death |
| `tq_v_failed_before` | where the code and a comment part (section 8) | 1 message |

Two messages are needed for a cut to find one unsent and another unconfirmed, two
copies for the doubt about a confirmation that did not arrive, two failures for a
drop. A cut or a death of either side may come at any step.

**Fairness.** Both services connect again for ever (`autoRetry` with `maxRetries`
-1), the broker stores, delivers and settles, and handlers end.
Confirmations need no fairness: one that does not arrive leaves the message to be
sent again. `PublishedIsServed` excepts a message that was dropped after its
retry, one that died with its publisher before the broker had it, and one the
broker refused: it is sent again on the next connection only, and nothing in the
code makes one.

### 7.4 What is proved

`TopicQueueProofs` proves, for any messages and faults, that `TypeOK` and `IInv`
are invariants, and from them `RepeatedByCutsOnly`, the refinement
`DeliveryKept` and, through it, `NoneUnaccounted`. `IInv` is

* `AnswersHold`: what the place of a copy says of its message, such as that an
  acknowledgement on its way is of a message that has been dealt with;
* `OnlyStored`: what is unconfirmed, served or dropped has been with the broker;
* `SentOnce`: as long as nothing was cut, a message has one copy, and its handler
  has not succeeded before the copy is acknowledged. `RepeatedByCutsOnly` is its
  last conjunct.

The refinement takes the copies of a message together (`Waiting`, `Returned`) and
goes action by action: a step of the code is one step of `Delivery` or none.
`PublishedIsServed` is only model-checked.

## 8. Where code and comments disagree

`ia_v_next_session_left_alone`, which TLC must find violated: an attempt that
outlived its session "leaves the next one's containers alone" - the key is looked
up before, not when, the containers are deleted.

`tq_v_failed_before`, likewise: "a redelivered message already failed before, so
drop it" (`messageQueue.js:185`) - a message whose connection was cut before its
handler ended or its acknowledgement arrived comes back as redelivered without
having failed, and its handler's first failure drops it.

Other places where the model shows less than a comment says, and the properties
above are stated so as to allow for it:

* a claim's grace "must exceed the worst case" of an allocation
  (`reclaimStaleClaims.js:7`), and the constant's own comment admits it may not;
  `SlowAllocation` turns that on, the runs and `Calm` have it off;
* the poll may register a provision after a release forgot it
  (`releaseInstance.js:57`), and a reserved instance may still carry the Starting
  tag (`awsInstanceProvider.js:506`) and be provisioned again;
* past the unattended cap load is "a no-op" (`workerSessionRepository.js:317`)
  unless the deadline is earlier than the cap; the one cycle this costs is part
  of `AbandonedCloses`;
* `markEmailed` does not ask whether the session is still open, so one that was
  closed since the sweep read it is mailed that it will be closed.

## 9. Only model-checked, and not modelled

Liveness (`NoLeak`, `PendingSettles`, `AbandonedCloses`, `CancelEnds`,
`PendingStarts`, `NothingIsLeft`, `WaiterIsGranted`, `PublishedIsServed`) is out of
the prover's reach and stays with TLC. Every other property of a passing run is a
theorem. Those about instances are theorems under `Calm`, but for `HeldByOne`,
which needs less (section 3.4).

Not modelled: the provider's own sweep and the local hosting provider, session
apps, usage samples and locked users, the budget, the gateway and the limiters, which are protocols of their own; users, storage, recipes,
messages, assets, files and scene metadata, which are mostly data; Earth Engine
computation, the browser client, mail, terminals and builds, which are pure
functions or I/O. `PROJECT.json` says why for each.

## 10. Running

    tlc -workers 2 -config ia_sweeps.cfg MCInstanceAllocation
    tlc -workers 2 -config se_cycle.cfg MCSessionExpiry
    tlc -workers 2 -config ts_safety.cfg MCTaskSupervisor
    tlc -workers 2 -config ps_slots.cfg MCProcessingSlots
    tlc -workers 2 -config tq_delivery.cfg MCTopicQueue
    tlapm InstanceAllocationTypes.tla
    tlapm InstanceAllocationProofs.tla
    tlapm InstanceAllocationContainers.tla
    tlapm SessionExpiryProofs.tla
    tlapm TaskSupervisorProofs.tla
    tlapm TaskSupervisorRunner.tla
    tlapm ProcessingSlotsProofs.tla
    tlapm TopicQueueProofs.tla
