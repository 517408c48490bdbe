# TLA+ verification of the posse queue and its locks

posse runs coding agents over a queue of jobs kept in SQLite. Any number of
posse processes on one machine open the same database: schedulers, workers,
command-line invocations, a bridge to the operator's phone, a maintenance thread
per boot. There is no server: who may run a job, who may dispatch, write a file
or merge, and what an operator is asked, is decided by rows of that database, by
lock files and by clocks. Those rows and files, and the code that reads and
writes them, are what this project models.

Paths below are relative to `src/posse/lib/`; `queue/` stands for
`domains/queue/functions/` and `scheduler/` for `domains/scheduler/`.

## 1. Inventory

### Components, their state and operations

**Job leases** (`queue/leases.js`, `queue/lease-state.js`, the sweeps of
`queue/queue-store.js`, `domains/worker/classes/JobLease.js`).
*State*: the columns `status`, `lease_token`, `lease_owner`, `lease_expires_at`
of a job; the token each worker keeps in memory.
*Operations*: acquire (queued to leased with a fresh UUID), renew, release, park
(waiting on a human or a review), the sweep of expired leases in each scheduler
lap, orphan recovery at boot, requeue on forced exit, the operator commands
(cancel, skip, repair, requeue for recovery), the session router's block/unblock.
*Correct when*: the columns are consistent with the status, at most one worker
passes the token check, a sweep takes no live lease, nothing but an operator
reopens a finished job, and a lease never outlives a dead owner for ever.

**Human gates and their outbox** (`queue/human-gates.js`,
`queue/human-gate-decisions.js`, `leases.js:41-232`, `queue/operator-repair.js`,
`domains/worker/functions/execution/human-input-job.js`,
`scheduler/functions/headless-recovery.js`). *State*: gate jobs, their contracts
in `human_gates` (open, resolving, resolved, superseded), `human_gate_outbox`.
*Operations*: spawn a gate after a park, answer it (lease, claim, apply,
complete, release, each a transaction), consume the answer in whichever
transaction ends the parked owner's lease, time out, recover orphans, reconcile
contracts with jobs. *Correct when*: every answer is applied to the park it
answers, once; a job has one question at a time, which no sweep takes away while
it can be answered; a parked job never waits for nobody.

**Scheduler lock** (`queue/locks.js:1-120`,
`scheduler/classes/SchedulerLockLease.js`, `SchedulerLockController.js`,
`Scheduler.js:800-1040`). *State*: the `main` row of `scheduler_locks` (owner,
heartbeat, expiry), a renewal timer, `lastRenewedAt`. *Operations*: acquire with
retries, inspect and contend, wait for expiry, verify liveness, steal, renew
with transient errors, concede, release. *Correct when*: a live, punctual holder
keeps it, a holder that cannot renew concedes before the row may be taken, a
dead holder does not block the next boot.

**Boot, maintenance, dispatch and shutdown** (`scheduler/functions/boot-*.js`,
`shutdown-coordination.js`, `Scheduler.js` run loop). *State*: process phase,
active workers, the maintenance thread. *Operations*: orphan recovery, authority
check, lease, worker start, drain, deferred stop, forced exit. *Correct when*:
one worker executes a job at a time across a change of scheduler.

**Merge lock** (`queue/locks.js:121-260`). *State*: the `merge` row, a renewal
timer per call. *Operations*: acquire, reclaim the row of a dead PID, renew,
final ownership check, release; a synchronous variant that blocks the event
loop. *Correct when*: merges do not overlap, and a call that reports success was
not overtaken.

**Attempts** (`queue/attempts.js`, `orphaned-attempts.js`, the refunds of four
requeue paths, the worker's failure and assessment paths). *State*:
`attempt_count`, `max_attempts`, their assessment counterparts, `job_attempts`.
*Operations*: charge at the start, close, refund, retry, grant more.
*Correct when*: failures are charged and interruptions are not, also when the
lease is lost meanwhile.

**Dependencies** (`queue/dependencies.js`, `cancelDeadlockedJobsAtomic`, the
rewires of verdicts and gates). *State*: `job_dependencies`. *Operations*: add,
remove, rewire, copy, cancel the deadlocked. *Correct when*: the graph stays
acyclic, the cascade cancels exactly what can never run, every job settles.

**File locks** (`queue/file-locks.js`, `scheduler/classes/HeldQueueLockIndex.js`,
`queue/write-lock-guard.js`). *State*: locks derived from job rows,
`job_file_locks`, the scheduler's cache of both, the assessment barrier.
*Correct when*: two writers never hold overlapping scopes and no group of jobs
waits for itself.

**Work-item order** (`queue/work-item-order.js`,
`scheduler/functions/cross-wi-file-sync.js`, `queue/cross-wi-deps.js`). *State*:
work-item locks, claims, lane waits, merge dependencies. *Operations*: order the
started and the waiting work items, hand a lock over against the order, merge,
give back. *Correct when*: locks of work items are disjoint, edits that are not
merged stay claimed, every work item settles.

**In-process gates** (`shared/concurrency/classes/AsyncGate.js`): reader/writer
gates with priorities, aging, abort, timeout and close, release barriers, keyed
work queues. *Correct when*: exclusion holds, nobody waits while there is room,
no waiter is lost when an idle entry is dropped.

**Worktree locks and thread lifetimes** (`domains/git/functions/worktree-locks.js`,
`domains/git/classes/WorktreeLock.js`,
`shared/concurrency/classes/ThreadLifetimeRegistry.js`). *State*: a lock file, an
array of generations shared by the threads of a process. *Correct when*: one
holder at a time, a running thread is never taken for one that ended, and the
file of an owner that is gone is reclaimed.

**Dependency install lock** (`shared/concurrency/functions/dependency-install-lock.js`):
a lock file with a reaper file. **Lease clock** (`queue/lease-clock.js`): wall
clock made monotonic within a process.

**Relay client and durable commands** (`domains/bridge/`). *State*: a websocket
with its timers, `bridge_command_results`. *Operations*: connect, authenticate,
reconnect, claim a command id, execute, record and send its ack. *Correct when*:
a command takes effect at most once over replays, restarts and lost acks, and the
client comes back online.

**Sessions**, **work-item recovery and dispositions**: state machines over
several jobs, built on the above; not modelled.

**Everything else** (code index, providers, planning, research, assessment,
handoff, git, CLI, UI, integrations, pairing, tools offered to agents) is data transformation, prompts, network transports or display. `PROJECT.json`
lists each with the reason it is left out.

### Interactions

- Components meet in the database, one write transaction at a time
  (`runImmediateTransaction`). A read outside a transaction, used later, is the
  usual source of trouble; the models keep such a read as a step of its own.
- The scheduler lock guards dispatch and entitles its holder to *force* orphan
  recovery, which ends unexpired job leases. Job leases fence the workers that
  are still running.
- Workers run in their scheduler's event loop: renewal timers, sweeps and worker
  callbacks of one process never overlap, but delay each other. The maintenance
  thread of a boot is the exception.
- Human answers arrive from the command line, the UI or the bridge, in any
  process, at any time; they claim the gate's contract and are handed over
  through the outbox.
- A park, a verdict or a requeue is several transactions of several components: a
  status, a gate, rewired edges, released locks, a refund. The modules that model
  one of them keep the order in which the handler takes them.

### What is hard here

Crashes between two commits; a late step of a worker whose lease is gone; timers
that fire late; errors that are retried until a deadline; answers that arrive
while their job is still owned, or die half-way; a lock taken over while the old
holder drains; a cache or an order read before an await and used after it; a
thread that outlives the boot that started it; acks lost with their connection.
`PROJECT.json` lists the hazards, each at its line, with the properties that
cover it.

## 2. Modules

| Module | What it is |
|---|---|
| `JobLease` | lease columns, outbox of answers, workers, sweeps, boots, operator |
| `LeaseService` | abstract lease service that `JobLease` implements |
| `SchedulerLock` | the `main` lock, boot, maintenance thread, dispatch, shutdown |
| `MergeLock` | the `merge` lock |
| `LeaseClock` | the clock of the leases, made of a wall clock that is set and a monotonic one |
| `AttemptBudget` | the two retry budgets of a job and their refunds |
| `JobDependencies` | the dependency graph, its rewires, the deadlock cascade |
| `WriteLocks` | write locks between the jobs of a work item, their cache, the assessment barrier |
| `WorkItemOrder` | the order of work items that plan the same files, lock hand-over and claims |
| `HumanGates` | the contract of a review from the park to the answer, with the sweeps beside it |
| `AssetGate` | the in-process reader/writer gate with release barriers |
| `KeyedGate` | the keyed work queue |
| `FifoSemaphore` | what a work queue promises; `KeyedGate` implements it |
| `WorktreeLock` | the lock file of a worktree and the registry of thread lifetimes |
| `InstallLock` | the dependency install lock with its reaper file |
| `RelayBridge` | the relay connection and the commands that take effect once |
| `HumanGates_proofs` | theorems about `HumanGates` and `LeaseClock` |
| `SchedulerLock_proofs` | theorems about `SchedulerLock` and `WorkItemOrder` |
| `RelayBridge_proofs` | theorems about `RelayBridge` and `MergeLock` |
| `WorktreeLock_proofs` | theorems about `WorktreeLock`, `AssetGate` and `KeyedGate` |
| other `*_proofs` | theorems about `AttemptBudget`, `JobDependencies`, `JobLease`, `WriteLocks` |
| `MC*` | constants, and the instances that share a run, for TLC |

`PROJECT.json` maps every definition to its lines. An action is one SQLite
statement or transaction together with the synchronous code around it, or one
read that a later transaction relies on. A definition under a comment that begins
with "Mutant" is a plausible wrong version of the definition after it; no
specification uses it, it exists to show that a property can fail.

A component is asked several questions that need different bounds: safety over a
long clock, progress under fairness, faults of one kind or another. Its MC module
binds an instance of the component for each of them into one run. A variable
`part`, chosen in the initial state and never changed, says which instance moves;
the others, when they have variables of their own, stand still. A property of the
run speaks of all instances that share the variables, or of the one it names.

### JobLease

Variables `status`, `token`, `owner`, `expires` are the columns (0 is NULL for
token and time); `nextToken` replaces `crypto.randomUUID()` by the one property
the code needs of it, freshness. `effect[g]` is the outbox state of gate `g`,
`gateJob` its original job. `workJob`, `workToken`, `mustGate` are a
worker's memory; `sweep`, `cutoff`, `seen` the local variables of
`requeueExpiredLeases`, whose two reads and two transactions are four actions.
Each process has one worker in the same event loop as its sweeps (`Free`).

- A park commits the status first (`parkJob`), spawns the gate afterwards
  (`spawnGate`) and releases the lease later still; a crash fits in between.
- `ReleaseRows` is the release that consumes a pending answer in the same
  transaction; `SetStatus` is `updateJobStatus`, which ends the lease outside the
  lease-holding statuses and does not look at the outbox.
- `requeueOrphaned` takes `mayForce` as an arbitrary Boolean: what entitles a
  boot to force is the subject of `SchedulerLock`.
- A process that is gone never comes back: a restart is a new `Scheduler` with a
  new owner id, i.e. another member of `Procs`. The last process does not crash.

### SchedulerLock

`row` is the `main` row. `ph[p]` walks through the phases of
`_acquireBootLockPhases` (`acquire`, `inspect`, `contend`, `steal`, `waitExpiry`,
`verify`, `recheck`, `reacquire`), then `got`, `boot`, the run loop (`loop`,
`cleared` between the authority check and the lease, `leased` between the lease
and the start of the worker) and the end (`refused`, `gone`, `dead`). `running`,
`renewing`, `lastRenewed`, `due` are the renewal timer's state; `maint` is the
maintenance thread, which runs on while its process exists even if the boot was
stopped. One job stands for the queue and its lease is reduced to its owner.

Time: `tick` may not leave an armed renewal timer unserved for more than
`MaxLate` units after it was due. `MaxLate` is thus the promptness of the event
loop, and the parameter most results depend on. The timer is not armed, so time
is not constrained, while a boot waits or after a process died. `RenewalErrors`
says whether SQLite may answer BUSY.

### MergeLock

`st[c]` is where a call of `withMergeLock` or `withMergeLockSync` is; `OwnerOf`
gives its owner string and `PidOf` the process that string names. Calls that pass
no owner share `merge-<pid>`. `Runs` expresses that a synchronous callback blocks
its process. `overtaken` is a history variable: another call acquired the row
while this callback ran.

### LeaseClock

`wall` may be set back and forward, `mono` only passes; `last[p]` is the pair of
readings a process keeps. `Now` is `leaseNowMs`, with the synthesis of forward
progress when the wall clock is behind. One lease is granted, renewed, released
and judged by it; what else a lease does is in `JobLease`.

### AttemptBudget

One job that can be assessed. `Leases` are numbered; the worker of a lease goes
on after its lease was swept until its next database call refuses it, so several
workers of the job coexist. Each worker's path (charge, run, close, stash across
an await, refund or settle, assess) is one action per transaction. `Closed` and
`ClosedIfRunning` are the two ways an attempt row is ended, `sweepRefunds` the
condition under which a sweep lowers the counter.

### JobDependencies

`Graph` is the set of edges with their kinds. `Chain` walks it the way the
recursive query does; a rewire checks each replacement against the graph with the
old edge still in it. Verdicts, gates and retries rewire in the steps of their
handlers (`Continue`), between which only other processes and a crash may come.
The cascade is the fixed point of cancelling, over all jobs or one work item.

### WriteLocks

What a job locks is computed from its row (`Held`), as `activeJobLocks` does, and
cached by the scheduler (`index`), which may be stale when a candidate is chosen;
`acquireLeaseWithWriteLocks` checks again in its transaction. `rows` are the rows
that the guard of the file tools reads and adds to. Workers run, fail, are
repaired, take the barrier, are assessed, park, are swept, and, with `Zombies`,
go on after that. `scope` is what the payload lets the job write. A worker may ask for
a path beyond it (`requestJobScopeExpansion`), which is granted at once or left to a
human (`asked`); the answer comes whatever became of the job meanwhile. A tool writes a
path of the scope that the guard admits: it has the row, or nobody conflicts.

### WorkItemOrder

A scan loads the order once (`LoadedOrders`, every order the code's sort may
return) and visits candidates one by one, across awaits in which anything may
happen; a lease transaction loads it again. A lock held by a work item that the
order puts later is handed over (`handoff`), leaving a claim; at the taker's
merge the lock is given back.

### WorktreeLock

Callers on threads of several processes. `file` is the lock file, created, removed
and marked in transactions; its owner is inspected outside them, so a waiter
decides on an old reading. `slot` is the shared array of
`ThreadLifetimeRegistry`: a generation, negative while the slot is free; `MaxGen`
makes it wrap. An end of a thread is reported to the registry once or twice, by
whichever of two events comes first.

### InstallLock

Every file operation is a step: the exclusive creation, the writing of the owner,
the reading, the reaper's file and its own reaping, the second check, the unlink.

### RelayBridge

`net` is the sequence of websockets the client has made, `socket` the current one,
`wire` what the relay has sent; `rows` is `bridge_command_results`, `calls` the
dispatches under way, `effects` a history of what commands did. The relay and the
network are external and may do anything a websocket allows. `passMonth` lets a
recorded result grow older than the 30 days for which the code keeps it; the
properties exempt an id from then on. A `RelayClient` is started once: `Bridge`
makes a new one for each start.

### HumanGates

`job` is the reviewed job, `gate[g]` a gate job with its contract and its effect
in the outbox, `park` the number of the review, which stands for the question.
`res[r]` is a resolver, in another process, that leases the gate, claims the
contract, applies the answer, completes the contract and releases the gate, and
may die in between. Worker and scheduler are one process: its synchronous
stretches exclude each other (`EventLoopFree`), and it may die in them. Two
assumptions about time: from its claim to its release a live resolver takes less
than the 300 s of its lease (before the claim it may stall, constant `Stalls`),
and it is done before the job it released has run again and parked again
(`ResolversArePrompt`).

### AssetGate, KeyedGate

One key of each. State objects (`Objs`, `Queues`) are dropped from the map by a
microtask when they look idle, while a task may hold the object it was enqueued
on: an action is the code between two yields, with the drain that ends it.
A waiter that leaves is cut out of its queue where it stands; it stands there once
(`QueuesHold` and `PendingHold` of the proofs).

## 3. Runs

| Run | Module | Instances (`part`) | Checks |
|---|---|---|---|
| `job_lease` | `MCJobLease` | `long`, `twice`, `live` | `LeaseWellFormed`, `HolderUnique`, `AnsweredParkIsOwned`, `SweepNeverStealsLiveLease`, `ImplementsLeaseService`, `LiveDeadOwnerReclaimed`, `LiveAnswerApplied` |
| `scheduler_lock` | `MCSchedulerLock` | `calm`, `busy` | `NoDuplicateExecution`, `BusyRowOutlivesRenewal`, `LiveHolderKeepsLock` |
| `merge_lock` | `MCMergeLock` | `served`, `late` | `MergeExclusive`, `LateSuccessNotOvertaken` |
| `lease_clock` | `LeaseClock` | one | `RenewedNotExpired`, `LeftBehindExpires` |
| `attempt_budget` | `MCAttemptBudget` | one | `FailuresCharged`, `AssessmentFailuresCharged`, `EventuallySettled` |
| `job_dependencies` | `MCJobDependencies` | one | `Acyclic`, `CascadeExact`, `LeasedWhenReady`, `EventuallySettled` |
| `write_locks` | `MCWriteLocks` | `ordered`, `race` | `LocksDisjoint`, `GuardProtects`, `OrderedJobsSettle` |
| `wi_order` | `MCWorkItemOrder` | `chain`, `cross` | `EditsClaimed`, `CrossingItemsSettle` |
| `human_gates` | `MCHumanGates` | `faulty`, `prompt` | `InFlightAnswerLands`, `GatedParkHeld`, `PromptParkIsNoTrap` |
| `worktree_lock` | `MCWorktreeLock` | `busy`, `waiting` | `HoldersApart`, `RunningNotExited`, `WaitedOrphanReclaimed` |
| `relay_bridge` | `MCRelayBridge` | `replay`, `pruned`, `lossy` | `AtMostOneEffect`, `ReplayGetsOriginalAck`, `OneConnection`, `LossyCommandAnswered` |
| `concurrency` | `MCConcurrency` | `reads`, `fifo`, `keyed`, `install` | `WritersExclusive`, `FifoEventuallyServed`, `QueueImplementsSemaphore`, `InstallOrphanReaped` |

All pass. What they show:

- `job_lease`: the lease protocol is safe under crashes, sweeps, forced requeues,
  operator commands and answers in any order; the lease of a dead process is
  reclaimed and an answer reaches its job.
- `scheduler_lock`: with a punctual event loop no boot takes the lock from a live
  holder and no job runs twice, over several takeovers; with renewal errors at any
  step a holder concedes before its row expires.
- `merge_lock`: served merges never overlap, with shared owner strings and PID
  reclaim; with distinct owners an overtaken call never reports success, however
  late its timers.
- `lease_clock`: a lease left behind expires in time however the clock is set;
  setting it back takes no lease from a worker that renews.
- `attempt_budget`: failures are charged over late workers, sweeps and refunds, and
  with finitely many faults the job comes to rest.
- `job_dependencies`: edits, rewires, gates and retries keep the graph acyclic, the
  cascade cancels exactly the doomed, no job found runnable loses a satisfied
  dependency before it is leased, and every job settles.
- `write_locks`: executing jobs hold disjoint paths and the guard of the file tools
  protects them, with a stale cache, repairs, sweeps, workers that outlive them and
  scopes that are expanded while a job runs, is parked or was swept; a plan that
  orders the writers of a file never waits for itself.
- `wi_order`: edits stay locked or claimed through a chain of hand-overs; two work
  items that repair into each other's files both settle.
- `human_gates`: an answer in flight lands on the question it was given to and no
  sweep takes away a question that can be answered; with prompt resolvers no park
  is a trap.
- `worktree_lock`: one holder at a time over threads that are restarted and slots
  whose generations wrap; the file of an owner that is gone is reclaimed.
- `relay_bridge`: one effect and one terminal ack for each command id, over replays
  with another input, crashes and pruning; a command sent until it is answered is
  answered.
- `concurrency`: writers are alone, aging prevents starvation, a keyed queue is a
  first-come first-served semaphore although its object is replaced, and the lock of
  a dead installer, and of its reaper, is reaped.

### Bounds, and why they are enough

*JobLease.* One job: no statement of the modelled code relates two jobs, the
transactions over sets of rows treat each row alone. Two processes: every hazard
is between the one that acts late and the one that took over; a third adds only
another taker. One gate. `LeaseDuration = Grace = 1`. In `long` (one lease, clock
6) a lease is renewed, outlives its grace and is swept; in `twice` (two leases,
clock 4) a stale holder, a new holder and their sweeps coexist; `live` (one lease,
clock 5) carries the fairness. `LeaseFitsBound` refuses a lease or a renewal that
could not run out within the bound, so that the end of the clock never looks like a
stranded job. A plan job is used because it takes every branch of the sweep but the
warm one, which is the simpler of them; the branch for `atlas_warm` (fail instead of
requeue) is covered by the theorems only.

*SchedulerLock.* One unit is ten seconds: renewal 3, time to live 6, steal and
error limit 5 (45 s rounded up), liveness wait 4 (35 s rounded up), error retry 1.
Rounding up keeps the order of the deadlines, which is all the properties depend
on; the theorems hold for all values. The busy instance has 11 units, a full life of
a row with errors and one takeover; the calm one 16, two takeovers. `MaxLate = 1` is
an event loop blocked for up to 10 s.

*MergeLock.* Two processes, one of them with two calls, the other with a
synchronous one: sharing of an owner string, reclaim and blocking all happen. The
unit is the renewal period, a third of the duration.

*LeaseClock.* One process, a duration of 2, a grace of 1, a renewal exactly at their
sum, and settings of the clock by more than that.

*AttemptBudget.* Two attempts and two assessments, so that one budget runs out before
the other; two faults let a sweep meet an interrupted worker; an operator's retry
raises the limit once; nine leases are the fewest that suffice for all of them.

*JobDependencies.* Three jobs, one of which may be spawned as a gate or a retry: a
job, its replacement and a dependent. A cycle through a rewire needs three. Two
edits by callers and one crash outside handlers.

*WriteLocks.* Three dev jobs and a repair of one of them; the plan is their common
parent. In `ordered` the first two are disjoint and the third, which touches the
files of both, comes after them. In `race` it does not, there is no repair, workers
outlive their lease, and one path is asked for beyond the scope of some job; a path that
a sibling has, and one that nobody has, are both among the choices.

*WorkItemOrder.* Three work items whose files chain for safety, so that a lock is
handed over and given back while a third one waits; two that cross for progress.
The chain has no recovery gates: with one, two claims on one path released to the
same taker are both restored when it merges, because
`restoreExistingOrderClaimLocks` (`file-locks.js:1845`) inserts without a check. The
crossing work items have one.

*WorktreeLock.* Two generations, so that they wrap; a lock may be held as long as
the model's threshold for a live owner, `Stale * Multiplier`. A longer hold (20
minutes in the code) is taken over by another process: `HoldersApart` needs the
bound, and the theorem states it.

*InstallLock.* Three processes: a holder, a reaper and one that takes the lock
between the reaper's steps.

*RelayBridge.* One id with two inputs over two failures; two ids of which one's
completion prunes the other; one command over three failures, enough for a lost ack,
a crash and a reconnect.

*HumanGates.* Two reviews and two resolvers for safety; three reviews for progress,
so that a job recovered once parks again. With resolvers that stall, a late duplicate
of an answer to a gate that is already resolved is accepted as idempotent and cancels
the job's current question (`cancelPendingReviewGatesForOriginal`); the job then is
asked again or fails closed.

*Gates.* Five tasks with two priorities, among them one that does not wait; two
identities of state objects, so that a new one exists while a task is in the old.

Deadlock is not checked in `scheduler_lock`, `merge_lock`, `job_dependencies` and
`concurrency`: their processes, calls and jobs run once, so a behaviour ends.
Symmetry (permutations of the processes) is used in `scheduler_lock` only, which
checks no liveness.

### Fairness

*job_lease.* Weak fairness of `tick`: time passes. Of `sweepStep`: the run
loop sweeps in each lap and its safety poll wakes it without events. Of
`bootStep`: maintenance is straight-line code. Of `spawnGate`: it follows the park
in the same function. Strong fairness of the release of a parked job: a worker
reaches the `finally` that releases its lease, but its own sweeps, which run in
the same event loop, disable that step again and again for a moment. Nothing is
assumed of humans, operators, renewals or of crashes, and no process is assumed to
stay alive but the last.

*attempt_budget, job_dependencies, write_locks, wi_order.* The scheduler's loop goes
on leasing, sweeping and cancelling; a worker that holds a lease goes on.
`write_locks` and `wi_order` also assume that a parked job is resumed and a failed
merge or a gate is answered with a retry: what would be left waiting there waits for
the operator, not for a lock.

*human_gates.* The scheduler keeps running its sweeps, a worker and a resolver that
live finish what they began, leases run out. No operator has to answer, and the
headless timeout need not come.

*concurrency.* A task that runs ends, microtasks run, time passes; a process that
waits for the install lock goes on polling. *worktree_lock.* Time passes, a holder
releases, a waiter goes on polling. *relay_bridge.* Timers fire, the relay answers
on a connection that is not dead, a dispatch goes on; that the client is left running
is in the premise of the property, and the phone repeats a command until it is
answered.

## 4. Observations

What came up while modelling and is worth knowing when one reads or changes the code.
The runs above stay within the conditions under which the properties hold; each item
names the condition, and the constant that lifts it where there is one.

*Scheduler and merge lock.*
- `locks.js:99-102`: the comment promises that the 45 s threshold tolerates one fully
  missed renewal cycle. The heartbeat is then 60 s old, and a contending boot may
  steal the lock from a holder whose timer is armed and whose row has not expired:
  with `MaxLate = 3`, `LiveHolderKeepsLock` fails. The forced requeue that follows
  (`Scheduler.js:1079`, `queue-store.js:3342`) then takes the lease of a worker that
  is still executing, where the comment says any leased row belongs to a dead
  process. The token check of `JobLease` still fences the queue, but not what that
  worker does to its worktree meanwhile.
- `Scheduler.js:1001`: a crash within 10 s after a heartbeat, followed by an immediate
  restart. The boot waits 35 s, sees the heartbeat unmoved, decides to steal, is
  refused because the heartbeat is not yet 45 s old, and exits reporting that the
  holder revived.
- `locks.js:163-173`: after a missed renewal a second merge call of the same process
  takes the expired row under the shared owner string, and the first call's final
  check takes that row for its own. `DistinctOwnersProveSuccess` therefore assumes
  that owner strings differ.

*Dependencies and attempts.*
- `PostExecutionCoordinator.js:144`: the gate of a blocked job rewires soft edges as
  hard ones.
- `Scheduler.js:2882`: the comment says a job is canceled when all its hard
  dependencies are dead; the code needs one.
- `PostExecutionCoordinator.js:1882`: the older branch for a blocked job commits
  `dead_letter` before it creates the gate. With `HandlerCrash = TRUE` a process that
  dies in between lets the cascade cancel the dependents. `LeasedWhenReady` fails as
  well: the job of an interrupted handler is requeued while its gate is open, and the
  gate's answer later reopens a job that others already rely on.
- `human-input-job.js:1325`: the answer `fail` to a dead-letter gate ends the gate as
  succeeded and so releases the dependents.
- `queue-store.js:3525`: the sweeps refund by an attempt row that they do not close, so
  one attempt can be refunded twice. `attempt-errors.js:665`: a lease swept between
  closing the attempt and the refund leaves an interruption charged.
  `FailuresCharged` is about the other direction, a failure that is not charged.
- `dead-letter.js:725`: the recovery gate is created before a release that may be
  refused. `assessment-pipeline.js:3081`: the assess-only marker is written without
  looking at the lease.

*Locks.*
- `file-locks.js:857`: queued jobs that were tried or are repairs count as holders. A
  repair that meets a retried sibling and the sibling refuse each other the lease for
  ever; `OrderedJobsSettle` is checked with repairs that meet no such sibling.
- `file-locks.js:1470`: the guard of the file tools looks at lock rows and not at the
  lease. A worker whose lease was swept can take a row for a queued job, which leases
  do not look at, and with it write while a sibling is assessed. `GuardProtects` leaves
  out these rows, and only these.
- `scope-expansion-requests.js:623`: a scope request may stay open when its hold runs
  out and the attempt ends (`PostExecutionCoordinator`, `hold_expired`). An approval
  then requeues a job that failed and has a repair. Ancestors are exempt from the
  repair's conflicts (`file-locks.js:1107`), because they are taken to be over, so the
  two could be executed together. The model abandons a request that is undecided at the
  end of the attempt; `BornAfterParent` (section 5) is the fact this would break.
- `write-lock-guard.js:122-125`: an error in the guard lets the tool write without a
  row. `GuardProtects` is about what the guard decides.
- `file-locks.js:598`: a hand-over between work items is refused because of a queued
  job that itself waits for the requester. `Scheduler.js:2297`: the order is kept
  across an await, and a hand-over by the old order records its claim on a job that
  the new order refuses. `file-locks.js:1795`: locks come back at a merge and not at
  a cancellation of the taker; `EditsClaimed` is checked with `MaxCancels = 0`, and
  `PendingEditsClaimed` proves it until the first cancellation.
- `dependency-install-lock.js:44`: a missing file counts as stale, so a reaper can
  unlink a lock that was created after its check.
- `lease-clock.js:56`: the clock that does not go back belongs to one process;
  `OneClockNeverUnexpires` assumes one.
- `AsyncGate.js:581-586`: a priority writer is inserted before a queued writer, and so
  before the readers behind it, although the comment says it never reorders relative
  to readers; and a normal writer that comes later is put before the readers behind
  which a priority writer was appended.

*Human gates.*
- `leases.js:101`: a pending answer is selected by job, not by gate. An operator repair
  that ends an expired parked lease leaves the answer in the outbox; a later park of
  the job, on another gate, consumes it.
- `human-gates.js:1033`: if a resolver dies after it applied the answer, the
  reconciliation asks again. `leases.js:197`: the reopened gate stands for the next
  question too, and the second retry is taken for the first: it resolves the gate
  without resuming the job. `PromptParkIsNoTrap` is checked with resolvers that do not
  die.

## 5. Proofs

All theorems hold for every value of the constants that satisfies the named
assumptions (those of the component's module, and the ones named below). They hold for any
number of jobs, processes, gates, threads and calls and for any bound on clock,
tokens and faults. Four proofs modules extend a second component, whose names are
disjoint from those of the first (`ClockSpec`, `MergeSpec`, `OrderSpec`, `AssetSpec`); nothing is
shared but the file, and a theorem only speaks of one of the two specifications.
`KeyedGate` has names in common with `AssetGate` and is reached through the instance
`Keyed`.

**JobLease_proofs.**
`TypeCorrect`: one lemma per group of actions, over lemmas on the helpers.
`LeaseColumnsConsistent` (`[]LeaseWellFormed`): inductive together with `TypeOK`;
`ReleaseRowsLease` and `SetStatusLease` say when the two ways of changing a row
keep it, the rest is one step per action.
`OneHolder` (`[]HolderUnique`) is not inductive: a worker that holds a token says
nothing about another one that will be given the same. The strengthening
`TokensFenced` adds that all tokens in rows and in memory are below `nextToken`,
and that no two workers hold the same non-null token. `StepShape` summarises a step
for that purpose: either it grants one fresh token to one idle worker, or it only
clears (`OnlyClears`).
`LeaseColumnsImplementService`: initial states map to initial states and, by
`StepShape`, a step to a grant, to revocations or to a stutter.
`AnswerHasConsumer` (`[]AnsweredParkIsOwned`): inductive as `AnswersOwned`, which adds
that a gate with a recorded answer belongs to a job; otherwise the gate that a worker
spawns could carry an answer to a job it has just been given. Lemmas say what each way
of changing a row does to it; the only step that records an answer does so for a row
with a lease (`PendingNeedsLease`).
`SweepTakesExpiredOnly` (`SweepNeverStealsLiveLease`) is about a decision on an old
reading. `SweepFenced` says that a sweep's cutoff is not ahead of the clock, that its
snapshot holds no token of the future, and that a parked lease it read as expired is
still expired as long as the row has the same token. This needs `LeaseMoves` (a step
clears a lease, grants a fresh token, or renews a lease that is not past its grace),
`SweepMoves` and `TokensFenced`: the row of a token that has been read cannot come back
with a later expiry, because a renewal refuses it and a new grant has another token.
`AnswerAppliedToQueue` and `FinishedStaysFinished` are action properties by cases on the
actions, from the types and `LeaseWellFormed`.

**SchedulerLock_proofs.** `RowSteps` reduces every step of a process to one of
four effects on the row: taken, renewed, left alone on an error, or otherwise not
extended. `RowShape` (the expiry is the heartbeat plus the duration, the holder's
`lastRenewed` is the heartbeat) and `TimerShape` (an armed timer is due at most one
period, or one retry within the error window, after the last renewal) follow.
`ConcedesBeforeExpiry` proves `RowOutlivesRenewal` from them under `Prompt`:
`ErrorMax + Retry + MaxLate <= Duration + 1` and `Renew + MaxLate <= Duration`. In
seconds: 45 + 5 + lateness within 60.
The other three assume `Timely`: no renewal errors and
`Renew + MaxLate < Liveness`, i.e. an event loop never blocked for 15 s.
`HolderShape` says that a process in a phase that renews owns the row until it
ends; `TimelyHolderKeepsLock` and `TimelyNoDuplicateExecution` follow: a worker only
executes under a process that owns the row. `LeaseShape` adds that an executing
worker's job lease is its own and where the maintenance thread may be, which gives
`TimelyWorkerKeepsLease`. Section 4 shows that the assumption cannot be
dropped.

*WorkItemOrder, in `SchedulerLock_proofs`.* `PendingEditsClaimed` proves `EditsClaimed`
as long as no work item was canceled; section 4 says what a cancellation does.
The invariant `EditsKept` adds that a work item with unmerged edits is live. Without
that the merge of one work item, which gives its locks back, could leave the edits of
one that is over to nobody. A hand-over takes a lock and leaves a claim in the same
transaction, a merge restores the locks of its claims, and only the two together keep
an edit covered when a lock is handed on twice.

**JobDependencies_proofs.** `GraphIsAcyclic`: `Acyclic` is inductive with the
types and `GateHasJob`. What carries it is `Barrier`: if the set of jobs reachable
from the new upstream does not contain the dependent, no edge leaves that set, so
the added edges, all of which lead into it, close no cycle. No induction over paths
is needed: a graph is acyclic when every non-empty set of jobs has a member without an
edge into the set. `CheckBeforeDelete`: the outcome of the check does not depend on the edge
that is about to be deleted, in any graph.
`LeasesAfterDependencies` (`LeasedWhenReady`): the scan finds jobs runnable and
`acquireLease`, later, looks at the status of the job and at none of its dependencies.
The invariant `LInv` says why that is enough. `Ready`: as long as no caller edited the
graph after the scan, the hard dependencies of the jobs found runnable have succeeded,
and their soft ones are neither executed nor about to be. A handler could break it by
reopening a job that had succeeded or by handing a found job a new dependency. The rest
excludes both: an open gate stands for a job that failed, or is being failed by the
handler under way (`GateOfFailed`), a job has one open gate (`OneGateEach`), which stands
for no other gate (`OrigIsTask`), the job in the middle of a handler is active or has
just failed without a gate (`MidIsHandled`), a job that does not exist is no gate
(`FreshIsPlain`), and a found job becomes nothing but canceled before it is leased
(`PickedOnce`). So the dependents a handler rewires wait for a job that has not
succeeded, and none of them was found runnable (`WaitingIsFree`). It assumes
`HandlerCrash = FALSE`, that the process does not die between two steps of a handler;
without that it is false (section 4).
`CascadeCancelsTheDoomed` (`CascadeExact`) says what the repeated passes of the cascade
compute, for any finite set of jobs: `Doomed`, the least set closed under having a dead
or canceled hard dependency. It is an induction over the passes, carried out as a
minimal counterexample (`LeastNatural`, from the well-foundedness of the naturals in the
library). `IterationExists`: the recursive function of the model has a value;
`IterationWithin`: the passes stay within every closed set; `IterationRests`: after as
many passes as there are jobs nothing is added, since each pass until then adds a job.
The three are stated of any function on sets.

**WriteLocks_proofs.** `ExecutingJobsApart` needs `BornAfterParent` (a job that
exists has only terminal ancestors), because ancestors are exempt from conflicts:
two executing jobs are then never ancestor and descendant. `StepKinds` reduces the
steps to those that start an execution or widen its scope, which are checked in their
transaction (`FreeIsApart`), and those that do neither. It holds for any content of the
cache.
`GuardIsSound` (`[]GuardProtects`) has two halves. For a path without a row the guard
computes the conflicts, and nobody it exempts is being executed (`ExemptAreIdle`). For a
path with a row it believes the row, although rows are released late and nobody else
reads them. `RowsBacked` says why it may: the rows of a job stay within what it would
lock if it were executed, because they are taken from that (a lease, a barrier, a write
in scope), an expansion widens both together, and a job that leaves its barrier drops
its rows or stays assess-only. `ZombieHasJob` covers workers that lost their lease.

**WorktreeLock_proofs.** `ThreadNotTakenForExited` from `RegistryInv`: names of
running threads are distinct, each has its generation in its slot, and an ended
name has been passed by its slot or ends with it. `HoldersStayApart` assumes
`Timely` (nobody holds for longer than `Stale * Multiplier`); its invariant
`LockInv` says that a removal decided on an old reading can only hit the file that
was read, and that this file has no holder.

*AssetGate, in `WorktreeLock_proofs`.* `WritesRunAlone` (`[]WritersExclusive`). The
gate counts on one state object, so exclusion between calls needs two more facts:
every queued or running call is on the object in the map (`Attached`), and the queue
of an object holds exactly the calls queued on it, each once (`QueuesHold`). The second
is what `cleanup` relies on when it takes an empty queue for "nobody". `StartsAPrefix`
says what a drain starts: nothing, one call while nothing runs, or the readers at the
head while no write runs; `Drained` is the step every handler ends with. Neither the
priorities nor the aging matter for it, only that a newcomer is inserted somewhere in
the queue (`PositionInQueue`).

*KeyedGate, in `WorktreeLock_proofs`.* `QueueIsOneSemaphore`
(`QueueImplementsSemaphore`): a call that is admitted or queued maps to `Arrive`, the end
of a callback to `Leave`, a timeout or an abort to `GiveUp`, everything else to a
stutter. The counter is the number of running calls (`Counted`) and nobody waits next
to a free slot (`NoRoomLeft`), so the drain of a call that was refused starts nobody.
It assumes `MaxConcurrency \in Nat` and that `NoQueue` is no queue.

**AttemptBudget_proofs.** Both properties compare a column with what was counted since
the start, and neither is inductive: a refund must be known to hit the charge of an
interrupted attempt and not that of a failure. `RowsOwned` says which workers have an
attempt row and that it is their own, `LeaseRowLatest` that the row of the lease that
is held is the latest one, the only one the requeue paths look at. `Failures` then says
that while an implementation attempt of the current lease is charged, the count is at
least one above the failures, and `Assessments` the same of an assessment under way,
also after a sweep took its lease, as long as no later row was opened.

**HumanGates_proofs.** `AnswersLand` (`[]InFlightAnswerLands`) and `ParksHeld`
(`GatedParkHeld`, an action property). `InFlight` ties a resolver's step to the row it
works on: past the claim of the contract, the contract is resolving under its own
lease, which has not expired, or was closed by somebody else. `OneActive`: one contract
is active at most, and none while a headless timeout is failing the job.
`ResumesAnswered`: a resume waits in the outbox only beside a parked job, under its
lease, to which an answer was applied. The lease of a resolver may lapse at any time,
which is why every row fact is stated both with and without it (`Claimed`, `Resolves`).

*LeaseClock, in `HumanGates_proofs`.* The lead of a process's clock over the
monotonic one changes only when it reads the wall clock: never above the total set forward
(`LeadBounded`) nor below the wall's own lead (`LeadAhead`). `LeaseDoesExpire`
needs nothing else. `TimelyRenewalKeepsLease` assumes `Renew <= Dur + Grace`; the
property speaks of the time before the clock is first set forward, and so does its
invariant (`BackOnly`). `OneClockNeverUnexpires` assumes one process.

**RelayBridge_proofs.** `StoreInv` ties rows, dispatches, effects and answers: a
dispatch under way owns its pending row, the effects of an id are those of its row
or of its dispatch, a completed row tells the truth, every terminal answer is the
row's. `OneConnection` is inductive
with the types of the connection's variables alone (`ConnInv`).

*MergeLock, in `RelayBridge_proofs`.* `ServedMergesExclusive` assumes `Served` (no
renewal errors, `RenewEvery + MaxLate <= Duration`). `MergeExclusive` alone is not inductive:
`ActiveOwnsRow` says that an active call owns an unexpired row and is the only
active one, `SeenIsDead` that the row a reclaim has in hand belongs to a dead
process, so its DELETE hits nobody alive. `DistinctOwnersProveSuccess` assumes
`DistinctOwners` and nothing about time: `OvertakenLostRow` says that an overtaken
call is never again the owner of the row.

**Properties no run checks as such.** Besides the type invariants, these theorems state
properties of the modules that are not in a cfg: `ConcedesBeforeExpiry`
(`RowOutlivesRenewal`; the run's `BusyRowOutlivesRenewal` is an instance of it),
`TimelyWorkerKeepsLease` (`WorkerKeepsLease`), `DistinctOwnersProveSuccess`
(`SuccessNotOvertaken`; the run's `LateSuccessNotOvertaken` is an instance),
`CheckBeforeDelete` (`OldEdgeIrrelevant`), `OneClockNeverUnexpires` (`NeverUnexpires`),
`AnswerAppliedToQueue` (`AppliedAnswerIsQueued`) and `FinishedStaysFinished`
(`OnlyOperatorReopens`).

**Model-checked only.** Every safety property of the runs is stated by a theorem.
`BusyRowOutlivesRenewal` and `LateSuccessNotOvertaken` are named in their MC modules,
for the instance that the run binds to them; the theorems state `RowOutlivesRenewal` and
`SuccessNotOvertaken`, of which they are instances. So is the run's
`QueueImplementsSemaphore`, of `KeyedGate`'s, which `QueueIsOneSemaphore` states. Every
liveness property
(`LiveDeadOwnerReclaimed`, `LiveAnswerApplied`, `EventuallySettled` of two modules,
`OrderedJobsSettle`, `CrossingItemsSettle`, `PromptParkIsNoTrap`,
`WaitedOrphanReclaimed`, `LossyCommandAnswered`, `FifoEventuallyServed`,
`InstallOrphanReaped`) is out of the prover's reach.

## 6. Abstractions and omissions

- Clocks: one clock for all processes of the machine; `JobLease` takes it as
  monotonic. `LeaseClock` has the clock that is set.
- `posse clear` takes the `main` row with a 120 s duration; it is not among the
  processes of `SchedulerLock`.
- PIDs are not reused in `MergeLock`.
- After a renewal error is overcome the code restarts its interval timer at once;
  the model's `due` is then the latest time the code allows.
- The budget-paused guard of `acquireLease` only removes behaviours.
- Each module keeps the columns its properties are about: the attempt counters a
  sweep changes are in `AttemptBudget`, the locks it releases in `WriteLocks`, the
  edges a verdict rewires in `JobDependencies`, and `JobLease` has none of them.
  The events the transactions write are left out.
- Scheduler-lock properties speak of one job. Expiry of that job's own lease is in
  `JobLease`; here its worker keeps it alive.
- `WorkItemOrder`: `scheduler_reviewed_file_handoffs` is off. With it on (the
  default) a hand-over first asks for a review of the holder's work; scope
  expansion and rebuilt or abandoned branches are left out as well.
- `JobDependencies`: the edges of a plan compiler appear as arbitrary additions;
  the `replan` answer of a blocked gate and the rewrites of a work-item recovery are
  left out.
- `HumanGates`: one kind of contract, `assessment_review`, with the answers that
  resume, pass or fail the job. Other kinds differ in what an answer does to the
  job; resurfacing of unanswered gates, generations of a contract, owner
  reservations and rows from before contracts existed are left out. So is the rule
  of the reconciliation for finished gate jobs with an open contract: the modelled
  handlers close the contract first, so only such old rows meet it.
  `retireGateJob` for a finished work item or a failed resolution
  (`human-gates.js:775-799`, `1000-1031`) is left out, like the refusal of an answer to
  a merge that was already authorized (`406-411`). Such a retirement clears the lease of
  the gate in its transaction, also while it is being resolved, so a resolver's later
  steps are refused as they are after the retirements that are modelled.
- `RelayBridge`: what a command does, the change stream and the local websocket. A
  claim that throws is answered `idempotency_unavailable` (`command-dispatch.js:627`)
  and decides nothing: for the sender it is like a lost ack, and a row it inserted
  first is like that of a crash.
- `AttemptBudget`: an assess-only worker leases the job and opens its attempt row in
  one step, although an await lies between. The decrement for a handoff that needs a
  new plan (`attempt-errors.js:642`) is left out. `FailuresCharged` bounds the count
  from below only; section 4 says what the other direction lacks.
- `JobDependencies`: the handler of an answer runs in the event loop of the scheduler,
  so that a lap of the run loop cannot come between its steps. An answer given through
  another process would let the cascade run between `human-input-job.js:1098` and
  `1151`; `HumanGates`, which has resolvers in other processes, has no graph.
- `WriteLocks`: the reservations of reviewed handoffs (`file-locks.js:849`, `1704`) are
  no locks here, and a barrier always changes the status: the variant that preserves it
  has no caller. Tools are given a snapshot of the scope and the grants since
  (`MutationPolicy.js:1050-1129`); the model lets them write the whole scope of the
  payload, which contains it. That the waiting worker picks an answer up
  (`scope-expansion-requests.js:805`) is part of the answer.
- `WorktreeLock`: whether a process lives is always known, and PIDs are not reused. In
  the code an owner of unknown liveness is taken for stale by age alone
  (`worktree-locks.js:173`), without the multiplier.

### Not modelled

The repository has some 430 000 lines, most of which are parsers, prompts, provider
adapters, tools offered to agents, display and packaging. They transform data or
perform input and output; what they decide reaches the queue as a value that the
models choose freely. Of the rest, sessions and their routing, work-item recovery,
acceptance and waiting-lane bookkeeping, pairing and the pools of `ThreadManager`
are state machines that could still be modelled; `PROJECT.json` says for each
component what is left. The map therefore covers a small share of the lines of the
repository, and most of those that arbitrate between processes.

## 7. Plan

Done: the modules above. Worth adding, in order:

1. Composition of `JobLease` and `SchedulerLock`: `mayForce` decided by the lock.
2. `WorkItemOrder` with reviewed handoffs, once their states are separated from the
   review itself.
3. `HumanGates` with recovery gates, whose answers rewire the graph of
   `JobDependencies`.
4. Work-item recovery and dispositions; sessions.

## 8. Running it

    tlc -workers 2 -config MCJobLease.cfg MCJobLease
    tlapm JobLease_proofs.tla

and likewise for the other modules. The longest runs take about three
minutes.
