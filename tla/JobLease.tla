------------------------------- MODULE JobLease -------------------------------
(***************************************************************************)
(* The lease lifecycle of a row of the `jobs` table, shared through SQLite *)
(* by every posse process on the machine: a worker acquires, renews and    *)
(* releases a lease; the scheduler loop sweeps expired leases; a booting   *)
(* scheduler requeues orphans; a forced exit requeues what it owned; a     *)
(* human answer to a gate is kept in an outbox until the parked job's old  *)
(* owner is gone.                                                          *)
(*                                                                         *)
(* One action is one SQLite write transaction (or one read that a later    *)
(* transaction of the same process relies on).  Each process runs one      *)
(* worker in the event loop that also runs its sweeps, so its own steps    *)
(* never fall inside its own sweep; those of the other processes do.  A    *)
(* process that is gone never returns: a restart is a process of its own,  *)
(* because a Scheduler draws a new ownerId.                                *)
(***************************************************************************)
EXTENDS Integers, FiniteSets

CONSTANTS
  Jobs,            \* rows of the jobs table
  WarmJobs,        \* those of job_type 'atlas_warm'
  PlanJobs,        \* those of job_type 'plan'
  Procs,           \* posse processes, each a scheduler and a worker
  Gates,           \* human_input gates (rows of human_gate_outbox, by key)
  NoJob, NoProc,
  LeaseDuration,   \* leaseDurationSec
  Grace,           \* lease_requeue_grace_sec
  MaxClock,        \* bound on the clock
  MaxToken         \* bound on the leases granted

ASSUME BoundsAssumption ==
  /\ LeaseDuration \in Nat \ {0}
  /\ Grace \in Nat
  /\ MaxClock \in Nat \ {0}
  /\ MaxToken \in Nat
ASSUME NullAssumption ==
  /\ NoJob \notin Jobs
  /\ NoProc \notin Procs
ASSUME JobTypeAssumption ==
  WarmJobs \subseteq Jobs /\ PlanJobs \subseteq Jobs /\ WarmJobs \intersect PlanJobs = {}

VARIABLES
  clock,           \* leaseNowMs(), the same for every process
  status,          \* jobs.status
  token,           \* jobs.lease_token, NoToken for NULL
  owner,           \* jobs.lease_owner
  expires,         \* jobs.lease_expires_at, NoTime for NULL
  nextToken,       \* the next crypto.randomUUID(): fresh for ever
  effect,          \* human_gate_outbox.state of a gate's resume effect
  gateJob,         \* original_job_id of a gate, NoJob before it is opened
  workJob,         \* the job a process' worker is executing
  workToken,       \* the lease token that worker holds in memory
  mustGate,        \* it has parked its job and is about to spawn the gate
  mode,            \* "boot", "recovering" (orphans requeued), "up" or "gone"
  orphans,         \* jobs requeued at boot, their resume not yet consumed
  sweep,           \* phase of the process' requeueExpiredLeases call
  cutoff,          \* its grace cutoff
  seen             \* its snapshot: the lease token read for each job

jobRow == <<status, token, owner, expires>>
outbox == <<effect, gateJob>>
worker == <<workJob, workToken, mustGate>>
sweeper == <<sweep, cutoff, seen>>
vars == <<clock, jobRow, nextToken, outbox, worker, mode, orphans, sweeper>>

NoToken == 0
NoTime == 0

LEASE_HOLDING_STATUSES ==
  {"leased", "running", "awaiting_assessment", "waiting_on_human", "waiting_on_review"}
\* Mutant: the sweeps forget the assessing jobs.
ExecutingStatuses == {"leased", "running"}

ACTIVE_LEASE_STATUSES == {"leased", "running", "awaiting_assessment"}
PARKED_LEASE_STATUSES == {"waiting_on_human", "waiting_on_review"}
PARKED_JOB_STATUSES == PARKED_LEASE_STATUSES \union {"blocked"}
TERMINAL_JOB_STATUSES == {"succeeded", "failed", "dead_letter", "canceled"}
JOB_STATUSES ==
  {"queued"} \union LEASE_HOLDING_STATUSES \union PARKED_JOB_STATUSES \union TERMINAL_JOB_STATUSES
HUMAN_GATE_RESUMABLE_JOB_STATUSES == PARKED_JOB_STATUSES \union {"awaiting_assessment"}

\* "retired": the gate was canceled before it was answered.
EffectStates == {"absent", "retired", "pending", "completed", "failed"}
Modes == {"boot", "recovering", "up", "gone"}
SweepPhases == {"idle", "parkedRead", "parkedDone", "activeRead"}

TypeOK ==
  /\ clock \in Nat
  /\ status \in [Jobs -> JOB_STATUSES]
  /\ token \in [Jobs -> Nat]
  /\ owner \in [Jobs -> Procs \union {NoProc}]
  /\ expires \in [Jobs -> Nat]
  /\ nextToken \in Nat \ {0}
  /\ effect \in [Gates -> EffectStates]
  /\ gateJob \in [Gates -> Jobs \union {NoJob}]
  /\ workJob \in [Procs -> Jobs \union {NoJob}]
  /\ workToken \in [Procs -> Nat]
  /\ mustGate \in [Procs -> BOOLEAN]
  /\ mode \in [Procs -> Modes]
  /\ orphans \in [Procs -> SUBSET Jobs]
  /\ sweep \in [Procs -> SweepPhases]
  /\ cutoff \in [Procs -> Int]
  /\ seen \in [Procs -> [Jobs -> Nat]]

-----------------------------------------------------------------------------
(* The human-gate resume outbox *)

PendingResume(j) == {g \in Gates : effect[g] = "pending" /\ gateJob[g] = j}

\* What consumePendingHumanGateResume settles the pending effects of a job to,
\* when the row holds status s and lease token t.
ResumeOutcome(s, t) ==
  CASE s = "queued" -> "completed"
    [] s # "queued" /\ s \notin HUMAN_GATE_RESUMABLE_JOB_STATUSES -> "failed"
    [] s \in HUMAN_GATE_RESUMABLE_JOB_STATUSES /\ t # NoToken -> "pending"
    [] OTHER -> "completed"

\* The job's status after consumePendingHumanGateResume, and the outbox.
ResumedStatus(j, s, t) ==
  IF PendingResume(j) # {} /\ ResumeOutcome(s, t) = "completed" THEN "queued" ELSE s
SettledEffects(Rows, s, t) ==
  [g \in Gates |-> IF effect[g] = "pending" /\ gateJob[g] \in Rows
                   THEN ResumeOutcome(s[gateJob[g]], t) ELSE effect[g]]

-----------------------------------------------------------------------------
(* Row updates *)

\* Clear the leases of Rows and give each the status s[j], consuming the
\* pending resumes of those rows in the same transaction.
ReleaseRows(Rows, s) ==
  /\ status' = [j \in Jobs |-> IF j \in Rows THEN ResumedStatus(j, s[j], NoToken) ELSE status[j]]
  /\ token' = [j \in Jobs |-> IF j \in Rows THEN NoToken ELSE token[j]]
  /\ owner' = [j \in Jobs |-> IF j \in Rows THEN NoProc ELSE owner[j]]
  /\ expires' = [j \in Jobs |-> IF j \in Rows THEN NoTime ELSE expires[j]]
  /\ effect' = SettledEffects(Rows, s, NoToken)
  /\ UNCHANGED gateJob

\* Mutant: a status change that never ends the lease.
SetStatusOnly(j, s) ==
  /\ status' = [status EXCEPT ![j] = s]
  /\ UNCHANGED <<token, owner, expires>>

\* updateJobStatus once its WHERE clause has matched: the lease fields survive
\* only in a lease-holding status; the outbox is not looked at.
SetStatus(j, s) ==
  /\ status' = [status EXCEPT ![j] = s]
  /\ IF s \in LEASE_HOLDING_STATUSES
     THEN UNCHANGED <<token, owner, expires>>
     ELSE /\ token' = [token EXCEPT ![j] = NoToken]
          /\ owner' = [owner EXCEPT ![j] = NoProc]
          /\ expires' = [expires EXCEPT ![j] = NoTime]

\* `lease_token = ?` of every CAS a worker makes.
HoldsToken(p, j) == j # NoJob /\ workToken[p] # NoToken /\ token[j] = workToken[p]

GoIdle(p) ==
  /\ workJob' = [workJob EXCEPT ![p] = NoJob]
  /\ workToken' = [workToken EXCEPT ![p] = NoToken]
  /\ mustGate' = [mustGate EXCEPT ![p] = FALSE]

-----------------------------------------------------------------------------
(* Worker *)

\* The event loop of p is free to run another step.
Free(p) == mode[p] = "up" /\ sweep[p] = "idle" /\ ~mustGate[p]

\* The bound on the clock leaves every lease the time to run out.
LeaseFitsBound == clock + LeaseDuration + Grace < MaxClock

\* Mutants: a token that is not unique; a CAS that also takes a leased row.
RecycledToken == 1
LeasableTwice(j) == status[j] \in {"queued", "leased"}

freshToken == nextToken
Leasable(j) == status[j] = "queued"

acquireLease(p, j) ==
  /\ Free(p) /\ workJob[p] = NoJob
  /\ Leasable(j)
  /\ nextToken <= MaxToken /\ LeaseFitsBound
  /\ status' = [status EXCEPT ![j] = "leased"]
  /\ token' = [token EXCEPT ![j] = freshToken]
  /\ owner' = [owner EXCEPT ![j] = p]
  /\ expires' = [expires EXCEPT ![j] = clock + LeaseDuration]
  /\ nextToken' = nextToken + 1
  /\ workJob' = [workJob EXCEPT ![p] = j]
  /\ workToken' = [workToken EXCEPT ![p] = freshToken]
  /\ UNCHANGED <<clock, outbox, mustGate, mode, orphans, sweeper>>

Renewable(p, j) ==
  /\ HoldsToken(p, j)
  /\ status[j] \in LEASE_HOLDING_STATUSES
  /\ expires[j] # NoTime
  /\ expires[j] >= clock - Grace

renewLease(p) ==
  LET j == workJob[p] IN
  /\ Free(p) /\ Renewable(p, j) /\ LeaseFitsBound
  /\ expires' = [expires EXCEPT ![j] =
                   IF expires[j] > clock + LeaseDuration THEN expires[j] ELSE clock + LeaseDuration]
  /\ UNCHANGED <<clock, status, token, owner, nextToken, outbox, worker, mode, orphans, sweeper>>

\* WorkerExecutionCoordinator: leased -> running before any setup.
startRunning(p) ==
  LET j == workJob[p] IN
  /\ Free(p) /\ HoldsToken(p, j) /\ status[j] = "leased"
  /\ SetStatus(j, "running")
  /\ UNCHANGED <<clock, nextToken, outbox, worker, mode, orphans, sweeper>>

\* The implementation is committed; its assessment starts under the same lease.
awaitAssessment(p) ==
  LET j == workJob[p] IN
  /\ Free(p) /\ HoldsToken(p, j) /\ status[j] = "running"
  /\ SetStatus(j, "awaiting_assessment")
  /\ UNCHANGED <<clock, nextToken, outbox, worker, mode, orphans, sweeper>>

\* The bound on gates leaves one for every worker that has parked.
GateLeft == Cardinality({g \in Gates : gateJob[g] = NoJob}) > Cardinality({p \in Procs : mustGate[p]})

\* A verdict parks the job; the gate is spawned after that commit, and the
\* release comes later still.
parkJob(p, s) ==
  LET j == workJob[p] IN
  /\ Free(p) /\ HoldsToken(p, j) /\ status[j] \in {"running", "awaiting_assessment"}
  /\ s \in PARKED_LEASE_STATUSES /\ GateLeft
  /\ SetStatus(j, s)
  /\ mustGate' = [mustGate EXCEPT ![p] = TRUE]
  /\ UNCHANGED <<clock, nextToken, effect, gateJob, workJob, workToken, mode, orphans, sweeper>>

\* The insert of the human_input job checks nothing.
spawnGate(p, g) ==
  /\ mustGate[p] /\ gateJob[g] = NoJob
  /\ gateJob' = [gateJob EXCEPT ![g] = workJob[p]]
  /\ mustGate' = [mustGate EXCEPT ![p] = FALSE]
  /\ UNCHANGED <<clock, jobRow, nextToken, effect, workJob, workToken, mode, orphans, sweeper>>

\* A pass/fail/internal-retry verdict settles the job through updateJobStatus,
\* which ends the lease without a release.
settleByVerdict(p, s) ==
  LET j == workJob[p] IN
  /\ Free(p) /\ HoldsToken(p, j) /\ status[j] = "awaiting_assessment"
  /\ s \in {"succeeded", "failed", "queued"}
  /\ SetStatus(j, s)
  /\ GoIdle(p)
  /\ UNCHANGED <<clock, nextToken, outbox, mode, orphans, sweeper>>

\* releaseLease and releaseLeaseWithoutAttemptPenalty.  A parked job keeps its
\* status; an executing one is requeued or settled.
releaseLease(p, s) ==
  LET j == workJob[p] IN
  /\ Free(p) /\ HoldsToken(p, j) /\ status[j] \in LEASE_HOLDING_STATUSES
  /\ s \in IF status[j] \in PARKED_LEASE_STATUSES
            THEN {status[j]} ELSE {"queued"} \union TERMINAL_JOB_STATUSES
  /\ ReleaseRows({j}, [status EXCEPT ![j] = s])
  /\ GoIdle(p)
  /\ UNCHANGED <<clock, nextToken, mode, orphans, sweeper>>

\* Any CAS of the worker matched no row: it stops without touching the job.
loseLease(p) ==
  /\ Free(p) /\ workJob[p] # NoJob /\ ~HoldsToken(p, workJob[p])
  /\ GoIdle(p)
  /\ UNCHANGED <<clock, jobRow, nextToken, outbox, mode, orphans, sweeper>>

-----------------------------------------------------------------------------
(* Operator and human *)

\* requestParkedJobResumeAfterGate; a second call with the same key is a retry.
requestParkedJobResumeAfterGate(g) ==
  LET j == gateJob[g]
      resumable == status[j] = "queued" \/ status[j] \in HUMAN_GATE_RESUMABLE_JOB_STATUSES
      inserted == [effect EXCEPT ![g] = "pending"]
      outcome == ResumeOutcome(status[j], token[j])
  IN
  /\ j # NoJob /\ effect[g] \in {"absent", "pending"}
  /\ effect' = IF ~resumable
               THEN [effect EXCEPT ![g] = "failed"]
               ELSE [h \in Gates |-> IF inserted[h] = "pending" /\ gateJob[h] = j
                                     THEN outcome ELSE effect[h]]
  /\ status' = IF resumable /\ outcome = "completed"
               THEN [status EXCEPT ![j] = "queued"] ELSE status
  /\ UNCHANGED <<clock, token, owner, expires, nextToken, gateJob, worker,
                 mode, orphans, sweeper>>

\* The unanswered gates of a job are canceled with it.
RetireGates(j) ==
  /\ effect' = [g \in Gates |-> IF gateJob[g] = j /\ effect[g] = "absent" THEN "retired" ELSE effect[g]]
  /\ UNCHANGED gateJob

\* cancelWorkItemJobs / cancelInactiveWorkItemJobs: forced, whoever holds it.
cancelJob(j) ==
  /\ status[j] \notin TERMINAL_JOB_STATUSES
  /\ SetStatus(j, "canceled")
  /\ RetireGates(j)
  /\ UNCHANGED <<clock, nextToken, worker, mode, orphans, sweeper>>

\* skipJob: only an idle, unleased job can be marked succeeded.
skipJob(j) ==
  /\ status[j] \notin TERMINAL_JOB_STATUSES \union ACTIVE_LEASE_STATUSES
  /\ token[j] = NoToken
  /\ SetStatus(j, "succeeded")
  /\ UNCHANGED <<clock, nextToken, outbox, worker, mode, orphans, sweeper>>

\* requeueForRecovery: an operator reopens a failed leaf of a failed work item.
\* (It also restores jobs canceled while queued behind that leaf: JobDependencies.)
requeueForRecovery(j) ==
  /\ status[j] \in {"failed", "dead_letter"}
  /\ SetStatus(j, "queued")
  /\ UNCHANGED <<clock, nextToken, outbox, worker, mode, orphans, sweeper>>

\* applyOperatorRepair, retry (s = "queued") or skip/waive (s = "succeeded"):
\* refused while the lease is live; a pending answer stays in the outbox.
operatorRepair(j, s) ==
  /\ status[j] \notin {"succeeded", "canceled"}
  /\ token[j] = NoToken \/ expires[j] < clock
  /\ s \in {"queued", "succeeded"}
  /\ SetStatus(j, s)
  /\ RetireGates(j)
  /\ UNCHANGED <<clock, nextToken, worker, mode, orphans, sweeper>>

\* The session-job router takes a queued job out of the lanes and later
\* returns it, completes it or fails it.
blockForSession(j) ==
  /\ status[j] = "queued" /\ token[j] = NoToken
  /\ SetStatus(j, "blocked")
  /\ UNCHANGED <<clock, nextToken, outbox, worker, mode, orphans, sweeper>>

unblockFromSession(j, s) ==
  /\ status[j] = "blocked" /\ token[j] = NoToken
  /\ s \in {"queued", "succeeded", "failed"}
  /\ SetStatus(j, s)
  /\ UNCHANGED <<clock, nextToken, outbox, worker, mode, orphans, sweeper>>

-----------------------------------------------------------------------------
(* requeueExpiredLeases, the scheduler loop's sweep: each of its two halves  *)
(* reads its candidates outside the transaction that changes them.           *)

Snapshot(Rows) == [j \in Jobs |-> IF j \in Rows THEN token[j] ELSE NoToken]

\* Mutant: the sweep forgets the grace a renewal may still use.
expiryCutoff == clock

graceCutoff == clock - Grace

\* clearExpiredParkedLeaseTokens: the cutoff and the parked candidates.
readExpiredParked(p) ==
  LET cut == graceCutoff IN
  /\ Free(p)
  /\ sweep' = [sweep EXCEPT ![p] = "parkedRead"]
  /\ cutoff' = [cutoff EXCEPT ![p] = cut]
  /\ seen' = [seen EXCEPT ![p] = Snapshot({j \in Jobs :
       /\ status[j] \in PARKED_LEASE_STATUSES
       /\ token[j] # NoToken
       /\ expires[j] = NoTime \/ expires[j] < cut})]
  /\ UNCHANGED <<clock, jobRow, nextToken, outbox, worker, mode, orphans>>

\* Its UPDATE re-checks the token and the status, but not the expiry.
ClearParkedHits(p) ==
  {j \in Jobs : /\ seen[p][j] # NoToken
                /\ token[j] = seen[p][j]
                /\ status[j] \in PARKED_LEASE_STATUSES}

\* Mutant: the lease is cleared but the recorded answer is left behind.
clearParkedOnly(p) ==
  LET cleared(f, v) == [j \in Jobs |-> IF j \in ClearParkedHits(p) THEN v ELSE f[j]] IN
  /\ sweep[p] = "parkedRead"
  /\ token' = cleared(token, NoToken)
  /\ owner' = cleared(owner, NoProc)
  /\ expires' = cleared(expires, NoTime)
  /\ sweep' = [sweep EXCEPT ![p] = "parkedDone"]
  /\ UNCHANGED <<clock, status, outbox, nextToken, worker, mode, orphans, cutoff, seen>>

clearExpiredParked(p) ==
  /\ sweep[p] = "parkedRead"
  /\ ReleaseRows(ClearParkedHits(p), status)
  /\ sweep' = [sweep EXCEPT ![p] = "parkedDone"]
  /\ UNCHANGED <<clock, nextToken, worker, mode, orphans, cutoff, seen>>

readExpiredActive(p) ==
  /\ sweep[p] = "parkedDone"
  /\ sweep' = [sweep EXCEPT ![p] = "activeRead"]
  /\ seen' = [seen EXCEPT ![p] = Snapshot({j \in Jobs :
       /\ status[j] \in ACTIVE_LEASE_STATUSES
       /\ owner[j] # NoProc /\ expires[j] # NoTime
       /\ expires[j] < cutoff[p]})]
  /\ UNCHANGED <<clock, jobRow, nextToken, outbox, worker, mode, orphans, cutoff>>

RequeueHits(p) ==
  {j \in Jobs : /\ seen[p][j] # NoToken
                /\ token[j] = seen[p][j]
                /\ owner[j] # NoProc
                /\ status[j] \in ACTIVE_LEASE_STATUSES
                /\ expires[j] # NoTime /\ expires[j] < cutoff[p]}

\* A completed plan settles as succeeded, an atlas_warm as failed (neither
\* looks at the outbox); every other job is requeued.
requeueExpired(p, plans) ==
  LET hits == RequeueHits(p)
      warms == hits \intersect WarmJobs
      rest == hits \ (plans \union warms)
      cleared(f, v) == [j \in Jobs |-> IF j \in hits THEN v ELSE f[j]]
  IN
  /\ sweep[p] = "activeRead"
  /\ plans \subseteq hits \intersect PlanJobs
  /\ status' = [j \in Jobs |-> CASE j \in plans -> "succeeded"
                                 [] j \in warms -> "failed"
                                 [] j \in rest -> "queued"
                                 [] OTHER -> status[j]]
  /\ token' = cleared(token, NoToken)
  /\ owner' = cleared(owner, NoProc)
  /\ expires' = cleared(expires, NoTime)
  /\ effect' = SettledEffects(rest, [j \in Jobs |-> "queued"], NoToken)
  /\ sweep' = [sweep EXCEPT ![p] = "idle"]
  /\ cutoff' = [cutoff EXCEPT ![p] = NoTime]
  /\ seen' = [seen EXCEPT ![p] = Snapshot({})]
  /\ UNCHANGED <<clock, nextToken, gateJob, worker, mode, orphans>>

-----------------------------------------------------------------------------
(* Exit, crash and boot *)

\* One process always survives: recovery is what a running posse does.
ProcessGone(p) ==
  /\ \E q \in Procs \ {p} : mode[q] # "gone"
  /\ GoIdle(p)
  /\ mode' = [mode EXCEPT ![p] = "gone"]
  /\ orphans' = [orphans EXCEPT ![p] = {}]
  /\ sweep' = [sweep EXCEPT ![p] = "idle"]
  /\ cutoff' = [cutoff EXCEPT ![p] = NoTime]
  /\ seen' = [seen EXCEPT ![p] = Snapshot({})]

crash(p) ==
  /\ mode[p] \in {"recovering", "up"}
  /\ ProcessGone(p)
  /\ UNCHANGED <<clock, jobRow, nextToken, outbox>>

\* requeueOwnedJobsForForcedExit: one transaction over the jobs this process
\* leased, each through requeueForShutdown; then the process is gone.
forcedExit(p) ==
  LET owned == {j \in Jobs : owner[j] = p /\ status[j] \in ACTIVE_LEASE_STATUSES} IN
  /\ Free(p)
  /\ ReleaseRows(owned, [j \in Jobs |-> "queued"])
  /\ ProcessGone(p)
  /\ UNCHANGED <<clock, nextToken>>

\* requeueOrphanedJobs' transaction. mayForce: the caller asked for force and
\* still owns the scheduler lock.  Warm jobs fail; the rest are requeued.
requeueOrphaned(p, mayForce) ==
  LET hits == {j \in Jobs : /\ status[j] \in ACTIVE_LEASE_STATUSES
                            /\ mayForce \/ expires[j] = NoTime \/ expires[j] < clock}
      warms == hits \intersect WarmJobs
      cleared(f, v) == [j \in Jobs |-> IF j \in hits THEN v ELSE f[j]]
  IN
  /\ mode[p] = "boot"
  /\ status' = [j \in Jobs |-> CASE j \in warms -> "failed"
                                 [] j \in hits \ warms -> "queued"
                                 [] OTHER -> status[j]]
  /\ token' = cleared(token, NoToken)
  /\ owner' = cleared(owner, NoProc)
  /\ expires' = cleared(expires, NoTime)
  /\ orphans' = [orphans EXCEPT ![p] = hits \ warms]
  /\ mode' = [mode EXCEPT ![p] = "recovering"]
  /\ UNCHANGED <<clock, nextToken, outbox, worker, sweeper>>

\* Its loop after the commit: one consumePendingHumanGateResume per job.
consumeOrphan(p, j) ==
  /\ mode[p] = "recovering" /\ j \in orphans[p]
  /\ status' = [status EXCEPT ![j] = ResumedStatus(j, status[j], token[j])]
  /\ effect' = SettledEffects({j}, status, token[j])
  /\ orphans' = [orphans EXCEPT ![p] = @ \ {j}]
  /\ UNCHANGED <<clock, token, owner, expires, nextToken, gateJob, worker, mode, sweeper>>

bootDone(p) ==
  /\ mode[p] = "recovering" /\ orphans[p] = {}
  /\ mode' = [mode EXCEPT ![p] = "up"]
  /\ UNCHANGED <<clock, jobRow, nextToken, outbox, worker, orphans, sweeper>>

tick ==
  /\ clock < MaxClock
  /\ clock' = clock + 1
  /\ UNCHANGED <<jobRow, nextToken, outbox, worker, mode, orphans, sweeper>>

-----------------------------------------------------------------------------
Init ==
  /\ clock = 1
  /\ status = [j \in Jobs |-> "queued"]
  /\ token = [j \in Jobs |-> NoToken]
  /\ owner = [j \in Jobs |-> NoProc]
  /\ expires = [j \in Jobs |-> NoTime]
  /\ nextToken = 1
  /\ effect = [g \in Gates |-> "absent"]
  /\ gateJob = [g \in Gates |-> NoJob]
  /\ workJob = [p \in Procs |-> NoJob]
  /\ workToken = [p \in Procs |-> NoToken]
  /\ mustGate = [p \in Procs |-> FALSE]
  /\ mode = [p \in Procs |-> "boot"]
  /\ orphans = [p \in Procs |-> {}]
  /\ sweep = [p \in Procs |-> "idle"]
  /\ cutoff = [p \in Procs |-> NoTime]
  /\ seen = [p \in Procs |-> Snapshot({})]

workerStep(p) ==
  \/ \E j \in Jobs : acquireLease(p, j)
  \/ renewLease(p)
  \/ startRunning(p)
  \/ awaitAssessment(p)
  \/ \E s \in JOB_STATUSES : parkJob(p, s)
  \/ \E g \in Gates : spawnGate(p, g)
  \/ \E s \in JOB_STATUSES : settleByVerdict(p, s)
  \/ \E s \in JOB_STATUSES : releaseLease(p, s)
  \/ loseLease(p)

operatorStep(j) ==
  \/ cancelJob(j)
  \/ skipJob(j)
  \/ requeueForRecovery(j)
  \/ \E s \in JOB_STATUSES : operatorRepair(j, s)
  \/ blockForSession(j)
  \/ \E s \in JOB_STATUSES : unblockFromSession(j, s)

sweepStep(p) ==
  \/ readExpiredParked(p)
  \/ clearExpiredParked(p)
  \/ readExpiredActive(p)
  \/ \E plans \in SUBSET Jobs : requeueExpired(p, plans)

bootStep(p) ==
  \/ \E mayForce \in BOOLEAN : requeueOrphaned(p, mayForce)
  \/ \E j \in Jobs : consumeOrphan(p, j)
  \/ bootDone(p)

Next ==
  \/ \E p \in Procs : workerStep(p) \/ sweepStep(p) \/ bootStep(p) \/ crash(p) \/ forcedExit(p)
  \/ \E j \in Jobs : operatorStep(j)
  \/ \E g \in Gates : requestParkedJobResumeAfterGate(g)
  \/ tick

\* Time passes, a running scheduler keeps sweeping (dispatch and safety poll),
\* a booting one finishes its maintenance, and a worker that has parked its job
\* spawns the gate and releases the lease.
Fairness ==
  /\ WF_vars(tick)
  /\ \A p \in Procs :
       /\ WF_vars(sweepStep(p))
       /\ WF_vars(bootStep(p))
       /\ WF_vars(\E g \in Gates : spawnGate(p, g))
       /\ SF_vars(\E s \in PARKED_LEASE_STATUSES : releaseLease(p, s))

Spec == Init /\ [][Next]_vars
FairSpec == Spec /\ Fairness

-----------------------------------------------------------------------------
(* Properties *)

\* The lease columns of a row are set and cleared together, they are set in no
\* idle or terminal status, and an active row always has them: the sweeps
\* (`lease_owner IS NOT NULL`, `lease_expires_at IS NOT NULL`) would never
\* recover an active row without a lease.
LeaseWellFormed ==
  \A j \in Jobs :
    /\ token[j] = NoToken <=> owner[j] = NoProc
    /\ token[j] = NoToken <=> expires[j] = NoTime
    /\ status[j] \in ACTIVE_LEASE_STATUSES => token[j] # NoToken
    /\ token[j] # NoToken => status[j] \in LEASE_HOLDING_STATUSES

\* Of all workers that still execute a job, those whose lease was swept, forced
\* or repaired away included, at most one passes the `lease_token = ?` check.
HolderUnique ==
  \A p, q \in Procs :
    p # q => ~(/\ workJob[p] # NoJob /\ workJob[p] = workJob[q]
               /\ HoldsToken(p, workJob[p]) /\ HoldsToken(q, workJob[q]))

\* A recorded answer to a parked job never waits for nobody: the row still has
\* the lease whose release or expiry consumes the answer, also after the owner
\* died between parking and releasing.
AnsweredParkIsOwned ==
  \A g \in Gates :
    effect[g] = "pending" /\ status[gateJob[g]] \in PARKED_LEASE_STATUSES
      => token[gateJob[g]] # NoToken

\* Whatever happens between the reads of requeueExpiredLeases and its updates,
\* a lease it takes away is past its grace at that moment; for parked rows,
\* whose expiry the update does not check again, this rests on renewLease.
SweepNeverStealsLiveLease ==
  [][\A p \in Procs : sweep[p] \in {"parkedRead", "activeRead"} /\ sweep'[p] # sweep[p] /\ mode'[p] = "up"
       => \A j \in Jobs : token'[j] # token[j] => expires[j] < clock - Grace]_vars

\* An answer is reported as applied (`completed`) only in the step that leaves
\* its job queued with no lease: never a live lease is forced away for it.
AppliedAnswerIsQueued ==
  [][\A g \in Gates : effect[g] # "completed" /\ effect'[g] = "completed"
       => status'[gateJob[g]] = "queued" /\ token'[gateJob[g]] = NoToken]_vars

\* A finished job runs again only because an operator reopened it: no late
\* release, stale sweep, orphan recovery or delayed answer revives it.
OnlyOperatorReopens ==
  [][\A j \in Jobs : status[j] \in TERMINAL_JOB_STATUSES /\ status'[j] \notin TERMINAL_JOB_STATUSES
       => requeueForRecovery(j) \/ operatorRepair(j, "queued")]_vars

\* The lease columns implement the abstract lease service.
Service == INSTANCE LeaseService WITH grant <- token, issued <- nextToken - 1
ImplementsLeaseService == Service!Spec

\* A lease whose owner is gone is eventually taken back, by expiry if by
\* nothing else.
DeadOwnerReclaimed(p) ==
  \A j \in Jobs : mode[p] = "gone" /\ owner[j] = p ~> owner[j] # p

\* A recorded answer is eventually applied to the job that waits for it.
AnswerEventuallyApplied ==
  \A g \in Gates : effect[g] = "pending" /\ status[gateJob[g]] \in PARKED_LEASE_STATUSES
    ~> effect[g] # "pending" \/ status[gateJob[g]] \notin PARKED_LEASE_STATUSES
=============================================================================
