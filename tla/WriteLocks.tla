------------------------------ MODULE WriteLocks ------------------------------
(***************************************************************************)
(* The write locks between the jobs of one work item, which share a        *)
(* worktree (src/posse/lib/domains/queue/functions/file-locks.js), the     *)
(* scheduler's cache of them (HeldQueueLockIndex) and the barrier a worker *)
(* takes before the worktree is assessed.                                  *)
(*                                                                         *)
(* What a job locks is not read from a lock table: activeJobLocks derives  *)
(* it from the job's status, type, attempt count and payload, so a queued  *)
(* job that was tried, or is a repair, keeps a lock (a "phantom" one).     *)
(* The rows of job_file_locks matter to one reader only, the guard that    *)
(* runs before a tool writes a file.  A running job may ask for more       *)
(* paths, and both representations of its locks then have to follow.       *)
(*                                                                         *)
(* Scopes are sets of paths; the root "*" is the set of all of them, and   *)
(* two scopes conflict when they meet.                                     *)
(***************************************************************************)
EXTENDS Naturals, FiniteSets

CONSTANTS
    Job,            \* the dev and fix jobs of the work item
    Plan,           \* the plan job, parent of the dev jobs
    Parent,         \* parent_job_id; a fix job's parent is the job it repairs
    Scope,          \* the paths a job is created to write
    After,          \* the hard dependencies the plan was compiled with
    Path,
    MaxAttempts,    \* max_attempts
    MaxAssess,      \* assessment_max_attempts
    MaxSweeps,      \* bound: leases lost to a sweep or a shutdown
    MaxParks,       \* bound: times a job is parked for a human
    MaxExpansions,  \* bound: paths asked for beyond a job's scope
    Zombies         \* does a worker outlive the sweep of its lease?

ASSUME JobAssumption == Plan \notin Job
ASSUME ParentAssumption == Parent \in [Job -> Job \cup {Plan}]
ASSUME ScopeAssumption == Scope \in [Job -> (SUBSET Path) \ {{}}]
ASSUME AfterAssumption == After \in [Job -> SUBSET Job]
ASSUME BoundAssumption == /\ MaxAttempts \in Nat \ {0}
                          /\ MaxAssess \in Nat
                          /\ MaxSweeps \in Nat
                          /\ MaxParks \in Nat
                          /\ MaxExpansions \in Nat
                          /\ Zombies \in BOOLEAN

VARIABLES
    status,         \* jobs.status; "absent" before the job is created
    assessOnly,     \* payload._assess_only
    attempts,       \* jobs.attempt_count
    assessed,       \* jobs.assessment_attempt_count
    deps,           \* job_dependencies (hard)
    scope,          \* the paths the payload lets the job write
    asked,          \* payload._pending_scope_request: paths asked a human
    rows,           \* job_file_locks not released, as the paths they cover
    unreleased,     \* jobs requeued whose rows are still to be released
    index,          \* HeldQueueLockIndex: the paths it takes a job to hold
    zombie,         \* the worker of a swept lease is still running
    sweeps, parks, expansions

scopeVars == <<scope, asked, expansions>>

vars == <<status, assessOnly, attempts, assessed, deps, rows, unreleased,
          index, zombie, sweeps, parks, scopeVars>>

Active == {"leased", "running", "awaiting"}
Terminal == {"succeeded", "failed"}
Status == Active \cup Terminal \cup {"absent", "queued", "parked"}

Dev == {j \in Job : Parent[j] = Plan}
Children(j) == {k \in Job : Parent[k] = j}

-----------------------------------------------------------------------------
(* activeJobLocks: the paths a job with scope s holds in a given state.    *)

NeedsBarrier(st, ao) == ao \/ st = "awaiting"

WriteScope(s, st, ao) == IF NeedsBarrier(st, ao) THEN Path ELSE s

(* Mutant of IsActiveLock: a queued assess-only retry owns the barrier.    *)
QueuedBarrierIsActive(j, st, ao, n) ==
    st \in Active \/ (st = "queued" /\ (ao \/ j \notin Dev \/ n > 0))

IsActiveLock(j, st, ao, n) ==
    IF NeedsBarrier(st, ao)
    THEN st \in Active
    ELSE st \in Active \/ (st = "queued" /\ (j \notin Dev \/ n > 0))

Held(j, s, st, ao, n) ==
    IF IsActiveLock(j, st, ao, n) THEN WriteScope(s, st, ao) ELSE {}

JobLocks == [j \in Job |-> Held(j, scope[j], status[j], assessOnly[j], attempts[j])]

(* The cache counts a parked job as a holder as long as it reconciles job  *)
(* by job; a refresh from the database drops it.                           *)
IndexHeld(j, s, st, ao, n) ==
    IF st = "parked" /\ ~ao THEN s ELSE Held(j, s, st, ao, n)

-----------------------------------------------------------------------------
(* findOrdinaryWriteLockConflict                                           *)

Ancestors ==
    [j \in Job |-> {k \in Job : \A S \in SUBSET (Job \cup {Plan}) :
        (Parent[j] \in S /\ \A a \in S \cap Job : Parent[a] \in S) => k \in S}]

QueuedCohort(j) ==
    {k \in Job \ {j} : Parent[k] = Parent[j] /\ status[k] = "queued"}

QueuedDependents(j) ==
    {k \in Job \ {j} : \A S \in SUBSET Job :
        (\A d \in Job \ {j} : (status[d] = "queued" /\ deps[d] \cap (S \cup {j}) # {})
                                 => d \in S) => k \in S}

Allowed(j) == Ancestors[j] \cup QueuedCohort(j) \cup QueuedDependents(j)

Conflicts(j, paths, locks) ==
    {k \in Job \ {j} : locks[k] \cap paths # {} /\ k \notin Allowed(j)}

Predecessors(j) ==
    {k \in Job : \A S \in SUBSET Job :
        (deps[j] \subseteq S /\ \A a \in S : deps[a] \subseteq S) => k \in S}

DependenciesMet(j) == \A k \in Predecessors(j) : status[k] = "succeeded"

MyScope(j) == WriteScope(scope[j], status[j], assessOnly[j])

-----------------------------------------------------------------------------
(* A change of a job's row reaches the cache through a wake, which may be  *)
(* lost (a listener that throws, a deferred emit that is skipped).         *)

Reconciled(j, s, st, ao, n) ==
    \E heard \in BOOLEAN :
        index' = IF heard THEN [index EXCEPT ![j] = IndexHeld(j, s, st, ao, n)]
                 ELSE index

Refreshed(st, ao, n) == [j \in Job |-> Held(j, scope[j], st[j], ao[j], n[j])]

(* releaseLease and updateJobStatus: the row changes, then the locks of a  *)
(* job that no longer runs are released.                                   *)
Settle(j, st, ao, n) ==
    /\ status' = [status EXCEPT ![j] = st]
    /\ assessOnly' = [assessOnly EXCEPT ![j] = ao]
    /\ attempts' = [attempts EXCEPT ![j] = n]
    /\ rows' = [rows EXCEPT ![j] = {}]
    /\ Reconciled(j, scope[j], st, ao, n)

cleanupStaleFileLocks ==
    rows' = [k \in Job |-> IF status[k] \in Active THEN rows[k] ELSE {}]

-----------------------------------------------------------------------------
Init ==
    /\ status = [j \in Job |-> IF j \in Dev THEN "queued" ELSE "absent"]
    /\ assessOnly = [j \in Job |-> FALSE]
    /\ attempts = [j \in Job |-> 0]
    /\ assessed = [j \in Job |-> 0]
    /\ deps = After
    /\ rows = [j \in Job |-> {}]
    /\ unreleased = {}
    /\ index = [j \in Job |-> {}]
    /\ zombie = [j \in Job |-> FALSE]
    /\ scope = Scope
    /\ asked = [j \in Job |-> {}]
    /\ sweeps = 0
    /\ parks = 0
    /\ expansions = 0

(* The scan asks the cache, acquireLeaseWithWriteLocks the database.       *)
Candidate(j) ==
    /\ status[j] = "queued"
    /\ DependenciesMet(j)
    /\ Conflicts(j, MyScope(j), index) = {}

(* Mutant of leaseGranted: the scan's skipConflictCheck is believed.       *)
leaseGrantedByScan(j) == status[j] = "queued"

leaseGranted(j) == Conflicts(j, MyScope(j), JobLocks) = {}

acquireLeaseWithWriteLocks(j) ==
    /\ Candidate(j)
    /\ leaseGranted(j)
    /\ status' = [status EXCEPT ![j] = "leased"]
    /\ rows' = [rows EXCEPT ![j] = @ \cup MyScope(j)]
    /\ index' = [index EXCEPT ![j] = MyScope(j)]
    /\ UNCHANGED <<assessOnly, attempts, assessed, deps, unreleased, zombie,
                   sweeps, parks, scopeVars>>

(* A conflict in the database sweeps stale rows before it refuses.         *)
leaseRefused(j) ==
    /\ Candidate(j)
    /\ ~leaseGranted(j)
    /\ cleanupStaleFileLocks
    /\ UNCHANGED <<status, assessOnly, attempts, assessed, deps, unreleased,
                   index, zombie, sweeps, parks, scopeVars>>

(* The worker starts; only an implementation attempt is counted.           *)
startRunning(j) ==
    /\ status[j] = "leased"
    /\ status' = [status EXCEPT ![j] = "running"]
    /\ attempts' = [attempts EXCEPT ![j] = IF assessOnly[j] THEN @ ELSE @ + 1]
    /\ Reconciled(j, scope[j], "running", assessOnly[j], attempts'[j])
    /\ UNCHANGED <<assessOnly, assessed, deps, rows, unreleased, zombie,
                   sweeps, parks, scopeVars>>

Implements(j) == status[j] = "running" /\ ~assessOnly[j]
Writes(j) == Implements(j) \/ zombie[j]

guardAdmits(j, p) == p \in rows[j] \/ Conflicts(j, {p}, JobLocks) = {}

(* guardToolWriteLock: the row is held, or taken now because nobody        *)
(* conflicts.  The tool asked canEdit or canCreate first: a snapshot of    *)
(* the payload's scope and what was granted since.  (If the guard itself   *)
(* throws, the tool writes without a row and nothing here changes.)        *)
toolWrite(j, p) ==
    /\ Writes(j)
    /\ p \in scope[j]
    /\ guardAdmits(j, p)
    /\ rows' = [rows EXCEPT ![j] = @ \cup {p}]
    /\ UNCHANGED <<status, assessOnly, attempts, assessed, deps, unreleased,
                   index, zombie, sweeps, parks, scopeVars>>

toolWriteRefused(j, p) ==
    /\ Writes(j)
    /\ p \in scope[j]
    /\ ~guardAdmits(j, p)
    /\ cleanupStaleFileLocks
    /\ UNCHANGED <<status, assessOnly, attempts, assessed, deps, unreleased,
                   index, zombie, sweeps, parks, scopeVars>>

-----------------------------------------------------------------------------
(* Scope expansion                                                         *)

(* acquireAdditionalJobWritePaths: an executing job takes the paths only   *)
(* if they are free; any other job takes them with its next lease.         *)
additionalPathsFree(j, paths) ==
    status[j] \in Active => Conflicts(j, paths, JobLocks) = {}

additionalRows(j, paths) ==
    IF status[j] \in Active THEN [rows EXCEPT ![j] = @ \cup paths] ELSE rows

(* Mutant of widenedScope: the rows are taken, the payload stays.          *)
unsavedScope(j, paths) == scope

widenedScope(j, paths) == [scope EXCEPT ![j] = @ \cup paths]

(* requestJobScopeExpansion, by the worker: some paths are granted at      *)
(* once, for the others a human is asked while the worker waits.           *)
requestJobScopeExpansion(j, p) ==
    /\ Writes(j)
    /\ status[j] = "running" \/ asked[j] # {}
    /\ p \notin scope[j] \cup asked[j]
    /\ expansions < MaxExpansions
    /\ expansions' = expansions + 1
    /\ \/ /\ additionalPathsFree(j, {p})
          /\ rows' = additionalRows(j, {p})
          /\ scope' = widenedScope(j, {p})
          /\ Reconciled(j, scope'[j], status[j], assessOnly[j], attempts[j])
          /\ UNCHANGED asked
       \/ /\ asked' = [asked EXCEPT ![j] = @ \cup {p}]
          /\ UNCHANGED <<rows, scope, index>>
    /\ UNCHANGED <<status, assessOnly, attempts, assessed, deps, unreleased,
                   zombie, sweeps, parks>>

(* The provider call ends blocked on its request: the job is parked.       *)
parkForScope(j) ==
    /\ Implements(j)
    /\ asked[j] # {}
    /\ Settle(j, "parked", FALSE, IF attempts[j] > 0 THEN attempts[j] - 1 ELSE 0)
    /\ UNCHANGED <<assessed, deps, unreleased, zombie, sweeps, parks, scopeVars>>

(* resolveJobScopeExpansion: the answer comes whatever became of the job,  *)
(* which may be running, swept, leased again, parked or finished.          *)
approveScope(j) ==
    /\ asked[j] # {}
    /\ asked' = [asked EXCEPT ![j] = {}]
    /\ additionalPathsFree(j, asked[j])
    /\ rows' = additionalRows(j, asked[j])
    /\ scope' = widenedScope(j, asked[j])
    /\ status' = [status EXCEPT ![j] = IF @ = "parked" THEN "queued" ELSE @]
    /\ Reconciled(j, scope'[j], status'[j], assessOnly[j], attempts[j])
    /\ UNCHANGED <<assessOnly, attempts, assessed, deps, unreleased, zombie,
                   sweeps, parks, expansions>>

denyScope(j) ==
    /\ asked[j] # {}
    /\ asked' = [asked EXCEPT ![j] = {}]
    /\ status' = [status EXCEPT ![j] = IF @ = "parked" THEN "failed" ELSE @]
    /\ Reconciled(j, scope[j], status'[j], assessOnly[j], attempts[j])
    /\ UNCHANGED <<assessOnly, attempts, assessed, deps, rows, unreleased, zombie,
                   sweeps, parks, scope, expansions>>

-----------------------------------------------------------------------------
(* Mutant of LiveSiblings: only another assessment is waited for.          *)
AssessedSiblings(j) == {k \in Job \ {j} : status[k] = "awaiting"}

LiveSiblings(j) ==
    {k \in Job \ {j} : JobLocks[k] # {} /\ status[k] \notin {"queued", "parked"}}

(* acquireAssessmentBarrier and the two places a worker calls it from: at  *)
(* the end of an attempt, and at the start of an assess-only lease.  A     *)
(* request nobody decided is abandoned when the attempt ends.              *)
acquireAssessmentBarrier(j) ==
    /\ status[j] = "running"
    /\ IF LiveSiblings(j) = {}
       THEN /\ status' = [status EXCEPT ![j] = "awaiting"]
            /\ assessOnly' = [assessOnly EXCEPT ![j] = FALSE]
            /\ rows' = [rows EXCEPT ![j] = @ \cup Path]
            /\ Reconciled(j, scope[j], "awaiting", FALSE, attempts[j])
            /\ UNCHANGED attempts
       ELSE Settle(j, "queued", TRUE, attempts[j])
    /\ asked' = [asked EXCEPT ![j] = {}]
    /\ UNCHANGED <<assessed, deps, unreleased, zombie, sweeps, parks, scope, expansions>>

verdictPass(j) ==
    /\ status[j] = "awaiting"
    /\ Settle(j, "succeeded", FALSE, attempts[j])
    /\ UNCHANGED <<assessed, deps, unreleased, zombie, sweeps, parks, scopeVars>>

(* A fail verdict fails the job, creates its repairs and points the jobs   *)
(* that waited for it at them.                                             *)
verdictFail(j) ==
    /\ status[j] = "awaiting"
    /\ status' = [k \in Job |-> IF k = j THEN "failed"
                                ELSE IF k \in Children(j) THEN "queued" ELSE status[k]]
    /\ rows' = [rows EXCEPT ![j] = {}]
    /\ deps' = [k \in Job |-> IF Children(j) # {} /\ j \in deps[k] /\ k \notin Children(j)
                              THEN (deps[k] \ {j}) \cup Children(j) ELSE deps[k]]
    /\ \E heard \in BOOLEAN :
         index' = IF heard THEN [k \in Job |->
                                   IF k \in Children(j) \cup {j}
                                   THEN IndexHeld(k, scope[k], status'[k], FALSE, attempts[k])
                                   ELSE index[k]]
                  ELSE index
    /\ UNCHANGED <<assessOnly, attempts, assessed, unreleased, zombie,
                   sweeps, parks, scopeVars>>

(* The assessment itself fails: retried as assess-only, then parked.       *)
assessmentFails(j) ==
    /\ status[j] = "awaiting"
    /\ IF assessed[j] < MaxAssess
       THEN /\ Settle(j, "queued", TRUE, attempts[j])
            /\ assessed' = [assessed EXCEPT ![j] = @ + 1]
            /\ UNCHANGED parks
       ELSE /\ parks < MaxParks
            /\ Settle(j, "parked", TRUE, attempts[j])
            /\ parks' = parks + 1
            /\ assessed' = [assessed EXCEPT ![j] = 0]
    /\ UNCHANGED <<deps, unreleased, zombie, sweeps, scopeVars>>

retryOrFail(j) ==
    /\ status[j] = "running" /\ ~assessOnly[j]
    /\ Settle(j, IF attempts[j] < MaxAttempts THEN "queued" ELSE "failed",
              FALSE, attempts[j])
    /\ asked' = [asked EXCEPT ![j] = {}]
    /\ UNCHANGED <<assessed, deps, unreleased, zombie, sweeps, parks, scope, expansions>>

(* A blocked verdict waits for a human.                                    *)
park(j) ==
    /\ status[j] = "awaiting"
    /\ parks < MaxParks
    /\ parks' = parks + 1
    /\ Settle(j, "parked", FALSE, attempts[j])
    /\ UNCHANGED <<assessed, deps, unreleased, zombie, sweeps, scopeVars>>

(* An answer requeues the job; the cache does not act on that wake.        *)
resume(j) ==
    /\ status[j] = "parked" /\ asked[j] = {}
    /\ status' = [status EXCEPT ![j] = "queued"]
    /\ rows' = [rows EXCEPT ![j] = {}]
    /\ UNCHANGED <<assessOnly, attempts, assessed, deps, unreleased, index,
                   zombie, sweeps, parks, scopeVars>>

(* Both requeues refund an attempt that ran and keep a finished            *)
(* implementation by making the job assess-only.                           *)
Requeued(j) ==
    /\ status' = [status EXCEPT ![j] = "queued"]
    /\ assessOnly' = [assessOnly EXCEPT ![j] = @ \/ status[j] = "awaiting"]
    /\ attempts' = [attempts EXCEPT ![j] =
                      IF status[j] = "running" /\ ~assessOnly[j] /\ @ > 0
                      THEN @ - 1 ELSE @]

(* requeueExpiredLeases releases the rows in its transaction.              *)
sweep(j) ==
    /\ sweeps < MaxSweeps
    /\ status[j] \in Active
    /\ Requeued(j)
    /\ rows' = [rows EXCEPT ![j] = {}]
    /\ index' \in {index, Refreshed(status', assessOnly', attempts')}
    /\ zombie' = [zombie EXCEPT ![j] = @ \/ (Zombies /\ status[j] = "running")]
    /\ sweeps' = sweeps + 1
    /\ UNCHANGED <<assessed, deps, unreleased, parks, scopeVars>>

(* requeueJobForShutdown commits first and releases the rows afterwards.   *)
shutdownRequeue(j) ==
    /\ sweeps < MaxSweeps
    /\ status[j] \in Active
    /\ Requeued(j)
    /\ unreleased' = unreleased \cup {j}
    /\ Reconciled(j, scope[j], "queued", assessOnly'[j], attempts'[j])
    /\ sweeps' = sweeps + 1
    /\ UNCHANGED <<assessed, deps, rows, zombie, parks, scopeVars>>

releaseJobFileLocks(j) ==
    /\ j \in unreleased
    /\ unreleased' = unreleased \ {j}
    /\ rows' = [rows EXCEPT ![j] = {}]
    /\ UNCHANGED <<status, assessOnly, attempts, assessed, deps, index,
                   zombie, sweeps, parks, scopeVars>>

(* The worker of a swept lease notices that it lost it.                    *)
zombieStops(j) ==
    /\ zombie[j]
    /\ zombie' = [zombie EXCEPT ![j] = FALSE]
    /\ UNCHANGED <<status, assessOnly, attempts, assessed, deps, rows,
                   unreleased, index, sweeps, parks, scopeVars>>

(* A queued job behind a failed one is canceled (JobDependencies).         *)
cancelDeadlocked(j) ==
    /\ status[j] = "queued"
    /\ \E k \in deps[j] : status[k] = "failed"
    /\ Settle(j, "failed", assessOnly[j], attempts[j])
    /\ UNCHANGED <<assessed, deps, unreleased, zombie, sweeps, parks, scopeVars>>

(* The repair timer of the run loop rebuilds the cache.                    *)
refreshFromDb ==
    /\ index # JobLocks
    /\ index' = JobLocks
    /\ UNCHANGED <<status, assessOnly, attempts, assessed, deps, rows,
                   unreleased, zombie, sweeps, parks, scopeVars>>

(* The run loop found nothing to lease and sleeps.                         *)
sleepUntilWake ==
    /\ \A j \in Job : ~Candidate(j)
    /\ UNCHANGED vars

Worker(j) ==
    \/ startRunning(j)
    \/ acquireAssessmentBarrier(j)
    \/ verdictPass(j)
    \/ verdictFail(j)
    \/ assessmentFails(j)
    \/ retryOrFail(j)
    \/ park(j)

Next ==
    \/ \E j \in Job :
         \/ acquireLeaseWithWriteLocks(j)
         \/ leaseRefused(j)
         \/ Worker(j)
         \/ \E p \in Path :
              \/ toolWrite(j, p)
              \/ toolWriteRefused(j, p)
              \/ requestJobScopeExpansion(j, p)
         \/ parkForScope(j)
         \/ approveScope(j)
         \/ denyScope(j)
         \/ resume(j)
         \/ sweep(j)
         \/ shutdownRequeue(j)
         \/ releaseJobFileLocks(j)
         \/ zombieStops(j)
         \/ cancelDeadlocked(j)
    \/ refreshFromDb
    \/ sleepUntilWake

Spec == Init /\ [][Next]_vars

(* The scheduler leases what it can and repairs its cache by a timer,      *)
(* workers finish what they started, an answer comes for a parked job.     *)
Fairness ==
    /\ \A j \in Job :
         /\ WF_vars(acquireLeaseWithWriteLocks(j))
         /\ WF_vars(Worker(j))
         /\ WF_vars(resume(j))
         /\ WF_vars(approveScope(j) \/ denyScope(j))
         /\ WF_vars(cancelDeadlocked(j))
    /\ WF_vars(refreshFromDb)

FairSpec == Spec /\ Fairness

-----------------------------------------------------------------------------
TypeOK ==
    /\ status \in [Job -> Status]
    /\ assessOnly \in [Job -> BOOLEAN]
    /\ attempts \in [Job -> Nat]
    /\ assessed \in [Job -> Nat]
    /\ deps \in [Job -> SUBSET Job]
    /\ rows \in [Job -> SUBSET Path]
    /\ unreleased \subseteq Job
    /\ index \in [Job -> SUBSET Path]
    /\ zombie \in [Job -> BOOLEAN]
    /\ scope \in [Job -> (SUBSET Path) \ {{}}]
    /\ asked \in [Job -> SUBSET Path]
    /\ sweeps \in Nat
    /\ parks \in Nat
    /\ expansions \in Nat

(* No two jobs that are being executed hold a common path: two writers     *)
(* never share a file, and while one job is assessed (it holds every       *)
(* path) no other job of the work item has a lease. The scan asks a cache  *)
(* that may be stale, repairs and cohorts are exempt from each other's     *)
(* queued locks, and a job's locks widen when it enters assessment.        *)
LocksDisjoint ==
    \A j, k \in Job :
        j # k /\ status[j] \in Active /\ status[k] \in Active
            => JobLocks[j] \cap JobLocks[k] = {}

(* The guard of the file tools never admits a write to a path that another *)
(* executing job holds, whatever path the tool names, whether it looks at  *)
(* the lock rows of an executing job or at the locks derived from the      *)
(* payloads.  The rows are taken at a lease, at a barrier, by the guard    *)
(* and with an expanded scope, and are released late after a shutdown;     *)
(* leases and expansions never look at them.  Left out is a row that a     *)
(* worker took for itself after its lease was swept.                       *)
GuardProtects ==
    \A j, k \in Job : j # k /\ Writes(j) /\ status[k] \in Active =>
        \A p \in JobLocks[k] :
            status[j] \in Active \/ p \notin rows[j] => ~guardAdmits(j, p)

(* Every job is settled in the end: two writers that finish together are   *)
(* both assessed, a queued lock does not hold its own work item up, and a  *)
(* lock the cache forgot to drop goes away.                                *)
EveryJobSettles == \A j \in Job : (status[j] = "queued") ~> (status[j] \in Terminal)

=============================================================================
