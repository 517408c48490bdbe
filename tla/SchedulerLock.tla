---------------------------- MODULE SchedulerLock ----------------------------
(***************************************************************************)
(* The scheduler lock: one row of the scheduler_locks table ("main") that  *)
(* decides which process may dispatch jobs.  A booting process acquires    *)
(* the row, waits for it to expire, or steals it when its heartbeat looks  *)
(* stale; the holder renews it from a timer of its event loop, and asks    *)
(* the row again before every dispatch.  The new holder force-requeues     *)
(* every leased job, on the ground that its owner must be dead.            *)
(*                                                                         *)
(* Every action is one SQLite statement or transaction, with the           *)
(* synchronous code around it.  A process runs one Scheduler, whose owner  *)
(* id is never used again: a restart is another process.  One job stands   *)
(* for the queue; its lease is reduced to the owner (module JobLease has   *)
(* tokens and expiry), and it is assumed to be kept alive by its worker.   *)
(***************************************************************************)
EXTENDS Integers

CONSTANTS
  Procs,          \* processes that run a Scheduler, one owner id each
  NoProc,         \* no owner: the row is absent, or the job is not leased
  Renew,          \* LOCK_RENEW_SEC: period of the renewal timer
  Duration,       \* LOCK_RENEW_SEC * 2: the row's time to live, and STALE_THRESHOLD
  Liveness,       \* FORCE_ACQUIRE_LIVENESS_SEC: a younger heartbeat cannot be stolen
  ErrorMax,       \* lockRenewalErrorMaxMs: errors this long concede the lock
  Retry,          \* renewalErrorRetryMs: retry period after a renewal error
  VerifyWait,     \* LOCK_RENEW_SEC + 5: how long a boot watches the heartbeat
  ExpiryBuffer,   \* added to the remaining life when a boot waits for expiry
  MaxTries,       \* attempts of acquireWithRetry
  MaxLate,        \* how late the event loop may fire a due renewal timer
  RenewalErrors,  \* whether SQLITE_BUSY may fail a statement
  MaxClock        \* bound of the clock

ASSUME LockConstants ==
  /\ NoProc \notin Procs
  /\ {Renew, Duration, Liveness, ErrorMax, Retry, VerifyWait,
      ExpiryBuffer, MaxTries, MaxLate, MaxClock} \subseteq Nat
  /\ 0 < Renew /\ 0 < MaxTries
  /\ Renew < Liveness /\ Liveness < Duration
  /\ ErrorMax < Duration
  /\ RenewalErrors \in BOOLEAN

VARIABLES
  clock,        \* wall clock, in common to every process of the host
  row,          \* the row: owner_id, acquired_at (heartbeat), expires_at
  ph,           \* where each process is in boot, dispatch and exit
  tries,        \* attempts made by acquireWithRetry
  seen,         \* acquired_at as the boot first read it (lockInfo)
  wakeAt,       \* end of the boot's sleep
  running,      \* Scheduler._running (stopForLoss and requestStop clear it)
  renewing,     \* the renewal interval, or its error retry, is armed
  lastRenewed,  \* SchedulerLockLease.lastRenewedAt
  due,          \* when the armed renewal timer is due
  maint,        \* the boot-maintenance worker thread of each process
  lease,        \* lease_owner of the job
  working       \* a worker of this process is executing the job

lockVars == <<tries, seen, wakeAt>>
timerVars == <<running, renewing, lastRenewed, due>>
jobVars == <<maint, lease, working>>
vars == <<clock, row, ph, tries, seen, wakeAt, running, renewing,
          lastRenewed, due, maint, lease, working>>

-----------------------------------------------------------------------------
(* The row.                                                                *)

NoRow == [owner |-> NoProc, beat |-> 0, exp |-> 0]

RowOf(p) == [owner |-> p, beat |-> clock, exp |-> clock + Duration]

Present == row.owner # NoProc

\* acquireSchedulerLock: an expired row is deleted, then the insert succeeds
\* unless a row is left.
CanAcquire == ~Present \/ row.exp < clock

\* Mutant: the steal compares the heartbeat with one renewal period.
CanForceEarly(p) == \/ ~Present
                    \/ row.owner = p
                    \/ row.beat + Renew <= clock

\* forceAcquireSchedulerLock: the upsert's WHERE clause.
CanForce(p) == \/ ~Present
               \/ row.owner = p
               \/ row.beat + Liveness <= clock

RemovedBy(p) == IF row.owner = p THEN NoRow ELSE row

-----------------------------------------------------------------------------
(* The phases of a process.                                                *)

LockPhases == {"acquire", "inspect", "contend", "steal", "waitExpiry",
               "verify", "recheck", "reacquire"}
BootPhases == {"got", "boot"}
LoopPhases == {"loop", "cleared", "leased"}
EndPhases == {"refused", "gone", "dead"}
Phases == {"idle"} \cup LockPhases \cup BootPhases \cup LoopPhases \cup EndPhases

MaintStates == {"none", "preflight", "force", "plain", "done"}

Live(p) == ph[p] \notin {"idle"} \cup EndPhases

Init ==
  /\ clock = 0
  /\ row = NoRow
  /\ ph = [p \in Procs |-> "idle"]
  /\ tries = [p \in Procs |-> 0]
  /\ seen = [p \in Procs |-> 0]
  /\ wakeAt = [p \in Procs |-> 0]
  /\ running = [p \in Procs |-> FALSE]
  /\ renewing = [p \in Procs |-> FALSE]
  /\ lastRenewed = [p \in Procs |-> 0]
  /\ due = [p \in Procs |-> 0]
  /\ maint = [p \in Procs |-> "none"]
  /\ lease = NoProc
  /\ working = [p \in Procs |-> FALSE]

Goto(p, phase) == ph' = [ph EXCEPT ![p] = phase]

-----------------------------------------------------------------------------
(* Boot: getting the lock.                                                 *)

start(p) ==
  /\ ph[p] = "idle"
  /\ Goto(p, "acquire")
  /\ UNCHANGED <<clock, row, lockVars, timerVars, jobVars>>

\* The lock is ours: markHeld records the time of the acquisition.  The boot's
\* local variables have served.
TakeRow(p) ==
  /\ row' = RowOf(p)
  /\ lastRenewed' = [lastRenewed EXCEPT ![p] = clock]
  /\ Goto(p, "got")
  /\ tries' = [tries EXCEPT ![p] = 0]
  /\ seen' = [seen EXCEPT ![p] = 0]
  /\ wakeAt' = [wakeAt EXCEPT ![p] = 0]
  /\ UNCHANGED <<clock, running, renewing, due, jobVars>>

Refuse(p) ==
  /\ Goto(p, "refused")
  /\ UNCHANGED <<clock, row, lockVars, timerVars, jobVars>>

\* One attempt of acquireWithRetry.  A busy database leads to the same
\* inspection as a row that is there.
acquire(p) ==
  /\ ph[p] = "acquire"
  /\ \/ CanAcquire /\ TakeRow(p)
     \/ /\ ~CanAcquire \/ RenewalErrors
        /\ tries' = [tries EXCEPT ![p] = @ + 1]
        /\ Goto(p, "inspect")
        /\ UNCHANGED <<clock, row, seen, wakeAt, timerVars, jobVars>>

\* A row after a failed attempt is a real owner; none, or an unreadable one, is
\* contention and is retried.  The last attempt gives up or throws.
inspect(p) ==
  /\ ph[p] = "inspect"
  /\ \/ Present /\ Goto(p, "contend")
     \/ /\ ~Present \/ RenewalErrors
        /\ tries[p] < MaxTries
        /\ Goto(p, "acquire")
     \/ /\ ~Present \/ RenewalErrors
        /\ tries[p] = MaxTries
        /\ \/ Goto(p, "contend")
           \/ RenewalErrors /\ Goto(p, "refused")
  /\ UNCHANGED <<clock, row, lockVars, timerVars, jobVars>>

\* The boot's decision, from a second read of the row.
contend(p) ==
  /\ ph[p] = "contend"
  /\ \/ ~Present /\ Refuse(p)
     \/ /\ Present
        /\ seen' = [seen EXCEPT ![p] = row.beat]
        /\ \/ /\ clock - row.beat > Duration
              /\ Goto(p, "steal")
              /\ UNCHANGED wakeAt
           \/ /\ clock - row.beat <= Duration
              /\ row.exp - clock <= Renew
              /\ Goto(p, "waitExpiry")
              /\ wakeAt' = [wakeAt EXCEPT ![p] = row.exp + ExpiryBuffer]
           \/ /\ clock - row.beat <= Duration
              /\ row.exp - clock > Renew
              /\ Goto(p, "verify")
              /\ wakeAt' = [wakeAt EXCEPT ![p] = clock + VerifyWait]
        /\ UNCHANGED <<clock, row, tries, timerVars, jobVars>>

\* forceAcquire, on both of the paths that decide to steal.
steal(p) ==
  /\ ph[p] = "steal"
  /\ \/ CanForce(p) /\ TakeRow(p)
     \/ ~CanForce(p) /\ Refuse(p)

waitExpiry(p) ==
  /\ ph[p] = "waitExpiry"
  /\ wakeAt[p] <= clock
  /\ \/ CanAcquire /\ TakeRow(p)
     \/ ~CanAcquire /\ Refuse(p)

verify(p) ==
  /\ ph[p] = "verify"
  /\ wakeAt[p] <= clock
  /\ \/ CanAcquire /\ TakeRow(p)
     \/ /\ ~CanAcquire
        /\ Goto(p, "recheck")
        /\ UNCHANGED <<clock, row, lockVars, timerVars, jobVars>>

\* The read that compares the heartbeat with the one seen before the wait.
recheck(p) ==
  /\ ph[p] = "recheck"
  /\ \/ ~Present /\ Goto(p, "reacquire")
     \/ Present /\ row.beat = seen[p] /\ Goto(p, "steal")
     \/ Present /\ row.beat # seen[p] /\ Goto(p, "refused")
  /\ UNCHANGED <<clock, row, lockVars, timerVars, jobVars>>

reacquire(p) ==
  /\ ph[p] = "reacquire"
  /\ \/ CanAcquire /\ TakeRow(p)
     \/ ~CanAcquire /\ Refuse(p)

\* A stop requested during one of the boot's sleeps.
stopWait(p) ==
  /\ ph[p] \in {"waitExpiry", "verify"}
  /\ Goto(p, "gone")
  /\ UNCHANGED <<clock, row, lockVars, timerVars, jobVars>>

-----------------------------------------------------------------------------
(* Renewal.                                                                *)

\* The UPDATE hit our row: heartbeat and expiry move, the timer is armed again.
Renewed(p) ==
  /\ row.owner = p
  /\ row' = RowOf(p)
  /\ lastRenewed' = [lastRenewed EXCEPT ![p] = clock]
  /\ due' = [due EXCEPT ![p] = clock + Renew]
  /\ renewing' = [renewing EXCEPT ![p] = TRUE]

\* stopForLoss: the loop ends and the timers are cleared.  Active workers are
\* told to abort; they stop later (workerStop).
StopForLoss(p) ==
  /\ running' = [running EXCEPT ![p] = FALSE]
  /\ renewing' = [renewing EXCEPT ![p] = FALSE]
  /\ UNCHANGED <<clock, row, lockVars, lastRenewed, due, jobVars>>

\* Mutant: the holder concedes only at the row's time to live.
RenewalErrorUntilExpiry(p) ==
  /\ RenewalErrors
  /\ clock - lastRenewed[p] < Duration
  /\ due' = [due EXCEPT ![p] = clock + Retry]
  /\ renewing' = [renewing EXCEPT ![p] = TRUE]
  /\ UNCHANGED <<row, lastRenewed>>

\* A renewal that throws: retried soon while the last success is recent.
RenewalError(p) ==
  /\ RenewalErrors
  /\ clock - lastRenewed[p] < ErrorMax
  /\ due' = [due EXCEPT ![p] = clock + Retry]
  /\ renewing' = [renewing EXCEPT ![p] = TRUE]
  /\ UNCHANGED <<row, lastRenewed>>

RenewalConceded(p) ==
  /\ RenewalErrors
  /\ clock - lastRenewed[p] >= ErrorMax

\* acquireBootLock ends by renewing once and arming the interval; then the
\* maintenance thread is started.
startRenewal(p) ==
  /\ ph[p] = "got"
  /\ \/ /\ Renewed(p) \/ RenewalError(p)
        /\ running' = [running EXCEPT ![p] = TRUE]
        /\ maint' = [maint EXCEPT ![p] = "preflight"]
        /\ Goto(p, "boot")
        /\ UNCHANGED <<clock, lockVars, lease, working>>
     \/ /\ row.owner # p \/ RenewalConceded(p)
        /\ Refuse(p)

\* The renewal timer fires.  It cannot interrupt the synchronous stretch
\* between the dispatch check and the lease.
renewTick(p) ==
  /\ renewing[p]
  /\ ph[p] # "cleared"
  /\ due[p] <= clock
  /\ UNCHANGED ph
  /\ \/ /\ Renewed(p) \/ RenewalError(p)
        /\ UNCHANGED <<clock, lockVars, running, jobVars>>
     \/ row.owner # p /\ StopForLoss(p)
     \/ RenewalConceded(p) /\ StopForLoss(p)

-----------------------------------------------------------------------------
(* Boot: orphan recovery.                                                  *)

OwnsLiveRow(p) == row.owner = p /\ clock <= row.exp

\* shouldForceRequeue: the maintenance thread's advisory read.  The thread
\* lives as long as its process, and so may outlast a boot that was stopped.
preflight(p) ==
  /\ maint[p] = "preflight"
  /\ ph[p] # "dead"
  /\ maint' = [maint EXCEPT ![p] = IF OwnsLiveRow(p) THEN "force" ELSE "plain"]
  /\ UNCHANGED <<clock, row, ph, lockVars, timerVars, lease, working>>

\* requeueOrphanedJobs: ownership is read again in the write transaction.
\* Without force only expired job leases are taken, and this one is kept alive.
recoverOrphans(p) ==
  /\ maint[p] \in {"force", "plain"}
  /\ ph[p] # "dead"
  /\ maint' = [maint EXCEPT ![p] = "done"]
  /\ lease' = IF maint[p] = "force" /\ OwnsLiveRow(p) THEN NoProc ELSE lease
  /\ UNCHANGED <<clock, row, ph, lockVars, timerVars, working>>

\* The end of boot: the run loop starts unless the lock was lost meanwhile.
bootDone(p) ==
  /\ ph[p] = "boot"
  /\ maint[p] = "done"
  /\ running[p]
  /\ Goto(p, "loop")
  /\ UNCHANGED <<clock, row, lockVars, timerVars, jobVars>>

\* Scheduler.stop: timers cleared, our row deleted (if the DELETE gets through).
Stopped(p) ==
  /\ running' = [running EXCEPT ![p] = FALSE]
  /\ renewing' = [renewing EXCEPT ![p] = FALSE]
  /\ \/ row' = RemovedBy(p)
     \/ RenewalErrors /\ row' = row
  /\ UNCHANGED <<clock, lockVars, lastRenewed, due>>

\* Every boot failure after the lock was acquired: a lost lock, a fatal hook, a
\* requested stop, the boot's timeout.
bootFail(p) ==
  /\ ph[p] = "boot"
  /\ Stopped(p)
  /\ Goto(p, "gone")
  /\ UNCHANGED jobVars

-----------------------------------------------------------------------------
(* Dispatch and exit.                                                      *)

\* canDispatch: what the row says, after an expired row of ours was renewed.
Authorised(p) == running[p] /\ row.owner = p /\ clock < row.exp
RenewExpired(p) == running[p] /\ row.exp <= clock /\ Renewed(p)
LostAuthority(p) ==
  /\ running[p]
  /\ \/ row.owner # p
     \/ row.owner = p /\ row.exp <= clock /\ RenewalErrors

\* canDispatch at the head of a lap and before the lease.
canDispatch(p) ==
  /\ ph[p] = "loop"
  /\ \/ /\ Authorised(p)
        /\ Goto(p, "cleared")
        /\ UNCHANGED <<clock, row, lockVars, timerVars, jobVars>>
     \/ /\ RenewExpired(p)
        /\ Goto(p, "cleared")
        /\ UNCHANGED <<clock, lockVars, running, jobVars>>
     \/ /\ LostAuthority(p)
        /\ UNCHANGED ph
        /\ StopForLoss(p)

\* acquireWithLocks: wins the job's lease, or finds it taken.
dispatch(p) ==
  /\ ph[p] = "cleared"
  /\ \/ lease = NoProc /\ lease' = p /\ Goto(p, "leased")
     \/ lease # NoProc /\ lease' = lease /\ Goto(p, "loop")
  /\ UNCHANGED <<clock, row, lockVars, timerVars, maint, working>>

ReturnedBy(p) == IF lease = p THEN NoProc ELSE lease

\* The worker's promise asks canDispatch again before the worker is started; if
\* it may not start, the lease goes back without an attempt penalty.
startWorker(p) ==
  /\ ph[p] = "leased"
  /\ Goto(p, "loop")
  /\ \/ /\ Authorised(p)
        /\ working' = [working EXCEPT ![p] = TRUE]
        /\ UNCHANGED <<clock, row, lockVars, timerVars, maint, lease>>
     \/ /\ RenewExpired(p)
        /\ working' = [working EXCEPT ![p] = TRUE]
        /\ UNCHANGED <<clock, lockVars, running, maint, lease>>
     \/ /\ LostAuthority(p)
        /\ running' = [running EXCEPT ![p] = FALSE]
        /\ renewing' = [renewing EXCEPT ![p] = FALSE]
        /\ lease' = ReturnedBy(p)
        /\ UNCHANGED <<clock, row, lockVars, lastRenewed, due, maint, working>>
     \/ /\ ~running[p] \/ RenewalErrors
        /\ lease' = ReturnedBy(p)
        /\ UNCHANGED <<clock, row, lockVars, timerVars, maint, working>>

\* A worker ends, or acknowledges its abort: its lease is released if its token
\* still matches.
workerStop(p) ==
  /\ working[p]
  /\ working' = [working EXCEPT ![p] = FALSE]
  /\ lease' = ReturnedBy(p)
  /\ UNCHANGED <<clock, row, ph, lockVars, timerVars, maint>>

\* requestStop inside the run loop: renewal goes on while workers drain.
requestStop(p) ==
  /\ ph[p] = "loop"
  /\ running[p]
  /\ running' = [running EXCEPT ![p] = FALSE]
  /\ UNCHANGED <<clock, row, ph, lockVars, renewing, lastRenewed, due, jobVars>>

\* Mutant: the stop does not wait for the workers.
stopNow(p) ==
  /\ ph[p] = "loop"
  /\ ~running[p]
  /\ Stopped(p)
  /\ Goto(p, "gone")
  /\ UNCHANGED jobVars

\* The lock is released only after the last worker has ended (deferred stop).
stop(p) ==
  /\ ph[p] = "loop"
  /\ ~running[p]
  /\ ~working[p]
  /\ Stopped(p)
  /\ Goto(p, "gone")
  /\ UNCHANGED jobVars

\* releaseForForcedExit, then the process ends: either statement may fail.
forcedExit(p) ==
  /\ ph[p] \in BootPhases \cup LoopPhases
  /\ \/ lease' = ReturnedBy(p)
     \/ RenewalErrors /\ lease' = lease
  /\ Stopped(p)
  /\ working' = [working EXCEPT ![p] = FALSE]
  /\ Goto(p, "dead")
  /\ UNCHANGED maint

crash(p) ==
  /\ Live(p)
  /\ Goto(p, "dead")
  /\ running' = [running EXCEPT ![p] = FALSE]
  /\ renewing' = [renewing EXCEPT ![p] = FALSE]
  /\ working' = [working EXCEPT ![p] = FALSE]
  /\ UNCHANGED <<clock, row, lockVars, lastRenewed, due, maint, lease>>

\* Time passes, but no armed renewal timer is left unserved for more than
\* MaxLate after it is due.
tick ==
  /\ clock < MaxClock
  /\ \A p \in Procs : renewing[p] => clock < due[p] + MaxLate
  /\ clock' = clock + 1
  /\ UNCHANGED <<row, ph, lockVars, timerVars, jobVars>>

bootStep(p) ==
  \/ start(p) \/ acquire(p) \/ inspect(p) \/ contend(p) \/ steal(p)
  \/ waitExpiry(p) \/ verify(p) \/ recheck(p) \/ reacquire(p) \/ stopWait(p)
  \/ startRenewal(p) \/ preflight(p) \/ recoverOrphans(p) \/ bootDone(p)
  \/ bootFail(p)

loopStep(p) ==
  \/ renewTick(p) \/ canDispatch(p) \/ dispatch(p) \/ startWorker(p)
  \/ workerStop(p) \/ requestStop(p) \/ stop(p) \/ forcedExit(p) \/ crash(p)

Next == tick \/ \E p \in Procs : bootStep(p) \/ loopStep(p)

Spec == Init /\ [][Next]_vars

-----------------------------------------------------------------------------
(* Properties.                                                             *)

\* Every variable has its type; acquireWithRetry stops after MaxTries attempts.
TypeOK ==
  /\ clock \in 0..MaxClock
  /\ row \in [owner : Procs \cup {NoProc}, beat : 0..MaxClock, exp : Nat]
  /\ ph \in [Procs -> Phases]
  /\ tries \in [Procs -> 0..MaxTries]
  /\ seen \in [Procs -> 0..MaxClock]
  /\ wakeAt \in [Procs -> Nat]
  /\ running \in [Procs -> BOOLEAN]
  /\ renewing \in [Procs -> BOOLEAN]
  /\ lastRenewed \in [Procs -> 0..MaxClock]
  /\ due \in [Procs -> Nat]
  /\ maint \in [Procs -> MaintStates]
  /\ lease \in Procs \cup {NoProc}
  /\ working \in [Procs -> BOOLEAN]

\* "Must stay strictly below durationSec" (lockRenewalErrorMaxMs,
\* SchedulerLockLease.js): as long as a process still renews a row that is its
\* own, whatever errors it met, that row has not expired, so no booting process
\* can plain-acquire it beside a scheduler that has not conceded.
RowOutlivesRenewal ==
  \A p \in Procs : renewing[p] /\ row.owner = p => clock <= row.exp

\* forceAcquireSchedulerLock and the boot's waits: the row of a process that
\* keeps renewing it is taken by nobody; it only leaves that process when the
\* process itself ends.
LiveHolderKeepsLock ==
  [][\A p \in Procs : renewing[p] /\ row.owner = p /\ row'.owner # p
       => ph'[p] \in EndPhases]_vars

\* recoverOrphans: "any leased/running/awaiting_assessment row belongs to a
\* previous (now dead) process".  No step takes the lease of a worker that is
\* executing and goes on executing.
WorkerKeepsLease ==
  [][\A p \in Procs : working[p] /\ working'[p] /\ lease = p => lease' = p]_vars

\* Taking the lock over, force-requeueing and dispatching again never puts two
\* workers on one job: the old holder released the row after its last worker
\* ended, or died with it.
NoDuplicateExecution ==
  \A p, q \in Procs : working[p] /\ working[q] => p = q
=============================================================================
