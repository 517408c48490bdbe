---------------------------- MODULE AttemptBudget ----------------------------
(***************************************************************************)
(* The two retry budgets of one assessable job.                            *)
(*                                                                         *)
(* jobs.attempt_count counts implementation attempts against max_attempts; *)
(* jobs.assessment_attempt_count counts assessments of the candidate those *)
(* attempts produced against assessment_max_attempts.  A worker charges    *)
(* the budget when it starts and the charge is refunded when the attempt   *)
(* was interrupted rather than failed: by the worker itself when it still  *)
(* holds the lease, or by the sweep that takes the lease away.  The        *)
(* refunds read job_attempts, whose rows the sweeps never close.           *)
(*                                                                         *)
(* A lease token is the number of the lease.  The worker of a lease keeps  *)
(* running after its lease was swept, until its next database call         *)
(* notices; it is then one of several workers of the same job.             *)
(***************************************************************************)
EXTENDS Naturals, Sequences, SequencesExt, FiniteSets

CONSTANTS MaxAttempts,   \* max_attempts of a fresh retry generation
          AssessMax,     \* assessment_max_attempts at creation
          MaxFaults,     \* bound: expiries, interruptions, crashes, shutdowns
          MaxGrants,     \* bound: retries an operator authorises
          MaxLeases      \* bound: leases of the job

ASSUME BudgetAssumption ==
  /\ MaxAttempts \in Nat \ {0} /\ AssessMax \in Nat \ {0}
  /\ MaxFaults \in Nat /\ MaxGrants \in Nat /\ MaxLeases \in Nat

VARIABLES
  job,      \* the row of jobs: status, lease token, counters, _assess_only
  rows,     \* the rows of job_attempts, in the order of their ids
  worker,   \* per lease, where its worker stands and the row it opened
  up,       \* whether the scheduler process runs
  recovery, \* leases whose worker opened a dead-letter recovery gate
  faults, grants,
  history   \* what the counters are compared with (below)

vars == <<job, rows, worker, up, recovery, faults, grants, history>>

Leases == 1..MaxLeases
NoLease == 0
Holding == {"leased", "running", "awaiting_assessment"}
Settled == {"succeeded", "failed", "dead_letter", "canceled", "waiting_on_human"}

\* Where a worker may be between two of its database calls: none, leased, setup,
\* impl, failing, stashing, inspect, audit, marking, assessSetup, assess, gone.

\* history.failed: implementation failures retryOrFail settled for the owner.
\* history.stray: refunds a sweep made for an attempt of another lease.
\* history.lapsed: failed assessments of the current candidate.

-----------------------------------------------------------------------------
(* The queue's primitives *)

Owns(w) == job.token = w /\ job.status \in Holding

\* isLeaseValid, and the guards of incrementAndCreateAttempt.
LeaseValid(w) == Owns(w) /\ ~job.expired

Go(w, step) == worker' = [worker EXCEPT ![w].pc = step]

Unleased(j, status) == [j EXCEPT !.status = status, !.token = NoLease, !.expired = FALSE]

\* releaseLease: refused (FALSE in the code) unless w still owns the job.
Released(w, status) == IF Owns(w) THEN Unleased(job, status) ELSE job

\* MAX(0, attempt_count - 1).
Minus1(n) == IF n = 0 THEN 0 ELSE n - 1

\* completeAttempt writes whatever the row says now.
Closed(r, status) == [rows EXCEPT ![r].status = status]

\* closeRunningAttemptAsLeaseLost and the guarded UPDATE of the interruption.
ClosedIfRunning(r, status) == IF rows[r].status = "running" THEN Closed(r, status) ELSE rows

NewRow(kind, w) == [kind |-> kind, status |-> "running", by |-> w, charged |-> TRUE]

\* A refund is for the attempt in row r, if that is the attempt of lease w.
Uncharge(rs, r, w) == IF rs[r].by = w THEN [rs EXCEPT ![r].charged = FALSE] ELSE rs

Init ==
  /\ job = [status |-> "queued", token |-> NoLease, expired |-> FALSE,
            count |-> 0, max |-> MaxAttempts, acount |-> 0, amax |-> AssessMax,
            assessOnly |-> FALSE]
  /\ rows = <<>>
  /\ worker = [w \in Leases |-> [pc |-> "none", row |-> 0]]
  /\ up = TRUE
  /\ recovery = {}
  /\ faults = 0 /\ grants = 0
  /\ history = [failed |-> 0, stray |-> 0, lapsed |-> 0]

-----------------------------------------------------------------------------
(* Leasing and setup *)

\* acquireLease: the scheduler hands the queued job to a new worker.
acquireLease(w) ==
  /\ up /\ job.status = "queued"
  /\ worker[w].pc = "none" /\ \A v \in 1..(w - 1) : worker[v].pc # "none"
  /\ job' = [job EXCEPT !.status = "leased", !.token = w, !.expired = FALSE]
  /\ Go(w, "leased")
  /\ UNCHANGED <<rows, up, recovery, faults, grants, history>>

\* The worker moves its leased row to running; the attempt is not yet counted.
startRunning(w) ==
  /\ worker[w].pc = "leased"
  /\ IF job.token = w /\ job.status = "leased"
     THEN /\ job' = [job EXCEPT !.status = "running"]
          /\ Go(w, IF job.assessOnly THEN "assessSetup" ELSE "setup")
     ELSE /\ Go(w, "gone")
          /\ UNCHANGED job
  /\ UNCHANGED <<rows, up, recovery, faults, grants, history>>

\* A gate before the attempt (freshness, provider readiness, shutdown during
\* setup) puts the job back: there is nothing to refund.
deferBeforeAttempt(w) ==
  /\ worker[w].pc = "setup"
  /\ faults < MaxFaults /\ faults' = faults + 1
  /\ job' = Released(w, "queued")
  /\ Go(w, "gone")
  /\ UNCHANGED <<rows, up, recovery, grants, history>>

\* The counters incrementAndCreateAttempt writes.
chargeAttempt(w) ==
  [job EXCEPT !.count = @ + 1, !.acount = 0]

\* incrementAndCreateAttempt.
incrementAndCreateAttempt(w) ==
  /\ worker[w].pc = "setup"
  /\ IF LeaseValid(w)
     THEN /\ job' = chargeAttempt(w)
          /\ rows' = Append(rows, NewRow("implementation", w))
          /\ worker' = [worker EXCEPT ![w] = [pc |-> "impl", row |-> Len(rows) + 1]]
          /\ history' = [history EXCEPT !.lapsed = 0]
     ELSE /\ Go(w, "gone")
          /\ UNCHANGED <<job, rows, history>>
  /\ UNCHANGED <<up, recovery, faults, grants>>

-----------------------------------------------------------------------------
(* The end of an implementation attempt *)

\* releaseLeaseWithoutAttemptPenalty: one transaction, refused to a worker
\* whose lease is gone.
refundRelease(w) ==
  IF Owns(w)
  THEN [job |-> [Released(w, "queued") EXCEPT !.count = Minus1(@)],
        rows |-> Uncharge(rows, worker[w].row, w)]
  ELSE [job |-> job, rows |-> rows]

\* The callers that close the row only once the release succeeded.
InterruptReleased(w) ==
  IF Owns(w) THEN [refundRelease(w).rows EXCEPT ![worker[w].row].status = "interrupted"]
  ELSE rows

\* A provider error: the row is closed as failed, then the worker awaits the
\* stash of its worktree before it settles the job.
attemptFails(w) ==
  /\ worker[w].pc = "impl"
  /\ IF job.token = w
     THEN rows' = Closed(worker[w].row, "failed") /\ Go(w, "failing")
     ELSE rows' = ClosedIfRunning(worker[w].row, "interrupted") /\ Go(w, "gone")
  /\ UNCHANGED <<job, up, recovery, faults, grants, history>>

\* retryOrFail: dead-letter or queue again.  A repeated or permanent error is
\* dead-lettered early; the recovery gate is created before the release.
settleFailure(w, j, early) ==
  LET dead == early \/ j.count >= j.max
  IN /\ job' = IF Owns(w) THEN Unleased(j, IF dead THEN "dead_letter" ELSE "queued") ELSE j
     /\ recovery' = IF dead THEN recovery \cup {w} ELSE recovery
     /\ history' = IF Owns(w) THEN [history EXCEPT !.failed = @ + 1] ELSE history

retryOrFail(w) ==
  /\ worker[w].pc = "failing"
  /\ \E early \in BOOLEAN : settleFailure(w, job, early)
  /\ Go(w, "gone")
  /\ UNCHANGED <<rows, up, faults, grants>>

\* retryOrFail while the worker shuts down: the failure becomes an interruption.
retryDuringShutdown(w) ==
  /\ worker[w].pc = "failing"
  /\ faults < MaxFaults /\ faults' = faults + 1
  /\ job' = refundRelease(w).job
  /\ rows' = InterruptReleased(w)
  /\ Go(w, "gone")
  /\ UNCHANGED <<up, recovery, grants, history>>

\* Mutant: a failure before the attempt row exists is not counted.
setupFailureUncounted == job

\* attempt_count + 1 without a row, so that failures of the setup, too, end in
\* the dead letter.
setupFailureCounted == [job EXCEPT !.count = @ + 1]

\* handleCatastrophicExecuteError before the attempt row exists.
catastrophicError(w) ==
  /\ worker[w].pc = "setup"
  /\ faults < MaxFaults /\ faults' = faults + 1
  /\ IF job.token = w
     THEN \E early \in BOOLEAN :
            settleFailure(w, setupFailureCounted, early)
     ELSE UNCHANGED <<job, recovery, history>>
  /\ Go(w, "gone")
  /\ UNCHANGED <<rows, up, grants>>

\* An interruption (kill, nudge, stall, paused provider, budget): the row is
\* closed first, then the worker awaits the stash of its partial work.
attemptInterrupted(w) ==
  /\ worker[w].pc = "impl"
  /\ faults < MaxFaults /\ faults' = faults + 1
  /\ IF job.token = w
     THEN rows' = Closed(worker[w].row, "interrupted") /\ Go(w, "stashing")
     ELSE rows' = ClosedIfRunning(worker[w].row, "interrupted") /\ Go(w, "gone")
  /\ UNCHANGED <<job, up, recovery, grants, history>>

releaseWithoutPenalty(w) ==
  /\ worker[w].pc = "stashing"
  /\ job' = refundRelease(w).job
  /\ rows' = refundRelease(w).rows
  /\ Go(w, "gone")
  /\ UNCHANGED <<up, recovery, faults, grants, history>>

\* SQLite contention, or a catastrophic error during shutdown: the job is
\* released and, if that succeeded, the row closed.
contention(w) ==
  /\ worker[w].pc = "impl"
  /\ faults < MaxFaults /\ faults' = faults + 1
  /\ job' = refundRelease(w).job
  /\ rows' = InterruptReleased(w)
  /\ Go(w, "gone")
  /\ UNCHANGED <<up, recovery, grants, history>>

-----------------------------------------------------------------------------
(* Assessment attached to the attempt that produced the candidate *)

\* acquireAssessmentBarrier: the candidate is committed and goes to assessment,
\* or waits as assess-only for the sibling writers (bounded as a fault).
acquireAssessmentBarrier(w) ==
  /\ worker[w].pc = "impl"
  /\ \/ /\ LeaseValid(w)
        /\ job' = [job EXCEPT !.status = "awaiting_assessment"]
        /\ Go(w, "inspect")
        /\ UNCHANGED <<rows, faults>>
     \/ /\ LeaseValid(w)
        /\ faults < MaxFaults /\ faults' = faults + 1
        /\ job' = [Released(w, "queued") EXCEPT !.assessOnly = TRUE]
        /\ rows' = Closed(worker[w].row, "succeeded")
        /\ Go(w, "gone")
     \/ /\ ~LeaseValid(w)
        /\ rows' = Closed(worker[w].row, "interrupted")
        /\ Go(w, "gone")
        /\ UNCHANGED <<job, faults>>
  /\ UNCHANGED <<up, recovery, grants, history>>

\* Mutant: a spent assessment budget is not looked at.
assessmentRequeues(w, j, gate) ==
  IF LeaseValid(w) THEN [Unleased(j, "queued") EXCEPT !.assessOnly = TRUE] ELSE j

\* routeAssessmentInfrastructureFailure: another assessment of the candidate, or
\* an operator once the budget is spent or the error says so at once (gate).
assessmentFailed(w, j, gate) ==
  IF LeaseValid(w)
  THEN [Unleased(j, IF j.acount >= j.amax \/ gate THEN "waiting_on_human" ELSE "queued")
          EXCEPT !.assessOnly = TRUE]
  ELSE j

\* recordAssessmentWorktreeReadiness found changes: the assessment is deferred
\* uncharged, and once that has happened too often left to an operator.
deferDirty(w) ==
  \/ job' = [Released(w, "queued") EXCEPT !.assessOnly = TRUE]
  \/ job' = assessmentFailed(w, job, TRUE)

\* The worktree is inspected, then beginAttachedAssessmentAttempt: no row of its
\* own.  An inspection error is charged and settled at once.
beginAttachedAssessment(w) ==
  /\ worker[w].pc = "inspect"
  /\ \/ /\ LeaseValid(w)
        /\ job' = [job EXCEPT !.acount = @ + 1]
        /\ Go(w, "audit")
        /\ UNCHANGED <<rows, faults, history>>
     \/ /\ LeaseValid(w)
        /\ faults < MaxFaults /\ faults' = faults + 1
        /\ job' = assessmentFailed(w, [job EXCEPT !.acount = @ + 1], FALSE)
        /\ rows' = Closed(worker[w].row, "succeeded")
        /\ history' = [history EXCEPT !.lapsed = @ + 1]
        /\ Go(w, "gone")
     \/ /\ LeaseValid(w)
        /\ faults < MaxFaults /\ faults' = faults + 1
        /\ deferDirty(w)
        /\ rows' = Closed(worker[w].row, "succeeded")
        /\ Go(w, "gone")
        /\ UNCHANGED history
     \/ /\ ~LeaseValid(w)
        /\ rows' = Closed(worker[w].row, "interrupted")
        /\ Go(w, "gone")
        /\ UNCHANGED <<job, faults, history>>
  /\ UNCHANGED <<up, recovery, grants>>

\* The provider of an attached assessment fails: the row is closed, the
\* worktree inspected, and only then is the job marked and settled.
auditFails(w) ==
  /\ worker[w].pc = "audit"
  /\ rows' = Closed(worker[w].row, "succeeded")
  /\ Go(w, "marking")
  /\ UNCHANGED <<job, up, recovery, faults, grants, history>>

settleAuditFailure(w) ==
  /\ worker[w].pc = "marking"
  /\ \E gate \in BOOLEAN : job' = assessmentFailed(w, [job EXCEPT !.assessOnly = TRUE], gate)
  /\ history' = IF LeaseValid(w) THEN [history EXCEPT !.lapsed = @ + 1] ELSE history
  /\ Go(w, "gone")
  /\ UNCHANGED <<rows, up, recovery, faults, grants>>

\* Any other error of an attached assessment is settled without an await.
transportError(w) ==
  /\ worker[w].pc = "audit"
  /\ rows' = Closed(worker[w].row, "succeeded")
  /\ job' = assessmentFailed(w, job, FALSE)
  /\ history' = IF LeaseValid(w) THEN [history EXCEPT !.lapsed = @ + 1] ELSE history
  /\ Go(w, "gone")
  /\ UNCHANGED <<up, recovery, faults, grants>>

\* The verdict: final, one more look at the same candidate, or an operator's.
verdict(w) ==
  /\ worker[w].pc \in {"audit", "assess"}
  /\ IF LeaseValid(w)
     THEN \E s \in {"succeeded", "failed", "waiting_on_human", "queued"} :
            /\ s = "queued" => job.acount < job.amax
            /\ job' = [Unleased(job, s) EXCEPT !.assessOnly = (s = "queued")]
            /\ rows' = Closed(worker[w].row, IF s = "succeeded" THEN s ELSE "failed")
            /\ history' = [history EXCEPT !.lapsed = @ + 1]
     ELSE /\ rows' = Closed(worker[w].row, "interrupted")
          /\ UNCHANGED <<job, history>>
  /\ Go(w, "gone")
  /\ UNCHANGED <<up, recovery, faults, grants>>

\* Mutant: a queued job is refunded although a later row has been charged.
interruptRefundsOldRow(w, r) ==
  job.token = w \/ (job.token = NoLease /\ job.status \in {"queued", "canceled"})

\* The WHERE clause of the refund in interruptAssessmentAttempt.
interruptRefunds(w, r) ==
  \/ job.token = w
  \/ job.token = NoLease /\ job.status \in {"queued", "canceled"} /\ r = Len(rows)

\* handleAssessmentInterruption: close and refund this still-running attempt,
\* then put the job back, or end it for good, if the lease is still held.
assessmentInterrupted(w) ==
  /\ worker[w].pc \in {"audit", "assess"}
  /\ faults < MaxFaults /\ faults' = faults + 1
  /\ LET r == worker[w].row
         refunded == IF rows[r].status = "running" /\ interruptRefunds(w, r)
                     THEN [job EXCEPT !.acount = Minus1(@)] ELSE job
     IN /\ rows' = ClosedIfRunning(r, "interrupted")
        /\ \/ /\ Owns(w)
              /\ \/ job' = [Unleased(refunded, "queued") EXCEPT !.assessOnly = TRUE]
                 \/ job' = Unleased(refunded, "canceled")
           \/ ~Owns(w) /\ job' = refunded
  /\ Go(w, "gone")
  /\ UNCHANGED <<up, recovery, grants, history>>

-----------------------------------------------------------------------------
(* Assess-only: another assessment of the candidate under a new lease *)

\* "Enforce the budget before Git inspection as well as provider execution".
assessBudgetSpent == job.acount >= job.amax

\* The barrier, the budget, and incrementAndCreateAssessmentAttempt.  A worktree
\* that is not clean or sibling writers put the job back uncharged; an
\* inspection error is charged and settled at once.
startAssessOnly(w) ==
  /\ worker[w].pc = "assessSetup"
  /\ \/ /\ LeaseValid(w) /\ ~assessBudgetSpent
        /\ job' = [job EXCEPT !.status = "awaiting_assessment", !.acount = @ + 1,
                              !.assessOnly = FALSE]
        /\ rows' = Append(rows, NewRow("assessment", w))
        /\ worker' = [worker EXCEPT ![w] = [pc |-> "assess", row |-> Len(rows) + 1]]
        /\ UNCHANGED <<faults, history>>
     \/ /\ LeaseValid(w) /\ ~assessBudgetSpent
        /\ faults < MaxFaults /\ faults' = faults + 1
        /\ job' = assessmentFailed(w, [job EXCEPT !.acount = @ + 1], FALSE)
        /\ rows' = Append(rows, [NewRow("assessment", w) EXCEPT !.status = "failed"])
        /\ history' = [history EXCEPT !.lapsed = @ + 1]
        /\ Go(w, "gone")
     \/ /\ LeaseValid(w) /\ ~assessBudgetSpent
        /\ faults < MaxFaults /\ faults' = faults + 1
        /\ deferDirty(w)
        /\ Go(w, "gone")
        /\ UNCHANGED <<rows, history>>
     \/ /\ LeaseValid(w) /\ assessBudgetSpent
        /\ job' = assessmentFailed(w, job, FALSE)
        /\ Go(w, "gone")
        /\ UNCHANGED <<rows, faults, history>>
     \/ /\ ~LeaseValid(w)
        /\ Go(w, "gone")
        /\ UNCHANGED <<job, rows, faults, history>>
  /\ UNCHANGED <<up, recovery, grants>>

\* A failed assess-only assessment: charged to the assessment budget.
assessFails(w) ==
  /\ worker[w].pc = "assess"
  /\ rows' = Closed(worker[w].row, IF LeaseValid(w) THEN "failed" ELSE "interrupted")
  /\ \E gate \in BOOLEAN : job' = assessmentFailed(w, job, gate)
  /\ history' = IF LeaseValid(w) THEN [history EXCEPT !.lapsed = @ + 1] ELSE history
  /\ Go(w, "gone")
  /\ UNCHANGED <<up, recovery, faults, grants>>

-----------------------------------------------------------------------------
(* Sweeps *)

\* The CASE of the three requeue statements: the job is running and its latest
\* row is an implementation attempt that is still running.
sweepRefunds ==
  /\ job.status = "running" /\ rows # <<>>
  /\ Last(rows).status = "running" /\ Last(rows).kind = "implementation"

\* Requeue of the row, and the assess-only mark of a swept assessment.
Requeued == [Unleased(job, "queued") EXCEPT
               !.count = IF sweepRefunds THEN Minus1(@) ELSE @,
               !.assessOnly = @ \/ job.status = "awaiting_assessment"]

\* The rows after the refund of a sweep.
sweptRows == IF sweepRefunds THEN Uncharge(rows, Len(rows), job.token) ELSE rows

\* What a sweep does to the books, with the rows it leaves.
sweep(left) ==
  /\ job' = Requeued
  /\ rows' = left
  /\ history' = IF sweepRefunds /\ Last(rows).by # job.token
                THEN [history EXCEPT !.stray = @ + 1] ELSE history

\* reconcileOrphanedAttempts, and the loop of requeueOwnedJobsForForcedExit.
ClosedAs(rs, status) == [i \in DOMAIN rs |->
  IF rs[i].status = "running" THEN [rs[i] EXCEPT !.status = status] ELSE rs[i]]

\* The heartbeat of the owner stops reaching the row.
leaseExpires ==
  /\ job.status \in Holding /\ ~job.expired
  /\ faults < MaxFaults /\ faults' = faults + 1
  /\ job' = [job EXCEPT !.expired = TRUE]
  /\ UNCHANGED <<rows, worker, up, recovery, grants, history>>

\* requeueExpiredLeases: the worker of the lease is not told, nor its row closed.
requeueExpiredLeases ==
  /\ up /\ job.status \in Holding /\ job.expired
  /\ sweep(sweptRows)
  /\ UNCHANGED <<worker, up, recovery, faults, grants>>

AllGone == worker' = [w \in Leases |->
  IF worker[w].pc = "none" THEN worker[w] ELSE [worker[w] EXCEPT !.pc = "gone"]]

\* requeueOwnedJobsForForcedExit (requeueForShutdown per job), then the exit.
forcedExit ==
  /\ up /\ faults < MaxFaults /\ faults' = faults + 1
  /\ IF job.status \in Holding
     THEN sweep(ClosedAs(sweptRows, "interrupted"))
     ELSE UNCHANGED <<job, rows, history>>
  /\ up' = FALSE /\ AllGone
  /\ UNCHANGED <<recovery, grants>>

crash ==
  /\ up /\ faults < MaxFaults /\ faults' = faults + 1
  /\ up' = FALSE /\ AllGone
  /\ UNCHANGED <<job, rows, recovery, grants, history>>

\* Boot maintenance: requeueOrphanedJobs by force, then reconcileOrphanedAttempts.
boot ==
  /\ ~up /\ up' = TRUE
  /\ IF job.status \in Holding
     THEN sweep(ClosedAs(sweptRows, "failed"))
     ELSE rows' = ClosedAs(rows, "failed") /\ UNCHANGED <<job, history>>
  /\ UNCHANGED <<worker, recovery, faults, grants>>

-----------------------------------------------------------------------------
(* The operator *)

\* beginJobRetryGeneration: a fresh budget on top of what was used.
beginJobRetryGeneration ==
  /\ up /\ grants < MaxGrants /\ grants' = grants + 1
  /\ job.status \in {"dead_letter", "waiting_on_human"}
  /\ job' = [job EXCEPT !.status = "queued", !.max = job.count + MaxAttempts,
                        !.assessOnly = FALSE]
  /\ UNCHANGED <<rows, worker, up, recovery, faults, history>>

\* extendAssessmentMaxAttempts: one more assessment of the preserved candidate.
extendAssessmentMaxAttempts ==
  /\ up /\ grants < MaxGrants /\ grants' = grants + 1
  /\ job.status = "waiting_on_human"
  /\ job' = [job EXCEPT !.status = "queued", !.assessOnly = TRUE,
                        !.amax = IF job.acount + 1 > @ THEN job.acount + 1 ELSE @]
  /\ UNCHANGED <<rows, worker, up, recovery, faults, history>>

\* The work item is canceled, whoever holds the job.
cancelJob ==
  /\ up /\ faults < MaxFaults /\ faults' = faults + 1
  /\ job.status \in Holding \cup {"queued", "waiting_on_human"}
  /\ job' = Unleased(job, "canceled")
  /\ UNCHANGED <<rows, worker, up, recovery, grants, history>>

-----------------------------------------------------------------------------

Work(w) ==
  \/ startRunning(w) \/ incrementAndCreateAttempt(w)
  \/ attemptFails(w) \/ retryOrFail(w)
  \/ releaseWithoutPenalty(w)
  \/ acquireAssessmentBarrier(w) \/ beginAttachedAssessment(w)
  \/ auditFails(w) \/ settleAuditFailure(w)
  \/ transportError(w) \/ verdict(w)
  \/ startAssessOnly(w) \/ assessFails(w)

Fault(w) ==
  \/ deferBeforeAttempt(w) \/ catastrophicError(w) \/ retryDuringShutdown(w)
  \/ attemptInterrupted(w) \/ contention(w) \/ assessmentInterrupted(w)

\* The job is over, or the bound on its leases is reached, and no worker has
\* anything left to say.
Done ==
  /\ up
  /\ \/ job.status \in Settled
     \/ job.status = "queued" /\ worker[MaxLeases].pc # "none"
  /\ \A w \in Leases : worker[w].pc \in {"none", "gone"}
  /\ UNCHANGED vars

Next ==
  \/ \E w \in Leases : acquireLease(w) \/ Work(w) \/ Fault(w)
  \/ leaseExpires \/ requeueExpiredLeases \/ forcedExit \/ crash \/ boot
  \/ beginJobRetryGeneration \/ extendAssessmentMaxAttempts \/ cancelJob
  \/ Done

Spec == Init /\ [][Next]_vars

\* The scheduler leases what is queued, sweeps what has expired and boots again;
\* every await of a worker returns.
FairSpec ==
  /\ Spec
  /\ \A w \in Leases : WF_vars(acquireLease(w)) /\ WF_vars(Work(w))
  /\ WF_vars(requeueExpiredLeases) /\ WF_vars(boot)

-----------------------------------------------------------------------------
(* Properties *)

\* No refund of an interrupted assessment, its own or a late one of a worker
\* that lost its lease, takes back the charge of an assessment that failed.
AssessmentFailuresCharged == history.lapsed <= job.acount

\* Apart from the refunds that sweeps make for an attempt of an earlier lease,
\* every failure retryOrFail settled is still counted: interruption, contention,
\* deferral and recovery of the process together never lose one.
FailuresCharged == history.failed <= job.count + history.stray

\* A job whose attempts keep failing, and whose interruptions end, comes to rest:
\* refunds and internal retries cannot keep it in the queue for ever.
EventuallySettled == <>[](job.status \in Settled)
=============================================================================
