----------------------------- MODULE HumanGates -----------------------------
(***************************************************************************)
(* A job that waits for an operator's review, and the durable contracts    *)
(* (rows of human_gates) that ask for it.  The assessor's needs_review     *)
(* verdict parks the job and spawns a gate job with an assessment_review   *)
(* contract; a resolver (an answer given through the bridge or the command *)
(* line) leases the gate job, claims the contract, applies the answer to   *)
(* the parked job and closes the contract, each in a transaction of its    *)
(* own.  The scheduler's sweeps run beside it: the headless timeout, the   *)
(* recovery of orphaned reviews, the reconciliation of contracts and the   *)
(* clearing of expired leases.  The worker and the scheduler are one       *)
(* process, the run: its synchronous stretches (a verdict from the park to *)
(* the gate, a headless timeout) exclude each other, but not the resolvers *)
(* of other processes.  The run and each resolver may die between any two  *)
(* of their transactions.                                                  *)
(*                                                                         *)
(* One job and one kind of gate are modelled: contracts of different jobs  *)
(* share no row.  Leases of the parked job itself are JobLease's subject;  *)
(* here they are only held, left behind by a dead worker, or absent.       *)
(* Grace periods of the sweeps are not counted: a sweep may find any age.  *)
(***************************************************************************)
EXTENDS Naturals, FiniteSets, FiniteSetsExt

CONSTANTS
    Resolver,            \* the processes that may deliver an answer
    Answer,              \* the offered actions used: a subset of Outcome's domain
    MaxParks,            \* bound: how often the job asks for a review
    Stalls,              \* whether a resolver may outlive its lease before it claims the contract
    MaxResolverCrashes,  \* bound: resolvers that die half-way
    MaxCrashes           \* bound: deaths of the run (worker and scheduler)

ASSUME GateBounds ==
    /\ {MaxParks, MaxResolverCrashes, MaxCrashes} \subseteq Nat
    /\ Answer \subseteq {"retry_assessment", "pass", "fail"}
    /\ Stalls \in BOOLEAN
    /\ Resolver \cap {"none", "ghost"} = {}

VARIABLES
    job,      \* the reviewed job's row: status, lease, recovered
    worker,   \* where the worker that runs the job stands
    park,     \* which review the job asks for; its number stands for the question
    applied,  \* history: the answer applied to the current park
    gate,     \* the gate jobs with their contracts and resume effects
    res,      \* where each resolver stands
    sweep,    \* the headless timeout under way: its step and its gate
    crashes   \* history: [resolver, run] deaths so far

vars == <<job, worker, park, applied, gate, res, sweep, crashes>>

Gate == 1..MaxParks

Outcome == [retry_assessment |-> "queued", pass |-> "succeeded", fail |-> "failed"]

TERMINAL_JOB_STATUSES == {"succeeded", "failed", "canceled"}
DEADLOCK_TERMINAL_STATUSES == TERMINAL_JOB_STATUSES \ {"succeeded"}
ACTIVE_GATE_STATES == {"open", "resolving"}

\* The source states of an assessment_review contract that the job can be in.
AllowedSourceStates == {"waiting_on_review", "succeeded"}

NoGate == [state |-> "none", status |-> "none", lease |-> "none",
           expiry |-> "expired", question |-> 0, finished |-> 0,
           action |-> "none", resume |-> "none", answered |-> FALSE]

Init ==
    /\ job = [status |-> "queued", lease |-> "none", recovered |-> FALSE]
    /\ worker = "idle"
    /\ park = 0
    /\ applied = "none"
    /\ gate = [g \in Gate |-> NoGate]
    /\ res = [r \in Resolver |-> [pc |-> "idle", gate |-> 0, answer |-> "none"]]
    /\ sweep = [pc |-> "idle", gate |-> 0]
    /\ crashes = [resolver |-> 0, run |-> 0]

-----------------------------------------------------------------------------
\* The rows as the queries see them.

Parked == job.status = "waiting_on_review"
Children == {g \in Gate : gate[g].status # "none"}
Active(g) == gate[g].state \in ACTIVE_GATE_STATES
Terminal(g) == gate[g].status \in TERMINAL_JOB_STATUSES

\* jobHasLiveLeaseAt at now and at the grace cutoff.
LiveNow(g) == gate[g].lease # "none" /\ gate[g].expiry = "live"
LiveAtGrace(g) == gate[g].lease # "none" /\ gate[g].expiry # "expired"

\* A gate job's row after its lease is given up with a status, if the caller
\* still holds it (releaseLeaseInternal); finished_at is the current park.
Finish(row, status) ==
    [row EXCEPT !.status = status, !.lease = "none",
                !.finished = IF status \in TERMINAL_JOB_STATUSES THEN park ELSE @]

Release(row, r, status) == IF row.lease = r THEN Finish(row, status) ELSE row

supersedeHumanGate(row) ==
    IF row.state \in ACTIVE_GATE_STATES THEN [row EXCEPT !.state = "superseded"] ELSE row

reopenHumanGate(row) == [row EXCEPT !.state = "open", !.action = "none"]

retireGateJob(row) ==
    LET canceled == IF row.status \in TERMINAL_JOB_STATUSES THEN row ELSE Finish(row, "canceled")
    IN  supersedeHumanGate(canceled)

\* cancelPendingReviewGatesForOriginal: every other gate of the job that is
\* neither succeeded nor canceled is canceled, its contract with it.
CancelOthers(gates, g) ==
    [h \in Gate |->
        IF h # g /\ gates[h].status \notin {"none", "succeeded", "canceled"}
        THEN supersedeHumanGate(Finish(gates[h], "canceled"))
        ELSE gates[h]]

\* consumePendingHumanGateResume for a parked job whose lease is gone.
Pending == \E g \in Gate : gate[g].resume = "pending"
ConsumeJob == [job EXCEPT !.lease = "none", !.status = IF Pending THEN "queued" ELSE @]
ConsumeEffects ==
    [g \in Gate |-> [gate[g] EXCEPT !.resume = IF @ = "pending" THEN "completed" ELSE @]]

-----------------------------------------------------------------------------
\* The worker that runs the job.

\* The run's process is in no synchronous stretch of code.
EventLoopFree == worker # "parked" /\ sweep.pc = "idle"

LeaseJob ==
    /\ EventLoopFree
    /\ job.status = "queued" /\ worker = "idle"
    /\ job' = [job EXCEPT !.status = "running", !.lease = "held"]
    /\ worker' = "running"
    /\ UNCHANGED <<park, applied, gate, res, sweep, crashes>>

FinishJob ==
    /\ EventLoopFree /\ worker = "running"
    /\ job' = [job EXCEPT !.status = "succeeded", !.lease = "none"]
    /\ worker' = "idle"
    /\ UNCHANGED <<park, applied, gate, res, sweep, crashes>>

\* A resolver that lives takes the few synchronous steps from applying an answer
\* to releasing the gate long before the job it released has run again.
ResolversArePrompt == \A r \in Resolver : res[r].pc \notin {"applied", "completed"}

\* The verdict parks the job under its lease ...
needsReview ==
    /\ EventLoopFree
    /\ worker = "running" /\ park < MaxParks /\ ResolversArePrompt
    /\ job' = [job EXCEPT !.status = "waiting_on_review"]
    /\ worker' = "parked"
    /\ park' = park + 1
    /\ applied' = "none"
    /\ UNCHANGED <<gate, res, sweep, crashes>>

\* ... and then creates the gate job and its contract in one transaction.  An
\* active contract whose gate job can still run is returned in place of a new
\* one; one whose gate job is terminal is superseded.
ReusableGates == {g \in Gate : Active(g) /\ ~Terminal(g)}

createGateJob ==
    /\ worker = "parked"
    /\ worker' = "spawned"
    /\ gate' =
         IF ReusableGates # {} THEN gate
         ELSE LET new == Cardinality(Children) + 1
              IN  [g \in Gate |->
                     IF g = new
                     THEN [NoGate EXCEPT !.state = "open", !.status = "queued", !.question = park]
                     ELSE IF Terminal(g) THEN supersedeHumanGate(gate[g]) ELSE gate[g]]
    /\ UNCHANGED <<job, park, applied, res, sweep, crashes>>

\* The worker gives up the parked job's lease, which settles a resume that was
\* answered meanwhile.  An answer that settled the job cleared the lease.
releaseParked ==
    /\ EventLoopFree /\ worker = "spawned"
    /\ worker' = "idle"
    /\ IF job.lease = "held"
       THEN job' = ConsumeJob /\ gate' = ConsumeEffects
       ELSE UNCHANGED <<job, gate>>
    /\ UNCHANGED <<park, applied, res, sweep, crashes>>

\* The scheduler runs the gate job without a display: it parks for an answer.
parkGate(g) ==
    /\ EventLoopFree
    /\ gate[g].status = "queued"
    /\ gate' = [gate EXCEPT ![g].status = "waiting_on_human"]
    /\ UNCHANGED <<job, worker, park, applied, res, sweep, crashes>>

-----------------------------------------------------------------------------
\* A resolver delivers one answer to one gate.

claimHumanInputJob(r, g, a) ==
    /\ res[r].pc = "idle"
    /\ gate[g].status \in {"queued", "waiting_on_human"}
    /\ gate[g].state = "open" /\ ~LiveNow(g)
    /\ gate' = [gate EXCEPT ![g].status = "waiting_on_human",
                            ![g].lease = r, ![g].expiry = "live"]
    /\ res' = [res EXCEPT ![r] = [pc |-> "claimed", gate |-> g, answer |-> a]]
    /\ UNCHANGED <<job, worker, park, applied, sweep, crashes>>

Idle(r) == res' = [res EXCEPT ![r] = [pc |-> "idle", gate |-> 0, answer |-> "none"]]
Advance(r, pc) == res' = [res EXCEPT ![r].pc = pc]

\* beginHumanGateResolution and what its refusals lead to.  A contract resolved
\* with the same action is accepted again; any other closed one, or one whose
\* job left the allowed states, is given up; a lost or expired lease and a
\* contract that is not open leave the gate as it is.
beginHumanGateResolution(r) ==
    LET g == res[r].gate
        row == gate[g]
    IN
    /\ res[r].pc = "claimed"
    /\ \/ /\ row.state = "resolved" /\ row.action = res[r].answer
          /\ Advance(r, "begun") /\ UNCHANGED gate
       \/ /\ row.state = "resolved" /\ row.action # res[r].answer
          /\ gate' = [gate EXCEPT ![g] = Release(row, r, "canceled")]
          /\ Idle(r)
       \/ /\ \/ row.state \in {"resolving", "superseded"}
             \/ row.state = "open" /\ ~(row.lease = r /\ LiveAtGrace(g))
          /\ gate' = [gate EXCEPT ![g] = Release(row, r, "waiting_on_human")]
          /\ Idle(r)
       \/ /\ row.state = "open" /\ row.lease = r /\ LiveAtGrace(g)
          /\ job.status \notin AllowedSourceStates
          /\ gate' = [gate EXCEPT ![g] = Release(supersedeHumanGate(row), r, "canceled")]
          /\ Idle(r)
       \/ /\ row.state = "open" /\ row.lease = r /\ LiveAtGrace(g)
          /\ job.status \in AllowedSourceStates
          /\ gate' = [gate EXCEPT ![g].state = "resolving", ![g].action = res[r].answer]
          /\ Advance(r, "begun")
    /\ UNCHANGED <<job, worker, park, applied, sweep, crashes>>

\* requestParkedJobResumeAfterGate: the resume waits in the outbox for the
\* worker's lease, and is settled with every other pending one when there is
\* none.  The effect's key is the gate, its generation and the action: a second
\* request of one gate is the first one.
Unsettled(g) == gate[g].resume # "completed"
ResumedJob(g) ==
    IF Unsettled(g) /\ job.lease = "none" THEN [job EXCEPT !.status = "queued"] ELSE job
ResumedGates(g) ==
    [h \in Gate |->
        IF Unsettled(g) /\ (h = g \/ gate[h].resume = "pending")
        THEN [gate[h] EXCEPT !.resume = IF job.lease = "none" THEN "completed"
                                        ELSE "pending"]
        ELSE gate[h]]

\* The selected action changes the parked job.  pass and fail settle it at once,
\* whoever holds its lease; retry_assessment asks for a resume.  A job that is no
\* longer parked is left alone, and the answer still counts.
applyAnswer(r) ==
    LET g == res[r].gate
        a == res[r].answer
        resumes == Parked /\ a = "retry_assessment"
    IN
    /\ res[r].pc = "begun"
    /\ applied' = IF Parked THEN a ELSE applied
    /\ job' = CASE ~Parked -> job
                [] resumes -> ResumedJob(g)
                [] OTHER -> [job EXCEPT !.status = Outcome[a], !.lease = "none"]
    /\ gate' = [CancelOthers(IF resumes THEN ResumedGates(g) ELSE gate, g)
                  EXCEPT ![g].answered = @ \/ Parked]
    /\ Advance(r, "applied")
    /\ UNCHANGED <<worker, park, sweep, crashes>>

\* reopenUnappliedHumanGate and the catch of the resolver: the gate is asked
\* again if its contract is still this resolver's and the job may still be
\* answered; otherwise it is retired whoever holds it.
GiveUp(r) ==
    LET g == res[r].gate
        row == gate[g]
        reopen == row.state = "resolving" /\ row.lease = r /\ job.status \in AllowedSourceStates
    IN  /\ gate' = [gate EXCEPT ![g] =
              IF reopen THEN Release(reopenHumanGate(row), r, "waiting_on_human")
                        ELSE Release(supersedeHumanGate(row), r, "failed")]
        /\ Idle(r)

\* Applying the answer fails before the job has changed.
applyThrows(r) ==
    /\ res[r].pc = "begun"
    /\ GiveUp(r)
    /\ UNCHANGED <<job, worker, park, applied, sweep, crashes>>

completeHumanGateResolution(r) ==
    LET g == res[r].gate
        row == gate[g]
    IN
    /\ res[r].pc = "applied"
    /\ \/ /\ row.state = "resolved"
          /\ Advance(r, "completed") /\ UNCHANGED gate
       \/ /\ row.state = "resolving" /\ row.lease = r /\ LiveAtGrace(g)
          /\ gate' = [gate EXCEPT ![g].state = "resolved"]
          /\ Advance(r, "completed")
       \/ /\ row.state # "resolved"
          /\ ~(row.state = "resolving" /\ row.lease = r /\ LiveAtGrace(g))
          /\ GiveUp(r)
    /\ UNCHANGED <<job, worker, park, applied, sweep, crashes>>

releaseHumanLease(r) ==
    /\ res[r].pc = "completed"
    /\ gate' = [gate EXCEPT ![res[r].gate] = Release(@, r, "succeeded")]
    /\ Idle(r)
    /\ UNCHANGED <<job, worker, park, applied, sweep, crashes>>

-----------------------------------------------------------------------------
\* The scheduler's sweeps.

(* Mutant of claimHeadlessHumanGateTimeout: the lease is not looked at.    *)
timeoutIgnoresLease(g) ==
    /\ EventLoopFree
    /\ gate[g].status = "waiting_on_human" /\ gate[g].state = "open"
    /\ gate' = [gate EXCEPT ![g].state = "superseded"]
    /\ sweep' = [pc |-> "claimed", gate |-> g]
    /\ UNCHANGED <<job, worker, park, applied, res, crashes>>

\* recoverHeadlessHumanTimeouts: an open gate that nobody is answering is closed
\* first; then its job fails, if no lease protects it, and the gate job fails.
claimHeadlessHumanGateTimeout(g) ==
    /\ EventLoopFree
    /\ gate[g].status = "waiting_on_human"
    /\ gate[g].state = "open" /\ ~LiveAtGrace(g)
    /\ gate' = [gate EXCEPT ![g].state = "superseded"]
    /\ sweep' = [pc |-> "claimed", gate |-> g]
    /\ UNCHANGED <<job, worker, park, applied, res, crashes>>

timeoutFailsJob ==
    /\ sweep.pc = "claimed"
    /\ job' = IF Parked /\ job.lease = "none" THEN [job EXCEPT !.status = "failed"] ELSE job
    /\ sweep' = [sweep EXCEPT !.pc = "failed_job"]
    /\ UNCHANGED <<worker, park, applied, gate, res, crashes>>

timeoutFailsGate ==
    /\ sweep.pc = "failed_job"
    /\ gate' = [gate EXCEPT ![sweep.gate] = Release(@, "none", "failed")]
    /\ sweep' = [pc |-> "idle", gate |-> 0]
    /\ UNCHANGED <<job, worker, park, applied, res, crashes>>

(* Mutant of Orphaned: a gate job that was never created is not missed.    *)
OrphanedWithChild ==
    /\ Children # {}
    /\ gate[Max(Children)].status \in DEADLOCK_TERMINAL_STATUSES
    /\ \A g \in Children : Terminal(g) /\ ~Active(g)

(* Mutant of Orphaned: a gate that waits for its answer counts as dead.    *)
OrphanedUnlessAnswered ==
    Children # {} => gate[Max(Children)].status # "succeeded"

\* recoverOrphanedReviewJobs, orphanState: no gate was ever created, or the
\* latest one is dead or was answered before this park, every gate job is
\* terminal and no contract is active.
Orphaned ==
    Children # {} =>
        LET latest == gate[Max(Children)]
        IN  /\ \/ latest.status \in DEADLOCK_TERMINAL_STATUSES
               \/ latest.status = "succeeded" /\ latest.finished < park
            /\ \A g \in Children : Terminal(g) /\ ~Active(g)

\* Without a resolver, or a second time, the review fails closed; otherwise it
\* is queued once more for assessment only, to ask again.
recoverOrphanedReview(resolverPresent) ==
    /\ EventLoopFree
    /\ Parked /\ job.lease = "none" /\ Orphaned
    /\ job' = IF resolverPresent /\ ~job.recovered
              THEN [job EXCEPT !.status = "queued", !.recovered = TRUE]
              ELSE [job EXCEPT !.status = "failed"]
    /\ UNCHANGED <<worker, park, applied, gate, res, sweep, crashes>>

\* reconcileHumanGates, for one gate.  A closed contract settles its job once
\* no lease protects it; an open one whose job left the allowed states is
\* retired; one whose resolver is gone is retired if the job left the allowed
\* states and asked again if not (abandonedResolverDecision).
Reconciled(g) ==
    LET row == gate[g]
    IN  CASE row.state \in {"resolved", "superseded"} /\ ~Terminal(g) /\ ~LiveNow(g) ->
               Finish(row, IF row.state = "resolved" THEN "succeeded" ELSE "canceled")
          [] row.state = "open" /\ ~Terminal(g) /\ job.status \notin AllowedSourceStates ->
               retireGateJob(row)
          [] row.state = "resolving" /\ ~Terminal(g) /\ ~LiveAtGrace(g) ->
               IF job.status \notin AllowedSourceStates THEN retireGateJob(row)
                                                        ELSE reopenHumanGate(row)
          [] OTHER -> row

reconcileHumanGates ==
    /\ EventLoopFree
    /\ gate' = [g \in Gate |-> Reconciled(g)]
    /\ UNCHANGED <<job, worker, park, applied, res, sweep, crashes>>

\* requeueExpiredLeases: the job of a dead worker is queued again, or stays
\* parked without its lease, which settles a resume that was answered.
requeueExpiredJob ==
    /\ EventLoopFree
    /\ job.lease = "stale"
    /\ IF Parked THEN job' = ConsumeJob /\ gate' = ConsumeEffects
                 ELSE job' = [job EXCEPT !.status = "queued", !.lease = "none"] /\ UNCHANGED gate
    /\ UNCHANGED <<worker, park, applied, res, sweep, crashes>>

clearExpiredGateLease(g) ==
    /\ EventLoopFree
    /\ gate[g].lease # "none" /\ gate[g].expiry = "expired"
    /\ gate' = [gate EXCEPT ![g].lease = "none"]
    /\ UNCHANGED <<job, worker, park, applied, res, sweep, crashes>>

-----------------------------------------------------------------------------
\* Time and failures.

\* A gate lease runs out: a dead resolver's, or that of one that stalls between
\* leasing the gate job and claiming the contract, where it awaits.  From its
\* claim to its release a live resolver takes well under the lease of 300 s.
leaseRunsOut(g) ==
    /\ gate[g].expiry # "expired"
    /\ \/ gate[g].lease = "ghost"
       \/ Stalls /\ gate[g].lease \in Resolver /\ res[gate[g].lease].pc = "claimed"
    /\ gate' = [gate EXCEPT ![g].expiry = IF @ = "live" THEN "grace" ELSE "expired"]
    /\ UNCHANGED <<job, worker, park, applied, res, sweep, crashes>>

resolverDies(r) ==
    /\ crashes.resolver < MaxResolverCrashes
    /\ res[r].pc # "idle"
    /\ gate' = [g \in Gate |-> IF gate[g].lease = r THEN [gate[g] EXCEPT !.lease = "ghost"]
                                                   ELSE gate[g]]
    /\ Idle(r)
    /\ crashes' = [crashes EXCEPT !.resolver = @ + 1]
    /\ UNCHANGED <<job, worker, park, applied, sweep>>

runDies ==
    /\ crashes.run < MaxCrashes
    /\ worker # "idle" \/ sweep.pc # "idle"
    /\ job' = [job EXCEPT !.lease = IF @ = "held" THEN "stale" ELSE @]
    /\ worker' = "idle"
    /\ sweep' = [pc |-> "idle", gate |-> 0]
    /\ crashes' = [crashes EXCEPT !.run = @ + 1]
    /\ UNCHANGED <<park, applied, gate, res>>

-----------------------------------------------------------------------------
WorkerStep == LeaseJob \/ FinishJob \/ needsReview \/ createGateJob \/ releaseParked

ResolverStep(r) ==
    \/ beginHumanGateResolution(r)
    \/ applyAnswer(r)
    \/ applyThrows(r)
    \/ completeHumanGateResolution(r)
    \/ releaseHumanLease(r)

RecoverOrphan == \E present \in BOOLEAN : recoverOrphanedReview(present)

Next ==
    \/ WorkerStep
    \/ \E g \in Gate : parkGate(g)
    \/ \E r \in Resolver, g \in Gate, a \in Answer : claimHumanInputJob(r, g, a)
    \/ \E r \in Resolver : ResolverStep(r)
    \/ \E g \in Gate : claimHeadlessHumanGateTimeout(g)
    \/ timeoutFailsJob
    \/ timeoutFailsGate
    \/ RecoverOrphan
    \/ reconcileHumanGates
    \/ requeueExpiredJob
    \/ \E g \in Gate : clearExpiredGateLease(g)
    \/ \E g \in Gate : leaseRunsOut(g)
    \/ \E r \in Resolver : resolverDies(r)
    \/ runDies

Spec == Init /\ [][Next]_vars

\* The scheduler loop keeps running its sweeps, a worker and a resolver that
\* live finish what they began, and leases run out.  No operator has to answer.
Fairness ==
    /\ WF_vars(WorkerStep)
    /\ \A r \in Resolver : WF_vars(ResolverStep(r))
    /\ \A g \in Gate : /\ WF_vars(parkGate(g))
                       /\ WF_vars(clearExpiredGateLease(g))
                       /\ WF_vars(leaseRunsOut(g))
    /\ WF_vars(timeoutFailsJob \/ timeoutFailsGate)
    /\ WF_vars(RecoverOrphan)
    /\ WF_vars(reconcileHumanGates)
    /\ WF_vars(requeueExpiredJob)

FairSpec == Spec /\ Fairness

-----------------------------------------------------------------------------

\* A resolver whose lease is current finds the contract as it left it: open
\* until it claims it, resolving until it completes it.  Whoever retires
\* or reopens the gate otherwise takes the lease away in the same step or found
\* it expired, so that the answer is refused and not applied beside it
\* ("timeout recovery must never supersede an accepted/in-flight answer",
\* human-gates.js:578-580).
InFlightAnswerLands ==
    \A r \in Resolver :
        LET g == res[r].gate
        IN  res[r].pc # "idle" /\ gate[g].lease = r /\ LiveNow(g) =>
              gate[g].state = CASE res[r].pc = "claimed" -> "open"
                                [] res[r].pc \in {"begun", "applied"} -> "resolving"
                                [] OTHER -> "resolved"

\* While a contract of the parked job is active, the job leaves its park only
\* by an answer: neither the timeout nor the orphan recovery moves a job whose
\* question can still be answered (headless-recovery.js:278-282).
GatedParkHeld ==
    [][Parked /\ ~Parked' /\ (\E g \in Gate : Active(g)) => applied' # "none"]_vars

\* A parked job does not wait for nobody: it leaves its park, or comes to have
\* an open question that a resolver can claim (needs_review.js:144-145 calls a
\* review without one "a permanent trap").
Answerable(g) ==
    /\ gate[g].state = "open" /\ ~LiveNow(g)
    /\ gate[g].status \in {"queued", "waiting_on_human"}
ParkIsNoTrap == Parked ~> (~Parked \/ \E g \in Gate : Answerable(g))
=============================================================================
