----------------------------- MODULE WorkItemOrder -----------------------------
(***************************************************************************)
(* Work items that plan edits to the same files: the total order in which  *)
(* they may start (work-item-order.js), the work-item tier of the file     *)
(* locks, which a work item keeps until it merges (file-locks.js), and the *)
(* hand-over of a lock that runs against the order: a bare release to the  *)
(* requester, a claim that remembers it, and the lock given back when the  *)
(* requester merges (cross-wi-file-sync.js, cross-wi-deps.js). The setting *)
(* scheduler_reviewed_file_handoffs is off.                                *)
(*                                                                         *)
(* Jobs of one work item that overlap are serialised by WriteLocks, of     *)
(* which only the exclusion itself is kept here.                           *)
(***************************************************************************)
EXTENDS Naturals, FiniteSets, Sequences

CONSTANTS
    WorkItem,       \* ids
    Job,            \* the code jobs, by id
    Wi,             \* work_item_id
    Parent,         \* for a repair, the job whose fail verdict creates it; else 0
    After,          \* hard dependencies within the work item
    Scope,          \* the files a job plans to write
    Path,
    Sequenced,      \* the sequence-allocation files among them
    MergeAfter,     \* merge dependencies left by earlier syncs
    MaxRetries,     \* bound: attempts that end in a requeue
    MaxGates,       \* bound: repair chains given up
    MaxMergeFails,  \* bound: failed merges
    MaxCancels      \* bound: cancellations

OrderConstantsOK ==
    /\ WorkItem \subseteq Nat /\ Job \subseteq Nat \ {0}
    /\ Wi \in [Job -> WorkItem]
    /\ Parent \in [Job -> Job \cup {0}]
    /\ After \in [Job -> SUBSET Job]
    /\ Scope \in [Job -> SUBSET Path] /\ Sequenced \subseteq Path
    /\ MergeAfter \in [WorkItem -> SUBSET WorkItem]
    /\ {MaxRetries, MaxGates, MaxMergeFails, MaxCancels} \subseteq Nat

ASSUME OrderConstants == OrderConstantsOK

VARIABLES
    job,            \* jobs.status: absent, queued, running, succeeded, failed;
                    \* "gated" is a dead letter with an open gate
    notReady,       \* queued jobs whose ready_at is ahead, or unapproved
    wi,             \* work_items.status and merge_state: active, complete,
                    \* merge_failed, merged, canceled
    mergeAfter,     \* cross_wi_merge_dependencies
    locks,          \* work_item_file_locks not released
    keep,           \* those of them marked hold_until_merge
    started,        \* work items by the time of their first lock
    claims,         \* _cross_wi_existing_order_releases: <<taker, releaser, path>>
    waits,          \* file_lane_waits on a work item: <<job, holder>>
    pass,           \* the scan under way: its order, the candidates left, and
                    \* the one it is in the middle of (0: none)
    edited,         \* history: files a work item has unmerged edits to
    retries, gates, mergeFailures, cancels

bounds == <<retries, gates, mergeFailures, cancels>>
orderVars == <<job, notReady, wi, mergeAfter, locks, keep, started, claims, waits,
               pass, edited, bounds>>

JobsOf(w) == {j \in Job : Wi[j] = w}
Repairs(j) == {k \in Job : Parent[k] = j}
Elements(s) == {s[i] : i \in DOMAIN s}

(* Work items whose locks count.                                           *)
LiveItem(w) == wi[w] \in {"active", "complete", "merge_failed"}

-----------------------------------------------------------------------------
(* Readiness and parking                                                   *)

(* A dependency on a failed job was moved to its repairs.                  *)
Met(j) ==
    \A k \in After[j] :
        \/ job[k] = "succeeded"
        \/ job[k] = "failed" /\ Repairs(k) # {} /\ \A c \in Repairs(k) : job[c] = "succeeded"

Dispatchable(j) == job[j] = "queued" /\ j \notin notReady /\ Met(j)

(* workItemOperatorParking: every open job of the work item is, or waits   *)
(* for, a job behind a recovery gate.                                      *)
OperatorParked(w) ==
    /\ wi[w] = "active"
    /\ \E j \in JobsOf(w) : job[j] = "gated"
    /\ \A j \in JobsOf(w) : /\ job[j] # "running"
                            /\ job[j] = "queued" => \E k \in After[j] : job[k] = "gated"

(* A walk over work items from w, w included.                              *)
Reached(w, next(_)) ==
    LET near[n \in Nat] ==
          IF n = 0 THEN {w}
          ELSE LET nearer == near[n - 1] IN nearer \cup UNION {next(u) : u \in nearer}
    IN  near[Cardinality(WorkItem) - 1]

(* workItemMergeParking: the work item, or one it must merge after, waits  *)
(* for an operator.                                                        *)
MergeParked(w) ==
    LET awaited == Reached(w, LAMBDA u : IF wi[u] = "complete" THEN mergeAfter[u] ELSE {})
    IN  \E u \in awaited :
            \/ OperatorParked(u)
            \/ wi[u] = "merge_failed"
            \/ u # w /\ wi[u] = "canceled"

-----------------------------------------------------------------------------
(* buildWorkItemOrder                                                      *)

Planned(w) == UNION {Scope[j] : j \in {k \in JobsOf(w) : job[k] \in {"queued", "running"}}}
HeldBy(w) == {p \in Path : <<w, p>> \in locks}

Position(w) == CHOOSE i \in DOMAIN started : started[i] = w
Started(w) == w \in Elements(started)

Tier(w) == IF Started(w) THEN 0
           ELSE IF \E j \in JobsOf(w) : Dispatchable(j) THEN 1 ELSE 2

(* compareOrderKey                                                         *)
KeyBefore(w, tw, v, tv) ==
    \/ tw < tv
    \/ tw = tv /\ IF tw = 0 THEN Position(w) < Position(v) ELSE w < v

Entries == {w \in WorkItem : LiveItem(w) /\ ~MergeParked(w)}

HardBefore(w) == mergeAfter[w] \ {w}
SoftBefore(w) == {h \in WorkItem \ {w} : HeldBy(h) \cap Planned(w) # {}}

(* Who may be placed next: those with every constraint placed, else those  *)
(* with every merge dependency placed, else anybody.                       *)
Pool(rest) ==
    LET hard == {w \in rest : HardBefore(w) \cap rest = {}}
        full == {w \in hard : SoftBefore(w) \cap rest = {}}
    IN  IF full # {} THEN full ELSE IF hard # {} THEN hard ELSE rest

IsOrder(s) ==
    \A i \in DOMAIN s :
        \E pool \in {Pool({s[k] : k \in i..Len(s)})} :
            /\ s[i] \in pool
            /\ \A v \in pool \ {s[i]} : KeyBefore(s[i], Tier(s[i]), v, Tier(v))

(* loadWorkItemOrder: the one order (a singleton), with the plans and the  *)
(* locks it was built from.                                                *)
LoadedOrders ==
    UNION {{[ordered |-> s,
             tier    |-> [w \in E |-> Tier(w)],
             planned |-> [w \in E |-> Planned(w)],
             held    |-> [w \in E |-> HeldBy(w)]] :
              s \in {q \in [1..Cardinality(E) -> E] : Elements(q) = E /\ IsOrder(q)}} :
            E \in {Entries}}

(* findWorkItemOrderUpstream: the first work item ordered before that of j *)
(* which overlaps its plan. A work item missing from the order counts as   *)
(* ready and not started.                                                  *)
Upstream(j, order) ==
    LET w == Wi[j]
        seq == order.ordered
        known == w \in Elements(seq)
        mine == (IF known THEN order.planned[w] ELSE {}) \cup Scope[j]
        hits == {i \in DOMAIN seq :
                   /\ IF known THEN \A k \in 1..i : seq[k] # w
                      ELSE order.tier[seq[i]] = 0 \/ (order.tier[seq[i]] = 1 /\ seq[i] < w)
                   /\ (order.held[seq[i]] \cup order.planned[seq[i]]) \cap mine # {}}
    IN  {seq[i] : i \in {h \in hits : \A k \in hits : h <= k}}

LockHolders(j) == {w \in WorkItem \ {Wi[j]} : HeldBy(w) \cap Scope[j] # {}}

(* findOrdinaryWriteLockConflict, work-item tier: the order comes first.   *)
Blockers(j, order) ==
    LET up == Upstream(j, order)
    IN  IF up # {} THEN up ELSE LockHolders(j)

(* reconcileFileLaneWaits: every queued job waits for one blocker.         *)
WaitsFor(blockers) ==
    LET blocked == {j \in DOMAIN blockers : blockers[j] # {}}
    IN  {{<<j, f[j]>> : j \in blocked} :
            f \in {g \in [blocked -> WorkItem] : \A j \in blocked : g[j] \in blockers[j]}}

LaneWaits ==
    UNION {WaitsFor([j \in {k \in Job : job[k] = "queued"} |-> Blockers(j, order)]) :
             order \in LoadedOrders}

-----------------------------------------------------------------------------
(* cross-wi-deps.js                                                        *)

(* findMergeDependencyPath                                                 *)
OrderedAfter(w, v) == v \in Reached(w, LAMBDA u : mergeAfter[u])

(* Mutant of AwaitedBy: queued jobs' lane waits are left out.              *)
AwaitedByMerge(w) == {u \in mergeAfter[w] : wi[u] # "merged"}

(* workItemWaitsOnWorkItem                                                 *)
AwaitedBy(w) ==
    {u \in mergeAfter[w] : wi[u] # "merged"}
      \cup {e[2] : e \in {x \in waits : Wi[x[1]] = w /\ job[x[1]] = "queued"}}

WaitsOn(w, v) == v \in Reached(w, AwaitedBy)

(* collectCrossWiPathProvenance: work items whose pending edits to p are   *)
(* missing from the content of w.                                          *)
Outstanding(w, p) ==
    {v \in Reached(w, LAMBDA u : {c[2] : c \in {x \in claims : x[1] = u /\ x[3] = p}}) \ {w} :
        LiveItem(v)}

-----------------------------------------------------------------------------
(* prepareCrossWiFileSyncHandoff                                           *)

(* crossWiSyncSourceRejection: the last writer of p did not succeed.       *)
Rejected(w, p) ==
    LET writers == {j \in JobsOf(w) : /\ p \in Scope[j]
                                      /\ job[j] \in {"running", "succeeded", "failed", "gated"}}
    IN  \E j \in writers : /\ \A k \in writers : k <= j
                           /\ job[j] \in {"failed", "gated"}

(* workItemCanReleaseFileLock                                              *)
CanRelease(w, p, parkedToo) ==
    \A j \in JobsOf(w) :
        p \in Scope[j] => /\ job[j] # "running"
                          /\ job[j] = "queued" => parkedToo

Holds(s, p) ==
    (IF p \in Sequenced \/ <<s, p>> \in keep THEN {s} ELSE {}) \cup Outstanding(s, p)

(* aged: the holder was parked behind a gate for 15 minutes.               *)
HandoffAllowed(r, s, p, aged) ==
    LET expired == aged /\ OperatorParked(s) /\ Rejected(s, p)
    IN  /\ CanRelease(s, p, expired)
        /\ \A h \in Holds(s, p) \ {r} : WaitsOn(h, r)
        /\ OrderedAfter(s, r) \/ WaitsOn(s, r) \/ expired

-----------------------------------------------------------------------------
OrderInit ==
    /\ job = [j \in Job |-> IF Parent[j] = 0 THEN "queued" ELSE "absent"]
    /\ notReady \in SUBSET {j \in Job : Parent[j] = 0}
    /\ wi = [w \in WorkItem |-> "active"]
    /\ mergeAfter = MergeAfter
    /\ locks = {}
    /\ keep = {}
    /\ started = <<>>
    /\ claims = {}
    /\ waits = {}
    /\ pass = {}
    /\ edited = {}
    /\ retries = 0
    /\ gates = 0
    /\ mergeFailures = 0
    /\ cancels = 0

(* ready_at passes, or the plan is approved.                               *)
becomesReady(j) ==
    /\ j \in notReady
    /\ notReady' = notReady \ {j}
    /\ UNCHANGED <<job, wi, mergeAfter, locks, keep, started, claims, waits, pass,
                   edited, bounds>>

-----------------------------------------------------------------------------
(* The scheduler's scan                                                    *)

Candidate(j) == Dispatchable(j) /\ wi[Wi[j]] = "active"

(* No candidate: the run loop sleeps until it is woken.                    *)
sleepUntilWake ==
    /\ pass = {}
    /\ \A j \in Job : ~Candidate(j)
    /\ UNCHANGED orderVars

(* The scan awaits only between candidates: the scheduler's own process    *)
(* does nothing else in the middle of one.                                 *)
Busy == \E s \in pass : s.at # 0

Settled(s, j) ==
    pass' = IF s.todo = {j} THEN {} ELSE {[s EXCEPT !.todo = @ \ {j}, !.at = 0]}

SiblingWrites(j) ==
    \E k \in JobsOf(Wi[j]) : job[k] = "running" /\ Scope[k] \cap Scope[j] # {}

(* The candidate is no longer one, or a sibling writes its files.          *)
skip(s, j) ==
    /\ ~Candidate(j) \/ SiblingWrites(j)
    /\ Settled(s, j)
    /\ UNCHANGED <<job, notReady, wi, mergeAfter, locks, keep, started, claims,
                   waits, edited, bounds>>

(* rememberBlockedLock: the job waits for another work item.               *)
Blocked(s, j, b) ==
    /\ Settled(s, j)
    /\ waits' = waits \cup {<<j, b>>}
    /\ UNCHANGED <<job, notReady, wi, mergeAfter, locks, keep, started, claims,
                   edited, bounds>>

(* The order of the pass makes j wait.                                     *)
orderBlocked(s, j) ==
    /\ Candidate(j)
    /\ \E b \in Upstream(j, s.order) : Blocked(s, j, b)

(* A lock makes j wait: it cannot be handed over.                          *)
lockBlocked(s, j) ==
    /\ Candidate(j)
    /\ Upstream(j, s.order) = {}
    /\ \E l \in locks : /\ l[1] # Wi[j] /\ l[2] \in Scope[j]
                        /\ \E aged \in BOOLEAN : ~HandoffAllowed(Wi[j], l[1], l[2], aged)
                        /\ Blocked(s, j, l[1])

(* A lock in the way of j is released bare and the release recorded on j,  *)
(* which is then looked at again.                                          *)
handoff(s, j) ==
    /\ Candidate(j)
    /\ Upstream(j, s.order) = {}
    /\ \E l \in locks :
         /\ l[1] # Wi[j] /\ l[2] \in Scope[j]
         /\ \E aged \in BOOLEAN : HandoffAllowed(Wi[j], l[1], l[2], aged)
         /\ locks' = locks \ {l}
         /\ keep' = keep \ {l}
         /\ claims' = claims \cup {<<Wi[j], l[1], l[2]>>}
    /\ pass' = {[s EXCEPT !.at = j]}
    /\ UNCHANGED <<job, notReady, wi, mergeAfter, started, edited, bounds>>
    /\ waits' \in LaneWaits'

(* The lease transaction loads the order again.                            *)
leaseBlocked(s, j, now) ==
    /\ Candidate(j)
    /\ Upstream(j, s.order) = {} /\ LockHolders(j) = {}
    /\ \E b \in Upstream(j, now) : Blocked(s, j, b)

acquireLeaseWithWriteLocks(s, j, now) ==
    /\ Candidate(j)
    /\ Upstream(j, s.order) = {}
    /\ Blockers(j, now) = {}
    /\ ~SiblingWrites(j)
    /\ job' = [job EXCEPT ![j] = "running"]
    /\ locks' = locks \cup ({Wi[j]} \X Scope[j])
    /\ started' = IF Started(Wi[j]) THEN started ELSE Append(started, Wi[j])
    /\ waits' = {x \in waits : x[1] # j}
    /\ edited' = edited \cup ({Wi[j]} \X Scope[j])
    /\ Settled(s, j)
    /\ UNCHANGED <<notReady, wi, mergeAfter, keep, claims, bounds>>

scanCandidate(s, j) ==
    \/ skip(s, j)
    \/ orderBlocked(s, j)
    \/ lockBlocked(s, j)
    \/ handoff(s, j)
    \/ \E now \in LoadedOrders :
         leaseBlocked(s, j, now) \/ acquireLeaseWithWriteLocks(s, j, now)

(* A pass fetches its candidates; the first one it looks at loads the      *)
(* order for all of them.                                                  *)
beginPass ==
    /\ pass = {}
    /\ \E order \in LoadedOrders, j \in Job :
         /\ Candidate(j)
         /\ scanCandidate([order |-> order, todo |-> {k \in Job : Candidate(k)}, at |-> 0], j)

continuePass ==
    \E s \in pass : \E j \in IF s.at = 0 THEN s.todo ELSE {s.at} : scanCandidate(s, j)

Scan == beginPass \/ continuePass

-----------------------------------------------------------------------------
(* Workers, the operator and merges                                        *)

(* A job ends: its own locks are released, which reconciles the waits.     *)
JobEnds(changes) ==
    /\ ~Busy
    /\ job' = changes
    /\ UNCHANGED <<wi, mergeAfter, locks, keep, started, claims, pass, edited,
                   mergeFailures, cancels>>

verdictPass(j) ==
    /\ job[j] = "running"
    /\ JobEnds([job EXCEPT ![j] = "succeeded"])
    /\ UNCHANGED <<notReady, retries, gates>>
    /\ waits' \in LaneWaits'

(* A fail verdict creates the repairs, with the scope they plan.           *)
verdictFail(j) ==
    /\ job[j] = "running"
    /\ Repairs(j) # {}
    /\ wi[Wi[j]] = "active"
    /\ JobEnds([k \in Job |-> IF k = j THEN "failed"
                              ELSE IF k \in Repairs(j) THEN "queued" ELSE job[k]])
    /\ UNCHANGED <<notReady, retries, gates>>
    /\ waits' \in LaneWaits'

(* An attempt is lost or backs off.                                        *)
requeue(j) ==
    /\ job[j] = "running"
    /\ retries < MaxRetries
    /\ retries' = retries + 1
    /\ notReady' \in {notReady, notReady \cup {j}}
    /\ JobEnds([job EXCEPT ![j] = "queued"])
    /\ UNCHANGED gates
    /\ waits' \in LaneWaits'

(* The repair chain is given up: a recovery gate opens.                    *)
deadLetter(j) ==
    /\ job[j] = "running"
    /\ wi[Wi[j]] = "active"
    /\ gates < MaxGates
    /\ gates' = gates + 1
    /\ JobEnds([job EXCEPT ![j] = "gated"])
    /\ UNCHANGED <<notReady, retries>>
    /\ waits' \in LaneWaits'

(* The operator answers the gate with a retry: the retry job takes the     *)
(* place of the dead letter.                                               *)
answerRetry(j) ==
    /\ ~Busy
    /\ job[j] = "gated"
    /\ job' = [job EXCEPT ![j] = "queued"]
    /\ UNCHANGED <<notReady, wi, mergeAfter, locks, keep, started, claims,
                   waits, pass, edited, bounds>>

Finished(w) ==
    \A j \in JobsOf(w) : job[j] \in {"absent", "succeeded"} \/ (job[j] = "failed" /\ Repairs(j) # {})

completeWorkItem(w) ==
    /\ ~Busy
    /\ wi[w] = "active"
    /\ Finished(w)
    /\ wi' = [wi EXCEPT ![w] = "complete"]
    /\ UNCHANGED <<job, notReady, mergeAfter, locks, keep, started, claims,
                   waits, pass, edited, bounds>>

(* Locks released or restored reconcile the waits.                         *)
WaitsFollow == IF locks' # locks THEN waits' \in LaneWaits' ELSE UNCHANGED waits

(* Mutant of Restored: claims are forgotten when the taker merges.         *)
RestoredNone(w) == {}

(* restoreExistingOrderClaimLocks                                          *)
Restored(w) ==
    {<<c[2], c[3]>> : c \in {x \in claims : x[1] = w /\ x[2] # w /\ LiveItem(x[2])}}

(* setMergeState(merged)                                                   *)
merge(w) ==
    /\ ~Busy
    /\ wi[w] = "complete"
    /\ \A u \in mergeAfter[w] : wi[u] = "merged"
    /\ wi' = [wi EXCEPT ![w] = "merged"]
    /\ mergeAfter' = [mergeAfter EXCEPT ![w] = {}]
    /\ locks' = {l \in locks : l[1] # w} \cup Restored(w)
    /\ keep' = {l \in keep : l[1] # w} \cup (Restored(w) \ locks)
    /\ edited' = {e \in edited : e[1] # w}
    /\ UNCHANGED <<job, notReady, started, claims, pass, bounds>>
    /\ WaitsFollow

mergeFails(w) ==
    /\ ~Busy
    /\ wi[w] = "complete"
    /\ \A u \in mergeAfter[w] : wi[u] = "merged"
    /\ mergeFailures < MaxMergeFails
    /\ mergeFailures' = mergeFailures + 1
    /\ wi' = [wi EXCEPT ![w] = "merge_failed"]
    /\ UNCHANGED <<job, notReady, mergeAfter, locks, keep, started, claims,
                   waits, pass, edited, retries, gates, cancels>>

(* The operator settles the failed merge and it is tried again.            *)
retryMerge(w) ==
    /\ ~Busy
    /\ wi[w] = "merge_failed"
    /\ wi' = [wi EXCEPT ![w] = "complete"]
    /\ UNCHANGED <<job, notReady, mergeAfter, locks, keep, started, claims,
                   waits, pass, edited, bounds>>

(* updateWorkItemStatus(canceled): jobs that nobody executes end, locks and *)
(* order go.                                                               *)
cancel(w) ==
    /\ LiveItem(w)
    /\ cancels < MaxCancels
    /\ cancels' = cancels + 1
    /\ wi' = [wi EXCEPT ![w] = "canceled"]
    /\ job' = [j \in Job |-> IF Wi[j] = w /\ job[j] \in {"queued", "gated"}
                             THEN "failed" ELSE job[j]]
    /\ mergeAfter' = [mergeAfter EXCEPT ![w] = {}]
    /\ locks' = {l \in locks : l[1] # w}
    /\ keep' = {l \in keep : l[1] # w}
    /\ edited' = {e \in edited : e[1] # w}
    /\ UNCHANGED <<notReady, started, claims, pass, retries, gates, mergeFailures>>
    /\ WaitsFollow

Worker(j) == verdictPass(j) \/ verdictFail(j) \/ requeue(j) \/ deadLetter(j)

OrderNext ==
    \/ Scan
    \/ sleepUntilWake
    \/ \E j \in Job : becomesReady(j) \/ Worker(j) \/ answerRetry(j)
    \/ \E w \in WorkItem :
         \/ completeWorkItem(w)
         \/ merge(w)
         \/ mergeFails(w)
         \/ retryMerge(w)
         \/ cancel(w)

OrderSpec == OrderInit /\ [][OrderNext]_orderVars

(* The scan goes on, workers end, gates are answered and complete work     *)
(* items are merged.                                                       *)
OrderFairness ==
    /\ WF_orderVars(Scan)
    /\ \A j \in Job :
         /\ WF_orderVars(becomesReady(j))
         /\ WF_orderVars(Worker(j))
         /\ WF_orderVars(answerRetry(j))
    /\ \A w \in WorkItem :
         /\ WF_orderVars(completeWorkItem(w))
         /\ WF_orderVars(merge(w))
         /\ WF_orderVars(retryMerge(w))

OrderFairSpec == OrderSpec /\ OrderFairness

-----------------------------------------------------------------------------

(* A work item's unmerged edits to a file keep it: by its lock, or by a    *)
(* claim on a live work item that took the lock over ("The holder's        *)
(* pending edits stay claimed").                                           *)
EditsClaimed ==
    \A e \in edited :
        \/ e \in locks
        \/ \E c \in claims : c[2] = e[1] /\ c[3] = e[2] /\ LiveItem(c[1])

(* Every work item merges or is canceled: the order and the locks never    *)
(* make work items wait for each other for good ("order waits cannot form  *)
(* a cycle"; lock waits against the order are resolved by the handoff).    *)
EveryWorkItemSettles ==
    \A w \in WorkItem : (wi[w] = "active") ~> (wi[w] \in {"merged", "canceled"})

=============================================================================
