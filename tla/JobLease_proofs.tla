--------------------------- MODULE JobLease_proofs ---------------------------
(* Proofs about JobLease, for every set of jobs, processes and gates and for *)
(* every lease duration, grace and bound.                                    *)
EXTENDS JobLease, TLAPS

USE BoundsAssumption, NullAssumption DEF NoToken, NoTime

\* The status sets, expanded together.
LEMMA StatusSets ==
  /\ ACTIVE_LEASE_STATUSES \subseteq LEASE_HOLDING_STATUSES
  /\ PARKED_LEASE_STATUSES \subseteq LEASE_HOLDING_STATUSES
  /\ LEASE_HOLDING_STATUSES \subseteq JOB_STATUSES
  /\ TERMINAL_JOB_STATUSES \subseteq JOB_STATUSES
  /\ {"queued", "blocked", "leased", "running", "awaiting_assessment"} \subseteq JOB_STATUSES
  /\ {"succeeded", "failed", "canceled"} \subseteq TERMINAL_JOB_STATUSES
  /\ {"leased", "running", "awaiting_assessment"} \subseteq LEASE_HOLDING_STATUSES
  /\ "queued" \notin LEASE_HOLDING_STATUSES /\ "blocked" \notin LEASE_HOLDING_STATUSES
  /\ TERMINAL_JOB_STATUSES \intersect LEASE_HOLDING_STATUSES = {}
  /\ ACTIVE_LEASE_STATUSES \intersect PARKED_LEASE_STATUSES = {}
  /\ "queued" \notin TERMINAL_JOB_STATUSES
BY DEF ACTIVE_LEASE_STATUSES, PARKED_LEASE_STATUSES, LEASE_HOLDING_STATUSES, JOB_STATUSES,
       TERMINAL_JOB_STATUSES, PARKED_JOB_STATUSES

LEMMA ResumeOutcomeType ==
  ASSUME NEW s, NEW t
  PROVE  ResumeOutcome(s, t) \in {"pending", "completed", "failed"}
BY DEF ResumeOutcome

\* Consuming the outbox keeps the types of the outbox and of a status.
LEMMA SettledEffectsType ==
  ASSUME TypeOK, NEW Rows, NEW s, NEW t
  PROVE  SettledEffects(Rows, s, t) \in [Gates -> EffectStates]
BY ResumeOutcomeType DEF SettledEffects, TypeOK, EffectStates

LEMMA ResumedStatusType ==
  ASSUME NEW j, NEW s \in JOB_STATUSES, NEW t
  PROVE  ResumedStatus(j, s, t) \in JOB_STATUSES
BY StatusSets DEF ResumedStatus

LEMMA ReleaseRowsType ==
  ASSUME TypeOK, NEW Rows, NEW s, ReleaseRows(Rows, s),
         \A j \in Jobs : j \in Rows => s[j] \in JOB_STATUSES
  PROVE  /\ status' \in [Jobs -> JOB_STATUSES]
         /\ token' \in [Jobs -> Nat]
         /\ owner' \in [Jobs -> Procs \union {NoProc}]
         /\ expires' \in [Jobs -> Nat]
         /\ effect' \in [Gates -> EffectStates]
         /\ gateJob' = gateJob
<1>1. status' \in [Jobs -> JOB_STATUSES]
  BY ResumedStatusType DEF ReleaseRows, TypeOK
<1>2. effect' \in [Gates -> EffectStates]
  BY SettledEffectsType DEF ReleaseRows
<1>. QED
  BY <1>1, <1>2 DEF ReleaseRows, TypeOK

LEMMA SetStatusType ==
  ASSUME TypeOK, NEW j \in Jobs, NEW s \in JOB_STATUSES, SetStatus(j, s)
  PROVE  /\ status' \in [Jobs -> JOB_STATUSES]
         /\ token' \in [Jobs -> Nat]
         /\ owner' \in [Jobs -> Procs \union {NoProc}]
         /\ expires' \in [Jobs -> Nat]
<1>1. CASE s \in LEASE_HOLDING_STATUSES
  <2>1. /\ status' = [status EXCEPT ![j] = s]
        /\ token' = token /\ owner' = owner /\ expires' = expires
    BY <1>1 DEF SetStatus
  <2>. QED
    BY <2>1 DEF TypeOK
<1>2. CASE s \notin LEASE_HOLDING_STATUSES
  <2>1. /\ status' = [status EXCEPT ![j] = s]
        /\ token' = [token EXCEPT ![j] = NoToken]
        /\ owner' = [owner EXCEPT ![j] = NoProc]
        /\ expires' = [expires EXCEPT ![j] = NoTime]
    BY <1>2 DEF SetStatus
  <2>. QED
    BY <2>1 DEF TypeOK
<1>. QED
  BY <1>1, <1>2

LEMMA SnapshotType ==
  ASSUME TypeOK, NEW Rows
  PROVE  Snapshot(Rows) \in [Jobs -> Nat]
BY DEF TypeOK, Snapshot

-----------------------------------------------------------------------------
(* Type correctness *)

LEMMA WorkerStepType ==
  ASSUME TypeOK, NEW p \in Procs, workerStep(p)
  PROVE  TypeOK'
<1>. USE DEF jobRow, outbox, worker, sweeper
<1>1. ASSUME NEW j \in Jobs, acquireLease(p, j) PROVE TypeOK'
  BY <1>1, StatusSets DEF acquireLease, freshToken, TypeOK
<1>2. CASE renewLease(p)
  BY <1>2 DEF renewLease, Renewable, HoldsToken, TypeOK
<1>3. CASE startRunning(p)
  <2>1. workJob[p] \in Jobs
    BY <1>3 DEF startRunning, HoldsToken, TypeOK
  <2>. QED
    BY <1>3, <2>1, StatusSets, SetStatusType DEF startRunning, TypeOK
<1>4. CASE awaitAssessment(p)
  <2>1. workJob[p] \in Jobs
    BY <1>4 DEF awaitAssessment, HoldsToken, TypeOK
  <2>. QED
    BY <1>4, <2>1, StatusSets, SetStatusType DEF awaitAssessment, TypeOK
<1>5. ASSUME NEW s \in JOB_STATUSES, parkJob(p, s) PROVE TypeOK'
  <2>1. workJob[p] \in Jobs
    BY <1>5 DEF parkJob, HoldsToken, TypeOK
  <2>. QED
    BY <1>5, <2>1, SetStatusType DEF parkJob, TypeOK
<1>6. ASSUME NEW g \in Gates, spawnGate(p, g) PROVE TypeOK'
  BY <1>6 DEF spawnGate, TypeOK
<1>7. ASSUME NEW s \in JOB_STATUSES, settleByVerdict(p, s) PROVE TypeOK'
  <2>1. workJob[p] \in Jobs
    BY <1>7 DEF settleByVerdict, HoldsToken, TypeOK
  <2>. QED
    BY <1>7, <2>1, SetStatusType DEF settleByVerdict, GoIdle, TypeOK
<1>8. ASSUME NEW s \in JOB_STATUSES, releaseLease(p, s) PROVE TypeOK'
  <2>1. workJob[p] \in Jobs
    BY <1>8 DEF releaseLease, HoldsToken, TypeOK
  <2>2. \A j \in Jobs : j \in {workJob[p]} => [status EXCEPT ![workJob[p]] = s][j] \in JOB_STATUSES
    BY <2>1 DEF TypeOK
  <2>. QED
    BY <1>8, <2>1, <2>2, ReleaseRowsType DEF releaseLease, GoIdle, TypeOK
<1>9. CASE loseLease(p)
  BY <1>9 DEF loseLease, GoIdle, TypeOK
<1>. QED
  BY <1>1, <1>2, <1>3, <1>4, <1>5, <1>6, <1>7, <1>8, <1>9 DEF workerStep

LEMMA OperatorStepType ==
  ASSUME TypeOK, NEW j \in Jobs, operatorStep(j)
  PROVE  TypeOK'
<1>. USE DEF jobRow, outbox, worker, sweeper
<1>1. CASE cancelJob(j)
  BY <1>1, StatusSets, SetStatusType DEF cancelJob, RetireGates, TypeOK, EffectStates
<1>2. CASE skipJob(j)
  BY <1>2, StatusSets, SetStatusType DEF skipJob, TypeOK
<1>3. CASE requeueForRecovery(j)
  BY <1>3, StatusSets, SetStatusType DEF requeueForRecovery, TypeOK
<1>4. ASSUME NEW s \in JOB_STATUSES, operatorRepair(j, s) PROVE TypeOK'
  BY <1>4, SetStatusType DEF operatorRepair, RetireGates, TypeOK, EffectStates
<1>5. CASE blockForSession(j)
  BY <1>5, StatusSets, SetStatusType DEF blockForSession, TypeOK
<1>6. ASSUME NEW s \in JOB_STATUSES, unblockFromSession(j, s) PROVE TypeOK'
  BY <1>6, SetStatusType DEF unblockFromSession, TypeOK
<1>. QED
  BY <1>1, <1>2, <1>3, <1>4, <1>5, <1>6 DEF operatorStep

LEMMA SweepStepType ==
  ASSUME TypeOK, NEW p \in Procs, sweepStep(p)
  PROVE  TypeOK'
<1>. USE DEF jobRow, outbox, worker, sweeper, SweepPhases
<1>1. CASE readExpiredParked(p)
  BY <1>1, SnapshotType DEF readExpiredParked, graceCutoff, TypeOK
<1>2. CASE clearExpiredParked(p)
  BY <1>2, ReleaseRowsType DEF clearExpiredParked, TypeOK
<1>3. CASE readExpiredActive(p)
  BY <1>3, SnapshotType DEF readExpiredActive, TypeOK
<1>4. ASSUME NEW plans \in SUBSET Jobs, requeueExpired(p, plans) PROVE TypeOK'
  <2>1. effect' \in [Gates -> EffectStates]
    BY <1>4, SettledEffectsType DEF requeueExpired
  <2>2. status' \in [Jobs -> JOB_STATUSES]
    BY <1>4, StatusSets DEF requeueExpired, TypeOK
  <2>3. /\ token' \in [Jobs -> Nat]
        /\ owner' \in [Jobs -> Procs \union {NoProc}]
        /\ expires' \in [Jobs -> Nat]
    BY <1>4 DEF requeueExpired, TypeOK
  <2>4. /\ sweep' \in [Procs -> SweepPhases]
        /\ cutoff' \in [Procs -> Int]
        /\ seen' \in [Procs -> [Jobs -> Nat]]
    BY <1>4, SnapshotType DEF requeueExpired, TypeOK
  <2>. QED
    BY <1>4, <2>1, <2>2, <2>3, <2>4 DEF requeueExpired, TypeOK
<1>. QED
  BY <1>1, <1>2, <1>3, <1>4 DEF sweepStep

LEMMA ProcessStepType ==
  ASSUME TypeOK, NEW p \in Procs, bootStep(p) \/ crash(p) \/ forcedExit(p)
  PROVE  TypeOK'
<1>. USE DEF jobRow, outbox, worker, sweeper, SweepPhases, Modes
<1>1. ASSUME NEW mayForce \in BOOLEAN, requeueOrphaned(p, mayForce) PROVE TypeOK'
  <2>1. status' \in [Jobs -> JOB_STATUSES]
    BY <1>1, StatusSets DEF requeueOrphaned, TypeOK
  <2>. QED
    BY <1>1, <2>1 DEF requeueOrphaned, TypeOK
<1>2. ASSUME NEW j \in Jobs, consumeOrphan(p, j) PROVE TypeOK'
  <2>1. status' \in [Jobs -> JOB_STATUSES]
    BY <1>2, ResumedStatusType DEF consumeOrphan, TypeOK
  <2>2. effect' \in [Gates -> EffectStates]
    BY <1>2, SettledEffectsType DEF consumeOrphan
  <2>. QED
    BY <1>2, <2>1, <2>2 DEF consumeOrphan, TypeOK
<1>3. CASE bootDone(p)
  BY <1>3 DEF bootDone, TypeOK
<1>4. CASE crash(p)
  BY <1>4, SnapshotType DEF crash, ProcessGone, GoIdle, TypeOK
<1>5. CASE forcedExit(p)
  BY <1>5, StatusSets, SnapshotType, ReleaseRowsType DEF forcedExit, ProcessGone, GoIdle, TypeOK
<1>. QED
  BY <1>1, <1>2, <1>3, <1>4, <1>5 DEF bootStep

LEMMA GateStepType ==
  ASSUME TypeOK, NEW g \in Gates, requestParkedJobResumeAfterGate(g)
  PROVE  TypeOK'
<1>1. gateJob[g] \in Jobs
  BY DEF requestParkedJobResumeAfterGate, TypeOK
<1>2. status' \in [Jobs -> JOB_STATUSES]
  BY <1>1, StatusSets DEF requestParkedJobResumeAfterGate, TypeOK
<1>3. effect' \in [Gates -> EffectStates]
  BY <1>1, ResumeOutcomeType DEF requestParkedJobResumeAfterGate, TypeOK, EffectStates
<1>. QED
  BY <1>2, <1>3 DEF requestParkedJobResumeAfterGate, TypeOK, worker, sweeper

\* Every row, outbox entry and in-memory field keeps its type in every step of
\* every process, whatever the interleaving.
THEOREM TypeCorrect == Spec => []TypeOK
<1>1. Init => TypeOK
  BY StatusSets DEF Init, TypeOK, EffectStates, Modes, SweepPhases, Snapshot
<1>2. TypeOK /\ [Next]_vars => TypeOK'
  <2>. SUFFICES ASSUME TypeOK, [Next]_vars PROVE TypeOK'
    OBVIOUS
  <2>1. ASSUME NEW p \in Procs, workerStep(p) PROVE TypeOK'
    BY <2>1, WorkerStepType
  <2>2. ASSUME NEW p \in Procs, sweepStep(p) PROVE TypeOK'
    BY <2>2, SweepStepType
  <2>3. ASSUME NEW p \in Procs, bootStep(p) \/ crash(p) \/ forcedExit(p) PROVE TypeOK'
    BY <2>3, ProcessStepType
  <2>4. ASSUME NEW j \in Jobs, operatorStep(j) PROVE TypeOK'
    BY <2>4, OperatorStepType
  <2>5. ASSUME NEW g \in Gates, requestParkedJobResumeAfterGate(g) PROVE TypeOK'
    BY <2>5, GateStepType
  <2>6. CASE tick
    BY <2>6 DEF tick, TypeOK, jobRow, outbox, worker, sweeper
  <2>7. CASE UNCHANGED vars
    BY <2>7 DEF vars, TypeOK, jobRow, outbox, worker, sweeper
  <2>. QED
    BY <2>1, <2>2, <2>3, <2>4, <2>5, <2>6, <2>7 DEF Next
<1>. QED
  BY <1>1, <1>2, PTL DEF Spec

-----------------------------------------------------------------------------
(* The lease columns *)

LEMMA ReleaseRowsLease ==
  ASSUME TypeOK, LeaseWellFormed, NEW Rows, NEW s, ReleaseRows(Rows, s),
         \A j \in Jobs : j \in Rows => s[j] \notin ACTIVE_LEASE_STATUSES
  PROVE  LeaseWellFormed'
<1>1. \A j \in Jobs : j \in Rows => status'[j] \in {s[j], "queued"}
  BY DEF ReleaseRows, ResumedStatus
<1>2. "queued" \notin ACTIVE_LEASE_STATUSES
  BY StatusSets
<1>. QED
  BY <1>1, <1>2 DEF ReleaseRows, TypeOK, LeaseWellFormed

LEMMA SetStatusLease ==
  ASSUME TypeOK, LeaseWellFormed, NEW j \in Jobs, NEW s \in JOB_STATUSES, SetStatus(j, s),
         s \in LEASE_HOLDING_STATUSES => token[j] # NoToken
  PROVE  LeaseWellFormed'
<1>1. CASE s \in LEASE_HOLDING_STATUSES
  <2>1. /\ status' = [status EXCEPT ![j] = s]
        /\ token' = token /\ owner' = owner /\ expires' = expires
    BY <1>1 DEF SetStatus
  <2>. QED
    BY <1>1, <2>1 DEF TypeOK, LeaseWellFormed
<1>2. CASE s \notin LEASE_HOLDING_STATUSES
  <2>1. /\ status' = [status EXCEPT ![j] = s]
        /\ token' = [token EXCEPT ![j] = NoToken]
        /\ owner' = [owner EXCEPT ![j] = NoProc]
        /\ expires' = [expires EXCEPT ![j] = NoTime]
    BY <1>2 DEF SetStatus
  <2>2. s \notin ACTIVE_LEASE_STATUSES
    BY <1>2, StatusSets
  <2>. QED
    BY <2>1, <2>2 DEF TypeOK, LeaseWellFormed
<1>. QED
  BY <1>1, <1>2

LEMMA LeaseUnchanged ==
  ASSUME LeaseWellFormed, UNCHANGED jobRow
  PROVE  LeaseWellFormed'
BY DEF LeaseWellFormed, jobRow

LEMMA WorkerStepLease ==
  ASSUME TypeOK, LeaseWellFormed, NEW p \in Procs, workerStep(p), 1 <= nextToken
  PROVE  LeaseWellFormed'
<1>1. ASSUME NEW j \in Jobs, acquireLease(p, j) PROVE LeaseWellFormed'
  <2>1. /\ status' = [status EXCEPT ![j] = "leased"]
        /\ token' = [token EXCEPT ![j] = nextToken]
        /\ owner' = [owner EXCEPT ![j] = p]
        /\ expires' = [expires EXCEPT ![j] = clock + LeaseDuration]
    BY <1>1 DEF acquireLease, freshToken
  <2>2. clock + LeaseDuration # NoTime /\ nextToken # NoToken /\ p # NoProc
    BY DEF TypeOK
  <2>3. "leased" \in LEASE_HOLDING_STATUSES
    BY StatusSets
  <2>. QED
    BY <2>1, <2>2, <2>3 DEF TypeOK, LeaseWellFormed
<1>2. CASE renewLease(p)
  <2>1. /\ workJob[p] \in Jobs /\ expires[workJob[p]] # NoTime
        /\ status' = status /\ token' = token /\ owner' = owner
    BY <1>2 DEF renewLease, Renewable, HoldsToken, TypeOK
  <2>. DEFINE t == IF expires[workJob[p]] > clock + LeaseDuration
                   THEN expires[workJob[p]] ELSE clock + LeaseDuration
  <2>2. expires' = [expires EXCEPT ![workJob[p]] = t]
    BY <1>2 DEF renewLease
  <2>3. t # NoTime
    BY <2>1 DEF TypeOK
  <2>. HIDE DEF t
  <2>. QED
    BY <2>1, <2>2, <2>3 DEF TypeOK, LeaseWellFormed
<1>3. CASE startRunning(p)
  <2>1. workJob[p] \in Jobs /\ token[workJob[p]] # NoToken
    BY <1>3 DEF startRunning, HoldsToken, TypeOK
  <2>. QED
    BY <1>3, <2>1, StatusSets, SetStatusLease DEF startRunning
<1>4. CASE awaitAssessment(p)
  <2>1. workJob[p] \in Jobs /\ token[workJob[p]] # NoToken
    BY <1>4 DEF awaitAssessment, HoldsToken, TypeOK
  <2>. QED
    BY <1>4, <2>1, StatusSets, SetStatusLease DEF awaitAssessment
<1>5. ASSUME NEW s \in JOB_STATUSES, parkJob(p, s) PROVE LeaseWellFormed'
  <2>1. workJob[p] \in Jobs /\ token[workJob[p]] # NoToken
    BY <1>5 DEF parkJob, HoldsToken, TypeOK
  <2>. QED
    BY <1>5, <2>1, SetStatusLease DEF parkJob
<1>6. ASSUME NEW g \in Gates, spawnGate(p, g) PROVE LeaseWellFormed'
  BY <1>6, LeaseUnchanged DEF spawnGate
<1>7. ASSUME NEW s \in JOB_STATUSES, settleByVerdict(p, s) PROVE LeaseWellFormed'
  <2>1. workJob[p] \in Jobs /\ token[workJob[p]] # NoToken
    BY <1>7 DEF settleByVerdict, HoldsToken, TypeOK
  <2>. QED
    BY <1>7, <2>1, SetStatusLease DEF settleByVerdict
<1>8. ASSUME NEW s \in JOB_STATUSES, releaseLease(p, s) PROVE LeaseWellFormed'
  <2>1. workJob[p] \in Jobs
    BY <1>8 DEF releaseLease, HoldsToken, TypeOK
  <2>2. s \notin ACTIVE_LEASE_STATUSES
    BY <1>8, StatusSets DEF releaseLease
  <2>3. \A j \in Jobs : j \in {workJob[p]}
          => [status EXCEPT ![workJob[p]] = s][j] \notin ACTIVE_LEASE_STATUSES
    BY <2>1, <2>2 DEF TypeOK
  <2>. QED
    BY <1>8, <2>3, ReleaseRowsLease DEF releaseLease
<1>9. CASE loseLease(p)
  BY <1>9, LeaseUnchanged DEF loseLease
<1>. QED
  BY <1>1, <1>2, <1>3, <1>4, <1>5, <1>6, <1>7, <1>8, <1>9 DEF workerStep

LEMMA OperatorStepLease ==
  ASSUME TypeOK, LeaseWellFormed, NEW j \in Jobs, operatorStep(j)
  PROVE  LeaseWellFormed'
<1>1. CASE cancelJob(j)
  BY <1>1, StatusSets, SetStatusLease DEF cancelJob
<1>2. CASE skipJob(j)
  BY <1>2, StatusSets, SetStatusLease DEF skipJob
<1>3. CASE requeueForRecovery(j)
  BY <1>3, StatusSets, SetStatusLease DEF requeueForRecovery
<1>4. ASSUME NEW s \in JOB_STATUSES, operatorRepair(j, s) PROVE LeaseWellFormed'
  BY <1>4, StatusSets, SetStatusLease DEF operatorRepair
<1>5. CASE blockForSession(j)
  BY <1>5, StatusSets, SetStatusLease DEF blockForSession
<1>6. ASSUME NEW s \in JOB_STATUSES, unblockFromSession(j, s) PROVE LeaseWellFormed'
  BY <1>6, StatusSets, SetStatusLease DEF unblockFromSession
<1>. QED
  BY <1>1, <1>2, <1>3, <1>4, <1>5, <1>6 DEF operatorStep

LEMMA SweepStepLease ==
  ASSUME TypeOK, LeaseWellFormed, NEW p \in Procs, sweepStep(p)
  PROVE  LeaseWellFormed'
<1>1. CASE readExpiredParked(p)
  BY <1>1, LeaseUnchanged DEF readExpiredParked, graceCutoff
<1>2. CASE clearExpiredParked(p)
  BY <1>2, StatusSets, ReleaseRowsLease DEF clearExpiredParked, ClearParkedHits
<1>3. CASE readExpiredActive(p)
  BY <1>3, LeaseUnchanged DEF readExpiredActive
<1>4. ASSUME NEW plans \in SUBSET Jobs, requeueExpired(p, plans) PROVE LeaseWellFormed'
  <2>. DEFINE hits == RequeueHits(p)
  <2>1. \A j \in Jobs : j \in hits => /\ status'[j] \in {"succeeded", "failed", "queued"}
                                       /\ token'[j] = NoToken
                                       /\ owner'[j] = NoProc
                                       /\ expires'[j] = NoTime
    BY <1>4 DEF requeueExpired, TypeOK
  <2>2. \A j \in Jobs : j \notin hits => /\ status'[j] = status[j]
                                          /\ token'[j] = token[j]
                                          /\ owner'[j] = owner[j]
                                          /\ expires'[j] = expires[j]
    BY <1>4 DEF requeueExpired, TypeOK
  <2>3. {"succeeded", "failed", "queued"} \intersect ACTIVE_LEASE_STATUSES = {}
    BY StatusSets
  <2>. QED
    BY <2>1, <2>2, <2>3 DEF LeaseWellFormed
<1>. QED
  BY <1>1, <1>2, <1>3, <1>4 DEF sweepStep

LEMMA ProcessStepLease ==
  ASSUME TypeOK, LeaseWellFormed, NEW p \in Procs, bootStep(p) \/ crash(p) \/ forcedExit(p)
  PROVE  LeaseWellFormed'
<1>1. ASSUME NEW mayForce \in BOOLEAN, requeueOrphaned(p, mayForce) PROVE LeaseWellFormed'
  <2>. DEFINE hits == {j \in Jobs : /\ status[j] \in ACTIVE_LEASE_STATUSES
                                    /\ mayForce \/ expires[j] = NoTime \/ expires[j] < clock}
  <2>1. \A j \in Jobs : j \in hits => /\ status'[j] \in {"failed", "queued"}
                                       /\ token'[j] = NoToken
                                       /\ owner'[j] = NoProc
                                       /\ expires'[j] = NoTime
    BY <1>1 DEF requeueOrphaned, TypeOK
  <2>2. \A j \in Jobs : j \notin hits => /\ status'[j] = status[j]
                                          /\ token'[j] = token[j]
                                          /\ owner'[j] = owner[j]
                                          /\ expires'[j] = expires[j]
    BY <1>1 DEF requeueOrphaned, TypeOK
  <2>3. {"failed", "queued"} \intersect ACTIVE_LEASE_STATUSES = {}
    BY StatusSets
  <2>. QED
    BY <2>1, <2>2, <2>3 DEF LeaseWellFormed
<1>2. ASSUME NEW j \in Jobs, consumeOrphan(p, j) PROVE LeaseWellFormed'
  <2>1. /\ status' = [status EXCEPT ![j] = ResumedStatus(j, status[j], token[j])]
        /\ token' = token /\ owner' = owner /\ expires' = expires
    BY <1>2 DEF consumeOrphan
  <2>2. ResumedStatus(j, status[j], token[j]) # status[j]
          => ResumedStatus(j, status[j], token[j]) = "queued" /\ token[j] = NoToken
    BY DEF ResumedStatus, ResumeOutcome
  <2>. QED
    BY <2>1, <2>2, StatusSets DEF LeaseWellFormed, TypeOK
<1>3. CASE bootDone(p)
  BY <1>3, LeaseUnchanged DEF bootDone
<1>4. CASE crash(p)
  BY <1>4, LeaseUnchanged DEF crash
<1>5. CASE forcedExit(p)
  BY <1>5, StatusSets, ReleaseRowsLease DEF forcedExit
<1>. QED
  BY <1>1, <1>2, <1>3, <1>4, <1>5 DEF bootStep

LEMMA GateStepLease ==
  ASSUME TypeOK, LeaseWellFormed, NEW g \in Gates, requestParkedJobResumeAfterGate(g)
  PROVE  LeaseWellFormed'
<1>. DEFINE j == gateJob[g]
<1>1. j \in Jobs
  BY DEF requestParkedJobResumeAfterGate, TypeOK
<1>2. token' = token /\ owner' = owner /\ expires' = expires
  BY DEF requestParkedJobResumeAfterGate
<1>3. CASE ResumeOutcome(status[j], token[j]) = "completed"
  <2>1. token[j] = NoToken
    BY <1>1, <1>3, StatusSets DEF ResumeOutcome, LeaseWellFormed
  <2>2. status' = status \/ status' = [status EXCEPT ![j] = "queued"]
    BY DEF requestParkedJobResumeAfterGate
  <2>. QED
    BY <1>1, <1>2, <2>1, <2>2, StatusSets DEF LeaseWellFormed, TypeOK
<1>4. CASE ResumeOutcome(status[j], token[j]) # "completed"
  <2>1. status' = status
    BY <1>4 DEF requestParkedJobResumeAfterGate
  <2>. QED
    BY <1>2, <2>1 DEF LeaseWellFormed
<1>. QED
  BY <1>3, <1>4

\* The lease columns are set and cleared together, in no idle or terminal
\* status, and always in an active one: requeueExpiredLeases, which selects on
\* owner and expiry, can therefore recover every active row.
THEOREM LeaseColumnsConsistent == Spec => []LeaseWellFormed
<1>1. Init => LeaseWellFormed
  BY StatusSets DEF Init, LeaseWellFormed
<1>2. TypeOK /\ LeaseWellFormed /\ [Next]_vars => LeaseWellFormed'
  <2>. SUFFICES ASSUME TypeOK, LeaseWellFormed, [Next]_vars PROVE LeaseWellFormed'
    OBVIOUS
  <2>0. 1 <= nextToken
    BY DEF TypeOK
  <2>1. ASSUME NEW p \in Procs, workerStep(p) PROVE LeaseWellFormed'
    BY <2>0, <2>1, WorkerStepLease
  <2>2. ASSUME NEW p \in Procs, sweepStep(p) PROVE LeaseWellFormed'
    BY <2>2, SweepStepLease
  <2>3. ASSUME NEW p \in Procs, bootStep(p) \/ crash(p) \/ forcedExit(p) PROVE LeaseWellFormed'
    BY <2>3, ProcessStepLease
  <2>4. ASSUME NEW j \in Jobs, operatorStep(j) PROVE LeaseWellFormed'
    BY <2>4, OperatorStepLease
  <2>5. ASSUME NEW g \in Gates, requestParkedJobResumeAfterGate(g) PROVE LeaseWellFormed'
    BY <2>5, GateStepLease
  <2>6. CASE tick
    BY <2>6, LeaseUnchanged DEF tick
  <2>7. CASE UNCHANGED vars
    BY <2>7, LeaseUnchanged DEF vars
  <2>. QED
    BY <2>1, <2>2, <2>3, <2>4, <2>5, <2>6, <2>7 DEF Next
<1>. QED
  BY <1>1, <1>2, TypeCorrect, PTL DEF Spec

-----------------------------------------------------------------------------
(* Fencing *)

\* What a step that is not an acquisition does to tokens: it may clear them, in
\* the rows or in a worker's memory, and it issues none.
OnlyClears ==
  /\ nextToken' = nextToken
  /\ \A j \in Jobs : token'[j] \in {token[j], NoToken}
  /\ \A p \in Procs : workToken'[p] \in {workToken[p], NoToken}

LEMMA SetStatusClears ==
  ASSUME TypeOK, NEW j, NEW s, SetStatus(j, s)
  PROVE  \A i \in Jobs : token'[i] \in {token[i], NoToken}
<1>1. CASE s \in LEASE_HOLDING_STATUSES
  <2>1. token' = token
    BY <1>1 DEF SetStatus
  <2>. QED
    BY <2>1
<1>2. CASE s \notin LEASE_HOLDING_STATUSES
  <2>1. token' = [token EXCEPT ![j] = NoToken]
    BY <1>2 DEF SetStatus
  <2>. QED
    BY <2>1 DEF TypeOK
<1>. QED
  BY <1>1, <1>2

LEMMA ReleaseRowsClears ==
  ASSUME TypeOK, NEW Rows, NEW s, ReleaseRows(Rows, s)
  PROVE  \A i \in Jobs : token'[i] \in {token[i], NoToken}
BY DEF ReleaseRows

LEMMA GoIdleClears ==
  ASSUME TypeOK, NEW p, GoIdle(p)
  PROVE  \A q \in Procs : workToken'[q] \in {workToken[q], NoToken}
BY DEF GoIdle, TypeOK

LEMMA StepShape ==
  ASSUME TypeOK, [Next]_vars
  PROVE  OnlyClears \/ \E p \in Procs, j \in Jobs : acquireLease(p, j)
<1>. USE DEF OnlyClears, jobRow, worker
<1>1. ASSUME NEW p \in Procs, workerStep(p), \A j \in Jobs : ~acquireLease(p, j)
      PROVE  OnlyClears
  <2>1. CASE renewLease(p)
    BY <2>1 DEF renewLease
  <2>2. CASE startRunning(p)
    BY <2>2, SetStatusClears DEF startRunning
  <2>3. CASE awaitAssessment(p)
    BY <2>3, SetStatusClears DEF awaitAssessment
  <2>4. ASSUME NEW s \in JOB_STATUSES, parkJob(p, s) PROVE OnlyClears
    BY <2>4, SetStatusClears DEF parkJob
  <2>5. ASSUME NEW g \in Gates, spawnGate(p, g) PROVE OnlyClears
    BY <2>5 DEF spawnGate
  <2>6. ASSUME NEW s \in JOB_STATUSES, settleByVerdict(p, s) PROVE OnlyClears
    BY <2>6, SetStatusClears, GoIdleClears DEF settleByVerdict
  <2>7. ASSUME NEW s \in JOB_STATUSES, releaseLease(p, s) PROVE OnlyClears
    BY <2>7, ReleaseRowsClears, GoIdleClears DEF releaseLease
  <2>8. CASE loseLease(p)
    BY <2>8, GoIdleClears DEF loseLease
  <2>. QED
    BY <1>1, <2>1, <2>2, <2>3, <2>4, <2>5, <2>6, <2>7, <2>8 DEF workerStep
<1>2. ASSUME NEW j \in Jobs, operatorStep(j) PROVE OnlyClears
  <2>1. CASE cancelJob(j)
    BY <2>1, SetStatusClears DEF cancelJob
  <2>2. CASE skipJob(j)
    BY <2>2, SetStatusClears DEF skipJob
  <2>3. CASE requeueForRecovery(j)
    BY <2>3, SetStatusClears DEF requeueForRecovery
  <2>4. ASSUME NEW s \in JOB_STATUSES, operatorRepair(j, s) PROVE OnlyClears
    BY <2>4, SetStatusClears DEF operatorRepair
  <2>5. CASE blockForSession(j)
    BY <2>5, SetStatusClears DEF blockForSession
  <2>6. ASSUME NEW s \in JOB_STATUSES, unblockFromSession(j, s) PROVE OnlyClears
    BY <2>6, SetStatusClears DEF unblockFromSession
  <2>. QED
    BY <1>2, <2>1, <2>2, <2>3, <2>4, <2>5, <2>6 DEF operatorStep
<1>3. ASSUME NEW p \in Procs, sweepStep(p) PROVE OnlyClears
  <2>1. CASE readExpiredParked(p)
    BY <2>1 DEF readExpiredParked, graceCutoff
  <2>2. CASE clearExpiredParked(p)
    BY <2>2, ReleaseRowsClears DEF clearExpiredParked
  <2>3. CASE readExpiredActive(p)
    BY <2>3 DEF readExpiredActive
  <2>4. ASSUME NEW plans \in SUBSET Jobs, requeueExpired(p, plans) PROVE OnlyClears
    BY <2>4 DEF requeueExpired
  <2>. QED
    BY <1>3, <2>1, <2>2, <2>3, <2>4 DEF sweepStep
<1>4. ASSUME NEW p \in Procs, bootStep(p) \/ crash(p) \/ forcedExit(p) PROVE OnlyClears
  <2>1. ASSUME NEW mayForce \in BOOLEAN, requeueOrphaned(p, mayForce) PROVE OnlyClears
    BY <2>1 DEF requeueOrphaned
  <2>2. ASSUME NEW j \in Jobs, consumeOrphan(p, j) PROVE OnlyClears
    BY <2>2 DEF consumeOrphan
  <2>3. CASE bootDone(p)
    BY <2>3 DEF bootDone
  <2>4. CASE crash(p)
    BY <2>4, GoIdleClears DEF crash, ProcessGone
  <2>5. CASE forcedExit(p)
    BY <2>5, ReleaseRowsClears, GoIdleClears DEF forcedExit, ProcessGone
  <2>. QED
    BY <1>4, <2>1, <2>2, <2>3, <2>4, <2>5 DEF bootStep
<1>5. ASSUME NEW g \in Gates, requestParkedJobResumeAfterGate(g) PROVE OnlyClears
  BY <1>5 DEF requestParkedJobResumeAfterGate
<1>6. CASE tick
  BY <1>6 DEF tick
<1>7. CASE UNCHANGED vars
  BY <1>7 DEF vars
<1>. QED
  BY <1>1, <1>2, <1>3, <1>4, <1>5, <1>6, <1>7 DEF Next

\* Every token in a row or in memory was issued, and no two workers remember
\* the same one: the strengthening under which HolderUnique is inductive.
TokensFenced ==
  /\ \A j \in Jobs : token[j] < nextToken
  /\ \A p \in Procs : workToken[p] < nextToken
  /\ \A p, q \in Procs : p # q /\ workToken[p] # NoToken => workToken[p] # workToken[q]

LEMMA TokensStayFenced ==
  ASSUME TypeOK, TokensFenced, [Next]_vars
  PROVE  TokensFenced'
<1>1. CASE OnlyClears
  <2>0. nextToken \in Nat /\ 0 < nextToken
    BY DEF TypeOK
  <2>1. \A i \in Jobs : token'[i] < nextToken'
    BY <1>1, <2>0 DEF OnlyClears, TokensFenced
  <2>2. \A q \in Procs : workToken'[q] < nextToken'
    BY <1>1, <2>0 DEF OnlyClears, TokensFenced
  <2>3. \A q, r \in Procs : q # r /\ workToken'[q] # NoToken => workToken'[q] # workToken'[r]
    BY <1>1 DEF OnlyClears, TokensFenced, TypeOK
  <2>. QED
    BY <2>1, <2>2, <2>3 DEF TokensFenced
<1>2. ASSUME NEW p \in Procs, NEW j \in Jobs, acquireLease(p, j) PROVE TokensFenced'
  <2>1. /\ nextToken' = nextToken + 1
        /\ token' = [token EXCEPT ![j] = nextToken]
        /\ workToken' = [workToken EXCEPT ![p] = nextToken]
    BY <1>2 DEF acquireLease, freshToken
  <2>2. \A i \in Jobs : token'[i] < nextToken'
    BY <2>1 DEF TokensFenced, TypeOK
  <2>3. \A q \in Procs : workToken'[q] < nextToken'
    BY <2>1 DEF TokensFenced, TypeOK
  <2>4. \A q, r \in Procs : q # r /\ workToken'[q] # NoToken => workToken'[q] # workToken'[r]
    BY <2>1 DEF TokensFenced, TypeOK
  <2>. QED
    BY <2>2, <2>3, <2>4 DEF TokensFenced
<1>. QED
  BY <1>1, <1>2, StepShape

\* However many workers still believe they execute a job after sweeps, forced
\* requeues, repairs and crashes, at most one of them passes the
\* `lease_token = ?` comparison that guards every write to the row.
THEOREM OneHolder == Spec => []HolderUnique
<1>1. Init => TokensFenced
  BY DEF Init, TokensFenced
<1>2. TypeOK /\ TokensFenced /\ [Next]_vars => TokensFenced'
  BY TokensStayFenced
<1>3. TokensFenced => HolderUnique
  BY DEF TokensFenced, HolderUnique, HoldsToken
<1>. QED
  BY <1>1, <1>2, <1>3, TypeCorrect, PTL DEF Spec

\* The lease columns implement LeaseService: a row is granted only while free,
\* with a token never issued before, and changes hands only by a revocation.
THEOREM LeaseColumnsImplementService == Spec => ImplementsLeaseService
<1>1. Init => Service!Init
  BY DEF Init, Service!Init
<1>2. TypeOK /\ LeaseWellFormed /\ TypeOK' /\ [Next]_vars
        => [Service!Next]_<<token, nextToken - 1>>
  <2>. SUFFICES ASSUME TypeOK, LeaseWellFormed, TypeOK', [Next]_vars
                PROVE  Service!Next
    OBVIOUS
  <2>1. CASE OnlyClears
    <3>. DEFINE Rows == {j \in Jobs : token'[j] = NoToken}
    <3>1. token' = [j \in Jobs |-> IF j \in Rows THEN 0 ELSE token[j]]
      BY <2>1 DEF OnlyClears, TypeOK
    <3>2. nextToken' - 1 = nextToken - 1
      BY <2>1 DEF OnlyClears
    <3>3. Service!Revoke(Rows)
      BY <3>1, <3>2 DEF Service!Revoke
    <3>. QED
      BY <3>3 DEF Service!Next
  <2>2. ASSUME NEW p \in Procs, NEW j \in Jobs, acquireLease(p, j) PROVE Service!Next
    <3>1. token[j] = 0
      BY <2>2, StatusSets DEF acquireLease, Leasable, LeaseWellFormed
    <3>2. /\ nextToken' - 1 = (nextToken - 1) + 1
          /\ token' = [token EXCEPT ![j] = (nextToken - 1) + 1]
      BY <2>2 DEF acquireLease, freshToken, TypeOK
    <3>3. Service!Grant(j)
      BY <3>1, <3>2 DEF Service!Grant
    <3>. QED
      BY <3>3 DEF Service!Next
  <2>. QED
    BY <2>1, <2>2, StepShape
<1>. QED
  BY <1>1, <1>2, TypeCorrect, LeaseColumnsConsistent, PTL DEF Spec, ImplementsLeaseService, Service!Spec
-----------------------------------------------------------------------------
(* Answers to parked jobs *)

\* A recorded answer belongs to a job, and if that job is parked its row has a
\* lease: AnsweredParkIsOwned with the part of gateJob it needs to be inductive
\* (the gate a worker spawns has no answer yet).
AnswersOwned ==
  \A g \in Gates : effect[g] = "pending" =>
    /\ gateJob[g] \in Jobs
    /\ status[gateJob[g]] \in PARKED_LEASE_STATUSES => token[gateJob[g]] # NoToken

\* An answer is left pending only for a row with a lease.
LEMMA PendingNeedsLease ==
  ASSUME NEW s, NEW t, ResumeOutcome(s, t) = "pending"
  PROVE  t # NoToken
BY DEF ResumeOutcome

\* A step that records no answer and parks no row without a lease keeps it.
LEMMA AnswersKept ==
  ASSUME AnswersOwned, gateJob' = gateJob,
         \A g \in Gates : effect'[g] = "pending" => effect[g] = "pending",
         \A j \in Jobs : status'[j] \in PARKED_LEASE_STATUSES =>
           \/ status[j] \in PARKED_LEASE_STATUSES /\ token'[j] = token[j]
           \/ token'[j] # NoToken
  PROVE  AnswersOwned'
BY DEF AnswersOwned

LEMMA SetStatusAnswers ==
  ASSUME TypeOK, AnswersOwned, NEW j \in Jobs, NEW s \in JOB_STATUSES, SetStatus(j, s),
         gateJob' = gateJob,
         \A g \in Gates : effect'[g] = "pending" => effect[g] = "pending",
         s \in PARKED_LEASE_STATUSES => token[j] # NoToken
  PROVE  AnswersOwned'
<1>1. CASE s \in LEASE_HOLDING_STATUSES
  <2>1. status' = [status EXCEPT ![j] = s] /\ token' = token
    BY <1>1 DEF SetStatus
  <2>2. \A i \in Jobs : status'[i] \in PARKED_LEASE_STATUSES =>
           \/ status[i] \in PARKED_LEASE_STATUSES /\ token'[i] = token[i]
           \/ token'[i] # NoToken
    BY <2>1 DEF TypeOK
  <2>. QED
    BY <2>2, AnswersKept
<1>2. CASE s \notin LEASE_HOLDING_STATUSES
  <2>1. /\ status' = [status EXCEPT ![j] = s]
        /\ token' = [token EXCEPT ![j] = NoToken]
    BY <1>2 DEF SetStatus
  <2>2. s \notin PARKED_LEASE_STATUSES
    BY <1>2, StatusSets
  <2>3. \A i \in Jobs : status'[i] \in PARKED_LEASE_STATUSES =>
           status[i] \in PARKED_LEASE_STATUSES /\ token'[i] = token[i]
    BY <2>1, <2>2 DEF TypeOK
  <2>. QED
    BY <2>3, AnswersKept
<1>. QED
  BY <1>1, <1>2

\* ReleaseRows settles the answers of every row it releases.
LEMMA ReleaseRowsAnswers ==
  ASSUME TypeOK, AnswersOwned, NEW Rows, NEW s, ReleaseRows(Rows, s)
  PROVE  AnswersOwned'
<1>1. ASSUME NEW g \in Gates, effect'[g] = "pending"
      PROVE  effect[g] = "pending" /\ gateJob[g] \notin Rows
  <2>1. effect' = SettledEffects(Rows, s, NoToken)
    BY DEF ReleaseRows
  <2>2. CASE effect[g] = "pending" /\ gateJob[g] \in Rows
    <3>1. effect'[g] = ResumeOutcome(s[gateJob[g]], NoToken)
      BY <2>1, <2>2 DEF SettledEffects
    <3>. QED
      BY <1>1, <3>1, PendingNeedsLease
  <2>3. CASE ~(effect[g] = "pending" /\ gateJob[g] \in Rows)
    BY <1>1, <2>1, <2>3 DEF SettledEffects
  <2>. QED
    BY <2>2, <2>3
<1>2. gateJob' = gateJob
  BY DEF ReleaseRows
<1>3. \A j \in Jobs : j \notin Rows => status'[j] = status[j] /\ token'[j] = token[j]
  BY DEF ReleaseRows
<1>. QED
  BY <1>1, <1>2, <1>3 DEF AnswersOwned

LEMMA WorkerStepAnswers ==
  ASSUME TypeOK, AnswersOwned, NEW p \in Procs, workerStep(p)
  PROVE  AnswersOwned'
<1>. USE DEF jobRow, outbox
<1>1. ASSUME NEW j \in Jobs, acquireLease(p, j) PROVE AnswersOwned'
  <2>1. /\ status' = [status EXCEPT ![j] = "leased"]
        /\ token' = [token EXCEPT ![j] = nextToken]
        /\ effect' = effect /\ gateJob' = gateJob
    BY <1>1 DEF acquireLease, freshToken
  <2>2. "leased" \notin PARKED_LEASE_STATUSES
    BY DEF PARKED_LEASE_STATUSES
  <2>. QED
    BY <2>1, <2>2, AnswersKept DEF TypeOK
<1>2. CASE renewLease(p)
  BY <1>2 DEF renewLease, AnswersOwned
<1>3. CASE startRunning(p)
  <2>1. workJob[p] \in Jobs
    BY <1>3 DEF startRunning, HoldsToken, TypeOK
  <2>. QED
    BY <1>3, <2>1, StatusSets, SetStatusAnswers DEF startRunning, PARKED_LEASE_STATUSES
<1>4. CASE awaitAssessment(p)
  <2>1. workJob[p] \in Jobs
    BY <1>4 DEF awaitAssessment, HoldsToken, TypeOK
  <2>. QED
    BY <1>4, <2>1, StatusSets, SetStatusAnswers DEF awaitAssessment, PARKED_LEASE_STATUSES
<1>5. ASSUME NEW s \in JOB_STATUSES, parkJob(p, s) PROVE AnswersOwned'
  <2>1. workJob[p] \in Jobs /\ token[workJob[p]] # NoToken
    BY <1>5 DEF parkJob, HoldsToken, TypeOK
  <2>. QED
    BY <1>5, <2>1, SetStatusAnswers DEF parkJob
<1>6. ASSUME NEW g \in Gates, spawnGate(p, g) PROVE AnswersOwned'
  <2>1. /\ gateJob[g] = NoJob /\ gateJob' = [gateJob EXCEPT ![g] = workJob[p]]
        /\ effect' = effect /\ status' = status /\ token' = token
    BY <1>6 DEF spawnGate
  <2>2. effect[g] # "pending"
    BY <2>1 DEF AnswersOwned
  <2>. QED
    BY <2>1, <2>2 DEF AnswersOwned, TypeOK
<1>7. ASSUME NEW s \in JOB_STATUSES, settleByVerdict(p, s) PROVE AnswersOwned'
  <2>1. workJob[p] \in Jobs /\ token[workJob[p]] # NoToken
    BY <1>7 DEF settleByVerdict, HoldsToken, TypeOK
  <2>. QED
    BY <1>7, <2>1, SetStatusAnswers DEF settleByVerdict
<1>8. ASSUME NEW s \in JOB_STATUSES, releaseLease(p, s) PROVE AnswersOwned'
  BY <1>8, ReleaseRowsAnswers DEF releaseLease
<1>9. CASE loseLease(p)
  BY <1>9 DEF loseLease, AnswersOwned
<1>. QED
  BY <1>1, <1>2, <1>3, <1>4, <1>5, <1>6, <1>7, <1>8, <1>9 DEF workerStep

LEMMA OperatorStepAnswers ==
  ASSUME TypeOK, AnswersOwned, NEW j \in Jobs, operatorStep(j)
  PROVE  AnswersOwned'
<1>0. {"canceled", "succeeded", "queued", "blocked", "failed"} \intersect PARKED_LEASE_STATUSES = {}
  BY DEF PARKED_LEASE_STATUSES
<1>. USE DEF outbox
<1>1. ASSUME RetireGates(j)
      PROVE  gateJob' = gateJob /\ \A g \in Gates : effect'[g] = "pending" => effect[g] = "pending"
  BY <1>1 DEF RetireGates
<1>2. CASE cancelJob(j)
  BY <1>0, <1>1, <1>2, StatusSets, SetStatusAnswers DEF cancelJob
<1>3. CASE skipJob(j)
  BY <1>0, <1>3, StatusSets, SetStatusAnswers DEF skipJob
<1>4. CASE requeueForRecovery(j)
  BY <1>0, <1>4, StatusSets, SetStatusAnswers DEF requeueForRecovery
<1>5. ASSUME NEW s \in JOB_STATUSES, operatorRepair(j, s) PROVE AnswersOwned'
  BY <1>0, <1>1, <1>5, SetStatusAnswers DEF operatorRepair
<1>6. CASE blockForSession(j)
  BY <1>0, <1>6, StatusSets, SetStatusAnswers DEF blockForSession
<1>7. ASSUME NEW s \in JOB_STATUSES, unblockFromSession(j, s) PROVE AnswersOwned'
  BY <1>0, <1>7, SetStatusAnswers DEF unblockFromSession
<1>. QED
  BY <1>2, <1>3, <1>4, <1>5, <1>6, <1>7 DEF operatorStep

LEMMA SweepStepAnswers ==
  ASSUME TypeOK, AnswersOwned, NEW p \in Procs, sweepStep(p)
  PROVE  AnswersOwned'
<1>. USE DEF jobRow, outbox
<1>1. CASE readExpiredParked(p)
  BY <1>1 DEF readExpiredParked, graceCutoff, AnswersOwned
<1>2. CASE clearExpiredParked(p)
  BY <1>2, ReleaseRowsAnswers DEF clearExpiredParked
<1>3. CASE readExpiredActive(p)
  BY <1>3 DEF readExpiredActive, AnswersOwned
<1>4. ASSUME NEW plans \in SUBSET Jobs, requeueExpired(p, plans) PROVE AnswersOwned'
  <2>1. \A j \in Jobs : \/ status'[j] \in {"succeeded", "failed", "queued"}
                        \/ status'[j] = status[j] /\ token'[j] = token[j]
    <3>. DEFINE hits == RequeueHits(p)
    <3>1. \A j \in Jobs : j \in hits => status'[j] \in {"succeeded", "failed", "queued"}
      BY <1>4 DEF requeueExpired, TypeOK
    <3>2. \A j \in Jobs : j \notin hits => status'[j] = status[j] /\ token'[j] = token[j]
      BY <1>4 DEF requeueExpired, TypeOK
    <3>. QED
      BY <3>1, <3>2
  <2>2. {"succeeded", "failed", "queued"} \intersect PARKED_LEASE_STATUSES = {}
    BY DEF PARKED_LEASE_STATUSES
  <2>3. \A g \in Gates : effect'[g] = "pending" => effect[g] = "pending"
    BY <1>4 DEF requeueExpired, SettledEffects
  <2>4. gateJob' = gateJob
    BY <1>4 DEF requeueExpired
  <2>. QED
    BY <2>1, <2>2, <2>3, <2>4, AnswersKept
<1>. QED
  BY <1>1, <1>2, <1>3, <1>4 DEF sweepStep

LEMMA ProcessStepAnswers ==
  ASSUME TypeOK, AnswersOwned, NEW p \in Procs, bootStep(p) \/ crash(p) \/ forcedExit(p)
  PROVE  AnswersOwned'
<1>. USE DEF jobRow, outbox
<1>1. ASSUME NEW mayForce \in BOOLEAN, requeueOrphaned(p, mayForce) PROVE AnswersOwned'
  <2>1. \A j \in Jobs : \/ status'[j] \in {"failed", "queued"}
                        \/ status'[j] = status[j] /\ token'[j] = token[j]
    <3>. DEFINE hits == {j \in Jobs : /\ status[j] \in ACTIVE_LEASE_STATUSES
                                      /\ mayForce \/ expires[j] = NoTime \/ expires[j] < clock}
    <3>1. \A j \in Jobs : j \in hits => status'[j] \in {"failed", "queued"}
      BY <1>1 DEF requeueOrphaned, TypeOK
    <3>2. \A j \in Jobs : j \notin hits => status'[j] = status[j] /\ token'[j] = token[j]
      BY <1>1 DEF requeueOrphaned, TypeOK
    <3>. QED
      BY <3>1, <3>2
  <2>2. {"failed", "queued"} \intersect PARKED_LEASE_STATUSES = {}
    BY DEF PARKED_LEASE_STATUSES
  <2>3. effect' = effect /\ gateJob' = gateJob
    BY <1>1 DEF requeueOrphaned
  <2>. QED
    BY <2>1, <2>2, <2>3, AnswersKept
<1>2. ASSUME NEW j \in Jobs, consumeOrphan(p, j) PROVE AnswersOwned'
  <2>1. /\ status' = [status EXCEPT ![j] = ResumedStatus(j, status[j], token[j])]
        /\ token' = token /\ gateJob' = gateJob
        /\ effect' = SettledEffects({j}, status, token[j])
    BY <1>2 DEF consumeOrphan
  <2>2. \A g \in Gates : effect'[g] = "pending" => effect[g] = "pending"
    BY <2>1 DEF SettledEffects
  <2>3. ResumedStatus(j, status[j], token[j]) \in {status[j], "queued"}
    BY DEF ResumedStatus
  <2>4. "queued" \notin PARKED_LEASE_STATUSES
    BY DEF PARKED_LEASE_STATUSES
  <2>5. \A i \in Jobs : status'[i] \in {status[i], "queued"}
    BY <2>1, <2>3 DEF TypeOK
  <2>. QED
    BY <2>1, <2>2, <2>4, <2>5, AnswersKept
<1>3. CASE bootDone(p)
  BY <1>3 DEF bootDone, AnswersOwned
<1>4. CASE crash(p)
  BY <1>4 DEF crash, AnswersOwned
<1>5. CASE forcedExit(p)
  BY <1>5, ReleaseRowsAnswers DEF forcedExit
<1>. QED
  BY <1>1, <1>2, <1>3, <1>4, <1>5 DEF bootStep

LEMMA GateStepAnswers ==
  ASSUME TypeOK, AnswersOwned, NEW g \in Gates, requestParkedJobResumeAfterGate(g)
  PROVE  AnswersOwned'
<1>. DEFINE j == gateJob[g]
            outcome == ResumeOutcome(status[j], token[j])
<1>1. j \in Jobs /\ token' = token /\ gateJob' = gateJob
  BY DEF requestParkedJobResumeAfterGate, TypeOK
<1>2. status' = status \/ status' = [status EXCEPT ![j] = "queued"]
  BY DEF requestParkedJobResumeAfterGate
<1>3. "queued" \notin PARKED_LEASE_STATUSES
  BY DEF PARKED_LEASE_STATUSES
<1>4. \A i \in Jobs : status'[i] \in PARKED_LEASE_STATUSES => status[i] \in PARKED_LEASE_STATUSES
  BY <1>1, <1>2, <1>3 DEF TypeOK
<1>5. ASSUME NEW h \in Gates, effect'[h] = "pending"
      PROVE  effect[h] = "pending" \/ (gateJob[h] = j /\ outcome = "pending")
  BY <1>5 DEF requestParkedJobResumeAfterGate, TypeOK
<1>6. outcome = "pending" => token[j] # NoToken
  BY PendingNeedsLease
<1>. QED
  BY <1>1, <1>4, <1>5, <1>6 DEF AnswersOwned

\* A human's answer to a parked job never waits for nobody: while it is in the
\* outbox the parked row has a lease, whose release or expiry consumes it, over
\* any crashes, sweeps, repairs and repeated parks.
THEOREM AnswerHasConsumer == Spec => []AnsweredParkIsOwned
<1>1. Init => AnswersOwned
  BY DEF Init, AnswersOwned
<1>2. TypeOK /\ AnswersOwned /\ [Next]_vars => AnswersOwned'
  <2>. SUFFICES ASSUME TypeOK, AnswersOwned, [Next]_vars PROVE AnswersOwned'
    OBVIOUS
  <2>1. CASE tick
    BY <2>1 DEF tick, AnswersOwned, jobRow, outbox
  <2>2. CASE UNCHANGED vars
    BY <2>2 DEF vars, AnswersOwned, jobRow, outbox
  <2>. QED
    BY <2>1, <2>2, WorkerStepAnswers, OperatorStepAnswers, SweepStepAnswers,
       ProcessStepAnswers, GateStepAnswers DEF Next
<1>3. AnswersOwned => AnsweredParkIsOwned
  BY DEF AnswersOwned, AnsweredParkIsOwned
<1>. QED
  BY <1>1, <1>2, <1>3, TypeCorrect, PTL DEF Spec
-----------------------------------------------------------------------------
(* The sweep and the leases it takes *)

\* What a step may do to a row with a lease: clear it, grant a fresh one, or
\* renew it while it is not past its grace.
LeaseMoves ==
  \A j \in Jobs :
    \/ token'[j] = NoToken
    \/ token'[j] = nextToken
    \/ token'[j] = token[j] /\ (expires'[j] = expires[j] \/ expires[j] >= clock - Grace)

LEMMA SetStatusMoves ==
  ASSUME TypeOK, NEW j, NEW s, SetStatus(j, s)
  PROVE  LeaseMoves
<1>1. CASE s \in LEASE_HOLDING_STATUSES
  <2>1. token' = token /\ expires' = expires
    BY <1>1 DEF SetStatus
  <2>. QED
    BY <2>1 DEF LeaseMoves
<1>2. CASE s \notin LEASE_HOLDING_STATUSES
  <2>1. /\ token' = [token EXCEPT ![j] = NoToken]
        /\ expires' = [expires EXCEPT ![j] = NoTime]
    BY <1>2 DEF SetStatus
  <2>. QED
    BY <2>1 DEF TypeOK, LeaseMoves
<1>. QED
  BY <1>1, <1>2

LEMMA ReleaseRowsMoves ==
  ASSUME TypeOK, NEW Rows, NEW s, ReleaseRows(Rows, s)
  PROVE  LeaseMoves
BY DEF ReleaseRows, LeaseMoves

LEMMA WorkerStepMoves ==
  ASSUME TypeOK, NEW p \in Procs, workerStep(p)
  PROVE  LeaseMoves
<1>. USE DEF jobRow
<1>1. ASSUME NEW j \in Jobs, acquireLease(p, j) PROVE LeaseMoves
  <2>1. /\ token' = [token EXCEPT ![j] = nextToken]
        /\ expires' = [expires EXCEPT ![j] = clock + LeaseDuration]
    BY <1>1 DEF acquireLease, freshToken
  <2>. QED
    BY <2>1 DEF TypeOK, LeaseMoves
<1>2. CASE renewLease(p)
  <2>1. /\ workJob[p] \in Jobs /\ token' = token
        /\ expires[workJob[p]] >= clock - Grace
    BY <1>2 DEF renewLease, Renewable, HoldsToken, TypeOK
  <2>2. \A j \in Jobs : j # workJob[p] => expires'[j] = expires[j]
    BY <1>2 DEF renewLease, TypeOK
  <2>. QED
    BY <2>1, <2>2 DEF LeaseMoves
<1>3. CASE startRunning(p)
  BY <1>3, SetStatusMoves DEF startRunning
<1>4. CASE awaitAssessment(p)
  BY <1>4, SetStatusMoves DEF awaitAssessment
<1>5. ASSUME NEW s \in JOB_STATUSES, parkJob(p, s) PROVE LeaseMoves
  BY <1>5, SetStatusMoves DEF parkJob
<1>6. ASSUME NEW g \in Gates, spawnGate(p, g) PROVE LeaseMoves
  BY <1>6 DEF spawnGate, LeaseMoves
<1>7. ASSUME NEW s \in JOB_STATUSES, settleByVerdict(p, s) PROVE LeaseMoves
  BY <1>7, SetStatusMoves DEF settleByVerdict
<1>8. ASSUME NEW s \in JOB_STATUSES, releaseLease(p, s) PROVE LeaseMoves
  BY <1>8, ReleaseRowsMoves DEF releaseLease
<1>9. CASE loseLease(p)
  BY <1>9 DEF loseLease, LeaseMoves
<1>. QED
  BY <1>1, <1>2, <1>3, <1>4, <1>5, <1>6, <1>7, <1>8, <1>9 DEF workerStep

LEMMA OperatorStepMoves ==
  ASSUME TypeOK, NEW j \in Jobs, operatorStep(j)
  PROVE  LeaseMoves
BY SetStatusMoves DEF operatorStep, cancelJob, skipJob, requeueForRecovery, operatorRepair,
     blockForSession, unblockFromSession

LEMMA SweepStepMoves ==
  ASSUME TypeOK, NEW p \in Procs, sweepStep(p)
  PROVE  LeaseMoves
<1>. USE DEF jobRow
<1>1. CASE readExpiredParked(p) \/ readExpiredActive(p)
  BY <1>1 DEF readExpiredParked, graceCutoff, readExpiredActive, LeaseMoves
<1>2. CASE clearExpiredParked(p)
  BY <1>2, ReleaseRowsMoves DEF clearExpiredParked
<1>3. ASSUME NEW plans \in SUBSET Jobs, requeueExpired(p, plans) PROVE LeaseMoves
  BY <1>3 DEF requeueExpired, LeaseMoves
<1>. QED
  BY <1>1, <1>2, <1>3 DEF sweepStep

LEMMA ProcessStepMoves ==
  ASSUME TypeOK, NEW p \in Procs, bootStep(p) \/ crash(p) \/ forcedExit(p)
  PROVE  LeaseMoves
<1>. USE DEF jobRow
<1>1. ASSUME NEW mayForce \in BOOLEAN, requeueOrphaned(p, mayForce) PROVE LeaseMoves
  BY <1>1 DEF requeueOrphaned, LeaseMoves
<1>2. ASSUME NEW j \in Jobs, consumeOrphan(p, j) PROVE LeaseMoves
  BY <1>2 DEF consumeOrphan, LeaseMoves
<1>3. CASE bootDone(p) \/ crash(p)
  BY <1>3 DEF bootDone, crash, LeaseMoves
<1>4. CASE forcedExit(p)
  BY <1>4, ReleaseRowsMoves DEF forcedExit
<1>. QED
  BY <1>1, <1>2, <1>3, <1>4 DEF bootStep

LEMMA RowsMove ==
  ASSUME TypeOK, [Next]_vars
  PROVE  LeaseMoves /\ clock <= clock' /\ nextToken <= nextToken'
<1>. USE DEF jobRow
<1>1. LeaseMoves
  <2>1. ASSUME NEW g \in Gates, requestParkedJobResumeAfterGate(g) PROVE LeaseMoves
    BY <2>1 DEF requestParkedJobResumeAfterGate, LeaseMoves
  <2>2. CASE tick
    BY <2>2 DEF tick, LeaseMoves
  <2>3. CASE UNCHANGED vars
    BY <2>3 DEF vars, LeaseMoves
  <2>. QED
    BY <2>1, <2>2, <2>3, WorkerStepMoves, OperatorStepMoves, SweepStepMoves, ProcessStepMoves DEF Next
<1>2. nextToken <= nextToken'
  <2>1. CASE OnlyClears
    BY <2>1 DEF OnlyClears, TypeOK
  <2>2. ASSUME NEW p \in Procs, NEW j \in Jobs, acquireLease(p, j) PROVE nextToken <= nextToken'
    BY <2>2 DEF acquireLease, TypeOK
  <2>. QED
    BY <2>1, <2>2, StepShape
<1>3. clock' = clock \/ clock' = clock + 1
  BY DEF Next, vars, workerStep, operatorStep, sweepStep, bootStep, acquireLease, renewLease,
     startRunning, awaitAssessment, parkJob, spawnGate, settleByVerdict, releaseLease, loseLease,
     cancelJob, skipJob, requeueForRecovery, operatorRepair, blockForSession, unblockFromSession,
     readExpiredParked, clearExpiredParked, readExpiredActive, requeueExpired, requeueOrphaned,
     consumeOrphan, bootDone, crash, forcedExit, requestParkedJobResumeAfterGate, tick
<1>. QED
  BY <1>1, <1>2, <1>3 DEF TypeOK

\* What a step may do to a sweep under way, other than begin it.
SweepMoves(p) ==
  /\ sweep'[p] = "parkedRead" => sweep[p] = "parkedRead" /\ seen'[p] = seen[p]
  /\ sweep'[p] # "idle" => sweep[p] # "idle" /\ cutoff'[p] = cutoff[p]
  /\ \A j \in Jobs : seen'[p][j] \in {seen[p][j], token[j], NoToken}

LEMMA SweepersMove ==
  ASSUME TypeOK, [Next]_vars, NEW p \in Procs
  PROVE  SweepMoves(p) \/ readExpiredParked(p)
<1>0. ASSUME UNCHANGED sweeper PROVE SweepMoves(p)
  BY <1>0 DEF sweeper, SweepMoves
<1>1. ASSUME NEW q \in Procs, workerStep(q) PROVE SweepMoves(p)
  BY <1>0, <1>1 DEF workerStep, acquireLease, renewLease, startRunning, awaitAssessment, parkJob,
     spawnGate, settleByVerdict, releaseLease, loseLease
<1>2. ASSUME NEW j \in Jobs, operatorStep(j) PROVE SweepMoves(p)
  BY <1>0, <1>2 DEF operatorStep, cancelJob, skipJob, requeueForRecovery, operatorRepair,
     blockForSession, unblockFromSession
<1>3. ASSUME NEW q \in Procs, sweepStep(q), ~readExpiredParked(p) PROVE SweepMoves(p)
  <2>1. CASE readExpiredParked(q)
    <3>1. p # q
      BY <1>3, <2>1
    <3>2. sweep'[p] = sweep[p] /\ cutoff'[p] = cutoff[p] /\ seen'[p] = seen[p]
      BY <2>1, <3>1 DEF readExpiredParked, graceCutoff, TypeOK
    <3>. QED
      BY <3>2 DEF SweepMoves
  <2>2. CASE clearExpiredParked(q)
    BY <2>2 DEF clearExpiredParked, SweepMoves, TypeOK
  <2>3. CASE readExpiredActive(q)
    <3>1. CASE p = q
      BY <2>3, <3>1 DEF readExpiredActive, SweepMoves, Snapshot, TypeOK
    <3>2. CASE p # q
      BY <2>3, <3>2 DEF readExpiredActive, SweepMoves, TypeOK
    <3>. QED
      BY <3>1, <3>2
  <2>4. ASSUME NEW plans \in SUBSET Jobs, requeueExpired(q, plans) PROVE SweepMoves(p)
    <3>1. CASE p = q
      BY <2>4, <3>1 DEF requeueExpired, SweepMoves, Snapshot, TypeOK
    <3>2. CASE p # q
      BY <2>4, <3>2 DEF requeueExpired, SweepMoves, TypeOK
    <3>. QED
      BY <3>1, <3>2
  <2>. QED
    BY <1>3, <2>1, <2>2, <2>3, <2>4 DEF sweepStep
<1>4. ASSUME NEW q \in Procs, bootStep(q) \/ crash(q) \/ forcedExit(q) PROVE SweepMoves(p)
  <2>1. ASSUME ProcessGone(q) PROVE SweepMoves(p)
    <3>1. CASE p = q
      BY <2>1, <3>1 DEF ProcessGone, SweepMoves, Snapshot, TypeOK
    <3>2. CASE p # q
      BY <2>1, <3>2 DEF ProcessGone, SweepMoves, TypeOK
    <3>. QED
      BY <3>1, <3>2
  <2>. QED
    BY <1>0, <1>4, <2>1 DEF bootStep, crash, forcedExit, requeueOrphaned, consumeOrphan, bootDone
<1>5. ASSUME NEW g \in Gates, requestParkedJobResumeAfterGate(g) PROVE SweepMoves(p)
  BY <1>0, <1>5 DEF requestParkedJobResumeAfterGate
<1>6. CASE tick \/ UNCHANGED vars
  BY <1>0, <1>6 DEF tick, vars
<1>. QED
  BY <1>1, <1>2, <1>3, <1>4, <1>5, <1>6 DEF Next

\* The strengthening: a sweep's cutoff is not ahead of the clock, its snapshot
\* holds no token of the future, and a lease it read as expired in the parked
\* half is still expired as long as the row has the same token.
SweepFenced ==
  \A p \in Procs :
    /\ sweep[p] # "idle" => cutoff[p] <= clock - Grace
    /\ \A j \in Jobs : seen[p][j] < nextToken
    /\ \A j \in Jobs : sweep[p] = "parkedRead" /\ seen[p][j] # NoToken /\ token[j] = seen[p][j]
         => expires[j] < cutoff[p]

LEMMA SweepStaysFenced ==
  ASSUME TypeOK, TypeOK', LeaseWellFormed, TokensFenced, SweepFenced, [Next]_vars
  PROVE  SweepFenced'
<1>. SUFFICES ASSUME NEW p \in Procs
     PROVE  /\ sweep'[p] # "idle" => cutoff'[p] <= clock' - Grace
            /\ \A j \in Jobs : seen'[p][j] < nextToken'
            /\ \A j \in Jobs : sweep'[p] = "parkedRead" /\ seen'[p][j] # NoToken /\ token'[j] = seen'[p][j]
                 => expires'[j] < cutoff'[p]
  BY DEF SweepFenced
<1>0. /\ clock \in Nat /\ clock' \in Nat /\ nextToken \in Nat \ {0} /\ nextToken' \in Nat
      /\ cutoff[p] \in Int /\ cutoff'[p] \in Int
      /\ \A j \in Jobs : /\ seen[p][j] \in Nat /\ seen'[p][j] \in Nat
                         /\ token[j] \in Nat /\ token'[j] \in Nat
                         /\ expires[j] \in Nat /\ expires'[j] \in Nat
  BY DEF TypeOK
<1>00. LeaseMoves /\ clock <= clock' /\ nextToken <= nextToken'
  BY RowsMove
<1>1. CASE SweepMoves(p)
  <2>1. sweep'[p] # "idle" => cutoff'[p] <= clock' - Grace
    BY <1>0, <1>00, <1>1 DEF SweepFenced, SweepMoves
  <2>2. \A j \in Jobs : seen'[p][j] < nextToken'
    BY <1>0, <1>00, <1>1 DEF SweepFenced, SweepMoves, TokensFenced
  <2>3. ASSUME NEW j \in Jobs, sweep'[p] = "parkedRead", seen'[p][j] # NoToken, token'[j] = seen'[p][j]
        PROVE  expires'[j] < cutoff'[p]
    <3>1. /\ sweep[p] = "parkedRead" /\ seen'[p] = seen[p] /\ cutoff'[p] = cutoff[p]
          /\ cutoff[p] <= clock - Grace
      BY <1>1, <2>3 DEF SweepMoves, SweepFenced
    <3>2. token'[j] < nextToken /\ token'[j] # NoToken
      BY <2>3, <3>1 DEF SweepFenced
    <3>3. token'[j] = token[j] /\ (expires'[j] = expires[j] \/ expires[j] >= clock - Grace)
      BY <1>0, <1>00, <3>2 DEF LeaseMoves
    <3>4. expires[j] < cutoff[p]
      BY <2>3, <3>1, <3>3 DEF SweepFenced
    <3>. QED
      BY <1>0, <3>1, <3>3, <3>4
  <2>. QED
    BY <2>1, <2>2, <2>3
<1>2. CASE readExpiredParked(p)
  <2>. DEFINE cut == clock - Grace
              Rows == {j \in Jobs : /\ status[j] \in PARKED_LEASE_STATUSES
                                    /\ token[j] # NoToken
                                    /\ expires[j] = NoTime \/ expires[j] < cut}
  <2>1. /\ sweep'[p] = "parkedRead" /\ cutoff'[p] = cut
        /\ seen'[p] = Snapshot(Rows)
        /\ token' = token /\ expires' = expires /\ clock' = clock
    BY <1>2 DEF readExpiredParked, graceCutoff, jobRow, TypeOK
  <2>2. \A j \in Jobs : seen'[p][j] = IF j \in Rows THEN token[j] ELSE NoToken
    BY <2>1 DEF Snapshot
  <2>3. \A j \in Jobs : j \in Rows => expires[j] < cut
    BY DEF LeaseWellFormed
  <2>4. \A j \in Jobs : seen'[p][j] < nextToken'
    BY <1>0, <1>00, <2>2 DEF TokensFenced
  <2>. QED
    BY <1>0, <2>1, <2>2, <2>3, <2>4
<1>. QED
  BY <1>1, <1>2, SweepersMove

\* requeueExpiredLeases takes no live lease: although each of its halves reads
\* its candidates before the transaction that changes them, and the update of
\* the parked half does not look at the expiry again, a lease it takes away is
\* past its grace at that moment, whatever other processes did in between.
THEOREM SweepTakesExpiredOnly == Spec => SweepNeverStealsLiveLease
<1>1. Init => TokensFenced /\ SweepFenced
  BY DEF Init, TokensFenced, SweepFenced, Snapshot
<1>2. TypeOK /\ TypeOK' /\ LeaseWellFormed /\ TokensFenced /\ SweepFenced /\ [Next]_vars
        => TokensFenced' /\ SweepFenced'
  BY TokensStayFenced, SweepStaysFenced
<1>. DEFINE Taken == \A p \in Procs :
       sweep[p] \in {"parkedRead", "activeRead"} /\ sweep'[p] # sweep[p] /\ mode'[p] = "up"
         => \A j \in Jobs : token'[j] # token[j] => expires[j] < clock - Grace
<1>3. TypeOK /\ SweepFenced /\ [Next]_vars => [Taken]_vars
  <2>. SUFFICES ASSUME TypeOK, SweepFenced, [Next]_vars, NEW p \in Procs,
                       sweep[p] \in {"parkedRead", "activeRead"}, sweep'[p] # sweep[p], mode'[p] = "up",
                       NEW j \in Jobs, token'[j] # token[j]
                PROVE  expires[j] < clock - Grace
    OBVIOUS
  <2>0. cutoff[p] <= clock - Grace /\ clock \in Nat /\ cutoff[p] \in Int /\ expires[j] \in Nat
    BY DEF SweepFenced, TypeOK
  <2>1. ASSUME UNCHANGED sweeper PROVE FALSE
    BY <2>1 DEF sweeper
  <2>2. ASSUME NEW q \in Procs, workerStep(q) PROVE FALSE
    BY <2>1, <2>2 DEF workerStep, acquireLease, renewLease, startRunning, awaitAssessment, parkJob,
       spawnGate, settleByVerdict, releaseLease, loseLease
  <2>3. ASSUME NEW i \in Jobs, operatorStep(i) PROVE FALSE
    BY <2>1, <2>3 DEF operatorStep, cancelJob, skipJob, requeueForRecovery, operatorRepair,
       blockForSession, unblockFromSession
  <2>4. ASSUME NEW q \in Procs, sweepStep(q) PROVE expires[j] < clock - Grace
    <3>1. CASE readExpiredParked(q) \/ readExpiredActive(q)
      BY <3>1 DEF readExpiredParked, graceCutoff, readExpiredActive, jobRow
    <3>2. CASE clearExpiredParked(q)
      <4>1. p = q /\ sweep[p] = "parkedRead"
        BY <3>2 DEF clearExpiredParked, TypeOK
      <4>2. j \in ClearParkedHits(p)
        BY <3>2, <4>1 DEF clearExpiredParked, ReleaseRows
      <4>3. expires[j] < cutoff[p]
        BY <4>1, <4>2 DEF ClearParkedHits, SweepFenced
      <4>. QED
        BY <2>0, <4>3
    <3>3. ASSUME NEW plans \in SUBSET Jobs, requeueExpired(q, plans) PROVE expires[j] < clock - Grace
      <4>1. p = q
        BY <3>3 DEF requeueExpired, TypeOK
      <4>2. j \in RequeueHits(p)
        BY <3>3, <4>1 DEF requeueExpired
      <4>3. expires[j] < cutoff[p]
        BY <4>2 DEF RequeueHits
      <4>. QED
        BY <2>0, <4>3
    <3>. QED
      BY <2>4, <3>1, <3>2, <3>3 DEF sweepStep
  <2>5. ASSUME NEW q \in Procs, bootStep(q) \/ crash(q) \/ forcedExit(q) PROVE FALSE
    <3>1. ASSUME ProcessGone(q) PROVE FALSE
      <4>1. p = q
        BY <3>1 DEF ProcessGone, TypeOK
      <4>. QED
        BY <3>1, <4>1 DEF ProcessGone, TypeOK
    <3>. QED
      BY <2>1, <2>5, <3>1 DEF bootStep, crash, forcedExit, requeueOrphaned, consumeOrphan, bootDone
  <2>6. ASSUME NEW g \in Gates, requestParkedJobResumeAfterGate(g) PROVE FALSE
    BY <2>1, <2>6 DEF requestParkedJobResumeAfterGate
  <2>7. CASE tick \/ UNCHANGED vars
    BY <2>1, <2>7 DEF tick, vars
  <2>. QED
    BY <2>2, <2>3, <2>4, <2>5, <2>6, <2>7 DEF Next
<1>. QED
  BY <1>1, <1>2, <1>3, TypeCorrect, LeaseColumnsConsistent, PTL DEF Spec, SweepNeverStealsLiveLease
-----------------------------------------------------------------------------
(* When an answer counts as applied *)

AppliedStep(g) ==
  effect[g] # "completed" /\ effect'[g] = "completed"
    => status'[gateJob[g]] = "queued" /\ token'[gateJob[g]] = NoToken

LEMMA ReleaseRowsApplied ==
  ASSUME TypeOK, NEW Rows \in SUBSET Jobs, NEW s, ReleaseRows(Rows, s), NEW g \in Gates
  PROVE  AppliedStep(g)
<1>. SUFFICES ASSUME effect[g] # "completed", effect'[g] = "completed"
              PROVE  status'[gateJob[g]] = "queued" /\ token'[gateJob[g]] = NoToken
  BY DEF AppliedStep
<1>1. effect' = SettledEffects(Rows, s, NoToken)
  BY DEF ReleaseRows
<1>2. effect[g] = "pending" /\ gateJob[g] \in Rows
  BY <1>1 DEF SettledEffects
<1>3. ResumeOutcome(s[gateJob[g]], NoToken) = "completed"
  BY <1>1, <1>2 DEF SettledEffects
<1>4. ResumedStatus(gateJob[g], s[gateJob[g]], NoToken) = "queued"
  BY <1>2, <1>3 DEF ResumedStatus, PendingResume
<1>. QED
  BY <1>2, <1>4 DEF ReleaseRows

\* The outcome "completed" is given to a row without a lease.
LEMMA CompletedIsUnleased ==
  ASSUME LeaseWellFormed, NEW j \in Jobs, ResumeOutcome(status[j], token[j]) = "completed"
  PROVE  token[j] = NoToken
BY StatusSets DEF ResumeOutcome, LeaseWellFormed

\* An answer is reported as applied only in the step that leaves its job queued
\* and without a lease: no live lease is forced away for it, and no answer is
\* marked applied on a job that something else took out of the queue.
THEOREM AnswerAppliedToQueue == Spec => AppliedAnswerIsQueued
<1>. DEFINE Step == \A g \in Gates : effect[g] # "completed" /\ effect'[g] = "completed"
                      => status'[gateJob[g]] = "queued" /\ token'[gateJob[g]] = NoToken
<1>1. TypeOK /\ LeaseWellFormed /\ [Next]_vars => [Step]_vars
  <2>. SUFFICES ASSUME TypeOK, LeaseWellFormed, [Next]_vars, NEW g \in Gates
                PROVE  AppliedStep(g)
    BY DEF AppliedStep
  <2>1. ASSUME effect'[g] = effect[g] \/ effect'[g] = "retired" PROVE AppliedStep(g)
    BY <2>1 DEF AppliedStep
  <2>2. ASSUME NEW p \in Procs, workerStep(p) PROVE AppliedStep(g)
    <3>1. ASSUME NEW s \in JOB_STATUSES, releaseLease(p, s) PROVE AppliedStep(g)
      <4>1. workJob[p] \in Jobs
        BY <3>1 DEF releaseLease, HoldsToken, TypeOK
      <4>. QED
        BY <3>1, <4>1, ReleaseRowsApplied DEF releaseLease
    <3>. QED
      BY <2>1, <2>2, <3>1 DEF workerStep, acquireLease, renewLease, startRunning, awaitAssessment,
         parkJob, spawnGate, settleByVerdict, loseLease, outbox
  <2>3. ASSUME NEW j \in Jobs, operatorStep(j) PROVE AppliedStep(g)
    <3>1. ASSUME RetireGates(j) PROVE AppliedStep(g)
      BY <2>1, <3>1 DEF RetireGates
    <3>. QED
      BY <2>1, <2>3, <3>1 DEF operatorStep, cancelJob, skipJob, requeueForRecovery, operatorRepair,
         blockForSession, unblockFromSession, outbox
  <2>4. ASSUME NEW p \in Procs, sweepStep(p) PROVE AppliedStep(g)
    <3>1. CASE readExpiredParked(p) \/ readExpiredActive(p)
      BY <2>1, <3>1 DEF readExpiredParked, graceCutoff, readExpiredActive, outbox
    <3>2. CASE clearExpiredParked(p)
      BY <3>2, ReleaseRowsApplied DEF clearExpiredParked, ClearParkedHits
    <3>3. ASSUME NEW plans \in SUBSET Jobs, requeueExpired(p, plans) PROVE AppliedStep(g)
      <4>. DEFINE rest == RequeueHits(p) \ (plans \union (RequeueHits(p) \intersect WarmJobs))
      <4>. SUFFICES ASSUME effect[g] # "completed", effect'[g] = "completed"
                    PROVE  status'[gateJob[g]] = "queued" /\ token'[gateJob[g]] = NoToken
        BY DEF AppliedStep
      <4>1. effect' = SettledEffects(rest, [j \in Jobs |-> "queued"], NoToken)
        BY <3>3 DEF requeueExpired
      <4>2. gateJob[g] \in rest
        BY <4>1 DEF SettledEffects
      <4>3. gateJob[g] \in Jobs
        BY <4>2 DEF RequeueHits
      <4>4. status'[gateJob[g]] = "queued"
        BY <3>3, <4>2, <4>3 DEF requeueExpired
      <4>5. token'[gateJob[g]] = NoToken
        BY <3>3, <4>2, <4>3 DEF requeueExpired
      <4>. QED
        BY <4>4, <4>5
    <3>. QED
      BY <2>4, <3>1, <3>2, <3>3 DEF sweepStep
  <2>5. ASSUME NEW p \in Procs, bootStep(p) \/ crash(p) \/ forcedExit(p) PROVE AppliedStep(g)
    <3>1. CASE forcedExit(p)
      BY <3>1, ReleaseRowsApplied DEF forcedExit
    <3>2. ASSUME NEW j \in Jobs, consumeOrphan(p, j) PROVE AppliedStep(g)
      <4>. SUFFICES ASSUME effect[g] # "completed", effect'[g] = "completed"
                    PROVE  status'[gateJob[g]] = "queued" /\ token'[gateJob[g]] = NoToken
        BY DEF AppliedStep
      <4>1. effect' = SettledEffects({j}, status, token[j]) /\ token' = token
        BY <3>2 DEF consumeOrphan
      <4>2. effect[g] = "pending" /\ gateJob[g] = j /\ ResumeOutcome(status[j], token[j]) = "completed"
        BY <4>1 DEF SettledEffects
      <4>3. ResumedStatus(j, status[j], token[j]) = "queued"
        BY <4>2 DEF ResumedStatus, PendingResume
      <4>. QED
        BY <3>2, <4>1, <4>2, <4>3, CompletedIsUnleased DEF consumeOrphan, TypeOK
    <3>. QED
      BY <2>1, <2>5, <3>1, <3>2 DEF bootStep, crash, requeueOrphaned, bootDone, outbox
  <2>6. ASSUME NEW h \in Gates, requestParkedJobResumeAfterGate(h) PROVE AppliedStep(g)
    <3>. SUFFICES ASSUME effect[g] # "completed", effect'[g] = "completed"
                  PROVE  status'[gateJob[g]] = "queued" /\ token'[gateJob[g]] = NoToken
      BY DEF AppliedStep
    <3>. DEFINE j == gateJob[h]
                resumable == status[j] = "queued" \/ status[j] \in HUMAN_GATE_RESUMABLE_JOB_STATUSES
                outcome == ResumeOutcome(status[j], token[j])
    <3>1. j \in Jobs /\ token' = token
      BY <2>6 DEF requestParkedJobResumeAfterGate, TypeOK
    <3>2. resumable
      BY <2>6 DEF requestParkedJobResumeAfterGate, TypeOK
    <3>3. gateJob[g] = j /\ outcome = "completed"
      BY <2>6, <3>2 DEF requestParkedJobResumeAfterGate, TypeOK
    <3>4. status' = [status EXCEPT ![j] = "queued"]
      BY <2>6, <3>2, <3>3 DEF requestParkedJobResumeAfterGate
    <3>5. token[j] = NoToken
      BY <3>1, <3>3, CompletedIsUnleased
    <3>. QED
      BY <3>1, <3>3, <3>4, <3>5 DEF TypeOK
  <2>7. CASE tick \/ UNCHANGED vars
    BY <2>1, <2>7 DEF tick, vars, outbox
  <2>. QED
    BY <2>2, <2>3, <2>4, <2>5, <2>6, <2>7 DEF Next
<1>. QED
  BY <1>1, TypeCorrect, LeaseColumnsConsistent, PTL DEF Spec, AppliedAnswerIsQueued

-----------------------------------------------------------------------------
(* Finished jobs *)

Finished(j) == status[j] \in TERMINAL_JOB_STATUSES

\* A finished row stays finished in a step that releases other rows only.
LEMMA ReleaseRowsFinished ==
  ASSUME NEW Rows, NEW s, ReleaseRows(Rows, s), NEW j \in Jobs, Finished(j), j \notin Rows
  PROVE  Finished(j)'
BY DEF ReleaseRows, Finished

LEMMA SetStatusFinished ==
  ASSUME TypeOK, NEW i \in Jobs, NEW s \in JOB_STATUSES, SetStatus(i, s), NEW j \in Jobs, Finished(j),
         i # j \/ s \in TERMINAL_JOB_STATUSES
  PROVE  Finished(j)'
<1>1. status' = [status EXCEPT ![i] = s]
  BY DEF SetStatus
<1>. QED
  BY <1>1 DEF Finished, TypeOK

LEMMA WorkerStepFinished ==
  ASSUME TypeOK, NEW p \in Procs, workerStep(p), NEW j \in Jobs, Finished(j)
  PROVE  Finished(j)'
<1>0. LEASE_HOLDING_STATUSES \intersect TERMINAL_JOB_STATUSES = {} /\ "queued" \notin TERMINAL_JOB_STATUSES
      /\ {"leased", "running", "awaiting_assessment"} \subseteq LEASE_HOLDING_STATUSES
  BY StatusSets
<1>. USE DEF jobRow
<1>1. ASSUME NEW i \in Jobs, acquireLease(p, i) PROVE Finished(j)'
  <2>1. status[i] = "queued" /\ status' = [status EXCEPT ![i] = "leased"]
    BY <1>1 DEF acquireLease, Leasable
  <2>. QED
    BY <1>0, <2>1 DEF Finished, TypeOK
<1>2. CASE renewLease(p) \/ loseLease(p)
  BY <1>2 DEF renewLease, loseLease, Finished
<1>3. ASSUME NEW g \in Gates, spawnGate(p, g) PROVE Finished(j)'
  BY <1>3 DEF spawnGate, Finished
<1>4. ASSUME NEW s \in JOB_STATUSES, SetStatus(workJob[p], s), workJob[p] \in Jobs,
             status[workJob[p]] \in LEASE_HOLDING_STATUSES
      PROVE  Finished(j)'
  BY <1>0, <1>4, SetStatusFinished DEF Finished
<1>5. CASE startRunning(p)
  <2>1. workJob[p] \in Jobs
    BY <1>5 DEF startRunning, HoldsToken, TypeOK
  <2>. QED
    BY <1>0, <1>4, <1>5, <2>1, StatusSets DEF startRunning
<1>6. CASE awaitAssessment(p)
  <2>1. workJob[p] \in Jobs
    BY <1>6 DEF awaitAssessment, HoldsToken, TypeOK
  <2>. QED
    BY <1>0, <1>4, <1>6, <2>1, StatusSets DEF awaitAssessment
<1>7. ASSUME NEW s \in JOB_STATUSES, parkJob(p, s) PROVE Finished(j)'
  <2>1. workJob[p] \in Jobs
    BY <1>7 DEF parkJob, HoldsToken, TypeOK
  <2>. QED
    BY <1>0, <1>4, <1>7, <2>1 DEF parkJob
<1>8. ASSUME NEW s \in JOB_STATUSES, settleByVerdict(p, s) PROVE Finished(j)'
  <2>1. workJob[p] \in Jobs
    BY <1>8 DEF settleByVerdict, HoldsToken, TypeOK
  <2>. QED
    BY <1>0, <1>4, <1>8, <2>1 DEF settleByVerdict
<1>9. ASSUME NEW s \in JOB_STATUSES, releaseLease(p, s) PROVE Finished(j)'
  <2>1. j # workJob[p]
    BY <1>0, <1>9 DEF releaseLease, Finished
  <2>. QED
    BY <1>9, <2>1, ReleaseRowsFinished DEF releaseLease
<1>. QED
  BY <1>1, <1>2, <1>3, <1>5, <1>6, <1>7, <1>8, <1>9 DEF workerStep

LEMMA RecoveryStepFinished ==
  ASSUME TypeOK, NEW p \in Procs, sweepStep(p) \/ bootStep(p) \/ crash(p) \/ forcedExit(p),
         NEW j \in Jobs, Finished(j)
  PROVE  Finished(j)'
<1>0. status[j] \notin ACTIVE_LEASE_STATUSES /\ status[j] \notin PARKED_LEASE_STATUSES
  BY StatusSets DEF Finished
<1>. USE DEF jobRow
<1>1. CASE readExpiredParked(p) \/ readExpiredActive(p) \/ bootDone(p) \/ crash(p)
  BY <1>1 DEF readExpiredParked, graceCutoff, readExpiredActive, bootDone, crash, Finished
<1>2. CASE clearExpiredParked(p)
  BY <1>0, <1>2, ReleaseRowsFinished DEF clearExpiredParked, ClearParkedHits
<1>3. ASSUME NEW plans \in SUBSET Jobs, requeueExpired(p, plans) PROVE Finished(j)'
  <2>1. j \notin RequeueHits(p)
    BY <1>0 DEF RequeueHits
  <2>2. status'[j] = status[j]
    BY <1>3, <2>1 DEF requeueExpired
  <2>. QED
    BY <2>2 DEF Finished
<1>4. ASSUME NEW mayForce \in BOOLEAN, requeueOrphaned(p, mayForce) PROVE Finished(j)'
  <2>1. status'[j] = status[j]
    BY <1>0, <1>4 DEF requeueOrphaned
  <2>. QED
    BY <2>1 DEF Finished
<1>5. ASSUME NEW i \in Jobs, consumeOrphan(p, i) PROVE Finished(j)'
  <2>1. status' = [status EXCEPT ![i] = ResumedStatus(i, status[i], token[i])]
    BY <1>5 DEF consumeOrphan
  <2>2. i = j => ResumedStatus(i, status[i], token[i]) = status[j]
    <3>1. status[j] # "queued" /\ status[j] \notin HUMAN_GATE_RESUMABLE_JOB_STATUSES
      BY DEF Finished, TERMINAL_JOB_STATUSES, HUMAN_GATE_RESUMABLE_JOB_STATUSES, PARKED_JOB_STATUSES,
         PARKED_LEASE_STATUSES
    <3>2. ResumeOutcome(status[j], token[j]) # "completed"
      BY <3>1 DEF ResumeOutcome
    <3>. QED
      BY <3>2 DEF ResumedStatus
  <2>. QED
    BY <2>1, <2>2 DEF Finished, TypeOK
<1>6. CASE forcedExit(p)
  BY <1>0, <1>6, ReleaseRowsFinished DEF forcedExit
<1>. QED
  BY <1>1, <1>2, <1>3, <1>4, <1>5, <1>6 DEF sweepStep, bootStep

\* A finished job runs again only because an operator reopened it: no late
\* release of a worker, stale sweep, orphan recovery or delayed answer revives
\* it.
THEOREM FinishedStaysFinished == Spec => OnlyOperatorReopens
<1>. DEFINE Step == \A j \in Jobs :
       status[j] \in TERMINAL_JOB_STATUSES /\ status'[j] \notin TERMINAL_JOB_STATUSES
         => requeueForRecovery(j) \/ operatorRepair(j, "queued")
<1>1. TypeOK /\ [Next]_vars => [Step]_vars
  <2>. SUFFICES ASSUME TypeOK, [Next]_vars, NEW j \in Jobs, Finished(j),
                       ~requeueForRecovery(j), ~operatorRepair(j, "queued")
                PROVE  Finished(j)'
    BY DEF Finished
  <2>1. ASSUME NEW i \in Jobs, operatorStep(i) PROVE Finished(j)'
    <3>0. {"succeeded", "failed", "canceled"} \subseteq TERMINAL_JOB_STATUSES
          /\ {"succeeded", "failed", "canceled", "queued", "blocked"} \subseteq JOB_STATUSES
          /\ "queued" \notin TERMINAL_JOB_STATUSES /\ "blocked" \notin TERMINAL_JOB_STATUSES
      BY StatusSets DEF TERMINAL_JOB_STATUSES
    <3>1. CASE cancelJob(i)
      BY <3>0, <3>1, SetStatusFinished DEF cancelJob
    <3>2. CASE skipJob(i)
      BY <3>0, <3>2, SetStatusFinished DEF skipJob
    <3>3. CASE requeueForRecovery(i)
      BY <3>0, <3>3, SetStatusFinished DEF requeueForRecovery
    <3>4. ASSUME NEW s \in JOB_STATUSES, operatorRepair(i, s) PROVE Finished(j)'
      <4>1. i # j \/ s = "succeeded"
        BY <3>4 DEF operatorRepair
      <4>. QED
        BY <3>0, <3>4, <4>1, SetStatusFinished DEF operatorRepair
    <3>5. CASE blockForSession(i)
      BY <3>0, <3>5, SetStatusFinished DEF blockForSession, Finished
    <3>6. ASSUME NEW s \in JOB_STATUSES, unblockFromSession(i, s) PROVE Finished(j)'
      BY <3>0, <3>6, SetStatusFinished DEF unblockFromSession, Finished
    <3>. QED
      BY <2>1, <3>1, <3>2, <3>3, <3>4, <3>5, <3>6 DEF operatorStep
  <2>2. ASSUME NEW g \in Gates, requestParkedJobResumeAfterGate(g) PROVE Finished(j)'
    <3>1. status[j] # "queued" /\ status[j] \notin HUMAN_GATE_RESUMABLE_JOB_STATUSES
      BY DEF Finished, TERMINAL_JOB_STATUSES, HUMAN_GATE_RESUMABLE_JOB_STATUSES, PARKED_JOB_STATUSES,
         PARKED_LEASE_STATUSES
    <3>2. \/ status' = status
          \/ gateJob[g] # j /\ status' = [status EXCEPT ![gateJob[g]] = "queued"]
      BY <2>2, <3>1 DEF requestParkedJobResumeAfterGate
    <3>. QED
      BY <3>2 DEF Finished, TypeOK
  <2>3. CASE tick \/ UNCHANGED vars
    BY <2>3 DEF tick, vars, jobRow, Finished
  <2>. QED
    BY <2>1, <2>2, <2>3, WorkerStepFinished, RecoveryStepFinished DEF Next
<1>. QED
  BY <1>1, TypeCorrect, PTL DEF Spec, OnlyOperatorReopens

=============================================================================
